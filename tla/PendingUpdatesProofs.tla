------------------------ MODULE PendingUpdatesProofs ------------------------
(***************************************************************************)
(* Proofs about the panel's queue, for every set of versions, windows and  *)
(* releases and any number of rows.                                        *)
(*                                                                         *)
(* A request changes rows in one of two ways: it sets outcome columns of   *)
(* rows that are there (OnlyMarked), or it appends one row whose version   *)
(* does not wait (Added).  Each part of the invariant is shown once for    *)
(* each of the two.                                                        *)
(***************************************************************************)
EXTENDS PendingUpdates, FiniteSetTheorems, TLAPS

\* q is r with, perhaps, further outcome columns set.
Marks(r, q) ==
    /\ q.target = r.target
    /\ q.byHuman = r.byHuman
    /\ q.shaOk = r.shaOk
    /\ r.applied => q.applied
    /\ IsPending(q) => IsPending(r)

\* Rows keep their version, origin and manifest, stay applied, and never wait
\* again.
OnlyMarked ==
    /\ DOMAIN rows' = DOMAIN rows
    /\ \A i \in DOMAIN rows : Marks(rows[i], rows'[i])

Added(r) == ~Queued(r.target) /\ rows' = Append(rows, r)

(* What SELECT 2 of autoQueueIfBehind has found still holds when its INSERT
   runs: at most one automatic row of the version exists, and if one does,
   a row of the version has been applied. *)
QueueingJustified ==
    hb.at = "insert" =>
        /\ \A i, j \in AutoRows(hb.target) : i = j
        /\ AutoRows(hb.target) # {} => AppliedFor(hb.target) # {}

QueueInv ==
    /\ QueueTypeOK
    /\ UniqueWaiting
    /\ RequeueBounded
    /\ RetryOnlyAfterApplied
    /\ QueueingJustified

-----------------------------------------------------------------------------
(* Sets with two members *)

\* Two different members make at least two.
LEMMA TwoMembers ==
    ASSUME NEW S, IsFiniteSet(S), NEW a \in S, NEW b \in S, a # b
    PROVE  Cardinality(S) >= 2
  <1>1. /\ IsFiniteSet({a})
        /\ Cardinality({a}) = 1
    BY FS_Singleton
  <1>2. /\ IsFiniteSet({a} \cup {b})
        /\ Cardinality({a} \cup {b}) = 2
    BY <1>1, FS_AddElement
  <1>3. Cardinality({a} \cup {b}) <= Cardinality(S)
    BY FS_Subset, {a} \cup {b} \subseteq S
  <1>4. Cardinality(S) \in Nat
    BY FS_CardinalityType
  <1> QED BY <1>2, <1>3, <1>4

\* The rows of a version are finitely many.
LEMMA AppliedFinite ==
    ASSUME rows \in Seq(Row), NEW v
    PROVE  IsFiniteSet(AppliedFor(v))
  <1>1. AppliedFor(v) \subseteq 1..Len(rows) /\ Len(rows) \in Nat
    BY DEF AppliedFor, RowsFor
  <1>2. IsFiniteSet(1..Len(rows))
    BY <1>1, FS_Interval
  <1> QED BY <1>1, <1>2, FS_Subset

-----------------------------------------------------------------------------
(* Types *)

\* A row with an outcome column set is a row, of the same version and origin.
LEMMA MarkedRow ==
    ASSUME NEW r \in Row,
           NEW q \in {[r EXCEPT !.applied = TRUE], [r EXCEPT !.cancelled = TRUE],
                      [r EXCEPT !.failed = TRUE]}
    PROVE  q \in Row /\ Marks(r, q)
  BY DEF Row, Marks, IsPending

\* What the three INSERTs build is a row.
LEMMA NewRowType ==
    ASSUME NEW v \in Versions, NEW human \in BOOLEAN, NEW bulk \in BOOLEAN,
           NEW w \in (0..Day) \X (0..Day), NEW ok \in BOOLEAN
    PROVE  /\ NewRow(v, human, bulk, w, ok) \in Row
           /\ NewRow(v, human, bulk, w, ok).target = v
           /\ NewRow(v, human, bulk, w, ok).byHuman = human
  BY DEF NewRow, Row

\* Setting one outcome column of one row keeps the sequence and the shape.
LEMMA MarkOne ==
    ASSUME rows \in Seq(Row), NEW i \in DOMAIN rows,
           \/ rows' = [rows EXCEPT ![i].applied = TRUE]
           \/ rows' = [rows EXCEPT ![i].cancelled = TRUE]
           \/ rows' = [rows EXCEPT ![i].failed = TRUE]
    PROVE  rows' \in Seq(Row) /\ OnlyMarked
  <1>1. rows[i] \in Row
    OBVIOUS
  <1>2. PICK q \in {[rows[i] EXCEPT !.applied = TRUE],
                    [rows[i] EXCEPT !.cancelled = TRUE],
                    [rows[i] EXCEPT !.failed = TRUE]} :
                rows' = [rows EXCEPT ![i] = q]
    OBVIOUS
  <1>3. q \in Row /\ Marks(rows[i], q)
    BY <1>1, MarkedRow
  <1>4. rows' \in Seq(Row)
    BY <1>2, <1>3
  <1>5. /\ DOMAIN rows' = DOMAIN rows
        /\ \A j \in DOMAIN rows : rows'[j] = IF j = i THEN q ELSE rows[j]
    BY <1>2
  <1>6. \A j \in DOMAIN rows : Marks(rows[j], rows[j])
    BY DEF Marks
  <1> QED BY <1>3, <1>4, <1>5, <1>6 DEF OnlyMarked

\* The bulk cancel does the same to many rows at once.
LEMMA MarkAll ==
    ASSUME rows \in Seq(Row), rows' = CancelAll
    PROVE  rows' \in Seq(Row) /\ OnlyMarked
  <1>1. /\ DOMAIN rows' = DOMAIN rows
        /\ \A j \in DOMAIN rows :
              rows'[j] = IF IsPending(rows[j])
                         THEN [rows[j] EXCEPT !.cancelled = TRUE] ELSE rows[j]
    BY DEF CancelAll
  <1>2. \A j \in DOMAIN rows : rows'[j] \in Row /\ Marks(rows[j], rows'[j])
    <2> SUFFICES ASSUME NEW j \in DOMAIN rows
                 PROVE  rows'[j] \in Row /\ Marks(rows[j], rows'[j])
      OBVIOUS
    <2>1. rows[j] \in Row
      OBVIOUS
    <2>2. CASE IsPending(rows[j])
      BY <1>1, <2>1, <2>2, MarkedRow
    <2>3. CASE ~IsPending(rows[j])
      BY <1>1, <2>1, <2>3 DEF Marks
    <2> QED BY <2>2, <2>3
  <1>3. rows' \in Seq(Row)
    BY <1>1, <1>2 DEF CancelAll
  <1> QED BY <1>1, <1>2, <1>3 DEF OnlyMarked

\* An INSERT either adds the row or is refused by the unique index.
LEMMA InsertAdds ==
    ASSUME rows \in Seq(Row), NEW r \in Row, Insert(r)
    PROVE  /\ rows' \in Seq(Row)
           /\ Added(r) \/ rows' = rows
  BY DEF Insert, Added

-----------------------------------------------------------------------------
(* The two ways rows change, against each part of the invariant *)

\* Marking rows makes no automatic row and unmarks no applied one.
LEMMA MarkedSets ==
    ASSUME rows \in Seq(Row), OnlyMarked, NEW v
    PROVE  /\ AutoRows(v)' = AutoRows(v)
           /\ AppliedFor(v) \subseteq AppliedFor(v)'
           /\ PendingIds' \subseteq PendingIds
  BY DEF OnlyMarked, Marks, AutoRows, AppliedFor, RowsFor, PendingIds

LEMMA MarkedKeepsInv ==
    ASSUME QueueInv, OnlyMarked
    PROVE  (UniqueWaiting /\ RequeueBounded /\ RetryOnlyAfterApplied)'
  <1>1. rows \in Seq(Row)
    BY DEF QueueInv, QueueTypeOK
  <1>2. UniqueWaiting'
    BY <1>1, MarkedSets DEF QueueInv, UniqueWaiting, OnlyMarked, Marks, PendingIds
  <1>3. RequeueBounded'
    BY <1>1, MarkedSets DEF QueueInv, RequeueBounded
  <1>4. RetryOnlyAfterApplied'
    BY <1>1, MarkedSets DEF QueueInv, RetryOnlyAfterApplied
  <1> QED BY <1>2, <1>3, <1>4

\* Appending a row leaves the rows that are there as they are.
LEMMA AddedSets ==
    ASSUME rows \in Seq(Row), NEW r \in Row, Added(r), NEW v
    PROVE  LET n == Len(rows) + 1 IN
           /\ n \in Nat /\ DOMAIN rows = 1..(n - 1) /\ rows'[n] = r
           /\ \A i \in DOMAIN rows : rows'[i] = rows[i] /\ i < n
           /\ DOMAIN rows' = DOMAIN rows \cup {n}
           /\ AutoRows(v)' = IF r.target = v /\ ~r.byHuman
                             THEN AutoRows(v) \cup {n} ELSE AutoRows(v)
           /\ AppliedFor(v) \subseteq AppliedFor(v)'
           /\ AutoRows(v) \subseteq DOMAIN rows
           /\ AppliedFor(v) \subseteq DOMAIN rows
  <1> DEFINE n == Len(rows) + 1
  <1>1. /\ n \in Nat /\ DOMAIN rows = 1..(n - 1) /\ rows'[n] = r
        /\ \A i \in DOMAIN rows : rows'[i] = rows[i] /\ i < n
        /\ DOMAIN rows' = DOMAIN rows \cup {n}
    BY DEF Added
  <1>2. AutoRows(v)' = IF r.target = v /\ ~r.byHuman
                       THEN AutoRows(v) \cup {n} ELSE AutoRows(v)
    BY <1>1 DEF AutoRows, RowsFor
  <1>3. AppliedFor(v) \subseteq AppliedFor(v)'
    BY <1>1 DEF AppliedFor, RowsFor
  <1>4. AutoRows(v) \subseteq DOMAIN rows /\ AppliedFor(v) \subseteq DOMAIN rows
    BY DEF AutoRows, AppliedFor, RowsFor
  <1> QED BY <1>1, <1>2, <1>3, <1>4

LEMMA AddedKeepsUnique ==
    ASSUME QueueInv, NEW r \in Row, Added(r)
    PROVE  UniqueWaiting'
  <1>1. rows \in Seq(Row)
    BY DEF QueueInv, QueueTypeOK
  <1> DEFINE n == Len(rows) + 1
  <1>2. /\ rows'[n] = r /\ DOMAIN rows' = DOMAIN rows \cup {n}
        /\ \A i \in DOMAIN rows : rows'[i] = rows[i]
    BY <1>1, AddedSets
  <1>3. \A i \in DOMAIN rows : IsPending(rows[i]) => rows[i].target # r.target
    BY DEF Added, Queued, PendingIds
  <1> QED BY <1>2, <1>3 DEF QueueInv, UniqueWaiting, PendingIds

\* A person's row is no automatic row.
LEMMA HumanAddedKeepsInv ==
    ASSUME QueueInv, NEW r \in Row, Added(r), r.byHuman
    PROVE  (UniqueWaiting /\ RequeueBounded /\ RetryOnlyAfterApplied)'
  <1>1. rows \in Seq(Row)
    BY DEF QueueInv, QueueTypeOK
  <1>2. \A v : AutoRows(v)' = AutoRows(v) /\ AppliedFor(v) \subseteq AppliedFor(v)'
    BY <1>1, AddedSets
  <1>3. RequeueBounded'
    BY <1>2 DEF QueueInv, RequeueBounded
  <1>4. RetryOnlyAfterApplied'
    BY <1>2 DEF QueueInv, RetryOnlyAfterApplied
  <1> QED BY <1>3, <1>4, AddedKeepsUnique

\* An automatic row is at most the second of its version, and the second only
\* behind an applied row.
LEMMA AutoAddedKeepsInv ==
    ASSUME QueueInv, hb.at = "insert", NEW r \in Row, Added(r),
           r.target = hb.target
    PROVE  (UniqueWaiting /\ RequeueBounded /\ RetryOnlyAfterApplied)'
  <1>1. rows \in Seq(Row)
    BY DEF QueueInv, QueueTypeOK
  <1> DEFINE n == Len(rows) + 1
  <1>2. /\ \A i, j \in AutoRows(r.target) : i = j
        /\ AutoRows(r.target) # {} => AppliedFor(r.target) # {}
    BY DEF QueueInv, QueueingJustified
  <1>3. \A v : /\ AutoRows(v)' \subseteq AutoRows(v) \cup {n}
               /\ v # r.target => AutoRows(v)' = AutoRows(v)
               /\ AppliedFor(v) \subseteq AppliedFor(v)'
               /\ \A i \in AutoRows(v) : i \in Nat /\ i < n
               /\ \A i \in AppliedFor(v) : i \in Nat /\ i < n
    BY <1>1, AddedSets
  <1>4. RequeueBounded'
    <2> SUFFICES ASSUME NEW v \in Versions, NEW i \in AutoRows(v)',
                        NEW j \in AutoRows(v)', NEW k \in AutoRows(v)'
                 PROVE  i = j \/ j = k \/ i = k
      BY DEF RequeueBounded
    <2>1. CASE v # r.target
      BY <1>3, <2>1 DEF QueueInv, RequeueBounded
    <2>2. CASE v = r.target
      BY <1>2, <1>3, <2>2
    <2> QED BY <2>1, <2>2
  <1>5. RetryOnlyAfterApplied'
    <2> SUFFICES ASSUME NEW v \in Versions, NEW i \in AutoRows(v)',
                        NEW j \in AutoRows(v)', i < j
                 PROVE  \E k \in AppliedFor(v)' : k < j
      BY DEF RetryOnlyAfterApplied
    <2>1. CASE v # r.target
      BY <1>3, <2>1 DEF QueueInv, RetryOnlyAfterApplied
    <2>2. CASE v = r.target
      <3>1. CASE j \in AutoRows(v)
        <4>1. i \in AutoRows(v)
          BY <1>1, <1>3, <3>1
        <4> QED BY <1>3, <3>1, <4>1 DEF QueueInv, RetryOnlyAfterApplied
      <3>2. CASE j = n
        <4>1. i \in AutoRows(v)
          BY <1>1, <1>3, <3>2
        <4>2. PICK k \in AppliedFor(v) : TRUE
          BY <1>2, <2>2, <4>1
        <4> QED BY <1>3, <3>2, <4>2
      <3> QED BY <1>3, <3>1, <3>2
    <2> QED BY <2>1, <2>2
  <1> QED BY <1>4, <1>5, AddedKeepsUnique

-----------------------------------------------------------------------------
(* Every action is one of the two, or leaves rows alone *)

\* The person's INSERTs.
LEMMA PersonInserts ==
    ASSUME QueueTypeOK, PushInsert \/ BulkInsert
    PROVE  \/ rows' = rows
           \/ \E r \in Row : r.byHuman /\ Added(r)
  <1>1. rows \in Seq(Row)
    BY DEF QueueTypeOK
  <1>2. op.target \in Versions /\ op.window \in (0..Day) \X (0..Day)
    <2>1. op.at \in {"one", "bulk"} /\ op \in Ops
      BY DEF QueueTypeOK, PushInsert, BulkInsert
    <2>2. op # NoOp
      BY <2>1 DEF NoOp
    <2> QED BY <2>1, <2>2 DEF Ops
  <1>3. CASE PushInsert
    <2> DEFINE r == NewRow(op.target, TRUE, FALSE, op.window, TRUE)
    <2>1. r \in Row /\ r.byHuman = TRUE
      BY <1>2, NewRowType
    <2>2. Insert(r)
      BY <1>3 DEF PushInsert
    <2> HIDE DEF r
    <2> QED BY <1>1, <2>1, <2>2, InsertAdds
  <1>4. CASE BulkInsert
    <2> DEFINE r == NewRow(op.target, TRUE, TRUE, op.window, TRUE)
    <2>1. r \in Row /\ r.byHuman = TRUE
      BY <1>2, NewRowType
    <2>2. Insert(r) \/ rows' = rows
      BY <1>4 DEF BulkInsert
    <2> HIDE DEF r
    <2> QED BY <1>1, <2>1, <2>2, InsertAdds
  <1> QED BY <1>3, <1>4

\* The automatic INSERT.
LEMMA AutoInserts ==
    ASSUME QueueTypeOK, AutoInsert
    PROVE  \/ rows' = rows
           \/ \E r \in Row : r.target = hb.target /\ Added(r)
  <1>1. rows \in Seq(Row)
    BY DEF QueueTypeOK
  <1>2. hb.target \in Versions /\ hb.shaOk \in BOOLEAN
    BY DEF QueueTypeOK, Hbs, IdleHb, AutoInsert
  <1> DEFINE r == NewRow(hb.target, FALSE, FALSE, <<0, Day>>, hb.shaOk)
  <1>3. r \in Row /\ r.target = hb.target
    <2>1. <<0, Day>> \in (0..Day) \X (0..Day)
      BY DayAssumption
    <2>2. r.target = hb.target
      BY DEF NewRow
    <2>3. r \in Row
      BY <1>2, <2>1 DEF NewRow, Row
    <2> QED BY <2>2, <2>3
  <1>4. Insert(r)
    BY DEF AutoInsert
  <1> HIDE DEF r
  <1> QED BY <1>1, <1>3, <1>4, InsertAdds

\* Cancelling and the agent's reports.
LEMMA MarkingActions ==
    ASSUME QueueTypeOK,
           \/ \E v \in Versions, w \in Windows : BulkCancel(v, w)
           \/ \E i \in DOMAIN rows : CancelPush(i) \/ MarkApplied(i)
                                     \/ MarkFailed(i)
    PROVE  rows' \in Seq(Row) /\ (OnlyMarked \/ rows' = rows)
  <1>1. rows \in Seq(Row)
    BY DEF QueueTypeOK
  <1>2. CASE \E v \in Versions, w \in Windows : BulkCancel(v, w)
    BY <1>1, <1>2, MarkAll DEF BulkCancel
  <1>3. ASSUME NEW i \in DOMAIN rows,
               CancelPush(i) \/ MarkApplied(i) \/ MarkFailed(i)
        PROVE  rows' \in Seq(Row) /\ OnlyMarked
    BY <1>1, <1>3, MarkOne DEF CancelPush, MarkApplied, MarkFailed, MarkRow
  <1> QED BY <1>2, <1>3

\* The steps of a heartbeat inside autoQueueIfBehind.
LEMMA HbMoves ==
    ASSUME QueueTypeOK, AutoPin \/ AutoPrior
    PROVE  /\ hb' \in Hbs
           /\ AutoPin => hb'.at \in {"idle", "prior"}
           /\ AutoPin /\ hb'.at = "prior" =>
                 /\ hb'.seen = Len(rows)
                 /\ ~ \E i \in PendingIds : rows[i].byHuman
           /\ AutoPrior => hb'.at = "idle" \/ hb'.seen = hb.seen
  <1> DEFINE H == [at: {"pin", "prior", "insert"}, target: Versions,
                   shaOk: BOOLEAN, seen: Nat]
  <1>1. hb \in H /\ Len(rows) \in Nat
    BY DEF QueueTypeOK, Hbs, IdleHb, AutoPin, AutoPrior
  <1>2. IdleHb \in Hbs /\ IdleHb.at = "idle" /\ \A h \in H : h \in Hbs
    BY DEF Hbs, IdleHb
  <1> DEFINE q == [hb EXCEPT !.at = "prior", !.seen = Len(rows)]
             p == [hb EXCEPT !.at = "insert"]
  <1>3. q \in H /\ q.at = "prior" /\ q.seen = Len(rows)
    BY <1>1
  <1>4. p \in H /\ p.seen = hb.seen
    BY <1>1
  <1>5. AutoPin => hb' = IF \E i \in PendingIds : rows[i].byHuman THEN IdleHb ELSE q
    BY DEF AutoPin
  <1>6. AutoPrior => hb' = IdleHb \/ hb' = p
    BY DEF AutoPrior
  <1>7. ~(AutoPin /\ AutoPrior)
    BY DEF AutoPin, AutoPrior
  <1> HIDE DEF q, p, H
  <1>8. CASE AutoPin
    BY <1>2, <1>3, <1>5, <1>7, <1>8
  <1>9. CASE AutoPrior
    BY <1>2, <1>4, <1>6, <1>7, <1>9
  <1> QED BY <1>8, <1>9

LEMMA QueueTypeStep ==
    ASSUME QueueTypeOK, QueueNext
    PROVE  QueueTypeOK'
  <1>0. rows \in Seq(Row)
    BY DEF QueueTypeOK
  <1>1. ASSUME NEW m \in Releases, Publish(m)
        PROVE  QueueTypeOK'
    BY <1>1, ReleasesAssumption DEF Publish, QueueTypeOK
  <1>2. ASSUME NEW v \in Versions, NEW w \in Windows, PushCheck(v, w)
        PROVE  QueueTypeOK'
    BY <1>2, WindowsAssumption DEF PushCheck, QueueTypeOK, Ops
  <1>3. ASSUME NEW v \in Versions, NEW w \in Windows, BulkCancel(v, w)
        PROVE  QueueTypeOK'
    <2>1. rows' \in Seq(Row)
      BY <1>3, MarkingActions
    <2>2. op' \in Ops
      BY <1>3, WindowsAssumption DEF BulkCancel, Ops
    <2> QED BY <1>3, <2>1, <2>2 DEF BulkCancel, QueueTypeOK
  <1>4. CASE PushInsert \/ BulkInsert
    <2>1. rows' \in Seq(Row)
      BY <1>0, <1>4, PersonInserts DEF Added
    <2> QED BY <1>4, <2>1 DEF PushInsert, BulkInsert, QueueTypeOK, Ops
  <1>5. ASSUME NEW i \in DOMAIN rows,
               CancelPush(i) \/ MarkApplied(i) \/ MarkFailed(i)
        PROVE  QueueTypeOK'
    <2>1. rows' \in Seq(Row)
      BY <1>5, MarkingActions
    <2> QED BY <1>5, <2>1 DEF CancelPush, MarkApplied, MarkFailed, QueueTypeOK
  <1>6. CASE AutoPin \/ AutoPrior
    <2>1. hb' \in Hbs
      BY <1>6, HbMoves
    <2> QED BY <1>6, <2>1 DEF AutoPin, AutoPrior, QueueTypeOK
  <1>7. CASE AutoInsert
    <2>1. rows' \in Seq(Row)
      BY <1>0, <1>7, AutoInserts DEF Added
    <2> QED BY <1>7, <2>1 DEF AutoInsert, QueueTypeOK, Hbs
  <1>8. ASSUME NEW v \in Versions, Heartbeat(v)
        PROVE  QueueTypeOK'
    <2>1. hb' \in Hbs
      BY <1>8, VersionsAssumption DEF Heartbeat, Behind, QueueTypeOK, Hbs, IdleHb
    <2> QED BY <1>8, <2>1 DEF Heartbeat, QueueTypeOK
  <1> QED
    BY <1>1, <1>2, <1>3, <1>4, <1>5, <1>6, <1>7, <1>8
    DEF QueueNext, PanelNext, AgentNext

-----------------------------------------------------------------------------
(* The check that precedes an automatic INSERT *)

\* MayQueue means at most one automatic row so far: behind two there would be
\* an applied row older than the newest one, which is applied too.
LEMMA MayQueueJustifies ==
    ASSUME QueueInv, NEW v \in Versions, MayQueue(v)
    PROVE  /\ \A i, j \in AutoRows(v) : i = j
           /\ AutoRows(v) # {} => AppliedFor(v) # {}
  <1>1. rows \in Seq(Row)
    BY DEF QueueInv, QueueTypeOK
  <1>2. CASE RowsFor(v) = {}
    BY <1>2 DEF AutoRows
  <1>3. CASE LatestApplied(v) /\ ~(Cardinality(AppliedFor(v)) >= 2)
    <2>1. PICK l \in AppliedFor(v) : \A j \in RowsFor(v) : j <= l
      BY <1>3 DEF LatestApplied
    <2>2. \A i \in RowsFor(v) : i \in Nat
      BY <1>1 DEF RowsFor
    <2>3. ASSUME NEW i \in AutoRows(v), NEW j \in AutoRows(v), i < j
          PROVE  FALSE
      <3>1. PICK k \in AppliedFor(v) : k < j
        BY <2>3 DEF QueueInv, RetryOnlyAfterApplied
      <3>2. j \in RowsFor(v) /\ k \in RowsFor(v) /\ l \in RowsFor(v)
        BY DEF AutoRows, AppliedFor
      <3>3. k # l
        BY <2>1, <2>2, <3>1, <3>2
      <3> QED BY <1>1, <1>3, <3>3, AppliedFinite, TwoMembers
    <2>4. \A i \in AutoRows(v) : i \in Nat
      BY <2>2 DEF AutoRows
    <2> QED BY <2>1, <2>3, <2>4
  <1> QED BY <1>2, <1>3 DEF MayQueue

\* Whatever other requests do in between, the verdict of SELECT 2 holds until
\* its INSERT: they add no automatic row and unmark no applied one.
LEMMA JustificationKept ==
    ASSUME QueueInv, hb' = hb, rows' = rows \/ OnlyMarked
                               \/ \E r \in Row : r.byHuman /\ Added(r)
    PROVE  QueueingJustified'
  <1>1. rows \in Seq(Row)
    BY DEF QueueInv, QueueTypeOK
  <1>2. \A v : AutoRows(v)' = AutoRows(v) /\ AppliedFor(v) \subseteq AppliedFor(v)'
    <2>1. CASE rows' = rows
      BY <2>1 DEF AutoRows, AppliedFor, RowsFor
    <2>2. CASE OnlyMarked
      BY <1>1, <2>2, MarkedSets
    <2>3. CASE \E r \in Row : r.byHuman /\ Added(r)
      BY <1>1, <2>3, AddedSets
    <2> QED BY <2>1, <2>2, <2>3
  <1> QED BY <1>2 DEF QueueInv, QueueingJustified

\* Steps that leave rows alone.
LEMMA SameRowsKeepInv ==
    ASSUME QueueInv, rows' = rows
    PROVE  (UniqueWaiting /\ RequeueBounded /\ RetryOnlyAfterApplied)'
  BY DEF QueueInv, UniqueWaiting, RequeueBounded, RetryOnlyAfterApplied,
         AutoRows, AppliedFor, RowsFor, PendingIds

LEMMA QueueInvStep ==
    ASSUME QueueInv, [QueueNext]_queueVars
    PROVE  QueueInv'
  <1> DEFINE Parts == UniqueWaiting /\ RequeueBounded /\ RetryOnlyAfterApplied
  <1>0. QueueTypeOK
    BY DEF QueueInv
  <1>1. QueueTypeOK'
    BY <1>0, QueueTypeStep DEF queueVars, QueueTypeOK
  <1>2. ASSUME \/ UNCHANGED queueVars
               \/ \E m \in Releases : Publish(m)
               \/ \E v \in Versions, w \in Windows : PushCheck(v, w)
        PROVE  Parts' /\ QueueingJustified'
    <2>1. rows' = rows /\ hb' = hb
      BY <1>2 DEF queueVars, Publish, PushCheck
    <2> QED BY <2>1, SameRowsKeepInv, JustificationKept
  <1>3. ASSUME \/ \E v \in Versions, w \in Windows : BulkCancel(v, w)
               \/ \E i \in DOMAIN rows : CancelPush(i) \/ MarkApplied(i)
                                         \/ MarkFailed(i)
        PROVE  Parts' /\ QueueingJustified'
    <2>1. hb' = hb
      BY <1>3 DEF BulkCancel, CancelPush, MarkApplied, MarkFailed
    <2>2. OnlyMarked \/ rows' = rows
      BY <1>0, <1>3, MarkingActions
    <2> QED BY <2>1, <2>2, MarkedKeepsInv, SameRowsKeepInv, JustificationKept
  <1>4. ASSUME PushInsert \/ BulkInsert
        PROVE  Parts' /\ QueueingJustified'
    <2>1. hb' = hb
      BY <1>4 DEF PushInsert, BulkInsert
    <2>2. rows' = rows \/ \E r \in Row : r.byHuman /\ Added(r)
      BY <1>0, <1>4, PersonInserts
    <2> QED BY <2>1, <2>2, HumanAddedKeepsInv, SameRowsKeepInv, JustificationKept
  <1>5. ASSUME AutoPin \/ \E v \in Versions : Heartbeat(v)
        PROVE  Parts' /\ QueueingJustified'
    <2>1. rows' = rows
      BY <1>5 DEF AutoPin, Heartbeat
    <2>2. AutoPin => hb'.at # "insert"
      BY <1>0, HbMoves
    <2>3. ASSUME NEW v \in Versions, Heartbeat(v)
          PROVE  hb'.at # "insert"
      BY <2>3 DEF Heartbeat, IdleHb
    <2> QED BY <1>5, <2>1, <2>2, <2>3, SameRowsKeepInv DEF QueueingJustified
  <1>6. ASSUME AutoPrior
        PROVE  Parts' /\ QueueingJustified'
    <2>1. rows' = rows
      BY <1>6 DEF AutoPrior
    <2>2. hb.target \in Versions
      BY <1>6 DEF AutoPrior, QueueInv, QueueTypeOK, Hbs, IdleHb
    <2>3. CASE MayQueue(hb.target)
      <3>1. hb'.target = hb.target
        BY <1>6, <2>3 DEF AutoPrior, QueueInv, QueueTypeOK, Hbs, IdleHb
      <3>2. AutoRows(hb.target)' = AutoRows(hb.target)
            /\ AppliedFor(hb.target)' = AppliedFor(hb.target)
        BY <2>1, <3>1 DEF AutoRows, AppliedFor, RowsFor
      <3> QED
        BY <2>1, <2>2, <2>3, <3>1, <3>2, MayQueueJustifies, SameRowsKeepInv
        DEF QueueingJustified
    <2>4. CASE ~MayQueue(hb.target)
      <3>1. hb'.at # "insert"
        BY <1>6, <2>4 DEF AutoPrior, IdleHb
      <3> QED BY <2>1, <3>1, SameRowsKeepInv DEF QueueingJustified
    <2> QED BY <2>3, <2>4
  <1>7. ASSUME AutoInsert
        PROVE  Parts' /\ QueueingJustified'
    <2>1. hb'.at # "insert" /\ hb.at = "insert"
      BY <1>7 DEF AutoInsert, IdleHb
    <2>2. rows' = rows \/ \E r \in Row : r.target = hb.target /\ Added(r)
      BY <1>0, <1>7, AutoInserts
    <2> QED BY <2>1, <2>2, AutoAddedKeepsInv, SameRowsKeepInv
            DEF QueueingJustified
  <1> QED
    BY <1>1, <1>2, <1>3, <1>4, <1>5, <1>6, <1>7
    DEF QueueInv, QueueNext, PanelNext, AgentNext

LEMMA QueueInvInit ==
    ASSUME QueueInit
    PROVE  QueueInv
  <1>1. QueueTypeOK
    BY DEF QueueInit, QueueTypeOK, Ops, Hbs
  <1>2. UniqueWaiting /\ RequeueBounded /\ RetryOnlyAfterApplied
    BY DEF QueueInit, UniqueWaiting, RequeueBounded, RetryOnlyAfterApplied,
           AutoRows, AppliedFor, RowsFor, PendingIds
  <1>3. QueueingJustified
    BY DEF QueueInit, QueueingJustified, IdleHb
  <1> QED BY <1>1, <1>2, <1>3 DEF QueueInv

-----------------------------------------------------------------------------
(* Theorems *)

(* The invariant holds in every reachable state of the queue. *)
THEOREM QueueInvHolds == QueueSpec => []QueueInv
  <1>1. QueueInit => QueueInv
    BY QueueInvInit
  <1>2. QueueInv /\ [QueueNext]_queueVars => QueueInv'
    BY QueueInvStep
  <1> QED BY <1>1, <1>2, PTL DEF QueueSpec

(* Every statement of the panel keeps the table well formed. *)
THEOREM QueueTypeCorrect == QueueSpec => []QueueTypeOK
  <1>1. QueueInv => QueueTypeOK
    BY DEF QueueInv
  <1> QED BY <1>1, QueueInvHolds, PTL

(* No version waits twice for a customer, although three requests select
   first and insert later without a transaction. *)
THEOREM WaitingIsUnique == QueueSpec => []UniqueWaiting
  <1>1. QueueInv => UniqueWaiting
    BY DEF QueueInv
  <1> QED BY <1>1, QueueInvHolds, PTL

(* The automatic rollout queues a version at most twice for a customer,
   however heartbeats, reports and operators interleave. *)
THEOREM RequeueIsBounded == QueueSpec => []RequeueBounded
  <1>1. QueueInv => RequeueBounded
    BY DEF QueueInv
  <1> QED BY <1>1, QueueInvHolds, PTL

(* The second automatic row stands behind an applied row: the automatic
   rollout never repeats what only failed or was cancelled. *)
THEOREM RetryIsAfterApplied == QueueSpec => []RetryOnlyAfterApplied
  <1>1. QueueInv => RetryOnlyAfterApplied
    BY DEF QueueInv
  <1> QED BY <1>1, QueueInvHolds, PTL

-----------------------------------------------------------------------------
(* The pin *)

\* Between SELECT 1 and the INSERT every waiting push of a person is younger
\* than what SELECT 1 saw.
PinSeen ==
    hb.at \in {"prior", "insert"} =>
        /\ hb.seen <= Len(rows)
        /\ \A i \in PendingIds : rows[i].byHuman => i > hb.seen

\* The other requests only mark rows and append to them.
LEMMA PinOthers ==
    ASSUME QueueTypeOK, PinSeen, hb' = hb,
           rows' = rows \/ OnlyMarked \/ \E r \in Row : r.byHuman /\ Added(r),
           rows' \in Seq(Row)
    PROVE  PinSeen'
  <1> SUFFICES ASSUME hb.at \in {"prior", "insert"}
               PROVE  /\ hb.seen <= Len(rows')
                      /\ \A i \in PendingIds' : rows'[i].byHuman => i > hb.seen
    BY DEF PinSeen
  <1>1. /\ rows \in Seq(Row) /\ hb.seen \in Nat /\ Len(rows) \in Nat
        /\ hb.seen <= Len(rows)
        /\ \A i \in PendingIds : rows[i].byHuman => i > hb.seen
    BY DEF QueueTypeOK, PinSeen, Hbs, IdleHb
  <1>2. CASE rows' = rows
    BY <1>1, <1>2 DEF PendingIds
  <1>3. CASE OnlyMarked
    <2>1. Len(rows') = Len(rows)
      BY <1>1, <1>3 DEF OnlyMarked
    <2>2. \A i \in PendingIds' : i \in PendingIds /\ rows'[i].byHuman = rows[i].byHuman
      BY <1>3 DEF OnlyMarked, Marks, PendingIds
    <2> QED BY <1>1, <2>1, <2>2
  <1>4. CASE \E r \in Row : r.byHuman /\ Added(r)
    <2>1. PICK r \in Row : Added(r)
      BY <1>4
    <2> DEFINE n == Len(rows) + 1
    <2>2. /\ \A i \in DOMAIN rows : rows'[i] = rows[i]
          /\ DOMAIN rows' = DOMAIN rows \cup {n}
      BY <1>1, <2>1, AddedSets
    <2>3. Len(rows') = n
      BY <1>1, <2>1 DEF Added
    <2>4. \A i \in PendingIds' : i = n \/ (i \in PendingIds /\ rows'[i] = rows[i])
      BY <2>2 DEF PendingIds
    <2> QED BY <1>1, <2>3, <2>4
  <1> QED BY <1>2, <1>3, <1>4

LEMMA PinStep ==
    ASSUME QueueTypeOK, QueueTypeOK', PinSeen, [QueueNext]_queueVars
    PROVE  PinSeen'
  <1>0. rows' \in Seq(Row)
    BY DEF QueueTypeOK
  <1>1. CASE \/ UNCHANGED queueVars
             \/ \E m \in Releases : Publish(m)
             \/ \E v \in Versions, w \in Windows : PushCheck(v, w)
    <2>1. rows' = rows /\ hb' = hb
      BY <1>1 DEF queueVars, Publish, PushCheck
    <2> QED BY <1>0, <2>1, PinOthers
  <1>2. CASE \/ \E v \in Versions, w \in Windows : BulkCancel(v, w)
             \/ \E i \in DOMAIN rows : CancelPush(i) \/ MarkApplied(i)
                                       \/ MarkFailed(i)
    <2>1. hb' = hb
      BY <1>2 DEF BulkCancel, CancelPush, MarkApplied, MarkFailed
    <2> QED BY <1>0, <1>2, <2>1, MarkingActions, PinOthers
  <1>3. CASE PushInsert \/ BulkInsert
    <2>1. hb' = hb
      BY <1>3 DEF PushInsert, BulkInsert
    <2> QED BY <1>0, <1>3, <2>1, PersonInserts, PinOthers
  <1>4. CASE AutoPin
    <2>1. rows' = rows /\ Len(rows) \in Nat
      BY <1>4 DEF AutoPin, QueueTypeOK
    <2> QED BY <1>4, <2>1, HbMoves DEF PinSeen, PendingIds
  <1>5. CASE AutoPrior
    <2>1. rows' = rows /\ hb.at = "prior"
      BY <1>5 DEF AutoPrior
    <2> QED BY <1>5, <2>1, HbMoves DEF PinSeen, PendingIds
  <1>6. CASE AutoInsert \/ \E v \in Versions : Heartbeat(v)
    <2>1. AutoInsert => hb'.at \notin {"prior", "insert"}
      BY DEF AutoInsert, IdleHb
    <2>2. ASSUME NEW v \in Versions, Heartbeat(v)
          PROVE  hb'.at \notin {"prior", "insert"}
      BY <2>2 DEF Heartbeat, IdleHb
    <2> QED BY <1>6, <2>1, <2>2 DEF PinSeen
  <1> QED BY <1>1, <1>2, <1>3, <1>4, <1>5, <1>6 DEF QueueNext, PanelNext, AgentNext

\* Only the automatic INSERT appends an automatic row.
LEMMA OnlyAutoInserts ==
    ASSUME QueueTypeOK, [QueueNext]_queueVars,
           Len(rows') > Len(rows), ~rows'[Len(rows')].byHuman
    PROVE  AutoInsert
  <1>0. rows \in Seq(Row) /\ Len(rows) \in Nat
    BY DEF QueueTypeOK
  <1>1. rows' # rows
    BY <1>0
  <1>2. ~OnlyMarked
    <2> SUFFICES ASSUME OnlyMarked, rows' \in Seq(Row)
                 PROVE  Len(rows') = Len(rows)
      <3>1. ASSUME OnlyMarked, rows' \notin Seq(Row)
            PROVE  FALSE
        BY <1>0, <1>1, <3>1, QueueTypeStep DEF QueueTypeOK, queueVars
      <3> QED BY <1>0, <3>1
    <2> QED BY <1>0 DEF OnlyMarked
  <1>3. ~(PushInsert \/ BulkInsert)
    <2> SUFFICES ASSUME PushInsert \/ BulkInsert
                 PROVE  FALSE
      OBVIOUS
    <2>1. PICK r \in Row : r.byHuman /\ Added(r)
      BY <1>1, PersonInserts
    <2>2. rows'[Len(rows')] = r
      BY <1>0, <2>1 DEF Added
    <2> QED BY <2>1, <2>2
  <1>4. /\ ~UNCHANGED queueVars
        /\ \A m \in Releases : ~Publish(m)
        /\ \A v \in Versions, w \in Windows : ~PushCheck(v, w)
        /\ ~AutoPin /\ ~AutoPrior
        /\ \A v \in Versions : ~Heartbeat(v)
    BY <1>1 DEF queueVars, Publish, PushCheck, AutoPin, AutoPrior, Heartbeat
  <1>5. /\ \A v \in Versions, w \in Windows : ~BulkCancel(v, w)
        /\ \A i \in DOMAIN rows : ~CancelPush(i) /\ ~MarkApplied(i)
                                  /\ ~MarkFailed(i)
    BY <1>1, <1>2, MarkingActions
  <1> QED BY <1>3, <1>4, <1>5 DEF QueueNext, PanelNext, AgentNext

(* An automatic row is never queued while a person's push waits that was there
   when autoQueueIfBehind looked, whatever requests run between its SELECTs and
   its INSERT, for any number of rows and versions. *)
THEOREM PinIsKept == QueueSpec => PinKept
  <1>1. QueueInit => PinSeen
    BY DEF QueueInit, PinSeen, IdleHb
  <1>2. QueueInv => QueueTypeOK
    BY DEF QueueInv
  <1>3. QueueTypeOK /\ QueueTypeOK' /\ PinSeen /\ [QueueNext]_queueVars => PinSeen'
    BY PinStep
  <1>4. QueueTypeOK /\ PinSeen /\ [QueueNext]_queueVars =>
          [Len(rows') > Len(rows) /\ ~rows'[Len(rows')].byHuman =>
             \A i \in PendingIds : rows[i].byHuman => i > hb.seen]_queueVars
    BY OnlyAutoInserts DEF PinSeen, AutoInsert
  <1> QED BY <1>1, <1>2, <1>3, <1>4, QueueInvHolds, PTL DEF QueueSpec, PinKept
=============================================================================
