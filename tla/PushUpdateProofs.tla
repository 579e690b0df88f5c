-------------------------- MODULE PushUpdateProofs --------------------------
(***************************************************************************)
(* Proofs about the push channel as a whole, for every set of versions and *)
(* any number of rows, retries, crashes, sessions and reinstalls.          *)
(*                                                                         *)
(* The agent's steps reach the panel's queue only through Deliver, which   *)
(* is markApplied or markFailed of a row the agent has been served: the    *)
(* system implements the queue's specification (ImplementsQueue), and what *)
(* PendingUpdatesProofs shows of the queue's steps holds here, too.        *)
(***************************************************************************)
EXTENDS PushUpdate, PendingUpdatesProofs, WellFoundedInduction

\* The bound of the model: there is room for the row of every request under way.
RoomKept ==
    Len(rows) + (IF op = NoOp THEN 0 ELSE 1)
              + (IF hb = IdleHb THEN 0 ELSE 1) <= MaxRows

\* What the agent works on or still has to report is a row of the panel.
RowsKnown ==
    /\ job.at \in {"decide", "download", "launch", "verify", "report"}
          => job.id \in DOMAIN rows
    /\ slot # NoSlot => slot.id \in DOMAIN rows

\* The PC has run the version row i asks for, or a newer one.
Evidence(i) == \E v \in ran : v >= rows[i].target

\* An "applied" that is on its way, in the tick or in the slot, is evidence.
VerdictsTrue ==
    /\ ver \in ran
    /\ AppliedWasRun
    /\ job.at = "report" /\ job.status = "applied" => Evidence(job.id)
    /\ slot # NoSlot /\ slot.status = "applied" => Evidence(slot.id)

\* Whatever is being installed, or about to be, is newer than what runs.
OnlyUpwards ==
    /\ installing # 0 => installing > ver
    /\ job.at \in {"download", "launch"} => rows[job.id].target > ver

\* Where the tick may still install its push.
Stages == {"decide", "download", "launch", "verify"}

\* The panel has no verdict yet on the push the tick works on.
Undecided ==
    job.at \in Stages => ~rows[job.id].applied /\ ~rows[job.id].failed

\* Whatever is being installed, or about to be, is what a row of the panel with
\* a usable manifest asks for.
FromThePanel ==
    /\ installing # 0 => \E i \in DOMAIN rows :
                            rows[i].target = installing /\ rows[i].shaOk
    /\ job.at \in {"download", "launch"} => rows[job.id].shaOk

PushInv ==
    /\ TypeOK /\ RoomKept /\ RowsKnown /\ VerdictsTrue /\ OnlyUpwards
    /\ Undecided /\ FromThePanel

-----------------------------------------------------------------------------
(* The queue *)

\* A set of naturals below a bound has a largest member.
LEMMA Largest ==
    ASSUME NEW n \in Nat, NEW S, S \subseteq 1..n, S # {}
    PROVE  \E m \in S : \A k \in S : k <= m
  <1> DEFINE T == {n - k : k \in S}
  <1>1. T \subseteq Nat /\ T # {}
    <2>1. \A k \in S : k \in 1..n
      OBVIOUS
    <2>2. \A k \in 1..n : n - k \in Nat
      OBVIOUS
    <2>3. PICK k \in S : TRUE
      OBVIOUS
    <2>4. n - k \in T
      OBVIOUS
    <2> QED BY <2>1, <2>2, <2>4
  <1> DEFINE R == OpToRel(<, Nat)
  <1>2. IsWellFoundedOn(R, Nat)
    BY NatLessThanWellFounded
  <1>3. PICK x \in T : \A y \in T : <<y, x>> \notin R
    <2> HIDE DEF T, R
    <2> QED BY <1>1, <1>2, WFMin
  <1>4. \A y \in T : ~(y < x)
    BY <1>1, <1>3 DEF OpToRel
  <1> HIDE DEF R
  <1>5. PICK m \in S : x = n - m
    OBVIOUS
  <1>6. ASSUME NEW k \in S
        PROVE  k <= m
    <2>1. n - k \in T /\ ~(n - k < n - m)
      BY <1>4, <1>5
    <2>2. k \in Nat /\ m \in Nat
      OBVIOUS
    <2> QED BY <2>1, <2>2
  <1> QED BY <1>6

\* What the panel serves is one of its waiting rows.
LEMMA ServedIsRow ==
    ASSUME rows \in Seq(Row), Served # 0
    PROVE  Served \in DOMAIN rows /\ IsPending(rows[Served])
  <1>1. PendingIds \subseteq 1..Len(rows) /\ Len(rows) \in Nat
    BY DEF PendingIds
  <1>2. PendingIds # {}
    BY DEF Served
  <1>3. \E m \in PendingIds : \A k \in PendingIds : k <= m
    BY <1>1, <1>2, Largest
  <1>4. Served \in PendingIds
    BY <1>2, <1>3 DEF Served
  <1> QED BY <1>4 DEF PendingIds

\* Rows stay and keep their version and their manifest.
RowsStay ==
    /\ DOMAIN rows \subseteq DOMAIN rows'
    /\ \A i \in DOMAIN rows : /\ rows'[i].target = rows[i].target
                              /\ rows'[i].shaOk = rows[i].shaOk

LEMMA QueueKeepsRows ==
    ASSUME QueueTypeOK, [QueueNext]_queueVars
    PROVE  RowsStay
  <1>0. rows \in Seq(Row)
    BY DEF QueueTypeOK
  <1>1. CASE rows' = rows
    BY <1>1 DEF RowsStay
  <1>2. CASE OnlyMarked
    BY <1>2 DEF RowsStay, OnlyMarked, Marks
  <1>3. CASE \E r \in Row : Added(r)
    BY <1>0, <1>3, AddedSets DEF RowsStay
  <1>4. CASE \/ \E v \in Versions, w \in Windows : BulkCancel(v, w)
             \/ \E i \in DOMAIN rows : CancelPush(i) \/ MarkApplied(i)
                                       \/ MarkFailed(i)
    BY <1>1, <1>2, <1>4, MarkingActions
  <1>5. CASE PushInsert \/ BulkInsert
    BY <1>1, <1>3, <1>5, PersonInserts
  <1>6. CASE AutoInsert
    BY <1>1, <1>3, <1>6, AutoInserts
  <1>7. CASE \/ \E m \in Releases : Publish(m)
             \/ \E v \in Versions, w \in Windows : PushCheck(v, w)
             \/ AutoPin \/ AutoPrior \/ \E v \in Versions : Heartbeat(v)
             \/ UNCHANGED queueVars
    BY <1>1, <1>7 DEF Publish, PushCheck, AutoPin, AutoPrior, Heartbeat, queueVars
  <1> QED
    BY <1>4, <1>5, <1>6, <1>7 DEF QueueNext, PanelNext, AgentNext

\* Only a report marks a row applied.
LEMMA PanelMarksNoneApplied ==
    ASSUME QueueTypeOK, PanelNext \/ \E v \in Versions : Heartbeat(v)
    PROVE  \A i \in DOMAIN rows' :
              rows'[i].applied => i \in DOMAIN rows /\ rows[i].applied
  <1> DEFINE Same == \A i \in DOMAIN rows' :
                        rows'[i].applied => i \in DOMAIN rows /\ rows[i].applied
  <1>0. rows \in Seq(Row)
    BY DEF QueueTypeOK
  <1>1. CASE rows' = rows
    BY <1>1
  <1>2. ASSUME NEW v, NEW human, NEW bulk, NEW w, NEW ok,
               Insert(NewRow(v, human, bulk, w, ok))
        PROVE  Same
    <2> DEFINE r == NewRow(v, human, bulk, w, ok)
    <2>1. r.applied = FALSE
      BY DEF NewRow
    <2>2. rows' = rows \/ rows' = Append(rows, r)
      BY <1>2 DEF Insert
    <2> HIDE DEF r
    <2> QED BY <1>0, <2>1, <2>2
  <1>3. ASSUME NEW v \in Versions, NEW w \in Windows, BulkCancel(v, w)
        PROVE  Same
    <2>1. rows' = rows \/ rows' = CancelAll
      BY <1>3 DEF BulkCancel
    <2>2. \A i \in DOMAIN rows : rows[i] \in Row
      BY <1>0
    <2>3. \A r \in Row : [r EXCEPT !.cancelled = TRUE].applied = r.applied
      BY DEF Row
    <2> QED BY <2>1, <2>2, <2>3 DEF CancelAll
  <1>4. ASSUME NEW i \in DOMAIN rows, CancelPush(i)
        PROVE  Same
    <2> DEFINE q == [rows[i] EXCEPT !.cancelled = TRUE]
    <2>1. q.applied = rows[i].applied
      BY <1>0 DEF Row
    <2>2. rows' = [rows EXCEPT ![i] = q]
      BY <1>4 DEF CancelPush
    <2> HIDE DEF q
    <2> QED BY <1>0, <2>1, <2>2
  <1>5. CASE PushInsert \/ BulkInsert \/ AutoInsert
    BY <1>1, <1>2, <1>5 DEF PushInsert, BulkInsert, AutoInsert
  <1>6. CASE \/ \E m \in Releases : Publish(m)
             \/ \E v \in Versions, w \in Windows : PushCheck(v, w)
             \/ AutoPin \/ AutoPrior \/ \E v \in Versions : Heartbeat(v)
    BY <1>1, <1>6 DEF Publish, PushCheck, AutoPin, AutoPrior, Heartbeat
  <1> QED BY <1>3, <1>4, <1>5, <1>6 DEF PanelNext

\* The panel's own requests and the heartbeat give no verdict on a row.
LEMMA PanelGivesNoVerdict ==
    ASSUME QueueTypeOK, PanelNext \/ \E v \in Versions : Heartbeat(v)
    PROVE  \A i \in DOMAIN rows : /\ rows'[i].applied = rows[i].applied
                                 /\ rows'[i].failed = rows[i].failed
  <1> DEFINE Same == \A i \in DOMAIN rows : /\ rows'[i].applied = rows[i].applied
                                           /\ rows'[i].failed = rows[i].failed
  <1>0. rows \in Seq(Row)
    BY DEF QueueTypeOK
  <1>1. CASE rows' = rows
    BY <1>1
  <1>2. ASSUME NEW r, Insert(r)
        PROVE  Same
    <2>1. rows' = rows \/ rows' = Append(rows, r)
      BY <1>2 DEF Insert
    <2> QED BY <1>0, <2>1
  <1>3. ASSUME NEW v \in Versions, NEW w \in Windows, BulkCancel(v, w)
        PROVE  Same
    <2>1. rows' = rows \/ rows' = CancelAll
      BY <1>3 DEF BulkCancel
    <2>2. \A i \in DOMAIN rows : rows[i] \in Row
      BY <1>0
    <2>3. \A r \in Row : /\ [r EXCEPT !.cancelled = TRUE].applied = r.applied
                        /\ [r EXCEPT !.cancelled = TRUE].failed = r.failed
      BY DEF Row
    <2> QED BY <2>1, <2>2, <2>3 DEF CancelAll
  <1>4. ASSUME NEW i \in DOMAIN rows, CancelPush(i)
        PROVE  Same
    <2> DEFINE q == [rows[i] EXCEPT !.cancelled = TRUE]
    <2>1. q.applied = rows[i].applied /\ q.failed = rows[i].failed
      BY <1>0 DEF Row
    <2>2. rows' = [rows EXCEPT ![i] = q]
      BY <1>4 DEF CancelPush
    <2> HIDE DEF q
    <2> QED BY <1>0, <2>1, <2>2
  <1>5. CASE PushInsert \/ BulkInsert \/ AutoInsert
    BY <1>1, <1>2, <1>5 DEF PushInsert, BulkInsert, AutoInsert
  <1>6. CASE \/ \E m \in Releases : Publish(m)
             \/ \E v \in Versions, w \in Windows : PushCheck(v, w)
             \/ AutoPin \/ AutoPrior \/ \E v \in Versions : Heartbeat(v)
    BY <1>1, <1>6 DEF Publish, PushCheck, AutoPin, AutoPrior, Heartbeat
  <1> QED BY <1>3, <1>4, <1>5, <1>6 DEF PanelNext

\* A request that may insert starts only when there is room for its row.
LEMMA RoomStep ==
    ASSUME QueueTypeOK, RoomKept, [QueueNext]_queueVars
    PROVE  RoomKept'
  <1> DEFINE p == IF op = NoOp THEN 0 ELSE 1
             q == IF hb = IdleHb THEN 0 ELSE 1
  <1>0. /\ rows \in Seq(Row) /\ Len(rows) \in Nat
        /\ p \in {0, 1} /\ q \in {0, 1} /\ p' \in {0, 1} /\ q' \in {0, 1}
        /\ Len(rows) + p + q <= MaxRows
        /\ Room => Len(rows) + p + q < MaxRows
    <2>1. rows \in Seq(Row) /\ Len(rows) \in Nat
      BY DEF QueueTypeOK
    <2>2. p \in {0, 1} /\ q \in {0, 1} /\ p' \in {0, 1} /\ q' \in {0, 1}
      OBVIOUS
    <2>3. Len(rows) + p + q <= MaxRows
      BY DEF RoomKept
    <2>4. Room => Len(rows) + p + q < MaxRows
      BY DEF Room
    <2> QED BY <2>1, <2>2, <2>3, <2>4
  <1> SUFFICES Len(rows') + p' + q' <= MaxRows
    BY DEF RoomKept
  <1>1. CASE \/ \E m \in Releases : Publish(m)
             \/ UNCHANGED queueVars
    BY <1>0, <1>1 DEF Publish, queueVars
  <1>2. ASSUME NEW v \in Versions, NEW w \in Windows, PushCheck(v, w)
        PROVE  Len(rows') + p' + q' <= MaxRows
    <2>1. Room /\ p = 0 /\ q' = q /\ Len(rows') = Len(rows)
      BY <1>2 DEF PushCheck
    <2> HIDE DEF p, q
    <2> QED BY <1>0, <2>1, MaxRowsAssumption
  <1>3. ASSUME NEW r, rows' = rows \/ rows' = Append(rows, r)
        PROVE  Len(rows') \in Nat /\ Len(rows') <= Len(rows) + 1
    BY <1>0, <1>3
  <1>4. CASE PushInsert \/ BulkInsert
    <2>1. op.at # "none" /\ op' = NoOp /\ hb' = hb
      BY <1>4 DEF PushInsert, BulkInsert
    <2>2. op # NoOp
      BY <2>1 DEF NoOp
    <2>3. p = 1 /\ p' = 0 /\ q' = q
      BY <2>1, <2>2
    <2>4. Len(rows') \in Nat /\ Len(rows') <= Len(rows) + 1
      BY <1>3, <1>4 DEF PushInsert, BulkInsert, Insert
    <2> HIDE DEF p, q
    <2> QED BY <1>0, <2>3, <2>4, MaxRowsAssumption
  <1>5. CASE AutoInsert
    <2>1. hb.at # "idle" /\ hb' = IdleHb /\ op' = op
      BY <1>5 DEF AutoInsert
    <2>2. hb # IdleHb
      BY <2>1 DEF IdleHb
    <2>3. q = 1 /\ q' = 0 /\ p' = p
      BY <2>1, <2>2
    <2>4. Len(rows') \in Nat /\ Len(rows') <= Len(rows) + 1
      BY <1>3, <1>5 DEF AutoInsert, Insert
    <2> HIDE DEF p, q
    <2> QED BY <1>0, <2>3, <2>4, MaxRowsAssumption
  <1>6. CASE \/ \E v \in Versions, w \in Windows : BulkCancel(v, w)
             \/ \E i \in DOMAIN rows : CancelPush(i) \/ MarkApplied(i)
                                       \/ MarkFailed(i)
    <2>1. rows' \in Seq(Row) /\ DOMAIN rows' = DOMAIN rows
      BY <1>6, MarkingActions DEF OnlyMarked
    <2>2. Len(rows') = Len(rows)
      BY <1>0, <2>1
    <2>3. \/ Room /\ p = 0 /\ q' = q
          \/ p' = p /\ q' = q
      BY <1>6 DEF BulkCancel, CancelPush, MarkApplied, MarkFailed
    <2> HIDE DEF p, q
    <2> QED BY <1>0, <2>2, <2>3, MaxRowsAssumption
  <1>7. CASE \E v \in Versions : Heartbeat(v)
    <2>1. /\ q = 0 /\ p' = p /\ Len(rows') = Len(rows)
          /\ Room \/ q' = 0
      BY <1>7 DEF Heartbeat
    <2> HIDE DEF p, q
    <2> QED BY <1>0, <2>1, MaxRowsAssumption
  <1>8. CASE AutoPin \/ AutoPrior
    <2>1. rows' = rows /\ op' = op /\ hb.at # "idle"
      BY <1>8 DEF AutoPin, AutoPrior
    <2>2. hb # IdleHb
      BY <2>1 DEF IdleHb
    <2>3. q = 1 /\ p' = p /\ Len(rows') = Len(rows)
      BY <2>1, <2>2
    <2> HIDE DEF p, q
    <2> QED BY <1>0, <2>3, MaxRowsAssumption
  <1> QED
    BY <1>1, <1>2, <1>4, <1>5, <1>6, <1>7, <1>8
    DEF QueueNext, PanelNext, AgentNext

-----------------------------------------------------------------------------
(* Every step is a step of the queue, or leaves it alone *)

\* A report is markApplied or markFailed of a row, or does not arrive.
LEMMA DeliverIsMark ==
    ASSUME NEW i \in DOMAIN rows, NEW status \in {"applied", "failed"},
           NEW o \in Outcomes, Deliver(i, status, o)
    PROVE  \/ UNCHANGED queueVars
           \/ status = "applied" /\ MarkApplied(i)
           \/ status = "failed" /\ MarkFailed(i)
  BY DEF Deliver, MarkApplied, MarkFailed, MarkRow, queueVars

\* Where the queue is touched at all: by the panel, by the heartbeat and by the
\* delivery of a verdict the agent holds.
LEMMA WhoTouchesQueue ==
    ASSUME TypeOK, RowsKnown, [Next]_vars
    PROVE  \/ UNCHANGED queueVars
           \/ PanelNext /\ UNCHANGED agentVars
           \/ Heartbeat(ver) /\ UNCHANGED agentVars
           \/ \E o \in Outcomes :
                 \/ /\ Flush(o) /\ slot # NoSlot
                    /\ Deliver(slot.id, slot.status, o)
                 \/ Report(o) /\ Deliver(job.id, job.status, o)
  <1>1. CASE PanelStep \/ AgentHeartbeat \/ UNCHANGED vars
    BY <1>1 DEF PanelStep, AgentHeartbeat, vars
  <1>2. CASE Tick
    BY <1>2 DEF Tick, Flush, Report, Fetch, FetchError, Decide, AlreadyUpToDate,
                AwaitInstall, RejectManifest, OutsideWindow, RandomDelay,
                DeferForSession, Proceed, DownloadOk, DownloadFail, Launch,
                LaunchFail, SetInstallVerify
  <1>3. CASE Environment /\ ~AgentHeartbeat
    BY <1>3 DEF Environment, InstallDone, InstallBreaks, Crash, DelayPasses,
                DeadlinePasses, SessionStart, SessionEnd, Reinstall
  <1> QED BY <1>1, <1>2, <1>3 DEF Next, Environment

\* The verdict the agent holds is one of the two, for a row that is there.
LEMMA HeldVerdicts ==
    ASSUME TypeOK, RowsKnown
    PROVE  /\ slot # NoSlot => /\ slot.id \in DOMAIN rows
                               /\ slot.status \in {"applied", "failed"}
           /\ job.at = "report" => /\ job.id \in DOMAIN rows
                                   /\ job.status \in {"applied", "failed"}
                                   /\ job.id \in Ids
                                   /\ job.try \in 1..ReportRetry
           /\ job.at \in {"decide", "download", "launch", "verify"}
                 => job.id \in Ids /\ job.id \in DOMAIN rows
  <1>1. slot # NoSlot => slot.status \in {"applied", "failed"}
    BY DEF TypeOK
  <1>2. job.at = "report" => /\ job.status \in {"applied", "failed"}
                             /\ job.id \in Ids
                             /\ job.try \in 1..ReportRetry
    BY DEF TypeOK, Jobs, Idle
  <1>3. job.at \in {"decide", "download", "launch", "verify"} => job.id \in Ids
    BY DEF TypeOK, Jobs, Idle
  <1> QED BY <1>1, <1>2, <1>3 DEF RowsKnown

LEMMA QueueStep ==
    ASSUME TypeOK, RowsKnown, [Next]_vars
    PROVE  [QueueNext]_queueVars
  <1>1. CASE UNCHANGED queueVars \/ PanelNext
    BY <1>1 DEF QueueNext
  <1>2. CASE Heartbeat(ver)
    BY <1>2 DEF QueueNext, AgentNext, TypeOK
  <1>3. ASSUME NEW o \in Outcomes, Flush(o), slot # NoSlot,
               Deliver(slot.id, slot.status, o)
        PROVE  [QueueNext]_queueVars
    BY <1>3, HeldVerdicts, DeliverIsMark DEF QueueNext, AgentNext
  <1>4. ASSUME NEW o \in Outcomes, Report(o), Deliver(job.id, job.status, o)
        PROVE  [QueueNext]_queueVars
    <2>1. job.at = "report"
      BY <1>4 DEF Report
    <2> QED BY <1>4, <2>1, HeldVerdicts, DeliverIsMark DEF QueueNext, AgentNext
  <1> QED BY <1>1, <1>2, <1>3, <1>4, WhoTouchesQueue

-----------------------------------------------------------------------------
(* How a step moves the agent *)

Working == {"decide", "download", "launch", "verify", "report"}

\* The tick goes on with its push, ends, or takes up the served one.  It comes
\* to a download only for a newer version with a usable manifest, to "applied"
\* only when the running version is not older, and reporting is its last stage.
JobMoves ==
    \/ job' = job /\ ver' = ver
    \/ job'.at \in {"idle", "fetch"}
    \/ job'.at = "decide" /\ job'.id = Served /\ Served # 0 /\ rows' = rows
    \/ /\ job.at \in Working /\ job'.id = job.id /\ ver' = ver
       /\ job'.at \in {"download", "launch"} =>
             \/ job.at = "download"
             \/ rows[job.id].target > ver /\ rows[job.id].shaOk
       /\ job.at = "report" => job'.at = "report"
       /\ job'.at = "report" /\ job'.status = "applied" =>
             \/ job.at = "report" /\ job.status = "applied"
             \/ ~(rows[job.id].target > ver)

SlotMoves ==
    \/ slot' = slot
    \/ slot' = NoSlot
    \/ job.at = "report" /\ slot'.id = job.id /\ slot'.status = job.status

VersionMoves ==
    \/ ver' = ver /\ ran' = ran
    \/ ver' \in ran' /\ ran \subseteq ran'

InstallMoves ==
    \/ installing' = installing /\ ver' = ver
    \/ installing' = 0
    \/ job.at = "launch" /\ installing' = rows[job.id].target /\ ver' = ver

AgentMoves == JobMoves /\ SlotMoves /\ VersionMoves /\ InstallMoves

LEMMA DecideMoves ==
    ASSUME TypeOK, Decide
    PROVE  AgentMoves
  <1>1. UNCHANGED <<ver, ran, slot, installing>>
    BY DEF Decide, AlreadyUpToDate, AwaitInstall, RejectManifest, OutsideWindow,
           RandomDelay, DeferForSession, Proceed
  <1>2. SlotMoves /\ VersionMoves /\ InstallMoves
    BY <1>1 DEF SlotMoves, VersionMoves, InstallMoves
  <1>3. CASE AlreadyUpToDate
    BY <1>1, <1>2, <1>3
    DEF AlreadyUpToDate, FinishReport, IsNewer, Working, AgentMoves, JobMoves
  <1>4. CASE AwaitInstall \/ RejectManifest
    BY <1>1, <1>2, <1>4
    DEF AwaitInstall, RejectManifest, FinishReport, Behindhand, Idle, Working,
        AgentMoves, JobMoves
  <1>5. CASE OutsideWindow \/ RandomDelay \/ DeferForSession
    BY <1>1, <1>2, <1>5
    DEF OutsideWindow, RandomDelay, DeferForSession, Idle, AgentMoves, JobMoves
  <1>6. CASE Proceed
    BY <1>1, <1>2, <1>6
    DEF Proceed, Installable, Behindhand, IsNewer, Working, AgentMoves, JobMoves
  <1> QED BY <1>3, <1>4, <1>5, <1>6 DEF Decide

LEMMA TickMoves ==
    ASSUME TypeOK, RowsKnown, Tick
    PROVE  AgentMoves
  <1>1. CASE Decide
    BY <1>1, DecideMoves
  <1>2. CASE \E o \in Outcomes : Flush(o)
    BY <1>2
    DEF Flush, AgentMoves, JobMoves, SlotMoves, VersionMoves, InstallMoves
  <1>3. ASSUME NEW o \in Outcomes, Report(o)
        PROVE  AgentMoves
    <2>1. job.at = "report" /\ UNCHANGED <<ver, ran, installing>>
      BY <1>3 DEF Report
    <2>2. SlotMoves
      BY <1>3 DEF Report, SlotMoves
    <2>3. CASE job' = Idle
      BY <2>1, <2>2, <2>3
      DEF Idle, AgentMoves, JobMoves, VersionMoves, InstallMoves
    <2>4. CASE job' = [job EXCEPT !.try = @ + 1]
      <3>1. job'.at = job.at /\ job'.id = job.id /\ job'.status = job.status
        BY <2>1, <2>4 DEF TypeOK, Jobs, Idle
      <3> QED BY <2>1, <2>2, <3>1
              DEF Working, AgentMoves, JobMoves, VersionMoves, InstallMoves
    <2> QED BY <1>3, <2>3, <2>4 DEF Report
  <1>4. CASE Fetch
    <2>1. /\ job' = IF Served = 0 THEN Idle ELSE [at |-> "decide", id |-> Served]
          /\ UNCHANGED <<rows, ver, ran, slot, installing>>
      BY <1>4 DEF Fetch, queueVars
    <2> QED BY <2>1
            DEF Idle, AgentMoves, JobMoves, SlotMoves, VersionMoves, InstallMoves
  <1>5. CASE FetchError
    BY <1>5
    DEF FetchError, Idle, AgentMoves, JobMoves, SlotMoves, VersionMoves,
        InstallMoves
  <1>6. CASE DownloadOk \/ DownloadFail
    BY <1>6
    DEF DownloadOk, DownloadFail, FinishReport, Idle, Working, AgentMoves,
        JobMoves, SlotMoves, VersionMoves, InstallMoves
  <1>7. CASE Launch \/ LaunchFail
    BY <1>7
    DEF Launch, LaunchFail, FinishReport, Working, AgentMoves, JobMoves,
        SlotMoves, VersionMoves, InstallMoves
  <1>8. CASE SetInstallVerify
    BY <1>8
    DEF SetInstallVerify, Idle, AgentMoves, JobMoves, SlotMoves, VersionMoves,
        InstallMoves
  <1> QED BY <1>1, <1>2, <1>3, <1>4, <1>5, <1>6, <1>7, <1>8 DEF Tick

LEMMA StepMoves ==
    ASSUME TypeOK, RowsKnown, [Next]_vars
    PROVE  AgentMoves
  <1> USE DEF AgentMoves, JobMoves, SlotMoves, VersionMoves, InstallMoves
  <1>1. CASE Tick
    BY <1>1, TickMoves
  <1>2. CASE PanelStep \/ AgentHeartbeat \/ UNCHANGED vars
    BY <1>2 DEF PanelStep, AgentHeartbeat, vars, agentVars
  <1>3. CASE InstallDone \/ Crash \/ \E v \in Versions : Reinstall(v)
    BY <1>3 DEF InstallDone, Crash, Reinstall, Idle
  <1>4. CASE InstallBreaks \/ SessionStart \/ SessionEnd
             \/ \E i \in Ids : DelayPasses(i) \/ DeadlinePasses(i)
    BY <1>4 DEF InstallBreaks, SessionStart, SessionEnd, DelayPasses,
                DeadlinePasses
  <1> QED BY <1>1, <1>2, <1>3, <1>4 DEF Next, Environment

-----------------------------------------------------------------------------
(* Types *)

\* TypeOK without the queue's part, and its parts.
LconfTypeOK ==
    /\ firstSeen \in [Ids -> {"no", "waiting", "ready"}]
    /\ dlAttempt \in [Ids -> 0..DlMaxAttempts]
    /\ verify \in [Ids -> {"no", "waiting", "expired"}]

SlotTypeOK == slot \in {NoSlot} \cup [id: Ids, status: {"applied", "failed"}]

InstallTypeOK ==
    /\ ver \in Versions /\ ran \in SUBSET Versions
    /\ file \in Versions \cup {0} /\ installing \in Versions \cup {0}

EnvTypeOK ==
    /\ session \in BOOLEAN
    /\ used \in [sessions: 0..MaxSessions, crashes: 0..MaxCrashes,
                 reinstalls: 0..MaxReinstalls]

AgentTypeOK ==
    job \in Jobs /\ LconfTypeOK /\ SlotTypeOK /\ InstallTypeOK /\ EnvTypeOK

LEMMA TypeSplit ==
    /\ TypeOK => QueueTypeOK /\ AgentTypeOK
    /\ (QueueTypeOK /\ AgentTypeOK)' => TypeOK'
  BY DEF TypeOK, AgentTypeOK, LconfTypeOK, SlotTypeOK, InstallTypeOK, EnvTypeOK

\* The bookkeeping of a push is cleared and its report begins.
LEMMA FinishReportType ==
    ASSUME LconfTypeOK, NEW i \in Ids, NEW status \in {"applied", "failed"},
           FinishReport(i, status)
    PROVE  job' \in Jobs /\ LconfTypeOK'
  <1>1. 0 \in 0..DlMaxAttempts /\ 1 \in 1..ReportRetry
    BY AgentAssumption
  <1>2. job' \in Jobs
    BY <1>1 DEF FinishReport, Jobs
  <1>3. LconfTypeOK'
    BY <1>1 DEF FinishReport, Forget, LconfTypeOK
  <1> QED BY <1>2, <1>3

LEMMA TargetType ==
    ASSUME rows \in Seq(Row), NEW i \in DOMAIN rows
    PROVE  rows[i].target \in Versions
  <1>1. rows[i] \in Row
    OBVIOUS
  <1> QED BY <1>1 DEF Row

\* A stage of the tick that holds row i.
LEMMA StageType ==
    ASSUME NEW i \in Ids, NEW at \in {"decide", "download", "launch", "verify"}
    PROVE  [at |-> at, id |-> i] \in Jobs
  BY DEF Jobs

LEMMA IdleType == Idle \in Jobs /\ [at |-> "fetch"] \in Jobs
  BY DEF Jobs

LEMMA DecideType ==
    ASSUME TypeOK, RowsKnown, Decide
    PROVE  AgentTypeOK'
  <1>0. AgentTypeOK /\ rows \in Seq(Row)
    BY TypeSplit DEF QueueTypeOK
  <1>1. job.at = "decide" /\ job.id \in Ids /\ job.id \in DOMAIN rows
    BY HeldVerdicts DEF Decide, AlreadyUpToDate, AwaitInstall, RejectManifest,
       OutsideWindow, RandomDelay, DeferForSession, Proceed, Installable, Behindhand
  <1>2. SlotTypeOK' /\ EnvTypeOK' /\ UNCHANGED <<ver, ran, installing>>
    BY <1>0 DEF AgentTypeOK, SlotTypeOK, EnvTypeOK, Decide, AlreadyUpToDate,
       AwaitInstall, RejectManifest, OutsideWindow, RandomDelay,
       DeferForSession, Proceed
  <1>3. CASE ~Proceed
    <2>0. UNCHANGED file
      BY <1>3 DEF Decide, AlreadyUpToDate, AwaitInstall, RejectManifest,
                  OutsideWindow, RandomDelay, DeferForSession
    <2>1. InstallTypeOK'
      BY <1>0, <1>2, <2>0 DEF AgentTypeOK, InstallTypeOK
    <2>2. CASE \/ AlreadyUpToDate \/ RejectManifest
               \/ AwaitInstall /\ verify[job.id] = "expired"
      <3>1. PICK status \in {"applied", "failed"} : FinishReport(job.id, status)
        BY <2>2 DEF AlreadyUpToDate, RejectManifest, AwaitInstall
      <3> QED BY <1>0, <1>1, <1>2, <2>1, <3>1, FinishReportType DEF AgentTypeOK
    <2>3. CASE \/ OutsideWindow
               \/ AwaitInstall /\ verify[job.id] = "waiting"
      <3>1. job' = Idle /\ UNCHANGED lconfVars
        BY <2>3 DEF OutsideWindow, AwaitInstall
      <3> QED BY <1>0, <1>2, <2>1, <3>1, IdleType
              DEF AgentTypeOK, LconfTypeOK, lconfVars
    <2>4. CASE RandomDelay \/ DeferForSession
      <3>1. /\ job' = Idle /\ UNCHANGED <<dlAttempt, verify>>
            /\ \/ firstSeen' = [firstSeen EXCEPT ![job.id] = "waiting"]
               \/ firstSeen' = [firstSeen EXCEPT ![job.id] = "ready"]
        BY <2>4 DEF RandomDelay, DeferForSession
      <3>2. LconfTypeOK'
        BY <1>0, <3>1 DEF AgentTypeOK, LconfTypeOK
      <3> QED BY <1>2, <2>1, <3>1, <3>2, IdleType DEF AgentTypeOK
    <2>5. AwaitInstall => verify[job.id] \in {"waiting", "expired"}
      BY DEF AwaitInstall
    <2>6. CASE AwaitInstall
      BY <2>2, <2>3, <2>5, <2>6
    <2>7. \/ AlreadyUpToDate \/ RejectManifest \/ AwaitInstall
          \/ OutsideWindow \/ RandomDelay \/ DeferForSession
      BY <1>3 DEF Decide
    <2> QED BY <2>2, <2>3, <2>4, <2>6, <2>7
  <1>4. CASE Proceed
    <2>1. /\ job' \in {[at |-> "launch", id |-> job.id],
                       [at |-> "download", id |-> job.id]}
          /\ UNCHANGED <<dlAttempt, verify>>
          /\ firstSeen' = [firstSeen EXCEPT ![job.id] = "ready"]
          /\ file' \in {file, 0}
      BY <1>4 DEF Proceed
    <2>2. job' \in Jobs
      BY <1>1, <2>1, StageType
    <2>3. LconfTypeOK' /\ InstallTypeOK'
      BY <1>0, <1>2, <2>1 DEF AgentTypeOK, LconfTypeOK, InstallTypeOK
    <2> QED BY <1>2, <2>2, <2>3 DEF AgentTypeOK
  <1> QED BY <1>3, <1>4

LEMMA DownloadType ==
    ASSUME TypeOK, RowsKnown, DownloadOk \/ DownloadFail
    PROVE  AgentTypeOK'
  <1>0. AgentTypeOK /\ rows \in Seq(Row)
    BY TypeSplit DEF QueueTypeOK
  <1>1. job.at = "download" /\ job.id \in Ids /\ job.id \in DOMAIN rows
    BY HeldVerdicts DEF DownloadOk, DownloadFail
  <1>2. SlotTypeOK' /\ EnvTypeOK' /\ UNCHANGED <<ver, ran, installing>>
    BY <1>0 DEF AgentTypeOK, SlotTypeOK, EnvTypeOK, DownloadOk, DownloadFail
  <1>3. CASE DownloadOk
    <2>1. rows[job.id].target \in Versions
      BY <1>0, <1>1, TargetType
    <2>2. /\ file' = rows[job.id].target
          /\ dlAttempt' = [dlAttempt EXCEPT ![job.id] = 0]
          /\ job' = [at |-> "launch", id |-> job.id]
          /\ UNCHANGED <<firstSeen, verify>>
      BY <1>3 DEF DownloadOk
    <2>3. InstallTypeOK'
      BY <1>0, <1>2, <2>1, <2>2 DEF AgentTypeOK, InstallTypeOK
    <2>4. LconfTypeOK'
      <3>1. 0 \in 0..DlMaxAttempts
        BY AgentAssumption
      <3> QED BY <1>0, <2>2, <3>1 DEF AgentTypeOK, LconfTypeOK
    <2>5. job' \in Jobs
      BY <1>1, <2>2, StageType
    <2> QED BY <1>2, <2>3, <2>4, <2>5 DEF AgentTypeOK
  <1>4. CASE DownloadFail
    <2>1. InstallTypeOK'
      BY <1>0, <1>2, <1>4 DEF AgentTypeOK, InstallTypeOK, DownloadFail
    <2>2. CASE FinishReport(job.id, "failed")
      BY <1>0, <1>1, <1>2, <2>1, <2>2, FinishReportType DEF AgentTypeOK
    <2>3. CASE /\ dlAttempt[job.id] + 1 < DlMaxAttempts
               /\ dlAttempt' = [dlAttempt EXCEPT ![job.id] = @ + 1]
               /\ job' = Idle
               /\ UNCHANGED <<firstSeen, verify>>
      <3>1. dlAttempt[job.id] + 1 \in 0..DlMaxAttempts
        BY <1>0, <1>1, <2>3, AgentAssumption DEF AgentTypeOK, LconfTypeOK
      <3>2. LconfTypeOK'
        BY <1>0, <2>3, <3>1 DEF AgentTypeOK, LconfTypeOK
      <3> QED BY <1>2, <2>1, <2>3, <3>2, IdleType DEF AgentTypeOK
    <2> QED BY <1>4, <2>2, <2>3 DEF DownloadFail
  <1> QED BY <1>3, <1>4

LEMMA LaunchType ==
    ASSUME TypeOK, RowsKnown, Launch \/ LaunchFail \/ SetInstallVerify
    PROVE  AgentTypeOK'
  <1>0. AgentTypeOK /\ rows \in Seq(Row)
    BY TypeSplit DEF QueueTypeOK
  <1>1. job.id \in Ids /\ job.id \in DOMAIN rows
    BY HeldVerdicts DEF Launch, LaunchFail, SetInstallVerify
  <1>2. SlotTypeOK' /\ EnvTypeOK' /\ UNCHANGED <<ver, ran, file>>
    BY <1>0 DEF AgentTypeOK, SlotTypeOK, EnvTypeOK, Launch, LaunchFail,
                SetInstallVerify
  <1>3. CASE Launch
    <2>1. rows[job.id].target \in Versions
      BY <1>0, <1>1, TargetType
    <2>2. /\ installing' = rows[job.id].target
          /\ job' = [at |-> "verify", id |-> job.id]
          /\ UNCHANGED <<firstSeen, dlAttempt, verify>>
      BY <1>3 DEF Launch, lconfVars
    <2>3. InstallTypeOK' /\ LconfTypeOK'
      BY <1>0, <1>2, <2>1, <2>2 DEF AgentTypeOK, InstallTypeOK, LconfTypeOK
    <2>4. job' \in Jobs
      BY <1>1, <2>2, StageType
    <2> QED BY <1>2, <2>3, <2>4 DEF AgentTypeOK
  <1>4. CASE LaunchFail
    <2>1. InstallTypeOK' /\ FinishReport(job.id, "failed")
      BY <1>0, <1>4 DEF AgentTypeOK, InstallTypeOK, LaunchFail
    <2> QED BY <1>0, <1>1, <1>2, <2>1, FinishReportType DEF AgentTypeOK
  <1>5. CASE SetInstallVerify
    <2>1. /\ verify' = [verify EXCEPT ![job.id] = "waiting"]
          /\ job' = Idle
          /\ UNCHANGED <<firstSeen, dlAttempt, installing>>
      BY <1>5 DEF SetInstallVerify
    <2>2. InstallTypeOK' /\ LconfTypeOK'
      BY <1>0, <1>2, <2>1 DEF AgentTypeOK, InstallTypeOK, LconfTypeOK
    <2> QED BY <1>2, <2>1, <2>2, IdleType DEF AgentTypeOK
  <1> QED BY <1>3, <1>4, <1>5

LEMMA SendType ==
    ASSUME TypeOK, RowsKnown, NEW o \in Outcomes, Flush(o) \/ Report(o)
    PROVE  AgentTypeOK'
  <1>0. AgentTypeOK
    BY TypeSplit
  <1>1. LconfTypeOK' /\ InstallTypeOK' /\ EnvTypeOK'
    BY <1>0 DEF AgentTypeOK, LconfTypeOK, InstallTypeOK, EnvTypeOK, lconfVars,
                Flush, Report
  <1>2. CASE Flush(o)
    <2>1. job' = [at |-> "fetch"] /\ slot' \in {slot, NoSlot}
      BY <1>2 DEF Flush
    <2>2. SlotTypeOK'
      BY <1>0, <2>1 DEF AgentTypeOK, SlotTypeOK
    <2> QED BY <1>1, <2>1, <2>2, IdleType DEF AgentTypeOK
  <1>3. CASE Report(o)
    <2>1. /\ job.at = "report" /\ job.status \in {"applied", "failed"}
          /\ job.id \in Ids /\ job.try \in 1..ReportRetry
      BY <1>3, HeldVerdicts DEF Report
    <2>2. SlotTypeOK'
      <3>1. slot' \in {slot, NoSlot, [id |-> job.id, status |-> job.status]}
        BY <1>3 DEF Report
      <3> QED BY <1>0, <2>1, <3>1 DEF AgentTypeOK, SlotTypeOK
    <2>3. CASE job' = Idle
      BY <1>1, <2>2, <2>3, IdleType DEF AgentTypeOK
    <2>4. CASE job.try < ReportRetry /\ job' = [job EXCEPT !.try = @ + 1]
      <3>1. job.try + 1 \in 1..ReportRetry
        BY <2>1, <2>4, AgentAssumption
      <3>2. job \in [at: {"report"}, id: Ids, status: {"applied", "failed"},
                     try: 1..ReportRetry]
        BY <1>0, <2>1 DEF AgentTypeOK, Jobs, Idle
      <3>3. job' \in Jobs
        BY <2>4, <3>1, <3>2 DEF Jobs
      <3> QED BY <1>1, <2>2, <3>3 DEF AgentTypeOK
    <2> QED BY <1>3, <2>3, <2>4 DEF Report
  <1> QED BY <1>2, <1>3

LEMMA FetchType ==
    ASSUME TypeOK, RoomKept, Fetch \/ FetchError
    PROVE  AgentTypeOK'
  <1>0. AgentTypeOK /\ rows \in Seq(Row)
    BY TypeSplit DEF QueueTypeOK
  <1>1. LconfTypeOK' /\ InstallTypeOK' /\ EnvTypeOK' /\ SlotTypeOK'
    BY <1>0 DEF AgentTypeOK, LconfTypeOK, InstallTypeOK, EnvTypeOK, SlotTypeOK,
                lconfVars, Fetch, FetchError
  <1>2. DOMAIN rows \subseteq Ids
    <2> DEFINE p == IF op = NoOp THEN 0 ELSE 1
               q == IF hb = IdleHb THEN 0 ELSE 1
    <2>1. p \in {0, 1} /\ q \in {0, 1} /\ Len(rows) + p + q <= MaxRows
      BY DEF RoomKept
    <2> HIDE DEF p, q
    <2>2. Len(rows) \in Nat /\ DOMAIN rows = 1..Len(rows)
      BY <1>0
    <2>3. Len(rows) <= MaxRows
      BY <2>1, <2>2, MaxRowsAssumption
    <2> QED BY <2>2, <2>3, MaxRowsAssumption DEF Ids
  <1>3. CASE job' = Idle
    BY <1>1, <1>3, IdleType DEF AgentTypeOK
  <1>4. CASE Served # 0 /\ job' = [at |-> "decide", id |-> Served]
    <2>1. Served \in Ids
      BY <1>0, <1>2, <1>4, ServedIsRow
    <2> QED BY <1>1, <1>4, <2>1, StageType DEF AgentTypeOK
  <1> QED BY <1>3, <1>4 DEF Fetch, FetchError

LEMMA EnvironmentType ==
    ASSUME TypeOK, Environment
    PROVE  AgentTypeOK'
  <1>0. AgentTypeOK
    BY TypeSplit
  <1>1. CASE AgentHeartbeat
    BY <1>0, <1>1 DEF AgentHeartbeat, agentVars, AgentTypeOK, LconfTypeOK,
                      SlotTypeOK, InstallTypeOK, EnvTypeOK
  <1>2. CASE InstallDone \/ InstallBreaks
    <2>1. LconfTypeOK' /\ SlotTypeOK' /\ EnvTypeOK'
      BY <1>0, <1>2 DEF AgentTypeOK, LconfTypeOK, SlotTypeOK, EnvTypeOK,
                        lconfVars, InstallDone, InstallBreaks
    <2>2. InstallTypeOK'
      BY <1>0, <1>2 DEF AgentTypeOK, InstallTypeOK, InstallDone, InstallBreaks
    <2>3. job' \in {job, Idle}
      BY <1>2 DEF InstallDone, InstallBreaks
    <2> QED BY <1>0, <2>1, <2>2, <2>3, IdleType DEF AgentTypeOK
  <1>3. ASSUME NEW i \in Ids, DelayPasses(i) \/ DeadlinePasses(i)
        PROVE  AgentTypeOK'
    <2>1. job' = job /\ SlotTypeOK' /\ EnvTypeOK' /\ InstallTypeOK'
      BY <1>0, <1>3 DEF AgentTypeOK, SlotTypeOK, EnvTypeOK, InstallTypeOK,
                        DelayPasses, DeadlinePasses
    <2>2. LconfTypeOK'
      BY <1>0, <1>3 DEF AgentTypeOK, LconfTypeOK, DelayPasses, DeadlinePasses
    <2> QED BY <1>0, <2>1, <2>2 DEF AgentTypeOK
  <1>4. CASE Crash \/ SessionStart \/ SessionEnd
             \/ \E v \in Versions : Reinstall(v)
    <2>1. LconfTypeOK' /\ SlotTypeOK' /\ job' \in {job, Idle}
      BY <1>0, <1>4 DEF AgentTypeOK, LconfTypeOK, SlotTypeOK, lconfVars, Crash,
                        SessionStart, SessionEnd, Reinstall
    <2>2. InstallTypeOK'
      BY <1>0, <1>4 DEF AgentTypeOK, InstallTypeOK, Crash, SessionStart,
                        SessionEnd, Reinstall
    <2>3. EnvTypeOK'
      <3>1. /\ used.crashes < MaxCrashes => used.crashes + 1 \in 0..MaxCrashes
            /\ used.sessions < MaxSessions => used.sessions + 1 \in 0..MaxSessions
            /\ used.reinstalls < MaxReinstalls
                  => used.reinstalls + 1 \in 0..MaxReinstalls
        BY <1>0, AgentAssumption DEF AgentTypeOK, EnvTypeOK
      <3> QED BY <1>0, <1>4, <3>1 DEF AgentTypeOK, EnvTypeOK, Crash,
                        SessionStart, SessionEnd, Reinstall
    <2> QED BY <1>0, <2>1, <2>2, <2>3, IdleType DEF AgentTypeOK
  <1> QED BY <1>1, <1>2, <1>3, <1>4 DEF Environment

LEMMA TypeStep ==
    ASSUME TypeOK, RoomKept, RowsKnown, [Next]_vars
    PROVE  TypeOK'
  <1>1. QueueTypeOK'
    <2>1. QueueTypeOK /\ [QueueNext]_queueVars
      BY TypeSplit, QueueStep
    <2>2. CASE UNCHANGED queueVars
      BY <2>1, <2>2 DEF QueueTypeOK, queueVars
    <2> QED BY <2>1, <2>2, QueueTypeStep
  <1>2. AgentTypeOK'
    <2>1. CASE UNCHANGED agentVars
      BY <2>1, TypeSplit DEF agentVars, AgentTypeOK, LconfTypeOK, SlotTypeOK,
                             InstallTypeOK, EnvTypeOK
    <2>2. CASE Tick
      BY <2>2, DecideType, DownloadType, LaunchType, SendType, FetchType DEF Tick
    <2>3. CASE Environment
      BY <2>3, EnvironmentType
    <2> QED BY <2>1, <2>2, <2>3 DEF Next, PanelStep, vars
  <1> QED BY <1>1, <1>2, TypeSplit

-----------------------------------------------------------------------------
(* The inductive invariant *)

LEMMA RowsKnownStep ==
    ASSUME TypeOK, RowsKnown, [Next]_vars
    PROVE  RowsKnown'
  <1>1. rows \in Seq(Row) /\ RowsStay
    BY TypeSplit, QueueStep, QueueKeepsRows DEF QueueTypeOK
  <1>2. ASSUME job'.at \in Working
        PROVE  job'.id \in DOMAIN rows'
    <2>1. JobMoves
      BY StepMoves DEF AgentMoves
    <2>2. CASE job'.id = Served /\ Served # 0 /\ rows' = rows
      BY <1>1, <2>2, ServedIsRow
    <2>3. CASE job.at \in Working /\ job'.id = job.id
      BY <1>1, <2>3 DEF RowsKnown, Working, RowsStay
    <2> QED BY <1>2, <2>1, <2>2, <2>3 DEF JobMoves, Working
  <1>3. ASSUME slot' # NoSlot
        PROVE  slot'.id \in DOMAIN rows'
    <2>1. SlotMoves
      BY StepMoves DEF AgentMoves
    <2> QED BY <1>1, <1>3, <2>1 DEF SlotMoves, RowsKnown, RowsStay, NoSlot
  <1> QED BY <1>2, <1>3 DEF RowsKnown, Working, NoSlot

\* What the PC has run is never forgotten, and a row keeps its version.
LEMMA EvidenceKept ==
    ASSUME TypeOK, RowsKnown, [Next]_vars, NEW i \in DOMAIN rows, Evidence(i)
    PROVE  \E v \in ran' : v >= rows'[i].target
  <1>1. RowsStay
    BY TypeSplit, QueueStep, QueueKeepsRows
  <1>2. ran \subseteq ran'
    BY StepMoves DEF AgentMoves, VersionMoves
  <1> QED BY <1>1, <1>2 DEF Evidence, RowsStay

\* A report changes "applied" of its own row only.
LEMMA DeliverApplied ==
    ASSUME rows \in Seq(Row), NEW i \in DOMAIN rows,
           NEW status \in {"applied", "failed"},
           NEW o \in Outcomes, Deliver(i, status, o),
           NEW j \in DOMAIN rows', rows'[j].applied
    PROVE  /\ j \in DOMAIN rows
           /\ rows[j].applied \/ (j = i /\ status = "applied")
  <1> DEFINE a == [rows[i] EXCEPT !.applied = TRUE]
             f == [rows[i] EXCEPT !.failed = TRUE]
  <1>1. f.applied = rows[i].applied
    BY DEF Row
  <1>2. \/ rows' = rows
        \/ status = "applied" /\ rows' = [rows EXCEPT ![i] = a]
        \/ status = "failed" /\ rows' = [rows EXCEPT ![i] = f]
    BY DEF Deliver, MarkRow
  <1> HIDE DEF a, f
  <1> QED BY <1>1, <1>2

LEMMA AppliedStep ==
    ASSUME TypeOK, RowsKnown, VerdictsTrue, [Next]_vars
    PROVE  AppliedWasRun'
  <1>0. rows \in Seq(Row) /\ QueueTypeOK
    BY TypeSplit DEF QueueTypeOK
  <1>1. SUFFICES ASSUME NEW i \in DOMAIN rows', rows'[i].applied
                 PROVE  \E v \in ran' : v >= rows'[i].target
    BY DEF AppliedWasRun
  <1>2. SUFFICES i \in DOMAIN rows /\ Evidence(i)
    BY EvidenceKept
  <1>3. \A j \in DOMAIN rows : rows[j].applied => Evidence(j)
    BY DEF VerdictsTrue, AppliedWasRun, Evidence
  <1>4. CASE UNCHANGED queueVars
    BY <1>1, <1>3, <1>4 DEF queueVars
  <1>5. CASE PanelNext \/ Heartbeat(ver)
    <2>1. PanelNext \/ \E v \in Versions : Heartbeat(v)
      BY <1>5 DEF TypeOK
    <2> QED BY <1>0, <1>1, <1>3, <2>1, PanelMarksNoneApplied
  <1>6. ASSUME NEW o \in Outcomes, slot # NoSlot, Deliver(slot.id, slot.status, o)
        PROVE  i \in DOMAIN rows /\ Evidence(i)
    <2>1. slot.id \in DOMAIN rows /\ slot.status \in {"applied", "failed"}
      BY <1>6, HeldVerdicts
    <2>2. i \in DOMAIN rows /\ (rows[i].applied \/
                                   (i = slot.id /\ slot.status = "applied"))
      BY <1>0, <1>1, <1>6, <2>1, DeliverApplied
    <2> QED BY <1>3, <1>6, <2>2 DEF VerdictsTrue
  <1>7. ASSUME NEW o \in Outcomes, Report(o), Deliver(job.id, job.status, o)
        PROVE  i \in DOMAIN rows /\ Evidence(i)
    <2>1. /\ job.at = "report"
          /\ job.id \in DOMAIN rows /\ job.status \in {"applied", "failed"}
      BY <1>7, HeldVerdicts DEF Report
    <2>2. i \in DOMAIN rows /\ (rows[i].applied \/
                                   (i = job.id /\ job.status = "applied"))
      BY <1>0, <1>1, <1>7, <2>1, DeliverApplied
    <2> QED BY <1>3, <2>1, <2>2 DEF VerdictsTrue
  <1> QED BY <1>4, <1>5, <1>6, <1>7, WhoTouchesQueue

LEMMA VerdictsStep ==
    ASSUME TypeOK, RowsKnown, VerdictsTrue, [Next]_vars
    PROVE  VerdictsTrue'
  <1>0. rows \in Seq(Row)
    BY TypeSplit DEF QueueTypeOK
  <1>1. ver' \in ran'
    BY StepMoves DEF AgentMoves, VersionMoves, VerdictsTrue
  <1>2. AppliedWasRun'
    BY AppliedStep
  <1>3. ASSUME job'.at = "report", job'.status = "applied"
        PROVE  \E v \in ran' : v >= rows'[job'.id].target
    <2>1. JobMoves
      BY StepMoves DEF AgentMoves
    <2>2. /\ job'.id = job.id /\ job.at \in Working
          /\ \/ job.at = "report" /\ job.status = "applied"
             \/ ~(rows[job.id].target > ver)
      BY <1>3, <2>1 DEF JobMoves, Working
    <2>3. job.id \in DOMAIN rows
      BY <2>2 DEF RowsKnown, Working
    <2>4. CASE ~(rows[job.id].target > ver)
      <3>1. rows[job.id].target \in Nat /\ ver \in Nat
        BY <1>0, <2>3, TargetType, VersionsAssumption DEF TypeOK
      <3>2. ver \in ran /\ ver >= rows[job.id].target
        BY <2>4, <3>1 DEF VerdictsTrue
      <3>3. Evidence(job.id)
        BY <3>2 DEF Evidence
      <3> QED BY <2>2, <2>3, <3>3, EvidenceKept
    <2>5. CASE job.at = "report" /\ job.status = "applied"
      BY <2>2, <2>3, <2>5, EvidenceKept DEF VerdictsTrue
    <2> QED BY <2>2, <2>4, <2>5
  <1>4. ASSUME slot' # NoSlot, slot'.status = "applied"
        PROVE  \E v \in ran' : v >= rows'[slot'.id].target
    <2>1. SlotMoves
      BY StepMoves DEF AgentMoves
    <2>2. CASE slot' = slot
      BY <1>4, <2>2, EvidenceKept DEF VerdictsTrue, RowsKnown
    <2>3. CASE job.at = "report" /\ slot'.id = job.id /\ slot'.status = job.status
      BY <1>4, <2>3, EvidenceKept DEF VerdictsTrue, RowsKnown
    <2> QED BY <1>4, <2>1, <2>2, <2>3 DEF SlotMoves
  <1> QED BY <1>1, <1>2, <1>3, <1>4 DEF VerdictsTrue, Evidence, NoSlot

LEMMA UpwardsStep ==
    ASSUME TypeOK, RowsKnown, OnlyUpwards, [Next]_vars
    PROVE  OnlyUpwards'
  <1>1. RowsStay /\ JobMoves /\ InstallMoves
    BY TypeSplit, QueueStep, QueueKeepsRows, StepMoves DEF AgentMoves
  <1>2. ASSUME installing' # 0
        PROVE  installing' > ver'
    BY <1>1, <1>2 DEF InstallMoves, OnlyUpwards
  <1>3. ASSUME job'.at \in {"download", "launch"}
        PROVE  rows'[job'.id].target > ver'
    <2>1. /\ job'.id = job.id /\ ver' = ver /\ job.at \in Working
          /\ job.at \in {"download", "launch"} \/ rows[job.id].target > ver
      BY <1>1, <1>3 DEF JobMoves, Working
    <2>2. job.id \in DOMAIN rows
      BY <2>1 DEF RowsKnown, Working
    <2>3. rows[job.id].target > ver
      BY <2>1 DEF OnlyUpwards
    <2> QED BY <1>1, <2>1, <2>2, <2>3 DEF RowsStay
  <1> QED BY <1>2, <1>3 DEF OnlyUpwards

LEMMA UndecidedStep ==
    ASSUME TypeOK, RowsKnown, Undecided, [Next]_vars
    PROVE  Undecided'
  <1>0. rows \in Seq(Row) /\ QueueTypeOK /\ JobMoves
    BY TypeSplit, StepMoves DEF QueueTypeOK, AgentMoves
  <1>1. SUFFICES ASSUME job'.at \in Stages
                 PROVE  ~rows'[job'.id].applied /\ ~rows'[job'.id].failed
    BY DEF Undecided
  <1>2. CASE job'.id = Served /\ Served # 0 /\ rows' = rows
    BY <1>0, <1>2, ServedIsRow DEF IsPending
  <1>3. CASE job.at \in Stages /\ job'.id = job.id
    <2>1. job.id \in DOMAIN rows
      BY <1>3 DEF RowsKnown, Stages
    <2>2. /\ rows'[job.id].applied = rows[job.id].applied
          /\ rows'[job.id].failed = rows[job.id].failed
      <3>1. CASE UNCHANGED queueVars
        BY <3>1 DEF queueVars
      <3>2. CASE PanelNext \/ Heartbeat(ver)
        <4>1. PanelNext \/ \E v \in Versions : Heartbeat(v)
          BY <3>2 DEF TypeOK
        <4> QED BY <1>0, <2>1, <4>1, PanelGivesNoVerdict
      <3>3. ~ \E o \in Outcomes : Flush(o) \/ Report(o)
        BY <1>3 DEF Flush, Report, Idle, Stages
      <3> QED BY <3>1, <3>2, <3>3, WhoTouchesQueue
    <2> QED BY <1>3, <2>2 DEF Undecided
  <1> QED BY <1>0, <1>1, <1>2, <1>3 DEF JobMoves, Working, Stages

LEMMA FromThePanelStep ==
    ASSUME TypeOK, RowsKnown, FromThePanel, [Next]_vars
    PROVE  FromThePanel'
  <1>1. RowsStay /\ JobMoves /\ InstallMoves
    BY TypeSplit, QueueStep, QueueKeepsRows, StepMoves DEF AgentMoves
  <1>2. ASSUME installing' # 0
        PROVE  \E i \in DOMAIN rows' :
                  rows'[i].target = installing' /\ rows'[i].shaOk
    <2>1. CASE installing' = installing
      BY <1>1, <1>2, <2>1 DEF FromThePanel, RowsStay
    <2>2. CASE job.at = "launch" /\ installing' = rows[job.id].target
      BY <1>1, <2>2 DEF FromThePanel, RowsKnown, RowsStay
    <2> QED BY <1>1, <1>2, <2>1, <2>2 DEF InstallMoves
  <1>3. ASSUME job'.at \in {"download", "launch"}
        PROVE  rows'[job'.id].shaOk
    <2>1. /\ job'.id = job.id /\ job.at \in Working
          /\ job.at \in {"download", "launch"} \/ rows[job.id].shaOk
      BY <1>1, <1>3 DEF JobMoves, Working
    <2>2. job.id \in DOMAIN rows
      BY <2>1 DEF RowsKnown, Working
    <2> QED BY <1>1, <2>1, <2>2 DEF FromThePanel, RowsStay
  <1> QED BY <1>2, <1>3 DEF FromThePanel

LEMMA PushInvInit ==
    ASSUME Init
    PROVE  PushInv
  <1>1. TypeOK
    <2>1. QueueTypeOK
      BY QueueInvInit DEF Init, QueueInv
    <2>2. /\ 0 \in 0..DlMaxAttempts /\ 0 \in 0..MaxSessions
          /\ 0 \in 0..MaxCrashes /\ 0 \in 0..MaxReinstalls
      BY AgentAssumption
    <2> QED BY <2>1, <2>2 DEF Init, TypeOK, Jobs
  <1>2. RoomKept
    BY MaxRowsAssumption DEF Init, QueueInit, RoomKept
  <1>3. RowsKnown /\ VerdictsTrue /\ OnlyUpwards /\ Undecided /\ FromThePanel
    BY DEF Init, QueueInit, RowsKnown, VerdictsTrue, AppliedWasRun, OnlyUpwards,
           Undecided, FromThePanel, Stages, Idle
  <1> QED BY <1>1, <1>2, <1>3 DEF PushInv

LEMMA PushInvStep ==
    ASSUME PushInv, [Next]_vars
    PROVE  PushInv'
  <1>1. /\ TypeOK /\ QueueTypeOK /\ RoomKept /\ RowsKnown /\ VerdictsTrue
        /\ OnlyUpwards /\ Undecided /\ FromThePanel
    BY TypeSplit DEF PushInv
  <1>2. TypeOK'
    BY <1>1, TypeStep
  <1>3. RoomKept'
    BY <1>1, QueueStep, RoomStep
  <1>4. RowsKnown' /\ VerdictsTrue' /\ OnlyUpwards' /\ Undecided' /\ FromThePanel'
    BY <1>1, RowsKnownStep, VerdictsStep, UpwardsStep, UndecidedStep,
       FromThePanelStep
  <1> QED BY <1>2, <1>3, <1>4 DEF PushInv

\* The tick starts installers; it never changes the running version itself.
LEMMA TickKeepsVersion ==
    ASSUME Tick
    PROVE  ver' = ver
  BY DEF Tick, Flush, Report, Fetch, FetchError, Decide, AlreadyUpToDate,
         AwaitInstall, RejectManifest, OutsideWindow, RandomDelay,
         DeferForSession, Proceed, DownloadOk, DownloadFail, Launch, LaunchFail,
         SetInstallVerify

-----------------------------------------------------------------------------
(* Theorems *)

(* The invariant of the push channel: whatever the tick, the slot and the
   installer hold refers to a row of the panel, an "applied" under way is true,
   an install under way leads upwards and comes from a row of the panel, and a
   push the tick works on has no verdict yet. *)
THEOREM PushInvHolds == Spec => []PushInv
  <1>1. Init => PushInv
    BY PushInvInit
  <1>2. PushInv /\ [Next]_vars => PushInv'
    BY PushInvStep
  <1> QED BY <1>1, <1>2, PTL DEF Spec

(* Every value the push agent keeps in its tick or in LocalConfig is of its
   kind; in particular DL_MAX_ATTEMPTS and REPORT_RETRY are never exceeded. *)
THEOREM PushTypeCorrect == Spec => []TypeOK
  <1>1. PushInv => TypeOK
    BY DEF PushInv
  <1> QED BY <1>1, PushInvHolds, PTL

(* A row the panel shows as applied is of a version the PC has really run, or
   run a newer one of, whatever report_status had to resend, keep in its slot
   or carry across a crash. *)
THEOREM AppliedWasRunHolds == Spec => []AppliedWasRun
  <1>1. PushInv => AppliedWasRun
    BY DEF PushInv, VerdictsTrue
  <1> QED BY <1>1, PushInvHolds, PTL

(* tick's comparison is_newer_str is made long before the installer it starts
   has finished, and still no install it starts takes the PC back. *)
THEOREM NeverDowngradesHolds == Spec => NeverDowngrades
  <1>1. ASSUME PushInv, [Next]_vars
        PROVE  [ver' < ver => used'.reinstalls > used.reinstalls]_vars
    <2>1. TypeOK /\ RowsKnown /\ OnlyUpwards
      BY <1>1 DEF PushInv
    <2>2. CASE \E v \in Versions : Reinstall(v)
      <3>1. used.reinstalls \in Nat /\ used'.reinstalls = used.reinstalls + 1
        BY <2>1, <2>2, AgentAssumption DEF TypeOK, Reinstall
      <3> QED BY <3>1
    <2>3. ver \in Nat /\ ver' \in Nat
      <3>1. TypeOK'
        BY <1>1, PushInvStep DEF PushInv
      <3> QED BY <2>1, <3>1, VersionsAssumption DEF TypeOK
    <2>4. CASE InstallDone
      <3>1. ver' > ver
        BY <2>1, <2>4 DEF InstallDone, OnlyUpwards
      <3> QED BY <2>3, <3>1
    <2>5. CASE Tick \/ PanelStep \/ UNCHANGED vars
      <3>1. ver' = ver
        BY <2>5, TickKeepsVersion DEF PanelStep, vars, agentVars
      <3> QED BY <2>3, <3>1
    <2>6. CASE \/ AgentHeartbeat \/ InstallBreaks \/ Crash
               \/ \E i \in Ids : DelayPasses(i) \/ DeadlinePasses(i)
               \/ SessionStart \/ SessionEnd
      <3>1. ver' = ver
        BY <2>6 DEF AgentHeartbeat, agentVars, InstallBreaks, Crash, DelayPasses,
                    DeadlinePasses, SessionStart, SessionEnd
      <3> QED BY <2>3, <3>1
    <2> QED BY <1>1, <2>2, <2>4, <2>5, <2>6 DEF Next, Environment
  <1> QED BY <1>1, PushInvHolds, PTL DEF Spec, NeverDowngrades

(* No install after the verdict: finish_report clears push-verify before the
   panel has the verdict, the answer to a report may be lost and the tick may
   end in a crash, but spawn_silent_install is never called for a push the panel
   has a verdict on: a verdict comes only from the report at the end of a tick,
   or from the slot before a tick fetches anything. *)
THEOREM InstalledOnlyUndecided == Spec => NoSecondInstall
  <1>1. ASSUME PushInv
        PROVE  job.at = "launch" /\ job'.at = "verify" =>
                 ~rows[job.id].applied /\ ~rows[job.id].failed
    BY <1>1 DEF PushInv, Undecided, Stages
  <1>2. PushInv /\ [Next]_vars =>
          [job.at = "launch" /\ job'.at = "verify" =>
             ~rows[job.id].applied /\ ~rows[job.id].failed]_vars
    BY <1>1
  <1> QED BY <1>2, PushInvHolds, PTL DEF Spec, NoSecondInstall

(* The version of the PC changes in two ways only: somebody installs one by
   hand, or it becomes the version of a row of the panel whose manifest has a
   well-formed sha256, though the row may be cancelled, or newer ones queued,
   while the installer of tick runs. *)
THEOREM OnlyWhatWasPushed ==
    Spec => [][ver' # ver =>
                 \/ used'.reinstalls > used.reinstalls
                 \/ \E i \in DOMAIN rows :
                       rows[i].target = ver' /\ rows[i].shaOk]_vars
  <1> DEFINE Allowed == ver' # ver =>
                          \/ used'.reinstalls > used.reinstalls
                          \/ \E i \in DOMAIN rows :
                                rows[i].target = ver' /\ rows[i].shaOk
  <1>1. ASSUME PushInv, [Next]_vars
        PROVE  Allowed
    <2>1. TypeOK /\ FromThePanel
      BY <1>1 DEF PushInv
    <2>2. CASE \E v \in Versions : Reinstall(v)
      <3>1. used.reinstalls \in Nat /\ used'.reinstalls = used.reinstalls + 1
        BY <2>1, <2>2, AgentAssumption DEF TypeOK, Reinstall
      <3> QED BY <3>1
    <2>3. CASE InstallDone
      BY <2>1, <2>3 DEF InstallDone, FromThePanel
    <2>4. CASE Tick
      BY <2>4, TickKeepsVersion
    <2>5. CASE \/ AgentHeartbeat \/ InstallBreaks \/ Crash
               \/ \E i \in Ids : DelayPasses(i) \/ DeadlinePasses(i)
               \/ SessionStart \/ SessionEnd \/ PanelStep \/ UNCHANGED vars
      <3>1. ver' = ver
        BY <2>5 DEF AgentHeartbeat, PanelStep, vars, agentVars, InstallBreaks,
                    Crash, DelayPasses, DeadlinePasses, SessionStart, SessionEnd
      <3> QED BY <3>1
    <2> QED BY <1>1, <2>2, <2>3, <2>4, <2>5 DEF Next, Environment
  <1>2. PushInv /\ [Next]_vars => [Allowed]_vars
    BY <1>1
  <1> QED BY <1>2, PushInvHolds, PTL DEF Spec

(* validatePush takes every pair of different hours of 0..24, and the agent's
   within_business_window lets a push through at some hour of the day for all
   of them but one: the window from 24 to 0 never opens, and a push the panel
   took with it is never installed. *)
THEOREM WindowOpens ==
    ASSUME NEW w \in (0..Day) \X (0..Day), ValidWindow(w)
    PROVE  (\E h \in 0..(Day - 1) : WithinBusinessWindow(w, h)) <=> w # <<Day, 0>>
  <1> DEFINE a == w[1]
             b == w[2]
  <1>1. /\ a \in Nat /\ b \in Nat /\ a <= Day /\ b <= Day /\ a # b
        /\ w = <<a, b>> /\ Day \in Nat /\ Day > 0
    BY DayAssumption DEF ValidWindow
  <1>2. \A h : WithinBusinessWindow(w, h) <=>
                 IF a <= b THEN a <= h /\ h < b ELSE a <= h \/ h < b
    BY DEF WithinBusinessWindow
  <1>3. w = <<Day, 0>> <=> a = Day /\ b = 0
    BY <1>1
  <1> HIDE DEF a, b
  <1>4. CASE a < Day
    <2>1. a \in 0..(Day - 1) /\ WithinBusinessWindow(w, a)
      BY <1>1, <1>2, <1>4
    <2> QED BY <1>1, <1>3, <1>4, <2>1
  <1>5. CASE a = Day /\ b > 0
    <2>1. 0 \in 0..(Day - 1) /\ WithinBusinessWindow(w, 0)
      BY <1>1, <1>2, <1>5
    <2> QED BY <1>1, <1>3, <1>5, <2>1
  <1>6. CASE a = Day /\ b = 0
    <2>1. \A h \in 0..(Day - 1) : ~WithinBusinessWindow(w, h)
      BY <1>1, <1>2, <1>6
    <2> QED BY <1>3, <1>6, <2>1
  <1> QED BY <1>1, <1>4, <1>5, <1>6

(* The system implements the queue's specification: the agent, its resent and
   its late reports included, does nothing to pending_updates that the panel's
   own functions do not allow. *)
THEOREM ImplementsQueueHolds == Spec => ImplementsQueue
  <1>1. PushInv /\ [Next]_vars => [QueueNext]_queueVars
    BY QueueStep DEF PushInv
  <1> QED BY <1>1, PushInvHolds, PTL DEF Spec, ImplementsQueue

(* And so what is proved of the queue holds of the whole system. *)
THEOREM SystemKeepsQueueInv == Spec => []QueueInv
  <1>1. Init => QueueInit
    BY DEF Init
  <1> QED BY <1>1, ImplementsQueueHolds, QueueInvHolds, PTL
          DEF Spec, ImplementsQueue, QueueSpec
=============================================================================
