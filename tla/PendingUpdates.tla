--------------------------- MODULE PendingUpdates ---------------------------
(***************************************************************************)
(* The panel's push-update queue for one customer PC: the rows of the      *)
(* table pending_updates that belong to the customer and the requests that *)
(* change them (chainremote-admin/lib/data/pending-updates.ts).            *)
(*                                                                         *)
(* Rows of different customers meet only in the bulk statements, which     *)
(* treat every customer alike, so one customer is enough.  A request of    *)
(* several SQL statements is several actions: the panel runs no            *)
(* transaction here, and any other request may run in between.             *)
(*                                                                         *)
(* Versions are naturals (x.y.z compared digit group by digit group);      *)
(* version 0 stands for NULL / "not available".                            *)
(***************************************************************************)
EXTENDS Naturals, Sequences, FiniteSets

CONSTANTS
    Versions,    \* the released agent versions, naturals above 0
    Day,         \* hours of a day (24 in the code)
    Windows,     \* the <<start, end>> hours an operator may type
    Releases,    \* the contents agent-push.json may be given
    IsInternal,  \* customers.is_internal: an in-house device
    IsActive,    \* customers.is_active and an enroll status a bulk push takes
    MaxRows      \* bound: rows ever queued for the customer

ASSUME VersionsAssumption == Versions \subseteq Nat \ {0}
ASSUME DayAssumption      == Day \in Nat \ {0}
ASSUME WindowsAssumption  == Windows \subseteq (0..Day) \X (0..Day)
ASSUME ReleasesAssumption ==
    Releases \subseteq [version: Versions, auto: BOOLEAN, shaOk: BOOLEAN]
ASSUME FlagsAssumption    == IsInternal \in BOOLEAN /\ IsActive \in BOOLEAN
ASSUME MaxRowsAssumption  == MaxRows \in Nat

VARIABLES
    rows,      \* pending_updates of the customer, in created_at order
    meta,      \* agent-push.json: the release the panel offers
    reported,  \* customers.last_version
    op,        \* an operator's push between its statements
    hb         \* a heartbeat request inside autoQueueIfBehind

queueVars == <<rows, meta, reported, op, hb>>

Row == [target: Versions, byHuman: BOOLEAN, bulk: BOOLEAN,
        window: (0..Day) \X (0..Day), shaOk: BOOLEAN,
        applied: BOOLEAN, cancelled: BOOLEAN, failed: BOOLEAN]

NoOp   == [at |-> "none"]
IdleHb == [at |-> "idle"]

Ops == {NoOp} \cup [at: {"one", "bulk"}, target: Versions,
                    window: (0..Day) \X (0..Day)]
Hbs == {IdleHb} \cup [at: {"pin", "prior", "insert"}, target: Versions,
                      shaOk: BOOLEAN, seen: Nat]

QueueTypeOK ==
    /\ rows \in Seq(Row)
    /\ meta \in [version: Versions \cup {0}, auto: BOOLEAN, shaOk: BOOLEAN]
    /\ reported \in Versions \cup {0}
    /\ op \in Ops
    /\ hb \in Hbs

QueueInit ==
    /\ rows = << >>
    /\ meta = [version |-> 0, auto |-> FALSE, shaOk |-> TRUE]
    /\ reported = 0
    /\ op = NoOp
    /\ hb = IdleHb

-----------------------------------------------------------------------------
(* Reading the queue *)

\* Mutant: a push that failed is served again.
IsPendingAfterFailure(r) == ~r.applied /\ ~r.cancelled

IsPending(r) == ~r.applied /\ ~r.cancelled /\ ~r.failed

PendingIds == {i \in DOMAIN rows : IsPending(rows[i])}

\* getPendingForAgent: the newest waiting row, 0 when there is none.
Served ==
    IF PendingIds = {} THEN 0
    ELSE CHOOSE i \in PendingIds : \A j \in PendingIds : j <= i

\* The partial unique index on (customer_id, target_version) of waiting rows.
Queued(v) == \E i \in PendingIds : rows[i].target = v

RowsFor(v) == {i \in DOMAIN rows : rows[i].target = v}

AppliedFor(v) == {i \in RowsFor(v) : rows[i].applied}

LatestApplied(v) ==
    \E i \in AppliedFor(v) : \A j \in RowsFor(v) : j <= i

\* validatePush, the window part: 0..24 and not empty.
ValidWindow(w) == w[1] \in 0..Day /\ w[2] \in 0..Day /\ w[1] # w[2]

\* isOlder against an unknown version is never true.
NotOlder(v) == reported = 0 \/ v >= reported

NewRow(v, human, bulk, w, ok) ==
    [target |-> v, byHuman |-> human, bulk |-> bulk, window |-> w,
     shaOk |-> ok, applied |-> FALSE, cancelled |-> FALSE, failed |-> FALSE]

\* Mutant: the table without its unique index.
InsertUnchecked(r) == rows' = Append(rows, r)

\* An INSERT: refused by the unique index when the version already waits.
Insert(r) ==
    rows' = IF Queued(r.target) THEN rows ELSE Append(rows, r)

\* Bound: a request that may end in an INSERT starts only while there is room
\* for its row and for the rows of the requests already under way.
Room == Len(rows) + (IF op = NoOp THEN 0 ELSE 1)
                  + (IF hb = IdleHb THEN 0 ELSE 1) < MaxRows

-----------------------------------------------------------------------------
(* Operators *)

\* A release is published on the NAS, with or without automatic rollout.
Publish(m) ==
    /\ meta' = m
    /\ UNCHANGED <<rows, reported, op, hb>>

\* pushToCustomer: validation and the downgrade check on last_version ...
PushCheck(v, w) ==
    /\ op = NoOp
    /\ Room
    /\ ValidWindow(w)
    /\ NotOlder(v)
    /\ op' = [at |-> "one", target |-> v, window |-> w]
    /\ UNCHANGED <<rows, meta, reported, hb>>

\* ... then the INSERT, skipped when the same version already waits.
PushInsert ==
    /\ op.at = "one"
    /\ Insert(NewRow(op.target, TRUE, FALSE, op.window, TRUE))
    /\ op' = NoOp
    /\ UNCHANGED <<meta, reported, hb>>

CancelAll == [i \in DOMAIN rows |->
                 IF IsPending(rows[i])
                 THEN [rows[i] EXCEPT !.cancelled = TRUE] ELSE rows[i]]

\* pushBulk: refuse a staging release, cancel everything that waits ...
BulkCancel(v, w) ==
    /\ op = NoOp
    /\ Room
    /\ ValidWindow(w)
    /\ ~(meta.version = v /\ ~meta.auto)
    /\ rows' = IF IsActive /\ ~IsInternal THEN CancelAll ELSE rows
    /\ op' = [at |-> "bulk", target |-> v, window |-> w]
    /\ UNCHANGED <<meta, reported, hb>>

\* ... then INSERT ... SELECT ... ON CONFLICT DO NOTHING.
BulkInsert ==
    /\ op.at = "bulk"
    /\ IF IsActive /\ ~IsInternal /\ NotOlder(op.target)
       THEN Insert(NewRow(op.target, TRUE, TRUE, op.window, TRUE))
       ELSE UNCHANGED rows
    /\ op' = NoOp
    /\ UNCHANGED <<meta, reported, hb>>

\* cancelPush, and cancelBulk seen from one customer of the batch.
CancelPush(i) ==
    /\ i \in PendingIds
    /\ rows' = [rows EXCEPT ![i].cancelled = TRUE]
    /\ UNCHANGED <<meta, reported, op, hb>>

-----------------------------------------------------------------------------
(* Heartbeat: recordHeartbeat, then autoQueueIfBehind *)

Behind(v) == meta.auto /\ ~IsInternal /\ meta.version > v

\* last_version is stored; a device behind the release goes on to the checks.
Heartbeat(v) ==
    /\ hb = IdleHb
    /\ Behind(v) => Room
    /\ reported' = v
    /\ hb' = IF Behind(v)
             THEN [at |-> "pin", target |-> meta.version, shaOk |-> meta.shaOk,
                   seen |-> 0]
             ELSE IdleHb
    /\ UNCHANGED <<rows, meta, op>>

\* Mutant: a push to all customers is not taken for a person's push.
AutoPinSingleOnly ==
    /\ hb.at = "pin"
    /\ hb' = IF \E i \in PendingIds : rows[i].byHuman /\ ~rows[i].bulk
             THEN IdleHb ELSE [hb EXCEPT !.at = "prior", !.seen = Len(rows)]
    /\ UNCHANGED <<rows, meta, reported, op>>

\* SELECT 1: a person's push that still waits silences the automatic rollout.
\* seen is history: the rows that were there then.
AutoPin ==
    /\ hb.at = "pin"
    /\ hb' = IF \E i \in PendingIds : rows[i].byHuman
             THEN IdleHb ELSE [hb EXCEPT !.at = "prior", !.seen = Len(rows)]
    /\ UNCHANGED <<rows, meta, reported, op>>

\* Mutants: the limit off by one; the newest row's outcome not looked at.
MayQueueThrice(v) ==
    \/ RowsFor(v) = {}
    \/ LatestApplied(v) /\ ~(Cardinality(AppliedFor(v)) > 2)

MayQueueAfterFailure(v) ==
    RowsFor(v) = {} \/ ~(Cardinality(AppliedFor(v)) >= 2)

\* SELECT 2: queue the version when it never was, or once more when the newest
\* row was applied and the version has been applied fewer than two times.
MayQueue(v) ==
    \/ RowsFor(v) = {}
    \/ LatestApplied(v) /\ ~(Cardinality(AppliedFor(v)) >= 2)

AutoPrior ==
    /\ hb.at = "prior"
    /\ hb' = IF MayQueue(hb.target)
             THEN [hb EXCEPT !.at = "insert"] ELSE IdleHb
    /\ UNCHANGED <<rows, meta, reported, op>>

\* INSERT with requested_by NULL and the window 0..24; a unique violation is
\* swallowed.
AutoInsert ==
    /\ hb.at = "insert"
    /\ Insert(NewRow(hb.target, FALSE, FALSE, <<0, Day>>, hb.shaOk))
    /\ hb' = IdleHb
    /\ UNCHANGED <<meta, reported, op>>

-----------------------------------------------------------------------------
(* Reports of the agent: idempotent, and accepted in every state of the row *)

MarkRow(i, status) ==
    IF status = "applied" THEN [rows EXCEPT ![i].applied = TRUE]
                          ELSE [rows EXCEPT ![i].failed = TRUE]

MarkApplied(i) ==
    /\ rows' = MarkRow(i, "applied")
    /\ UNCHANGED <<meta, reported, op, hb>>

MarkFailed(i) ==
    /\ rows' = MarkRow(i, "failed")
    /\ UNCHANGED <<meta, reported, op, hb>>

-----------------------------------------------------------------------------
PanelNext ==
    \/ \E m \in Releases : Publish(m)
    \/ \E v \in Versions, w \in Windows : PushCheck(v, w) \/ BulkCancel(v, w)
    \/ PushInsert \/ BulkInsert
    \/ \E i \in DOMAIN rows : CancelPush(i)
    \/ AutoPin \/ AutoPrior \/ AutoInsert

\* Any agent: it may report any version and any outcome of any row.
AgentNext ==
    \/ \E v \in Versions : Heartbeat(v)
    \/ \E i \in DOMAIN rows : MarkApplied(i) \/ MarkFailed(i)

QueueNext == PanelNext \/ AgentNext

QueueSpec == QueueInit /\ [][QueueNext]_queueVars

-----------------------------------------------------------------------------
(* Properties *)

AutoRows(v) == {i \in RowsFor(v) : ~rows[i].byHuman}

(* No version waits twice: pushToCustomer, pushBulk and autoQueueIfBehind all
   select first and insert later, and only the unique index of migration 009
   keeps two of them from queueing the same version. *)
UniqueWaiting ==
    \A i, j \in PendingIds : rows[i].target = rows[j].target => i = j

(* A device that keeps falling back is pushed up again automatically at most
   once per version: autoQueueIfBehind queues no third row. *)
RequeueBounded ==
    \A v \in Versions : \A i, j, k \in AutoRows(v) : i = j \/ j = k \/ i = k

(* A second automatic row for a version is queued only behind a row that was
   applied: a failed or a cancelled rollout is left to a person. *)
RetryOnlyAfterApplied ==
    \A v \in Versions : \A i, j \in AutoRows(v) :
        i < j => \E k \in AppliedFor(v) : k < j

(* The "pin" of autoQueueIfBehind: an automatic row never comes to stand before
   a person's push that was waiting when the heartbeat looked, though other
   pushes, cancels and reports run between its SELECTs and its INSERT.  Only a
   push that arrives in between can be overtaken. *)
PinKept ==
    [][Len(rows') > Len(rows) /\ ~rows'[Len(rows')].byHuman =>
         \A i \in PendingIds : rows[i].byHuman => i > hb.seen]_queueVars
=============================================================================
