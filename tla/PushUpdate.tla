----------------------------- MODULE PushUpdate -----------------------------
(***************************************************************************)
(* The push-update channel end to end: the panel's queue (PendingUpdates)  *)
(* and the polling thread of the agent on the customer PC                  *)
(* (src/chainremote_push_agent.rs), joined by an unreliable network.       *)
(*                                                                         *)
(* job is the volatile state of the running tick and is lost in a crash;   *)
(* firstSeen, dlAttempt, verify and slot live in LocalConfig and survive.  *)
(* Clocks are abstracted: a deadline or a delay is "waiting" until an      *)
(* environment step says it passed, and the local hour is read as any hour *)
(* of the day, for an arbitrary time may pass between two polls.           *)
(***************************************************************************)
EXTENDS PendingUpdates

CONSTANTS
    DlMaxAttempts,  \* DL_MAX_ATTEMPTS (5 in the code)
    ReportRetry,    \* REPORT_RETRY (3 in the code)
    MaxSessions,    \* bound: remote-support sessions on the PC
    MaxCrashes,     \* bound: power failures
    MaxReinstalls   \* bound: technicians installing some version by hand

ASSUME AgentAssumption ==
    /\ DlMaxAttempts \in Nat \ {0}
    /\ ReportRetry \in Nat \ {0}
    /\ MaxSessions \in Nat /\ MaxCrashes \in Nat /\ MaxReinstalls \in Nat

VARIABLES
    ver,        \* CHAINREMOTE_VERSION of the running agent
    ran,        \* history: every version that has run on the PC
    job,        \* where the tick is and what it holds
    firstSeen,  \* push-first-seen:<id>, with the randomised delay applied
    dlAttempt,  \* push-dl-attempt:<id>
    verify,     \* push-verify:<id>: the deadline of a launched install
    slot,       \* push-pending-report: the one verdict kept for a later tick
    file,       \* version whose verified installer is in PENDING_FILE, or 0
    installing, \* version a running installer installs, or 0
    session,    \* a remote-support connection is alive
    used        \* how much of the bounds above is used up

lconfVars == <<firstSeen, dlAttempt, verify>>
agentVars == <<ver, ran, job, firstSeen, dlAttempt, verify, slot, file,
               installing, session, used>>
vars == <<queueVars, agentVars>>

Idle   == [at |-> "idle"]
NoSlot == [id |-> 0, status |-> "none"]

Ids == 1..MaxRows

Jobs ==
    {Idle, [at |-> "fetch"]}
    \cup [at: {"decide", "download", "launch", "verify"}, id: Ids]
    \cup [at: {"report"}, id: Ids, status: {"applied", "failed"},
          try: 1..ReportRetry]

TypeOK ==
    /\ QueueTypeOK
    /\ ver \in Versions
    /\ ran \in SUBSET Versions
    /\ job \in Jobs
    /\ firstSeen \in [Ids -> {"no", "waiting", "ready"}]
    /\ dlAttempt \in [Ids -> 0..DlMaxAttempts]
    /\ verify \in [Ids -> {"no", "waiting", "expired"}]
    /\ slot \in {NoSlot} \cup [id: Ids, status: {"applied", "failed"}]
    /\ file \in Versions \cup {0}
    /\ installing \in Versions \cup {0}
    /\ session \in BOOLEAN
    /\ used \in [sessions: 0..MaxSessions, crashes: 0..MaxCrashes,
                 reinstalls: 0..MaxReinstalls]

Init ==
    /\ QueueInit
    /\ ver \in Versions
    /\ ran = {ver}
    /\ job = Idle
    /\ firstSeen = [i \in Ids |-> "no"]
    /\ dlAttempt = [i \in Ids |-> 0]
    /\ verify = [i \in Ids |-> "no"]
    /\ slot = NoSlot
    /\ file = 0
    /\ installing = 0
    /\ session = FALSE
    /\ used = [sessions |-> 0, crashes |-> 0, reinstalls |-> 0]

-----------------------------------------------------------------------------
(* The network: a POST reaches the panel or not, and its answer comes back
   or not.  A refused report (rate limit, 403, 5xx) is a lost one. *)

Outcomes == {"answered", "answer lost", "lost"}

\* Mutant: the UPDATE selects by version instead of by id.
DeliverByVersion(i, status, outcome) ==
    /\ rows' = [j \in DOMAIN rows |->
                   IF outcome # "lost" /\ rows[j].target = rows[i].target
                   THEN MarkRow(j, status)[j] ELSE rows[j]]
    /\ UNCHANGED <<meta, reported, op, hb>>

Deliver(i, status, outcome) ==
    /\ rows' = IF outcome = "lost" THEN rows ELSE MarkRow(i, status)
    /\ UNCHANGED <<meta, reported, op, hb>>

-----------------------------------------------------------------------------
(* tick *)

\* Mutant: the delivered verdict is not removed from the slot.
FlushKeepsSlot(outcome) ==
    /\ job = Idle
    /\ job' = [at |-> "fetch"]
    /\ \/ slot = NoSlot /\ outcome = "lost" /\ UNCHANGED queueVars
       \/ slot # NoSlot /\ Deliver(slot.id, slot.status, outcome)
    /\ UNCHANGED <<slot, ver, ran, lconfVars, file, installing, session, used>>

\* flush_pending_report: one attempt to send the verdict kept in the slot.
Flush(outcome) ==
    /\ job = Idle
    /\ job' = [at |-> "fetch"]
    /\ \/ slot = NoSlot /\ outcome = "lost" /\ UNCHANGED <<slot, queueVars>>
       \/ /\ slot # NoSlot
          /\ Deliver(slot.id, slot.status, outcome)
          /\ slot' = IF outcome = "answered" THEN NoSlot ELSE slot
    /\ UNCHANGED <<ver, ran, lconfVars, file, installing, session, used>>

\* fetch_pending: the newest waiting row, or nothing to do.
Fetch ==
    /\ job.at = "fetch"
    /\ job' = IF Served = 0 THEN Idle ELSE [at |-> "decide", id |-> Served]
    /\ UNCHANGED <<queueVars, ver, ran, lconfVars, slot, file, installing,
                   session, used>>

\* The GET fails: the tick ends with an error.
FetchError ==
    /\ job.at = "fetch"
    /\ job' = Idle
    /\ UNCHANGED <<queueVars, ver, ran, lconfVars, slot, file, installing,
                   session, used>>

\* finish_report: the bookkeeping of the push is cleared before it is sent.
Forget(i) ==
    /\ firstSeen' = [firstSeen EXCEPT ![i] = "no"]
    /\ dlAttempt' = [dlAttempt EXCEPT ![i] = 0]
    /\ verify' = [verify EXCEPT ![i] = "no"]

FinishReport(i, status) ==
    /\ Forget(i)
    /\ job' = [at |-> "report", id |-> i, status |-> status, try |-> 1]

\* Mutant: any other version counts as newer.
IsDifferent(v) == v # ver

\* is_newer_str(target, current)
IsNewer(v) == v > ver

\* within_business_window: [start, end), or across midnight.
WithinBusinessWindow(w, h) ==
    IF w[1] <= w[2] THEN w[1] <= h /\ h < w[2] ELSE w[1] <= h \/ h < w[2]

\* (C2) the PC already runs the target: report applied, install nothing.
AlreadyUpToDate ==
    /\ job.at = "decide"
    /\ ~IsNewer(rows[job.id].target)
    /\ FinishReport(job.id, "applied")
    /\ UNCHANGED <<queueVars, ver, ran, slot, file, installing, session, used>>

Behindhand == job.at = "decide" /\ IsNewer(rows[job.id].target)

\* Mutant: the deadline is never looked at.
AwaitForever ==
    /\ Behindhand
    /\ verify[job.id] # "no"
    /\ job' = Idle
    /\ UNCHANGED lconfVars
    /\ UNCHANGED <<queueVars, ver, ran, slot, file, installing, session, used>>

\* The installer was launched: wait until the deadline, then report failed.
AwaitInstall ==
    /\ Behindhand
    /\ \/ /\ verify[job.id] = "waiting"
          /\ job' = Idle
          /\ UNCHANGED lconfVars
       \/ /\ verify[job.id] = "expired"
          /\ FinishReport(job.id, "failed")
    /\ UNCHANGED <<queueVars, ver, ran, slot, file, installing, session, used>>

\* (C3) the manifest is unusable (malformed sha256 or version).
RejectManifest ==
    /\ Behindhand /\ verify[job.id] = "no"
    /\ ~rows[job.id].shaOk
    /\ FinishReport(job.id, "failed")
    /\ UNCHANGED <<queueVars, ver, ran, slot, file, installing, session, used>>

Installable == Behindhand /\ verify[job.id] = "no" /\ rows[job.id].shaOk

\* Outside the business window: try again at the next poll.
OutsideWindow ==
    /\ Installable
    /\ \E h \in 0..(Day - 1) : ~WithinBusinessWindow(rows[job.id].window, h)
    /\ job' = Idle
    /\ UNCHANGED <<queueVars, ver, ran, lconfVars, slot, file, installing,
                   session, used>>

\* Inside the window but the randomised delay since first sight runs.
RandomDelay ==
    /\ Installable
    /\ \E h \in 0..(Day - 1) : WithinBusinessWindow(rows[job.id].window, h)
    /\ firstSeen[job.id] # "ready"
    /\ firstSeen' = [firstSeen EXCEPT ![job.id] = "waiting"]
    /\ job' = Idle
    /\ UNCHANGED <<queueVars, ver, ran, dlAttempt, verify, slot, file,
                   installing, session, used>>

\* A delay of zero counts as passed at first sight.
DelayOver(i) == firstSeen[i] \in {"no", "ready"}

\* An operator is connected: do not disturb the customer's screen.
DeferForSession ==
    /\ Installable /\ DelayOver(job.id)
    /\ \E h \in 0..(Day - 1) : WithinBusinessWindow(rows[job.id].window, h)
    /\ session
    /\ firstSeen' = [firstSeen EXCEPT ![job.id] = "ready"]
    /\ job' = Idle
    /\ UNCHANGED <<queueVars, ver, ran, dlAttempt, verify, slot, file,
                   installing, session, used>>

\* All guards passed.  A file with another hash is deleted by verify_sha256,
\* unless a running installer holds it open.
Proceed ==
    /\ Installable /\ DelayOver(job.id)
    /\ ~session
    /\ \E h \in 0..(Day - 1) : WithinBusinessWindow(rows[job.id].window, h)
    /\ job' = [at |-> IF file = rows[job.id].target THEN "launch" ELSE "download",
               id |-> job.id]
    /\ firstSeen' = [firstSeen EXCEPT ![job.id] = "ready"]
    /\ file' = IF file = rows[job.id].target \/ installing # 0 THEN file ELSE 0
    /\ UNCHANGED <<queueVars, ver, ran, dlAttempt, verify, slot, installing,
                   session, used>>

\* download_to + verify_sha256, up to ten minutes long.
DownloadOk ==
    /\ job.at = "download"
    /\ installing = 0
    /\ file' = rows[job.id].target
    /\ dlAttempt' = [dlAttempt EXCEPT ![job.id] = 0]
    /\ job' = [at |-> "launch", id |-> job.id]
    /\ UNCHANGED <<queueVars, ver, ran, firstSeen, verify, slot, installing,
                   session, used>>

\* Failed or corrupt: retry at a later poll, give up after DlMaxAttempts.
DownloadFail ==
    /\ job.at = "download"
    /\ \/ /\ dlAttempt[job.id] + 1 < DlMaxAttempts
          /\ dlAttempt' = [dlAttempt EXCEPT ![job.id] = @ + 1]
          /\ job' = Idle
          /\ UNCHANGED <<firstSeen, verify>>
       \/ /\ dlAttempt[job.id] + 1 >= DlMaxAttempts
          /\ FinishReport(job.id, "failed")
    /\ UNCHANGED <<queueVars, ver, ran, slot, file, installing, session, used>>

\* spawn_silent_install succeeds: the installer runs on its own from here.
Launch ==
    /\ job.at = "launch"
    /\ installing' = rows[job.id].target
    /\ job' = [at |-> "verify", id |-> job.id]
    /\ UNCHANGED <<queueVars, ver, ran, lconfVars, slot, file, session, used>>

LaunchFail ==
    /\ job.at = "launch"
    /\ FinishReport(job.id, "failed")
    /\ UNCHANGED <<queueVars, ver, ran, slot, file, installing, session, used>>

\* Mutant: the launch of the installer is taken for its success.
ReportAtLaunch ==
    /\ job.at = "verify"
    /\ FinishReport(job.id, "applied")
    /\ UNCHANGED <<queueVars, ver, ran, slot, file, installing, session, used>>

\* set_install_verify: note the deadline; nothing is reported yet.
SetInstallVerify ==
    /\ job.at = "verify"
    /\ verify' = [verify EXCEPT ![job.id] = "waiting"]
    /\ job' = Idle
    /\ UNCHANGED <<queueVars, ver, ran, firstSeen, dlAttempt, slot, file,
                   installing, session, used>>

\* report_status: on an answer the slot is emptied, after the last attempt
\* without one the verdict goes to the slot.
Report(outcome) ==
    /\ job.at = "report"
    /\ Deliver(job.id, job.status, outcome)
    /\ \/ /\ outcome = "answered"
          /\ slot' = NoSlot /\ job' = Idle
       \/ /\ outcome # "answered" /\ job.try < ReportRetry
          /\ job' = [job EXCEPT !.try = @ + 1] /\ UNCHANGED slot
       \/ /\ outcome # "answered" /\ job.try = ReportRetry
          /\ slot' = [id |-> job.id, status |-> job.status] /\ job' = Idle
    /\ UNCHANGED <<ver, ran, lconfVars, file, installing, session, used>>

-----------------------------------------------------------------------------
(* The PC around the agent *)

\* The heartbeat thread reports the running version.
AgentHeartbeat == Heartbeat(ver) /\ UNCHANGED agentVars

\* The installer replaces the binary and restarts the service.
InstallDone ==
    /\ installing # 0
    /\ ver' = installing
    /\ ran' = ran \cup {installing}
    /\ installing' = 0
    /\ job' = Idle
    /\ UNCHANGED <<queueVars, lconfVars, slot, file, session, used>>

InstallBreaks ==
    /\ installing # 0
    /\ installing' = 0
    /\ UNCHANGED <<queueVars, ver, ran, job, lconfVars, slot, file, session,
                   used>>

DelayPasses(i) ==
    /\ firstSeen[i] = "waiting"
    /\ firstSeen' = [firstSeen EXCEPT ![i] = "ready"]
    /\ UNCHANGED <<queueVars, ver, ran, job, dlAttempt, verify, slot, file,
                   installing, session, used>>

DeadlinePasses(i) ==
    /\ verify[i] = "waiting"
    /\ verify' = [verify EXCEPT ![i] = "expired"]
    /\ UNCHANGED <<queueVars, ver, ran, job, firstSeen, dlAttempt, slot, file,
                   installing, session, used>>

\* Power failure: the tick, the connection and a running installer are gone.
Crash ==
    /\ used.crashes < MaxCrashes
    /\ used' = [used EXCEPT !.crashes = @ + 1]
    /\ job' = Idle
    /\ session' = FALSE
    /\ installing' = 0
    /\ UNCHANGED <<queueVars, ver, ran, lconfVars, slot, file>>

SessionStart ==
    /\ ~session
    /\ used.sessions < MaxSessions
    /\ used' = [used EXCEPT !.sessions = @ + 1]
    /\ session' = TRUE
    /\ UNCHANGED <<queueVars, ver, ran, job, lconfVars, slot, file, installing>>

SessionEnd ==
    /\ session
    /\ session' = FALSE
    /\ UNCHANGED <<queueVars, ver, ran, job, lconfVars, slot, file, installing,
                   used>>

\* Somebody runs an installer of any version by hand; the service restarts.
Reinstall(v) ==
    /\ used.reinstalls < MaxReinstalls
    /\ installing = 0
    /\ used' = [used EXCEPT !.reinstalls = @ + 1]
    /\ ver' = v
    /\ ran' = ran \cup {v}
    /\ job' = Idle
    /\ UNCHANGED <<queueVars, lconfVars, slot, file, installing, session>>

-----------------------------------------------------------------------------
PanelStep == PanelNext /\ UNCHANGED agentVars

Decide ==
    \/ AlreadyUpToDate \/ AwaitInstall \/ RejectManifest
    \/ OutsideWindow \/ RandomDelay \/ DeferForSession \/ Proceed

Tick ==
    \/ \E o \in Outcomes : Flush(o) \/ Report(o)
    \/ Fetch \/ FetchError \/ Decide
    \/ DownloadOk \/ DownloadFail \/ Launch \/ LaunchFail \/ SetInstallVerify

Environment ==
    \/ AgentHeartbeat \/ InstallDone \/ InstallBreaks \/ Crash
    \/ \E i \in Ids : DelayPasses(i) \/ DeadlinePasses(i)
    \/ SessionStart \/ SessionEnd
    \/ \E v \in Versions : Reinstall(v)

Next == PanelStep \/ Tick \/ Environment

Spec == Init /\ [][Next]_vars

\* The polling loop never stops, clocks advance, an installer and a session
\* end, and the network, the window and the delay let a poll through again
\* and again.  Nothing is assumed of the panel, the operators or the outcome
\* of a download or of an install.
Fairness ==
    /\ WF_vars(\E o \in Outcomes : Flush(o)) /\ SF_vars(Flush("answered"))
    /\ SF_vars(Fetch)
    /\ WF_vars(Decide) /\ SF_vars(Proceed)
    /\ WF_vars(DownloadOk \/ DownloadFail)
    /\ WF_vars(Launch \/ LaunchFail) /\ WF_vars(SetInstallVerify)
    /\ WF_vars(\E o \in Outcomes : Report(o)) /\ SF_vars(Report("answered"))
    /\ WF_vars(InstallDone \/ InstallBreaks)
    /\ WF_vars(\E i \in Ids : DelayPasses(i))
    /\ WF_vars(\E i \in Ids : DeadlinePasses(i))
    /\ WF_vars(SessionEnd)

FairSpec == Spec /\ Fairness

-----------------------------------------------------------------------------
(* Properties *)

(* "Applied" in the panel is evidence: the PC has really run the target or a
   newer version.  The verdict may cross a crash, a restart, the slot and any
   number of resent reports before markApplied sees it. *)
AppliedWasRun ==
    \A i \in DOMAIN rows :
        rows[i].applied => \E v \in ran : v >= rows[i].target

(* The push channel never takes a PC back to an older version, whatever rows
   are queued and whatever is being installed when a newer push arrives. *)
NeverDowngrades ==
    [][ver' < ver => used'.reinstalls > used.reinstalls]_vars

(* One verdict, no further install: the installer of a push the panel has a
   verdict on is not launched again, although the agent clears its bookkeeping
   before the verdict is delivered, loses answers, and forgets its tick in a
   crash or a restart. *)
NoSecondInstall ==
    [][job.at = "launch" /\ job'.at = "verify" =>
         ~rows[job.id].applied /\ ~rows[job.id].failed]_vars

(* The agent's reports never do to the queue what PendingUpdates does not
   allow: the whole system implements the queue's specification. *)
ImplementsQueue == [][QueueNext]_queueVars

(* A verdict kept in the slot is eventually delivered. *)
VerdictDelivered == (slot # NoSlot) ~> (slot = NoSlot)

(* A push that is being served does not stay so for ever: it is applied,
   reported failed, cancelled or covered by a newer one. *)
PushSettles == \A i \in Ids : (Served = i) ~> (Served # i)
=============================================================================
