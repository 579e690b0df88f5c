------------------------------ MODULE VanWatch ------------------------------
(***************************************************************************)
(* The watchdog of the card-payment daemon (VAN) on a customer PC.         *)
(*                                                                         *)
(* PC: src/chainremote_van.rs.  A watch thread looks at the daemon's port  *)
(* every 30 seconds (tick) and restarts the program (recover); the         *)
(* heartbeat thread of src/chainremote_heartbeat.rs reports the state to   *)
(* the panel and hands the panel's switch to set_kind.  The two threads    *)
(* share atomics and take no common lock, so the watch thread is cut into  *)
(* steps at each external command: netstat, tasklist, wmic, taskkill, the  *)
(* launch.  A command may fail (at most MaxGlitches times).                *)
(* Panel: setVanWatch and the VAN part of recordHeartbeat in               *)
(* chainremote-admin/lib/data/customers.ts.                                *)
(*                                                                         *)
(* The panel knows one VAN, so KIND is on or off.  The grace after a       *)
(* launch is "quiet" until an environment step says it has passed.         *)
(***************************************************************************)
EXTENDS Naturals

CONSTANTS
    MaxFailures,  \* MAX_FAILURES (3)
    BadNeeded,    \* BAD_STREAK_NEEDED (2)
    MaxLaunches,  \* bound: restarts of the program by the watchdog
    MaxGlitches,  \* bound: external commands and heartbeats that fail
    MaxSwitches,  \* bound: how often the operator turns the switch
    MaxFaults     \* bound: faults of the program, its reader and the PC

ASSUME VanAssumption ==
    /\ MaxFailures \in Nat \ {0} /\ BadNeeded \in Nat \ {0}
    /\ MaxLaunches \in Nat /\ MaxGlitches \in Nat
    /\ MaxSwitches \in Nat /\ MaxFaults \in Nat

VARIABLES
    \* the payment program
    found,     \* the program is in one of Daemon.fallbacks
    proc,      \* the process exists
    port,      \* its port: closed, or listening, or held by a payment only
    \* the agent
    on,        \* KIND is not empty
    onCache,   \* KIND_CACHE_KEY
    path,      \* PATH_CACHE_KEY names an existing program
    lastOk, everOk, gaveUp, missing, failures, streak,
    quiet,     \* in_quiet_period
    restarted, \* RESTARTED_PENDING
    tick,      \* where the watch thread is
    beat,      \* the heartbeat under way: its report or its answer
    \* the panel
    watch,     \* customers.van_watch is not NULL
    row,       \* van_ok, van_gave_up, van_missing
    count,     \* van_restart_count
    \* history
    closedRun, \* checks in a row that found the port closed and unused
    launches,  \* restarts so far
    vain,      \* restarts since the last check that found the port listening
    resent,    \* heartbeats the panel served whose answer was lost
    glitches, switches, faults

progVars  == <<found, proc, port>>
flags     == <<lastOk, everOk, gaveUp, missing, failures>>
agentVars == <<on, onCache, path, flags, streak, quiet, restarted, tick, beat>>
panelVars == <<watch, row, count>>
bounds    == <<glitches, switches, faults>>
ghosts    == <<closedRun, launches, vain, resent>>
vars == <<progVars, agentVars, panelVars, ghosts, bounds>>

Oks    == {"null", "yes", "no"}
Rows   == [ok: Oks, gaveUp: BOOLEAN, missing: BOOLEAN]
NoRow  == [ok |-> "null", gaveUp |-> FALSE, missing |-> FALSE]
NoBeat == [at |-> "idle"]

Beats ==
    {NoBeat}
    \cup [at: {"sent"}, some: BOOLEAN, row: Rows, restarted: BOOLEAN]
    \cup [at: {"served"}, restarted: BOOLEAN]
    \cup [at: {"answered"}, on: BOOLEAN, restarted: BOOLEAN]

TypeOK ==
    /\ found \in BOOLEAN /\ proc \in BOOLEAN
    /\ port \in {"closed", "listening", "busy"}
    /\ on \in BOOLEAN /\ onCache \in BOOLEAN /\ path \in BOOLEAN
    /\ lastOk \in BOOLEAN /\ everOk \in BOOLEAN /\ gaveUp \in BOOLEAN
    /\ missing \in BOOLEAN /\ quiet \in BOOLEAN /\ restarted \in BOOLEAN
    /\ failures \in 0..MaxFailures
    /\ streak \in 0..BadNeeded
    /\ tick \in {"sleep", "listening", "busy", "closed", "pid", "recover",
                 "kill", "launch"}
    /\ beat \in Beats
    /\ watch \in BOOLEAN /\ row \in Rows
    /\ count \in 0..(MaxLaunches + MaxGlitches)
    /\ closedRun \in 0..BadNeeded
    /\ launches \in 0..MaxLaunches /\ vain \in 0..MaxLaunches
    /\ resent \in 0..MaxGlitches
    /\ glitches \in 0..MaxGlitches
    /\ switches \in 0..MaxSwitches
    /\ faults \in 0..MaxFaults

Init ==
    /\ found \in BOOLEAN /\ proc \in BOOLEAN /\ port = "closed"
    /\ on = FALSE /\ onCache = FALSE /\ path = FALSE
    /\ lastOk = FALSE /\ everOk = FALSE /\ gaveUp = FALSE /\ missing = FALSE
    /\ failures = 0 /\ streak = 0
    /\ quiet = FALSE /\ restarted = FALSE
    /\ tick = "sleep" /\ beat = NoBeat
    /\ watch = FALSE /\ row = NoRow /\ count = 0
    /\ closedRun = 0 /\ launches = 0 /\ vain = 0 /\ resent = 0
    /\ glitches = 0 /\ switches = 0 /\ faults = 0

Glitch == glitches < MaxGlitches /\ glitches' = glitches + 1

-----------------------------------------------------------------------------
(* The watch thread *)

\* current_daemon and probe_port: what netstat shows.
Probe ==
    /\ tick = "sleep" /\ on
    /\ tick' = port
    /\ closedRun' = IF port # "closed" THEN 0
                    ELSE IF closedRun < BadNeeded THEN closedRun + 1
                    ELSE closedRun
    /\ UNCHANGED <<progVars, on, onCache, path, flags, streak, quiet,
                   restarted, beat, panelVars, launches, vain, resent, bounds>>

\* Mutant: a check that could not be made leaves the count as it is.
ProbeFailsKeepsStreak ==
    /\ tick = "sleep" /\ on
    /\ Glitch
    /\ closedRun' = 0
    /\ UNCHANGED <<progVars, on, onCache, path, flags, streak, quiet,
                   restarted, tick, beat, panelVars, launches, vain, resent,
                   switches, faults>>

\* netstat fails: no verdict, and the bad checks are no longer in a row.
ProbeFails ==
    /\ tick = "sleep" /\ on
    /\ Glitch
    /\ streak' = 0
    /\ closedRun' = 0
    /\ UNCHANGED <<progVars, on, onCache, path, flags, quiet, restarted, tick,
                   beat, panelVars, launches, vain, resent, switches, faults>>

\* cache_path_if_missing: wmic names the running program, or nothing.
CachePath == path' \in IF proc THEN {path, TRUE} ELSE {path}

\* Mutant: a healthy daemon does not end the state "gave up".
HealthyStaysUp ==
    /\ tick = "listening"
    /\ lastOk' = TRUE /\ everOk' = TRUE
    /\ failures' = 0 /\ streak' = 0 /\ vain' = 0
    /\ CachePath
    /\ tick' = "sleep"
    /\ UNCHANGED <<progVars, on, onCache, gaveUp, missing, quiet, restarted,
                   beat, panelVars, closedRun, launches, resent, bounds>>

\* tick, the port is listened to: everything is armed again.
Healthy ==
    /\ tick = "listening"
    /\ lastOk' = TRUE /\ everOk' = TRUE
    /\ gaveUp' = FALSE /\ missing' = FALSE
    /\ failures' = 0 /\ streak' = 0 /\ vain' = 0
    /\ CachePath
    /\ tick' = "sleep"
    /\ UNCHANGED <<progVars, on, onCache, quiet, restarted, beat, panelVars,
                   closedRun, launches, resent, bounds>>

\* A payment is under way: hands off, and not a bad check.
Busy ==
    /\ tick = "busy"
    /\ lastOk' = FALSE
    /\ streak' = 0
    /\ tick' = "sleep"
    /\ UNCHANGED <<progVars, on, onCache, path, everOk, gaveUp, missing,
                   failures, quiet, restarted, beat, panelVars, ghosts, bounds>>

\* Given up, or just started: nothing more in this round.
Closed ==
    /\ tick = "closed"
    /\ lastOk' = FALSE
    /\ tick' = IF gaveUp \/ quiet THEN "sleep" ELSE "pid"
    /\ UNCHANGED <<progVars, on, onCache, path, everOk, gaveUp, missing,
                   failures, streak, quiet, restarted, beat, panelVars, ghosts,
                   bounds>>

\* find_pid: what tasklist shows; a failing tasklist shows no process.
Seen(p) ==
    \/ p = proc /\ UNCHANGED glitches
    \/ ~p /\ proc /\ Glitch

\* A program that never was healthy waits for its reader; otherwise the bad
\* check counts, and BadNeeded of them start the recovery.
Judge(p) ==
    /\ tick = "pid"
    /\ Seen(p)
    /\ \/ p /\ ~everOk /\ tick' = "sleep" /\ UNCHANGED streak
       \/ /\ ~p \/ everOk
          /\ \/ streak + 1 < BadNeeded /\ streak' = streak + 1 /\ tick' = "sleep"
             \/ streak + 1 >= BadNeeded /\ streak' = 0 /\ tick' = "recover"
    /\ UNCHANGED <<progVars, on, onCache, path, flags, quiet, restarted, beat,
                   panelVars, ghosts, switches, faults>>

\* Mutant: failures are not counted.
NoteNothing == UNCHANGED <<failures, gaveUp>>

\* note_failure
NoteFailure ==
    /\ failures' = failures + 1
    /\ gaveUp' = (gaveUp \/ failures + 1 >= MaxFailures)

\* Mutant: the process is killed first and its path looked for later.
RecoverKillsFirst(p) ==
    /\ tick = "recover"
    /\ Seen(p)
    /\ path' = (path \/ found)
    /\ tick' = IF p THEN "kill" ELSE "launch"
    /\ UNCHANGED <<missing, failures, gaveUp>>
    /\ UNCHANGED <<progVars, on, onCache, lastOk, everOk, streak, quiet,
                   restarted, beat, panelVars, ghosts, switches, faults>>

\* recover up to the kill.  The running process is asked for its path, then
\* daemon_path tries the cache and the usual places.
Recover(p) ==
    /\ tick = "recover"
    /\ Seen(p)
    /\ \E asked \in IF p /\ proc THEN BOOLEAN ELSE {FALSE} :
          path' = (path \/ asked \/ found)
    /\ \/ /\ ~p /\ ~path'
          /\ missing' = TRUE /\ gaveUp' = TRUE /\ UNCHANGED failures
          /\ tick' = "sleep"
       \/ /\ p /\ ~path'
          /\ NoteFailure /\ UNCHANGED missing
          /\ tick' = "sleep"
       \/ /\ path'
          /\ tick' = IF p THEN "kill" ELSE "launch"
          /\ UNCHANGED <<missing, failures, gaveUp>>
    /\ UNCHANGED <<progVars, on, onCache, lastOk, everOk, streak, quiet,
                   restarted, beat, panelVars, ghosts, switches, faults>>

\* taskkill; a failure is only logged.
Kill ==
    /\ tick = "kill"
    /\ tick' = "launch"
    /\ \/ proc' = FALSE /\ port' = "closed" /\ UNCHANGED glitches
       \/ Glitch /\ UNCHANGED <<proc, port>>
    /\ UNCHANGED <<found, on, onCache, path, flags, streak, quiet, restarted,
                   beat, panelVars, ghosts, switches, faults>>

\* launch_in_user_session
Launch ==
    /\ tick = "launch"
    /\ launches < MaxLaunches
    /\ launches' = launches + 1 /\ vain' = vain + 1
    /\ proc' = TRUE
    /\ restarted' = TRUE
    /\ quiet' = TRUE
    /\ tick' = "sleep"
    /\ UNCHANGED <<found, port, on, onCache, path, flags, streak, beat,
                   panelVars, closedRun, resent, bounds>>

\* Nobody is logged on at the console, or the program does not start.
LaunchFails ==
    /\ tick = "launch"
    /\ NoteFailure
    /\ tick' = "sleep"
    /\ UNCHANGED <<progVars, on, onCache, path, lastOk, everOk, missing, streak,
                   quiet, restarted, beat, panelVars, ghosts, bounds>>

-----------------------------------------------------------------------------
(* The heartbeat thread and the panel *)

\* current_ok: no verdict while the program may be waiting for its reader.
CurrentOk ==
    IF lastOk THEN "yes" ELSE IF ~everOk /\ ~missing THEN "null" ELSE "no"

\* send_heartbeat, the VAN fields; without a verdict they are reset.
Report ==
    IF CurrentOk = "null" THEN NoRow
    ELSE [ok |-> CurrentOk, gaveUp |-> gaveUp, missing |-> missing]

BeatSend ==
    /\ beat = NoBeat
    /\ beat' = [at |-> "sent", some |-> on, row |-> Report,
                restarted |-> restarted]
    /\ UNCHANGED <<progVars, on, onCache, path, flags, streak, quiet, restarted,
                   tick, panelVars, ghosts, bounds>>

\* Mutant: the report is believed whether or not the customer is watched.
RecordAlways(r) == IF r.some THEN r.row ELSE row

\* recordHeartbeat: a report of a customer who is not watched is blanked.
Record(r) == IF ~r.some THEN row ELSE IF watch THEN r.row ELSE NoRow

\* Mutant: every report of a watched customer counts.
CountsAlways(r) == watch

Counts(r) == r.restarted /\ watch

BeatServe ==
    /\ beat.at = "sent"
    /\ row' = Record(beat)
    /\ count' = IF Counts(beat) THEN count + 1 ELSE count
    /\ beat' = [at |-> "served", restarted |-> beat.restarted]
    /\ UNCHANGED <<progVars, on, onCache, path, flags, streak, quiet, restarted,
                   tick, watch, ghosts, bounds>>

\* getVanWatch, a later statement of the same request.
BeatAnswer ==
    /\ beat.at = "served"
    /\ beat' = [at |-> "answered", on |-> watch, restarted |-> beat.restarted]
    /\ UNCHANGED <<progVars, on, onCache, path, flags, streak, quiet, restarted,
                   tick, panelVars, ghosts, bounds>>

\* The request or its answer is lost; the next heartbeat says it all again.
BeatLost ==
    /\ beat # NoBeat
    /\ Glitch
    /\ resent' = IF beat.at = "sent" THEN resent ELSE resent + 1
    /\ beat' = NoBeat
    /\ UNCHANGED <<progVars, on, onCache, path, flags, streak, quiet, restarted,
                   tick, panelVars, closedRun, launches, vain, switches, faults>>

\* clear_restarted, when the report that was answered carried the restart.
ClearRestarted == restarted' = (restarted /\ ~beat.restarted)

\* The answer arrives: set_kind, then clear_restarted.
BeatApply ==
    /\ beat.at = "answered"
    /\ on' = beat.on /\ onCache' = beat.on
    /\ IF on # beat.on
       THEN /\ everOk' = FALSE /\ gaveUp' = FALSE /\ missing' = FALSE
            /\ failures' = 0 /\ vain' = 0
       ELSE UNCHANGED <<everOk, gaveUp, missing, failures, vain>>
    /\ ClearRestarted
    /\ beat' = NoBeat
    /\ UNCHANGED <<progVars, path, lastOk, streak, quiet, tick, panelVars,
                   closedRun, launches, resent, bounds>>

\* setVanWatch: the operator turns the switch; the row is cleared.
SetVanWatch(w) ==
    /\ switches < MaxSwitches /\ switches' = switches + 1
    /\ watch' = w /\ row' = NoRow /\ count' = 0
    /\ UNCHANGED <<progVars, agentVars, ghosts, glitches, faults>>

-----------------------------------------------------------------------------
(* The program and the PC *)

\* With its reader on, the program opens its port.
DaemonStarts ==
    /\ proc /\ port = "closed"
    /\ port' = "listening"
    /\ UNCHANGED <<found, proc, agentVars, panelVars, ghosts, bounds>>

\* The port is closed, for good or while it is bound anew; a payment under way
\* may still hold its connection.
DaemonStops ==
    /\ port = "listening"
    /\ faults < MaxFaults /\ faults' = faults + 1
    /\ port' \in {"closed", "busy"}
    /\ UNCHANGED <<found, proc, agentVars, panelVars, ghosts, glitches,
                   switches>>

PaymentEnds ==
    /\ port = "busy"
    /\ port' = "closed"
    /\ UNCHANGED <<found, proc, agentVars, panelVars, ghosts, bounds>>

ProgramDies ==
    /\ proc
    /\ faults < MaxFaults /\ faults' = faults + 1
    /\ proc' = FALSE /\ port' = "closed"
    /\ UNCHANGED <<found, agentVars, panelVars, ghosts, glitches, switches>>

\* A person, or Windows at logon, starts the program.
ProgramStarts ==
    /\ ~proc
    /\ proc' = TRUE
    /\ UNCHANGED <<found, port, agentVars, panelVars, ghosts, bounds>>

QuietPasses ==
    /\ quiet
    /\ quiet' = FALSE
    /\ UNCHANGED <<progVars, on, onCache, path, flags, streak, restarted, tick,
                   beat, panelVars, ghosts, bounds>>

\* The PC restarts: start_watch arms from the cache at once.
Reboot ==
    /\ faults < MaxFaults /\ faults' = faults + 1
    /\ on' = onCache
    /\ lastOk' = FALSE /\ everOk' = FALSE /\ gaveUp' = FALSE
    /\ missing' = FALSE /\ failures' = 0 /\ streak' = 0 /\ vain' = 0
    /\ closedRun' = 0
    /\ quiet' = FALSE /\ restarted' = FALSE
    /\ tick' = "sleep" /\ beat' = NoBeat
    /\ proc' = FALSE /\ port' = "closed"
    /\ UNCHANGED <<found, onCache, path, panelVars, launches, resent, glitches,
                   switches>>

-----------------------------------------------------------------------------
Check ==
    \/ Probe \/ ProbeFails \/ Healthy \/ Busy \/ Closed
    \/ \E p \in BOOLEAN : Judge(p) \/ Recover(p)
    \/ Kill \/ Launch \/ LaunchFails

Beat == BeatSend \/ BeatServe \/ BeatAnswer \/ BeatApply

Program ==
    DaemonStarts \/ DaemonStops \/ PaymentEnds \/ ProgramDies \/ ProgramStarts

Next ==
    \/ Check \/ Beat \/ BeatLost \/ Program \/ QuietPasses \/ Reboot
    \/ \E w \in BOOLEAN : SetVanWatch(w)

Spec == Init /\ [][Next]_vars

\* Both threads run for ever, a payment ends and a minute passes.  Nothing is
\* assumed of the operator, of the program or of a launch.
Fairness ==
    WF_vars(Check) /\ WF_vars(Beat) /\ WF_vars(PaymentEnds)
    /\ WF_vars(QuietPasses)

FairSpec == Spec /\ Fairness

-----------------------------------------------------------------------------
(* Properties *)

(* The watchdog kills nothing it cannot start again: whenever it ends the
   process, the path of the program has been secured first (the accident of
   2026-08-13 that the comment in recover describes). *)
KilledIsKnown == [][tick = "kill" /\ tick' = "launch" => path]_vars

(* Debounce: the watchdog touches the program only when the last BadNeeded
   looks at the port all found it closed and unused, however switches of the
   control, graces, failing commands and payments come in between. *)
TwoBadChecks ==
    tick \in {"recover", "kill", "launch"} => closedRun >= BadNeeded

(* A customer who is not watched has no alarm on the panel, though the agent
   learns of the switch only from the answer to a report already sent. *)
NoAlarmUnwatched == ~watch => row = NoRow

(* The panel counts no restart that did not happen, except that a report whose
   answer was lost is counted again. *)
CountHasCause == count <= launches + resent

(* A program that is gone is started again, or a person is called: the state
   "gave up" is reached after MaxFailures vain attempts. *)
DeadIsRevived == (on /\ ~proc) ~> (proc \/ gaveUp \/ ~on)

(* Whatever the watchdog gave up on, a daemon that runs again is soon shown as
   healthy and without alarm, with nobody touching the switch. *)
HealthIsShown ==
    <>[](watch /\ port = "listening") => <>[](row = [NoRow EXCEPT !.ok = "yes"])

(* The module's header: repeated failure makes the watchdog let go of the
   program.  No more than MaxFailures restarts in a row are in vain. *)
RestartsBounded == vain <= MaxFailures
=============================================================================
