---------------------------- MODULE SchedWindow ----------------------------
(***************************************************************************)
(* The scheduled remote window: the customer grants a time in which        *)
(* support may connect without a click on the accept card.                 *)
(*                                                                         *)
(* Customer PC: src/chainremote_sched.rs keeps the window in one file      *)
(* under ProgramData that several processes read and write (the service    *)
(* with its connections and its heartbeat, the connection manager, the     *)
(* tray), none of them under a lock.  src/server/connection.rs lets a      *)
(* login pass while the window is open; src/chainremote_heartbeat.rs       *)
(* reports the window and carries out a close request.                     *)
(* Panel: recordHeartbeat, getSchedCloseRequest and requestSchedClose of   *)
(* chainremote-admin/lib/data/customers.ts.                                *)
(*                                                                         *)
(* Every access to the file is a step of its own.  Time is an integer      *)
(* clock of the PC; a timestamp of the panel is a fresh number.            *)
(***************************************************************************)
EXTENDS Integers

CONSTANTS
    Conns,        \* connections that may log in through the window
    MaxWindow,    \* MAX_WINDOW_SECS
    IdleClose,    \* IDLE_CLOSE_SECS
    Leads,        \* proposals: start minus the operator's clock
    Lengths,      \* proposals: end minus the operator's clock
    Skews,        \* the operator's clock minus the clock of the PC
    PcAhead,      \* the clock of the PC minus the clock of the panel
    Slack,        \* how much more than MaxWindow the panel believes (1 hour)
    MaxClock,     \* bound: the clock stops here
    MaxGrants,    \* bound: how often the customer grants
    MaxRequests,  \* bound: how often an operator asks to close
    MaxCrashes    \* bound: reboots of the PC

ASSUME WindowAssumption ==
    /\ MaxWindow \in Nat \ {0} /\ IdleClose \in Nat \ {0} /\ Slack \in Nat
    /\ Leads \subseteq Int /\ Lengths \subseteq Nat /\ Skews \subseteq Int
    /\ PcAhead \in Int
ASSUME BoundAssumption ==
    /\ MaxClock \in Nat /\ MaxGrants \in Nat /\ MaxRequests \in Nat
    /\ MaxCrashes \in Nat

VARIABLES
    now,      \* the clock of the PC
    file,     \* the file sched-window
    granted,  \* what the customer saw on each card accepted so far
    grants,   \* how many
    conn,     \* connections: where they are, the copy of the file they hold
    stale,    \* a reader found the window over and will remove the file
    beat,     \* the heartbeat under way
    late,     \* a report the agent gave up on that the panel may still get
    done,     \* SCHED_CLOSE_DONE_KEY
    until,    \* customers.sched_open_until, 0 for NULL
    request,  \* customers.sched_close_requested_at, 0 for NULL
    requests, \* how many requests were made
    crashes

pcVars    == <<file, conn, stale, done>>
panelVars == <<until, request>>
ghosts    == <<granted, grants, requests>>
vars == <<now, pcVars, beat, late, panelVars, ghosts, crashes>>

Min2(a, b) == IF a < b THEN a ELSE b
Max2(a, b) == IF a < b THEN b ELSE a

NoTime   == -1
NoWindow == [label |-> 0, start |-> 0, end |-> 0, granted_at |-> 0,
             last |-> NoTime, inSession |-> FALSE]

\* SchedWindow; the label, the text the customer saw, names the grant.
Windows == [label: 0..MaxGrants, start: Nat, end: 0..MaxClock,
            granted_at: 0..MaxClock, last: Int, inSession: BOOLEAN]

NoConn == [at |-> "none", w |-> NoWindow]
NoBeat == [at |-> "idle", v |-> 0]

TypeOK ==
    /\ now \in 0..MaxClock
    /\ file \in Windows
    /\ grants \in 0..MaxGrants
    /\ conn \in [Conns -> [at: {"none", "pass", "starting", "in", "ending"},
                           w: Windows]]
    /\ stale \in BOOLEAN
    /\ beat \in [at: {"idle", "drop", "sent", "answered", "mark"}, v: Int]
    /\ beat.at \in {"answered", "mark"} => beat.v \in 0..MaxRequests
    /\ late \in Int
    /\ done \in 0..MaxRequests
    /\ until \in Int
    /\ request \in 0..MaxRequests
    /\ requests \in 0..MaxRequests
    /\ crashes \in 0..MaxCrashes

Init ==
    /\ now = 0
    /\ file = NoWindow
    /\ granted = {} /\ grants = 0
    /\ conn = [c \in Conns |-> NoConn]
    /\ stale = FALSE
    /\ beat = NoBeat
    /\ late = NoTime
    /\ done = 0 /\ until = 0 /\ request = 0 /\ requests = 0
    /\ crashes = 0

-----------------------------------------------------------------------------
(* The verdicts of chainremote_sched.rs on the file's contents *)

\* status: over, whoever asks.
Expired(w) == now >= w.end \/ now - w.granted_at >= MaxWindow

\* is_open, third test: used, not in use, and quiet for too long.
Idle(w) == ~w.inSession /\ w.last # NoTime /\ now - w.last >= IdleClose

\* Mutant: only the agreed end closes a window that has begun.
IsOpenAfterEnd(w) == w # NoWindow /\ now >= w.start /\ ~Idle(w)

IsOpen(w) == w # NoWindow /\ now >= w.start /\ ~Expired(w) /\ ~Idle(w)

\* Closed for good: is_open removes the file, not so before the start.
IsOver(w) == w # NoWindow /\ now >= w.start /\ (Expired(w) \/ Idle(w))

\* Mutant: the limit of the window instead of the agreed end.
ReportLimit(w) ==
    IF w = NoWindow \/ Expired(w) THEN 0 ELSE w.granted_at + MaxWindow

\* What status returns, as the heartbeat reports it.
Report(w) == IF w = NoWindow \/ Expired(w) THEN 0 ELSE w.end

-----------------------------------------------------------------------------
(* The customer *)

\* Mutant: the operator's times are taken over as they are.
GrantedUnshifted(start, end, hqNow) ==
    [label |-> grants + 1,
     start |-> Max2(start, now),
     end |-> Min2(end, now + MaxWindow),
     granted_at |-> now, last |-> NoTime, inSession |-> FALSE]

\* grant: shifted to the clock of the PC, at most MaxWindow long.
Granted(start, end, hqNow) ==
    LET skew == hqNow - now IN
    [label |-> grants + 1,
     start |-> Max2(start - skew, now),
     end |-> Min2(end - skew, now + MaxWindow),
     granted_at |-> now, last |-> NoTime, inSession |-> FALSE]

\* cr_sched_answer(accepted), the only caller of grant.  The customer reads
\* the card as "from lead until length", whatever the clocks say.
Grant ==
    /\ grants < MaxGrants
    /\ \E lead \in Leads, length \in Lengths, skew \in Skews :
          LET hqNow == now + skew IN
          /\ lead < length /\ now + Min2(length, MaxWindow) <= MaxClock
          /\ file' = Granted(hqNow + lead, hqNow + length, hqNow)
          /\ granted' = granted \cup
                {[label |-> grants + 1, at |-> now,
                  from |-> now + Max2(lead, 0),
                  to |-> now + Min2(length, MaxWindow)]}
    /\ grants' = grants + 1
    /\ UNCHANGED <<now, conn, stale, done, beat, late, panelVars, requests, crashes>>

\* status in the tooltip of the tray and in the connection manager, is_open in
\* a login: what is found over will be removed.  One such reader at a time.
FoundOver ==
    /\ ~stale /\ file # NoWindow /\ (Expired(file) \/ IsOver(file))
    /\ stale' = TRUE
    /\ UNCHANGED <<now, file, conn, done, beat, late, panelVars, ghosts,
                   crashes>>

\* clear: by now perhaps another window.
Remove ==
    /\ stale
    /\ stale' = FALSE
    /\ file' = NoWindow
    /\ UNCHANGED <<now, conn, done, beat, late, panelVars, ghosts, crashes>>

-----------------------------------------------------------------------------
(* Connections *)

Go(c, at, w) == conn' = [conn EXCEPT ![c] = [at |-> at, w |-> w]]

OnlyConns == UNCHANGED <<now, stale, done, beat, late, panelVars, ghosts,
                         crashes>>

\* A login request finds the window open.  Otherwise it goes on to the accept
\* card, which is not modelled here.
Login(c) ==
    /\ conn[c].at = "none" /\ IsOpen(file)
    /\ Go(c, "pass", NoWindow)
    /\ UNCHANGED file /\ OnlyConns

\* note_session_start: read, then write the copy back.
NoteStart(c) ==
    /\ conn[c].at = "pass"
    /\ Go(c, IF file = NoWindow THEN "in" ELSE "starting", file)
    /\ UNCHANGED file /\ OnlyConns

NoteStartWrite(c) ==
    /\ conn[c].at = "starting"
    /\ file' = [conn[c].w EXCEPT !.inSession = TRUE]
    /\ Go(c, "in", NoWindow) /\ OnlyConns

\* on_close of a window session: note_session_end, read and write.
NoteEnd(c) ==
    /\ conn[c].at = "in"
    /\ IF file = NoWindow THEN Go(c, "none", NoWindow)
       ELSE Go(c, "ending", file)
    /\ UNCHANGED file /\ OnlyConns

\* Mutant: the session mark is left on.
NoteEndKeepsMark(c) ==
    /\ conn[c].at = "ending"
    /\ file' = [conn[c].w EXCEPT !.last = now]
    /\ Go(c, "none", NoWindow) /\ OnlyConns

NoteEndWrite(c) ==
    /\ conn[c].at = "ending"
    /\ file' = [conn[c].w EXCEPT !.inSession = FALSE, !.last = now]
    /\ Go(c, "none", NoWindow) /\ OnlyConns

\* CrSchedReq with close, over any authorized connection.
HqClose ==
    /\ file # NoWindow
    /\ file' = NoWindow
    /\ UNCHANGED <<now, conn, stale, done, beat, late, panelVars, ghosts,
                   crashes>>

-----------------------------------------------------------------------------
(* Heartbeat *)

\* Mutant: the field is left out when there is no window.
ReportOnlyOpen(at, w) == [at |-> at, v |-> IF Report(w) = 0 THEN NoTime
                                           ELSE Report(w)]

Reporting(at, w) == [at |-> at, v |-> Report(w)]

\* send_heartbeat: status, and the POST.
BeatCompose ==
    /\ beat.at = "idle"
    /\ beat' = Reporting(IF file # NoWindow /\ Expired(file) THEN "drop"
                         ELSE "sent", file)
    /\ UNCHANGED <<now, pcVars, late, panelVars, ghosts, crashes>>

BeatDrop ==
    /\ beat.at = "drop"
    /\ file' = NoWindow
    /\ beat' = [beat EXCEPT !.at = "sent"]
    /\ UNCHANGED <<now, conn, stale, done, late, panelVars, ghosts, crashes>>

\* Mutant: only the end is taken from a report.
RecordEndOnly(v) ==
    /\ until' = IF v = 0 THEN 0
                ELSE IF v > 0 /\ v <= now - PcAhead + MaxWindow + Slack THEN v
                ELSE until
    /\ UNCHANGED request

\* recordHeartbeat: 0 empties both columns; another end than the known one
\* empties the request; a time too far ahead or no field changes nothing.
Record(v) ==
    /\ until' = IF v = 0 THEN 0
                ELSE IF v > 0 /\ v <= now - PcAhead + MaxWindow + Slack THEN v
                ELSE until
    /\ request' = IF v = 0 THEN 0
                  ELSE IF v > 0 /\ v <= now - PcAhead + MaxWindow + Slack
                          /\ until # v THEN 0
                  ELSE request

\* The heartbeat route: recordHeartbeat, then getSchedCloseRequest.
BeatServe ==
    /\ beat.at = "sent"
    /\ Record(beat.v)
    /\ beat' = [at |-> "answered", v |-> request']
    /\ UNCHANGED <<now, pcVars, late, ghosts, crashes>>

\* handle_sched_close: a request is handled once.
BeatClose ==
    /\ beat.at = "answered"
    /\ IF beat.v = 0 \/ beat.v = done
       THEN beat' = NoBeat /\ UNCHANGED file
       ELSE beat' = [beat EXCEPT !.at = "mark"] /\ file' = NoWindow
    /\ UNCHANGED <<now, conn, stale, done, late, panelVars, ghosts, crashes>>

BeatMark ==
    /\ beat.at = "mark"
    /\ done' = beat.v
    /\ beat' = NoBeat
    /\ UNCHANGED <<now, file, conn, stale, late, panelVars, ghosts, crashes>>

\* The connection fails, or HTTP_TIMEOUT passes and the report arrives later.
BeatLost ==
    /\ beat.at \in {"sent", "answered"}
    /\ beat' = NoBeat
    /\ \/ UNCHANGED late
       \/ beat.at = "sent" /\ late = NoTime /\ late' = beat.v
    /\ UNCHANGED <<now, pcVars, panelVars, ghosts, crashes>>

LateServe ==
    /\ late # NoTime
    /\ late' = NoTime
    /\ Record(late)
    /\ UNCHANGED <<now, pcVars, beat, ghosts, crashes>>

-----------------------------------------------------------------------------
(* Panel, time, faults *)

\* requestSchedClose does not ask whether a window is known.
RequestClose ==
    /\ requests < MaxRequests
    /\ requests' = requests + 1
    /\ request' = requests + 1
    /\ UNCHANGED <<now, pcVars, beat, late, until, granted, grants, crashes>>

Tick ==
    /\ now < MaxClock
    /\ now' = now + 1
    /\ UNCHANGED <<pcVars, beat, late, panelVars, ghosts, crashes>>

\* A reboot or power loss: no on_close.  The file and the options survive.
Crash ==
    /\ crashes < MaxCrashes
    /\ crashes' = crashes + 1
    /\ conn' = [c \in Conns |-> NoConn]
    /\ stale' = FALSE
    /\ beat' = NoBeat
    /\ UNCHANGED <<now, file, done, late, panelVars, ghosts>>

ConnStep(c) ==
    \/ Login(c) \/ NoteStart(c) \/ NoteStartWrite(c) \/ NoteEnd(c)
    \/ NoteEndWrite(c)

BeatStep ==
    \/ BeatCompose \/ BeatDrop \/ BeatServe \/ BeatClose \/ BeatMark
    \/ BeatLost

Next ==
    \/ Grant \/ FoundOver \/ Remove \/ HqClose
    \/ \E c \in Conns : ConnStep(c)
    \/ BeatStep \/ LateServe
    \/ RequestClose \/ Tick \/ Crash

Spec == Init /\ [][Next]_vars

\* The clock goes on, the heartbeat thread loops, started file operations end,
\* and of the reports sent again and again some are answered.  Nothing is
\* assumed of the people.
Fairness ==
    /\ WF_vars(Tick) /\ WF_vars(Remove)
    /\ \A c \in Conns : WF_vars(NoteStart(c) \/ NoteStartWrite(c)
                                \/ NoteEndWrite(c))
    /\ WF_vars(BeatCompose) /\ WF_vars(BeatDrop) /\ WF_vars(BeatMark)
    /\ SF_vars(BeatServe) /\ SF_vars(BeatClose)

FairSpec == Spec /\ Fairness

-----------------------------------------------------------------------------
(* Properties *)

(* The file is always a window the customer granted, as the card showed it:
   whatever processes interleave their copies, whatever the operator's clock
   says, its times are those of one card, and at most MaxWindow long. *)
FileIsAGrant ==
    file # NoWindow =>
        \E g \in granted :
            /\ file.label = g.label /\ file.granted_at = g.at
            /\ file.start = g.from /\ file.end = g.to
            /\ g.to <= g.at + MaxWindow

(* A login passes without a click only inside a time the customer granted and
   less than MaxWindow after the grant: not after it by a copy written back,
   and not before the start. *)
EntryWithinGrant ==
    [][\A c \in Conns :
         conn[c].at = "none" /\ conn'[c].at = "pass" =>
            \E g \in granted : g.from <= now /\ now < g.to
                               /\ now < g.at + MaxWindow]_vars

(* Without a power loss the idle clock runs whenever nobody is connected: the
   session mark, written back from copies by several connections, is never
   left on by a connection that is gone. *)
IdleClockRuns ==
    crashes = 0 /\ file.inSession =>
        \E c \in Conns : conn[c].at \in {"in", "ending"}

(* sched_open_until is the end of a window the customer granted, as the card
   showed it: a report composed before another grant, given up by the agent and
   recorded late, or a file changed under the heartbeat, never makes the panel
   show a time nobody agreed to. *)
PanelShowsGrants == until # 0 => \E g \in granted : until = g.to

(* The panel does not show a window for ever: the end it knows is replaced,
   also after lost, late and reordered reports. *)
PanelForgets == \A u \in 1..MaxClock : until = u ~> until # u

(* A close request does not hang for ever: a PC that reports makes it go away,
   also when its window was written back after the close. *)
RequestSettles == \A r \in 1..MaxRequests : request = r ~> request # r
=============================================================================
