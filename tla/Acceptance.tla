----------------------------- MODULE Acceptance -----------------------------
(***************************************************************************)
(* Who gets onto a customer PC, and what the owner of the PC sees of it.   *)
(*                                                                         *)
(* The agent is built with approve-mode=click (deploy/custom-agent.txt):   *)
(* a login normally waits for a click on the accept card.  Three ways lead *)
(* past the card in src/server/connection.rs: a file transfer beside a     *)
(* running remote session, the grace after a restart, and the scheduled    *)
(* window (SchedWindow; here only open or not).                            *)
(*                                                                         *)
(* A connection is a task of the service.  It talks to the connection      *)
(* manager (CM), a process in the session of the user, through an IPC task *)
(* of its own (start_ipc); both directions are queues.  Authorising the    *)
(* connection and telling the CM of it are two steps, and so are leaving   *)
(* the loop and dropping the entry in AUTHED_CONNS.  Time is what is left  *)
(* of the grace.  Every login may order a restart: the switches for single *)
(* permissions, among them that one, are not modelled.                     *)
(***************************************************************************)
EXTENDS Integers, Sequences

CONSTANTS
    Conns,       \* connection ids
    Ops,         \* ids of operators (LoginRequest.my_id)
    NoId,        \* the empty id
    KindOf,      \* what a connection asks for: remote, file, other
    Grace,       \* 5 minutes of set_restart_reconnect_grace
    MaxReboots,  \* bound
    MaxDeaths,   \* bound: ends of the CM
    MaxQueue     \* bound: undelivered messages each way

Kinds   == {"remote", "file", "other"}

ASSUME OpsAssumption ==
    NoId \in Ops /\ Grace \in Nat /\ KindOf \in [Conns -> Kinds]
ASSUME BoundAssumption ==
    /\ MaxReboots \in Nat /\ MaxDeaths \in Nat /\ MaxQueue \in Nat \ {0}

VARIABLES
    prelogin,  \* is_prelogin: nobody is logged in
    conn,      \* connections
    ipc,       \* their IPC tasks
    toCm,      \* tx_to_cm up to the CM
    fromCm,    \* client.tx of the CM up to rx_from_cm
    clients,   \* CLIENTS of the CM: not there, a card to accept, a session
    file,      \* the file restart-grace
    window,    \* chainremote_sched::is_open
    clicked,   \* ghost: the owner accepted this connection
    cut,       \* ghost: the owner refused or ended it
    welcome,   \* ghost: operators the owner has let in, now or before
    earned,    \* ghost: what is left of the grace an operator's restart earns
    reboots, deaths

ghosts == <<clicked, cut, welcome, earned>>
limits == <<reboots, deaths>>
links  == <<ipc, toCm, fromCm, clients>>
vars   == <<prelogin, conn, links, file, window, ghosts, limits>>

Phases  == {"none", "open", "card", "telling", "authed", "ending"}
Over    == -1
NoConn  == [st |-> "none", op |-> NoId]
NoGrace == [op |-> NoId, left |-> Over]

\* Logged in, as far as AUTHED_CONNS and the session are concerned.
Authed(c) == conn[c].st \in {"telling", "authed"}

TypeOK ==
    /\ prelogin \in BOOLEAN /\ window \in BOOLEAN
    /\ conn \in [Conns -> [st: Phases, op: Ops]]
    /\ ipc \in [Conns -> {"off", "starting", "up", "lost"}]
    /\ toCm \in [Conns -> Seq({"card", "session", "close"})]
    /\ fromCm \in [Conns -> Seq({"authorize", "close", "cmerr"})]
    /\ clients \in [Conns -> {"no", "card", "session"}]
    /\ file \in [op: Ops, left: Over..Grace]
    /\ clicked \in [Conns -> BOOLEAN] /\ cut \in [Conns -> BOOLEAN]
    /\ welcome \subseteq Ops
    /\ earned \in [Ops -> Over..Grace]
    /\ reboots \in 0..MaxReboots /\ deaths \in 0..MaxDeaths

Init ==
    /\ prelogin = FALSE /\ window = FALSE
    /\ conn = [c \in Conns |-> NoConn]
    /\ ipc = [c \in Conns |-> "off"]
    /\ toCm = [c \in Conns |-> <<>>] /\ fromCm = [c \in Conns |-> <<>>]
    /\ clients = [c \in Conns |-> "no"]
    /\ file = NoGrace
    /\ clicked = [c \in Conns |-> FALSE] /\ cut = [c \in Conns |-> FALSE]
    /\ welcome = {}
    /\ earned = [o \in Ops |-> Over]
    /\ reboots = 0 /\ deaths = 0

Move(c, st) == conn' = [conn EXCEPT ![c].st = st]

\* Out of the loop.  A session is in AUTHED_CONNS until it is dropped.
Close(c) ==
    conn' = [conn EXCEPT ![c] = IF @.st = "authed" THEN [@ EXCEPT !.st = "ending"]
                                ELSE NoConn]

\* send_to_cm: after the IPC task ended nobody receives.
Tell(c, msg) ==
    toCm' = IF ipc[c] = "lost" THEN toCm
            ELSE [toCm EXCEPT ![c] = Append(@, msg)]

-----------------------------------------------------------------------------
(* Login *)

\* Connection::start, with a fresh id.
Connect(c) ==
    /\ conn[c].st = "none" /\ ipc[c] \in {"off", "lost"} /\ clients[c] = "no"
    /\ \E o \in Ops :
          conn' = [conn EXCEPT ![c] = [st |-> "open", op |-> o]]
    /\ ipc' = [ipc EXCEPT ![c] = "off"]
    /\ toCm' = [toCm EXCEPT ![c] = <<>>]
    /\ fromCm' = [fromCm EXCEPT ![c] = <<>>]
    /\ clicked' = [clicked EXCEPT ![c] = FALSE]
    /\ cut' = [cut EXCEPT ![c] = FALSE]
    /\ UNCHANGED <<prelogin, clients, file, window, welcome, earned,
                   limits>>

\* has_active_remote_session: AUTHED_CONNS still holds what is being dropped.
BesideRemote(c) ==
    /\ KindOf[c] = "file"
    /\ \E d \in Conns \ {c} :
          /\ KindOf[d] = "remote" /\ conn[d].op = conn[c].op
          /\ conn[d].st \in {"telling", "authed", "ending"}

\* Mutant: an empty id on either side matches.
GraceLoose(c) ==
    /\ file # NoGrace /\ file.left >= 0
    /\ conn[c].op = NoId \/ file.op = NoId \/ file.op = conn[c].op

\* consume_restart_reconnect_grace; the file stays while it is valid.
GraceValid(c) ==
    /\ file # NoGrace /\ file.left >= 0
    /\ file.op # NoId /\ file.op = conn[c].op

\* A login request, the first or another one.  The order of the branches is
\* that of on_message; each of the ways past the card authorises first.
Login(c) ==
    /\ conn[c].st \in {"open", "card"} /\ Len(toCm[c]) < MaxQueue
    /\ ipc' = [ipc EXCEPT ![c] = IF @ = "off" THEN "starting" ELSE @]
    /\ IF BesideRemote(c) \/ GraceValid(c) \/ window
       THEN Move(c, "telling") /\ UNCHANGED toCm
       ELSE Move(c, "card") /\ Tell(c, "card")
    /\ file' = IF ~BesideRemote(c) /\ file # NoGrace /\ file.left = Over
               THEN NoGrace ELSE file
    /\ welcome' = IF ~BesideRemote(c) /\ ~GraceValid(c) /\ window
                  THEN welcome \cup {conn[c].op} ELSE welcome
    /\ UNCHANGED <<prelogin, fromCm, clients, window, clicked, cut,
                   earned, limits>>

\* Mutant: the CM is only told of sessions that need a click.
TellCmNothing(c) ==
    /\ conn[c].st = "telling"
    /\ Move(c, "authed")
    /\ UNCHANGED <<prelogin, ipc, toCm, fromCm, clients, file, window,
                   ghosts, limits>>

\* try_start_cm(.., authorized), after the login response.
TellCm(c) ==
    /\ conn[c].st = "telling"
    /\ Move(c, "authed") /\ Tell(c, "session")
    /\ UNCHANGED <<prelogin, ipc, fromCm, clients, file, window, ghosts,
                   limits>>

-----------------------------------------------------------------------------
(* The loop of a connection *)

\* Data::Authorize.  An authorised connection returns early.
HandleAuthorize(c) ==
    /\ conn[c].st \in {"open", "card", "authed"}
    /\ fromCm[c] # <<>> /\ Head(fromCm[c]) = "authorize"
    /\ fromCm' = [fromCm EXCEPT ![c] = Tail(@)]
    /\ Move(c, "authed")
    /\ UNCHANGED <<prelogin, ipc, toCm, clients, file, window, ghosts,
                   limits>>

\* Mutant: only a connection without a session is ended by the owner.
HandleCloseCardOnly(c) ==
    /\ conn[c].st \in {"open", "card", "authed"}
    /\ fromCm[c] # <<>> /\ Head(fromCm[c]) \in {"close", "cmerr"}
    /\ fromCm' = [fromCm EXCEPT ![c] = Tail(@)]
    /\ IF conn[c].st = "authed" THEN UNCHANGED <<conn, toCm>>
       ELSE Close(c) /\ Tell(c, "close")
    /\ UNCHANGED <<prelogin, ipc, clients, file, window, ghosts, limits>>

\* Data::Close and Data::CmErr: on_close, and out of the loop.
HandleClose(c) ==
    /\ conn[c].st \in {"open", "card", "authed"}
    /\ fromCm[c] # <<>> /\ Head(fromCm[c]) \in {"close", "cmerr"}
    /\ fromCm' = [fromCm EXCEPT ![c] = Tail(@)]
    /\ Close(c) /\ Tell(c, "close")
    /\ UNCHANGED <<prelogin, ipc, clients, file, window, ghosts, limits>>

\* Mutant: a lost peer is dropped without a word to the CM.
LeaveSilently(c) ==
    /\ conn[c].st \in {"open", "card", "authed"}
    /\ Close(c)
    /\ UNCHANGED <<prelogin, ipc, toCm, fromCm, clients, file, window, ghosts,
                   limits>>

\* The peer leaves or is lost, a login error, a timeout: on_close.
Leave(c) ==
    /\ conn[c].st \in {"open", "card", "authed"}
    /\ Close(c) /\ Tell(c, "close")
    /\ UNCHANGED <<prelogin, ipc, fromCm, clients, file, window, ghosts,
                   limits>>

\* The connection is dropped, and its entry in AUTHED_CONNS with it.
Drop(c) ==
    /\ conn[c].st \in {"ending"}
    /\ conn' = [conn EXCEPT ![c] = NoConn]
    /\ UNCHANGED <<prelogin, links, file, window, ghosts, limits>>

\* RestartRemoteDevice in an authorised session: the grace is on disk before
\* the reboot is ordered; the reboot may fail or take its time.
Restart(c) ==
    /\ conn[c].st = "authed"
    /\ file' = [op |-> conn[c].op, left |-> Grace]
    /\ earned' = [earned EXCEPT ![conn[c].op] = Grace]
    /\ UNCHANGED <<prelogin, conn, links, window, clicked, cut, welcome,
                   limits>>

-----------------------------------------------------------------------------
(* IPC tasks and the connection manager *)

\* start_ipc waits for a user, then connects to the CM or starts it.
IpcUp(c) ==
    /\ ipc[c] = "starting" /\ ~prelogin
    /\ ipc' = [ipc EXCEPT ![c] = "up"]
    /\ UNCHANGED <<prelogin, conn, toCm, fromCm, clients, file, window,
                   ghosts, limits>>

\* It fails.  Not for want of a desktop (explorer.exe), and with a user
\* logged in, the connection is told.
IpcFails(c) ==
    /\ ipc[c] = "starting" /\ ~prelogin /\ deaths < MaxDeaths
    /\ deaths' = deaths + 1
    /\ ipc' = [ipc EXCEPT ![c] = "lost"]
    /\ toCm' = [toCm EXCEPT ![c] = <<>>]
    /\ \/ fromCm' = [fromCm EXCEPT ![c] = Append(@, "cmerr")]
       \/ UNCHANGED fromCm
    /\ UNCHANGED <<prelogin, conn, clients, file, window, ghosts, reboots>>

\* Mutant: a closed connection stays on the list (Data::Disconnected).
CmKeeps(c) == UNCHANGED clients

CmRemoves(c) == clients' = [clients EXCEPT ![c] = "no"]

\* The runner of the CM takes a message: add_connection, or Data::Close, which
\* ends it and the IPC task.
Deliver(c) ==
    /\ ipc[c] = "up" /\ toCm[c] # <<>>
    /\ IF Head(toCm[c]) = "close"
       THEN /\ CmRemoves(c)
            /\ ipc' = [ipc EXCEPT ![c] = "lost"]
            /\ toCm' = [toCm EXCEPT ![c] = <<>>]
       ELSE /\ clients' = [clients EXCEPT ![c] = Head(toCm[c])]
            /\ toCm' = [toCm EXCEPT ![c] = Tail(@)]
            /\ UNCHANGED ipc
    /\ UNCHANGED <<prelogin, conn, fromCm, file, window, ghosts, limits>>

\* The CM ends: with the session of the user (logged out), or alone.  What was
\* on its way is lost or not; who is told is decided as in IpcFails.
CmEnds(logout) ==
    /\ deaths < MaxDeaths /\ ~prelogin
    /\ deaths' = deaths + 1
    /\ prelogin' = logout
    /\ clients' = [c \in Conns |-> "no"]
    /\ ipc' = [c \in Conns |-> IF ipc[c] = "up" THEN "lost" ELSE ipc[c]]
    /\ toCm' = [c \in Conns |-> IF ipc[c] = "up" THEN <<>> ELSE toCm[c]]
    /\ \E lost \in BOOLEAN :
          fromCm' = [c \in Conns |->
                        IF ipc[c] # "up" THEN fromCm[c]
                        ELSE (IF lost THEN <<>> ELSE fromCm[c]) \o
                             (IF logout THEN <<>> ELSE <<"cmerr">>)]
    /\ UNCHANGED <<conn, file, window, ghosts, reboots>>

-----------------------------------------------------------------------------
(* The owner *)

Click(c, msg) ==
    /\ Len(fromCm[c]) < MaxQueue
    /\ fromCm' = [fromCm EXCEPT ![c] = Append(@, msg)]

\* authorize: the pending connection becomes a session of the list.
Authorize(c) ==
    /\ clients[c] = "card"
    /\ clients' = [clients EXCEPT ![c] = "session"]
    /\ Click(c, "authorize")
    /\ clicked' = [clicked EXCEPT ![c] = TRUE]
    /\ welcome' = IF conn[c].st = "none" THEN welcome
                  ELSE welcome \cup {conn[c].op}

\* The accept card.
Accept(c) ==
    /\ Authorize(c)
    /\ UNCHANGED <<prelogin, conn, ipc, toCm, file, window, cut,
                   earned, limits>>

\* close: refused, or ended.
Cut(c) ==
    /\ clients[c] # "no" /\ ~cut[c]
    /\ Click(c, "close")
    /\ cut' = [cut EXCEPT ![c] = TRUE]
    /\ UNCHANGED <<prelogin, conn, ipc, toCm, clients, file, window,
                   clicked, welcome, earned, limits>>

\* cr_sched_answer(accepted) on a time card; a pending login is authorised
\* with it.  Refused, it is Cut.
GrantWindow(c) ==
    /\ clients[c] # "no" /\ ~window
    /\ window' = TRUE
    /\ \/ Authorize(c)
       \/ clients[c] = "session" /\ UNCHANGED <<clients, fromCm, clicked, welcome>>
    /\ UNCHANGED <<prelogin, conn, ipc, toCm, file, cut, earned,
                   limits>>

\* The window ends, see SchedWindow.
WindowEnds ==
    /\ window
    /\ window' = FALSE
    /\ UNCHANGED <<prelogin, conn, links, file, ghosts, limits>>

-----------------------------------------------------------------------------
(* Time, the user, the machine *)

Less(t) == IF t = Over THEN Over ELSE t - 1

\* Mutant: the grace of a running session is renewed all the time.
TickRenews ==
    /\ \/ \E c \in Conns : /\ conn[c].st = "authed"
                           /\ file' = [op |-> conn[c].op, left |-> Grace]
       \/ (\A c \in Conns : conn[c].st # "authed")
             /\ file' = [file EXCEPT !.left = Less(@)]
    /\ earned' = [o \in Ops |-> Less(earned[o])]
    /\ UNCHANGED <<prelogin, conn, links, window, clicked, cut, welcome,
                   limits>>

\* Time passes; second_timer renews nothing.
Tick ==
    /\ file' = [file EXCEPT !.left = Less(@)]
    /\ earned' = [o \in Ops |-> Less(earned[o])]
    /\ UNCHANGED <<prelogin, conn, links, window, clicked, cut, welcome,
                   limits>>

UserLogsIn ==
    /\ prelogin
    /\ prelogin' = FALSE
    /\ UNCHANGED <<conn, links, file, window, ghosts, limits>>

\* Ordered or not.  The files survive.
Reboot ==
    /\ reboots < MaxReboots
    /\ reboots' = reboots + 1
    /\ prelogin' = TRUE
    /\ conn' = [c \in Conns |-> NoConn]
    /\ ipc' = [c \in Conns |-> "off"]
    /\ toCm' = [c \in Conns |-> <<>>] /\ fromCm' = [c \in Conns |-> <<>>]
    /\ clients' = [c \in Conns |-> "no"]
    /\ UNCHANGED <<file, window, ghosts, deaths>>

LoopStep(c) ==
    \/ TellCm(c) \/ HandleAuthorize(c) \/ HandleClose(c) \/ Drop(c)

IpcStep(c) == IpcUp(c) \/ Deliver(c)

OwnerStep(c) == Accept(c) \/ Cut(c) \/ GrantWindow(c)

Next ==
    \/ \E c \in Conns :
          \/ Connect(c) \/ Login(c) \/ Leave(c) \/ Restart(c)
          \/ LoopStep(c) \/ IpcStep(c) \/ IpcFails(c) \/ OwnerStep(c)
    \/ \E logout \in BOOLEAN : CmEnds(logout)
    \/ WindowEnds \/ Tick \/ UserLogsIn \/ Reboot

Spec == Init /\ [][Next]_vars

\* The tasks of the service and of the CM run.  Nothing is assumed of the
\* people, the network or the machine.
Fairness ==
    \A c \in Conns : WF_vars(LoopStep(c)) /\ WF_vars(IpcStep(c))

FairSpec == Spec /\ Fairness

-----------------------------------------------------------------------------
(* Properties *)

(* A connection becomes a session for a reason of its own: the owner clicked
   for this very connection, the window is open, the same operator has a
   remote session, or a session of the same operator ordered a restart at
   most Grace ago.  Checked against the history of clicks and restarts, not
   against the file the code reads. *)
EntryHasCause ==
    [][\A c \in Conns :
         ~Authed(c) /\ Authed(c)' =>
            \/ clicked[c]
            \/ window
            \/ BesideRemote(c)
            \/ earned[conn[c].op] >= 0
      ]_vars

(* Through any chain of restarts, reboots and file transfers, nobody has a
   session whom the owner has not let in before, by a click or by a window
   that was open. *)
OwnerFirst == \A c \in Conns : Authed(c) => conn[c].op \in welcome

Has(queue, msg) == \E i \in 1..Len(queue) : queue[i] = msg

(* try_start_cm and on_close against start_ipc and the CM's runner.  A session is
   on the owner's list, or its entry is on its way there, for as long as its
   IPC task lives; and what is on the list without a connection has its removal
   on its way.  So a click that overtakes a card, a login during a start of the
   CM or a peer lost in between hide no session and leave no dead entry. *)
ListFollows ==
    \A c \in Conns :
        /\ conn[c].st = "authed" =>
              \/ ipc[c] = "lost" \/ clients[c] # "no"
              \/ Has(toCm[c], "session") \/ Has(toCm[c], "card")
        /\ clients[c] # "no" /\ conn[c].st \in {"none", "ending"} =>
              Has(toCm[c], "close")

\* The IPC task ended without a word to the connection.
Untold(c) == ipc[c] = "lost" /\ ~Has(fromCm[c], "cmerr")

(* With a user at the PC a session, also one that needed no click, gets onto
   the owner's list or ends.  The one exception is the code's: a CM lost at
   the logon screen or for want of a desktop. *)
SeenOrEnded ==
    \A c \in Conns :
        Authed(c) /\ ~prelogin ~>
            clients[c] # "no" \/ ~Authed(c) \/ prelogin \/ Untold(c)

(* The owner's last word: a connection the owner refused or ended does end,
   whatever logins, clicks and authorisations are under way. *)
CutEnds ==
    \A c \in Conns :
        cut[c] /\ Authed(c) ~> ~Authed(c) \/ Untold(c)

(* The comment in on_close: nothing is left on the customer's screen of a
   connection that is gone. *)
NoLeftover ==
    \A c \in Conns : conn[c].st = "none" ~> clients[c] = "no" \/ conn[c].st # "none"
=============================================================================
