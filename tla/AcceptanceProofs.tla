-------------------------- MODULE AcceptanceProofs --------------------------
(***************************************************************************)
(* Proofs about Acceptance for every number of connections and operators,  *)
(* any length of the grace and of the queues.  OwnerFirst and              *)
(* EntryHasCause are about sessions; the inductive invariant adds where    *)
(* sessions come from: the file of the grace and the answers of the CM     *)
(* that are still on their way.                                            *)
(***************************************************************************)
EXTENDS Acceptance, TLAPS

ToMsgs   == {"card", "session", "close"}
FromMsgs == {"authorize", "close", "cmerr"}

-----------------------------------------------------------------------------
(* Queues *)

LEMMA HasAppend ==
    ASSUME NEW S, NEW s \in Seq(S), NEW m \in S, NEW x \in S,
           Has(Append(s, x), m)
    PROVE  Has(s, m) \/ x = m
  BY DEF Has

LEMMA HasTail ==
    ASSUME NEW S, NEW s \in Seq(S), NEW m \in S, s # <<>>, Has(Tail(s), m)
    PROVE  Has(s, m)
  <1>1. PICK i \in 1..Len(Tail(s)) : Tail(s)[i] = m
    BY DEF Has
  <1>2. i + 1 \in 1..Len(s) /\ s[i + 1] = m
    BY <1>1
  <1> QED
    BY <1>2 DEF Has

LEMMA HasHead ==
    ASSUME NEW S, NEW s \in Seq(S), s # <<>>
    PROVE  Has(s, Head(s))
  BY DEF Has

LEMMA HasEmpty ==
    ASSUME NEW m
    PROVE  ~Has(<<>>, m)
  BY DEF Has

LEMMA HasEnd ==
    ASSUME NEW S, NEW s \in Seq(S), NEW m \in S, NEW x \in S, x # m,
           Has(s \o <<x>>, m)
    PROVE  Has(s, m)
  BY DEF Has

-----------------------------------------------------------------------------
(* Type correctness *)

LEMMA EmptyQueue ==
    /\ <<>> \in Seq(ToMsgs)
    /\ <<>> \in Seq(FromMsgs)
    /\ <<"cmerr">> \in Seq(FromMsgs)
  BY DEF ToMsgs, FromMsgs

LEMMA ResetQueue ==
    ASSUME TypeOK, NEW c \in Conns, toCm' = [toCm EXCEPT ![c] = <<>>]
    PROVE  toCm' \in [Conns -> Seq(ToMsgs)]
  BY EmptyQueue DEF TypeOK, ToMsgs

LEMMA InitType == Init => TypeOK
  <1> SUFFICES ASSUME Init PROVE TypeOK
    OBVIOUS
  <1>1. /\ toCm \in [Conns -> Seq(ToMsgs)]
        /\ fromCm \in [Conns -> Seq(FromMsgs)]
    BY EmptyQueue DEF Init
  <1>2. /\ conn \in [Conns -> [st: Phases, op: Ops]]
        /\ file \in [op: Ops, left: Over..Grace]
        /\ earned \in [Ops -> Over..Grace]
    BY OpsAssumption DEF Init, NoConn, NoGrace, Over, Phases
  <1>3. reboots \in 0..MaxReboots /\ deaths \in 0..MaxDeaths
    BY BoundAssumption DEF Init
  <1>4. /\ prelogin \in BOOLEAN /\ window \in BOOLEAN
        /\ clicked \in [Conns -> BOOLEAN] /\ cut \in [Conns -> BOOLEAN]
        /\ ipc \in [Conns -> {"off", "starting", "up", "lost"}]
        /\ clients \in [Conns -> {"no", "card", "session"}]
        /\ welcome \subseteq Ops
    BY DEF Init
  <1> QED
    BY <1>1, <1>2, <1>3, <1>4 DEF TypeOK, ToMsgs, FromMsgs

LEMMA TellType ==
    ASSUME TypeOK, NEW c \in Conns, NEW m \in ToMsgs, Tell(c, m)
    PROVE  toCm' \in [Conns -> Seq(ToMsgs)]
  <1>1. Append(toCm[c], m) \in Seq(ToMsgs)
    BY DEF TypeOK, ToMsgs
  <1> QED
    BY <1>1 DEF TypeOK, Tell, ToMsgs

LEMMA ClickType ==
    ASSUME TypeOK, NEW c \in Conns, NEW m \in FromMsgs, Click(c, m)
    PROVE  fromCm' \in [Conns -> Seq(FromMsgs)]
  <1>1. Append(fromCm[c], m) \in Seq(FromMsgs)
    BY DEF TypeOK, FromMsgs
  <1> QED
    BY <1>1 DEF TypeOK, Click, FromMsgs

LEMMA MoveType ==
    ASSUME TypeOK, NEW c \in Conns, NEW st \in Phases, Move(c, st)
    PROVE  /\ conn' \in [Conns -> [st: Phases, op: Ops]]
           /\ conn'[c].st = st /\ conn'[c].op = conn[c].op
           /\ \A d \in Conns \ {c} : conn'[d] = conn[d]
  BY DEF TypeOK, Move

LEMMA CloseType ==
    ASSUME TypeOK, NEW c \in Conns, Close(c)
    PROVE  /\ conn' \in [Conns -> [st: Phases, op: Ops]]
           /\ conn'[c].st \in {"none", "ending"}
           /\ conn'[c].st = "ending" => conn[c].st = "authed"
                                        /\ conn'[c].op = conn[c].op
           /\ \A d \in Conns \ {c} : conn'[d] = conn[d]
  <1>1. CASE conn[c].st = "authed"
    <2>1. conn' = [conn EXCEPT ![c] = [conn[c] EXCEPT !.st = "ending"]]
      BY <1>1 DEF Close
    <2>2. /\ [conn[c] EXCEPT !.st = "ending"] \in [st: Phases, op: Ops]
          /\ [conn[c] EXCEPT !.st = "ending"].st = "ending"
          /\ [conn[c] EXCEPT !.st = "ending"].op = conn[c].op
      BY DEF TypeOK, Phases
    <2> QED
      BY <1>1, <2>1, <2>2 DEF TypeOK
  <1>2. CASE conn[c].st # "authed"
    <2>1. conn' = [conn EXCEPT ![c] = NoConn]
      BY <1>2 DEF Close
    <2>2. NoConn \in [st: Phases, op: Ops] /\ NoConn.st = "none"
      BY OpsAssumption DEF NoConn, Phases
    <2> QED
      BY <2>1, <2>2 DEF TypeOK
  <1> QED
    BY <1>1, <1>2

LEMMA LessType ==
    ASSUME NEW t \in Over..Grace
    PROVE  Less(t) \in Over..Grace /\ (Less(t) >= 0 => Less(t) = t - 1)
  BY OpsAssumption DEF Less, Over

LEMMA TailType ==
    ASSUME TypeOK, NEW c \in Conns, fromCm[c] # <<>>
    PROVE  [fromCm EXCEPT ![c] = Tail(@)] \in [Conns -> Seq(FromMsgs)]
  <1>1. Tail(fromCm[c]) \in Seq(FromMsgs)
    BY DEF TypeOK, FromMsgs
  <1> QED
    BY <1>1 DEF TypeOK, FromMsgs

LEMMA ConnType ==
    ASSUME TypeOK, NEW c \in Conns,
           Connect(c) \/ Login(c) \/ Leave(c) \/ Restart(c) \/ LoopStep(c)
    PROVE  TypeOK'
  <1> USE DEF TypeOK, links, limits, ghosts
  <1>1. CASE Connect(c)
    <2>1. PICK o \in Ops : conn' = [conn EXCEPT ![c] = [st |-> "open", op |-> o]]
      BY <1>1 DEF Connect
    <2>2. conn' \in [Conns -> [st: Phases, op: Ops]]
      BY <2>1 DEF Phases
    <2> QED
      BY <1>1, <2>2 DEF Connect
  <1>2. CASE Login(c)
    <2>1. CASE BesideRemote(c) \/ GraceValid(c) \/ window
      <3>1. Move(c, "telling") /\ toCm' = toCm
        BY <1>2, <2>1 DEF Login
      <3>2. conn' \in [Conns -> [st: Phases, op: Ops]]
        BY <3>1, MoveType DEF Phases
      <3>3. file' \in [op: Ops, left: Over..Grace] /\ welcome' \subseteq Ops
        BY <1>2, OpsAssumption DEF Login, NoGrace, Over
      <3> QED
        BY <1>2, <3>1, <3>2, <3>3 DEF Login
    <2>2. CASE ~(BesideRemote(c) \/ GraceValid(c) \/ window)
      <3>1. Move(c, "card") /\ Tell(c, "card")
        BY <1>2, <2>2 DEF Login
      <3>2. conn' \in [Conns -> [st: Phases, op: Ops]]
        BY <3>1, MoveType DEF Phases
      <3>3. file' \in [op: Ops, left: Over..Grace] /\ welcome' \subseteq Ops
        BY <1>2, OpsAssumption DEF Login, NoGrace, Over
      <3>4. toCm' \in [Conns -> Seq(ToMsgs)]
        BY <3>1, TellType DEF ToMsgs
      <3> QED
        BY <1>2, <3>2, <3>3, <3>4 DEF Login, ToMsgs
    <2> QED
      BY <2>1, <2>2
  <1>3. CASE Leave(c) \/ HandleClose(c)
    <2>1. conn' \in [Conns -> [st: Phases, op: Ops]]
      BY <1>3, CloseType DEF Leave, HandleClose
    <2>2. toCm' \in [Conns -> Seq(ToMsgs)]
      BY <1>3, TellType DEF Leave, HandleClose, ToMsgs
    <2>4. Leave(c) => fromCm' \in [Conns -> Seq(FromMsgs)]
      BY DEF Leave, FromMsgs
    <2>5. HandleClose(c) => fromCm' \in [Conns -> Seq(FromMsgs)]
      BY TailType DEF HandleClose
    <2>3. fromCm' \in [Conns -> Seq(FromMsgs)]
      BY <1>3, <2>4, <2>5
    <2> QED
      BY <1>3, <2>1, <2>2, <2>3 DEF Leave, HandleClose, ToMsgs, FromMsgs
  <1>4. CASE Restart(c)
    <2>1. Grace \in Over..Grace /\ conn[c].op \in Ops
      BY OpsAssumption DEF Over
    <2>2. file' \in [op: Ops, left: Over..Grace]
          /\ earned' \in [Ops -> Over..Grace]
      BY <1>4, <2>1 DEF Restart
    <2> QED
      BY <1>4, <2>2 DEF Restart
  <1>5. CASE TellCm(c)
    <2>1. conn' \in [Conns -> [st: Phases, op: Ops]]
      BY <1>5, MoveType DEF TellCm, Phases
    <2>2. toCm' \in [Conns -> Seq(ToMsgs)]
      BY <1>5, TellType DEF TellCm, ToMsgs
    <2> QED
      BY <1>5, <2>1, <2>2 DEF TellCm, ToMsgs
  <1>6. CASE HandleAuthorize(c)
    <2>1. conn' \in [Conns -> [st: Phases, op: Ops]]
      BY <1>6, MoveType DEF HandleAuthorize, Phases
    <2>2. fromCm' \in [Conns -> Seq(FromMsgs)]
      BY <1>6, TailType DEF HandleAuthorize
    <2> QED
      BY <1>6, <2>1, <2>2 DEF HandleAuthorize, FromMsgs
  <1>7. CASE Drop(c)
    <2>1. NoConn \in [st: Phases, op: Ops]
      BY OpsAssumption DEF NoConn, Phases
    <2> QED
      BY <1>7, <2>1 DEF Drop
  <1> QED
    BY <1>1, <1>2, <1>3, <1>4, <1>5, <1>6, <1>7 DEF LoopStep

LEMMA CmType ==
    ASSUME TypeOK, NEW c \in Conns, IpcStep(c) \/ IpcFails(c) \/ OwnerStep(c)
    PROVE  TypeOK'
  <1> USE DEF TypeOK, links, limits, ghosts
  <1>1. CASE IpcUp(c)
    BY <1>1 DEF IpcUp
  <1>2. CASE Deliver(c)
    <2>1. CASE Head(toCm[c]) = "close"
      <3>1. toCm' \in [Conns -> Seq(ToMsgs)]
        BY <1>2, <2>1, ResetQueue DEF Deliver
      <3> QED
        BY <1>2, <2>1, <3>1 DEF Deliver, CmRemoves, ToMsgs
    <2>2. CASE Head(toCm[c]) # "close"
      <3>1. Tail(toCm[c]) \in Seq(ToMsgs) /\ Head(toCm[c]) \in ToMsgs
        BY <1>2 DEF Deliver, ToMsgs
      <3>2. toCm' \in [Conns -> Seq(ToMsgs)]
        BY <1>2, <2>2, <3>1 DEF Deliver, ToMsgs
      <3>3. clients' \in [Conns -> {"no", "card", "session"}]
        BY <1>2, <2>2, <3>1 DEF Deliver, ToMsgs
      <3> QED
        BY <1>2, <2>2, <3>2, <3>3 DEF Deliver, ToMsgs
    <2> QED
      BY <2>1, <2>2
  <1>3. CASE IpcFails(c)
    <2>1. deaths' \in 0..MaxDeaths
      BY <1>3, BoundAssumption DEF IpcFails
    <2>2. Append(fromCm[c], "cmerr") \in Seq(FromMsgs)
      BY DEF FromMsgs
    <2>3. fromCm' \in [Conns -> Seq(FromMsgs)]
      BY <1>3, <2>2 DEF IpcFails, FromMsgs
    <2>4. toCm' \in [Conns -> Seq(ToMsgs)]
      BY <1>3, ResetQueue DEF IpcFails
    <2> QED
      BY <1>3, <2>1, <2>3, <2>4 DEF IpcFails, FromMsgs, ToMsgs
  <1>4. ASSUME Authorize(c)
        PROVE  /\ fromCm' \in [Conns -> Seq(FromMsgs)]
               /\ clients' \in [Conns -> {"no", "card", "session"}]
               /\ clicked' \in [Conns -> BOOLEAN]
               /\ welcome' \subseteq Ops
    <2>1. fromCm' \in [Conns -> Seq(FromMsgs)]
      BY <1>4, ClickType DEF Authorize, FromMsgs
    <2> QED
      BY <1>4, <2>1 DEF Authorize
  <1>5. CASE Accept(c)
    BY <1>4, <1>5 DEF Accept, FromMsgs
  <1>6. CASE Cut(c)
    <2>1. fromCm' \in [Conns -> Seq(FromMsgs)]
      BY <1>6, ClickType DEF Cut, FromMsgs
    <2> QED
      BY <1>6, <2>1 DEF Cut, FromMsgs
  <1>7. CASE GrantWindow(c)
    BY <1>4, <1>7 DEF GrantWindow, FromMsgs
  <1> QED
    BY <1>1, <1>2, <1>3, <1>5, <1>6, <1>7 DEF IpcStep, OwnerStep

LEMMA WorldType ==
    ASSUME TypeOK,
           (\E logout \in BOOLEAN : CmEnds(logout)) \/ WindowEnds \/ Tick
           \/ UserLogsIn \/ Reboot
    PROVE  TypeOK'
  <1> USE DEF TypeOK, links, limits, ghosts
  <1>1. CASE \E logout \in BOOLEAN : CmEnds(logout)
    <2>1. PICK logout \in BOOLEAN : CmEnds(logout)
      BY <1>1
    <2>2. deaths' \in 0..MaxDeaths
      BY <2>1, BoundAssumption DEF CmEnds
    <2>3. PICK lost \in BOOLEAN :
            fromCm' = [c \in Conns |->
                        IF ipc[c] # "up" THEN fromCm[c]
                        ELSE (IF lost THEN <<>> ELSE fromCm[c]) \o
                             (IF logout THEN <<>> ELSE <<"cmerr">>)]
      BY <2>1 DEF CmEnds
    <2>4. ASSUME NEW c \in Conns
          PROVE  /\ fromCm[c] \in Seq(FromMsgs)
                 /\ (IF lost THEN <<>> ELSE fromCm[c]) \o
                    (IF logout THEN <<>> ELSE <<"cmerr">>) \in Seq(FromMsgs)
      <3>1. fromCm[c] \in Seq(FromMsgs)
        BY DEF FromMsgs
      <3>2. /\ (IF lost THEN <<>> ELSE fromCm[c]) \in Seq(FromMsgs)
            /\ (IF logout THEN <<>> ELSE <<"cmerr">>) \in Seq(FromMsgs)
        BY <3>1, EmptyQueue
      <3> QED
        BY <3>1, <3>2
    <2>5. fromCm' \in [Conns -> Seq(FromMsgs)]
      BY <2>3, <2>4
    <2>6. toCm' \in [Conns -> Seq(ToMsgs)]
      BY <2>1 DEF CmEnds, ToMsgs
    <2>7. prelogin' \in BOOLEAN
      BY <2>1 DEF CmEnds
    <2> QED
      BY <2>1, <2>2, <2>5, <2>6, <2>7 DEF CmEnds, FromMsgs, ToMsgs
  <1>2. CASE WindowEnds
    BY <1>2 DEF WindowEnds
  <1>3. CASE Tick
    <2>1. \A o \in Ops : Less(earned[o]) \in Over..Grace
      BY LessType
    <2>2. Less(file.left) \in Over..Grace
      BY LessType
    <2>3. file' \in [op: Ops, left: Over..Grace]
      BY <1>3, <2>2 DEF Tick
    <2> QED
      BY <1>3, <2>1, <2>3 DEF Tick
  <1>4. CASE UserLogsIn
    BY <1>4 DEF UserLogsIn
  <1>5. CASE Reboot
    <2>1. reboots' \in 0..MaxReboots
      BY <1>5, BoundAssumption DEF Reboot
    <2>2. NoConn \in [st: Phases, op: Ops]
      BY OpsAssumption DEF NoConn, Phases
    <2> QED
      BY <1>5, <2>1, <2>2 DEF Reboot
  <1> QED
    BY <1>1, <1>2, <1>3, <1>4, <1>5

LEMMA NextType == TypeOK /\ [Next]_vars => TypeOK'
  <1> SUFFICES ASSUME TypeOK, [Next]_vars PROVE TypeOK'
    OBVIOUS
  <1>1. CASE UNCHANGED vars
    BY <1>1 DEF TypeOK, vars, links, ghosts, limits
  <1>2. CASE Next
    BY <1>2, ConnType, CmType, WorldType DEF Next
  <1> QED
    BY <1>1, <1>2

(* Connections, queues, the list of the CM and the grace keep their types. *)
THEOREM TypeCorrect == Spec => []TypeOK
  BY InitType, NextType, PTL DEF Spec

-----------------------------------------------------------------------------
(* Where sessions come from *)

\* Operators with a session, also one being dropped, were let in.
SessionsWelcome ==
    \A c \in Conns :
        conn[c].st \in {"telling", "authed", "ending"} => conn[c].op \in welcome

\* So was the one the grace is for, and the file promises no more time than
\* the restart earned.
GraceWelcome ==
    /\ file.op # NoId => file.op \in welcome
    /\ file.left >= 0 => file.left <= earned[file.op]

\* An answer of the CM on its way to a connection is a click of the owner.
AnswersClicked ==
    \A c \in Conns :
        conn[c].st # "none" /\ Has(fromCm[c], "authorize") =>
            clicked[c] /\ conn[c].op \in welcome

OwnerInv == SessionsWelcome /\ GraceWelcome /\ AnswersClicked

LEMMA InitOwner == Init => OwnerInv
  BY HasEmpty
  DEF Init, OwnerInv, SessionsWelcome, GraceWelcome, AnswersClicked, NoConn,
      NoGrace, Over

\* A step that changes no connection to the better and adds no answer.
LEMMA Harmless ==
    ASSUME TypeOK, OwnerInv,
           \A c \in Conns : conn'[c] = conn[c] \/ conn'[c].st = "none",
           \A c \in Conns :
              conn'[c].st # "none" /\ Has(fromCm'[c], "authorize") =>
                 Has(fromCm[c], "authorize"),
           clicked' = clicked, welcome \subseteq welcome',
           GraceWelcome'
    PROVE  OwnerInv'
  BY DEF OwnerInv, SessionsWelcome, AnswersClicked

LEMMA GraceSame ==
    ASSUME OwnerInv, file' = file, earned' = earned, welcome \subseteq welcome'
    PROVE  GraceWelcome'
  BY DEF OwnerInv, GraceWelcome

LEMMA TailOwner ==
    ASSUME TypeOK, NEW c \in Conns, fromCm[c] # <<>>,
           fromCm' = [fromCm EXCEPT ![c] = Tail(@)]
    PROVE  \A d \in Conns : Has(fromCm'[d], "authorize") =>
                               Has(fromCm[d], "authorize")
  <1>1. fromCm[c] \in Seq(FromMsgs) /\ "authorize" \in FromMsgs
    BY DEF TypeOK, FromMsgs
  <1>2. Has(Tail(fromCm[c]), "authorize") => Has(fromCm[c], "authorize")
    BY <1>1, HasTail
  <1> QED
    BY <1>2 DEF TypeOK

\* A login that passes has one of the three causes.
LEMMA LoginCause ==
    ASSUME TypeOK, OwnerInv, NEW c \in Conns, Login(c)
    PROVE  /\ conn'[c].st = "telling" => conn[c].op \in welcome'
           /\ conn'[c].st = "telling" =>
                  BesideRemote(c) \/ window \/ earned[conn[c].op] >= 0
           /\ conn'[c].op = conn[c].op /\ conn'[c].st \in {"card", "telling"}
           /\ \A d \in Conns \ {c} : conn'[d] = conn[d]
  <1>1. BesideRemote(c) => conn[c].op \in welcome
    BY DEF BesideRemote, OwnerInv, SessionsWelcome
  <1>2. GraceValid(c) => conn[c].op \in welcome
    BY DEF GraceValid, OwnerInv, GraceWelcome
  <1>3. GraceValid(c) => earned[conn[c].op] >= 0
    <2> SUFFICES ASSUME GraceValid(c) PROVE earned[conn[c].op] >= 0
      OBVIOUS
    <2>1. /\ file.left >= 0 /\ file.left <= earned[file.op]
          /\ file.op = conn[c].op
      BY DEF GraceValid, OwnerInv, GraceWelcome
    <2>2. file.left \in Int /\ earned[file.op] \in Int
      BY OpsAssumption DEF TypeOK, Over
    <2> QED
      BY <2>1, <2>2
  <1>4. /\ welcome \subseteq welcome'
        /\ ~BesideRemote(c) /\ ~GraceValid(c) /\ window =>
              conn[c].op \in welcome'
    BY DEF Login
  <1>5. CASE BesideRemote(c) \/ GraceValid(c) \/ window
    <2>1. Move(c, "telling")
      BY <1>5 DEF Login
    <2> QED
      BY <1>1, <1>2, <1>3, <1>4, <1>5, <2>1, MoveType DEF Phases
  <1>6. CASE ~(BesideRemote(c) \/ GraceValid(c) \/ window)
    <2>1. Move(c, "card")
      BY <1>6 DEF Login
    <2> QED
      BY <2>1, MoveType DEF Phases
  <1> QED
    BY <1>5, <1>6

LEMMA AuthorizeClicked ==
    ASSUME TypeOK, OwnerInv, NEW c \in Conns, HandleAuthorize(c)
    PROVE  clicked[c] /\ conn[c].op \in welcome
  <1>1. fromCm[c] \in Seq(FromMsgs) /\ fromCm[c] # <<>>
        /\ Head(fromCm[c]) = "authorize"
    BY DEF HandleAuthorize, TypeOK, FromMsgs
  <1>2. Has(fromCm[c], "authorize")
    BY <1>1, HasHead
  <1>3. conn[c].st # "none"
    BY DEF HandleAuthorize
  <1> QED
    BY <1>2, <1>3 DEF OwnerInv, AnswersClicked

LEMMA ConnOwner ==
    ASSUME TypeOK, OwnerInv, NEW c \in Conns,
           Connect(c) \/ Login(c) \/ Leave(c) \/ Restart(c) \/ LoopStep(c)
    PROVE  OwnerInv'
  <1>1. CASE Connect(c)
    <2>1. /\ conn'[c].st = "open" /\ fromCm'[c] = <<>>
          /\ \A d \in Conns \ {c} : /\ conn'[d] = conn[d]
                                     /\ fromCm'[d] = fromCm[d]
                                     /\ clicked'[d] = clicked[d]
      BY <1>1 DEF Connect, TypeOK
    <2>2. welcome' = welcome /\ file' = file /\ earned' = earned
      BY <1>1 DEF Connect
    <2>3. ~Has(fromCm'[c], "authorize")
      BY <2>1, HasEmpty
    <2>4. GraceWelcome'
      BY <2>2, GraceSame
    <2> QED
      BY <2>1, <2>2, <2>3, <2>4 DEF OwnerInv, SessionsWelcome, AnswersClicked
  <1>2. CASE Login(c)
    <2>1. /\ conn'[c].st = "telling" => conn[c].op \in welcome'
          /\ conn'[c].op = conn[c].op /\ conn'[c].st \in {"card", "telling"}
          /\ \A d \in Conns \ {c} : conn'[d] = conn[d]
      BY <1>2, LoginCause
    <2>2. /\ welcome \subseteq welcome' /\ fromCm' = fromCm
          /\ clicked' = clicked /\ earned' = earned /\ conn[c].st # "none"
          /\ file' \in {file, NoGrace}
      BY <1>2 DEF Login
    <2>3. GraceWelcome'
      BY <2>2 DEF OwnerInv, GraceWelcome, NoGrace, Over
    <2> QED
      BY <2>1, <2>2, <2>3 DEF OwnerInv, SessionsWelcome, AnswersClicked
  <1>3. CASE Leave(c) \/ HandleClose(c)
    <2>1. /\ conn'[c].st \in {"none", "ending"}
          /\ conn'[c].st = "ending" => conn[c].st = "authed"
                                       /\ conn'[c].op = conn[c].op
          /\ \A d \in Conns \ {c} : conn'[d] = conn[d]
      BY <1>3, CloseType DEF Leave, HandleClose
    <2>2. \A d \in Conns : Has(fromCm'[d], "authorize") =>
                               Has(fromCm[d], "authorize")
      <3>1. Leave(c) => fromCm' = fromCm
        BY DEF Leave
      <3>2. HandleClose(c) => fromCm[c] # <<>>
                              /\ fromCm' = [fromCm EXCEPT ![c] = Tail(@)]
        BY DEF HandleClose
      <3> QED
        BY <1>3, <3>1, <3>2, TailOwner
    <2>3. /\ welcome' = welcome /\ clicked' = clicked
          /\ file' = file /\ earned' = earned
      BY <1>3 DEF Leave, HandleClose, ghosts
    <2>4. GraceWelcome'
      BY <2>3, GraceSame
    <2>5. \A d \in Conns :
            conn'[d] = conn[d] \/ conn'[d].st = "none" \/
            (conn'[d].st = "ending" /\ conn[d].st = "authed"
             /\ conn'[d].op = conn[d].op)
      BY <2>1
    <2> QED
      BY <2>2, <2>3, <2>4, <2>5 DEF OwnerInv, SessionsWelcome, AnswersClicked
  <1>4. CASE Restart(c)
    <2>1. conn[c].op \in welcome /\ conn[c].op \in Ops
      BY <1>4 DEF Restart, OwnerInv, SessionsWelcome, TypeOK
    <2>2. /\ file'.op = conn[c].op /\ file'.left = Grace
          /\ earned'[conn[c].op] = Grace
          /\ welcome' = welcome /\ clicked' = clicked /\ conn' = conn
          /\ fromCm' = fromCm
      BY <1>4, <2>1 DEF Restart, links, TypeOK
    <2>3. GraceWelcome'
      BY <2>1, <2>2, OpsAssumption DEF GraceWelcome
    <2> QED
      BY <2>2, <2>3, Harmless
  <1>5. CASE TellCm(c)
    <2>1. /\ conn'[c].st = "authed" /\ conn'[c].op = conn[c].op
          /\ conn[c].st = "telling"
          /\ \A d \in Conns \ {c} : conn'[d] = conn[d]
      BY <1>5, MoveType DEF TellCm, Phases
    <2>2. /\ welcome' = welcome /\ clicked' = clicked /\ fromCm' = fromCm
          /\ file' = file /\ earned' = earned
      BY <1>5 DEF TellCm, ghosts
    <2>3. GraceWelcome'
      BY <2>2, GraceSame
    <2> QED
      BY <2>1, <2>2, <2>3 DEF OwnerInv, SessionsWelcome, AnswersClicked
  <1>6. CASE HandleAuthorize(c)
    <2>1. /\ conn'[c].st = "authed" /\ conn'[c].op = conn[c].op
          /\ \A d \in Conns \ {c} : conn'[d] = conn[d]
      BY <1>6, MoveType DEF HandleAuthorize, Phases
    <2>2. /\ welcome' = welcome /\ clicked' = clicked
          /\ file' = file /\ earned' = earned
          /\ fromCm[c] # <<>> /\ fromCm' = [fromCm EXCEPT ![c] = Tail(@)]
          /\ conn[c].st # "none"
      BY <1>6 DEF HandleAuthorize, ghosts
    <2>3. clicked[c] /\ conn[c].op \in welcome
      BY <1>6, AuthorizeClicked
    <2>4. GraceWelcome'
      BY <2>2, GraceSame
    <2>5. \A d \in Conns : Has(fromCm'[d], "authorize") =>
                               Has(fromCm[d], "authorize")
      BY <2>2, TailOwner
    <2> QED
      BY <2>1, <2>2, <2>3, <2>4, <2>5
      DEF OwnerInv, SessionsWelcome, AnswersClicked
  <1>7. CASE Drop(c)
    <2>1. /\ conn'[c].st = "none"
          /\ \A d \in Conns \ {c} : conn'[d] = conn[d]
      BY <1>7 DEF Drop, NoConn, TypeOK
    <2>2. /\ welcome' = welcome /\ clicked' = clicked /\ fromCm' = fromCm
          /\ file' = file /\ earned' = earned
      BY <1>7 DEF Drop, ghosts, links
    <2>3. GraceWelcome'
      BY <2>2, GraceSame
    <2> QED
      BY <2>1, <2>2, <2>3, Harmless
  <1> QED
    BY <1>1, <1>2, <1>3, <1>4, <1>5, <1>6, <1>7 DEF LoopStep

\* A click other than the one that authorises adds no answer.
LEMMA OtherClick ==
    ASSUME TypeOK, NEW c \in Conns, NEW m \in FromMsgs, m # "authorize",
           fromCm' = [fromCm EXCEPT ![c] = Append(@, m)]
    PROVE  \A d \in Conns : Has(fromCm'[d], "authorize") =>
                               Has(fromCm[d], "authorize")
  <1>1. fromCm[c] \in Seq(FromMsgs) /\ "authorize" \in FromMsgs
    BY DEF TypeOK, FromMsgs
  <1>2. Has(Append(fromCm[c], m), "authorize") => Has(fromCm[c], "authorize")
    BY <1>1, HasAppend
  <1> QED
    BY <1>2 DEF TypeOK

LEMMA AuthorizeOwner ==
    ASSUME TypeOK, OwnerInv, NEW c \in Conns, Authorize(c), conn' = conn,
           file' = file, earned' = earned
    PROVE  OwnerInv'
  <1>1. /\ welcome \subseteq welcome'
        /\ conn[c].st # "none" => conn[c].op \in welcome'
    BY DEF Authorize
  <1>2. /\ clicked'[c] = TRUE
        /\ \A d \in Conns \ {c} : clicked'[d] = clicked[d]
                                   /\ fromCm'[d] = fromCm[d]
    BY DEF Authorize, Click, TypeOK
  <1>3. GraceWelcome'
    BY <1>1, GraceSame
  <1> QED
    BY <1>1, <1>2, <1>3 DEF OwnerInv, SessionsWelcome, AnswersClicked

LEMMA CmOwner ==
    ASSUME TypeOK, OwnerInv, NEW c \in Conns,
           IpcStep(c) \/ IpcFails(c) \/ OwnerStep(c)
    PROVE  OwnerInv'
  <1>1. CASE IpcUp(c) \/ Deliver(c)
    <2>1. /\ conn' = conn /\ fromCm' = fromCm /\ clicked' = clicked
          /\ welcome' = welcome /\ file' = file /\ earned' = earned
      BY <1>1 DEF IpcUp, Deliver, ghosts
    <2> QED
      BY <2>1, GraceSame, Harmless
  <1>2. CASE IpcFails(c)
    <2>1. /\ conn' = conn /\ clicked' = clicked
          /\ welcome' = welcome /\ file' = file /\ earned' = earned
          /\ \/ fromCm' = fromCm
             \/ fromCm' = [fromCm EXCEPT ![c] = Append(@, "cmerr")]
      BY <1>2 DEF IpcFails, ghosts
    <2>2. \A d \in Conns : Has(fromCm'[d], "authorize") =>
                               Has(fromCm[d], "authorize")
      BY <2>1, OtherClick DEF FromMsgs
    <2> QED
      BY <2>1, <2>2, GraceSame, Harmless
  <1>3. CASE Accept(c)
    BY <1>3, AuthorizeOwner DEF Accept
  <1>4. CASE Cut(c)
    <2>1. /\ conn' = conn /\ clicked' = clicked
          /\ welcome' = welcome /\ file' = file /\ earned' = earned
          /\ fromCm' = [fromCm EXCEPT ![c] = Append(@, "close")]
      BY <1>4 DEF Cut, Click
    <2>2. \A d \in Conns : Has(fromCm'[d], "authorize") =>
                               Has(fromCm[d], "authorize")
      BY <2>1, OtherClick DEF FromMsgs
    <2> QED
      BY <2>1, <2>2, GraceSame, Harmless
  <1>5. CASE GrantWindow(c)
    <2>1. conn' = conn /\ file' = file /\ earned' = earned
      BY <1>5 DEF GrantWindow
    <2>2. CASE Authorize(c)
      BY <2>1, <2>2, AuthorizeOwner
    <2>3. CASE UNCHANGED <<clients, fromCm, clicked, welcome>>
      BY <2>1, <2>3, GraceSame, Harmless
    <2> QED
      BY <1>5, <2>2, <2>3 DEF GrantWindow
  <1> QED
    BY <1>1, <1>2, <1>3, <1>4, <1>5 DEF IpcStep, OwnerStep

LEMMA WorldOwner ==
    ASSUME TypeOK, OwnerInv,
           (\E logout \in BOOLEAN : CmEnds(logout)) \/ WindowEnds \/ Tick
           \/ UserLogsIn \/ Reboot
    PROVE  OwnerInv'
  <1>1. CASE \E logout \in BOOLEAN : CmEnds(logout)
    <2>1. PICK logout \in BOOLEAN : CmEnds(logout)
      BY <1>1
    <2>2. /\ conn' = conn /\ clicked' = clicked
          /\ welcome' = welcome /\ file' = file /\ earned' = earned
      BY <2>1 DEF CmEnds, ghosts
    <2>3. PICK lost \in BOOLEAN :
            fromCm' = [c \in Conns |->
                        IF ipc[c] # "up" THEN fromCm[c]
                        ELSE (IF lost THEN <<>> ELSE fromCm[c]) \o
                             (IF logout THEN <<>> ELSE <<"cmerr">>)]
      BY <2>1 DEF CmEnds
    <2>4. ASSUME NEW c \in Conns, Has(fromCm'[c], "authorize")
          PROVE  Has(fromCm[c], "authorize")
      <3> DEFINE a == IF lost THEN <<>> ELSE fromCm[c]
      <3>1. fromCm[c] \in Seq(FromMsgs) /\ "authorize" \in FromMsgs
            /\ "cmerr" \in FromMsgs
        BY DEF TypeOK, FromMsgs
      <3>2. a \in Seq(FromMsgs)
        BY <3>1, EmptyQueue
      <3>3. fromCm'[c] = fromCm[c] \/ fromCm'[c] = a \o <<>>
            \/ fromCm'[c] = a \o <<"cmerr">>
        BY <2>3
      <3>4. Has(a, "authorize") => Has(fromCm[c], "authorize")
        BY HasEmpty
      <3> HIDE DEF a
      <3>5. a \o <<>> = a
        BY <3>2
      <3>6. Has(a \o <<"cmerr">>, "authorize") => Has(a, "authorize")
        BY <3>1, <3>2, HasEnd
      <3> QED
        BY <2>4, <3>3, <3>4, <3>5, <3>6
    <2> QED
      BY <2>2, <2>4, GraceSame, Harmless
  <1>2. CASE WindowEnds \/ UserLogsIn
    <2>1. /\ conn' = conn /\ fromCm' = fromCm /\ clicked' = clicked
          /\ welcome' = welcome /\ file' = file /\ earned' = earned
      BY <1>2 DEF WindowEnds, UserLogsIn, links, ghosts
    <2> QED
      BY <2>1, GraceSame, Harmless
  <1>3. CASE Tick
    <2>1. /\ conn' = conn /\ fromCm' = fromCm /\ clicked' = clicked
          /\ welcome' = welcome
      BY <1>3 DEF Tick, links
    <2>2. /\ file.op \in Ops /\ file.left \in Over..Grace
          /\ earned[file.op] \in Over..Grace
      BY DEF TypeOK
    <2>3. /\ file'.op = file.op /\ file'.left = Less(file.left)
          /\ earned'[file.op] = Less(earned[file.op])
      BY <1>3, <2>2 DEF Tick, TypeOK
    <2>4. Less(file.left) >= 0 =>
            Less(file.left) = file.left - 1 /\ file.left > 0
      BY <2>2, OpsAssumption DEF Less, Over
    <2>5. file.left > 0 /\ file.left <= earned[file.op] =>
            Less(earned[file.op]) = earned[file.op] - 1
      BY <2>2, OpsAssumption DEF Less, Over
    <2>6. GraceWelcome'
      <3>1. file'.op # NoId => file'.op \in welcome'
        BY <2>1, <2>3 DEF OwnerInv, GraceWelcome
      <3>2. file.left \in Int /\ earned[file.op] \in Int
        BY <2>2, OpsAssumption DEF Over
      <3>3. Less(file.left) >= 0 => Less(file.left) <= Less(earned[file.op])
        BY <2>4, <2>5, <3>2 DEF OwnerInv, GraceWelcome
      <3> QED
        BY <2>3, <3>1, <3>3 DEF GraceWelcome
    <2> QED
      BY <2>1, <2>6, Harmless
  <1>4. CASE Reboot
    <2>1. /\ \A c \in Conns : conn'[c].st = "none"
          /\ clicked' = clicked
          /\ welcome' = welcome /\ file' = file /\ earned' = earned
      BY <1>4 DEF Reboot, ghosts, NoConn
    <2> QED
      BY <2>1, GraceSame, Harmless
  <1> QED
    BY <1>1, <1>2, <1>3, <1>4

LEMMA NextOwner == TypeOK /\ OwnerInv /\ [Next]_vars => OwnerInv'
  <1> SUFFICES ASSUME TypeOK, OwnerInv, [Next]_vars PROVE OwnerInv'
    OBVIOUS
  <1>1. CASE UNCHANGED vars
    BY <1>1, GraceSame, Harmless DEF vars, links, ghosts
  <1>2. CASE Next
    BY <1>2, ConnOwner, CmOwner, WorldOwner DEF Next
  <1> QED
    BY <1>1, <1>2

LEMMA OwnerImplies == OwnerInv => OwnerFirst
  BY DEF OwnerInv, SessionsWelcome, OwnerFirst, Authed

(* Nobody has a session whom the owner has not let in before, whatever chain
   of restarts, reboots and file transfers led to it. *)
THEOREM OwnerLetIn == Spec => []OwnerFirst
  <1>1. Init => TypeOK /\ OwnerInv
    BY InitType, InitOwner
  <1>2. (TypeOK /\ OwnerInv) /\ [Next]_vars => (TypeOK /\ OwnerInv)'
    BY NextType, NextOwner
  <1> QED
    BY <1>1, <1>2, OwnerImplies, PTL DEF Spec

-----------------------------------------------------------------------------
(* The cause of an entry *)

\* Only a login that passes and an answer of the CM make a session.
LEMMA OnlyTwoEnter ==
    ASSUME TypeOK, [Next]_vars, NEW c \in Conns, ~Authed(c), Authed(c)'
    PROVE  Login(c) \/ HandleAuthorize(c)
  <1>1. conn'[c] # conn[c] /\ conn'[c].st \in {"telling", "authed"}
        /\ conn[c].st \notin {"telling", "authed"}
    BY DEF Authed
  <1>2. ASSUME NEW d \in Conns, Connect(d) PROVE FALSE
    BY <1>1, <1>2 DEF Connect, TypeOK
  <1>3. ASSUME NEW d \in Conns, Leave(d) \/ HandleClose(d) PROVE FALSE
    <2>1. /\ conn'[d].st \in {"none", "ending"}
          /\ \A e \in Conns \ {d} : conn'[e] = conn[e]
      BY <1>3, CloseType DEF Leave, HandleClose
    <2> QED
      BY <1>1, <2>1
  <1>4. ASSUME NEW d \in Conns, Drop(d) PROVE FALSE
    BY <1>1, <1>4 DEF Drop, NoConn, TypeOK
  <1>5. ASSUME NEW d \in Conns, TellCm(d) PROVE FALSE
    <2>1. /\ conn[d].st = "telling"
          /\ \A e \in Conns \ {d} : conn'[e] = conn[e]
      BY <1>5, MoveType DEF TellCm, Phases
    <2> QED
      BY <1>1, <2>1
  <1>6. ASSUME NEW d \in Conns, Login(d) PROVE d = c
    <2>1. \A e \in Conns \ {d} : conn'[e] = conn[e]
      <3>1. Move(d, "telling") \/ Move(d, "card")
        BY <1>6 DEF Login
      <3> QED
        BY <3>1, MoveType DEF Phases
    <2> QED
      BY <1>1, <2>1
  <1>7. ASSUME NEW d \in Conns, HandleAuthorize(d) PROVE d = c
    <2>1. \A e \in Conns \ {d} : conn'[e] = conn[e]
      BY <1>7, MoveType DEF HandleAuthorize, Phases
    <2> QED
      BY <1>1, <2>1
  <1>8. \A d \in Conns : ~Restart(d) /\ ~IpcStep(d) /\ ~IpcFails(d)
                          /\ ~OwnerStep(d)
    BY <1>1 DEF Restart, IpcStep, IpcUp, Deliver, IpcFails, OwnerStep, Accept,
                Cut, GrantWindow
  <1>9. /\ \A logout \in BOOLEAN : ~CmEnds(logout)
        /\ ~WindowEnds /\ ~Tick /\ ~UserLogsIn /\ ~(UNCHANGED vars)
    BY <1>1 DEF CmEnds, WindowEnds, Tick, UserLogsIn, vars
  <1>10. ~Reboot
    BY <1>1 DEF Reboot, NoConn
  <1> QED
    BY <1>2, <1>3, <1>4, <1>5, <1>6, <1>7, <1>8, <1>9, <1>10
    DEF Next, LoopStep

(* Every session begins with a click for its connection, in an open window,
   beside a remote session of the same operator, or less than Grace after a
   restart that a session of the same operator ordered. *)
THEOREM EntryCaused == Spec => EntryHasCause
  <1>1. Init => TypeOK /\ OwnerInv
    BY InitType, InitOwner
  <1>2. (TypeOK /\ OwnerInv) /\ [Next]_vars => (TypeOK /\ OwnerInv)'
    BY NextType, NextOwner
  <1>3. ASSUME TypeOK, OwnerInv, [Next]_vars, NEW c \in Conns,
               ~Authed(c), Authed(c)'
        PROVE  \/ clicked[c] \/ window \/ BesideRemote(c)
               \/ earned[conn[c].op] >= 0
    <2>1. CASE HandleAuthorize(c)
      BY <1>3, <2>1, AuthorizeClicked
    <2>2. CASE Login(c)
      <3>1. conn'[c].st \in {"telling", "authed"}
        BY <1>3 DEF Authed
      <3> QED
        BY <1>3, <2>2, <3>1, LoginCause
    <2> QED
      BY <1>3, <2>1, <2>2, OnlyTwoEnter
  <1>4. TypeOK /\ OwnerInv /\ [Next]_vars =>
          [\A c \in Conns :
             ~Authed(c) /\ Authed(c)' =>
                \/ clicked[c]
                \/ window
                \/ BesideRemote(c)
                \/ earned[conn[c].op] >= 0]_vars
    BY <1>3
  <1> QED
    BY <1>1, <1>2, <1>4, PTL DEF Spec, EntryHasCause

-----------------------------------------------------------------------------
(* The owner's list *)

\* An entry of the list lives with the IPC task that brought it.
EntryHasTask(c) == clients[c] # "no" => ipc[c] = "up"

\* A session is on the list, or its entry is on its way.
SessionListed(c) ==
    conn[c].st = "authed" =>
        \/ ipc[c] = "lost" \/ clients[c] # "no"
        \/ Has(toCm[c], "session") \/ Has(toCm[c], "card")

\* The IPC task of a connection that is over has been told, also before it ran.
RemovalSent(c) ==
    conn[c].st \in {"none", "ending"} /\ ipc[c] \in {"starting", "up"} =>
        Has(toCm[c], "close")

\* An answer on its way to a connection comes from an entry of the list.
AnswerHasEntry(c) ==
    Has(fromCm[c], "authorize") => ipc[c] = "lost" \/ clients[c] # "no"

Listed(c) ==
    EntryHasTask(c) /\ SessionListed(c) /\ RemovalSent(c) /\ AnswerHasEntry(c)

ListInv == \A c \in Conns : Listed(c)

LEMMA AppendKeeps ==
    ASSUME NEW S, NEW s \in Seq(S), NEW m \in S, NEW x \in S
    PROVE  Has(Append(s, x), x) /\ (Has(s, m) => Has(Append(s, x), m))
  <1>1. Len(Append(s, x)) = Len(s) + 1 /\ Append(s, x)[Len(s) + 1] = x
        /\ \A i \in 1..Len(s) : Append(s, x)[i] = s[i]
    OBVIOUS
  <1>2. Len(s) \in Nat
    OBVIOUS
  <1> QED
    BY <1>1, <1>2 DEF Has

LEMMA TailKeeps ==
    ASSUME NEW S, NEW s \in Seq(S), NEW m \in S, s # <<>>, Head(s) # m, Has(s, m)
    PROVE  Has(Tail(s), m)
  <1>1. PICK i \in 1..Len(s) : s[i] = m
    BY DEF Has
  <1>2. i # 1
    BY <1>1
  <1>3. i - 1 \in 1..Len(Tail(s)) /\ Tail(s)[i - 1] = m
    BY <1>1, <1>2
  <1> QED
    BY <1>3 DEF Has

\* What send_to_cm does to the queues.
LEMMA TellHas ==
    ASSUME TypeOK, NEW c \in Conns, NEW m \in ToMsgs, Tell(c, m)
    PROVE  /\ \A d \in Conns \ {c} : toCm'[d] = toCm[d]
           /\ ipc[c] # "lost" => Has(toCm'[c], m)
           /\ \A x \in ToMsgs : Has(toCm[c], x) => Has(toCm'[c], x)
  <1>1. toCm[c] \in Seq(ToMsgs) /\ toCm \in [Conns -> Seq(ToMsgs)]
    BY DEF TypeOK, ToMsgs
  <1>2. CASE ipc[c] = "lost"
    BY <1>2 DEF Tell
  <1>3. CASE ipc[c] # "lost"
    <2>1. /\ toCm'[c] = Append(toCm[c], m)
          /\ \A d \in Conns \ {c} : toCm'[d] = toCm[d]
      BY <1>1, <1>3 DEF Tell
    <2> QED
      BY <1>1, <2>1, AppendKeeps
  <1> QED
    BY <1>2, <1>3

\* A connection the step does not concern.
LEMMA ListedSame ==
    ASSUME NEW c \in Conns, Listed(c),
           conn'[c] = conn[c], ipc'[c] = ipc[c], toCm'[c] = toCm[c],
           clients'[c] = clients[c],
           Has(fromCm'[c], "authorize") => Has(fromCm[c], "authorize")
    PROVE  Listed(c)'
  BY DEF Listed, EntryHasTask, SessionListed, RemovalSent, AnswerHasEntry

LEMMA InitList == Init => ListInv
  <1> SUFFICES ASSUME Init, NEW c \in Conns PROVE Listed(c)
    BY DEF ListInv
  <1>1. /\ conn[c].st = "none" /\ ipc[c] = "off" /\ clients[c] = "no"
        /\ fromCm[c] = <<>>
    BY DEF Init, NoConn
  <1> QED
    BY <1>1, HasEmpty
    DEF Listed, EntryHasTask, SessionListed, RemovalSent, AnswerHasEntry

LEMMA ConnList ==
    ASSUME TypeOK, ListInv, NEW c \in Conns,
           Connect(c) \/ Login(c) \/ Leave(c) \/ Restart(c) \/ LoopStep(c)
    PROVE  ListInv'
  <1>0. Listed(c)
    BY DEF ListInv
  <1>t. "card" \in ToMsgs /\ "session" \in ToMsgs /\ "close" \in ToMsgs
    BY DEF ToMsgs
  <1>1. ASSUME Listed(c)',
               \A d \in Conns \ {c} :
                  /\ conn'[d] = conn[d] /\ ipc'[d] = ipc[d]
                  /\ toCm'[d] = toCm[d] /\ clients'[d] = clients[d]
                  /\ Has(fromCm'[d], "authorize") => Has(fromCm[d], "authorize")
        PROVE  ListInv'
    <2>1. \A d \in Conns \ {c} : Listed(d)'
      BY <1>1, ListedSame DEF ListInv
    <2> QED
      BY <1>1, <2>1 DEF ListInv
  <1>2. CASE Connect(c)
    <2>1. /\ conn'[c].st = "open" /\ ipc'[c] = "off" /\ fromCm'[c] = <<>>
          /\ clients[c] = "no" /\ clients' = clients
          /\ \A d \in Conns \ {c} :
                /\ conn'[d] = conn[d] /\ ipc'[d] = ipc[d]
                /\ toCm'[d] = toCm[d] /\ fromCm'[d] = fromCm[d]
      BY <1>2 DEF Connect, TypeOK
    <2>2. Listed(c)'
      BY <2>1, HasEmpty
      DEF Listed, EntryHasTask, SessionListed, RemovalSent, AnswerHasEntry
    <2> QED
      BY <1>1, <2>1, <2>2
  <1>3. CASE Login(c)
    <2>1. /\ conn'[c].st \in {"card", "telling"}
          /\ \A d \in Conns \ {c} : conn'[d] = conn[d]
      BY <1>3, MoveType DEF Login, Phases
    <2>2. /\ fromCm' = fromCm /\ clients' = clients
          /\ \A d \in Conns \ {c} : ipc'[d] = ipc[d]
          /\ ipc'[c] = IF ipc[c] = "off" THEN "starting" ELSE ipc[c]
      BY <1>3 DEF Login, TypeOK
    <2>3. \A d \in Conns \ {c} : toCm'[d] = toCm[d]
      BY <1>3, <1>t, TellHas DEF Login
    <2>4. Listed(c)'
      BY <1>0, <2>1, <2>2
      DEF Listed, EntryHasTask, SessionListed, RemovalSent, AnswerHasEntry
    <2> QED
      BY <1>1, <2>1, <2>2, <2>3, <2>4
  <1>4. CASE Leave(c) \/ HandleClose(c)
    <2>1. /\ conn'[c].st \in {"none", "ending"}
          /\ \A d \in Conns \ {c} : conn'[d] = conn[d]
      BY <1>4, CloseType DEF Leave, HandleClose
    <2>2. Tell(c, "close") /\ ipc' = ipc /\ clients' = clients
      BY <1>4 DEF Leave, HandleClose
    <2>3. /\ \A d \in Conns \ {c} : toCm'[d] = toCm[d]
          /\ ipc[c] # "lost" => Has(toCm'[c], "close")
      BY <1>t, <2>2, TellHas
    <2>4. \A d \in Conns : Has(fromCm'[d], "authorize") =>
                               Has(fromCm[d], "authorize")
      <3>1. Leave(c) => fromCm' = fromCm
        BY DEF Leave
      <3>2. HandleClose(c) => fromCm[c] # <<>>
                              /\ fromCm' = [fromCm EXCEPT ![c] = Tail(@)]
        BY DEF HandleClose
      <3> QED
        BY <1>4, <3>1, <3>2, TailOwner
    <2>5. Listed(c)'
      BY <1>0, <2>1, <2>2, <2>3, <2>4
      DEF Listed, EntryHasTask, SessionListed, RemovalSent, AnswerHasEntry
    <2> QED
      BY <1>1, <2>1, <2>2, <2>3, <2>4, <2>5
  <1>5. CASE Restart(c)
    <2>1. UNCHANGED <<conn, ipc, toCm, fromCm, clients>>
      BY <1>5 DEF Restart, links
    <2> QED
      BY <2>1, ListedSame DEF ListInv
  <1>6. CASE TellCm(c)
    <2>1. /\ conn'[c].st = "authed"
          /\ \A d \in Conns \ {c} : conn'[d] = conn[d]
      BY <1>6, MoveType DEF TellCm, Phases
    <2>2. /\ Tell(c, "session") /\ ipc' = ipc /\ clients' = clients
          /\ fromCm' = fromCm
      BY <1>6 DEF TellCm
    <2>3. /\ \A d \in Conns \ {c} : toCm'[d] = toCm[d]
          /\ ipc[c] # "lost" => Has(toCm'[c], "session")
      BY <1>t, <2>2, TellHas
    <2>4. Listed(c)'
      BY <1>0, <2>1, <2>2, <2>3
      DEF Listed, EntryHasTask, SessionListed, RemovalSent, AnswerHasEntry
    <2> QED
      BY <1>1, <2>1, <2>2, <2>3, <2>4
  <1>7. CASE HandleAuthorize(c)
    <2>1. /\ conn'[c].st = "authed"
          /\ \A d \in Conns \ {c} : conn'[d] = conn[d]
      BY <1>7, MoveType DEF HandleAuthorize, Phases
    <2>2. /\ UNCHANGED <<ipc, toCm, clients>>
          /\ fromCm[c] # <<>> /\ Head(fromCm[c]) = "authorize"
          /\ fromCm' = [fromCm EXCEPT ![c] = Tail(@)]
      BY <1>7 DEF HandleAuthorize
    <2>3. \A d \in Conns : Has(fromCm'[d], "authorize") =>
                               Has(fromCm[d], "authorize")
      BY <2>2, TailOwner
    <2>4. ipc[c] = "lost" \/ clients[c] # "no"
      <3>1. fromCm[c] \in Seq(FromMsgs)
        BY DEF TypeOK, FromMsgs
      <3>2. Has(fromCm[c], "authorize")
        BY <2>2, <3>1, HasHead
      <3> QED
        BY <1>0, <3>2 DEF Listed, AnswerHasEntry
    <2>5. Listed(c)'
      BY <1>0, <2>1, <2>2, <2>3, <2>4
      DEF Listed, EntryHasTask, SessionListed, RemovalSent, AnswerHasEntry
    <2> QED
      BY <1>1, <2>1, <2>2, <2>3, <2>5
  <1>8. CASE Drop(c)
    <2>1. /\ conn[c].st = "ending" /\ conn'[c].st = "none"
          /\ \A d \in Conns \ {c} : conn'[d] = conn[d]
      BY <1>8 DEF Drop, NoConn, TypeOK
    <2>2. UNCHANGED <<ipc, toCm, fromCm, clients>>
      BY <1>8 DEF Drop, links
    <2>3. Listed(c)'
      BY <1>0, <2>1, <2>2
      DEF Listed, EntryHasTask, SessionListed, RemovalSent, AnswerHasEntry
    <2> QED
      BY <1>1, <2>1, <2>2, <2>3
  <1> QED
    BY <1>2, <1>3, <1>4, <1>5, <1>6, <1>7, <1>8 DEF LoopStep

LEMMA AuthorizeList ==
    ASSUME TypeOK, ListInv, NEW c \in Conns, Authorize(c),
           UNCHANGED <<conn, ipc, toCm>>
    PROVE  ListInv'
  <1>1. /\ clients[c] = "card" /\ clients'[c] = "session"
        /\ \A d \in Conns \ {c} : clients'[d] = clients[d]
                                   /\ fromCm'[d] = fromCm[d]
    BY DEF Authorize, Click, TypeOK
  <1>2. Listed(c)'
    BY <1>1 DEF ListInv, Listed, EntryHasTask, SessionListed, RemovalSent,
                AnswerHasEntry
  <1>3. \A d \in Conns \ {c} : Listed(d)'
    BY <1>1, ListedSame DEF ListInv
  <1> QED
    BY <1>2, <1>3 DEF ListInv

LEMMA CmList ==
    ASSUME TypeOK, ListInv, NEW c \in Conns,
           IpcStep(c) \/ IpcFails(c) \/ OwnerStep(c)
    PROVE  ListInv'
  <1>0. Listed(c) /\ toCm[c] \in Seq(ToMsgs)
    BY DEF ListInv, TypeOK, ToMsgs
  <1>1. ASSUME Listed(c)', conn' = conn,
               \A d \in Conns \ {c} :
                  /\ ipc'[d] = ipc[d]
                  /\ toCm'[d] = toCm[d] /\ clients'[d] = clients[d]
                  /\ Has(fromCm'[d], "authorize") => Has(fromCm[d], "authorize")
        PROVE  ListInv'
    <2>1. \A d \in Conns \ {c} : Listed(d)'
      BY <1>1, ListedSame DEF ListInv
    <2> QED
      BY <1>1, <2>1 DEF ListInv
  <1>2. CASE IpcUp(c)
    <2>1. /\ UNCHANGED <<conn, toCm, fromCm, clients>>
          /\ ipc[c] = "starting" /\ ipc'[c] = "up"
          /\ \A d \in Conns \ {c} : ipc'[d] = ipc[d]
      BY <1>2 DEF IpcUp, TypeOK
    <2>2. Listed(c)'
      BY <1>0, <2>1
      DEF Listed, EntryHasTask, SessionListed, RemovalSent, AnswerHasEntry
    <2> QED
      BY <1>1, <2>1, <2>2
  <1>3. CASE Deliver(c)
    <2>0. ipc[c] = "up" /\ toCm[c] # <<>> /\ UNCHANGED <<conn, fromCm>>
      BY <1>3 DEF Deliver
    <2>1. CASE Head(toCm[c]) = "close"
      <3>1. /\ clients'[c] = "no" /\ ipc'[c] = "lost"
            /\ \A d \in Conns \ {c} : /\ ipc'[d] = ipc[d] /\ toCm'[d] = toCm[d]
                                       /\ clients'[d] = clients[d]
        BY <1>3, <2>1 DEF Deliver, CmRemoves, TypeOK
      <3>2. Listed(c)'
        BY <3>1
        DEF Listed, EntryHasTask, SessionListed, RemovalSent, AnswerHasEntry
      <3> QED
        BY <1>1, <2>0, <3>1, <3>2
    <2>2. CASE Head(toCm[c]) # "close"
      <3>1. /\ clients'[c] = Head(toCm[c]) /\ ipc' = ipc
            /\ toCm'[c] = Tail(toCm[c])
            /\ \A d \in Conns \ {c} : /\ toCm'[d] = toCm[d]
                                       /\ clients'[d] = clients[d]
        BY <1>3, <2>2 DEF Deliver, TypeOK
      <3>2. Head(toCm[c]) \in ToMsgs
        BY <1>0, <2>0
      <3>3. clients'[c] # "no"
        BY <3>1, <3>2 DEF ToMsgs
      <3>4. Has(toCm[c], "close") => Has(toCm'[c], "close")
        BY <1>0, <2>0, <2>2, <3>1, TailKeeps DEF ToMsgs
      <3>5. Listed(c)'
        BY <1>0, <2>0, <3>1, <3>3, <3>4
        DEF Listed, EntryHasTask, SessionListed, RemovalSent, AnswerHasEntry
      <3> QED
        BY <1>1, <2>0, <3>1, <3>5
    <2> QED
      BY <2>1, <2>2
  <1>4. CASE IpcFails(c)
    <2>1. /\ UNCHANGED <<conn, clients>>
          /\ ipc[c] = "starting" /\ ipc'[c] = "lost"
          /\ \A d \in Conns \ {c} : /\ ipc'[d] = ipc[d] /\ toCm'[d] = toCm[d]
                                     /\ fromCm'[d] = fromCm[d]
      BY <1>4 DEF IpcFails, TypeOK
    <2>2. Listed(c)'
      BY <1>0, <2>1
      DEF Listed, EntryHasTask, SessionListed, RemovalSent, AnswerHasEntry
    <2> QED
      BY <1>1, <2>1, <2>2
  <1>5. CASE Accept(c)
    BY <1>5, AuthorizeList DEF Accept
  <1>6. CASE Cut(c)
    <2>1. /\ UNCHANGED <<conn, ipc, toCm, clients>>
          /\ fromCm' = [fromCm EXCEPT ![c] = Append(@, "close")]
      BY <1>6 DEF Cut, Click
    <2>2. \A d \in Conns : Has(fromCm'[d], "authorize") =>
                               Has(fromCm[d], "authorize")
      BY <2>1, OtherClick DEF FromMsgs
    <2> QED
      BY <2>1, <2>2, ListedSame DEF ListInv
  <1>7. CASE GrantWindow(c)
    <2>1. UNCHANGED <<conn, ipc, toCm>>
      BY <1>7 DEF GrantWindow
    <2>2. CASE Authorize(c)
      BY <2>1, <2>2, AuthorizeList
    <2>3. CASE UNCHANGED <<clients, fromCm, clicked, welcome>>
      BY <2>1, <2>3, ListedSame DEF ListInv
    <2> QED
      BY <1>7, <2>2, <2>3 DEF GrantWindow
  <1> QED
    BY <1>2, <1>3, <1>4, <1>5, <1>6, <1>7 DEF IpcStep, OwnerStep

LEMMA WorldList ==
    ASSUME TypeOK, ListInv,
           (\E logout \in BOOLEAN : CmEnds(logout)) \/ WindowEnds \/ Tick
           \/ UserLogsIn \/ Reboot
    PROVE  ListInv'
  <1>1. CASE \E logout \in BOOLEAN : CmEnds(logout)
    <2>1. PICK logout \in BOOLEAN : CmEnds(logout)
      BY <1>1
    <2> SUFFICES ASSUME NEW c \in Conns PROVE Listed(c)'
      BY DEF ListInv
    <2>2. Listed(c)
      BY DEF ListInv
    <2>3. conn' = conn /\ clients'[c] = "no"
          /\ ipc'[c] = IF ipc[c] = "up" THEN "lost" ELSE ipc[c]
      BY <2>1 DEF CmEnds
    <2>4. CASE ipc[c] = "up"
      BY <2>3, <2>4
      DEF Listed, EntryHasTask, SessionListed, RemovalSent, AnswerHasEntry
    <2>5. CASE ipc[c] # "up"
      <3>1. toCm'[c] = toCm[c] /\ fromCm'[c] = fromCm[c]
        BY <2>1, <2>5 DEF CmEnds
      <3>2. clients[c] = "no"
        BY <2>2, <2>5 DEF Listed, EntryHasTask
      <3> QED
        BY <2>2, <2>3, <2>5, <3>1, <3>2, ListedSame
    <2> QED
      BY <2>4, <2>5
  <1>2. CASE WindowEnds \/ UserLogsIn \/ Tick
    <2>1. UNCHANGED <<conn, ipc, toCm, fromCm, clients>>
      BY <1>2 DEF WindowEnds, UserLogsIn, Tick, links
    <2> QED
      BY <2>1, ListedSame DEF ListInv
  <1>3. CASE Reboot
    <2>1. \A c \in Conns : /\ conn'[c].st = "none" /\ ipc'[c] = "off"
                           /\ clients'[c] = "no" /\ fromCm'[c] = <<>>
      BY <1>3 DEF Reboot, NoConn
    <2> QED
      BY <2>1, HasEmpty DEF ListInv, Listed, EntryHasTask, SessionListed,
                            RemovalSent, AnswerHasEntry
  <1> QED
    BY <1>1, <1>2, <1>3

LEMMA NextList == TypeOK /\ ListInv /\ [Next]_vars => ListInv'
  <1> SUFFICES ASSUME TypeOK, ListInv, [Next]_vars PROVE ListInv'
    OBVIOUS
  <1>1. CASE UNCHANGED vars
    BY <1>1, ListedSame DEF ListInv, vars, links
  <1>2. CASE Next
    BY <1>2, ConnList, CmList, WorldList DEF Next
  <1> QED
    BY <1>1, <1>2

LEMMA ListImplies == ListInv => ListFollows
  BY DEF ListInv, Listed, EntryHasTask, SessionListed, RemovalSent, ListFollows

(* No session is hidden from the owner and no dead entry stays on the list while
   the IPC task of the connection lives, for any number of connections and of
   ends of the CM (try_start_cm, on_close, start_ipc, the CM's runner). *)
THEOREM ListIsTrue == Spec => []ListFollows
  <1>1. Init => TypeOK /\ ListInv
    BY InitType, InitList
  <1>2. (TypeOK /\ ListInv) /\ [Next]_vars => (TypeOK /\ ListInv)'
    BY NextType, NextList
  <1> QED
    BY <1>1, <1>2, ListImplies, PTL DEF Spec
=============================================================================
