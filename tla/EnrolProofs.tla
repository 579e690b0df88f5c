---------------------------- MODULE EnrolProofs ----------------------------
(***************************************************************************)
(* Proofs about Enrol: type correctness, and that a PC is put out of the   *)
(* customer list only by an enrolment that found its target silent.        *)
(***************************************************************************)
EXTENDS Enrol, TLAPS

\* What an enrolment that is about to move or to replace knows of its target.
TargetWasSilent ==
    \A s \in Slots : req[s].at \in {"move", "replace"} => req[s].dead

IInv == TypeOK /\ TargetWasSilent

\* The parts of TypeOK that belong to the PCs and to the table.
PcTypes ==
    /\ at \in [Devices -> {"tick", "again", "retry"}]
    /\ stored \in [Devices -> AnyToken]
    /\ shop \in [Devices -> AnyName]
    /\ keyed \in SUBSET Devices

RowTypes ==
    /\ there \in SUBSET Rows
    /\ name \in [Rows -> AnyName]
    /\ dev \in [Rows -> Devices \cup {NoDevice}]
    /\ tok \in [Rows -> AnyToken]
    /\ alive \in [Rows -> BOOLEAN]

----------------------------------------------------------------------------
(* Building blocks of the actions                                          *)

\* TypeOK is the types of the PCs, of the table, of the requests and of the rest.
LEMMA TypeParts ==
    TypeOK <=> /\ PcTypes /\ RowTypes
               /\ req \in [Slots -> Requests]
               /\ op \in Moves
               /\ events \in 0..MaxEvents
BY DEF TypeOK, PcTypes, RowTypes

LEMMA TypePartsNext ==
    ASSUME PcTypes', RowTypes', req' \in [Slots -> Requests], op' \in Moves,
           events' \in 0..MaxEvents
    PROVE  TypeOK'
BY DEF TypeOK, PcTypes, RowTypes

\* What a step leaves alone keeps its type.
LEMMA PcSame == ASSUME PcTypes, UNCHANGED pcVars PROVE PcTypes'
BY DEF PcTypes, pcVars

LEMMA RowSame == ASSUME RowTypes, UNCHANGED rowVars PROVE RowTypes'
BY DEF RowTypes, rowVars

LEMMA ReqSame ==
    ASSUME req \in [Slots -> Requests], TargetWasSilent, UNCHANGED req
    PROVE  req' \in [Slots -> Requests] /\ TargetWasSilent'
BY DEF TargetWasSilent

LEMMA EventType ==
    ASSUME events \in 0..MaxEvents, Event PROVE events' \in 0..MaxEvents
BY BoundsAssumption DEF Event

\* Nothing that happens to a PC at the end of acquire_token spoils its types.
LEMMA GrantedType ==
    ASSUME PcTypes, NEW d, NEW t \in Tokens, Granted(d, t)
    PROVE  PcTypes'
BY DEF PcTypes, Granted, AnyToken

LEMMA FailedType ==
    ASSUME PcTypes, NEW d, Failed(d)
    PROVE  PcTypes'
BY DEF PcTypes, Failed

LEMMA AnswerType ==
    ASSUME PcTypes, NEW s \in Slots, NEW t \in Tokens, Answer(s, t)
    PROVE  PcTypes'
<1>1. CASE req[s].waited
  BY <1>1, GrantedType DEF Answer
<1>2. CASE ~req[s].waited
  BY <1>2 DEF Answer, pcVars, PcTypes
<1>3. QED BY <1>1, <1>2

LEMMA ErrorType ==
    ASSUME PcTypes, NEW s \in Slots, Error(s)
    PROVE  PcTypes'
<1>1. CASE req[s].waited
  BY <1>1, FailedType DEF Error
<1>2. CASE ~req[s].waited
  BY <1>2 DEF Error, pcVars, PcTypes
<1>3. QED BY <1>1, <1>2

LEMMA NoRequestType == NoRequest \in Requests
BY DEF NoRequest, Requests, Steps, AnyName, AnyRow

LEMMA NoMoveType == NoMove \in Moves
BY DEF NoMove, Moves, AnyName, AnyRow, AnyToken

\* A request that ends leaves no verdict behind.
LEMMA DoneKeeps ==
    ASSUME req \in [Slots -> Requests], TargetWasSilent,
           NEW s \in Slots, Done(s)
    PROVE  req' \in [Slots -> Requests] /\ TargetWasSilent'
<1>1. req' \in [Slots -> Requests]
  BY NoRequestType DEF Done
<1>2. TargetWasSilent'
  BY DEF Done, TargetWasSilent, NoRequest
<1>3. QED BY <1>1, <1>2

\* A row that is added has the types of a row.
LEMMA InsertType ==
    ASSUME RowTypes, NEW r \in Rows, NEW n \in AnyName,
           NEW d \in Devices \cup {NoDevice}, NEW t \in AnyToken,
           Insert(r, n, d, t)
    PROVE  RowTypes'
BY DEF RowTypes, Insert

----------------------------------------------------------------------------
(* The inductive invariant                                                 *)

LEMMA InitInv == Init => IInv
<1> SUFFICES ASSUME Init PROVE IInv
  OBVIOUS
<1>1. PcTypes
  BY NamesAssumption DEF Init, PcTypes, AnyToken, AnyName
<1>2. RowTypes
  BY DEF Init, RowTypes, AnyToken, AnyName
<1>3. req \in [Slots -> Requests] /\ op \in Moves
  BY NoRequestType, NoMoveType DEF Init
<1>4. events \in 0..MaxEvents
  BY BoundsAssumption DEF Init
<1>5. TargetWasSilent
  BY DEF Init, TargetWasSilent, NoRequest
<1>6. QED BY <1>1, <1>2, <1>3, <1>4, <1>5, TypeParts DEF IInv

\* The PC's own steps change neither the table's rows nor a verdict.
LEMMA BeatOkKeeps ==
    ASSUME IInv, NEW d \in Devices, BeatOk(d) PROVE IInv'
<1>1. PcTypes'
  BY DEF IInv, TypeOK, PcTypes, BeatOk
<1>2. RowTypes'
  BY DEF IInv, TypeOK, RowTypes, BeatOk
<1>3. QED
  BY <1>1, <1>2, TypeParts, TypePartsNext, PcSame, RowSame, ReqSame, EventType
  DEF IInv, BeatOk

LEMMA BeatRejectedKeeps ==
    ASSUME IInv, NEW d \in Devices, BeatRejected(d) PROVE IInv'
<1>1. PcTypes'
  BY DEF IInv, TypeOK, PcTypes, BeatRejected, Refused, AnyToken
<1>2. QED
  BY <1>1, TypeParts, TypePartsNext, PcSame, RowSame, ReqSame, EventType
  DEF IInv, BeatRejected

LEMMA RequestLostKeeps ==
    ASSUME IInv, NEW d \in Devices, RequestLost(d) PROVE IInv'
<1>1. PcTypes'
  BY DEF IInv, TypeOK, PcTypes, RequestLost
<1>2. QED
  BY <1>1, TypeParts, TypePartsNext, PcSame, RowSame, ReqSame, EventType
  DEF IInv, RequestLost

LEMMA RegisterKeeps ==
    ASSUME IInv, NEW d \in Devices, Register(d) PROVE IInv'
<1> USE DEF IInv
<1>0. PcTypes /\ RowTypes
  BY TypeParts
<1>1. PcTypes' /\ tok' \in [Rows -> AnyToken]
  <2>1. CASE \E r \in RowsOf(d) : tok[r] = NoToken
    <3>1. PICK t \in Tokens :
             /\ tok' = [r \in Rows |-> IF r \in RowsOf(d) THEN t ELSE tok[r]]
             /\ Granted(d, t) \/ Failed(d)
      BY <2>1 DEF Register
    <3>2. QED BY <1>0, <3>1, GrantedType, FailedType DEF RowTypes, AnyToken
  <2>2. CASE ~\E r \in RowsOf(d) : tok[r] = NoToken
    BY <1>0, <2>2, FailedType DEF Register, RowTypes
  <2>3. QED BY <2>1, <2>2
<1>2. RowTypes'
  BY <1>0, <1>1 DEF RowTypes, Register
<1>3. QED
  BY <1>1, <1>2, TypeParts, TypePartsNext, ReqSame DEF Register

LEMMA ReinstallKeeps ==
    ASSUME IInv, NEW d \in Devices, NEW n \in AnyName, Reinstall(d, n)
    PROVE  IInv'
<1> USE DEF IInv
<1>1. PcTypes'
  BY DEF TypeOK, PcTypes, Reinstall, AnyToken
<1>2. \A s \in Slots : \/ req'[s] = req[s]
                       \/ req'[s] = [req[s] EXCEPT !.waited = FALSE]
  BY DEF Reinstall
<1>3. \A s \in Slots : [req[s] EXCEPT !.waited = FALSE] \in Requests
  BY DEF TypeOK, Requests
<1>4. req' \in [Slots -> Requests]
  BY <1>3 DEF TypeOK, Reinstall
<1>5. TargetWasSilent'
  <2>1. \A s \in Slots : req'[s].at = req[s].at /\ req'[s].dead = req[s].dead
    <3> SUFFICES ASSUME NEW s \in Slots
                 PROVE  req'[s].at = req[s].at /\ req'[s].dead = req[s].dead
      OBVIOUS
    <3>1. req[s] \in Requests
      BY DEF TypeOK
    <3>2. QED BY <1>2, <3>1 DEF Requests
  <2>2. QED BY <2>1 DEF TargetWasSilent
<1>6. QED
  BY <1>1, <1>4, <1>5, TypeParts, TypePartsNext, RowSame, EventType
  DEF Reinstall

LEMMA EnrolKeeps ==
    ASSUME IInv, NEW s \in Slots, NEW d \in Devices, Enrol(s, d)
    PROVE  IInv'
<1> USE DEF IInv
<1>1. PICK r \in AnyRow :
         req' = [req EXCEPT ![s] =
                   [at |-> "names", dev |-> d, name |-> shop[d], id |-> r,
                    same |-> r # NoRow /\ shop[d] \in {NoName, name[r]},
                    target |-> NoRow, dead |-> FALSE, waited |-> TRUE]]
  BY DEF Enrol, RowsOf, AnyRow, TypeOK
<1>2. req' \in [Slots -> Requests]
  BY <1>1 DEF TypeOK, Requests, Steps, AnyRow
<1>3. TargetWasSilent'
  BY <1>1 DEF TypeOK, TargetWasSilent
<1>4. QED
  BY <1>2, <1>3, TypeParts, TypePartsNext, PcSame, RowSame, ReqSame, EventType
  DEF IInv, Enrol

LEMMA TimeOutKeeps ==
    ASSUME IInv, NEW s \in Slots, TimeOut(s) PROVE IInv'
<1> USE DEF IInv
<1>1. PcTypes'
  BY TypeParts, FailedType DEF TimeOut
<1>2. req' \in [Slots -> Requests] /\ TargetWasSilent'
  BY DEF TypeOK, TargetWasSilent, TimeOut, Requests
<1>3. QED
  BY <1>1, <1>2, TypeParts, TypePartsNext, PcSame, RowSame, ReqSame, EventType
  DEF IInv, TimeOut

----------------------------------------------------------------------------
(* enrollCustomer                                                          *)

LEMMA ReadNamesKeeps ==
    ASSUME IInv, NEW s \in Slots, ReadNames(s) PROVE IInv'
<1> USE DEF IInv
<1>1. PICK r \in IF Takeable(s) = {} THEN {NoRow} ELSE Takeable(s) :
         LET verdict == IF req[s].id # NoRow
                        THEN IF req[s].same \/ r = NoRow THEN "rotate" ELSE "move"
                        ELSE IF r = NoRow THEN "insert" ELSE "replace"
         IN req' = [req EXCEPT ![s].at = verdict, ![s].target = r,
                             ![s].dead = r # NoRow /\ ~alive[r]]
  BY DEF ReadNames
<1>2. r \in AnyRow /\ (r # NoRow => ~alive[r])
  BY DEF Takeable, Matches, AnyRow, TypeOK
<1>3. req' \in [Slots -> Requests]
  <2>1. PICK v \in Steps, b \in BOOLEAN :
           req' = [req EXCEPT ![s].at = v, ![s].target = r, ![s].dead = b]
    BY <1>1 DEF Steps
  <2>2. [req[s] EXCEPT !.at = v, !.target = r, !.dead = b] \in Requests
    BY <1>2 DEF TypeOK, Requests
  <2>3. req' = [req EXCEPT ![s] = [req[s] EXCEPT !.at = v, !.target = r, !.dead = b]]
    BY <2>1 DEF TypeOK, Requests
  <2>4. QED BY <2>2, <2>3 DEF TypeOK
<1>4. TargetWasSilent'
  <2> SUFFICES ASSUME NEW q \in Slots, req'[q].at \in {"move", "replace"}
               PROVE  req'[q].dead
    BY DEF TargetWasSilent
  <2>1. CASE q = s
    BY <1>1, <1>2, <2>1 DEF TypeOK, Requests
  <2>2. CASE q # s
    BY <1>1, <2>2 DEF TypeOK, TargetWasSilent
  <2>3. QED BY <2>1, <2>2
<1>5. QED
  BY <1>3, <1>4, TypeParts, TypePartsNext, PcSame, RowSame, ReqSame, EventType
  DEF IInv, ReadNames

LEMMA RotateKeeps ==
    ASSUME IInv, NEW s \in Slots, Rotate(s) PROVE IInv'
<1> USE DEF IInv
<1>0. PcTypes /\ RowTypes
  BY TypeParts
<1>1. PICK t \in Tokens :
         /\ tok' = [r \in Rows |-> IF r = req[s].id /\ r \in there THEN t ELSE tok[r]]
         /\ Answer(s, t) \/ Error(s)
  BY DEF Rotate
<1>2. PcTypes'
  BY <1>0, <1>1, AnswerType, ErrorType
<1>3. RowTypes'
  BY <1>0, <1>1 DEF RowTypes, AnyToken, Rotate
<1>4. req' \in [Slots -> Requests] /\ TargetWasSilent'
  BY DoneKeeps DEF TypeOK, Rotate
<1>5. QED
  BY <1>2, <1>3, <1>4, TypeParts, TypePartsNext, PcSame, RowSame, ReqSame, EventType
  DEF IInv, Rotate

LEMMA MoveKeeps ==
    ASSUME IInv, NEW s \in Slots, Move(s) PROVE IInv'
<1> USE DEF IInv
<1>0. PcTypes /\ RowTypes /\ req[s].dev \in Devices \cup {NoDevice}
  BY TypeParts DEF TypeOK, Requests
<1>1. PcTypes' /\ dev' \in [Rows -> Devices \cup {NoDevice}]
               /\ tok' \in [Rows -> AnyToken]
  <2>1. CASE \E t \in Tokens :
                /\ dev' = [[dev EXCEPT ![req[s].id] = NoDevice]
                              EXCEPT ![req[s].target] = req[s].dev]
                /\ tok' = [[tok EXCEPT ![req[s].id] = NoToken]
                              EXCEPT ![req[s].target] = t]
                /\ Answer(s, t)
    <3>1. PICK t \in Tokens :
                /\ dev' = [[dev EXCEPT ![req[s].id] = NoDevice]
                              EXCEPT ![req[s].target] = req[s].dev]
                /\ tok' = [[tok EXCEPT ![req[s].id] = NoToken]
                              EXCEPT ![req[s].target] = t]
                /\ Answer(s, t)
      BY <2>1
    <3>2. PcTypes'
      BY <1>0, <3>1, AnswerType
    <3>3. dev' \in [Rows -> Devices \cup {NoDevice}]
      BY <1>0, <3>1 DEF RowTypes
    <3>4. tok' \in [Rows -> AnyToken]
      BY <1>0, <3>1 DEF RowTypes, AnyToken
    <3>5. QED BY <3>2, <3>3, <3>4
  <2>2. CASE Error(s) /\ UNCHANGED <<dev, tok>>
    BY <1>0, <2>2, ErrorType DEF RowTypes
  <2>3. QED BY <2>1, <2>2 DEF Move
<1>2. req' \in [Slots -> Requests] /\ TargetWasSilent'
  BY DoneKeeps DEF TypeOK, Move
<1>3. RowTypes'
  BY <1>0, <1>1 DEF RowTypes, Move
<1>4. QED
  BY <1>1, <1>2, <1>3, TypeParts, TypePartsNext DEF Move

LEMMA ReplaceKeeps ==
    ASSUME IInv, NEW s \in Slots, Replace(s) PROVE IInv'
<1> USE DEF IInv
<1>0. PcTypes /\ RowTypes /\ req[s].dev \in Devices \cup {NoDevice}
  BY TypeParts DEF TypeOK, Requests
<1>1. CASE Done(s) /\ \E t \in Tokens :
               /\ dev' = [dev EXCEPT ![req[s].target] = req[s].dev]
               /\ tok' = [tok EXCEPT ![req[s].target] = t]
               /\ Answer(s, t)
  <2>1. PICK t \in Tokens :
               /\ dev' = [dev EXCEPT ![req[s].target] = req[s].dev]
               /\ tok' = [tok EXCEPT ![req[s].target] = t]
               /\ Answer(s, t)
    BY <1>1
  <2>2. PcTypes'
    BY <1>0, <2>1, AnswerType
  <2>3. RowTypes'
    BY <1>0, <2>1 DEF RowTypes, AnyToken, Replace
  <2>4. req' \in [Slots -> Requests] /\ TargetWasSilent'
    BY <1>1, DoneKeeps DEF TypeOK
  <2>5. QED
    BY <2>2, <2>3, <2>4, TypeParts, TypePartsNext, PcSame, RowSame, ReqSame, EventType
    DEF IInv, Replace
<1>2. CASE req' = [req EXCEPT ![s].at = "insert"] /\ UNCHANGED <<pcVars, dev, tok>>
  <2>1. req' \in [Slots -> Requests] /\ TargetWasSilent'
    BY <1>2 DEF TypeOK, TargetWasSilent, Requests, Steps
  <2>2. RowTypes'
    BY <1>0, <1>2 DEF RowTypes, Replace
  <2>3. QED
    BY <1>0, <1>2, <2>1, <2>2, TypeParts, TypePartsNext, PcSame DEF Replace
<1>3. QED BY <1>1, <1>2 DEF Replace

LEMMA AddKeeps ==
    ASSUME IInv, NEW s \in Slots, Add(s) PROVE IInv'
<1> USE DEF IInv
<1>0. PcTypes /\ RowTypes /\ req[s].dev \in Devices \cup {NoDevice}
              /\ req[s].name \in AnyName
  BY TypeParts DEF TypeOK, Requests
<1>1. CASE \E r \in Rows, t \in Tokens :
               /\ Insert(r, req[s].name, req[s].dev, t)
               /\ Answer(s, t) /\ Done(s)
  <2>1. PICK r \in Rows, t \in Tokens :
               /\ Insert(r, req[s].name, req[s].dev, t)
               /\ Answer(s, t) /\ Done(s)
    BY <1>1
  <2>2. PcTypes'
    BY <1>0, <2>1, AnswerType
  <2>3. RowTypes'
    BY <1>0, <2>1, InsertType DEF AnyToken
  <2>4. req' \in [Slots -> Requests] /\ TargetWasSilent'
    BY <2>1, DoneKeeps DEF TypeOK
  <2>5. QED
    BY <2>2, <2>3, <2>4, TypeParts, TypePartsNext, PcSame, RowSame, ReqSame, EventType
    DEF IInv, Add
<1>2. CASE req' = [req EXCEPT ![s].at = "reselect"] /\ UNCHANGED <<pcVars, rowVars>>
  <2>1. req' \in [Slots -> Requests] /\ TargetWasSilent'
    BY <1>2 DEF TypeOK, TargetWasSilent, Requests, Steps
  <2>2. QED
    BY <1>2, <2>1, TypeParts, TypePartsNext, PcSame, RowSame, ReqSame, EventType
    DEF IInv, Add
<1>3. QED BY <1>1, <1>2 DEF Add

LEMMA ReselectKeeps ==
    ASSUME IInv, NEW s \in Slots, Reselect(s) PROVE IInv'
<1> USE DEF IInv
<1>1. CASE Error(s) /\ Done(s)
  <2>1. PcTypes'
    BY <1>1, TypeParts, ErrorType
  <2>2. req' \in [Slots -> Requests] /\ TargetWasSilent'
    BY <1>1, DoneKeeps DEF TypeOK
  <2>3. QED
    BY <2>1, <2>2, TypeParts, TypePartsNext, PcSame, RowSame, ReqSame, EventType
    DEF IInv, Reselect
<1>2. CASE /\ \E r \in RowsOf(req[s].dev) :
                 req' = [req EXCEPT ![s].at = "rotate", ![s].id = r, ![s].same = TRUE]
           /\ UNCHANGED pcVars
  <2>1. PICK r \in RowsOf(req[s].dev) :
           req' = [req EXCEPT ![s].at = "rotate", ![s].id = r, ![s].same = TRUE]
    BY <1>2
  <2>2. r \in AnyRow
    BY DEF RowsOf, TypeOK, AnyRow
  <2>3. req' \in [Slots -> Requests]
    <3>1. [req[s] EXCEPT !.at = "rotate", !.id = r, !.same = TRUE] \in Requests
      BY <2>2 DEF TypeOK, Requests, Steps
    <3>2. req' = [req EXCEPT ![s] =
                    [req[s] EXCEPT !.at = "rotate", !.id = r, !.same = TRUE]]
      BY <2>1 DEF TypeOK, Requests
    <3>3. QED BY <3>1, <3>2 DEF TypeOK
  <2>4. TargetWasSilent'
    BY <2>1 DEF TypeOK, TargetWasSilent, Requests
  <2>5. QED
    BY <1>2, <2>3, <2>4, TypeParts, TypePartsNext, PcSame, RowSame, ReqSame, EventType
    DEF IInv, Reselect
<1>3. QED BY <1>1, <1>2 DEF Reselect

----------------------------------------------------------------------------
(* The operator and time                                                   *)

LEMMA SilenceKeeps ==
    ASSUME IInv, NEW r \in Rows, Silence(r) PROVE IInv'
<1>1. RowTypes'
  BY DEF IInv, TypeOK, RowTypes, Silence
<1>2. QED
  BY <1>1, TypeParts, TypePartsNext, PcSame, ReqSame DEF IInv, Silence

LEMMA CreateCustomerKeeps ==
    ASSUME IInv, NEW n \in Names, NEW d \in Devices \cup {NoDevice},
           CreateCustomer(n, d)
    PROVE  IInv'
<1> USE DEF IInv
<1>1. RowTypes'
  BY TypeParts, InsertType DEF CreateCustomer, AnyName, AnyToken
<1>2. QED
  BY <1>1, TypeParts, TypePartsNext, PcSame, RowSame, ReqSame, EventType
  DEF IInv, CreateCustomer

LEMMA UpdateCustomerKeeps ==
    ASSUME IInv, NEW r \in Rows, NEW n \in Names,
           NEW d \in Devices \cup {NoDevice}, UpdateCustomer(r, n, d)
    PROVE  IInv'
<1> USE DEF IInv
<1>1. RowTypes'
  BY DEF TypeOK, RowTypes, UpdateCustomer, AnyName
<1>2. QED
  BY <1>1, TypeParts, TypePartsNext, PcSame, RowSame, ReqSame, EventType
  DEF IInv, UpdateCustomer

LEMMA DeleteCustomerKeeps ==
    ASSUME IInv, NEW r \in Rows, DeleteCustomer(r) PROVE IInv'
<1> USE DEF IInv
<1>1. RowTypes'
  BY DEF TypeOK, RowTypes, DeleteCustomer, AnyName, AnyToken
<1>2. QED
  BY <1>1, TypeParts, TypePartsNext, PcSame, RowSame, ReqSame, EventType
  DEF IInv, DeleteCustomer

LEMMA MoveReadKeeps ==
    ASSUME IInv, NEW r \in Rows, NEW n \in Names, MoveRead(r, n) PROVE IInv'
<1> USE DEF IInv
<1>1. op' \in Moves
  BY DEF TypeOK, MoveRead, Moves, AnyName, AnyRow
<1>2. QED
  BY <1>1, TypeParts, TypePartsNext, PcSame, RowSame, ReqSame, EventType
  DEF IInv, MoveRead

LEMMA MoveCommitKeeps ==
    ASSUME IInv, MoveCommit PROVE IInv'
<1> USE DEF IInv
<1>0. RowTypes /\ op \in Moves
  BY TypeParts
<1>1. RowTypes'
  <2>1. CASE \E r \in Rows :
               /\ there' = there \cup {r}
               /\ name' = [name EXCEPT ![r] = op.name]
               /\ dev' = [[dev EXCEPT ![op.src] = NoDevice] EXCEPT ![r] = op.dev]
               /\ tok' = [[tok EXCEPT ![op.src] = NoToken] EXCEPT ![r] = op.tok]
    BY <1>0, <2>1 DEF RowTypes, Moves, MoveCommit, AnyToken
  <2>2. CASE UNCHANGED <<there, name, dev, tok>>
    BY <1>0, <2>2 DEF RowTypes, MoveCommit
  <2>3. QED BY <2>1, <2>2 DEF MoveCommit
<1>2. QED
  BY <1>1, TypeParts, TypePartsNext, PcSame, ReqSame, NoMoveType
  DEF MoveCommit

LEMMA NextInv == IInv /\ [Next]_vars => IInv'
<1> SUFFICES ASSUME IInv, [Next]_vars PROVE IInv'
  OBVIOUS
<1>1. CASE UNCHANGED vars
  BY <1>1, TypeParts
  DEF IInv, TypeOK, PcTypes, RowTypes, TargetWasSilent, vars, pcVars, rowVars
<1>2. CASE Next
  BY <1>2, BeatOkKeeps, BeatRejectedKeeps, RequestLostKeeps, RegisterKeeps,
     ReinstallKeeps, EnrolKeeps, TimeOutKeeps, ReadNamesKeeps, RotateKeeps,
     MoveKeeps, ReplaceKeeps, AddKeeps, ReselectKeeps, SilenceKeeps,
     CreateCustomerKeeps, UpdateCustomerKeeps, DeleteCustomerKeeps,
     MoveReadKeeps, MoveCommitKeeps
  DEF Next, Serve
<1>3. QED BY <1>1, <1>2

LEMMA Invariant == Spec => []IInv
BY InitInv, NextInv, PTL DEF Spec

(* Type correctness of the enrolment model: every request, token, row and PC
   stays in its domain, for any number of PCs, rows and requests. *)
THEOREM TypeCorrect == Spec => []TypeOK
<1>1. IInv => TypeOK
  BY DEF IInv
<1>2. QED BY Invariant, <1>1, PTL

----------------------------------------------------------------------------
(* Who puts a PC out of the list                                           *)

\* What DisplacedWasSilent says of one step.
StepKeepsLive ==
    \A d \in Devices, r \in Rows :
        r \in there /\ dev[r] = d /\ ~HasRow(d)' /\ UNCHANGED <<events, op>>
        => \E s \in Slots :
              \/ dev'[r] = req[s].dev /\ req[s].target = r /\ req[s].dead
              \/ dev'[r] = NoDevice /\ req[s].id = r /\ req[s].dead

\* A row that stays and keeps its device is a row of that device.
LEMMA RowStays ==
    ASSUME NEW d \in Devices, NEW r \in Rows, dev[r] = d,
           r \in there', dev'[r] = dev[r]
    PROVE  HasRow(d)'
BY DEF HasRow, RowsOf

LEMMA SameRows ==
    ASSUME there' = there, dev' = dev PROVE StepKeepsLive
BY RowStays DEF StepKeepsLive

\* An operation of the operator shows in events or in op.
LEMMA EventShows ==
    ASSUME TypeOK, Event PROVE StepKeepsLive
BY DEF StepKeepsLive, Event, TypeOK

LEMMA AddKeepsLive ==
    ASSUME IInv, NEW s \in Slots, Add(s) PROVE StepKeepsLive
<1>1. CASE \E r \in Rows, t \in Tokens :
               NewId(r) /\ Insert(r, req[s].name, req[s].dev, t)
  <2>1. PICK q \in Rows, t \in Tokens :
               NewId(q) /\ Insert(q, req[s].name, req[s].dev, t)
    BY <1>1
  <2>2. q \notin there
    BY <2>1 DEF NewId, Unnamed
  <2>3. \A r \in Rows : r \in there => r \in there' /\ dev'[r] = dev[r]
    BY <2>1, <2>2 DEF Insert, IInv, TypeOK
  <2>4. QED BY <2>3, RowStays DEF StepKeepsLive
<1>2. CASE UNCHANGED rowVars
  BY <1>2, SameRows DEF rowVars
<1>3. QED BY <1>1, <1>2 DEF Add

LEMMA MoveKeepsLive ==
    ASSUME IInv, NEW s \in Slots, Move(s) PROVE StepKeepsLive
<1>1. there' = there /\ req[s].dead
  BY DEF Move, IInv, TargetWasSilent
<1>2. CASE /\ req[s].target \in there
           /\ dev' = [[dev EXCEPT ![req[s].id] = NoDevice]
                         EXCEPT ![req[s].target] = req[s].dev]
  <2> SUFFICES ASSUME NEW d \in Devices, NEW r \in Rows,
                      r \in there, dev[r] = d, ~HasRow(d)'
               PROVE  \/ dev'[r] = req[s].dev /\ req[s].target = r /\ req[s].dead
                      \/ dev'[r] = NoDevice /\ req[s].id = r /\ req[s].dead
    BY DEF StepKeepsLive
  <2>1. CASE r = req[s].target
    BY <1>1, <1>2, <2>1 DEF IInv, TypeOK
  <2>2. CASE r # req[s].target /\ r = req[s].id
    BY <1>1, <1>2, <2>2 DEF IInv, TypeOK
  <2>3. CASE r # req[s].target /\ r # req[s].id
    <3>1. dev'[r] = dev[r]
      BY <1>2, <2>3 DEF IInv, TypeOK
    <3>2. QED BY <1>1, <3>1, RowStays
  <2>4. QED BY <2>1, <2>2, <2>3
<1>3. CASE UNCHANGED <<dev, tok>>
  BY <1>1, <1>3, SameRows
<1>4. QED BY <1>2, <1>3 DEF Move

LEMMA ReplaceKeepsLive ==
    ASSUME IInv, NEW s \in Slots, Replace(s) PROVE StepKeepsLive
<1>1. there' = there /\ req[s].dead
  BY DEF Replace, IInv, TargetWasSilent
<1>2. CASE dev' = [dev EXCEPT ![req[s].target] = req[s].dev]
  <2> SUFFICES ASSUME NEW d \in Devices, NEW r \in Rows,
                      r \in there, dev[r] = d, ~HasRow(d)'
               PROVE  dev'[r] = req[s].dev /\ req[s].target = r /\ req[s].dead
    BY DEF StepKeepsLive
  <2>1. CASE r = req[s].target
    BY <1>1, <1>2, <2>1 DEF IInv, TypeOK
  <2>2. CASE r # req[s].target
    <3>1. dev'[r] = dev[r]
      BY <1>2, <2>2 DEF IInv, TypeOK
    <3>2. QED BY <1>1, <3>1, RowStays
  <2>3. QED BY <2>1, <2>2
<1>3. CASE dev' = dev
  BY <1>1, <1>3, SameRows
<1>4. QED BY <1>2, <1>3 DEF Replace

LEMMA ServeKeepsLive ==
    ASSUME IInv, NEW s \in Slots, Serve(s) PROVE StepKeepsLive
<1>1. CASE ReadNames(s)
  BY <1>1, SameRows DEF ReadNames, rowVars
<1>2. CASE Rotate(s)
  BY <1>2, SameRows DEF Rotate
<1>3. CASE Reselect(s)
  BY <1>3, SameRows DEF Reselect, rowVars
<1>4. QED
  BY <1>1, <1>2, <1>3, MoveKeepsLive, ReplaceKeepsLive, AddKeepsLive DEF Serve

LEMMA OperatorKeepsLive ==
    ASSUME IInv,
           \/ \E n \in Names, d \in Devices \cup {NoDevice} : CreateCustomer(n, d)
           \/ \E r \in Rows, n \in Names, d \in Devices \cup {NoDevice} :
                 UpdateCustomer(r, n, d)
           \/ \E r \in Rows : DeleteCustomer(r)
           \/ \E r \in Rows, n \in Names : MoveRead(r, n)
           \/ MoveCommit
    PROVE  StepKeepsLive
<1>1. CASE MoveCommit
  BY <1>1 DEF MoveCommit, StepKeepsLive
<1>2. CASE Event
  BY <1>2, EventShows DEF IInv
<1>3. QED
  BY <1>1, <1>2 DEF CreateCustomer, UpdateCustomer, DeleteCustomer, MoveRead

LEMMA PcKeepsLive ==
    ASSUME IInv, NEW d \in Devices,
           \/ BeatOk(d) \/ BeatRejected(d) \/ RequestLost(d) \/ Register(d)
           \/ \E n \in AnyName : Reinstall(d, n)
           \/ \E s \in Slots : Enrol(s, d)
    PROVE  StepKeepsLive
<1>1. there' = there /\ dev' = dev
  BY DEF BeatOk, BeatRejected, RequestLost, Register, Reinstall, Enrol, rowVars
<1>2. QED BY <1>1, SameRows

LEMMA StepLive == IInv /\ Next => StepKeepsLive
<1> SUFFICES ASSUME IInv, Next PROVE StepKeepsLive
  OBVIOUS
<1>1. CASE \E s \in Slots : TimeOut(s)
  BY <1>1, SameRows DEF TimeOut, rowVars
<1>2. CASE \E r \in Rows : Silence(r)
  BY <1>2, SameRows DEF Silence
<1>3. QED
  BY <1>1, <1>2, PcKeepsLive, ServeKeepsLive, OperatorKeepsLive DEF Next

(* Without the operator a PC drops out of the customer list only by an
   enrolment that found its target silent: no retry, late handler or lost
   answer of enrollCustomer gets around the safety pin. *)
THEOREM PinHolds == Spec => DisplacedWasSilent
<1>1. IInv /\ [Next]_vars => [StepKeepsLive]_vars
  BY StepLive
<1>2. QED BY Invariant, <1>1, PTL DEF Spec, DisplacedWasSilent, StepKeepsLive

----------------------------------------------------------------------------
(* One token, one PC, one row                                              *)

\* remote_id names one row.
OneRow ==
    \A q, r \in there : dev[q] = dev[r] /\ dev[q] # NoDevice => q = r

\* No two customers answer to the same token ...
TokensDiffer ==
    \A q, r \in Rows : tok[q] = tok[r] /\ tok[q] # NoToken => q = r

\* ... although moveDeviceToNewCustomer holds one it has read earlier, and
\* writes it to another row than the one it read.
MoveHolds ==
    op.tok # NoToken => \A r \in Rows : tok[r] = op.tok => r = op.src

\* No two PCs hold the same token.
PCsDiffer ==
    \A c, d \in Devices : stored[c] = stored[d] /\ stored[c] # NoToken => c = d

DistinctInv == OneRow /\ TokensDiffer /\ MoveHolds /\ PCsDiffer

\* A fresh token is given to one row at most; other rows keep theirs or lose it.
LEMMA TokensKept ==
    ASSUME TokensDiffer, MoveHolds, NEW k, NEW t, Unused(t), t # NoToken,
           op' \in {op, NoMove},
           \A r \in Rows : \/ tok'[r] \in {tok[r], NoToken}
                           \/ tok'[r] = t /\ r = k
    PROVE  TokensDiffer' /\ MoveHolds'
<1>1. \A r \in Rows : tok[r] # t
  BY DEF Unused
<1>2. TokensDiffer'
  BY <1>1 DEF TokensDiffer
<1>3. MoveHolds'
  BY DEF MoveHolds, Unused, NoMove
<1>4. QED BY <1>2, <1>3

LEMMA TokensOnlyLost ==
    ASSUME TokensDiffer, MoveHolds, op' \in {op, NoMove},
           \A r \in Rows : tok'[r] \in {tok[r], NoToken}
    PROVE  TokensDiffer' /\ MoveHolds'
BY DEF TokensDiffer, MoveHolds, NoMove

LEMMA TokensSame ==
    ASSUME TokensDiffer, MoveHolds, UNCHANGED <<tok, op>>
    PROVE  TokensDiffer' /\ MoveHolds'
BY DEF TokensDiffer, MoveHolds

\* A PC keeps its token, drops it or gets a fresh one.
LEMMA StoredKept ==
    ASSUME TypeOK, PCsDiffer, NEW c,
           \/ UNCHANGED stored
           \/ stored' = [stored EXCEPT ![c] = NoToken]
           \/ \E t \in Tokens : /\ Unused(t)
                                /\ stored' = [stored EXCEPT ![c] = t]
    PROVE  PCsDiffer'
<1>1. stored \in [Devices -> AnyToken]
  BY DEF TypeOK
<1>2. CASE UNCHANGED stored \/ stored' = [stored EXCEPT ![c] = NoToken]
  BY <1>1, <1>2 DEF PCsDiffer
<1>3. ASSUME NEW t \in Tokens, Unused(t), stored' = [stored EXCEPT ![c] = t]
      PROVE  PCsDiffer'
  <2>1. \A d \in Devices : stored[d] # t
    BY <1>3 DEF Unused
  <2>2. QED BY <1>1, <1>3, <2>1 DEF PCsDiffer
<1>4. QED BY <1>2, <1>3

\* The device of a row changes to one that no other row has, or to none.
LEMMA OneRowKept ==
    ASSUME TypeOK, OneRow, NEW k, NEW d, there' \subseteq there \cup {k},
           RowsOf(d) \subseteq {k} \/ d = NoDevice
              \/ \A q \in RowsOf(d) : q = k \/ dev'[q] = NoDevice,
           \A r \in there' : \/ r # k /\ dev'[r] \in {dev[r], NoDevice}
                             \/ r = k /\ dev'[r] = d
    PROVE  OneRow'
<1>1. \A q \in there' : q # k => q \in there
  OBVIOUS
<1>2. QED BY <1>1 DEF OneRow, RowsOf

LEMMA OneRowSame ==
    ASSUME OneRow, UNCHANGED dev, there' \subseteq there
    PROVE  OneRow'
BY DEF OneRow

\* The end of a handler: the PC keeps its token or gets the fresh one.
LEMMA AnswerStored ==
    ASSUME TypeOK, PCsDiffer, NEW s \in Slots, NEW t \in Tokens, Unused(t),
           Answer(s, t) \/ Error(s)
    PROVE  PCsDiffer'
<1>1. \/ UNCHANGED stored
      \/ stored' = [stored EXCEPT ![req[s].dev] = t]
  BY DEF Answer, Error, Granted, Failed, pcVars
<1>2. QED BY <1>1, StoredKept

LEMMA TokenIsNone == \A t \in Tokens : t # NoToken
BY NamesAssumption DEF NoToken

----------------------------------------------------------------------------

LEMMA PcDistinct ==
    ASSUME TypeOK, DistinctInv, NEW d \in Devices,
           \/ BeatOk(d) \/ BeatRejected(d) \/ RequestLost(d)
           \/ \E n \in AnyName : Reinstall(d, n)
           \/ \E s \in Slots : Enrol(s, d)
    PROVE  DistinctInv'
<1>1. UNCHANGED <<there, dev, tok, op>>
  BY DEF BeatOk, BeatRejected, RequestLost, Reinstall, Enrol, rowVars
<1>2. stored \in [Devices -> AnyToken]
  BY DEF TypeOK
<1>3. stored' \in {stored, [stored EXCEPT ![d] = NoToken]}
  <2>1. [stored EXCEPT ![d] = stored[d]] = stored
    BY <1>2
  <2>2. QED
    BY <2>1 DEF BeatOk, BeatRejected, Refused, RequestLost, Reinstall, Enrol,
                pcVars
<1>4. QED
  BY <1>1, <1>3, OneRowSame, TokensSame, StoredKept DEF DistinctInv

LEMMA RegisterDistinct ==
    ASSUME TypeOK, DistinctInv, NEW d \in Devices, Register(d)
    PROVE  DistinctInv'
<1>1. UNCHANGED <<there, dev, op>>
  BY DEF Register
<1>2. CASE Failed(d) /\ UNCHANGED tok
  BY <1>1, <1>2, OneRowSame, TokensSame, StoredKept DEF DistinctInv, Failed
<1>3. CASE \E r \in RowsOf(d) : tok[r] = NoToken
  <2>1. PICK t \in Tokens :
           /\ Fresh(t)
           /\ tok' = [r \in Rows |-> IF r \in RowsOf(d) THEN t ELSE tok[r]]
           /\ Granted(d, t) \/ Failed(d)
    BY <1>3 DEF Register
  <2>2. PICK k \in RowsOf(d) : TRUE
    BY <1>3
  <2>3. RowsOf(d) = {k}
    BY <2>2, NamesAssumption DEF DistinctInv, OneRow, RowsOf
  <2>4. TokensDiffer' /\ MoveHolds'
    BY <1>1, <2>1, <2>3, TokensKept, TokenIsNone DEF DistinctInv, Fresh
  <2>5. PCsDiffer'
    BY <2>1, StoredKept DEF DistinctInv, Fresh, Granted, Failed
  <2>6. QED BY <1>1, <2>4, <2>5, OneRowSame DEF DistinctInv
<1>4. QED BY <1>2, <1>3 DEF Register

LEMMA RotateDistinct ==
    ASSUME TypeOK, DistinctInv, NEW s \in Slots, Rotate(s)
    PROVE  DistinctInv'
<1>1. UNCHANGED <<there, dev, op>>
  BY DEF Rotate
<1>2. PICK t \in Tokens :
         /\ Fresh(t)
         /\ tok' = [r \in Rows |-> IF r = req[s].id /\ r \in there THEN t
                                                                  ELSE tok[r]]
         /\ Answer(s, t) \/ Error(s)
  BY DEF Rotate
<1>3. TokensDiffer' /\ MoveHolds'
  BY <1>1, <1>2, TokensKept, TokenIsNone DEF DistinctInv, Fresh
<1>4. PCsDiffer'
  BY <1>2, AnswerStored DEF DistinctInv, Fresh
<1>5. QED BY <1>1, <1>3, <1>4, OneRowSame DEF DistinctInv

LEMMA MoveDistinct ==
    ASSUME TypeOK, DistinctInv, NEW s \in Slots, Move(s)
    PROVE  DistinctInv'
<1> DEFINE id     == req[s].id
           target == req[s].target
<1>1. UNCHANGED <<there, op>>
  BY DEF Move
<1>2. CASE Error(s) /\ UNCHANGED <<dev, tok>>
  <2>1. UNCHANGED stored
    BY <1>2 DEF Error, Failed, pcVars
  <2>2. QED
    BY <1>1, <1>2, <2>1, OneRowSame, TokensSame, StoredKept DEF DistinctInv
<1>3. CASE target \in there /\ RowsOf(req[s].dev) \subseteq {id, target}
  <2>1. PICK t \in Tokens :
           /\ Fresh(t)
           /\ dev' = [[dev EXCEPT ![id] = NoDevice] EXCEPT ![target] = req[s].dev]
           /\ tok' = [[tok EXCEPT ![id] = NoToken] EXCEPT ![target] = t]
           /\ Answer(s, t)
    BY <1>3 DEF Move
  <2>2. tok \in [Rows -> AnyToken] /\ there \subseteq Rows
        /\ dev \in [Rows -> Devices \cup {NoDevice}]
    BY DEF TypeOK
  <2>3. \A r \in Rows : \/ tok'[r] \in {tok[r], NoToken}
                        \/ tok'[r] = t /\ r = target
    BY <2>1, <2>2
  <2>4. TokensDiffer' /\ MoveHolds'
    <3>1. Unused(t) /\ t # NoToken /\ op' = op /\ TokensDiffer /\ MoveHolds
      BY <1>1, <2>1, TokenIsNone DEF DistinctInv, Fresh
    <3> HIDE DEF target
    <3>2. QED BY <2>3, <3>1, TokensKept
  <2>5. PCsDiffer'
    BY <2>1, AnswerStored DEF DistinctInv, Fresh
  <2>6. OneRow'
    <3>1. \A r \in there : \/ r # target /\ dev'[r] \in {dev[r], NoDevice}
                           \/ r = target /\ dev'[r] = req[s].dev
      BY <2>1, <2>2
    <3>2. \A q \in RowsOf(req[s].dev) : q = target \/ dev'[q] = NoDevice
      BY <1>3, <2>1, <2>2 DEF RowsOf
    <3> HIDE DEF id, target
    <3>3. QED BY <1>1, <3>1, <3>2, OneRowKept DEF DistinctInv
  <2>7. QED BY <2>4, <2>5, <2>6 DEF DistinctInv
<1>4. QED BY <1>2, <1>3 DEF Move

LEMMA ReplaceDistinct ==
    ASSUME TypeOK, DistinctInv, NEW s \in Slots, Replace(s)
    PROVE  DistinctInv'
<1> DEFINE target == req[s].target
<1>1. UNCHANGED <<there, op>>
  BY DEF Replace
<1>2. CASE UNCHANGED <<pcVars, dev, tok>>
  BY <1>1, <1>2, OneRowSame, TokensSame, StoredKept DEF DistinctInv, pcVars
<1>3. CASE target \in there /\ RowsOf(req[s].dev) \subseteq {target}
  <2>1. PICK t \in Tokens :
           /\ Fresh(t)
           /\ dev' = [dev EXCEPT ![target] = req[s].dev]
           /\ tok' = [tok EXCEPT ![target] = t]
           /\ Answer(s, t)
    BY <1>3 DEF Replace
  <2>2. tok \in [Rows -> AnyToken] /\ there \subseteq Rows
        /\ dev \in [Rows -> Devices \cup {NoDevice}]
    BY DEF TypeOK
  <2>3. \A r \in Rows : \/ tok'[r] \in {tok[r], NoToken}
                        \/ tok'[r] = t /\ r = target
    BY <2>1, <2>2
  <2>4. TokensDiffer' /\ MoveHolds'
    <3>1. Unused(t) /\ t # NoToken /\ op' = op /\ TokensDiffer /\ MoveHolds
      BY <1>1, <2>1, TokenIsNone DEF DistinctInv, Fresh
    <3> HIDE DEF target
    <3>2. QED BY <2>3, <3>1, TokensKept
  <2>5. PCsDiffer'
    BY <2>1, AnswerStored DEF DistinctInv, Fresh
  <2>6. OneRow'
    <3>1. \A r \in there : \/ r # target /\ dev'[r] \in {dev[r], NoDevice}
                           \/ r = target /\ dev'[r] = req[s].dev
      BY <2>1, <2>2
    <3>2. RowsOf(req[s].dev) \subseteq {target}
      BY <1>3
    <3> HIDE DEF target
    <3>3. QED BY <1>1, <3>1, <3>2, OneRowKept DEF DistinctInv
  <2>7. QED BY <2>4, <2>5, <2>6 DEF DistinctInv
<1>4. QED BY <1>2, <1>3 DEF Replace

\* A row is added for a device that has none, with a fresh token or without.
LEMMA InsertDistinct ==
    ASSUME TypeOK, DistinctInv, NEW r \in Rows, NEW n, NEW d, NEW t,
           t = NoToken \/ (t \in Tokens /\ Unused(t)),
           Insert(r, n, d, t), NewId(r), UNCHANGED op, Free(d)
    PROVE  OneRow' /\ TokensDiffer' /\ MoveHolds'
<1>1. tok \in [Rows -> AnyToken] /\ there \subseteq Rows
      /\ dev \in [Rows -> Devices \cup {NoDevice}]
  BY DEF TypeOK
<1>2. /\ there' = there \cup {r}
      /\ dev' = [dev EXCEPT ![r] = d]
      /\ tok' = [tok EXCEPT ![r] = t]
  BY DEF Insert
<1>3. OneRow'
  <2>1. \A q \in there' : \/ q # r /\ dev'[q] \in {dev[q], NoDevice}
                          \/ q = r /\ dev'[q] = d
    BY <1>1, <1>2
  <2>2. RowsOf(d) \subseteq {r} \/ d = NoDevice
    BY DEF Free
  <2>3. QED BY <1>2, <2>1, <2>2, OneRowKept DEF DistinctInv
<1>4. CASE t = NoToken
  BY <1>1, <1>2, <1>3, <1>4, TokensOnlyLost DEF DistinctInv
<1>5. CASE t \in Tokens /\ Unused(t)
  <2>1. \A q \in Rows : tok'[q] \in {tok[q], NoToken} \/ (tok'[q] = t /\ q = r)
    BY <1>1, <1>2
  <2>2. QED BY <1>3, <1>5, <2>1, TokensKept, TokenIsNone DEF DistinctInv
<1>6. QED BY <1>4, <1>5

LEMMA AddDistinct ==
    ASSUME TypeOK, DistinctInv, NEW s \in Slots, Add(s)
    PROVE  DistinctInv'
<1>1. UNCHANGED op
  BY DEF Add
<1>2. CASE UNCHANGED <<pcVars, rowVars>>
  BY <1>1, <1>2, OneRowSame, TokensSame, StoredKept
  DEF DistinctInv, pcVars, rowVars
<1>3. CASE RowsOf(req[s].dev) = {}
  <2>1. PICK r \in Rows, t \in Tokens :
           /\ NewId(r) /\ Fresh(t)
           /\ Insert(r, req[s].name, req[s].dev, t)
           /\ Answer(s, t)
    BY <1>3 DEF Add
  <2>2. OneRow' /\ TokensDiffer' /\ MoveHolds'
    BY <1>1, <1>3, <2>1, InsertDistinct DEF Fresh, Free
  <2>3. PCsDiffer'
    BY <2>1, AnswerStored DEF DistinctInv, Fresh
  <2>4. QED BY <2>2, <2>3 DEF DistinctInv
<1>4. QED BY <1>2, <1>3 DEF Add

\* What neither gives nor takes a token or a device.
LEMMA RestDistinct ==
    ASSUME TypeOK, DistinctInv,
           \/ \E s \in Slots : TimeOut(s) \/ ReadNames(s) \/ Reselect(s)
           \/ \E r \in Rows : Silence(r)
           \/ UNCHANGED vars
    PROVE  DistinctInv'
<1>1. UNCHANGED <<there, dev, tok, op, stored>>
  BY DEF TimeOut, Failed, ReadNames, Reselect, Error, Silence, vars, rowVars,
         pcVars
<1>2. QED
  BY <1>1, OneRowSame, TokensSame, StoredKept DEF DistinctInv

LEMMA OperatorDistinct ==
    ASSUME TypeOK, DistinctInv, NEW n \in Names,
           \/ \E d \in Devices \cup {NoDevice} : CreateCustomer(n, d)
           \/ \E r \in Rows, d \in Devices \cup {NoDevice} : UpdateCustomer(r, n, d)
           \/ \E r \in Rows : MoveRead(r, n)
    PROVE  DistinctInv'
<1>0. tok \in [Rows -> AnyToken] /\ there \subseteq Rows
      /\ dev \in [Rows -> Devices \cup {NoDevice}]
  BY DEF TypeOK
<1>1. UNCHANGED stored
  BY DEF CreateCustomer, UpdateCustomer, MoveRead, pcVars
<1>2. PCsDiffer'
  BY <1>1, StoredKept DEF DistinctInv
<1>3. ASSUME NEW d \in Devices \cup {NoDevice}, CreateCustomer(n, d)
      PROVE  DistinctInv'
  <2>1. PICK r \in Rows : NewId(r) /\ Insert(r, n, d, NoToken)
    BY <1>3 DEF CreateCustomer
  <2>2. UNCHANGED op /\ Free(d)
    BY <1>3 DEF CreateCustomer
  <2>3. QED BY <1>2, <2>1, <2>2, InsertDistinct DEF DistinctInv
<1>4. ASSUME NEW r \in Rows, NEW d \in Devices \cup {NoDevice},
             UpdateCustomer(r, n, d)
      PROVE  DistinctInv'
  <2>1. /\ UNCHANGED <<there, tok, op>> /\ dev' = [dev EXCEPT ![r] = d]
        /\ d = dev[r] \/ Free(d)
    BY <1>4 DEF UpdateCustomer
  <2>2. \A q \in there' : \/ q # r /\ dev'[q] \in {dev[q], NoDevice}
                          \/ q = r /\ dev'[q] = d
    BY <1>0, <2>1
  <2>3. RowsOf(d) \subseteq {r} \/ d = NoDevice
    BY <1>4, <2>1 DEF Free, RowsOf, UpdateCustomer, DistinctInv, OneRow
  <2>4. OneRow'
    <3>1. there' \subseteq there \cup {r} /\ OneRow
      BY <2>1 DEF DistinctInv
    <3>2. QED BY <2>2, <2>3, <3>1, OneRowKept
  <2>5. QED BY <1>2, <2>1, <2>4, TokensSame DEF DistinctInv
<1>5. ASSUME NEW r \in Rows, MoveRead(r, n)
      PROVE  DistinctInv'
  <2>1. UNCHANGED <<there, dev, tok>> /\ op'.tok = tok[r] /\ op'.src = r
    BY <1>5 DEF MoveRead, rowVars
  <2>2. TokensDiffer' /\ MoveHolds'
    BY <2>1 DEF DistinctInv, TokensDiffer, MoveHolds
  <2>3. QED BY <1>2, <2>1, <2>2, OneRowSame DEF DistinctInv
<1>6. QED BY <1>3, <1>4, <1>5

LEMMA DeleteDistinct ==
    ASSUME TypeOK, DistinctInv, NEW r \in Rows, DeleteCustomer(r)
    PROVE  DistinctInv'
<1>0. tok \in [Rows -> AnyToken] /\ there \subseteq Rows
      /\ dev \in [Rows -> Devices \cup {NoDevice}]
  BY DEF TypeOK
<1>1. /\ there' = there \ {r} /\ UNCHANGED <<op, stored>>
      /\ dev' = [dev EXCEPT ![r] = NoDevice]
      /\ tok' = [tok EXCEPT ![r] = NoToken]
  BY DEF DeleteCustomer, pcVars
<1>2. OneRow'
  BY <1>0, <1>1 DEF DistinctInv, OneRow
<1>3. \A q \in Rows : tok'[q] \in {tok[q], NoToken}
  BY <1>0, <1>1
<1>4. QED
  BY <1>1, <1>2, <1>3, TokensOnlyLost, StoredKept DEF DistinctInv

LEMMA MoveCommitDistinct ==
    ASSUME TypeOK, DistinctInv, MoveCommit
    PROVE  DistinctInv'
<1>0. tok \in [Rows -> AnyToken] /\ there \subseteq Rows
      /\ dev \in [Rows -> Devices \cup {NoDevice}]
  BY DEF TypeOK
<1>1. PCsDiffer' /\ op' = NoMove
  BY StoredKept DEF DistinctInv, MoveCommit, pcVars
<1>2. CASE UNCHANGED <<there, name, dev, tok>>
  BY <1>1, <1>2, OneRowSame, TokensOnlyLost DEF DistinctInv
<1>3. CASE RowsOf(op.dev) \subseteq {op.src}
  <2>1. PICK r \in Rows :
           /\ NewId(r)
           /\ there' = there \cup {r}
           /\ dev' = [[dev EXCEPT ![op.src] = NoDevice] EXCEPT ![r] = op.dev]
           /\ tok' = [[tok EXCEPT ![op.src] = NoToken] EXCEPT ![r] = op.tok]
    BY <1>3 DEF MoveCommit
  <2>2. OneRow'
    <3>1. \A q \in there' : \/ q # r /\ dev'[q] \in {dev[q], NoDevice}
                            \/ q = r /\ dev'[q] = op.dev
      BY <1>0, <2>1
    <3>2. \A q \in RowsOf(op.dev) : q = r \/ dev'[q] = NoDevice
      BY <1>0, <1>3, <2>1 DEF RowsOf
    <3>3. there' \subseteq there \cup {r} /\ OneRow
      BY <2>1 DEF DistinctInv
    <3>4. QED BY <3>1, <3>2, <3>3, OneRowKept
  <2>3. \A q \in Rows : /\ q = r => tok'[q] = op.tok
                        /\ q = op.src /\ q # r => tok'[q] = NoToken
                        /\ q # op.src /\ q # r => tok'[q] = tok[q]
    BY <1>0, <2>1
  <2>4. TokensDiffer'
    BY <2>3 DEF DistinctInv, TokensDiffer, MoveHolds
  <2>5. MoveHolds'
    BY <1>1 DEF MoveHolds, NoMove
  <2>6. QED BY <1>1, <2>2, <2>4, <2>5 DEF DistinctInv
<1>4. QED BY <1>2, <1>3 DEF MoveCommit

LEMMA DistinctStep == IInv /\ DistinctInv /\ [Next]_vars => DistinctInv'
<1> SUFFICES ASSUME TypeOK, DistinctInv, [Next]_vars PROVE DistinctInv'
  BY DEF IInv
<1>1. CASE \E d \in Devices :
              \/ BeatOk(d) \/ BeatRejected(d) \/ RequestLost(d)
              \/ \E n \in AnyName : Reinstall(d, n)
              \/ \E s \in Slots : Enrol(s, d)
  BY <1>1, PcDistinct
<1>2. CASE \E s \in Slots : Rotate(s) \/ Move(s) \/ Replace(s) \/ Add(s)
  BY <1>2, RotateDistinct, MoveDistinct, ReplaceDistinct, AddDistinct
<1>3. CASE \/ \E d \in Devices : Register(d)
           \/ MoveCommit
  BY <1>3, RegisterDistinct, MoveCommitDistinct
<1>4. CASE \E n \in Names :
              \/ \E d \in Devices \cup {NoDevice} : CreateCustomer(n, d)
              \/ \E r \in Rows, d \in Devices \cup {NoDevice} :
                    UpdateCustomer(r, n, d)
              \/ \E r \in Rows : MoveRead(r, n)
  BY <1>4, OperatorDistinct
<1>5. CASE \E r \in Rows : DeleteCustomer(r)
  BY <1>5, DeleteDistinct
<1>6. QED BY <1>1, <1>2, <1>3, <1>4, <1>5, RestDistinct DEF Next, Serve

(* A heartbeat token stands for one PC: remote ids and tokens are unique in the
   customers table, no two PCs hold the same token, and the stale token that
   moveDeviceToNewCustomer carries from its read to its transaction is nobody
   else's when it is written, whatever enrolments, rotations, deletions and
   edits of the form come in between. *)
THEOREM TokensAreUnique == Spec => [](OneRow /\ TokensDiffer /\ PCsDiffer)
<1>1. Init => DistinctInv
  BY DEF Init, DistinctInv, OneRow, TokensDiffer, MoveHolds, PCsDiffer, NoMove
<1>2. DistinctInv => OneRow /\ TokensDiffer /\ PCsDiffer
  BY DEF DistinctInv
<1>3. QED BY <1>1, <1>2, Invariant, DistinctStep, PTL DEF Spec
=============================================================================
