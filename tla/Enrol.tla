------------------------------- MODULE Enrol -------------------------------
(***************************************************************************)
(* How a customer PC gets into the panel's list and stays there.  A PC     *)
(* that has no heartbeat token, or whose token is refused, enrols; the     *)
(* server decides by remote id and shop name whether it is a reinstall     *)
(* (rotate the token), a move to another shop, a replacement of a silent   *)
(* PC or a new customer.                                                   *)
(*                                                                         *)
(* Agent: tick, acquire_token, enroll, register_token of                   *)
(* src/chainremote_heartbeat.rs.  Panel: enrollCustomer and the operator's *)
(* operations in lib/data/customers.ts, moveDeviceToNewCustomer in         *)
(* lib/data/alerts.ts.  Each database statement or transaction is a step;  *)
(* a handler goes on after its client has given up.                        *)
(*                                                                         *)
(* One dealer is modelled: a device that another dealer owns is refused    *)
(* and nothing changes.  Two shop names are equal when their normalised    *)
(* keys are.  A token is a number nobody else holds.                       *)
(***************************************************************************)
EXTENDS Naturals

CONSTANTS
    Devices,     \* customer PCs, by remote id
    OldBuilds,   \* PCs that may have been set up without an enrol key
    NoDevice,
    Names,       \* shop names
    NoName,      \* no name at installation: the row gets a placeholder
    FirstShop,   \* the names the PCs are set up with at first
    Rows,        \* customers.id, from 1
    Slots,       \* places for enrolment requests at the server
    Tokens,      \* heartbeat tokens, from 1
    MaxEvents    \* bound: operations of the operator, reinstallations and
                 \* lost or abandoned requests, together

ASSUME NamesAssumption ==
    /\ NoDevice \notin Devices /\ NoName \notin Names
    /\ FirstShop \in [Devices -> Names \cup {NoName}]
    /\ OldBuilds \subseteq Devices
    /\ Rows \subseteq Nat \ {0} /\ Tokens \subseteq Nat \ {0}
ASSUME BoundsAssumption ==
    MaxEvents \in Nat

VARIABLES
    at,       \* where the PC's tick stands: at its start, or after a refusal
              \* (again: to enrol, retry: to send the second heartbeat)
    stored,   \* the token in the PC's LocalConfig (0: none)
    shop,     \* the name given at installation
    keyed,    \* PCs installed with an enrol key
    there,    \* rows of the customers table
    name, dev, tok, alive, \* name, remote_id, heartbeat_token, deviceAlive
    req,      \* enrollCustomer under way; dead is history: the target was
              \* silent when it was read
    op,       \* moveDeviceToNewCustomer under way
    events

pcVars  == <<at, stored, shop, keyed>>
rowVars == <<there, name, dev, tok, alive>>
vars == <<pcVars, rowVars, req, op, events>>

NoRow   == 0
NoToken == 0
AnyName == Names \cup {NoName}
AnyRow  == Rows \cup {NoRow}
AnyToken == Tokens \cup {NoToken}

NoRequest == [at |-> "none", dev |-> NoDevice, name |-> NoName, id |-> NoRow,
              same |-> FALSE, target |-> NoRow, dead |-> FALSE, waited |-> FALSE]
Steps    == {"none", "names", "rotate", "move", "replace", "insert", "reselect"}
Requests == [at: Steps, dev: Devices \cup {NoDevice}, name: AnyName,
             id: AnyRow, same: BOOLEAN, target: AnyRow, dead: BOOLEAN, waited: BOOLEAN]

NoMove == [src |-> NoRow, dev |-> NoDevice, tok |-> NoToken, name |-> NoName]
Moves  == [src: AnyRow, dev: Devices \cup {NoDevice}, tok: AnyToken,
           name: AnyName]

\* Everything is in its domain and within its bound.
TypeOK ==
    /\ at \in [Devices -> {"tick", "again", "retry"}]
    /\ stored \in [Devices -> AnyToken]
    /\ shop \in [Devices -> AnyName]
    /\ keyed \in SUBSET Devices
    /\ there \in SUBSET Rows
    /\ name \in [Rows -> AnyName]
    /\ dev \in [Rows -> Devices \cup {NoDevice}]
    /\ tok \in [Rows -> AnyToken]
    /\ alive \in [Rows -> BOOLEAN]
    /\ req \in [Slots -> Requests]
    /\ op \in Moves
    /\ events \in 0..MaxEvents

Init ==
    /\ at = [d \in Devices |-> "tick"]
    /\ stored = [d \in Devices |-> NoToken]
    /\ shop = FirstShop
    /\ keyed \in {Devices, Devices \ OldBuilds}
    /\ there = {}
    /\ name = [r \in Rows |-> NoName]
    /\ dev = [r \in Rows |-> NoDevice]
    /\ tok = [r \in Rows |-> NoToken]
    /\ alive = [r \in Rows |-> FALSE]
    /\ req = [s \in Slots |-> NoRequest]
    /\ op = NoMove
    /\ events = 0

Event == events < MaxEvents /\ events' = events + 1

----------------------------------------------------------------------------
(* The customers table                                                     *)

\* The row of a device: remote_id is unique.
RowsOf(d) == {r \in there : dev[r] = d}

\* A random token: one that is nowhere in use.
Unused(t) ==
    /\ \A d \in Devices : stored[d] # t
    /\ \A r \in Rows : tok[r] # t
    /\ op.tok # t
Fresh(t) == Unused(t) /\ \A u \in Tokens : Unused(u) => t <= u

\* A random row id: one that no row has and nobody refers to.
Unnamed(r) ==
    /\ r \notin there /\ op.src # r
    /\ \A s \in Slots : req[s].id # r /\ req[s].target # r
NewId(r) == Unnamed(r) /\ \A q \in Rows : Unnamed(q) => r <= q

Insert(r, n, d, t) ==
    /\ there' = there \cup {r}
    /\ name' = [name EXCEPT ![r] = n]
    /\ dev' = [dev EXCEPT ![r] = d]
    /\ tok' = [tok EXCEPT ![r] = t]
    /\ alive' = [alive EXCEPT ![r] = FALSE]

\* lastHeartbeatAt is 15 minutes old.
Silence(r) ==
    /\ alive[r]
    /\ alive' = [alive EXCEPT ![r] = FALSE]
    /\ UNCHANGED <<pcVars, there, name, dev, tok, req, op, events>>

----------------------------------------------------------------------------
(* The agent                                                               *)

Waiting(d) == \E s \in Slots : req[s].dev = d /\ req[s].waited

\* tick: a PC without a token enrols, a PC with one sends a heartbeat.
Asks(d)  == stored[d] = NoToken
Beats(d) == stored[d] # NoToken

\* recordHeartbeat finds the row with the PC's id and token.
BeatOk(d) ==
    /\ Beats(d)
    /\ \E r \in RowsOf(d) :
          /\ tok[r] = stored[d]
          /\ alive' = [alive EXCEPT ![r] = TRUE]
    /\ at' = [at EXCEPT ![d] = "tick"]
    /\ UNCHANGED <<stored, shop, keyed, there, name, dev, tok, req, op,
                   events>>

\* Mutant: a refusal changes nothing, the next tick tries again.
RefusedKeepsToken(d) ==
    /\ at' = [at EXCEPT ![d] = "tick"]
    /\ UNCHANGED stored

\* The first refusal drops the token and enrols; the second one gives up until
\* the next tick.
Refused(d) ==
    IF at[d] = "tick"
    THEN /\ at' = [at EXCEPT ![d] = "again"]
         /\ stored' = [stored EXCEPT ![d] = NoToken]
    ELSE /\ at' = [at EXCEPT ![d] = "tick"]
         /\ UNCHANGED stored

BeatRejected(d) ==
    /\ Beats(d)
    /\ \A r \in RowsOf(d) : tok[r] # stored[d]
    /\ Refused(d)
    /\ UNCHANGED <<shop, keyed, rowVars, req, op, events>>

\* A request gets no answer: this tick is over, and another one comes.
RequestLost(d) ==
    /\ at[d] # "tick" /\ ~Waiting(d)
    /\ Event
    /\ at' = [at EXCEPT ![d] = "tick"]
    /\ UNCHANGED <<stored, shop, keyed, rowVars, req, op>>

\* The answer to acquire_token arrives: the heartbeat follows at once.
Granted(d, t) ==
    /\ stored' = [stored EXCEPT ![d] = t]
    /\ at' = [at EXCEPT ![d] = IF at[d] = "again" THEN "retry" ELSE "tick"]
    /\ UNCHANGED <<shop, keyed>>

Failed(d) ==
    /\ at' = [at EXCEPT ![d] = "tick"]
    /\ UNCHANGED <<stored, shop, keyed>>

\* A PC without a key: a token is issued to a row that has none.
Register(d) ==
    /\ Asks(d) /\ d \notin keyed
    /\ IF \E r \in RowsOf(d) : tok[r] = NoToken
       THEN \E t \in Tokens :
               /\ Fresh(t)
               /\ tok' = [r \in Rows |-> IF r \in RowsOf(d) THEN t ELSE tok[r]]
               /\ Granted(d, t) \/ Failed(d) \* the answer is lost
       ELSE Failed(d) /\ UNCHANGED tok
    /\ UNCHANGED <<there, name, dev, alive, req, op, events>>

\* A setup over the old one, with or without the configuration; it brings a key.
Reinstall(d, n) ==
    /\ Event
    /\ shop' = [shop EXCEPT ![d] = n]
    /\ \E t \in {stored[d], NoToken} : stored' = [stored EXCEPT ![d] = t]
    /\ at' = [at EXCEPT ![d] = "tick"]
    /\ keyed' = keyed \cup {d}
    /\ req' = [s \in Slots |-> IF req[s].dev = d
                               THEN [req[s] EXCEPT !.waited = FALSE] ELSE req[s]]
    /\ UNCHANGED <<rowVars, op>>

----------------------------------------------------------------------------
(* enrollCustomer                                                          *)

\* POST /api/customers/enroll arrives and byId is read.
Enrol(s, d) ==
    /\ Asks(d) /\ d \in keyed /\ ~Waiting(d)
    /\ req[s].at = "none"
    /\ \E r \in IF RowsOf(d) = {} THEN {NoRow} ELSE RowsOf(d) :
          req' = [req EXCEPT ![s] =
                    [at |-> "names", dev |-> d, name |-> shop[d], id |-> r,
                     same |-> r # NoRow /\ shop[d] \in {NoName, name[r]},
                     target |-> NoRow, dead |-> FALSE, waited |-> TRUE]]
    /\ UNCHANGED <<pcVars, rowVars, op, events>>

\* The HTTP client's timeout: the handler goes on.
TimeOut(s) ==
    /\ req[s].waited
    /\ Event
    /\ req' = [req EXCEPT ![s].waited = FALSE]
    /\ Failed(req[s].dev)
    /\ UNCHANGED <<rowVars, op>>

\* Other rows with the name of the request.
Matches(s) ==
    {r \in there : /\ r # req[s].id
                   /\ req[s].name # NoName /\ name[r] = req[s].name}

\* Mutant: the only row of the name is taken over, heard or not.
TakeableAlive(s) ==
    {r \in Matches(s) : Matches(s) = {r}}

\* byName may be taken over: it is the only one, and its PC is silent.
Takeable(s) ==
    {r \in Matches(s) : Matches(s) = {r} /\ ~alive[r]}

\* The rows of the name are read, and the case is decided.
ReadNames(s) ==
    /\ req[s].at = "names"
    /\ \E r \in IF Takeable(s) = {} THEN {NoRow} ELSE Takeable(s) :
          LET verdict == IF req[s].id # NoRow
                         THEN IF req[s].same \/ r = NoRow THEN "rotate" ELSE "move"
                         ELSE IF r = NoRow THEN "insert" ELSE "replace"
          IN req' = [req EXCEPT ![s].at = verdict, ![s].target = r,
                              ![s].dead = r # NoRow /\ ~alive[r]]
    /\ UNCHANGED <<pcVars, rowVars, op, events>>

Done(s) == req' = [req EXCEPT ![s] = NoRequest]

\* The handler returns a token; who has given up does not get it.  The answer
\* is one step with the write before it: nobody else reads the PC's token.
Answer(s, t) ==
    IF req[s].waited THEN Granted(req[s].dev, t) ELSE UNCHANGED pcVars

\* The handler fails with a 500.
Error(s) ==
    IF req[s].waited THEN Failed(req[s].dev) ELSE UNCHANGED pcVars

\* A reinstall, or nothing is certain: the row found at first gets the token.
\* In the uncertain case the alert that follows fails if the row is gone.
Rotate(s) ==
    /\ req[s].at = "rotate"
    /\ \E t \in Tokens :
          /\ Fresh(t)
          /\ tok' = [r \in Rows |-> IF r = req[s].id /\ r \in there THEN t
                                                                   ELSE tok[r]]
          /\ IF req[s].same \/ req[s].id \in there THEN Answer(s, t) ELSE Error(s)
    /\ Done(s)
    /\ UNCHANGED <<there, name, dev, alive, op, events>>

\* The device leaves its row for the target, in a transaction, which fails if
\* the target is gone or a third row has the device.
Move(s) ==
    /\ req[s].at = "move"
    /\ LET id     == req[s].id
           target == req[s].target
       IN IF target \in there /\ RowsOf(req[s].dev) \subseteq {id, target}
          THEN \E t \in Tokens :
                  /\ Fresh(t)
                  /\ dev' = [[dev EXCEPT ![id] = NoDevice] EXCEPT ![target] = req[s].dev]
                  /\ tok' = [[tok EXCEPT ![id] = NoToken] EXCEPT ![target] = t]
                  /\ Answer(s, t)
          ELSE Error(s) /\ UNCHANGED <<dev, tok>>
    /\ Done(s)
    /\ UNCHANGED <<there, name, alive, op, events>>

\* A new device takes the silent row; if the transaction fails, a row is added.
Replace(s) ==
    /\ req[s].at = "replace"
    /\ LET target == req[s].target
       IN IF target \in there /\ RowsOf(req[s].dev) \subseteq {target}
          THEN /\ \E t \in Tokens :
                     /\ Fresh(t)
                     /\ dev' = [dev EXCEPT ![target] = req[s].dev]
                     /\ tok' = [tok EXCEPT ![target] = t]
                     /\ Answer(s, t)
               /\ Done(s)
          ELSE /\ req' = [req EXCEPT ![s].at = "insert"]
               /\ UNCHANGED <<pcVars, dev, tok>>
    /\ UNCHANGED <<there, name, alive, op, events>>

\* A new customer, unless the device has a row by now.
Add(s) ==
    /\ req[s].at = "insert"
    /\ IF RowsOf(req[s].dev) = {}
       THEN \E r \in Rows, t \in Tokens :
               /\ NewId(r) /\ Fresh(t)
               /\ Insert(r, req[s].name, req[s].dev, t)
               /\ Answer(s, t)
               /\ Done(s)
       ELSE /\ req' = [req EXCEPT ![s].at = "reselect"]
            /\ UNCHANGED <<pcVars, rowVars>>
    /\ UNCHANGED <<op, events>>

\* The other request's row is looked up, to rotate its token.
Reselect(s) ==
    /\ req[s].at = "reselect"
    /\ IF RowsOf(req[s].dev) = {}
       THEN Error(s) /\ Done(s)
       ELSE /\ \E r \in RowsOf(req[s].dev) :
                  req' = [req EXCEPT ![s].at = "rotate", ![s].id = r,
                                     ![s].same = TRUE]
            /\ UNCHANGED <<pcVars>>
    /\ UNCHANGED <<rowVars, op, events>>

Serve(s) ==
    ReadNames(s) \/ Rotate(s) \/ Move(s) \/ Replace(s) \/ Add(s) \/ Reselect(s)

----------------------------------------------------------------------------
(* The operator                                                            *)

Free(d) == d = NoDevice \/ RowsOf(d) = {}

CreateCustomer(n, d) ==
    /\ Event /\ Free(d)
    /\ \E r \in Rows : NewId(r) /\ Insert(r, n, d, NoToken)
    /\ UNCHANGED <<pcVars, req, op>>

\* The form writes the name and the remote id; the token stays.
UpdateCustomer(r, n, d) ==
    /\ Event /\ r \in there
    /\ d = dev[r] \/ Free(d)
    /\ name' = [name EXCEPT ![r] = n]
    /\ dev' = [dev EXCEPT ![r] = d]
    /\ UNCHANGED <<pcVars, there, tok, alive, req, op>>

DeleteCustomer(r) ==
    /\ Event /\ r \in there
    /\ there' = there \ {r}
    /\ name' = [name EXCEPT ![r] = NoName]
    /\ dev' = [dev EXCEPT ![r] = NoDevice]
    /\ tok' = [tok EXCEPT ![r] = NoToken]
    /\ alive' = [alive EXCEPT ![r] = FALSE]
    /\ UNCHANGED <<pcVars, req, op>>

\* moveDeviceToNewCustomer reads the row ...
MoveRead(r, n) ==
    /\ Event /\ op = NoMove
    /\ r \in there /\ dev[r] # NoDevice /\ name[r] # n
    /\ op' = [src |-> r, dev |-> dev[r], tok |-> tok[r], name |-> n]
    /\ UNCHANGED <<pcVars, rowVars, req>>

\* ... and detaches the device from it and adds a row with the device and the
\* token that it read, in a transaction.
MoveCommit ==
    /\ op # NoMove
    /\ IF RowsOf(op.dev) \subseteq {op.src}
       THEN \E r \in Rows :
               /\ NewId(r)
               /\ there' = there \cup {r}
               /\ name' = [name EXCEPT ![r] = op.name]
               /\ dev' = [[dev EXCEPT ![op.src] = NoDevice] EXCEPT ![r] = op.dev]
               /\ tok' = [[tok EXCEPT ![op.src] = NoToken] EXCEPT ![r] = op.tok]
       ELSE UNCHANGED <<there, name, dev, tok>>
    /\ op' = NoMove
    /\ UNCHANGED <<pcVars, alive, req, events>>

----------------------------------------------------------------------------
Next ==
    \/ \E d \in Devices :
          \/ BeatOk(d) \/ BeatRejected(d) \/ RequestLost(d)
          \/ Register(d)
          \/ \E n \in AnyName : Reinstall(d, n)
          \/ \E s \in Slots : Enrol(s, d)
    \/ \E s \in Slots : TimeOut(s) \/ Serve(s)
    \/ \E r \in Rows : Silence(r) \/ DeleteCustomer(r)
    \/ \E n \in Names, d \in Devices \cup {NoDevice} :
          \/ CreateCustomer(n, d)
          \/ \E r \in Rows : UpdateCustomer(r, n, d)
    \/ \E r \in Rows, n \in Names : MoveRead(r, n)
    \/ MoveCommit

Spec == Init /\ [][Next]_vars

\* The heartbeat thread goes on, requests are served.  A PC whose token is right
\* again and again gets a heartbeat through: two PCs with one shop name do not
\* take the row from each other for ever just between the other's enrolment
\* and its heartbeat (less than a second in a round of 10 minutes).
Thread(d) == BeatRejected(d) \/ \E s \in Slots : Enrol(s, d)

Fairness ==
    /\ \A d \in Devices : WF_vars(Thread(d)) /\ SF_vars(BeatOk(d))
    /\ \A s \in Slots : WF_vars(Serve(s))

FairSpec == Spec /\ Fairness

----------------------------------------------------------------------------
(* Properties                                                              *)

HasRow(d) == RowsOf(d) # {}

\* Without the operator a PC drops out of the list only when its row was silent
\* at the moment the enrolment that takes the row looked at it (the safety pin
\* of customers.ts, as far as a read before the transaction can keep it), or
\* when the row was that of the other PC when that PC's request came.
DisplacedWasSilent ==
    [][\A d \in Devices, r \in Rows :
          r \in there /\ dev[r] = d /\ ~HasRow(d)' /\ UNCHANGED <<events, op>>
          => \E s \in Slots :
                \/ dev'[r] = req[s].dev /\ req[s].target = r /\ req[s].dead
                \/ dev'[r] = NoDevice /\ req[s].id = r /\ req[s].dead]_vars

\* The panel hears the PC: its token is the row's, and it has sent a heartbeat.
Heard(d) == \E r \in RowsOf(d) : tok[r] = stored[d] /\ alive[r]

\* A PC with a key is heard again and again, whatever becomes of its row and its
\* token (the self-healing of tick).
Recovers == \A d \in Devices : <>[](d \in keyed) => []<>Heard(d)
=============================================================================
