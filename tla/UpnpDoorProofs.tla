-------------------------- MODULE UpnpDoorProofs ---------------------------
(***************************************************************************)
(* Proofs about the router's door, for any lease and renewal time with the *)
(* renewal before the lease's end, any number of threads and of faults.    *)
(*                                                                         *)
(* Neither safety property is inductive.  ShutInTime needs to know that a  *)
(* thread in the middle of a request has started it no later than the      *)
(* switch went off (WorkIsRecent); RenewedInTime that a mapping that was   *)
(* just made is still whole when its renewer starts to sleep (StillHeld).  *)
(***************************************************************************)
EXTENDS UpnpDoor, TLAPS

WorkIsRecent == \A t \in Threads : thread[t].at \in AtWork => enabled \/ off = 0

StillHeld ==
    \A t \in Threads :
        /\ thread[t].at = "set" => thread[t].slept = 0
        /\ sound /\ thread[t].at \in {"set", "sleep", "renew"}
              => lease + thread[t].slept >= Lease

DoorInv == ShutInTime /\ WorkIsRecent /\ StillHeld

IInv == TypeOK /\ DoorInv

-----------------------------------------------------------------------------
LEMMA Numbers ==
    ASSUME TypeOK
    PROVE  /\ Lease \in Nat /\ Renew \in Nat /\ Renew > 0 /\ Renew < Lease
           /\ lease \in Nat /\ lease <= Lease
           /\ Fresh \in Nat /\ verified \in Nat /\ verified <= Fresh
           /\ off \in Nat /\ off <= Lease + Fresh
           /\ \A t \in Threads : /\ thread[t].slept \in Nat
                                 /\ thread[t].slept <= Renew
  BY TimesAssumption DEF TypeOK, ThreadStates

LEMMA GoTo ==
    ASSUME TypeOK, NEW t \in Threads, NEW pc \in AtWork \cup {"none", "sleep"},
           Go(t, pc)
    PROVE  /\ thread' \in [Threads -> ThreadStates]
           /\ thread'[t] = [at |-> pc, slept |-> 0]
           /\ \A u \in Threads \ {t} : thread'[u] = thread[u]
  <1>1. [at |-> pc, slept |-> 0] \in ThreadStates
    BY TimesAssumption DEF ThreadStates
  <1> QED BY <1>1 DEF Go, TypeOK

LEMMA FaultType == ASSUME TypeOK, Fault PROVE faults' \in 0..MaxFaults
  BY BoundsAssumption DEF TypeOK, Fault

LEMMA InitInv == Init => IInv
  <1> SUFFICES ASSUME Init PROVE IInv
    OBVIOUS
  <1>1. NoThread \in ThreadStates /\ NoThread.at = "none" /\ NoThread.slept = 0
    BY TimesAssumption DEF NoThread, ThreadStates
  <1>2. thread \in [Threads -> ThreadStates]
        /\ \A t \in Threads : thread[t] = NoThread
    BY <1>1 DEF Init
  <1>3. /\ lease \in 0..Lease /\ off \in 0..(Lease + Fresh) /\ verified \in 0..Fresh
        /\ gap \in 0..Gap /\ switches \in 0..MaxSwitches /\ faults \in 0..MaxFaults
    BY TimesAssumption, BoundsAssumption DEF Init
  <1>4. beat \in [at: {"none", "sent", "recorded", "answered"}, on: BOOLEAN]
    BY DEF Init, NoBeat
  <1>5. TypeOK
    BY <1>2, <1>3, <1>4 DEF Init, TypeOK
  <1>6. DoorInv
    BY <1>1, <1>2, TimesAssumption
       DEF Init, DoorInv, ShutInTime, WorkIsRecent, StillHeld, AtWork
  <1> QED BY <1>5, <1>6 DEF IInv

-----------------------------------------------------------------------------
(* Steps of the threads *)

LEMMA ThreadKeeps ==
    ASSUME IInv, NEW t \in Threads, ThreadStep(t)
    PROVE  IInv'
  <1> USE DEF IInv
  <1>0. /\ Lease \in Nat /\ Renew \in Nat /\ lease \in Nat /\ lease <= Lease
        /\ \A u \in Threads : thread[u].slept \in Nat
        /\ off \in Nat
    BY Numbers
  <1>1. ASSUME Begin(t)
        PROVE  IInv'
    <2>1. PICK pc \in {"none", "ask"} : Go(t, pc)
      BY <1>1 DEF Begin
    <2>2. /\ thread' \in [Threads -> ThreadStates]
          /\ thread'[t] = [at |-> pc, slept |-> 0]
          /\ \A u \in Threads \ {t} : thread'[u] = thread[u]
      BY <2>1, GoTo DEF AtWork
    <2>3. TypeOK'
      BY <1>1, <2>2 DEF TypeOK, Begin, panelVars, bounds
    <2>4. UNCHANGED <<enabled, lease, off, sound>> /\ thread[t].at \in AtWork
      BY <1>1 DEF Begin, AtWork
    <2>5. DoorInv'
      BY <1>0, <2>2, <2>4 DEF DoorInv, ShutInTime, WorkIsRecent, StillHeld, AtWork
    <2> QED BY <2>3, <2>5
  <1>2. ASSUME Ask(t)
        PROVE  IInv'
    <2>1. PICK pc \in {"none", "map"} : Go(t, pc)
      BY <1>2 DEF Ask
    <2>2. /\ thread' \in [Threads -> ThreadStates]
          /\ thread'[t] = [at |-> pc, slept |-> 0]
          /\ \A u \in Threads \ {t} : thread'[u] = thread[u]
      BY <2>1, GoTo DEF AtWork
    <2>3. opened' \in BOOLEAN /\ faults' \in 0..MaxFaults
      BY <1>2, FaultType DEF Ask, TypeOK
    <2>4. TypeOK'
      BY <1>2, <2>2, <2>3 DEF TypeOK, Ask, panelVars
    <2>5. UNCHANGED <<enabled, lease, off, sound>> /\ thread[t].at \in AtWork
      BY <1>2 DEF Ask, AtWork
    <2>6. DoorInv'
      BY <1>0, <2>2, <2>5 DEF DoorInv, ShutInTime, WorkIsRecent, StillHeld, AtWork
    <2> QED BY <2>4, <2>6
  <1>3. ASSUME Map(t) \/ RenewLease(t)
        PROVE  IInv'
    <2>1. PICK pc \in {"none", "set", "sleep"}, got \in BOOLEAN :
             Go(t, pc) /\ AddMapping(got) /\ (pc = "set" => got)
      BY <1>3 DEF Map, RenewLease
    <2>2. /\ thread' \in [Threads -> ThreadStates]
          /\ thread'[t] = [at |-> pc, slept |-> 0]
          /\ \A u \in Threads \ {t} : thread'[u] = thread[u]
      BY <2>1, GoTo DEF AtWork
    <2>3. lease' \in 0..Lease /\ sound' \in BOOLEAN
      BY <1>0, <2>1 DEF AddMapping, TypeOK
    <2>4. opened' \in BOOLEAN /\ faults' \in 0..MaxFaults
      BY <1>3, FaultType DEF Map, RenewLease, TypeOK
    <2>5. TypeOK'
      BY <1>3, <2>2, <2>3, <2>4 DEF TypeOK, Map, RenewLease, panelVars
    <2>6. UNCHANGED <<enabled, off>> /\ thread[t].at \in AtWork
      BY <1>3 DEF Map, RenewLease, AtWork
    <2>7. ShutInTime'
      <3>1. enabled \/ off = 0
        BY <2>6 DEF DoorInv, WorkIsRecent
      <3>2. lease' \in Nat /\ lease' <= Lease
        BY <1>0, <2>3
      <3>3. off = 0 => lease' + off <= Lease
        BY <3>2
      <3>4. ~enabled => lease' + off <= Lease
        BY <3>1, <3>3, Zenon
      <3> QED BY <2>6, <3>4 DEF ShutInTime
    <2>8. WorkIsRecent'
      BY <2>2, <2>6 DEF DoorInv, WorkIsRecent
    <2>9. StillHeld'
      <3>1. sound' => lease' = Lease
        BY <2>1 DEF AddMapping
      <3>2. \A u \in Threads : thread'[u].slept \in Nat
        BY <1>0, <2>2
      <3>3. \A u \in Threads : thread'[u].at = "set" => thread'[u].slept = 0
        BY <2>2 DEF DoorInv, StillHeld
      <3> QED BY <1>0, <3>1, <3>2, <3>3 DEF StillHeld
    <2> QED BY <2>5, <2>7, <2>8, <2>9 DEF DoorInv
  <1>4. ASSUME SetEndpoint(t)
        PROVE  IInv'
    <2>1. /\ thread' \in [Threads -> ThreadStates]
          /\ thread'[t] = [at |-> "sleep", slept |-> 0]
          /\ \A u \in Threads \ {t} : thread'[u] = thread[u]
      BY <1>4, GoTo DEF AtWork, SetEndpoint
    <2>2. TypeOK'
      BY <1>4, <2>1 DEF TypeOK, SetEndpoint, panelVars, bounds
    <2>3. UNCHANGED <<enabled, lease, off, sound>> /\ thread[t].at = "set"
      BY <1>4 DEF SetEndpoint
    <2>4. ShutInTime' /\ WorkIsRecent'
      BY <2>1, <2>3 DEF DoorInv, ShutInTime, WorkIsRecent, AtWork
    <2>5. sound => lease + 0 >= Lease
      <3>1. thread[t].slept = 0
        BY <2>3 DEF DoorInv, StillHeld
      <3> QED BY <2>3, <3>1 DEF DoorInv, StillHeld
    <2>6. StillHeld'
      BY <2>1, <2>3, <2>5 DEF DoorInv, StillHeld
    <2> QED BY <2>2, <2>4, <2>6 DEF DoorInv
  <1>5. ASSUME Wake(t)
        PROVE  IInv'
    <2> DEFINE w == IF enabled THEN [thread[t] EXCEPT !.at = "renew"] ELSE NoThread
    <2>1. thread[t] \in ThreadStates /\ thread[t].at = "sleep"
      BY <1>5 DEF Wake, TypeOK
    <2>2. /\ w \in ThreadStates
          /\ enabled => w.at = "renew" /\ w.slept = thread[t].slept
          /\ ~enabled => w.at = "none" /\ w.slept = 0
      BY <2>1, TimesAssumption DEF ThreadStates, NoThread, AtWork
    <2>3. thread' = [thread EXCEPT ![t] = w]
      BY <1>5 DEF Wake
    <2> HIDE DEF w
    <2>4. /\ thread' \in [Threads -> ThreadStates]
          /\ thread'[t] = w
          /\ \A u \in Threads \ {t} : thread'[u] = thread[u]
      BY <2>2, <2>3 DEF TypeOK
    <2>5. TypeOK'
      BY <1>5, <2>4 DEF TypeOK, Wake, panelVars, bounds
    <2>6. UNCHANGED <<enabled, lease, off, sound>>
      BY <1>5 DEF Wake
    <2>7. enabled \in BOOLEAN
      BY DEF TypeOK
    <2>8. ShutInTime' /\ WorkIsRecent'
      BY <2>2, <2>4, <2>6, <2>7 DEF DoorInv, ShutInTime, WorkIsRecent, AtWork
    <2>9. StillHeld'
      BY <2>1, <2>2, <2>4, <2>6, <2>7 DEF DoorInv, StillHeld
    <2> QED BY <2>5, <2>8, <2>9 DEF DoorInv
  <1> QED BY <1>1, <1>2, <1>3, <1>4, <1>5 DEF ThreadStep

-----------------------------------------------------------------------------
(* The switch on the PC *)

LEMMA SwitchKeeps ==
    ASSUME IInv, NEW on \in BOOLEAN, NEW t \in Threads, SetEnabled(on, t),
           UNCHANGED <<lease, sound>>
    PROVE  /\ DoorInv'
           /\ enabled' \in BOOLEAN /\ opened' \in BOOLEAN
           /\ endpoint' \in BOOLEAN /\ direct' \in BOOLEAN
           /\ thread' \in [Threads -> ThreadStates]
           /\ off' \in 0..(Lease + Fresh)
  <1> USE DEF IInv
  <1>0. Lease \in Nat /\ Fresh \in Nat /\ lease \in Nat /\ lease <= Lease /\ off \in Nat
    BY Numbers
  <1>1. CASE on = enabled
    <2>1. UNCHANGED <<enabled, opened, endpoint, direct, thread, off>>
      BY <1>1 DEF SetEnabled
    <2>2. DoorInv'
      BY <2>1 DEF DoorInv, ShutInTime, WorkIsRecent, StillHeld
    <2> QED BY <2>1, <2>2 DEF TypeOK
  <1>2. CASE on # enabled /\ on = TRUE
    <2>1. /\ enabled' = TRUE /\ direct' = TRUE
          /\ UNCHANGED <<opened, endpoint, off>>
          /\ Go(t, "begin")
      BY <1>2 DEF SetEnabled
    <2>2. /\ thread' \in [Threads -> ThreadStates]
          /\ thread'[t] = [at |-> "begin", slept |-> 0]
          /\ \A u \in Threads \ {t} : thread'[u] = thread[u]
      BY <2>1, GoTo DEF AtWork
    <2>3. ShutInTime' /\ WorkIsRecent'
      BY <2>1 DEF ShutInTime, WorkIsRecent
    <2>4. StillHeld'
      BY <2>2 DEF DoorInv, StillHeld
    <2> QED BY <2>1, <2>2, <2>3, <2>4 DEF TypeOK, DoorInv
  <1>3. CASE on # enabled /\ on = FALSE
    <2>1. /\ enabled' = FALSE /\ direct' = FALSE /\ opened' = FALSE
          /\ endpoint' = FALSE /\ off' = 0
          /\ UNCHANGED thread
      BY <1>3 DEF SetEnabled
    <2>2. ShutInTime'
      BY <1>0, <2>1 DEF ShutInTime
    <2>3. WorkIsRecent' /\ StillHeld'
      BY <2>1 DEF DoorInv, WorkIsRecent, StillHeld
    <2>4. off' \in 0..(Lease + Fresh)
      BY <1>0, <2>1
    <2> QED BY <2>1, <2>2, <2>3, <2>4 DEF TypeOK, DoorInv
  <1> QED BY <1>1, <1>2, <1>3

\* Steps of the heartbeat, the panel and the probe that leave the door alone.
LEMMA AsidesKeep ==
    ASSUME DoorInv, UNCHANGED <<enabled, thread, lease, off, sound>>
    PROVE  DoorInv'
  BY DEF DoorInv, ShutInTime, WorkIsRecent, StillHeld

LEMMA BeatKeeps ==
    ASSUME IInv, BeatStep
    PROVE  IInv'
  <1> USE DEF IInv
  <1>1. CASE BeatSend \/ BeatRecord \/ BeatAnswer \/ BeatLost
    <2>1. DoorInv'
      BY <1>1, AsidesKeep DEF BeatSend, BeatRecord, BeatAnswer, BeatLost, agentVars
    <2>2. beat' \in [at: {"none", "sent", "recorded", "answered"}, on: BOOLEAN]
      <3> DEFINE ats == {"none", "sent", "recorded", "answered"}
      <3>1. PICK a \in ats, b \in BOOLEAN : beat' = [at |-> a, on |-> b]
        BY <1>1 DEF BeatSend, BeatRecord, BeatAnswer, BeatLost, TypeOK, NoBeat
      <3> QED BY <3>1
    <2>3. addr' \in BOOLEAN
      BY <1>1 DEF BeatSend, BeatRecord, BeatAnswer, BeatLost, TypeOK, panelVars
    <2>4. knock' \in {"none", "due", "mark", "knock", "open", "closed"}
      BY <1>1 DEF BeatSend, BeatRecord, BeatAnswer, BeatLost, TypeOK
    <2>5. UNCHANGED <<agentVars, lease, want, verified, gap, off, sound, bounds>>
      BY <1>1 DEF BeatSend, BeatRecord, BeatAnswer, BeatLost, panelVars
    <2>6. TypeOK'
      BY <2>2, <2>3, <2>4, <2>5 DEF TypeOK, agentVars, bounds
    <2> QED BY <2>1, <2>6
  <1>2. CASE BeatApply \/ BeatUnreadable
    <2>1. PICK on \in BOOLEAN, t \in Threads : SetEnabled(on, t)
      <3>1. beat.on \in BOOLEAN
        BY DEF TypeOK
      <3> QED BY <1>2, <3>1 DEF BeatApply, BeatUnreadable
    <2>2. /\ UNCHANGED <<lease, panelVars, knock, sound, switches>>
          /\ beat' = NoBeat
          /\ faults' \in 0..MaxFaults
      BY <1>2, FaultType DEF BeatApply, BeatUnreadable, bounds, TypeOK
    <2>3. /\ DoorInv'
          /\ enabled' \in BOOLEAN /\ opened' \in BOOLEAN
          /\ endpoint' \in BOOLEAN /\ direct' \in BOOLEAN
          /\ thread' \in [Threads -> ThreadStates]
          /\ off' \in 0..(Lease + Fresh)
      BY <2>1, <2>2, SwitchKeeps
    <2>4. beat' \in [at: {"none", "sent", "recorded", "answered"}, on: BOOLEAN]
      BY <2>2 DEF NoBeat
    <2>5. TypeOK'
      BY <2>2, <2>3, <2>4 DEF TypeOK, panelVars
    <2> QED BY <2>3, <2>5
  <1> QED BY <1>1, <1>2 DEF BeatStep

LEMMA PanelKeeps ==
    ASSUME IInv, ProbeStep \/ SetUpnpEnabled
    PROVE  IInv'
  <1> USE DEF IInv
  <1>1. UNCHANGED <<agentVars, lease, beat, off, sound, faults>>
    BY DEF ProbeStep, ProbeSelect, ProbeMark, Knock, ProbeWrite, SetUpnpEnabled,
           bounds
  <1>2. DoorInv'
    BY <1>1, AsidesKeep DEF agentVars
  <1>3. knock' \in {"none", "due", "mark", "knock", "open", "closed"}
    BY DEF ProbeStep, ProbeSelect, ProbeMark, Knock, ProbeWrite, SetUpnpEnabled,
           TypeOK
  <1>4. verified' \in 0..Fresh /\ gap' \in 0..Gap
    BY TimesAssumption DEF ProbeStep, ProbeSelect, ProbeMark, Knock, ProbeWrite,
           SetUpnpEnabled, TypeOK, panelVars
  <1>5. switches' \in 0..MaxSwitches
    BY BoundsAssumption DEF ProbeStep, ProbeSelect, ProbeMark, Knock, ProbeWrite,
           SetUpnpEnabled, TypeOK, bounds
  <1>6. want' \in BOOLEAN /\ addr' \in BOOLEAN
    <2>1. CASE SetUpnpEnabled
      BY <2>1 DEF SetUpnpEnabled, TypeOK
    <2>2. CASE ProbeStep
      BY <2>2 DEF ProbeStep, ProbeSelect, ProbeMark, Knock, ProbeWrite, TypeOK,
                  panelVars
    <2> QED BY <2>1, <2>2
  <1>7. TypeOK'
    BY <1>1, <1>3, <1>4, <1>5, <1>6 DEF TypeOK, agentVars
  <1> QED BY <1>2, <1>7

-----------------------------------------------------------------------------
(* Time and reboots *)

LEMMA LessType ==
    ASSUME NEW m \in Nat, NEW n \in 0..m
    PROVE  Less(n) \in 0..m
  BY DEF Less

LEMMA TickKeeps ==
    ASSUME IInv, Tick
    PROVE  IInv'
  <1> USE DEF IInv
  <1>0. /\ Lease \in Nat /\ Renew \in Nat /\ Renew < Lease
        /\ lease \in Nat /\ lease <= Lease
        /\ Fresh \in Nat /\ off \in Nat /\ off <= Lease + Fresh
        /\ \A t \in Threads : thread[t].slept \in Nat
    BY Numbers
  <1>1. lease' \in 0..Lease /\ verified' \in 0..Fresh /\ gap' \in 0..Gap
    BY LessType, TimesAssumption DEF Tick, Age, TypeOK
  <1>2. off' \in 0..(Lease + Fresh)
    BY <1>0 DEF Tick, TypeOK
  <1>3. \A t \in Threads :
           IF thread[t].at = "sleep"
           THEN /\ thread'[t] \in ThreadStates
                /\ thread'[t].at = "sleep"
                /\ thread'[t].slept = thread[t].slept + 1
                /\ thread[t].slept < Renew
           ELSE thread'[t] = thread[t] /\ thread'[t] \in ThreadStates
    <2> SUFFICES ASSUME NEW t \in Threads
                 PROVE  IF thread[t].at = "sleep"
                        THEN /\ thread'[t] \in ThreadStates
                             /\ thread'[t].at = "sleep"
                             /\ thread'[t].slept = thread[t].slept + 1
                             /\ thread[t].slept < Renew
                        ELSE thread'[t] = thread[t] /\ thread'[t] \in ThreadStates
      OBVIOUS
    <2>1. thread[t] \in ThreadStates
      BY DEF TypeOK
    <2>2. CASE thread[t].at = "sleep"
      <3>1. thread'[t] = [thread[t] EXCEPT !.slept = @ + 1]
            /\ thread[t].slept < Renew
        BY <2>2 DEF Tick
      <3> QED BY <1>0, <2>1, <2>2, <3>1 DEF ThreadStates
    <2>3. CASE thread[t].at # "sleep"
      BY <2>1, <2>3 DEF Tick
    <2> QED BY <2>2, <2>3
  <1>4. thread' \in [Threads -> ThreadStates]
    <2>1. thread' = [t \in Threads |-> thread'[t]]
      BY DEF Tick
    <2> QED BY <1>3, <2>1
  <1>5. TypeOK'
    BY <1>1, <1>2, <1>4 DEF TypeOK, Tick, bounds
  <1>6. \A t \in Threads : thread[t].at \notin AtWork
    BY DEF Tick
  <1>7. WorkIsRecent'
    BY <1>3, <1>6 DEF WorkIsRecent, AtWork
  <1>8. ShutInTime'
    <2>1. enabled' = enabled /\ lease' = Less(lease)
      BY DEF Tick
    <2>2. CASE ~enabled
      <3>1. lease > 0 => lease + off <= Lease
        BY <2>2 DEF DoorInv, ShutInTime
      <3>2. off' = IF off < Lease + Fresh THEN off + 1 ELSE off
        BY <2>2 DEF Tick
      <3> QED BY <1>0, <2>1, <3>1, <3>2 DEF ShutInTime, Less
    <2>3. CASE enabled
      BY <2>1, <2>3 DEF ShutInTime
    <2> QED BY <2>2, <2>3
  <1>9. StillHeld'
    <2> SUFFICES ASSUME NEW t \in Threads
                 PROVE  /\ thread'[t].at = "set" => thread'[t].slept = 0
                        /\ sound' /\ thread'[t].at \in {"set", "sleep", "renew"}
                              => lease' + thread'[t].slept >= Lease
      BY DEF StillHeld
    <2>1. CASE thread[t].at = "sleep"
      <3>1. /\ thread'[t].at = "sleep"
            /\ thread'[t].slept = thread[t].slept + 1
            /\ thread[t].slept < Renew
        BY <1>3, <2>1
      <3>2. sound' = sound /\ lease' = Less(lease)
        BY DEF Tick
      <3>3. sound => lease + thread[t].slept >= Lease
        BY <2>1 DEF DoorInv, StillHeld
      <3> QED BY <1>0, <3>1, <3>2, <3>3 DEF Less
    <2>2. CASE thread[t].at # "sleep"
      BY <1>3, <1>6, <2>2 DEF AtWork
    <2> QED BY <2>1, <2>2
  <1> QED BY <1>5, <1>7, <1>8, <1>9 DEF DoorInv

LEMMA RebootKeeps ==
    ASSUME IInv, AgentReboots \/ RouterReboots
    PROVE  IInv'
  <1> USE DEF IInv
  <1>0. Lease \in Nat /\ lease \in Nat /\ lease <= Lease /\ off \in Nat
        /\ Fresh \in Nat /\ off <= Lease + Fresh
    BY Numbers
  <1>1. faults' \in 0..MaxFaults
    BY FaultType DEF AgentReboots, RouterReboots
  <1>2. CASE AgentReboots
    <2>1. NoThread \in ThreadStates /\ NoThread.at = "none"
      BY TimesAssumption DEF NoThread, ThreadStates
    <2>2. thread' \in [Threads -> ThreadStates]
          /\ \A t \in Threads : thread'[t].at = "none"
      BY <1>2, <2>1 DEF AgentReboots
    <2>3. beat' \in [at: {"none", "sent", "recorded", "answered"}, on: BOOLEAN]
      BY <1>2 DEF AgentReboots, NoBeat
    <2>4. off' \in 0..(Lease + Fresh)
      BY <1>0, <1>2 DEF AgentReboots, TypeOK
    <2>5. TypeOK'
      BY <1>1, <1>2, <2>2, <2>3, <2>4 DEF TypeOK, AgentReboots, panelVars
    <2>6. ShutInTime'
      <3>1. lease' = lease /\ off' = IF enabled THEN 0 ELSE off
        BY <1>2 DEF AgentReboots
      <3>2. ~enabled /\ lease > 0 => lease + off <= Lease
        BY DEF DoorInv, ShutInTime
      <3> QED BY <1>0, <3>1, <3>2 DEF ShutInTime
    <2>7. WorkIsRecent' /\ StillHeld'
      BY <2>2 DEF WorkIsRecent, StillHeld, AtWork
    <2> QED BY <2>5, <2>6, <2>7 DEF DoorInv
  <1>3. CASE RouterReboots
    <2>1. lease' \in 0..Lease
      BY <1>0, <1>3 DEF RouterReboots
    <2>2. TypeOK'
      BY <1>1, <1>3, <2>1 DEF TypeOK, RouterReboots, agentVars, panelVars
    <2>3. /\ lease' = 0 /\ sound' = FALSE
          /\ UNCHANGED <<enabled, thread, off>>
      BY <1>3 DEF RouterReboots, agentVars
    <2>4. ShutInTime'
      BY <1>0, <2>3 DEF ShutInTime
    <2>5. WorkIsRecent' /\ StillHeld'
      BY <2>3 DEF DoorInv, WorkIsRecent, StillHeld
    <2> QED BY <2>2, <2>4, <2>5 DEF DoorInv
  <1> QED BY <1>2, <1>3

LEMMA InvStep == IInv /\ [Next]_vars => IInv'
  <1> SUFFICES ASSUME IInv, [Next]_vars
               PROVE  IInv'
    OBVIOUS
  <1>1. CASE UNCHANGED vars
    BY <1>1 DEF vars, agentVars, panelVars, bounds, IInv, TypeOK, DoorInv,
                ShutInTime, WorkIsRecent, StillHeld
  <1> QED BY <1>1, ThreadKeeps, BeatKeeps, PanelKeeps, TickKeeps, RebootKeeps
          DEF Next

LEMMA InvHolds == Spec => []IInv
  BY InitInv, InvStep, PTL DEF Spec

-----------------------------------------------------------------------------
(* How long HQ is given the address.  A knock under way carries its verdict past
   the moment the switch goes off; that the mapping was there when it was
   answered bounds how long ago that can be. *)

AnswerIsRecent == knock = "open" => enabled \/ off <= Lease

AddressInv == AddressExpires /\ AnswerIsRecent

LEMMA AddressInit == Init => AddressInv
  BY TimesAssumption DEF Init, AddressInv, AddressExpires, AnswerIsRecent

LEMMA AddressStep == IInv /\ AddressInv /\ [Next]_vars => AddressInv'
  <1> SUFFICES ASSUME IInv, AddressInv, [Next]_vars
               PROVE  AddressInv'
    OBVIOUS
  <1>0. /\ Lease \in Nat /\ Fresh \in Nat /\ lease \in Nat
        /\ verified \in Nat /\ verified <= Fresh
        /\ off \in Nat /\ off <= Lease + Fresh
    BY Numbers DEF IInv
  \* Nothing grows younger.
  <1>1. ASSUME UNCHANGED <<enabled, off>>,
               verified' \in {verified, 0}, knock' # "open" \/ knock' = knock
        PROVE  AddressInv'
    <2>1. ~enabled => verified' + off <= Lease + Fresh
      <3>1. CASE verified' = verified
        BY <3>1 DEF AddressInv, AddressExpires
      <3>2. CASE verified' = 0
        BY <1>0, <3>2
      <3> QED BY <1>1, <3>1, <3>2
    <2> QED BY <1>1, <2>1 DEF AddressInv, AddressExpires, AnswerIsRecent
  \* The switch goes on, or off this moment.
  <1>2. ASSUME enabled' \/ off' = 0, UNCHANGED verified
        PROVE  AddressInv'
    <2>1. off' = 0 => verified + off' <= Lease + Fresh /\ off' <= Lease
      BY <1>0
    <2>2. enabled' \/ (verified + off' <= Lease + Fresh /\ off' <= Lease)
      BY <1>2, <2>1, Zenon
    <2> QED BY <1>2, <2>2 DEF AddressInv, AddressExpires, AnswerIsRecent
  <1>3. CASE \E t \in Threads : ThreadStep(t)
    BY <1>1, <1>3 DEF ThreadStep, Begin, Ask, Map, SetEndpoint, Wake, RenewLease,
                      panelVars
  <1>4. CASE BeatSend \/ BeatRecord \/ BeatAnswer \/ BeatLost \/ RouterReboots
             \/ UNCHANGED vars
    BY <1>1, <1>4 DEF BeatSend, BeatRecord, BeatAnswer, BeatLost, RouterReboots,
                      agentVars, panelVars, vars
  <1>5. CASE BeatApply \/ BeatUnreadable
    <2>1. PICK on \in BOOLEAN, t \in Threads : SetEnabled(on, t)
      <3>1. beat.on \in BOOLEAN
        BY DEF IInv, TypeOK
      <3> QED BY <1>5, <3>1 DEF BeatApply, BeatUnreadable
    <2>2. UNCHANGED <<verified, knock>>
      BY <1>5 DEF BeatApply, BeatUnreadable, panelVars
    <2>3. CASE on = enabled
      BY <1>1, <2>1, <2>2, <2>3 DEF SetEnabled
    <2>4. CASE on # enabled
      BY <1>2, <2>1, <2>2, <2>4 DEF SetEnabled
    <2> QED BY <2>3, <2>4
  <1>6. CASE ProbeSelect \/ ProbeMark \/ SetUpnpEnabled
    BY <1>1, <1>6 DEF ProbeSelect, ProbeMark, SetUpnpEnabled, agentVars, panelVars
  <1>7. CASE Knock
    <2>1. UNCHANGED <<enabled, off, verified>>
          /\ (knock' = "open" => lease > 0)
      BY <1>7 DEF Knock, agentVars, panelVars
    <2>2. lease > 0 => enabled \/ off <= Lease
      BY <1>0 DEF IInv, DoorInv, ShutInTime
    <2> QED BY <2>1, <2>2 DEF AddressInv, AddressExpires, AnswerIsRecent
  <1>8. CASE ProbeWrite
    <2>1. /\ UNCHANGED <<enabled, off>> /\ knock' = "none"
          /\ verified' = IF knock = "open" THEN Fresh ELSE 0
      BY <1>8 DEF ProbeWrite, agentVars
    <2>2. CASE knock = "open"
      <3>1. ~enabled => Fresh + off <= Lease + Fresh
        BY <1>0, <2>2 DEF AddressInv, AnswerIsRecent
      <3> QED BY <2>1, <2>2, <3>1 DEF AddressInv, AddressExpires, AnswerIsRecent
    <2>3. CASE knock # "open"
      BY <1>1, <2>1, <2>3
    <2> QED BY <2>2, <2>3
  <1>9. CASE Tick
    <2>1. /\ UNCHANGED <<enabled, knock>> /\ knock # "open"
          /\ verified' = Less(verified)
          /\ off' = IF ~enabled /\ off < Lease + Fresh THEN off + 1 ELSE off
      BY <1>9 DEF Tick, Age
    <2>2. ~enabled => verified + off <= Lease + Fresh
      BY DEF AddressInv, AddressExpires
    <2>3. ~enabled => verified' + off' <= Lease + Fresh
      BY <1>0, <2>1, <2>2 DEF Less
    <2> QED BY <2>1, <2>3 DEF AddressInv, AddressExpires, AnswerIsRecent
  <1>10. CASE AgentReboots
    <2>1. CASE enabled
      BY <1>2, <1>10, <2>1 DEF AgentReboots, panelVars
    <2>2. CASE ~enabled
      BY <1>10, <2>2 DEF AgentReboots, panelVars, AddressInv, AddressExpires,
                        AnswerIsRecent
    <2> QED BY <2>1, <2>2
  <1> QED BY <1>3, <1>4, <1>5, <1>6, <1>7, <1>8, <1>9, <1>10
          DEF Next, BeatStep, ProbeStep

LEMMA AddressHolds == Spec => []AddressInv
  BY InvHolds, AddressInit, AddressStep, PTL DEF Spec

-----------------------------------------------------------------------------
(* Types are kept; in particular the router never grants more than one lease
   and no renewer oversleeps (AddPortMapping's NewLeaseDuration, RENEW_SECS). *)
THEOREM TypeCorrect == Spec => []TypeOK
  BY InvHolds, PTL DEF IInv

(* One lease after ENABLED became false or the agent died there is no hole left
   in the router (set_enabled, spawn_renew, open_async). *)
THEOREM DoorShuts == Spec => []ShutInTime
  <1>1. IInv => ShutInTime
    BY DEF IInv, DoorInv
  <1> QED BY <1>1, InvHolds, PTL

(* While a renewer lives and the router's last answer stands the door is open,
   for every lease longer than the renewal time (spawn_renew). *)
THEOREM DoorHolds == Spec => []RenewedInTime
  <1>1. IInv => RenewedInTime
    <2> SUFFICES ASSUME IInv, NEW t \in Threads, sound,
                        thread[t].at \in {"sleep", "renew"}
                 PROVE  lease > 0 /\ lease + thread[t].slept >= Lease
      BY DEF RenewedInTime
    <2>1. /\ Lease \in Nat /\ Renew \in Nat /\ Renew < Lease /\ lease \in Nat
          /\ thread[t].slept \in Nat /\ thread[t].slept <= Renew
      BY Numbers DEF IInv
    <2>2. lease + thread[t].slept >= Lease
      BY DEF IInv, DoorInv, StillHeld
    <2> QED BY <2>1, <2>2
  <1> QED BY <1>1, InvHolds, PTL

(* One lease and DOOR_FRESH_MS after ENABLED became false or the agent died, the
   panel gives no HQ the address, whatever was under way (probeUpnpDoor,
   doorIsOpen, set_enabled), for any lease, freshness and number of faults. *)
THEOREM DoorForgotten == Spec => [](~enabled /\ off = Lease + Fresh => ~DoorIsOpen)
                                 /\ []AddressExpires
  <1>1. AddressInv => AddressExpires
    BY DEF AddressInv
  <1>2. IInv /\ AddressInv => (~enabled /\ off = Lease + Fresh => ~DoorIsOpen)
    <2> SUFFICES ASSUME IInv, AddressInv, ~enabled, off = Lease + Fresh
                 PROVE  ~(verified > 0)
      BY DEF DoorIsOpen
    <2>1. Lease \in Nat /\ Fresh \in Nat /\ verified \in Nat
      BY Numbers DEF IInv
    <2> QED BY <2>1 DEF AddressInv, AddressExpires
  <1> QED BY <1>1, <1>2, InvHolds, AddressHolds, PTL
=============================================================================
