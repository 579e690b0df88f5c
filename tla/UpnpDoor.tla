----------------------------- MODULE UpnpDoor ------------------------------
(***************************************************************************)
(* The door in the customer's router: a port mapping that the agent opens  *)
(* by UPnP while the panel's switch for the customer is on, and that the   *)
(* panel knocks at from outside before it gives the address to HQ.         *)
(*                                                                         *)
(* Agent: src/chainremote_upnp.rs (ENABLED, OPENED, ENDPOINT, the opener   *)
(* and the renewer thread), its use in chainremote_heartbeat.rs and the    *)
(* listener option of rendezvous_mediator.rs.  Panel: the switch and the   *)
(* columns upnp_* in lib/data/customers.ts, lib/data/upnp-probe.ts.        *)
(*                                                                         *)
(* A unit of time is half an hour.  Requests take seconds, so time does    *)
(* not pass while one is under way.  An address is there or not.           *)
(***************************************************************************)
EXTENDS Naturals

CONSTANTS
    Threads,     \* places for opener and renewer threads
    Lease,       \* LEASE_SECS, in half hours (2)
    Renew,       \* RENEW_SECS (1)
    Gap,         \* PROBE_EVERY_MS (2)
    Fresh,       \* DOOR_FRESH_MS (12)
    MaxSwitches, \* bound: presses of the switch
    MaxFaults    \* bound: refused or lost router requests, unreadable answers,
                 \* reboots of the PC or the router

ASSUME TimesAssumption ==
    /\ Lease \in Nat /\ Renew \in Nat \ {0} /\ Renew < Lease
    /\ Gap \in Nat /\ Fresh \in Nat
ASSUME BoundsAssumption ==
    MaxSwitches \in Nat /\ MaxFaults \in Nat

VARIABLES
    enabled,   \* ENABLED
    opened,    \* OPENED
    endpoint,  \* ENDPOINT is set
    direct,    \* OPTION_DIRECT_SERVER: the listener of the --server process
    thread,    \* opener and renewer threads
    lease,     \* what is left of the router's mapping
    beat,      \* the heartbeat under way
    want,      \* customers.upnp_enabled
    addr,      \* customers.upnp_endpoint is set
    verified,  \* how long upnp_verified_at stays fresh
    gap,       \* how long upnp_probe_at forbids another knock
    knock,     \* probeUpnpDoor under way
    off,       \* history: half hours since ENABLED became false (capped)
    sound,     \* history: the last request to the router worked, and it stands
    switches, faults

agentVars == <<enabled, opened, endpoint, direct, thread>>
panelVars == <<want, addr, verified, gap>>
bounds    == <<switches, faults>>
vars == <<agentVars, lease, beat, panelVars, knock, off, sound, bounds>>

NoThread == [at |-> "none", slept |-> 0]
AtWork   == {"begin", "ask", "map", "set", "renew"}
ThreadStates == [at: AtWork \cup {"none", "sleep"}, slept: 0..Renew]

NoBeat == [at |-> "none", on |-> FALSE]

TypeOK ==
    /\ enabled \in BOOLEAN /\ opened \in BOOLEAN /\ endpoint \in BOOLEAN
    /\ direct \in BOOLEAN
    /\ thread \in [Threads -> ThreadStates]
    /\ lease \in 0..Lease
    /\ beat \in [at: {"none", "sent", "recorded", "answered"}, on: BOOLEAN]
    /\ want \in BOOLEAN /\ addr \in BOOLEAN
    /\ verified \in 0..Fresh /\ gap \in 0..Gap
    /\ knock \in {"none", "due", "mark", "knock", "open", "closed"}
    /\ off \in 0..(Lease + Fresh)
    /\ sound \in BOOLEAN
    /\ switches \in 0..MaxSwitches /\ faults \in 0..MaxFaults

Init ==
    /\ enabled = FALSE /\ opened = FALSE /\ endpoint = FALSE /\ direct = FALSE
    /\ thread = [t \in Threads |-> NoThread]
    /\ lease = 0
    /\ beat = NoBeat
    /\ want = FALSE /\ addr = FALSE /\ verified = 0 /\ gap = 0
    /\ knock = "none"
    /\ off = Lease + Fresh
    /\ sound = FALSE
    /\ switches = 0 /\ faults = 0

Fault == faults < MaxFaults /\ faults' = faults + 1

Go(t, pc) == thread' = [thread EXCEPT ![t] = [at |-> pc, slept |-> 0]]

-----------------------------------------------------------------------------
(* The opener and the renewer: open_async, spawn_renew *)

\* The latch: a second opener finds OPENED set and ends.
Begin(t) ==
    /\ thread[t].at = "begin"
    /\ opened' = TRUE
    /\ Go(t, IF opened THEN "none" ELSE "ask")
    /\ UNCHANGED <<enabled, endpoint, direct, lease, beat, panelVars, knock, off,
                   sound, bounds>>

\* discover, control_url, get_external_ip, local_ip_for.
Ask(t) ==
    /\ thread[t].at = "ask"
    /\ \/ Go(t, "map") /\ UNCHANGED <<opened, faults>>
       \/ Go(t, "none") /\ opened' = FALSE /\ Fault
    /\ UNCHANGED <<enabled, endpoint, direct, lease, beat, panelVars, knock, off,
                   sound, switches>>

\* Mutant: a lease that lasts only until the renewal.
AddMappingShort(got) ==
    /\ lease' = IF got THEN Renew ELSE lease
    /\ sound' = got

\* AddPortMapping.  The router may have done it although the answer is lost.
AddMapping(got) ==
    /\ lease' = IF got THEN Lease ELSE lease
    /\ sound' = got

Map(t) ==
    /\ thread[t].at = "map"
    /\ \/ AddMapping(TRUE) /\ Go(t, "set") /\ UNCHANGED <<opened, faults>>
       \/ /\ \E got \in BOOLEAN : AddMapping(got)
          /\ Go(t, "none") /\ opened' = FALSE /\ Fault
    /\ UNCHANGED <<enabled, endpoint, direct, beat, panelVars, knock, off,
                   switches>>

\* ENDPOINT, whatever ENABLED is by now; the renewer goes to sleep.
SetEndpoint(t) ==
    /\ thread[t].at = "set"
    /\ endpoint' = TRUE
    /\ Go(t, "sleep")
    /\ UNCHANGED <<enabled, opened, direct, lease, beat, panelVars, knock, off,
                   sound, bounds>>

\* Mutant: the renewer does not look at the switch.
WakeAlways(t) ==
    /\ thread[t].at = "sleep" /\ thread[t].slept = Renew
    /\ thread' = [thread EXCEPT ![t].at = "renew"]
    /\ UNCHANGED <<enabled, opened, endpoint, direct, lease, beat, panelVars,
                   knock, off, sound, bounds>>

Wake(t) ==
    /\ thread[t].at = "sleep" /\ thread[t].slept = Renew
    /\ thread' = [thread EXCEPT ![t] = IF enabled THEN [@ EXCEPT !.at = "renew"]
                                       ELSE NoThread]
    /\ UNCHANGED <<enabled, opened, endpoint, direct, lease, beat, panelVars,
                   knock, off, sound, bounds>>

RenewLease(t) ==
    /\ thread[t].at = "renew"
    /\ \/ AddMapping(TRUE) /\ UNCHANGED faults
       \/ \E got \in BOOLEAN : AddMapping(got) /\ Fault
    /\ Go(t, "sleep")
    /\ UNCHANGED <<enabled, opened, endpoint, direct, beat, panelVars, knock, off,
                   switches>>

-----------------------------------------------------------------------------
(* The heartbeat: send_heartbeat, recordHeartbeat, getUpnpEnabled *)

BeatSend ==
    /\ beat = NoBeat
    /\ beat' = [at |-> "sent", on |-> endpoint]
    /\ UNCHANGED <<agentVars, lease, panelVars, knock, off, sound, bounds>>

\* endpointSet: an empty address clears the column.
BeatRecord ==
    /\ beat.at = "sent"
    /\ addr' = beat.on
    /\ beat' = [at |-> "recorded", on |-> FALSE]
    /\ UNCHANGED <<agentVars, lease, want, verified, gap, knock, off, sound,
                   bounds>>

\* The switch goes into the answer; after the answer the door is probed.
BeatAnswer ==
    /\ beat.at = "recorded"
    /\ beat' = [at |-> "answered", on |-> want]
    /\ knock' = IF knock = "none" THEN "due" ELSE knock
    /\ UNCHANGED <<agentVars, lease, panelVars, off, sound, bounds>>

\* Mutant: the switch stays in this process's memory.
SetEnabledInMemory(on, t) ==
    IF on = enabled
    THEN UNCHANGED <<enabled, opened, endpoint, direct, thread, off>>
    ELSE /\ enabled' = on
         /\ IF on THEN /\ thread[t] = NoThread
                       /\ Go(t, "begin")
                       /\ UNCHANGED <<opened, endpoint, direct, off>>
            ELSE /\ opened' = FALSE /\ endpoint' = FALSE /\ off' = 0
                 /\ UNCHANGED <<direct, thread>>

\* set_enabled; t is where an opener may start.
SetEnabled(on, t) ==
    IF on = enabled
    THEN UNCHANGED <<enabled, opened, endpoint, direct, thread, off>>
    ELSE /\ enabled' = on
         /\ direct' = on
         /\ IF on THEN /\ thread[t] = NoThread
                       /\ Go(t, "begin")
                       /\ UNCHANGED <<opened, endpoint, off>>
            ELSE /\ opened' = FALSE /\ endpoint' = FALSE /\ off' = 0
                 /\ UNCHANGED thread

BeatApply ==
    /\ beat.at = "answered"
    /\ \E t \in Threads : SetEnabled(beat.on, t)
    /\ beat' = NoBeat
    /\ UNCHANGED <<lease, panelVars, knock, sound, bounds>>

\* A 2xx whose body cannot be read counts as all defaults: switch off.
BeatUnreadable ==
    /\ beat.at = "answered"
    /\ Fault
    /\ \E t \in Threads : SetEnabled(FALSE, t)
    /\ beat' = NoBeat
    /\ UNCHANGED <<lease, panelVars, knock, sound, switches>>

BeatLost ==
    /\ beat # NoBeat
    /\ beat' = NoBeat
    /\ UNCHANGED <<agentVars, lease, panelVars, knock, off, sound, bounds>>

-----------------------------------------------------------------------------
(* The panel: setUpnpEnabled, probeUpnpDoor *)

SetUpnpEnabled ==
    /\ switches < MaxSwitches /\ switches' = switches + 1
    /\ want' = ~want
    /\ IF want THEN addr' = FALSE /\ verified' = 0 /\ gap' = 0
       ELSE UNCHANGED <<addr, verified, gap>>
    /\ UNCHANGED <<agentVars, lease, beat, knock, off, sound, faults>>

\* The SELECT: switched on, with an address, and not knocked at lately.
ProbeSelect ==
    /\ knock = "due"
    /\ knock' = IF want /\ addr /\ gap = 0 THEN "mark" ELSE "none"
    /\ UNCHANGED <<agentVars, lease, beat, panelVars, off, sound, bounds>>

ProbeMark ==
    /\ knock = "mark"
    /\ gap' = Gap
    /\ knock' = "knock"
    /\ UNCHANGED <<agentVars, lease, beat, want, addr, verified, off, sound,
                   bounds>>

\* The agent's greeting arrives only through an open door with a listener.
Knock ==
    /\ knock = "knock"
    /\ \/ lease > 0 /\ direct /\ knock' = "open"
       \/ knock' = "closed"
    /\ UNCHANGED <<agentVars, lease, beat, panelVars, off, sound, bounds>>

\* Mutant: the time of the knock is written whatever came of it.
ProbeWriteAlways ==
    /\ knock \in {"open", "closed"}
    /\ verified' = Fresh
    /\ knock' = "none"
    /\ UNCHANGED <<agentVars, lease, beat, want, addr, gap, off, sound, bounds>>

ProbeWrite ==
    /\ knock \in {"open", "closed"}
    /\ verified' = IF knock = "open" THEN Fresh ELSE 0
    /\ knock' = "none"
    /\ UNCHANGED <<agentVars, lease, beat, want, addr, gap, off, sound, bounds>>

-----------------------------------------------------------------------------
(* Time, and what happens to the PC and the router *)

Less(n) == IF n = 0 THEN 0 ELSE n - 1

\* Mutant: a verification never grows old.
AgeGapOnly == verified' = verified /\ gap' = Less(gap)

\* upnp_verified_at and upnp_probe_at recede.
Age == verified' = Less(verified) /\ gap' = Less(gap)

\* Half an hour.  Requests under way end and sleepers that are due wake first.
Tick ==
    /\ \A t \in Threads : /\ thread[t].at \notin AtWork
                          /\ thread[t].at = "sleep" => thread[t].slept < Renew
    /\ knock \in {"none", "due"}
    /\ thread' = [t \in Threads |->
                    IF thread[t].at = "sleep"
                    THEN [thread[t] EXCEPT !.slept = @ + 1] ELSE thread[t]]
    /\ lease' = Less(lease)
    /\ Age
    /\ off' = IF ~enabled /\ off < Lease + Fresh THEN off + 1 ELSE off
    /\ UNCHANGED <<enabled, opened, endpoint, direct, beat, want, addr, knock,
                   sound, bounds>>

\* The statics and threads are gone; the option is in the configuration file.
AgentReboots ==
    /\ Fault
    /\ enabled' = FALSE /\ opened' = FALSE /\ endpoint' = FALSE
    /\ thread' = [t \in Threads |-> NoThread]
    /\ beat' = NoBeat
    /\ off' = IF enabled THEN 0 ELSE off
    /\ UNCHANGED <<direct, lease, panelVars, knock, sound, switches>>

RouterReboots ==
    /\ Fault
    /\ lease' = 0
    /\ sound' = FALSE
    /\ UNCHANGED <<agentVars, beat, panelVars, knock, off, switches>>

-----------------------------------------------------------------------------
ThreadStep(t) == Begin(t) \/ Ask(t) \/ Map(t) \/ SetEndpoint(t) \/ Wake(t)
                 \/ RenewLease(t)

BeatStep == BeatSend \/ BeatRecord \/ BeatAnswer \/ BeatApply \/ BeatUnreadable
            \/ BeatLost

ProbeStep == ProbeSelect \/ ProbeMark \/ Knock \/ ProbeWrite

Next == (\E t \in Threads : ThreadStep(t)) \/ BeatStep \/ ProbeStep
        \/ SetUpnpEnabled \/ Tick \/ AgentReboots \/ RouterReboots

Spec == Init /\ [][Next]_vars

\* Threads and the panel's code go on, heartbeats are sent for ever and get
\* through again and again, time passes.  Nothing is assumed of the router.
Fairness ==
    /\ \A t \in Threads : WF_vars(ThreadStep(t))
    /\ WF_vars(ProbeStep)
    /\ WF_vars(BeatSend)
    /\ SF_vars(BeatRecord) /\ SF_vars(BeatAnswer) /\ SF_vars(BeatApply)
    /\ WF_vars(Tick)

FairSpec == Spec /\ Fairness

-----------------------------------------------------------------------------
(* Properties *)

(* The header's rule that a hole is never left in somebody's router: one lease
   after the switch went off on the PC, or the agent died, the mapping is gone,
   though openers and renewers may be in the middle of a request then. *)
ShutInTime == ~enabled /\ lease > 0 => lease + off <= Lease

(* RENEW_SECS against LEASE_SECS: while a renewer lives and the last request to
   the router stands, the mapping outlasts the renewer's sleep, however often
   the switch was pressed and however many renewers there are. *)
RenewedInTime ==
    \A t \in Threads :
        sound /\ thread[t].at \in {"sleep", "renew"}
           => lease > 0 /\ lease + thread[t].slept >= Lease

\* doorIsOpen: the panel gives the address to HQ.
DoorIsOpen == addr /\ verified > 0

(* doorIsOpen trusts a knock that was answered for DOOR_FRESH_MS.  Once ENABLED is
   off on the PC, or the agent is dead, HQ is given the address for at most one
   lease and that time more: a knock under way, an opener that lost its answer, a
   listener that outlives the agent and the panel's switch, which may still be
   on, cannot make the verification younger than the last lease. *)
AddressExpires == ~enabled => verified + off <= Lease + Fresh

(* setUpnpEnabled's rule that a closed door is not knocked at for ever: when the
   switch stays off HQ is no longer given an address, although a heartbeat
   composed before, a knock under way or a late opener may put one back. *)
ClosedIsForgotten == (<>[]~want) => <>[]~DoorIsOpen

(* A switch that stays on gets the listener running in the other process, after
   reboots, unreadable answers and earlier presses. *)
ListenerFollows == (<>[]want) => <>[]direct
=============================================================================
