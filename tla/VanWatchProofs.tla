--------------------------- MODULE VanWatchProofs ---------------------------
(***************************************************************************)
(* Proofs about VanWatch for every limit and every bound.  Each safety     *)
(* property is strengthened by what the watch thread or the heartbeat      *)
(* thread carries from step to step:                                       *)
(*   GiveUpInv   failures stay below the limit until the watchdog gives up;*)
(*   StreakInv   BAD_STREAK never runs ahead of the closed ports seen;     *)
(*   OwedInv     a restart not yet counted has been launched;              *)
(*   PathInv     a process about to be killed has a known path.            *)
(***************************************************************************)
EXTENDS VanWatch, TLAPS

GiveUpInv ==
    /\ ~gaveUp => failures < MaxFailures
    /\ tick \in {"pid", "recover", "kill", "launch"} => ~gaveUp

StreakInv ==
    /\ streak < BadNeeded
    /\ tick = "sleep" => streak <= closedRun
    /\ tick \in {"closed", "pid"} => streak + 1 <= closedRun
    /\ tick \in {"recover", "kill", "launch"} =>
          streak = 0 /\ closedRun = BadNeeded

\* A restart that the panel may still count.
Owed ==
    restarted /\ ~(beat.at \in {"served", "answered"} /\ beat.restarted)

OwedInv ==
    /\ beat # NoBeat => (beat.restarted => restarted)
    /\ count <= launches + resent
    /\ Owed => count + 1 <= launches + resent
    /\ resent <= glitches
    /\ vain <= launches

PathInv == tick = "kill" => path

IInv == TypeOK /\ GiveUpInv /\ StreakInv /\ OwedInv

-----------------------------------------------------------------------------
(* Type correctness *)

LEMMA InitType == Init => TypeOK
  <1> SUFFICES ASSUME Init PROVE TypeOK
    OBVIOUS
  <1>1. beat \in Beats /\ row \in Rows
    BY DEF Init, NoRow, Rows, Oks, NoBeat, Beats
  <1>2. /\ failures \in 0..MaxFailures /\ streak \in 0..BadNeeded
        /\ count \in 0..(MaxLaunches + MaxGlitches)
        /\ closedRun \in 0..BadNeeded
        /\ launches \in 0..MaxLaunches /\ vain \in 0..MaxLaunches
        /\ resent \in 0..MaxGlitches /\ glitches \in 0..MaxGlitches
        /\ switches \in 0..MaxSwitches /\ faults \in 0..MaxFaults
    BY VanAssumption DEF Init
  <1>3. /\ found \in BOOLEAN /\ proc \in BOOLEAN
        /\ port \in {"closed", "listening", "busy"}
        /\ on \in BOOLEAN /\ onCache \in BOOLEAN /\ path \in BOOLEAN
        /\ lastOk \in BOOLEAN /\ everOk \in BOOLEAN /\ gaveUp \in BOOLEAN
        /\ missing \in BOOLEAN /\ quiet \in BOOLEAN /\ restarted \in BOOLEAN
        /\ tick = "sleep" /\ watch \in BOOLEAN
    BY DEF Init
  <1> QED
    BY <1>1, <1>2, <1>3 DEF TypeOK

LEMMA InitInv == Init => IInv
  <1> SUFFICES ASSUME Init PROVE GiveUpInv /\ StreakInv /\ OwedInv
    BY InitType DEF IInv
  <1>1. GiveUpInv
    BY VanAssumption DEF Init, GiveUpInv
  <1>2. StreakInv
    BY VanAssumption DEF Init, StreakInv
  <1>3. OwedInv
    BY DEF Init, OwedInv, Owed, NoBeat
  <1> QED
    BY <1>1, <1>2, <1>3

\* The names of the parts of TypeOK that the steps below go through.
ProgType ==
    /\ found \in BOOLEAN /\ proc \in BOOLEAN
    /\ port \in {"closed", "listening", "busy"}
FlagType ==
    /\ on \in BOOLEAN /\ onCache \in BOOLEAN /\ path \in BOOLEAN
    /\ lastOk \in BOOLEAN /\ everOk \in BOOLEAN /\ gaveUp \in BOOLEAN
    /\ missing \in BOOLEAN /\ quiet \in BOOLEAN /\ restarted \in BOOLEAN
TickType ==
    tick \in {"sleep", "listening", "busy", "closed", "pid", "recover", "kill",
              "launch"}
FailType   == failures \in 0..MaxFailures
StreakType == streak \in 0..BadNeeded /\ closedRun \in 0..BadNeeded
BeatType   == beat \in Beats /\ row \in Rows /\ watch \in BOOLEAN
CountType ==
    /\ count \in 0..(MaxLaunches + MaxGlitches)
    /\ launches \in 0..MaxLaunches /\ vain \in 0..MaxLaunches
    /\ resent \in 0..MaxGlitches
BoundType ==
    /\ glitches \in 0..MaxGlitches /\ switches \in 0..MaxSwitches
    /\ faults \in 0..MaxFaults

LEMMA TypeParts ==
    TypeOK <=> /\ ProgType /\ FlagType /\ TickType /\ FailType /\ StreakType
               /\ BeatType /\ CountType /\ BoundType
  BY DEF TypeOK, ProgType, FlagType, TickType, FailType, StreakType, BeatType,
         CountType, BoundType

LEMMA TypePartsNext ==
    TypeOK' <=> (/\ ProgType /\ FlagType /\ TickType /\ FailType /\ StreakType
                 /\ BeatType /\ CountType /\ BoundType)'
  BY DEF TypeOK, ProgType, FlagType, TickType, FailType, StreakType, BeatType,
         CountType, BoundType

LEMMA ReportType == ASSUME TypeOK PROVE Report \in Rows
  <1>1. CurrentOk \in Oks
    BY DEF CurrentOk, Oks
  <1>2. NoRow \in Rows
    BY DEF NoRow, Rows, Oks
  <1>3. gaveUp \in BOOLEAN /\ missing \in BOOLEAN
    BY DEF TypeOK
  <1>4. [ok |-> CurrentOk, gaveUp |-> gaveUp, missing |-> missing] \in Rows
    BY <1>1, <1>3 DEF Rows
  <1> QED
    BY <1>2, <1>4 DEF Report

LEMMA BeatParts ==
    ASSUME TypeOK
    PROVE  /\ beat.at = "sent" => beat.some \in BOOLEAN /\ beat.row \in Rows
                                  /\ beat.restarted \in BOOLEAN
           /\ beat.at = "served" => beat.restarted \in BOOLEAN
           /\ beat.at = "answered" => beat.on \in BOOLEAN
                                      /\ beat.restarted \in BOOLEAN
           /\ beat = NoBeat \/ beat.at \in {"sent", "served", "answered"}
           /\ NoBeat.at = "idle"
  BY DEF TypeOK, Beats, NoBeat

-----------------------------------------------------------------------------
(* Which steps may change what *)

LEMMA ProgFrame ==
    ASSUME [Next]_vars
    PROVE  \/ UNCHANGED progVars
           \/ Kill \/ Launch \/ Program \/ Reboot
  BY DEF Next, Check, Beat, Probe, ProbeFails, Healthy, Busy, Closed, Judge,
         Recover, LaunchFails, BeatSend, BeatServe, BeatAnswer, BeatApply,
         BeatLost, QuietPasses, SetVanWatch, progVars, vars, agentVars

LEMMA TickFrame ==
    ASSUME [Next]_vars
    PROVE  UNCHANGED tick \/ Check \/ Reboot
  BY DEF Next, Beat, Program, BeatSend, BeatServe, BeatAnswer, BeatApply,
         BeatLost, QuietPasses, SetVanWatch, DaemonStarts, DaemonStops,
         PaymentEnds, ProgramDies, ProgramStarts, vars, agentVars

LEMMA FailFrame ==
    ASSUME [Next]_vars
    PROVE  \/ UNCHANGED <<failures, gaveUp, tick>>
           \/ Check \/ BeatApply \/ Reboot
  BY DEF Next, Beat, Program, BeatSend, BeatServe, BeatAnswer,
         BeatLost, QuietPasses, SetVanWatch, DaemonStarts, DaemonStops,
         PaymentEnds, ProgramDies, ProgramStarts, vars, agentVars, flags

LEMMA StreakFrame ==
    ASSUME [Next]_vars
    PROVE  \/ UNCHANGED <<streak, closedRun, tick>>
           \/ Check \/ Reboot
  BY DEF Next, Beat, Program, BeatSend, BeatServe, BeatAnswer, BeatApply,
         BeatLost, QuietPasses, SetVanWatch, DaemonStarts, DaemonStops,
         PaymentEnds, ProgramDies, ProgramStarts, vars, agentVars, ghosts

LEMMA BeatFrame ==
    ASSUME [Next]_vars
    PROVE  \/ UNCHANGED <<beat, row, watch>>
           \/ Beat \/ BeatLost \/ Reboot \/ \E w \in BOOLEAN : SetVanWatch(w)
  BY DEF Next, Check, Program, Probe, ProbeFails, Healthy, Busy, Closed, Judge,
         Recover, Kill, Launch, LaunchFails, QuietPasses, DaemonStarts,
         DaemonStops, PaymentEnds, ProgramDies, ProgramStarts, vars, agentVars,
         panelVars

LEMMA CountFrame ==
    ASSUME [Next]_vars
    PROVE  \/ UNCHANGED <<count, launches, resent, vain, restarted, beat>>
              /\ (glitches' = glitches \/ glitches' = glitches + 1)
           \/ Healthy \/ Launch \/ Beat \/ BeatLost \/ Reboot
           \/ \E w \in BOOLEAN : SetVanWatch(w)
  BY DEF Next, Check, Program, Probe, ProbeFails, Busy, Closed, Judge, Seen,
         Recover, Kill, LaunchFails, QuietPasses, DaemonStarts, Glitch,
         DaemonStops, PaymentEnds, ProgramDies, ProgramStarts, vars, agentVars,
         panelVars, ghosts, bounds

-----------------------------------------------------------------------------
(* The parts of the type invariant, step by step *)

LEMMA ProgStep == ASSUME TypeOK, [Next]_vars PROVE ProgType'
  <1> USE DEF ProgType
  <1>0. ProgType
    BY TypeParts
  <1>1. CASE UNCHANGED progVars
    BY <1>0, <1>1 DEF progVars
  <1>2. CASE Kill
    BY <1>0, <1>2 DEF Kill
  <1>3. CASE Launch
    BY <1>0, <1>3 DEF Launch
  <1>4. CASE Program
    BY <1>0, <1>4 DEF Program, DaemonStarts, DaemonStops, PaymentEnds,
                      ProgramDies, ProgramStarts
  <1>5. CASE Reboot
    BY <1>0, <1>5 DEF Reboot
  <1> QED
    BY <1>1, <1>2, <1>3, <1>4, <1>5, ProgFrame

LEMMA TickStep == ASSUME TypeOK, [Next]_vars PROVE TickType'
  <1> USE DEF TickType
  <1>0. TickType /\ port \in {"closed", "listening", "busy"}
    BY TypeParts DEF ProgType
  <1>1. CASE UNCHANGED tick
    BY <1>0, <1>1
  <1>2. CASE Check
    <2>1. CASE Probe \/ ProbeFails
      BY <1>0, <2>1 DEF Probe, ProbeFails
    <2>2. CASE Healthy \/ Busy \/ Closed \/ Kill \/ Launch \/ LaunchFails
      BY <2>2 DEF Healthy, Busy, Closed, Kill, Launch, LaunchFails
    <2>3. CASE \E p \in BOOLEAN : Judge(p) \/ Recover(p)
      BY <2>3 DEF Judge, Recover
    <2> QED
      BY <1>2, <2>1, <2>2, <2>3 DEF Check
  <1>3. CASE Reboot
    BY <1>3 DEF Reboot
  <1> QED
    BY <1>1, <1>2, <1>3, TickFrame

LEMMA FlagStep == ASSUME TypeOK, [Next]_vars PROVE FlagType'
  <1> USE DEF FlagType
  <1>0. FlagType /\ found \in BOOLEAN
    BY TypeParts DEF ProgType
  <1>1. CASE Check
    <2>1. CASE Probe \/ ProbeFails \/ Busy \/ Closed \/ Kill
      BY <1>0, <2>1 DEF Probe, ProbeFails, Busy, Closed, Kill, flags
    <2>2. CASE Healthy
      BY <1>0, <2>2 DEF Healthy, CachePath
    <2>3. CASE Launch
      BY <1>0, <2>3 DEF Launch, flags
    <2>4. CASE LaunchFails
      <3>1. gaveUp' \in BOOLEAN
        BY <2>4 DEF LaunchFails, NoteFailure
      <3> QED
        BY <1>0, <2>4, <3>1 DEF LaunchFails
    <2>5. ASSUME NEW p \in BOOLEAN, Judge(p) PROVE FlagType'
      BY <1>0, <2>5 DEF Judge, flags
    <2>6. ASSUME NEW p \in BOOLEAN, Recover(p) PROVE FlagType'
      <3>1. path' \in BOOLEAN
        BY <2>6 DEF Recover
      <3>2. gaveUp' \in BOOLEAN
        BY <1>0, <2>6 DEF Recover, NoteFailure
      <3>3. missing' \in BOOLEAN
        BY <1>0, <2>6 DEF Recover
      <3> QED
        BY <1>0, <2>6, <3>1, <3>2, <3>3 DEF Recover
    <2> QED
      BY <1>1, <2>1, <2>2, <2>3, <2>4, <2>5, <2>6 DEF Check
  <1>2. CASE BeatApply
    <2>1. beat.on \in BOOLEAN
      BY <1>2, BeatParts DEF BeatApply
    <2>2. restarted' \in BOOLEAN
      BY <1>2 DEF BeatApply, ClearRestarted
    <2> QED
      BY <1>0, <1>2, <2>1, <2>2 DEF BeatApply
  <1>3. CASE BeatSend \/ BeatServe \/ BeatAnswer \/ BeatLost
    BY <1>0, <1>3 DEF BeatSend, BeatServe, BeatAnswer, BeatLost, flags
  <1>4. CASE Program \/ \E w \in BOOLEAN : SetVanWatch(w)
    BY <1>0, <1>4 DEF Program, DaemonStarts, DaemonStops, PaymentEnds,
                      ProgramDies, ProgramStarts, SetVanWatch, agentVars, flags
  <1>5. CASE QuietPasses
    BY <1>0, <1>5 DEF QuietPasses, flags
  <1>6. CASE Reboot
    BY <1>0, <1>6 DEF Reboot
  <1>7. CASE UNCHANGED vars
    BY <1>0, <1>7 DEF vars, agentVars, flags
  <1> QED
    BY <1>1, <1>2, <1>3, <1>4, <1>5, <1>6, <1>7 DEF Next, Beat

LEMMA BeatStep == ASSUME TypeOK, [Next]_vars PROVE BeatType'
  <1> USE DEF BeatType
  <1>0. BeatType
    BY TypeParts
  <1>a. NoBeat \in Beats /\ NoRow \in Rows
    BY DEF NoBeat, Beats, NoRow, Rows, Oks
  <1>1. CASE UNCHANGED <<beat, row, watch>>
    BY <1>0, <1>1
  <1>2. CASE BeatSend
    <2>1. on \in BOOLEAN /\ restarted \in BOOLEAN
      BY DEF TypeOK
    <2>2. beat' \in [at: {"sent"}, some: BOOLEAN, row: Rows, restarted: BOOLEAN]
      BY <1>2, <2>1, ReportType DEF BeatSend
    <2> QED
      BY <1>0, <1>2, <2>2 DEF BeatSend, panelVars, Beats
  <1>3. CASE BeatServe
    <2>1. beat.restarted \in BOOLEAN /\ beat.row \in Rows
      BY <1>3, BeatParts DEF BeatServe
    <2>2. row' \in Rows
      BY <1>0, <1>3, <1>a, <2>1 DEF BeatServe, Record
    <2>3. beat' \in [at: {"served"}, restarted: BOOLEAN]
      BY <1>3, <2>1 DEF BeatServe
    <2> QED
      BY <1>0, <1>3, <2>2, <2>3 DEF BeatServe, Beats
  <1>4. CASE BeatAnswer
    <2>1. beat.restarted \in BOOLEAN
      BY <1>4, BeatParts DEF BeatAnswer
    <2>2. beat' \in [at: {"answered"}, on: BOOLEAN, restarted: BOOLEAN]
      BY <1>0, <1>4, <2>1 DEF BeatAnswer
    <2> QED
      BY <1>0, <1>4, <2>2 DEF BeatAnswer, panelVars, Beats
  <1>5. CASE BeatApply \/ BeatLost \/ Reboot
    BY <1>0, <1>5, <1>a DEF BeatApply, BeatLost, Reboot, panelVars
  <1>6. ASSUME NEW w \in BOOLEAN, SetVanWatch(w) PROVE BeatType'
    BY <1>0, <1>6, <1>a DEF SetVanWatch, agentVars
  <1> QED
    BY <1>1, <1>2, <1>3, <1>4, <1>5, <1>6, BeatFrame DEF Beat

LEMMA BoundStep == ASSUME TypeOK, [Next]_vars PROVE BoundType'
  <1> USE DEF BoundType
  <1>0. BoundType
    BY TypeParts
  <1>1. CASE Check
    <2>1. glitches' = glitches \/ Glitch
      BY <1>1 DEF Check, Probe, ProbeFails, Healthy, Busy, Closed, Judge, Seen,
                  Recover, Kill, Launch, LaunchFails, bounds
    <2>2. UNCHANGED <<switches, faults>>
      BY <1>1 DEF Check, Probe, ProbeFails, Healthy, Busy, Closed, Judge,
                  Recover, Kill, Launch, LaunchFails, bounds
    <2> QED
      BY <1>0, <2>1, <2>2, VanAssumption DEF Glitch
  <1>2. CASE BeatLost
    BY <1>0, <1>2, VanAssumption DEF BeatLost, Glitch
  <1>3. CASE Beat \/ QuietPasses
    BY <1>0, <1>3 DEF Beat, BeatSend, BeatServe, BeatAnswer, BeatApply,
                      QuietPasses, bounds
  <1>4. CASE Program \/ Reboot
    BY <1>0, <1>4, VanAssumption
    DEF Program, DaemonStarts, DaemonStops, PaymentEnds, ProgramDies,
        ProgramStarts, Reboot, bounds
  <1>5. ASSUME NEW w \in BOOLEAN, SetVanWatch(w) PROVE BoundType'
    BY <1>0, <1>5, VanAssumption DEF SetVanWatch
  <1>6. CASE UNCHANGED vars
    BY <1>0, <1>6 DEF vars, bounds
  <1> QED
    BY <1>1, <1>2, <1>3, <1>4, <1>5, <1>6 DEF Next

-----------------------------------------------------------------------------
(* The strengthenings, step by step *)

LEMMA NoteFailureGives ==
    ASSUME FailType, gaveUp \in BOOLEAN, failures < MaxFailures, NoteFailure
    PROVE  FailType' /\ (~gaveUp' => failures' < MaxFailures)
  <1>1. failures' = failures + 1
    BY DEF NoteFailure
  <1>2. ~gaveUp' => ~(failures + 1 >= MaxFailures)
    BY DEF NoteFailure
  <1> QED
    BY <1>1, <1>2, VanAssumption DEF FailType

LEMMA FailStep ==
    ASSUME TypeOK, GiveUpInv, [Next]_vars
    PROVE  FailType' /\ GiveUpInv'
  <1>0. FailType /\ gaveUp \in BOOLEAN
    BY TypeParts DEF FlagType
  <1>1. CASE UNCHANGED <<failures, gaveUp, tick>>
    BY <1>0, <1>1 DEF FailType, GiveUpInv
  <1>2. CASE Probe \/ ProbeFails
    <2>1. UNCHANGED <<failures, gaveUp>>
      BY <1>2 DEF Probe, ProbeFails, flags
    <2>2. tick' \in {"closed", "listening", "busy", "sleep"}
      BY <1>2 DEF Probe, ProbeFails, TypeOK
    <2> QED
      BY <1>0, <2>1, <2>2 DEF FailType, GiveUpInv
  <1>3. CASE Healthy
    BY <1>3, VanAssumption DEF Healthy, FailType, GiveUpInv
  <1>4. CASE Busy \/ Closed \/ Kill \/ Launch
    <2>1. UNCHANGED <<failures, gaveUp>>
      BY <1>4 DEF Busy, Closed, Kill, Launch, flags
    <2>2. tick' \in {"pid", "recover", "kill", "launch"} => ~gaveUp
      BY <1>4 DEF Busy, Closed, Kill, Launch, GiveUpInv
    <2> QED
      BY <1>0, <2>1, <2>2 DEF FailType, GiveUpInv
  <1>5. CASE LaunchFails
    <2>1. tick' = "sleep" /\ NoteFailure /\ failures < MaxFailures
      BY <1>5 DEF LaunchFails, GiveUpInv
    <2> QED
      BY <1>0, <2>1, NoteFailureGives DEF GiveUpInv
  <1>6. ASSUME NEW p \in BOOLEAN, Judge(p) PROVE FailType' /\ GiveUpInv'
    BY <1>0, <1>6 DEF Judge, FailType, GiveUpInv, flags
  <1>7. ASSUME NEW p \in BOOLEAN, Recover(p) PROVE FailType' /\ GiveUpInv'
    <2>1. ~gaveUp /\ failures < MaxFailures
      BY <1>7 DEF Recover, GiveUpInv
    <2>2. CASE gaveUp' = TRUE /\ UNCHANGED failures /\ tick' = "sleep"
      BY <1>0, <2>2 DEF FailType, GiveUpInv
    <2>3. CASE NoteFailure /\ tick' = "sleep"
      BY <1>0, <2>1, <2>3, NoteFailureGives DEF GiveUpInv
    <2>4. CASE UNCHANGED <<failures, gaveUp>>
      BY <1>0, <2>1, <2>4 DEF FailType, GiveUpInv
    <2> QED
      BY <1>7, <2>2, <2>3, <2>4 DEF Recover
  <1>8. CASE BeatApply
    <2>1. UNCHANGED tick
      BY <1>8 DEF BeatApply
    <2>2. CASE on # beat.on
      BY <1>8, <2>1, <2>2, VanAssumption DEF BeatApply, FailType, GiveUpInv
    <2>3. CASE on = beat.on
      BY <1>0, <1>8, <2>1, <2>3 DEF BeatApply, FailType, GiveUpInv
    <2> QED
      BY <2>2, <2>3
  <1>9. CASE Reboot
    BY <1>9, VanAssumption DEF Reboot, FailType, GiveUpInv
  <1> QED
    BY <1>1, <1>2, <1>3, <1>4, <1>5, <1>6, <1>7, <1>8, <1>9, FailFrame DEF Check

LEMMA StreakStep ==
    ASSUME TypeOK, StreakInv, [Next]_vars
    PROVE  StreakType' /\ StreakInv'
  <1> USE DEF StreakType
  <1>0. StreakType /\ port \in {"closed", "listening", "busy"}
    BY TypeParts DEF ProgType
  <1>1. CASE UNCHANGED <<streak, closedRun, tick>>
    BY <1>0, <1>1 DEF StreakInv
  <1>2. CASE Probe
    <2>1. tick = "sleep" /\ tick' = port /\ UNCHANGED streak
      BY <1>2 DEF Probe
    <2>2. CASE port # "closed"
      BY <1>0, <1>2, <2>1, <2>2, VanAssumption DEF Probe, StreakInv
    <2>3. CASE port = "closed" /\ closedRun < BadNeeded
      BY <1>0, <1>2, <2>1, <2>3, VanAssumption DEF Probe, StreakInv
    <2>4. CASE port = "closed" /\ ~(closedRun < BadNeeded)
      BY <1>0, <1>2, <2>1, <2>4, VanAssumption DEF Probe, StreakInv
    <2> QED
      BY <2>2, <2>3, <2>4
  <1>3. CASE ProbeFails \/ Reboot
    BY <1>0, <1>3, VanAssumption DEF ProbeFails, Reboot, StreakInv
  <1>4. CASE Healthy \/ Busy
    BY <1>0, <1>4, VanAssumption DEF Healthy, Busy, StreakInv, ghosts
  <1>5. CASE Closed
    BY <1>0, <1>5, VanAssumption DEF Closed, StreakInv, ghosts
  <1>6. ASSUME NEW p \in BOOLEAN, Judge(p) PROVE StreakType' /\ StreakInv'
    <2>1. tick = "pid" /\ UNCHANGED closedRun
      BY <1>6 DEF Judge, ghosts
    <2>2. CASE tick' = "sleep" /\ UNCHANGED streak
      BY <1>0, <2>1, <2>2, VanAssumption DEF StreakInv
    <2>3. CASE streak + 1 < BadNeeded /\ streak' = streak + 1 /\ tick' = "sleep"
      BY <1>0, <2>1, <2>3, VanAssumption DEF StreakInv
    <2>4. CASE streak + 1 >= BadNeeded /\ streak' = 0 /\ tick' = "recover"
      BY <1>0, <2>1, <2>4, VanAssumption DEF StreakInv
    <2> QED
      BY <1>6, <2>2, <2>3, <2>4 DEF Judge
  <1>7. ASSUME NEW p \in BOOLEAN, Recover(p) PROVE StreakType' /\ StreakInv'
    <2>1. /\ tick = "recover" /\ UNCHANGED <<streak, closedRun>>
          /\ tick' \in {"sleep", "kill", "launch"}
      BY <1>7 DEF Recover, ghosts
    <2> QED
      BY <1>0, <2>1, VanAssumption DEF StreakInv
  <1>8. CASE Kill \/ Launch \/ LaunchFails
    <2>1. /\ tick \in {"kill", "launch"} /\ UNCHANGED <<streak, closedRun>>
          /\ tick' \in {"sleep", "launch"}
      BY <1>8 DEF Kill, Launch, LaunchFails, ghosts
    <2> QED
      BY <1>0, <2>1, VanAssumption DEF StreakInv
  <1> QED
    BY <1>1, <1>2, <1>3, <1>4, <1>5, <1>6, <1>7, <1>8, StreakFrame DEF Check

LEMMA SumBound ==
    ASSUME NEW m \in Nat, NEW n \in Nat, NEW a \in 0..m, NEW b \in 0..n,
           NEW c \in Nat, c <= a + b
    PROVE  c \in 0..(m + n)
  OBVIOUS

LEMMA CountStep ==
    ASSUME TypeOK, OwedInv, [Next]_vars, BoundType'
    PROVE  CountType' /\ OwedInv'
  <1>0. /\ CountType /\ BoundType
        /\ restarted \in BOOLEAN /\ watch \in BOOLEAN
    BY TypeParts DEF FlagType, BeatType
  <1> SUFFICES /\ OwedInv'
               /\ launches' \in 0..MaxLaunches /\ vain' \in Nat
               /\ resent' \in Nat /\ count' \in Nat
    <2>1. ASSUME OwedInv', launches' \in 0..MaxLaunches, vain' \in Nat,
                 resent' \in Nat, count' \in Nat
          PROVE  CountType'
      <3>1. /\ count' <= launches' + resent' /\ resent' <= glitches'
            /\ vain' <= launches'
        BY <2>1 DEF OwedInv
      <3>2. glitches' \in 0..MaxGlitches
        BY DEF BoundType
      <3>3. MaxLaunches \in Nat /\ MaxGlitches \in Nat
        BY VanAssumption
      <3>4. vain' \in 0..MaxLaunches /\ resent' \in 0..MaxGlitches
        BY <2>1, <3>1, <3>2, <3>3
      <3>5. count' \in 0..(MaxLaunches + MaxGlitches)
        BY <2>1, <3>1, <3>3, <3>4, SumBound
      <3> QED
        BY <2>1, <3>4, <3>5 DEF CountType
    <2> QED
      BY <2>1
  <1>1. CASE UNCHANGED <<count, launches, resent, vain, restarted, beat>>
              /\ (glitches' = glitches \/ glitches' = glitches + 1)
    BY <1>0, <1>1 DEF CountType, BoundType, OwedInv, Owed
  <1>2. CASE Healthy
    BY <1>0, <1>2 DEF Healthy, CountType, BoundType, OwedInv, Owed, panelVars,
                      bounds
  <1>3. CASE Launch
    <2>1. /\ launches' = launches + 1 /\ vain' = vain + 1 /\ launches < MaxLaunches
          /\ restarted' = TRUE
          /\ UNCHANGED <<count, resent, beat, glitches>>
      BY <1>3 DEF Launch, panelVars, bounds
    <2> QED
      BY <1>0, <2>1, VanAssumption DEF CountType, BoundType, OwedInv, Owed
  <1>4. CASE BeatSend
    <2>1. UNCHANGED <<count, launches, resent, vain, restarted, glitches>>
      BY <1>4 DEF BeatSend, panelVars, ghosts, bounds
    <2>2. beat = NoBeat /\ beat'.at = "sent" /\ beat'.restarted = restarted
      BY <1>4 DEF BeatSend
    <2> QED
      BY <1>0, <2>1, <2>2 DEF CountType, BoundType, OwedInv, Owed, NoBeat
  <1>5. CASE BeatServe
    <2>1. UNCHANGED <<launches, resent, vain, restarted, glitches>>
      BY <1>5 DEF BeatServe, ghosts, bounds
    <2>2. /\ beat # NoBeat /\ beat.at = "sent" /\ beat'.at = "served"
          /\ beat'.restarted = beat.restarted
      BY <1>5 DEF BeatServe, NoBeat
    <2>3. CASE beat.restarted
      <3>1. restarted /\ Owed /\ ~Owed'
        BY <2>1, <2>2, <2>3 DEF OwedInv, Owed
      <3>2. count' = count \/ count' = count + 1
        BY <1>5 DEF BeatServe
      <3> QED
        BY <1>0, <2>1, <2>2, <2>3, <3>1, <3>2 DEF CountType, BoundType, OwedInv
    <2>4. CASE ~beat.restarted
      <3>1. count' = count /\ (Owed' <=> Owed)
        BY <1>5, <2>1, <2>2, <2>4 DEF BeatServe, Counts, Owed
      <3> QED
        BY <1>0, <2>1, <2>2, <2>4, <3>1 DEF CountType, BoundType, OwedInv
    <2> QED
      BY <2>3, <2>4
  <1>6. CASE BeatAnswer
    <2>1. UNCHANGED <<count, launches, resent, vain, restarted, glitches>>
      BY <1>6 DEF BeatAnswer, panelVars, ghosts, bounds
    <2>2. /\ beat # NoBeat /\ beat.at = "served" /\ beat'.at = "answered"
          /\ beat'.restarted = beat.restarted
      BY <1>6 DEF BeatAnswer, NoBeat
    <2>3. Owed' <=> Owed
      BY <2>1, <2>2 DEF Owed
    <2> QED
      BY <1>0, <2>1, <2>2, <2>3 DEF CountType, BoundType, OwedInv
  <1>7. CASE BeatApply
    <2>1. UNCHANGED <<count, launches, resent, glitches>> /\ beat' = NoBeat
      BY <1>7 DEF BeatApply, panelVars, bounds
    <2>2. vain' = 0 \/ vain' = vain
      BY <1>7 DEF BeatApply
    <2>3. restarted' => restarted /\ ~beat.restarted
      BY <1>7 DEF BeatApply, ClearRestarted
    <2>4. Owed' => Owed
      BY <2>3 DEF Owed
    <2> QED
      BY <1>0, <2>1, <2>2, <2>4 DEF CountType, BoundType, OwedInv
  <1>8. CASE BeatLost
    <2>1. /\ UNCHANGED <<count, launches, vain, restarted>> /\ beat' = NoBeat
          /\ glitches' = glitches + 1
      BY <1>8 DEF BeatLost, panelVars, Glitch
    <2>2. CASE beat.at = "sent"
      <3>1. resent' = resent
        BY <1>8, <2>2 DEF BeatLost
      <3>2. Owed' => Owed
        BY <2>1, <2>2 DEF Owed
      <3> QED
        BY <1>0, <2>1, <3>1, <3>2 DEF CountType, BoundType, OwedInv
    <2>3. CASE beat.at # "sent"
      <3>1. resent' = resent + 1
        BY <1>8, <2>3 DEF BeatLost
      <3> QED
        BY <1>0, <2>1, <3>1 DEF CountType, BoundType, OwedInv
    <2> QED
      BY <2>2, <2>3
  <1>9. CASE Reboot
    <2>1. /\ UNCHANGED <<count, launches, resent, glitches>> /\ beat' = NoBeat
          /\ vain' = 0 /\ restarted' = FALSE
      BY <1>9 DEF Reboot, panelVars
    <2> QED
      BY <1>0, <2>1 DEF CountType, BoundType, OwedInv, Owed
  <1>10. ASSUME NEW w \in BOOLEAN, SetVanWatch(w)
         PROVE  /\ OwedInv'
                /\ launches' \in 0..MaxLaunches /\ vain' \in Nat
                /\ resent' \in Nat /\ count' \in Nat
    <2>1. /\ UNCHANGED <<launches, resent, vain, glitches, restarted, beat>>
          /\ count' = 0
      BY <1>10 DEF SetVanWatch, agentVars, ghosts
    <2>2. Owed' <=> Owed
      BY <2>1 DEF Owed
    <2> QED
      BY <1>0, <2>1, <2>2 DEF CountType, BoundType, OwedInv
  <1> QED
    BY <1>1, <1>2, <1>3, <1>4, <1>5, <1>6, <1>7, <1>8, <1>9, <1>10, CountFrame
    DEF Beat

LEMMA NextInv == IInv /\ [Next]_vars => IInv'
  <1> SUFFICES ASSUME TypeOK, GiveUpInv, StreakInv, OwedInv, [Next]_vars
               PROVE  IInv'
    BY DEF IInv
  <1>1. FailType' /\ GiveUpInv'
    BY FailStep
  <1>2. StreakType' /\ StreakInv'
    BY StreakStep
  <1>3. BoundType'
    BY BoundStep
  <1>4. CountType' /\ OwedInv'
    BY <1>3, CountStep
  <1>5. ProgType' /\ FlagType' /\ TickType' /\ BeatType'
    BY ProgStep, FlagStep, TickStep, BeatStep
  <1> QED
    BY <1>1, <1>2, <1>3, <1>4, <1>5, TypePartsNext DEF IInv

-----------------------------------------------------------------------------
(* Theorems *)

LEMMA Invariance == Spec => []IInv
  BY InitInv, NextInv, PTL DEF Spec

(* The state of the watchdog, of the heartbeat and of the panel keeps its type;
   failures never exceed MAX_FAILURES although note_failure does not look. *)
THEOREM TypeCorrect == Spec => []TypeOK
  <1>1. IInv => TypeOK
    BY DEF IInv
  <1> QED
    BY <1>1, Invariance, PTL

(* The program is touched only after BadNeeded closed ports in a row. *)
THEOREM Debounced == Spec => []TwoBadChecks
  <1>1. IInv => TwoBadChecks
    BY VanAssumption DEF IInv, StreakInv, TwoBadChecks
  <1> QED
    BY <1>1, Invariance, PTL

(* The panel counts no restart that did not happen, but for resent reports. *)
THEOREM CountCaused == Spec => []CountHasCause
  <1>1. IInv => CountHasCause
    BY DEF IInv, OwedInv, CountHasCause
  <1> QED
    BY <1>1, Invariance, PTL

(* A customer who is not watched has no alarm, whichever report comes late. *)
THEOREM UnwatchedIsQuiet == Spec => []NoAlarmUnwatched
  <1>1. Init => NoAlarmUnwatched
    BY DEF Init, NoAlarmUnwatched
  <1>2. IInv /\ NoAlarmUnwatched /\ [Next]_vars => NoAlarmUnwatched'
    <2> SUFFICES ASSUME TypeOK, NoAlarmUnwatched, [Next]_vars
                 PROVE  NoAlarmUnwatched'
      BY DEF IInv
    <2>1. CASE UNCHANGED <<beat, row, watch>>
      BY <2>1 DEF NoAlarmUnwatched
    <2>2. CASE BeatServe
      BY <2>2 DEF BeatServe, Record, NoAlarmUnwatched
    <2>3. CASE BeatSend \/ BeatAnswer \/ BeatApply \/ BeatLost \/ Reboot
      BY <2>3 DEF BeatSend, BeatAnswer, BeatApply, BeatLost, Reboot, panelVars,
                  NoAlarmUnwatched
    <2>4. ASSUME NEW w \in BOOLEAN, SetVanWatch(w) PROVE NoAlarmUnwatched'
      BY <2>4 DEF SetVanWatch, NoAlarmUnwatched
    <2> QED
      BY <2>1, <2>2, <2>3, <2>4, BeatFrame DEF Beat
  <1> QED
    BY <1>1, <1>2, Invariance, PTL DEF Spec

(* Whatever is killed can be started again: its path is known. *)
THEOREM KillIsSafe == Spec => KilledIsKnown
  <1>1. Init => PathInv
    BY DEF Init, PathInv
  <1>2. IInv /\ PathInv /\ [Next]_vars => PathInv'
    <2> SUFFICES ASSUME TypeOK, PathInv, [Next]_vars, tick' = "kill"
                 PROVE  path'
      BY DEF IInv, PathInv
    <2>0. path \in BOOLEAN /\ port \in {"closed", "listening", "busy"}
      BY DEF TypeOK
    <2>1. CASE UNCHANGED tick
      <3>1. path
        BY <2>1 DEF PathInv
      <3>2. UNCHANGED path \/ Check \/ Reboot
        BY DEF Next, Beat, Program, BeatSend, BeatServe, BeatAnswer, BeatApply,
               BeatLost, QuietPasses, SetVanWatch, DaemonStarts, DaemonStops,
               PaymentEnds, ProgramDies, ProgramStarts, vars, agentVars
      <3>3. ~Check /\ ~Reboot
        BY <2>1 DEF Check, Reboot, Probe, ProbeFails, Healthy, Busy, Closed,
                    Judge, Recover, Kill, Launch, LaunchFails
      <3> QED
        BY <3>1, <3>2, <3>3
    <2>2. CASE Check
      <3>1. \E p \in BOOLEAN : Recover(p)
        BY <2>0, <2>2 DEF Check, Probe, ProbeFails, Healthy, Busy, Closed, Judge,
                          Kill, Launch, LaunchFails
      <3> QED
        BY <3>1 DEF Recover
    <2>3. CASE Reboot
      BY <2>3 DEF Reboot
    <2> QED
      BY <2>1, <2>2, <2>3, TickFrame
  <1>3. PathInv => (tick = "kill" /\ tick' = "launch" => path)
    BY DEF PathInv
  <1> QED
    BY <1>1, <1>2, <1>3, Invariance, PTL DEF Spec, KilledIsKnown

(* Once it has given up, the watchdog neither kills the program nor starts it
   until a healthy port, the operator's switch or a reboot arms it again: a
   recovery that is under way when the heartbeat thread comes in between has
   not given up yet. *)
THEOREM GivenUpIsLeftAlone ==
    Spec => [][launches' # launches \/ tick = "kill" => ~gaveUp]_vars
  <1>1. ASSUME IInv, [Next]_vars
        PROVE  launches' # launches \/ tick = "kill" => ~gaveUp
    <2>1. tick \in {"kill", "launch"} => ~gaveUp
      BY <1>1 DEF IInv, GiveUpInv
    <2>2. launches' # launches => tick = "launch"
      BY <1>1 DEF Next, Check, Beat, Program, Probe, ProbeFails, Healthy, Busy,
         Closed, Judge, Recover, Kill, Launch, LaunchFails, BeatSend, BeatServe,
         BeatAnswer, BeatApply, BeatLost, QuietPasses, SetVanWatch, DaemonStarts,
         DaemonStops, PaymentEnds, ProgramDies, ProgramStarts, Reboot, vars, ghosts
    <2> QED
      BY <2>1, <2>2
  <1>2. IInv /\ [Next]_vars =>
          [launches' # launches \/ tick = "kill" => ~gaveUp]_vars
    BY <1>1
  <1> QED
    BY <1>2, Invariance, PTL DEF Spec
=============================================================================
