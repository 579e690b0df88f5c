------------------------- MODULE SchedWindowProofs -------------------------
(***************************************************************************)
(* Proofs about SchedWindow, for every number of connections and all       *)
(* bounds.  The inductive invariant is GrantInv: every copy of the file,   *)
(* in the file itself or held by a connection that will write it back, is  *)
(* a window the customer granted.                                          *)
(***************************************************************************)
EXTENDS SchedWindow, TLAPS

\* The times of a window are those of one accepted card.
IsGrant(w) ==
    \E g \in granted :
        /\ w.label = g.label /\ w.granted_at = g.at
        /\ w.start = g.from /\ w.end = g.to
        /\ g.to <= g.at + MaxWindow

\* What a connection holds to write back is a granted window, too.
CopiesAreGrants ==
    \A c \in Conns :
        conn[c].at \in {"starting", "ending"} => IsGrant(conn[c].w)

GrantInv == FileIsAGrant /\ CopiesAreGrants

-----------------------------------------------------------------------------
(* Facts about records and arithmetic *)

LEMMA NoWindowType == NoWindow \in Windows
  BY WindowAssumption, BoundAssumption DEF NoWindow, Windows, NoTime

(* What Granted stores is a window of the type, with the times of the card
   whatever the skew: the two clocks cancel out. *)
LEMMA GrantedRecord ==
    ASSUME NEW a, NEW b, NEW h
    PROVE  Granted(a, b, h) =
             [label |-> grants + 1, start |-> Max2(a - (h - now), now),
              end |-> Min2(b - (h - now), now + MaxWindow),
              granted_at |-> now, last |-> NoTime, inSession |-> FALSE]
  BY DEF Granted

LEMMA GrantedFacts ==
    ASSUME TypeOK, grants < MaxGrants,
           NEW lead \in Leads, NEW length \in Lengths, NEW sk \in Skews,
           now + Min2(length, MaxWindow) <= MaxClock
    PROVE  LET w == Granted(now + sk + lead, now + sk + length, now + sk)
           IN  /\ w \in Windows
               /\ w.label = grants + 1 /\ w.granted_at = now
               /\ w.start = now + Max2(lead, 0)
               /\ w.end = now + Min2(length, MaxWindow)
               /\ w.end <= now + MaxWindow
               /\ w.inSession = FALSE
  <1> DEFINE w == Granted(now + sk + lead, now + sk + length, now + sk)
  <1>1. /\ now \in Nat /\ now <= MaxClock /\ grants \in Nat
        /\ lead \in Int /\ length \in Nat /\ sk \in Int
        /\ MaxWindow \in Nat /\ MaxClock \in Nat /\ MaxGrants \in Nat
    BY WindowAssumption, BoundAssumption DEF TypeOK
  <1>2. w = [label |-> grants + 1,
             start |-> Max2((now + sk + lead) - ((now + sk) - now), now),
             end |-> Min2((now + sk + length) - ((now + sk) - now),
                          now + MaxWindow),
             granted_at |-> now, last |-> NoTime, inSession |-> FALSE]
    BY GrantedRecord
  <1>3. Max2((now + sk + lead) - ((now + sk) - now), now)
            = now + Max2(lead, 0)
    BY <1>1 DEF Max2
  <1>4. Min2((now + sk + length) - ((now + sk) - now), now + MaxWindow)
            = now + Min2(length, MaxWindow)
    BY <1>1 DEF Min2
  <1>5. now + Max2(lead, 0) \in Nat
    BY <1>1 DEF Max2
  <1>6. /\ now + Min2(length, MaxWindow) \in 0..MaxClock
        /\ now + Min2(length, MaxWindow) <= now + MaxWindow
    BY <1>1 DEF Min2
  <1>7. grants + 1 \in 0..MaxGrants
    BY <1>1
  <1>8. w = [label |-> grants + 1, start |-> now + Max2(lead, 0),
             end |-> now + Min2(length, MaxWindow),
             granted_at |-> now, last |-> NoTime, inSession |-> FALSE]
    BY <1>2, <1>3, <1>4
  <1> HIDE DEF w
  <1>9. w \in Windows
    BY <1>1, <1>5, <1>6, <1>7, <1>8 DEF Windows, NoTime
  <1>10. /\ w.label = grants + 1 /\ w.granted_at = now
         /\ w.start = now + Max2(lead, 0)
         /\ w.end = now + Min2(length, MaxWindow)
         /\ w.end <= now + MaxWindow
         /\ w.inSession = FALSE
    BY <1>6, <1>8
  <1> QED
    BY <1>9, <1>10 DEF w

-----------------------------------------------------------------------------
(* Type correctness *)

LEMMA InitType == Init => TypeOK
  <1> SUFFICES ASSUME Init PROVE TypeOK
    OBVIOUS
  <1>1. 0 \in 0..MaxClock /\ 0 \in 0..MaxGrants /\ 0 \in 0..MaxRequests
        /\ 0 \in 0..MaxCrashes
    BY BoundAssumption
  <1>2. NoConn \in [at: {"none", "pass", "starting", "in", "ending"},
                    w: Windows]
    BY NoWindowType DEF NoConn
  <1>3. NoBeat \in [at: {"idle", "drop", "sent", "answered", "mark"}, v: Int]
        /\ NoBeat.at = "idle"
    BY DEF NoBeat
  <1>4. NoTime \in Int
    BY DEF NoTime
  <1> QED
    <2>1. conn \in [Conns -> [at: {"none", "pass", "starting", "in", "ending"},
                             w: Windows]]
      BY <1>2 DEF Init
    <2>2. beat \in [at: {"idle", "drop", "sent", "answered", "mark"}, v: Int]
          /\ (beat.at \in {"answered", "mark"} => beat.v \in 0..MaxRequests)
      BY <1>3 DEF Init
    <2>3. file \in Windows
      BY NoWindowType DEF Init
    <2>4. late \in Int /\ until \in Int
      BY <1>4 DEF Init
    <2>6. stale \in BOOLEAN
      BY DEF Init
    <2>5. /\ now \in 0..MaxClock /\ grants \in 0..MaxGrants
          /\ done \in 0..MaxRequests /\ request \in 0..MaxRequests
          /\ requests \in 0..MaxRequests
          /\ crashes \in 0..MaxCrashes
      BY <1>1 DEF Init
    <2> QED
      BY <2>1, <2>2, <2>3, <2>4, <2>5, <2>6 DEF TypeOK

LEMMA RecordType ==
    ASSUME TypeOK, NEW v \in Int, Record(v)
    PROVE  until' \in Int /\ request' \in 0..MaxRequests
  BY BoundAssumption DEF TypeOK, Record

LEMMA ReportType ==
    ASSUME TypeOK
    PROVE  Report(file) \in Int
  BY BoundAssumption DEF TypeOK, Report, Windows

LEMMA GrantType == TypeOK /\ Grant => TypeOK'
  <1> SUFFICES ASSUME TypeOK, Grant PROVE TypeOK'
    OBVIOUS
  <1>1. PICK lead \in Leads, length \in Lengths, skew \in Skews :
            /\ now + Min2(length, MaxWindow) <= MaxClock
            /\ file' = Granted(now + skew + lead, now + skew + length,
                               now + skew)
    BY DEF Grant
  <1>2. file' \in Windows
    BY <1>1, GrantedFacts DEF Grant
  <1>3. grants' \in 0..MaxGrants
    BY BoundAssumption DEF TypeOK, Grant
  <1> QED
    BY <1>2, <1>3 DEF TypeOK, Grant, panelVars

LEMMA ConnType ==
    ASSUME NEW c \in Conns, TypeOK, ConnStep(c)
    PROVE  TypeOK'
  <1>0. file \in Windows /\ conn[c].w \in Windows /\ NoWindow \in Windows
    BY NoWindowType DEF TypeOK
  <1>1. CASE Login(c)
    BY <1>0, <1>1 DEF TypeOK, Login, Go, OnlyConns, panelVars, ghosts
  <1>2. CASE NoteStart(c)
    BY <1>0, <1>2 DEF TypeOK, NoteStart, Go, OnlyConns, panelVars, ghosts
  <1>3. CASE NoteStartWrite(c)
    <2>1. file' \in Windows
      BY <1>0, <1>3 DEF NoteStartWrite, Windows
    <2> QED
      BY <1>0, <1>3, <2>1
      DEF TypeOK, NoteStartWrite, Go, OnlyConns, panelVars, ghosts
  <1>4. CASE NoteEnd(c)
    BY <1>0, <1>4 DEF TypeOK, NoteEnd, Go, OnlyConns, panelVars, ghosts
  <1>5. CASE NoteEndWrite(c)
    <2>1. now \in Int
      BY BoundAssumption DEF TypeOK
    <2>2. file' \in Windows
      BY <1>0, <1>5, <2>1 DEF NoteEndWrite, Windows
    <2> QED
      BY <1>0, <1>5, <2>2
      DEF TypeOK, NoteEndWrite, Go, OnlyConns, panelVars, ghosts
  <1> QED
    BY <1>1, <1>2, <1>3, <1>4, <1>5 DEF ConnStep

LEMMA BeatType == TypeOK /\ BeatStep => TypeOK'
  <1> SUFFICES ASSUME TypeOK, BeatStep PROVE TypeOK'
    OBVIOUS
  <1> USE DEF TypeOK, pcVars, panelVars, ghosts
  <1>0. beat.v \in Int /\ NoWindow \in Windows /\ NoBeat.v = 0
    BY NoWindowType DEF NoBeat
  <1>1. CASE BeatCompose
    <2>1. Report(file) \in Int
      BY ReportType
    <2> QED
      BY <1>1, <2>1 DEF BeatCompose, Reporting
  <1>2. CASE BeatDrop
    BY <1>0, <1>2 DEF BeatDrop
  <1>3. CASE BeatServe
    <2>1. until' \in Int /\ request' \in 0..MaxRequests
      BY <1>0, <1>3, RecordType DEF BeatServe
    <2>2. request' \in Int
      BY <2>1, BoundAssumption
    <2>3. beat' = [at |-> "answered", v |-> request']
      BY <1>3 DEF BeatServe
    <2> QED
      BY <1>3, <2>1, <2>2, <2>3 DEF BeatServe
  <1>4. CASE BeatClose
    BY <1>0, <1>4 DEF BeatClose, NoBeat
  <1>5. CASE BeatMark
    BY <1>0, <1>5 DEF BeatMark, NoBeat
  <1>6. CASE BeatLost
    BY <1>0, <1>6 DEF BeatLost, NoBeat
  <1> QED
    BY <1>1, <1>2, <1>3, <1>4, <1>5, <1>6 DEF BeatStep

LEMMA OtherType ==
    ASSUME TypeOK,
           FoundOver \/ Remove \/ HqClose \/ LateServe \/ RequestClose \/ Tick
           \/ Crash
    PROVE  TypeOK'
  <1> USE DEF TypeOK, pcVars, panelVars, ghosts
  <1>1. CASE FoundOver
    BY <1>1 DEF FoundOver
  <1>2. CASE Remove
    BY <1>2, NoWindowType DEF Remove
  <1>3. CASE HqClose
    BY <1>3, NoWindowType DEF HqClose
  <1>4. CASE LateServe
    <2>1. until' \in Int /\ request' \in 0..MaxRequests
      BY <1>4, RecordType DEF LateServe
    <2>2. late' \in Int
      BY <1>4 DEF LateServe, NoTime
    <2> QED
      BY <1>4, <2>1, <2>2 DEF LateServe
  <1>5. CASE RequestClose
    <2>1. requests + 1 \in 0..MaxRequests
      BY <1>5, BoundAssumption DEF RequestClose
    <2>2. file.label \in 0..MaxGrants
      BY DEF Windows
    <2> QED
      BY <1>5, <2>1, <2>2 DEF RequestClose
  <1>6. CASE Tick
    <2>1. now + 1 \in 0..MaxClock
      BY <1>6, BoundAssumption DEF Tick
    <2> QED
      BY <1>6, <2>1 DEF Tick
  <1>7. CASE Crash
    <2>1. crashes + 1 \in 0..MaxCrashes
      BY <1>7, BoundAssumption DEF Crash
    <2>2. NoConn \in [at: {"none", "pass", "starting", "in", "ending"},
                      w: Windows]
      BY NoWindowType DEF NoConn
    <2>3. NoBeat \in [at: {"idle", "drop", "sent", "answered", "mark"}, v: Int]
          /\ NoBeat.at = "idle"
      BY DEF NoBeat
    <2> QED
      BY <1>7, <2>1, <2>2, <2>3 DEF Crash
  <1> QED
    BY <1>1, <1>2, <1>3, <1>4, <1>5, <1>6, <1>7

LEMMA NextType == TypeOK /\ [Next]_vars => TypeOK'
  <1> SUFFICES ASSUME TypeOK, [Next]_vars PROVE TypeOK'
    OBVIOUS
  <1>1. CASE UNCHANGED vars
    BY <1>1 DEF TypeOK, vars, pcVars, panelVars, ghosts
  <1>2. CASE Next
    BY <1>2, GrantType, ConnType, BeatType, OtherType DEF Next
  <1> QED
    BY <1>1, <1>2

(* Every step keeps the types of the file, of the copies connections hold, of
   the heartbeat under way and of the panel's columns. *)
THEOREM TypeCorrect == Spec => []TypeOK
  BY InitType, NextType, PTL DEF Spec

-----------------------------------------------------------------------------
(* The file and its copies are granted windows *)

LEMMA GrantInit == Init => GrantInv
  BY DEF Init, GrantInv, FileIsAGrant, CopiesAreGrants, NoConn

\* Cards are never forgotten.
LEMMA GrantedGrows ==
    ASSUME granted \subseteq granted', NEW w, IsGrant(w)
    PROVE  IsGrant(w)'
  BY DEF IsGrant

LEMMA GrantKeeps == TypeOK /\ GrantInv /\ Grant => GrantInv'
  <1> SUFFICES ASSUME TypeOK, GrantInv, Grant PROVE GrantInv'
    OBVIOUS
  <1>1. PICK lead \in Leads, length \in Lengths, skew \in Skews :
            /\ now + Min2(length, MaxWindow) <= MaxClock
            /\ file' = Granted(now + skew + lead, now + skew + length,
                               now + skew)
            /\ granted' = granted \cup
                 {[label |-> grants + 1, at |-> now,
                   from |-> now + Max2(lead, 0),
                   to |-> now + Min2(length, MaxWindow)]}
    BY DEF Grant
  <1> DEFINE g == [label |-> grants + 1, at |-> now,
                   from |-> now + Max2(lead, 0),
                   to |-> now + Min2(length, MaxWindow)]
  <1>2. /\ file'.label = grants + 1 /\ file'.granted_at = now
        /\ file'.start = now + Max2(lead, 0)
        /\ file'.end = now + Min2(length, MaxWindow)
        /\ file'.end <= now + MaxWindow
    BY <1>1, GrantedFacts DEF Grant
  <1>3. g \in granted' /\ granted \subseteq granted'
    BY <1>1
  <1>4. /\ file'.label = g.label /\ file'.granted_at = g.at
        /\ file'.start = g.from /\ file'.end = g.to
        /\ g.to <= g.at + MaxWindow
    BY <1>2
  <1> HIDE DEF g
  <1>5. FileIsAGrant'
    BY <1>3, <1>4 DEF FileIsAGrant
  <1>6. conn' = conn
    BY DEF Grant
  <1>7. CopiesAreGrants'
    BY <1>3, <1>6 DEF GrantInv, CopiesAreGrants, IsGrant
  <1> QED
    BY <1>5, <1>7 DEF GrantInv

\* Setting the mark and the time of the last session leaves the times alone.
LEMMA MarkKeepsGrant ==
    ASSUME NEW w \in Windows, IsGrant(w), NEW b \in BOOLEAN, NEW l \in Int
    PROVE  /\ IsGrant([w EXCEPT !.inSession = b])
           /\ IsGrant([w EXCEPT !.inSession = b, !.last = l])
  BY DEF IsGrant, Windows

LEMMA FileGrant == FileIsAGrant <=> (file # NoWindow => IsGrant(file))
  BY DEF FileIsAGrant, IsGrant

\* What a step of a connection does to it, and to no other.
LEMMA ConnMoves ==
    ASSUME NEW c \in Conns, TypeOK, ConnStep(c)
    PROVE  /\ \A d \in Conns \ {c} : conn'[d] = conn[d]
           /\ conn'[c].at \in {"starting", "ending"} =>
                  conn'[c].w = file /\ file # NoWindow
           /\ conn'[c].at = "pass" => Login(c)
           /\ \/ file' = file
                 /\ (file.inSession /\ conn[c].at \in {"in", "ending"} =>
                       conn'[c].at \in {"in", "ending"})
              \/ file'.inSession = FALSE
              \/ conn'[c].at = "in"
           /\ crashes' = crashes
  <1> DEFINE K == [at: {"none", "pass", "starting", "in", "ending"},
                   w: Windows]
  <1>0. conn \in [Conns -> K] /\ conn[c].w \in Windows
    BY DEF TypeOK
  <1>1. ASSUME NEW at, NEW w, Go(c, at, w)
        PROVE  /\ \A d \in Conns \ {c} : conn'[d] = conn[d]
               /\ conn'[c].at = at /\ conn'[c].w = w
    BY <1>0, <1>1 DEF Go
  <1>2. CASE Login(c)
    BY <1>1, <1>2 DEF Login, OnlyConns
  <1>3. CASE NoteStart(c)
    <2>1. CASE file = NoWindow
      BY <1>1, <1>3, <2>1 DEF NoteStart, OnlyConns
    <2>2. CASE file # NoWindow
      <3>1. Go(c, "starting", file)
        BY <1>3, <2>2 DEF NoteStart
      <3> QED
        BY <1>1, <1>3, <2>2, <3>1 DEF NoteStart, OnlyConns
    <2> QED
      BY <2>1, <2>2
  <1>4. CASE NoteStartWrite(c)
    <2>1. Go(c, "in", NoWindow) /\ OnlyConns
      BY <1>4 DEF NoteStartWrite
    <2> QED
      BY <1>1, <2>1 DEF OnlyConns
  <1>5. CASE NoteEnd(c)
    <2>1. NoWindow.inSession = FALSE
      BY DEF NoWindow
    <2>2. CASE file = NoWindow
      BY <1>1, <1>5, <2>1, <2>2 DEF NoteEnd, OnlyConns
    <2>3. CASE file # NoWindow
      BY <1>1, <1>5, <2>3 DEF NoteEnd, OnlyConns
    <2> QED
      BY <2>2, <2>3
  <1>6. CASE NoteEndWrite(c)
    <2>1. Go(c, "none", NoWindow) /\ OnlyConns
      BY <1>6 DEF NoteEndWrite
    <2>2. file'.inSession = FALSE
      BY <1>0, <1>6 DEF NoteEndWrite, Windows
    <2> QED
      BY <1>1, <2>1, <2>2 DEF OnlyConns
  <1> QED
    BY <1>2, <1>3, <1>4, <1>5, <1>6 DEF ConnStep

LEMMA ConnKeeps ==
    ASSUME NEW c \in Conns, TypeOK, GrantInv, ConnStep(c)
    PROVE  GrantInv'
  <1>0. /\ file \in Windows /\ conn[c].w \in Windows
        /\ conn \in [Conns -> [at: {"none", "pass", "starting", "in", "ending"},
                               w: Windows]]
        /\ now \in Int
    BY BoundAssumption DEF TypeOK
  <1>1. granted' = granted
    BY DEF ConnStep, Login, NoteStart, NoteStartWrite, NoteEnd, NoteEndWrite,
           OnlyConns, ghosts
  <1>2. FileIsAGrant'
    <2>1. CASE file' = file
      BY <1>1, <2>1 DEF GrantInv, FileIsAGrant
    <2>2. CASE NoteStartWrite(c)
      <3>1. IsGrant([conn[c].w EXCEPT !.inSession = TRUE])
        BY <1>0, <2>2, MarkKeepsGrant
        DEF GrantInv, CopiesAreGrants, NoteStartWrite
      <3>2. file' = [conn[c].w EXCEPT !.inSession = TRUE]
        BY <2>2 DEF NoteStartWrite
      <3> QED
        BY <1>1, <3>1, <3>2 DEF IsGrant, FileIsAGrant
    <2>3. CASE NoteEndWrite(c)
      <3>1. IsGrant([conn[c].w EXCEPT !.inSession = FALSE, !.last = now])
        BY <1>0, <2>3, MarkKeepsGrant
        DEF GrantInv, CopiesAreGrants, NoteEndWrite
      <3>2. file' = [conn[c].w EXCEPT !.inSession = FALSE, !.last = now]
        BY <2>3 DEF NoteEndWrite
      <3> QED
        BY <1>1, <3>1, <3>2 DEF IsGrant, FileIsAGrant
    <2> QED
      BY <2>1, <2>2, <2>3
      DEF ConnStep, Login, NoteStart, NoteEnd
  <1>3. CopiesAreGrants'
    <2>1. /\ \A d \in Conns \ {c} : conn'[d] = conn[d]
          /\ conn'[c].at \in {"starting", "ending"} =>
                 conn'[c].w = file /\ file # NoWindow
      BY ConnMoves
    <2>2. conn'[c].at \in {"starting", "ending"} => IsGrant(conn'[c].w)
      BY <2>1, FileGrant DEF GrantInv
    <2> QED
      BY <1>1, <2>1, <2>2 DEF GrantInv, CopiesAreGrants, IsGrant
  <1> QED
    BY <1>2, <1>3 DEF GrantInv

\* No other step writes a window: they leave the file or remove it.
LEMMA OthersKeep ==
    ASSUME GrantInv, file' \in {file, NoWindow},
           conn' = conn \/ conn' = [c \in Conns |-> NoConn],
           granted' = granted
    PROVE  GrantInv'
  <1>1. FileIsAGrant'
    BY DEF GrantInv, FileIsAGrant
  <1>2. CopiesAreGrants'
    BY DEF GrantInv, CopiesAreGrants, IsGrant, NoConn
  <1> QED
    BY <1>1, <1>2 DEF GrantInv

LEMMA OtherSteps ==
    ASSUME FoundOver \/ Remove \/ HqClose \/ BeatStep \/ LateServe
           \/ RequestClose \/ Tick \/ Crash \/ UNCHANGED vars
    PROVE  /\ file' \in {file, NoWindow}
           /\ conn' = conn \/ conn' = [c \in Conns |-> NoConn]
           /\ granted' = granted
  BY DEF FoundOver, Remove, HqClose, BeatStep, BeatCompose, BeatDrop,
         BeatServe, BeatClose, BeatMark, BeatLost, LateServe, RequestClose,
         Tick, Crash, vars, pcVars, ghosts

LEMMA NextGrant == TypeOK /\ GrantInv /\ [Next]_vars => GrantInv'
  BY GrantKeeps, ConnKeeps, OthersKeep, OtherSteps DEF Next

(* Whatever processes write back their copies of the file, it is a window the
   customer granted, with the times of the card. *)
THEOREM FileGranted == Spec => []FileIsAGrant
  <1>1. Init => TypeOK /\ GrantInv
    BY InitType, GrantInit
  <1>2. (TypeOK /\ GrantInv) /\ [Next]_vars => (TypeOK /\ GrantInv)'
    BY NextType, NextGrant
  <1>3. TypeOK /\ GrantInv => FileIsAGrant
    BY DEF GrantInv
  <1> QED
    BY <1>1, <1>2, <1>3, PTL DEF Spec

-----------------------------------------------------------------------------
(* A login inside the granted time *)

LEMMA LoginWithin ==
    ASSUME TypeOK, GrantInv, NEW c \in Conns, Login(c)
    PROVE  \E g \in granted : g.from <= now /\ now < g.to
                              /\ now < g.at + MaxWindow
  <1>1. IsOpen(file)
    BY DEF Login
  <1>2. file # NoWindow /\ now >= file.start /\ ~(now >= file.end)
        /\ ~(now - file.granted_at >= MaxWindow)
    BY <1>1 DEF IsOpen, Expired
  <1>3. PICK g \in granted :
            /\ file.granted_at = g.at /\ file.start = g.from
            /\ file.end = g.to
    BY <1>2 DEF GrantInv, FileIsAGrant
  <1>4. now \in Int /\ file.start \in Int /\ file.end \in Int
        /\ file.granted_at \in Int /\ MaxWindow \in Int
    BY BoundAssumption, WindowAssumption DEF TypeOK, Windows
  <1>5. g.from <= now /\ now < g.to /\ now < g.at + MaxWindow
    BY <1>2, <1>3, <1>4
  <1> QED
    BY <1>5

\* Only a login takes a connection from "none" to "pass".
LEMMA OnlyLoginEnters ==
    ASSUME TypeOK, [Next]_vars, NEW c \in Conns,
           conn[c].at = "none", conn'[c].at = "pass"
    PROVE  Login(c)
  <1>0. conn \in [Conns -> [at: {"none", "pass", "starting", "in", "ending"},
                            w: Windows]]
    BY DEF TypeOK
  <1>1. CASE \E d \in Conns : ConnStep(d)
    <2>1. PICK d \in Conns : ConnStep(d)
      BY <1>1
    <2>2. \A e \in Conns \ {d} : conn'[e] = conn[e]
      BY <1>0, <2>1, ConnMoves
    <2>3. d = c
      BY <2>2
    <2> QED
      BY <2>1, <2>3, <1>0, ConnMoves
  <1>2. CASE conn' = conn \/ conn' = [d \in Conns |-> NoConn]
    BY <1>2 DEF NoConn
  <1>3. Grant => conn' = conn
    BY DEF Grant
  <1> QED
    BY <1>1, <1>2, <1>3, OtherSteps DEF Next

(* A login that needs no click happens inside a time the customer granted and
   less than MaxWindow after the grant. *)
THEOREM EntryBounded == Spec => EntryWithinGrant
  <1>1. Init => TypeOK /\ GrantInv
    BY InitType, GrantInit
  <1>2. (TypeOK /\ GrantInv) /\ [Next]_vars => (TypeOK /\ GrantInv)'
    BY NextType, NextGrant
  <1>3. TypeOK /\ GrantInv /\ [Next]_vars =>
            [\A c \in Conns :
               conn[c].at = "none" /\ conn'[c].at = "pass" =>
                 \E g \in granted : g.from <= now /\ now < g.to
                                    /\ now < g.at + MaxWindow]_vars
    BY OnlyLoginEnters, LoginWithin
  <1> QED
    BY <1>1, <1>2, <1>3, PTL DEF Spec, EntryWithinGrant

-----------------------------------------------------------------------------
(* The session mark has a bearer *)

LEMMA NextIdle == TypeOK /\ IdleClockRuns /\ [Next]_vars => IdleClockRuns'
  <1> SUFFICES ASSUME TypeOK, IdleClockRuns, [Next]_vars,
                      crashes' = 0, file'.inSession
               PROVE  \E c \in Conns : conn'[c].at \in {"in", "ending"}
    BY DEF IdleClockRuns
  <1>0. crashes \in Nat /\ NoWindow.inSession = FALSE
    BY BoundAssumption DEF TypeOK, NoWindow
  <1>1. CASE Grant
    <2>1. file'.inSession = FALSE
      BY <1>1, GrantedRecord DEF Grant
    <2> QED
      BY <2>1
  <1>2. CASE \E c \in Conns : ConnStep(c)
    <2>1. PICK c \in Conns : ConnStep(c)
      BY <1>2
    <2>2. crashes = 0
      BY <2>1, ConnMoves
    <2>3. CASE conn'[c].at = "in"
      BY <2>3
    <2>4. CASE /\ file' = file
               /\ (file.inSession /\ conn[c].at \in {"in", "ending"} =>
                     conn'[c].at \in {"in", "ending"})
      <3>1. PICK d \in Conns : conn[d].at \in {"in", "ending"}
        BY <2>2, <2>4 DEF IdleClockRuns
      <3>2. CASE d = c
        BY <2>4, <3>1, <3>2
      <3>3. CASE d # c
        BY <2>1, <3>1, <3>3, ConnMoves
      <3> QED
        BY <3>2, <3>3
    <2> QED
      BY <2>1, <2>3, <2>4, ConnMoves
  <1>3. CASE Crash
    BY <1>0, <1>3 DEF Crash
  <1>4. CASE /\ file' \in {file, NoWindow} /\ conn' = conn
             /\ crashes' = crashes
    BY <1>0, <1>4 DEF IdleClockRuns
  <1>5. FoundOver \/ Remove \/ HqClose \/ BeatStep \/ LateServe
           \/ RequestClose \/ Tick \/ UNCHANGED vars
        => /\ file' \in {file, NoWindow} /\ conn' = conn
           /\ crashes' = crashes
    BY DEF FoundOver, Remove, HqClose, BeatStep, BeatCompose, BeatDrop,
           BeatServe, BeatClose, BeatMark, BeatLost, LateServe, RequestClose,
           Tick, vars, pcVars, ghosts
  <1> QED
    BY <1>1, <1>2, <1>3, <1>4, <1>5 DEF Next

(* Without a power loss the session mark in the file always belongs to a
   connection that is there, for any number of connections. *)
THEOREM IdleClock == Spec => []IdleClockRuns
  <1>1. Init => TypeOK /\ IdleClockRuns
    BY InitType DEF Init, IdleClockRuns, NoWindow
  <1>2. (TypeOK /\ IdleClockRuns) /\ [Next]_vars => (TypeOK /\ IdleClockRuns)'
    BY NextType, NextIdle
  <1> QED
    BY <1>1, <1>2, PTL DEF Spec

-----------------------------------------------------------------------------
(* What the panel shows.  A report is composed from one reading of the file and
   recorded later, perhaps after the agent gave it up: each report on its way
   must already be the end of a grant. *)

GrantEnd(v) == \E g \in granted : v = g.to

ReportsAreGrants ==
    /\ beat.at \in {"drop", "sent"} /\ beat.v # 0 => GrantEnd(beat.v)
    /\ late \notin {NoTime, 0} => GrantEnd(late)

PanelInv == PanelShowsGrants /\ ReportsAreGrants

LEMMA PanelInit == Init => PanelInv
  BY DEF Init, PanelInv, PanelShowsGrants, ReportsAreGrants, NoBeat, NoTime

LEMMA GrantEndStays ==
    ASSUME granted \subseteq granted', NEW v, GrantEnd(v)
    PROVE  GrantEnd(v)'
  BY DEF GrantEnd

\* recordHeartbeat keeps what it knows, empties it or takes the report.
LEMMA RecordShows ==
    ASSUME PanelInv, granted' = granted, NEW v, v # 0 => GrantEnd(v), Record(v)
    PROVE  PanelShowsGrants'
  <1>1. until' = 0 \/ until' = until \/ (v # 0 /\ until' = v)
    BY DEF Record
  <1> QED
    BY <1>1 DEF PanelInv, PanelShowsGrants, GrantEnd

LEMMA PanelStep ==
    TypeOK /\ GrantInv /\ PanelInv /\ [Next]_vars => PanelInv'
  <1> SUFFICES ASSUME TypeOK, GrantInv, PanelInv, [Next]_vars
               PROVE  PanelInv'
    OBVIOUS
  <1>0. PanelShowsGrants /\ ReportsAreGrants
    BY DEF PanelInv
  \* Nothing new is reported.
  <1>1. ASSUME granted \subseteq granted', until' = until, late' = late,
               beat' = beat \/ beat'.at \notin {"drop", "sent"}
        PROVE  PanelInv'
    <2>1. PanelShowsGrants'
      BY <1>0, <1>1 DEF PanelShowsGrants
    <2>2. ReportsAreGrants'
      BY <1>0, <1>1, GrantEndStays DEF ReportsAreGrants
    <2> QED
      BY <2>1, <2>2 DEF PanelInv
  <1>2. CASE Grant
    BY <1>1, <1>2 DEF Grant, panelVars
  <1>3. CASE FoundOver \/ Remove \/ HqClose \/ (\E c \in Conns : ConnStep(c))
             \/ RequestClose \/ Tick \/ UNCHANGED vars
    BY <1>1, <1>3 DEF FoundOver, Remove, HqClose, ConnStep, Login, NoteStart,
       NoteStartWrite, NoteEnd, NoteEndWrite, OnlyConns, RequestClose, Tick, vars,
       panelVars, ghosts
  <1>4. CASE Crash \/ BeatMark
    BY <1>1, <1>4 DEF Crash, BeatMark, NoBeat, panelVars, ghosts
  <1>5. CASE BeatClose
    <2>1. beat'.at \notin {"drop", "sent"}
      BY <1>5 DEF BeatClose, NoBeat, TypeOK
    <2> QED
      BY <1>1, <1>5, <2>1 DEF BeatClose, panelVars, ghosts
  <1>6. CASE BeatCompose
    <2>1. /\ beat'.v = Report(file)
          /\ UNCHANGED <<granted, until, late>>
      BY <1>6 DEF BeatCompose, Reporting, panelVars, ghosts
    <2>2. Report(file) # 0 => GrantEnd(Report(file))
      BY DEF Report, GrantInv, FileIsAGrant, GrantEnd
    <2>3. ReportsAreGrants'
      BY <1>0, <2>1, <2>2 DEF ReportsAreGrants, GrantEnd
    <2> QED
      BY <1>0, <2>1, <2>3 DEF PanelInv, PanelShowsGrants
  <1>7. CASE BeatDrop
    <2>1. /\ beat.at = "drop" /\ beat'.v = beat.v
          /\ UNCHANGED <<granted, until, late>>
      BY <1>7 DEF BeatDrop, panelVars, ghosts, TypeOK
    <2> QED
      BY <1>0, <2>1 DEF PanelInv, PanelShowsGrants, ReportsAreGrants, GrantEnd
  <1>8. CASE BeatServe
    <2>1. /\ beat.at = "sent" /\ beat'.at = "answered" /\ Record(beat.v)
          /\ UNCHANGED <<granted, late>>
      BY <1>8 DEF BeatServe, ghosts
    <2>2. PanelShowsGrants'
      BY <1>0, <2>1, RecordShows DEF ReportsAreGrants
    <2>3. ReportsAreGrants'
      BY <1>0, <2>1 DEF ReportsAreGrants, GrantEnd
    <2> QED
      BY <2>2, <2>3 DEF PanelInv
  <1>9. CASE BeatLost
    <2>1. /\ beat'.at = "idle" /\ UNCHANGED <<granted, until>>
          /\ late' = late \/ (beat.at = "sent" /\ late' = beat.v)
      BY <1>9 DEF BeatLost, NoBeat, panelVars, ghosts
    <2>2. ReportsAreGrants'
      BY <1>0, <2>1 DEF ReportsAreGrants, GrantEnd
    <2> QED
      BY <1>0, <2>1, <2>2 DEF PanelInv, PanelShowsGrants
  <1>10. CASE LateServe
    <2>1. /\ late # NoTime /\ late' = NoTime /\ Record(late)
          /\ UNCHANGED <<granted, beat>>
      BY <1>10 DEF LateServe, ghosts
    <2>2. PanelShowsGrants'
      BY <1>0, <2>1, RecordShows DEF ReportsAreGrants
    <2>3. ReportsAreGrants'
      BY <1>0, <2>1 DEF ReportsAreGrants, GrantEnd
    <2> QED
      BY <2>2, <2>3 DEF PanelInv
  <1> QED
    BY <1>2, <1>3, <1>4, <1>5, <1>6, <1>7, <1>8, <1>9, <1>10 DEF Next, BeatStep

(* The time the panel shows as the end of the window is the end of a window the
   customer granted, whatever reports were lost, late or overtaken by another
   grant (send_heartbeat, recordHeartbeat). *)
THEOREM PanelGranted == Spec => []PanelShowsGrants
  <1>1. Init => TypeOK /\ GrantInv /\ PanelInv
    BY InitType, GrantInit, PanelInit
  <1>2. (TypeOK /\ GrantInv /\ PanelInv) /\ [Next]_vars =>
            (TypeOK /\ GrantInv /\ PanelInv)'
    BY NextType, NextGrant, PanelStep
  <1>3. PanelInv => PanelShowsGrants
    BY DEF PanelInv
  <1> QED
    BY <1>1, <1>2, <1>3, PTL DEF Spec
=============================================================================
