---------------------------- MODULE SeatsProofs ----------------------------
(***************************************************************************)
(* Proofs about seat enforcement, for any number of accounts, PCs, seats,  *)
(* heartbeats under way and logins.                                        *)
(*                                                                         *)
(* The argument for OneLivePC: a jti is issued to one PC and never leaves  *)
(* it.  Neither the seat nor the token in memory says so on its own: copies*)
(* of a token travel in the login answer and in every heartbeat, and a     *)
(* heartbeat's answer may put an old copy back.  The invariant is          *)
(* therefore about every jti a PC holds anywhere (Held).                   *)
(***************************************************************************)
EXTENDS Seats, TLAPS

\* The jtis of all copies of tokens at PC d or on their way to it.
Held(d) ==
    {j \in Jtis :
        \/ token[d].jti = j
        \/ login[d].at \in {"granted", "stored"} /\ login[d].token.jti = j
        \/ \E s \in Slots : beat[d][s] # NoBeat /\ beat[d][s].token.jti = j}

\* Every jti in use has been issued, and to one PC only.
OwnJti ==
    /\ \A d \in Devices : \A j \in Held(d) : j <= issued
    /\ \A d, e \in Devices : Held(d) \cap Held(e) # {} => d = e

SeatInv == TypeOK /\ OwnJti

-----------------------------------------------------------------------------
(* Types *)

LEMMA BeatsType ==
    ASSUME TypeOK, NEW d \in Devices, NEW s \in Slots
    PROVE  /\ beat[d] \in [Slots -> Beats]
           /\ beat[d][s] \in Beats
           /\ beat[d][s] # NoBeat => beat[d][s].token \in Tokens
           /\ beat[d][s].at # "none" => beat[d][s] # NoBeat
           /\ \A b \in Beats : [beat EXCEPT ![d][s] = b]
                                  \in [Devices -> [Slots -> Beats]]
  <1>1. beat[d] \in [Slots -> Beats] /\ beat[d][s] \in Beats
    BY DEF TypeOK
  <1>2. beat[d][s] # NoBeat => beat[d][s].token \in Tokens
    BY <1>1 DEF Beats
  <1>3. beat[d][s].at # "none" => beat[d][s] # NoBeat
    BY DEF NoBeat
  <1>4. \A b \in Beats : [beat EXCEPT ![d][s] = b] \in [Devices -> [Slots -> Beats]]
    BY DEF TypeOK
  <1> QED BY <1>1, <1>2, <1>3, <1>4

\* The answer to a heartbeat keeps its token.
LEMMA BeatMoves ==
    ASSUME TypeOK, NEW d \in Devices, NEW s \in Slots, beat[d][s].at # "none",
           NEW a \in {"auth", "check", "touch", "ok", "revoked", "401"},
           beat' = [beat EXCEPT ![d][s].at = a]
    PROVE  /\ beat' \in [Devices -> [Slots -> Beats]]
           /\ \E b \in Beats : /\ beat' = [beat EXCEPT ![d][s] = b]
                               /\ b # NoBeat /\ b.token = beat[d][s].token
  <1>1. beat[d][s] \in Beats /\ beat[d][s] # NoBeat
        /\ beat[d][s].token \in Tokens
    BY BeatsType
  <1> DEFINE b == [beat[d][s] EXCEPT !.at = a]
  <1>2. b \in Beats /\ b # NoBeat /\ b.token = beat[d][s].token
    BY <1>1 DEF Beats, NoBeat
  <1>3. beat' = [beat EXCEPT ![d][s] = b]
    OBVIOUS
  <1> HIDE DEF b
  <1>4. beat' \in [Devices -> [Slots -> Beats]]
    BY <1>2, <1>3, BeatsType
  <1> QED BY <1>2, <1>3, <1>4

LEMMA VerdictType ==
    ASSUME NEW t
    PROVE  Verdict(t) \in {"401", "revoked", "ok"}
  BY DEF Verdict

LEMMA LoginsType ==
    ASSUME TypeOK, NEW d \in Devices
    PROVE  /\ login[d] \in Logins
           /\ login[d].at \in {"check", "claim", "occupied"} =>
                 /\ login[d] \in [at: {"check", "claim", "occupied"},
                                  user: Users, force: BOOLEAN]
                 /\ login[d].user \in Users
           /\ login[d].at \in {"granted", "stored"} =>
                 /\ login[d] \in [at: {"granted", "stored"}, token: Tokens]
                 /\ login[d].token \in Tokens
           /\ \A l \in Logins : [login EXCEPT ![d] = l] \in [Devices -> Logins]
           /\ NoLogin \in Logins
  <1>1. login[d] \in Logins
    BY DEF TypeOK
  <1>2. login[d].at \in {"check", "claim", "occupied"} =>
           /\ login[d] \in [at: {"check", "claim", "occupied"},
                            user: Users, force: BOOLEAN]
           /\ login[d].user \in Users
    BY <1>1 DEF Logins, NoLogin
  <1>3. login[d].at \in {"granted", "stored"} =>
           /\ login[d] \in [at: {"granted", "stored"}, token: Tokens]
           /\ login[d].token \in Tokens
    BY <1>1 DEF Logins, NoLogin
  <1>4. /\ \A l \in Logins : [login EXCEPT ![d] = l] \in [Devices -> Logins]
        /\ NoLogin \in Logins
    BY DEF TypeOK, Logins
  <1> QED BY <1>1, <1>2, <1>3, <1>4

LEMMA LogOutType ==
    ASSUME TypeOK, NEW d \in Devices, LogOut(d)
    PROVE  /\ token' \in [Devices -> Tokens \cup {NoToken}]
           /\ authed' \in [Devices -> BOOLEAN]
           /\ timer' \in [Devices -> BOOLEAN]
           /\ logouts' \subseteq Tokens
  BY DEF TypeOK, LogOut

LEMMA TypeLogin ==
    ASSUME TypeOK, NEW d \in Devices,
           \/ \E u \in Users : Submit(d, u)
           \/ LoginCheck(d) \/ LoginClaim(d) \/ Takeover(d)
           \/ Store(d) \/ Enter(d) \/ LoginLost(d)
    PROVE  TypeOK'
  <1> USE DEF serverVars
  <1>1. CASE \E u \in Users : Submit(d, u)
    <2>1. login' \in [Devices -> Logins]
      BY <1>1, LoginsType DEF Submit, Logins
    <2> QED BY <1>1, <2>1 DEF Submit, TypeOK
  <1>2. CASE LoginCheck(d)
    <2>1. login' \in [Devices -> Logins]
      BY <1>2, LoginsType DEF LoginCheck, Logins
    <2> QED BY <1>2, <2>1 DEF LoginCheck, TypeOK
  <1>3. CASE LoginClaim(d)
    <2>1. login[d].user \in Users
      BY <1>3, LoginsType DEF LoginClaim
    <2>2. CASE MayClaim(login[d].user, d, login[d].force)
      <3>1. issued' \in 0..MaxLogins /\ issued + 1 \in Jtis
        BY <1>3, <2>2, SeatsAssumption DEF LoginClaim, TypeOK, Jtis
      <3>2. seat' \in [Users -> {NoSeat} \cup
                          [jti: Jtis, device: Devices, fresh: BOOLEAN]]
        <4> DEFINE q == [jti |-> issued + 1, device |-> d, fresh |-> TRUE]
        <4>1. q \in [jti: Jtis, device: Devices, fresh: BOOLEAN]
          BY <3>1
        <4>2. seat' = [seat EXCEPT ![login[d].user] = q]
          BY <1>3, <2>2 DEF LoginClaim
        <4> HIDE DEF q
        <4> QED BY <2>1, <4>1, <4>2 DEF TypeOK
      <3>3. [user |-> login[d].user, jti |-> issued + 1, age |-> "new"] \in Tokens
        BY <2>1, <3>1 DEF Tokens, Ages
      <3>4. login' \in [Devices -> Logins]
        BY <1>3, <2>2, <3>3, LoginsType DEF LoginClaim, Logins
      <3> QED BY <1>3, <3>1, <3>2, <3>4 DEF LoginClaim, TypeOK
    <2>3. CASE ~MayClaim(login[d].user, d, login[d].force)
      <3>1. login' \in [Devices -> Logins]
        BY <1>3, <2>3, LoginsType DEF LoginClaim, Logins
      <3> QED BY <1>3, <2>3, <3>1 DEF LoginClaim, TypeOK
    <2> QED BY <2>2, <2>3
  <1>4. CASE Takeover(d)
    <2>1. login' \in [Devices -> Logins]
      <3> DEFINE l == [login[d] EXCEPT !.at = "check", !.force = TRUE]
      <3>1. l \in Logins
        BY <1>4, LoginsType DEF Takeover, Logins
      <3>2. login' = [login EXCEPT ![d] = l] \/ login' = [login EXCEPT ![d] = NoLogin]
        BY <1>4 DEF Takeover
      <3> HIDE DEF l
      <3> QED BY <3>1, <3>2, LoginsType
    <2> QED BY <1>4, <2>1 DEF Takeover, TypeOK
  <1>5. CASE Store(d)
    <2>1. login' \in [Devices -> Logins]
      BY <1>5, LoginsType DEF Store, Logins
    <2>2. token' \in [Devices -> Tokens \cup {NoToken}]
      BY <1>5, LoginsType DEF Store, TypeOK
    <2> QED BY <1>5, <2>1, <2>2 DEF Store, TypeOK
  <1>6. CASE Enter(d)
    <2>1. login' \in [Devices -> Logins]
      BY <1>6, LoginsType DEF Enter
    <2> QED BY <1>6, <2>1 DEF Enter, TypeOK
  <1>7. CASE LoginLost(d)
    <2>1. login' \in [Devices -> Logins]
      BY <1>7, LoginsType DEF LoginLost
    <2> QED BY <1>7, <2>1 DEF LoginLost, TypeOK
  <1> QED BY <1>1, <1>2, <1>3, <1>4, <1>5, <1>6, <1>7

LEMMA TypeBeat ==
    ASSUME TypeOK, NEW d \in Devices, NEW s \in Slots,
           \/ BeatSend(d, s) \/ BeatAuth(d, s) \/ BeatCheck(d, s)
           \/ BeatTouch(d, s) \/ BeatReply(d, s) \/ BeatLost(d, s)
    PROVE  TypeOK'
  <1> USE DEF serverVars
  <1>0. NoBeat \in Beats
    BY DEF Beats
  <1>1. CASE BeatSend(d, s)
    <2>1. token[d] \in Tokens
      BY <1>1 DEF BeatSend, TypeOK
    <2>2. [at |-> "auth", token |-> token[d]] \in Beats
      BY <2>1 DEF Beats
    <2>3. beat' \in [Devices -> [Slots -> Beats]]
      BY <1>1, <2>2, BeatsType DEF BeatSend
    <2> QED BY <1>1, <2>3 DEF BeatSend, TypeOK
  <1>2. CASE BeatAuth(d, s)
    <2>1. beat' \in [Devices -> [Slots -> Beats]]
      BY <1>2, BeatMoves, VerdictType DEF BeatAuth
    <2> QED BY <1>2, <2>1 DEF BeatAuth, TypeOK
  <1>3. CASE BeatCheck(d, s)
    <2>1. beat' \in [Devices -> [Slots -> Beats]]
      BY <1>3, BeatMoves DEF BeatCheck
    <2> QED BY <1>3, <2>1 DEF BeatCheck, TypeOK
  <1>4. CASE BeatTouch(d, s)
    <2>1. beat' \in [Devices -> [Slots -> Beats]]
      BY <1>4, BeatMoves DEF BeatTouch
    <2>2. beat[d][s].token.user \in Users /\ beat[d][s].token.jti # 0
      BY <1>4, BeatsType DEF BeatTouch, Tokens, Jtis
    <2>3. seat' \in [Users -> {NoSeat} \cup
                        [jti: Jtis, device: Devices, fresh: BOOLEAN]]
      <3> DEFINE u == beat[d][s].token.user
                 q == [seat[u] EXCEPT !.fresh = TRUE]
      <3>1. CASE seat' = seat
        BY <3>1 DEF TypeOK
      <3>2. CASE seat[u].jti = beat[d][s].token.jti
                 /\ seat' = [seat EXCEPT ![u] = q]
        <4>1. seat[u] \in [jti: Jtis, device: Devices, fresh: BOOLEAN]
          BY <2>2, <3>2 DEF TypeOK, NoSeat
        <4>2. q \in [jti: Jtis, device: Devices, fresh: BOOLEAN]
          BY <4>1
        <4> HIDE DEF q
        <4> QED BY <2>2, <3>2, <4>2 DEF TypeOK
      <3> QED BY <1>4, <3>1, <3>2 DEF BeatTouch
    <2> QED BY <1>4, <2>1, <2>3 DEF BeatTouch, TypeOK
  <1>5. CASE BeatOk(d, s)
    <2>1. beat' \in [Devices -> [Slots -> Beats]]
      BY <1>0, <1>5, BeatsType DEF BeatOk
    <2>2. beat[d][s].token \in Tokens
      BY <1>5, BeatsType DEF BeatOk
    <2>3. [beat[d][s].token EXCEPT !.age = "new"] \in Tokens
      BY <2>2 DEF Tokens, Ages
    <2>4. token' \in [Devices -> Tokens \cup {NoToken}]
      BY <1>5, <2>3 DEF BeatOk, TypeOK
    <2>5. streak' \in [Devices -> 0..StreakLimit]
      BY <1>5, SeatsAssumption DEF BeatOk, TypeOK
    <2> QED BY <1>5, <2>1, <2>4, <2>5 DEF BeatOk, TypeOK
  <1>6. CASE BeatRevoked(d, s)
    <2>1. beat' \in [Devices -> [Slots -> Beats]]
      BY <1>0, <1>6, BeatsType DEF BeatRevoked
    <2>2. /\ gate' \in [Devices -> {"none", "closing", "dialog"}]
          /\ timer' \in [Devices -> BOOLEAN]
      BY <1>6 DEF BeatRevoked, TypeOK
    <2> QED BY <1>6, <2>1, <2>2 DEF BeatRevoked, TypeOK
  <1>7. CASE BeatExpired(d, s)
    <2>1. beat' \in [Devices -> [Slots -> Beats]]
      BY <1>0, <1>7, BeatsType DEF BeatExpired
    <2>2. /\ gate' \in [Devices -> {"none", "closing", "dialog"}]
          /\ timer' \in [Devices -> BOOLEAN]
      BY <1>7 DEF BeatExpired, TypeOK
    <2>3. streak' \in [Devices -> 0..StreakLimit]
      BY <1>7, SeatsAssumption DEF BeatExpired, TypeOK
    <2> QED BY <1>7, <2>1, <2>2, <2>3 DEF BeatExpired, TypeOK
  <1>8. CASE BeatLost(d, s)
    <2>1. beat' \in [Devices -> [Slots -> Beats]]
      BY <1>0, <1>8, BeatsType DEF BeatLost
    <2> QED BY <1>8, <2>1 DEF BeatLost, TypeOK
  <1> QED BY <1>1, <1>2, <1>3, <1>4, <1>5, <1>6, <1>7, <1>8 DEF BeatReply

LEMMA TypeRest ==
    ASSUME TypeOK, LeaveStep \/ AdminStep \/ TimeStep
    PROVE  TypeOK'
  <1> USE DEF serverVars, clientVars
  <1>1. ASSUME NEW d \in Devices, UserLogout(d)
        PROVE  TypeOK'
    BY <1>1, LogOutType DEF UserLogout, TypeOK
  <1>2. ASSUME NEW d \in Devices, ShowDialog(d)
        PROVE  TypeOK'
    BY <1>2 DEF ShowDialog, TypeOK
  <1>3. ASSUME NEW d \in Devices, Confirm(d)
        PROVE  TypeOK'
    BY <1>3, LogOutType DEF Confirm, TypeOK
  <1>4. ASSUME NEW d \in Devices, AppDies(d)
        PROVE  TypeOK'
    <2>1. beat' \in [Devices -> [Slots -> Beats]]
      BY <1>4 DEF AppDies, TypeOK, Beats
    <2>2. login' \in [Devices -> Logins]
      BY <1>4 DEF AppDies, TypeOK, Logins
    <2>3. streak' \in [Devices -> 0..StreakLimit]
      BY <1>4, SeatsAssumption DEF AppDies, TypeOK
    <2> QED BY <1>4, <2>1, <2>2, <2>3 DEF AppDies, TypeOK
  <1>5. ASSUME NEW t \in logouts, Release(t) \/ LogoutLost(t)
        PROVE  TypeOK'
    <2>1. seat' = seat \/ seat' = [seat EXCEPT ![t.user] = NoSeat]
      BY <1>5 DEF Release, LogoutLost
    <2>2. seat' \in [Users -> {NoSeat} \cup
                        [jti: Jtis, device: Devices, fresh: BOOLEAN]]
      BY <2>1 DEF TypeOK
    <2> QED BY <1>5, <2>2 DEF Release, LogoutLost, TypeOK
  <1>6. ASSUME Act
        PROVE  acts' \in 0..MaxAdmin
    BY <1>6, SeatsAssumption DEF Act, TypeOK
  <1>7. ASSUME NEW u \in Users, ResetPassword(u)
        PROVE  TypeOK'
    BY <1>6, <1>7 DEF ResetPassword, TypeOK
  <1>8. ASSUME NEW u \in Users, NEW on \in BOOLEAN, SetActive(u, on)
        PROVE  TypeOK'
    <2>1. active' \in [Users -> BOOLEAN] /\ revoke' \subseteq Users \X {"self", "admin"}
      BY <1>8 DEF SetActive, TypeOK
    <2> QED BY <1>6, <1>8, <2>1 DEF SetActive, TypeOK
  <1>9. ASSUME NEW d \in Devices, ChangePassword(d)
        PROVE  TypeOK'
    <2>1. token[d].user \in Users
      BY <1>9 DEF ChangePassword, Accepted, TypeOK, Tokens
    <2> QED BY <1>6, <1>9, <2>1 DEF ChangePassword, TypeOK
  <1>10. ASSUME NEW r \in revoke, RevokeSeat(r)
         PROVE  TypeOK'
    BY <1>10 DEF RevokeSeat, TypeOK
  <1>11. ASSUME NEW on \in BOOLEAN, SetPaid(on)
         PROVE  TypeOK'
    BY <1>6, <1>11 DEF SetPaid, TypeOK
  <1>12. ASSUME NEW u \in Users, SeatStale(u)
         PROVE  TypeOK'
    <2> DEFINE q == [seat[u] EXCEPT !.fresh = FALSE]
    <2>1. seat[u] \in [jti: Jtis, device: Devices, fresh: BOOLEAN]
      BY <1>12 DEF SeatStale, TypeOK, NoSeat
    <2>2. q \in [jti: Jtis, device: Devices, fresh: BOOLEAN]
      BY <2>1
    <2>3. seat' = [seat EXCEPT ![u] = q]
      BY <1>12 DEF SeatStale
    <2> HIDE DEF q
    <2>4. seat' \in [Users -> {NoSeat} \cup
                        [jti: Jtis, device: Devices, fresh: BOOLEAN]]
      BY <2>2, <2>3 DEF TypeOK
    <2> QED BY <1>12, <2>4 DEF SeatStale, TypeOK
  <1>13. ASSUME NEW d \in Devices, TokenAges(d)
         PROVE  TypeOK'
    <2> DEFINE a == IF token[d].age = "new" THEN "old" ELSE "expired"
               t == [token[d] EXCEPT !.age = a]
    <2>1. token[d] \in Tokens
      BY <1>13 DEF TokenAges, TypeOK
    <2>2. t \in Tokens
      BY <2>1 DEF Tokens, Ages
    <2>3. token' = [token EXCEPT ![d] = t]
      BY <1>13 DEF TokenAges
    <2> HIDE DEF t
    <2>4. token' \in [Devices -> Tokens \cup {NoToken}]
      BY <2>2, <2>3 DEF TypeOK
    <2> QED BY <1>13, <2>4 DEF TokenAges, TypeOK
  <1> QED
    BY <1>1, <1>2, <1>3, <1>4, <1>5, <1>7, <1>8, <1>9, <1>10, <1>11, <1>12, <1>13
    DEF LeaveStep, AdminStep, TimeStep
LEMMA TypeStep ==
    TypeOK /\ [Next]_vars => TypeOK'
  <1> SUFFICES ASSUME TypeOK, [Next]_vars
               PROVE  TypeOK'
    OBVIOUS
  <1>1. CASE LoginStep
    BY <1>1, TypeLogin DEF LoginStep
  <1>2. CASE BeatStep
    BY <1>2, TypeBeat DEF BeatStep
  <1>3. CASE LeaveStep \/ AdminStep \/ TimeStep
    BY <1>3, TypeRest
  <1>4. CASE UNCHANGED vars
    BY <1>4 DEF vars, serverVars, clientVars, TypeOK
  <1> QED BY <1>1, <1>2, <1>3, <1>4 DEF Next

LEMMA TypeInit ==
    Init => TypeOK
  <1> SUFFICES ASSUME Init
               PROVE  TypeOK
    OBVIOUS
  <1>1. /\ seat \in [Users -> {NoSeat} \cup
                        [jti: Jtis, device: Devices, fresh: BOOLEAN]]
        /\ issued \in 0..MaxLogins
        /\ acts \in 0..MaxAdmin
        /\ streak \in [Devices -> 0..StreakLimit]
    BY SeatsAssumption DEF Init
  <1>2. /\ login \in [Devices -> Logins]
        /\ beat \in [Devices -> [Slots -> Beats]]
    BY DEF Init, Logins, Beats
  <1> QED BY <1>1, <1>2 DEF Init, TypeOK

-----------------------------------------------------------------------------
(* A jti stays with the PC it was issued to *)

\* What a PC holds after a step of that PC, when every copy it has then is a
\* copy it had before.
LEMMA HeldByStep ==
    ASSUME NEW d \in Devices,
           \A e \in Devices \ {d} :
               token'[e] = token[e] /\ login'[e] = login[e] /\ beat'[e] = beat[e],
           token'[d].jti \in Jtis => token'[d].jti \in Held(d),
           login'[d].at \in {"granted", "stored"} /\ login'[d].token.jti \in Jtis
              => login'[d].token.jti \in Held(d),
           \A s \in Slots : beat'[d][s] # NoBeat /\ beat'[d][s].token.jti \in Jtis
              => beat'[d][s].token.jti \in Held(d)
    PROVE  \A e \in Devices : Held(e)' \subseteq Held(e)
  <1> SUFFICES ASSUME NEW e \in Devices, NEW j \in Held(e)'
               PROVE  j \in Held(e)
    OBVIOUS
  <1>1. j \in Jtis
    BY DEF Held
  <1>2. CASE e = d
    BY <1>1, <1>2 DEF Held
  <1>3. CASE e # d
    BY <1>3 DEF Held
  <1> QED BY <1>2, <1>3

LEMMA HeldUnchanged ==
    ASSUME UNCHANGED <<token, login, beat>>
    PROVE  \A e \in Devices : Held(e)' \subseteq Held(e)
  BY DEF Held

\* The copies a PC has: in memory, in a login's answer and in a heartbeat.
LEMMA HeldCopies ==
    ASSUME NEW d \in Devices
    PROVE  /\ token[d].jti \in Jtis => token[d].jti \in Held(d)
           /\ login[d].at \in {"granted", "stored"} /\ login[d].token.jti \in Jtis
                 => login[d].token.jti \in Held(d)
           /\ \A s \in Slots : beat[d][s] # NoBeat /\ beat[d][s].token.jti \in Jtis
                 => beat[d][s].token.jti \in Held(d)
  BY DEF Held

LEMMA OwnKept ==
    ASSUME TypeOK, TypeOK', OwnJti, issued' >= issued,
           \A e \in Devices : Held(e)' \subseteq Held(e)
    PROVE  OwnJti'
  <1>1. issued \in Nat /\ issued' \in Nat
    BY SeatsAssumption DEF TypeOK
  <1>2. ASSUME NEW e \in Devices, NEW j \in Held(e)'
        PROVE  j <= issued'
    <2>1. j \in Held(e)
      BY <1>2
    <2>2. j \in Nat
      BY <2>1, SeatsAssumption DEF Held, Jtis
    <2>3. j <= issued
      BY <2>1 DEF OwnJti
    <2> QED BY <1>1, <2>2, <2>3
  <1>3. \A d, e \in Devices : Held(d)' \cap Held(e)' # {} => d = e
    BY DEF OwnJti
  <1> QED BY <1>2, <1>3 DEF OwnJti
\* The one action that gives a PC a jti it did not have: a new one.
LEMMA OwnClaim ==
    ASSUME TypeOK, TypeOK', OwnJti, NEW d \in Devices, LoginClaim(d)
    PROVE  OwnJti'
  <1>1. CASE ~MayClaim(login[d].user, d, login[d].force)
    <2>1. login'[d].at = "occupied"
      BY <1>1, LoginsType DEF LoginClaim, TypeOK
    <2>2. \A e \in Devices : Held(e)' \subseteq Held(e)
      <3>1. \A e \in Devices \ {d} : login'[e] = login[e]
        BY <1>1 DEF LoginClaim, TypeOK
      <3> QED BY <2>1, <3>1, HeldCopies, HeldByStep DEF LoginClaim
    <2>3. issued' = issued /\ issued \in Nat
      BY <1>1, SeatsAssumption DEF LoginClaim, TypeOK
    <2> QED BY <2>2, <2>3, OwnKept
  <1>2. CASE MayClaim(login[d].user, d, login[d].force)
    <2>1. /\ issued' = issued + 1
          /\ issued \in Nat
          /\ UNCHANGED <<token, beat>>
          /\ login'[d].at = "granted" /\ login'[d].token.jti = issued + 1
          /\ \A e \in Devices \ {d} : login'[e] = login[e]
      BY <1>2, SeatsAssumption DEF LoginClaim, TypeOK
    <2>2. Held(d)' \subseteq Held(d) \cup {issued + 1}
      BY <2>1 DEF Held
    <2>3. \A e \in Devices \ {d} : Held(e)' = Held(e)
      BY <2>1 DEF Held
    <2>4. \A e \in Devices : \A j \in Held(e) : j \in Nat /\ j <= issued
      <3>1. \A e \in Devices : \A j \in Held(e) : j \in Nat
        BY SeatsAssumption DEF Held, Jtis
      <3> QED BY <3>1 DEF OwnJti
    <2>5. \A e \in Devices : issued + 1 \notin Held(e)
      BY <2>1, <2>4
    <2>6. \A e \in Devices : \A j \in Held(e)' : j <= issued'
      BY <2>1, <2>2, <2>3, <2>4
    <2>7. ASSUME NEW e \in Devices, NEW f \in Devices,
                 Held(e)' \cap Held(f)' # {}
          PROVE  e = f
      <3>1. PICK j : j \in Held(e)' /\ j \in Held(f)'
        BY <2>7
      <3>2. CASE e = d \/ f = d
        BY <2>2, <2>3, <2>5, <3>1, <3>2 DEF OwnJti
      <3>3. CASE e # d /\ f # d
        BY <2>3, <3>1, <3>3 DEF OwnJti
      <3> QED BY <3>2, <3>3
    <2> QED BY <2>6, <2>7 DEF OwnJti
  <1> QED BY <1>1, <1>2

LEMMA OwnLogin ==
    ASSUME TypeOK, NEW d \in Devices,
           \/ \E u \in Users : Submit(d, u)
           \/ LoginCheck(d) \/ Takeover(d) \/ Store(d) \/ Enter(d) \/ LoginLost(d)
    PROVE  \A e \in Devices : Held(e)' \subseteq Held(e)
  <1>1. CASE \E u \in Users : Submit(d, u)
    <2>1. /\ login'[d].at = "check" /\ UNCHANGED <<token, beat>>
          /\ \A e \in Devices \ {d} : login'[e] = login[e]
      BY <1>1 DEF Submit, TypeOK
    <2> QED BY <2>1, HeldCopies, HeldByStep
  <1>2. CASE LoginCheck(d)
    <2>1. /\ login'[d].at \in {"claim", "none"} /\ UNCHANGED <<token, beat>>
          /\ \A e \in Devices \ {d} : login'[e] = login[e]
      BY <1>2, LoginsType DEF LoginCheck, NoLogin, TypeOK
    <2> QED BY <2>1, HeldCopies, HeldByStep
  <1>3. CASE Takeover(d)
    <2> DEFINE l == [login[d] EXCEPT !.at = "check", !.force = TRUE]
    <2>0. l.at = "check" /\ NoLogin.at = "none"
      BY <1>3, LoginsType DEF Takeover, NoLogin
    <2> HIDE DEF l
    <2>1. /\ login'[d].at \in {"check", "none"} /\ UNCHANGED <<token, beat>>
          /\ \A e \in Devices \ {d} : login'[e] = login[e]
      BY <1>3, <2>0 DEF Takeover, TypeOK, l
    <2> QED BY <2>1, HeldCopies, HeldByStep
  <1>4. CASE Store(d)
    <2>1. /\ token'[d] = login[d].token /\ UNCHANGED beat
          /\ login'[d].at = "stored" /\ login'[d].token = login[d].token
          /\ login[d].at = "granted"
          /\ \A e \in Devices \ {d} : login'[e] = login[e] /\ token'[e] = token[e]
      BY <1>4, LoginsType DEF Store, TypeOK
    <2> QED BY <2>1, HeldCopies, HeldByStep
  <1>5. CASE Enter(d) \/ LoginLost(d)
    <2>1. /\ login'[d].at = "none" /\ UNCHANGED <<token, beat>>
          /\ \A e \in Devices \ {d} : login'[e] = login[e]
      BY <1>5 DEF Enter, LoginLost, NoLogin, TypeOK
    <2> QED BY <2>1, HeldCopies, HeldByStep
  <1> QED BY <1>1, <1>2, <1>3, <1>4, <1>5

LEMMA OwnBeat ==
    ASSUME TypeOK, NEW d \in Devices, NEW s \in Slots,
           \/ BeatSend(d, s) \/ BeatAuth(d, s) \/ BeatCheck(d, s)
           \/ BeatTouch(d, s) \/ BeatReply(d, s) \/ BeatLost(d, s)
    PROVE  \A e \in Devices : Held(e)' \subseteq Held(e)
  <1>1. ASSUME NEW b, beat' = [beat EXCEPT ![d][s] = b]
        PROVE  /\ beat'[d][s] = b
               /\ \A r \in Slots \ {s} : beat'[d][r] = beat[d][r]
               /\ \A e \in Devices \ {d} : beat'[e] = beat[e]
    BY <1>1 DEF TypeOK
  <1>2. CASE BeatSend(d, s)
    <2> DEFINE b == [at |-> "auth", token |-> token[d]]
    <2>1. beat' = [beat EXCEPT ![d][s] = b] /\ UNCHANGED <<token, login>>
      BY <1>2 DEF BeatSend
    <2>2. b.token = token[d]
      OBVIOUS
    <2> HIDE DEF b
    <2> QED BY <1>1, <2>1, <2>2, HeldCopies, HeldByStep
  <1>3. CASE BeatAuth(d, s) \/ BeatCheck(d, s) \/ BeatTouch(d, s)
    <2>1. /\ UNCHANGED <<token, login>>
          /\ beat[d][s].at # "none"
          /\ \E a \in {"auth", "check", "touch", "ok", "revoked", "401"} :
                beat' = [beat EXCEPT ![d][s].at = a]
      BY <1>3, VerdictType DEF BeatAuth, BeatCheck, BeatTouch
    <2> PICK a \in {"auth", "check", "touch", "ok", "revoked", "401"} :
             beat' = [beat EXCEPT ![d][s].at = a]
      BY <2>1
    <2> DEFINE b == [beat[d][s] EXCEPT !.at = a]
    <2>2. beat' = [beat EXCEPT ![d][s] = b] /\ b.token = beat[d][s].token
      BY <2>1, BeatsType DEF Beats
    <2> HIDE DEF b
    <2>3. beat[d][s] # NoBeat
      BY <2>1, BeatsType
    <2> QED BY <1>1, <2>1, <2>2, <2>3, HeldCopies, HeldByStep
  <1>4. CASE BeatReply(d, s) \/ BeatLost(d, s)
    <2>1. beat' = [beat EXCEPT ![d][s] = NoBeat] /\ UNCHANGED login
      BY <1>4 DEF BeatReply, BeatOk, BeatRevoked, BeatExpired, BeatLost
    <2>2. CASE UNCHANGED token
      BY <1>1, <2>1, <2>2, HeldCopies, HeldByStep
    <2>3. CASE BeatOk(d, s) /\ beat[d][s].token.age = "old"
      <3>1. beat[d][s] # NoBeat /\ beat[d][s].token \in Tokens
        BY <2>3, BeatsType DEF BeatOk
      <3>2. /\ token'[d].jti = beat[d][s].token.jti
            /\ \A e \in Devices \ {d} : token'[e] = token[e]
        BY <2>3, <3>1 DEF BeatOk, TypeOK, Tokens
      <3> QED BY <1>1, <2>1, <3>1, <3>2, HeldCopies, HeldByStep
    <2> QED
      BY <1>4, <2>2, <2>3 DEF BeatReply, BeatOk, BeatRevoked, BeatExpired, BeatLost
  <1> QED BY <1>2, <1>3, <1>4

LEMMA OwnRest ==
    ASSUME TypeOK, LeaveStep \/ AdminStep \/ TimeStep
    PROVE  \A e \in Devices : Held(e)' \subseteq Held(e)
  <1>1. ASSUME NEW d \in Devices, UserLogout(d) \/ Confirm(d)
        PROVE  \A e \in Devices : Held(e)' \subseteq Held(e)
    <2>1. /\ token'[d].jti = 0 /\ UNCHANGED <<login, beat>>
          /\ \A e \in Devices \ {d} : token'[e] = token[e]
      BY <1>1 DEF UserLogout, Confirm, LogOut, NoToken, TypeOK
    <2>2. 0 \notin Jtis
      BY DEF Jtis
    <2> QED BY <2>1, <2>2, HeldCopies, HeldByStep
  <1>2. ASSUME NEW d \in Devices, AppDies(d)
        PROVE  \A e \in Devices : Held(e)' \subseteq Held(e)
    <2>1. /\ token'[d].jti = 0 /\ login'[d].at = "none"
          /\ \A s \in Slots : beat'[d][s] = NoBeat
          /\ \A e \in Devices \ {d} :
                token'[e] = token[e] /\ login'[e] = login[e] /\ beat'[e] = beat[e]
      BY <1>2 DEF AppDies, NoToken, NoLogin, TypeOK
    <2>2. 0 \notin Jtis
      BY DEF Jtis
    <2> QED BY <2>1, <2>2, HeldByStep
  <1>3. ASSUME NEW d \in Devices, TokenAges(d)
        PROVE  \A e \in Devices : Held(e)' \subseteq Held(e)
    <2>1. token[d] \in Tokens
      BY <1>3 DEF TokenAges, TypeOK
    <2>2. /\ token'[d].jti = token[d].jti /\ UNCHANGED <<login, beat>>
          /\ \A e \in Devices \ {d} : token'[e] = token[e]
      BY <1>3, <2>1 DEF TokenAges, TypeOK, Tokens
    <2> QED BY <2>2, HeldCopies, HeldByStep
  <1>4. CASE UNCHANGED <<token, login, beat>>
    BY <1>4, HeldUnchanged
  <1>5. \/ UNCHANGED <<token, login, beat>>
        \/ \E d \in Devices : UserLogout(d) \/ Confirm(d) \/ AppDies(d)
                              \/ TokenAges(d)
    BY DEF LeaveStep, AdminStep, TimeStep, ShowDialog, Release, LogoutLost,
           ResetPassword, SetActive, ChangePassword, RevokeSeat, SetPaid,
           SeatStale, clientVars
  <1> QED BY <1>1, <1>2, <1>3, <1>4, <1>5
LEMMA OwnStep ==
    TypeOK /\ TypeOK' /\ OwnJti /\ [Next]_vars => OwnJti'
  <1> SUFFICES ASSUME TypeOK, TypeOK', OwnJti, [Next]_vars
               PROVE  OwnJti'
    OBVIOUS
  <1>0. issued \in Nat
    BY SeatsAssumption DEF TypeOK
  <1>1. ASSUME NEW d \in Devices, LoginClaim(d)
        PROVE  OwnJti'
    BY <1>1, OwnClaim
  <1>2. ASSUME NEW d \in Devices,
               \/ \E u \in Users : Submit(d, u)
               \/ LoginCheck(d) \/ Takeover(d)
               \/ Store(d) \/ Enter(d) \/ LoginLost(d)
        PROVE  OwnJti'
    <2>1. issued' = issued
      BY <1>2 DEF Submit, LoginCheck, Takeover, Store, Enter, LoginLost, serverVars
    <2>2. \A e \in Devices : Held(e)' \subseteq Held(e)
      BY <1>2, OwnLogin
    <2> QED BY <1>0, <2>1, <2>2, OwnKept
  <1>3. CASE BeatStep
    <2>1. issued' = issued
      BY <1>3 DEF BeatStep, BeatSend, BeatAuth, BeatCheck, BeatTouch, BeatReply,
                  BeatOk, BeatRevoked, BeatExpired, BeatLost, serverVars
    <2>2. \A e \in Devices : Held(e)' \subseteq Held(e)
      BY <1>3, OwnBeat DEF BeatStep
    <2> QED BY <1>0, <2>1, <2>2, OwnKept
  <1>4. CASE LeaveStep \/ AdminStep \/ TimeStep
    <2>1. issued' = issued
      BY <1>4 DEF LeaveStep, AdminStep, TimeStep, UserLogout, ShowDialog, Confirm,
                  AppDies, Release, LogoutLost, ResetPassword, SetActive,
                  ChangePassword, RevokeSeat, SetPaid, SeatStale, TokenAges,
                  serverVars
    <2>2. \A e \in Devices : Held(e)' \subseteq Held(e)
      BY <1>4, OwnRest
    <2> QED BY <1>0, <2>1, <2>2, OwnKept
  <1>5. CASE UNCHANGED vars
    BY <1>0, <1>5, HeldUnchanged, OwnKept DEF vars, serverVars, clientVars
  <1> QED BY <1>1, <1>2, <1>3, <1>4, <1>5 DEF Next, LoginStep

-----------------------------------------------------------------------------
(* The types are kept by every interleaving of logins, heartbeats, logouts,
   crashes and administration; in particular a logout request always carries
   a token and the streak of failed heartbeats stays within its limit. *)
THEOREM TypeCorrect == Spec => []TypeOK
  BY TypeInit, TypeStep, PTL DEF Spec

(* A jti is issued to one PC, and no copy of it reaches another. *)
THEOREM JtiStaysHome == Spec => []SeatInv
  <1>1. Init => OwnJti
    <2> SUFFICES ASSUME Init
                 PROVE  OwnJti
      OBVIOUS
    <2>1. \A d \in Devices : Held(d) = {}
      BY DEF Init, Held, NoToken, NoLogin, Jtis
    <2> QED BY <2>1 DEF OwnJti
  <1>2. SeatInv /\ [Next]_vars => SeatInv'
    BY TypeStep, OwnStep DEF SeatInv
  <1> QED BY <1>1, <1>2, TypeInit, PTL DEF Spec, SeatInv

(* One account is usable on one PC at a time (requireApiAuth, claimSeat,
   takeoverSeat and the token handling of chainremote_auth.rs together). *)
THEOREM OneLivePCHolds == Spec => []OneLivePC
  <1>1. SeatInv => OneLivePC
    <2> SUFFICES ASSUME SeatInv, NEW d \in Devices, NEW e \in Devices,
                        Accepted(token[d]), Accepted(token[e]),
                        token[d].user = token[e].user
                 PROVE  d = e
      BY DEF OneLivePC
    <2>1. token[d] \in Tokens /\ token[e] \in Tokens
      BY DEF SeatInv, TypeOK, Accepted
    <2>2. token[d].jti = token[e].jti
      BY DEF Accepted, Verdict
    <2>3. token[d].jti \in Held(d) /\ token[e].jti \in Held(e)
      BY <2>1, HeldCopies DEF Tokens
    <2> QED BY <2>2, <2>3 DEF SeatInv, OwnJti
  <1> QED BY <1>1, JtiStaysHome, PTL

\* The actions that write active_login_sessions.
LEMMA SeatWriters ==
    ASSUME [Next]_vars
    PROVE  \/ seat' = seat
           \/ \E d \in Devices : LoginClaim(d)
           \/ \E d \in Devices, s \in Slots : BeatTouch(d, s)
           \/ \E t \in logouts : Release(t)
           \/ \E r \in revoke : RevokeSeat(r)
           \/ \E x \in Users : SeatStale(x)
  <1> USE DEF serverVars, clientVars
  <1>1. CASE LoginStep
    BY <1>1 DEF LoginStep, Submit, LoginCheck, Takeover, Store, Enter, LoginLost
  <1>2. CASE BeatStep
    BY <1>2 DEF BeatStep, BeatSend, BeatAuth, BeatCheck, BeatReply, BeatOk,
                BeatRevoked, BeatExpired, BeatLost
  <1>3. CASE LeaveStep
    BY <1>3 DEF LeaveStep, UserLogout, ShowDialog, Confirm, AppDies, LogoutLost
  <1>4. CASE AdminStep \/ TimeStep
    BY <1>4 DEF AdminStep, TimeStep, ResetPassword, SetActive, ChangePassword,
                SetPaid, TokenAges
  <1>5. CASE UNCHANGED vars
    BY <1>5 DEF vars
  <1> QED BY <1>1, <1>2, <1>3, <1>4, <1>5 DEF Next

(* A login that sends heartbeats is lost only to a takeover, to its own
   logout, to a new login of its PC, or to an administrator or a password
   change (claimSeat's WHERE, releaseSeat's jti, revokeSeat). *)
THEOREM LiveLoginKeptHolds == Spec => LiveLoginKept
  <1> DEFINE Lost(u) ==
        seat[u].fresh /\ seat'[u].jti # seat[u].jti =>
            \/ \E r \in revoke \ revoke' : r[1] = u
            \/ seat'[u].device = seat[u].device
            \/ \E d \in Devices : login[d].at = "claim" /\ login'[d] # login[d]
                                  /\ login[d].user = u /\ login[d].force
            \/ \E t \in logouts \ logouts' : t.user = u /\ t.jti = seat[u].jti
  <1>1. TypeOK /\ [Next]_vars => \A u \in Users : Lost(u)
    <2> SUFFICES ASSUME TypeOK, [Next]_vars, NEW u \in Users
                 PROVE  Lost(u)
      OBVIOUS
    <2>1. ASSUME NEW d \in Devices, LoginClaim(d)
          PROVE  Lost(u)
      <3>1. login[d].user \in Users /\ login'[d].at # "claim"
        BY <2>1, LoginsType DEF LoginClaim, TypeOK
      <3>2. CASE seat' = seat \/ u # login[d].user
        BY <2>1, <3>1, <3>2 DEF LoginClaim, TypeOK
      <3>3. CASE u = login[d].user /\ MayClaim(u, d, login[d].force)
        <4>1. seat'[u].device = d /\ login'[d] # login[d] /\ login[d].at = "claim"
          BY <2>1, <3>1, <3>3 DEF LoginClaim, TypeOK
        <4>2. seat[u].jti = 0 => ~seat[u].fresh
          BY DEF TypeOK, NoSeat, Jtis
        <4> QED BY <3>3, <4>1, <4>2 DEF MayClaim
      <3> QED BY <2>1, <3>2, <3>3 DEF LoginClaim
    <2>2. ASSUME NEW d \in Devices, NEW s \in Slots, BeatTouch(d, s)
          PROVE  Lost(u)
      <3> DEFINE x == beat[d][s].token.user
                 q == [seat[x] EXCEPT !.fresh = TRUE]
      <3>1. x \in Users
        BY <2>2, BeatsType DEF BeatTouch, Tokens
      <3>2. q.jti = seat[x].jti
        BY <3>1 DEF TypeOK, NoSeat
      <3>3. seat' = seat \/ seat' = [seat EXCEPT ![x] = q]
        BY <2>2 DEF BeatTouch
      <3> HIDE DEF q
      <3>4. seat'[u].jti = seat[u].jti
        BY <3>1, <3>2, <3>3 DEF TypeOK
      <3> QED BY <3>4
    <2>3. ASSUME NEW t \in logouts, Release(t)
          PROVE  Lost(u)
      <3>1. CASE u = t.user /\ Verdict(t) = "ok"
        BY <2>3, <3>1 DEF Release, Verdict
      <3>2. CASE u # t.user \/ Verdict(t) # "ok"
        BY <2>3, <3>2 DEF Release, TypeOK
      <3> QED BY <3>1, <3>2
    <2>4. ASSUME NEW r \in revoke, RevokeSeat(r)
          PROVE  Lost(u)
      BY <2>4 DEF RevokeSeat, TypeOK
    <2>5. ASSUME NEW x \in Users, SeatStale(x)
          PROVE  Lost(u)
      BY <2>5 DEF SeatStale, TypeOK, NoSeat
    <2>6. CASE seat' = seat
      BY <2>6
    <2>7. \/ seat' = seat
          \/ \E d \in Devices : LoginClaim(d)
          \/ \E d \in Devices, s \in Slots : BeatTouch(d, s)
          \/ \E t \in logouts : Release(t)
          \/ \E r \in revoke : RevokeSeat(r)
          \/ \E x \in Users : SeatStale(x)
      BY SeatWriters
    <2> HIDE DEF Lost
    <2> QED BY <2>1, <2>2, <2>3, <2>4, <2>5, <2>6, <2>7
  <1> QED BY <1>1, TypeCorrect, PTL DEF Spec, LiveLoginKept

-----------------------------------------------------------------------------
(* The lock of SeatLock *)

\* A seat is for the PC that has the copies of its jti.
SeatHome ==
    \A u \in Users : /\ seat[u].jti <= issued
                     /\ \A d \in Devices : seat[u].jti \in Held(d)
                                              => seat[u].device = d

LockInv == SeatInv /\ SeatHome

\* The three things a step can do to the seats.
Granted(d) == LoginClaim(d) /\ MayClaim(login[d].user, d, login[d].force)
GivenUp(u) == seat' = [seat EXCEPT ![u] = NoSeat] /\ UNCHANGED <<active, paid, token>>
SeatsKept  == \A u \in Users : /\ seat'[u].jti = seat[u].jti
                               /\ seat'[u].device = seat[u].device

LEMMA SeatMoves ==
    ASSUME TypeOK, [Next]_vars
    PROVE  \/ \E d \in Devices : Granted(d)
           \/ \E u \in Users : GivenUp(u)
           \/ SeatsKept
  <1>1. ASSUME NEW d \in Devices, LoginClaim(d)
        PROVE  Granted(d) \/ SeatsKept
    BY <1>1 DEF LoginClaim, Granted, SeatsKept
  <1>2. ASSUME NEW d \in Devices, NEW s \in Slots, BeatTouch(d, s)
        PROVE  SeatsKept
    <2> DEFINE x == beat[d][s].token.user
               q == [seat[x] EXCEPT !.fresh = TRUE]
    <2>1. x \in Users
      BY <1>2, BeatsType DEF BeatTouch, Tokens
    <2>2. q.jti = seat[x].jti /\ q.device = seat[x].device
      BY <2>1 DEF TypeOK, NoSeat
    <2>3. seat' = seat \/ seat' = [seat EXCEPT ![x] = q]
      BY <1>2 DEF BeatTouch
    <2> HIDE DEF q
    <2> QED BY <2>1, <2>2, <2>3 DEF TypeOK, SeatsKept
  <1>3. ASSUME NEW t \in logouts, Release(t)
        PROVE  (\E u \in Users : GivenUp(u)) \/ SeatsKept
    <2>1. t.user \in Users
      BY DEF TypeOK, Tokens
    <2> QED BY <1>3, <2>1 DEF Release, GivenUp, SeatsKept
  <1>4. ASSUME NEW r \in revoke, RevokeSeat(r)
        PROVE  \E u \in Users : GivenUp(u)
    <2>1. r[1] \in Users
      BY DEF TypeOK
    <2> QED BY <1>4, <2>1 DEF RevokeSeat, GivenUp, clientVars
  <1>5. ASSUME NEW x \in Users, SeatStale(x)
        PROVE  SeatsKept
    <2> DEFINE q == [seat[x] EXCEPT !.fresh = FALSE]
    <2>1. q.jti = seat[x].jti /\ q.device = seat[x].device
      BY DEF TypeOK, NoSeat
    <2>2. seat' = [seat EXCEPT ![x] = q]
      BY <1>5 DEF SeatStale
    <2> HIDE DEF q
    <2> QED BY <2>1, <2>2 DEF TypeOK, SeatsKept
  <1>6. CASE seat' = seat
    BY <1>6 DEF SeatsKept
  <1>7. \/ seat' = seat
        \/ \E d \in Devices : LoginClaim(d)
        \/ \E d \in Devices, s \in Slots : BeatTouch(d, s)
        \/ \E t \in logouts : Release(t)
        \/ \E r \in revoke : RevokeSeat(r)
        \/ \E x \in Users : SeatStale(x)
    BY SeatWriters
  <1> QED BY <1>1, <1>2, <1>3, <1>4, <1>5, <1>6, <1>7

LEMMA HeldKept ==
    ASSUME TypeOK, TypeOK', OwnJti, [Next]_vars, ~ \E d \in Devices : Granted(d)
    PROVE  (\A e \in Devices : Held(e)' \subseteq Held(e)) /\ issued' = issued
  <1>1. ASSUME NEW d \in Devices, LoginClaim(d)
        PROVE  (\A e \in Devices : Held(e)' \subseteq Held(e)) /\ issued' = issued
    <2>1. ~MayClaim(login[d].user, d, login[d].force)
      BY <1>1 DEF Granted
    <2>2. login'[d].at = "occupied"
      BY <1>1, <2>1, LoginsType DEF LoginClaim, TypeOK
    <2>3. \A e \in Devices \ {d} : login'[e] = login[e]
      BY <1>1, <2>1 DEF LoginClaim, TypeOK
    <2>4. UNCHANGED <<token, beat, issued>>
      BY <1>1, <2>1 DEF LoginClaim
    <2> QED BY <2>2, <2>3, <2>4, HeldCopies, HeldByStep
  <1>2. ASSUME NEW d \in Devices,
               \/ \E u \in Users : Submit(d, u)
               \/ LoginCheck(d) \/ Takeover(d)
               \/ Store(d) \/ Enter(d) \/ LoginLost(d)
        PROVE  (\A e \in Devices : Held(e)' \subseteq Held(e)) /\ issued' = issued
    <2>1. issued' = issued
      BY <1>2 DEF Submit, LoginCheck, Takeover, Store, Enter, LoginLost, serverVars
    <2> QED BY <1>2, <2>1, OwnLogin
  <1>3. CASE BeatStep
    <2>1. issued' = issued
      BY <1>3 DEF BeatStep, BeatSend, BeatAuth, BeatCheck, BeatTouch, BeatReply,
                  BeatOk, BeatRevoked, BeatExpired, BeatLost, serverVars
    <2> QED BY <1>3, <2>1, OwnBeat DEF BeatStep
  <1>4. CASE LeaveStep \/ AdminStep \/ TimeStep
    <2>1. issued' = issued
      BY <1>4 DEF LeaveStep, AdminStep, TimeStep, UserLogout, ShowDialog, Confirm,
                  AppDies, Release, LogoutLost, ResetPassword, SetActive,
                  ChangePassword, RevokeSeat, SetPaid, SeatStale, TokenAges,
                  serverVars
    <2> QED BY <1>4, <2>1, OwnRest
  <1>5. CASE UNCHANGED vars
    BY <1>5, HeldUnchanged DEF vars, serverVars, clientVars
  <1> QED BY <1>1, <1>2, <1>3, <1>4, <1>5 DEF Next, LoginStep

\* What a granted login does.
LEMMA GrantedDoes ==
    ASSUME TypeOK, OwnJti, NEW d \in Devices, Granted(d)
    PROVE  /\ login[d].user \in Users
           /\ issued \in Nat /\ issued' = issued + 1
           /\ UNCHANGED <<active, paid, token>>
           /\ seat' = [seat EXCEPT ![login[d].user] =
                          [jti |-> issued + 1, device |-> d, fresh |-> TRUE]]
           /\ Held(d)' \subseteq Held(d) \cup {issued + 1}
           /\ \A e \in Devices \ {d} : Held(e)' = Held(e)
           /\ \A e \in Devices : issued + 1 \notin Held(e)
  <1>1. /\ login[d].user \in Users
        /\ issued \in Nat /\ issued' = issued + 1
        /\ UNCHANGED <<active, paid, token, beat>>
        /\ seat' = [seat EXCEPT ![login[d].user] =
                       [jti |-> issued + 1, device |-> d, fresh |-> TRUE]]
    BY LoginsType, SeatsAssumption DEF Granted, LoginClaim, TypeOK
  <1>2. /\ login'[d].at = "granted" /\ login'[d].token.jti = issued + 1
        /\ \A e \in Devices \ {d} : login'[e] = login[e]
    BY DEF Granted, LoginClaim, TypeOK
  <1>3. Held(d)' \subseteq Held(d) \cup {issued + 1}
    BY <1>1, <1>2 DEF Held
  <1>4. \A e \in Devices \ {d} : Held(e)' = Held(e)
    BY <1>1, <1>2 DEF Held
  <1>5. \A e \in Devices : \A j \in Held(e) : j \in Nat /\ j <= issued
    <2>1. \A e \in Devices : \A j \in Held(e) : j \in Nat
      BY SeatsAssumption DEF Held, Jtis
    <2> QED BY <2>1 DEF OwnJti
  <1>6. \A e \in Devices : issued + 1 \notin Held(e)
    BY <1>1, <1>5
  <1> QED BY <1>1, <1>3, <1>4, <1>6

LEMMA SeatHomeStep ==
    ASSUME LockInv, SeatInv', [Next]_vars
    PROVE  SeatHome'
  <1> USE DEF LockInv, SeatInv
  <1>0. /\ issued \in Nat
        /\ \A u \in Users : seat[u].jti \in Nat /\ seat'[u].jti \in Nat
        /\ \A e \in Devices : 0 \notin Held(e) /\ 0 \notin Held(e)'
    <2>1. issued \in Nat
      BY SeatsAssumption DEF TypeOK
    <2>2. \A u \in Users : seat[u].jti \in Nat /\ seat'[u].jti \in Nat
      BY SeatsAssumption DEF TypeOK, NoSeat, Jtis
    <2>3. \A e \in Devices : 0 \notin Held(e) /\ 0 \notin Held(e)'
      BY SeatsAssumption DEF Held, Jtis
    <2> QED BY <2>1, <2>2, <2>3
  <1>1. ASSUME NEW d \in Devices, Granted(d), NEW u \in Users
        PROVE  /\ seat'[u].jti <= issued'
               /\ \A e \in Devices : seat'[u].jti \in Held(e)' => seat'[u].device = e
    <2>1. /\ login[d].user \in Users
          /\ issued' = issued + 1
          /\ seat' = [seat EXCEPT ![login[d].user] =
                          [jti |-> issued + 1, device |-> d, fresh |-> TRUE]]
          /\ Held(d)' \subseteq Held(d) \cup {issued + 1}
          /\ \A e \in Devices \ {d} : Held(e)' = Held(e)
          /\ \A e \in Devices : issued + 1 \notin Held(e)
      BY <1>1, GrantedDoes
    <2>2. CASE u = login[d].user
      <3>1. seat'[u].jti = issued + 1 /\ seat'[u].device = d
        BY <2>1, <2>2 DEF TypeOK
      <3> QED BY <1>0, <2>1, <3>1
    <2>3. CASE u # login[d].user
      <3>1. seat'[u] = seat[u]
        BY <2>1, <2>3 DEF TypeOK
      <3>2. seat[u].jti <= issued
        BY DEF SeatHome
      <3>3. seat[u].jti # issued + 1 /\ seat[u].jti <= issued + 1
        BY <1>0, <3>2
      <3>4. \A e \in Devices : seat[u].jti \in Held(e)' => seat[u].jti \in Held(e)
        BY <2>1, <3>3
      <3> QED BY <2>1, <3>1, <3>3, <3>4 DEF SeatHome
    <2> QED BY <2>2, <2>3
  <1>2. ASSUME NEW x \in Users, GivenUp(x), ~ \E d \in Devices : Granted(d)
        PROVE  SeatHome'
    <2>1. (\A e \in Devices : Held(e)' \subseteq Held(e)) /\ issued' = issued
      BY <1>2, HeldKept
    <2>2. seat' = [seat EXCEPT ![x] = NoSeat]
      BY <1>2 DEF GivenUp
    <2>3. seat'[x].jti = 0
      BY <2>2 DEF TypeOK, NoSeat
    <2>4. \A u \in Users \ {x} : seat'[u] = seat[u]
      BY <2>2 DEF TypeOK
    <2> QED BY <1>0, <2>1, <2>3, <2>4 DEF SeatHome
  <1>3. ASSUME SeatsKept, ~ \E d \in Devices : Granted(d)
        PROVE  SeatHome'
    <2>1. (\A e \in Devices : Held(e)' \subseteq Held(e)) /\ issued' = issued
      BY <1>3, HeldKept
    <2> QED BY <1>3, <2>1 DEF SeatHome, SeatsKept
  <1> QED BY <1>1, <1>2, <1>3, SeatMoves DEF SeatHome

\* The refinement mapping in a usable form: the only PC that uses an account is
\* its owner.
HolderIsOwner ==
    \A u \in Users :
        /\ Owner[u] \in Devices \cup {NoDevice}
        /\ \A d \in Devices : Uses(d, u) => d = Owner[u] /\ d = Holder[u]
        /\ \/ Holder[u] = NoDevice
           \/ Holder[u] \in Devices /\ Uses(Holder[u], u)

LEMMA MappingHolds == LockInv => HolderIsOwner
  <1> SUFFICES ASSUME LockInv, NEW u \in Users
               PROVE  /\ Owner[u] \in Devices \cup {NoDevice}
                      /\ \A d \in Devices : Uses(d, u) => d = Owner[u] /\ d = Holder[u]
                      /\ \/ Holder[u] = NoDevice
                         \/ Holder[u] \in Devices /\ Uses(Holder[u], u)
    BY DEF HolderIsOwner
  <1>1. Owner[u] \in Devices \cup {NoDevice}
    BY DEF LockInv, SeatInv, TypeOK, NoSeat, Owner
  <1>2. ASSUME NEW d \in Devices, Uses(d, u)
        PROVE  d = Owner[u]
    <2>1. token[d] \in Tokens /\ seat[u].jti = token[d].jti
      BY <1>2 DEF LockInv, SeatInv, TypeOK, Uses, Accepted, Verdict
    <2>2. token[d].jti \in Held(d)
      BY <2>1, HeldCopies DEF Tokens
    <2> QED BY <2>1, <2>2 DEF LockInv, SeatHome, Owner
  <1>3. Holder[u] = IF \E d \in Devices : Uses(d, u)
                    THEN CHOOSE d \in Devices : Uses(d, u)
                    ELSE NoDevice
    BY DEF Holder
  <1>4. CASE \E d \in Devices : Uses(d, u)
    <2>1. Holder[u] \in Devices /\ Uses(Holder[u], u)
      BY <1>3, <1>4, Zenon
    <2> QED BY <1>1, <1>2, <2>1
  <1>5. CASE ~ \E d \in Devices : Uses(d, u)
    BY <1>1, <1>3, <1>5
  <1> QED BY <1>4, <1>5

LEMMA MappingHoldsNext == LockInv' => HolderIsOwner'
  BY MappingHolds, PTL

\* A seat that changes hands: nobody uses its account, all others as before.
LEMMA MoveStep ==
    ASSUME LockInv, LockInv', NEW x \in Users, NEW p \in Devices \cup {NoDevice},
           UNCHANGED <<active, paid, token>>,
           NEW q, q.device = p, seat' = [seat EXCEPT ![x] = q],
           \A d \in Devices : token[d] # NoToken => token[d].jti # q.jti
    PROVE  Lock!Move(x, p)
  <1>1. seat'[x] = q /\ \A u \in Users \ {x} : seat'[u] = seat[u]
    BY DEF LockInv, SeatInv, TypeOK
  <1>2. \A d \in Devices : ~Uses(d, x)'
    BY <1>1 DEF Uses, Accepted, Verdict
  <1>3. \A u \in Users \ {x}, d \in Devices : Uses(d, u)' <=> Uses(d, u)
    BY <1>1 DEF Uses, Accepted, Verdict
  <1>4. HolderIsOwner /\ HolderIsOwner'
    BY MappingHolds, MappingHoldsNext
  <1>5. Holder'[x] = NoDevice
    BY <1>2, <1>4 DEF HolderIsOwner
  <1>6. \A u \in Users \ {x} : Holder'[u] = Holder[u]
    BY <1>3, <1>4 DEF HolderIsOwner
  <1>7. Holder' = [Holder EXCEPT ![x] = NoDevice]
    BY <1>5, <1>6 DEF Holder
  <1>8. Owner' = [Owner EXCEPT ![x] = p]
    <2>1. Owner'[x] = p /\ \A u \in Users \ {x} : Owner'[u] = Owner[u]
      BY <1>1 DEF Owner
    <2> QED BY <2>1 DEF Owner
  <1> QED BY <1>7, <1>8 DEF Lock!Move

LEMMA LockStep ==
    ASSUME LockInv, LockInv', [Next]_vars
    PROVE  Lock!Next
  <1> USE DEF LockInv, SeatInv
  <1>1. ASSUME NEW d \in Devices, Granted(d)
        PROVE  Lock!Next
    <2> DEFINE q == [jti |-> issued + 1, device |-> d, fresh |-> TRUE]
    <2>1. /\ login[d].user \in Users
          /\ UNCHANGED <<active, paid, token>>
          /\ seat' = [seat EXCEPT ![login[d].user] = q]
          /\ \A e \in Devices : issued + 1 \notin Held(e)
      BY <1>1, GrantedDoes
    <2>2. \A e \in Devices : token[e] # NoToken => token[e].jti # issued + 1
      BY <2>1, HeldCopies DEF TypeOK, Tokens
    <2>3. q.device = d /\ q.jti = issued + 1
      OBVIOUS
    <2> HIDE DEF q
    <2>4. Lock!Move(login[d].user, d)
      BY <2>1, <2>2, <2>3, MoveStep
    <2> QED BY <2>1, <2>4 DEF Lock!Next, Lock!Places
  <1>2. ASSUME NEW x \in Users, GivenUp(x)
        PROVE  Lock!Next
    <2>1. \A e \in Devices : token[e] # NoToken => token[e].jti # NoSeat.jti
      BY SeatsAssumption DEF TypeOK, Tokens, Jtis, NoSeat
    <2>2. NoSeat.device = NoDevice
      BY DEF NoSeat
    <2>3. Lock!Move(x, NoDevice)
      BY <1>2, <2>1, <2>2, MoveStep DEF GivenUp
    <2> QED BY <2>3 DEF Lock!Next, Lock!Places
  <1>3. ASSUME SeatsKept
        PROVE  Lock!Next
    <2>1. HolderIsOwner /\ HolderIsOwner'
      BY MappingHolds, MappingHoldsNext
    <2>2. Owner' = Owner
      BY <1>3 DEF Owner, SeatsKept
    <2>3. \A u \in Users : Holder'[u] \in {Owner[u], NoDevice}
      BY <2>1, <2>2 DEF HolderIsOwner
    <2>4. \A u, v \in Users : Holder'[u] = Holder'[v] /\ Holder'[u] # NoDevice
                                 => u = v
      <3>1. \A u \in Users : Holder'[u] # NoDevice =>
                                token'[Holder'[u]].user = u
        BY <2>1 DEF HolderIsOwner, Uses
      <3> QED BY <3>1
    <2>5. Holder' \in [Users -> Lock!Places]
      <3>1. \A u \in Users : Holder'[u] \in Lock!Places
        BY <2>1 DEF HolderIsOwner, Lock!Places
      <3>2. Holder' = [u \in Users |-> Holder'[u]]
        BY DEF Holder
      <3> QED BY <3>1, <3>2
    <2>6. Lock!Use(Holder')
      BY <2>2, <2>3, <2>4 DEF Lock!Use
    <2> QED BY <2>5, <2>6 DEF Lock!Next
  <1> QED BY <1>1, <1>2, <1>3, SeatMoves

(* Tokens, seats, heartbeats, renewals and late answers implement the lock of
   SeatLock (active-sessions.ts and chainremote_auth.rs together): only the PC of
   the last login is accepted, and an account moves by being accepted nowhere. *)
THEOREM SeatsImplementLock == Spec => ImplementsLock
  <1>1. Init => LockInv /\ Lock!Init
    <2> SUFFICES ASSUME Init
                 PROVE  LockInv /\ Lock!Init
      OBVIOUS
    <2>1. \A d \in Devices : Held(d) = {}
      BY DEF Init, Held, NoToken, NoLogin, Jtis
    <2>2. OwnJti
      BY <2>1 DEF OwnJti
    <2>3. SeatHome
      BY <2>1 DEF Init, SeatHome, NoSeat
    <2>4. \A u \in Users, d \in Devices : ~Uses(d, u)
      BY DEF Init, Uses, Accepted
    <2>5. Lock!Init
      BY <2>4 DEF Init, Lock!Init, Owner, Holder, NoSeat
    <2> QED BY <2>2, <2>3, <2>5, TypeInit DEF LockInv, SeatInv
  <1>2. LockInv /\ [Next]_vars => LockInv'
    BY TypeStep, OwnStep, SeatHomeStep DEF LockInv, SeatInv
  <1>3. LockInv /\ LockInv' /\ [Next]_vars => [Lock!Next]_(Lock!vars)
    BY LockStep
  <1> QED BY <1>1, <1>2, <1>3, PTL DEF Spec, ImplementsLock, Lock!Spec

-----------------------------------------------------------------------------
(* Lost seats *)

LEMMA LostStep ==
    ASSUME TypeOK, OwnJti, [Next]_vars, NEW u \in Users, NEW j \in 1..issued,
           seat[u].jti # j
    PROVE  seat'[u].jti # j
  <1>1. issued \in Nat
    BY SeatsAssumption DEF TypeOK
  <1>2. ASSUME NEW d \in Devices, Granted(d)
        PROVE  seat'[u].jti # j
    <2>1. seat' = [seat EXCEPT ![login[d].user] =
                      [jti |-> issued + 1, device |-> d, fresh |-> TRUE]]
      BY <1>2, GrantedDoes
    <2>2. seat'[u].jti = seat[u].jti \/ seat'[u].jti = issued + 1
      BY <2>1 DEF TypeOK
    <2> QED BY <1>1, <2>2
  <1>3. ASSUME NEW x \in Users, GivenUp(x)
        PROVE  seat'[u].jti # j
    <2>1. seat'[u].jti = seat[u].jti \/ seat'[u].jti = 0
      BY <1>3 DEF GivenUp, TypeOK, NoSeat
    <2> QED BY <1>1, <2>1
  <1>4. CASE SeatsKept
    BY <1>4 DEF SeatsKept
  <1> QED BY <1>2, <1>3, <1>4, SeatMoves

(* A login that lost its seat never has it again, whatever heartbeats, renewals
   and logouts of it are still under way (claimSeat, touchHeartbeat, revokeSeat),
   for any number of accounts, PCs and heartbeats at once. *)
THEOREM SeatIsGone == Spec => LostStaysLost
  <1>1. TypeOK /\ OwnJti /\ [Next]_vars =>
          [\A u \in Users, j \in 1..issued :
              seat[u].jti # j => seat'[u].jti # j]_vars
    BY LostStep
  <1>2. SeatInv => TypeOK /\ OwnJti
    BY DEF SeatInv
  <1> QED BY <1>1, <1>2, JtiStaysHome, PTL DEF Spec, LostStaysLost
=============================================================================
