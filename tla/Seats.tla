------------------------------- MODULE Seats -------------------------------
(***************************************************************************)
(* Seat enforcement for the HQ application: one live login per account,    *)
(* and no more live accounts of a dealer (tenant) than it has seats.       *)
(*                                                                         *)
(* Server: chainremote-admin/lib/data/active-sessions.ts and the routes    *)
(* /api/auth/{token,takeover,heartbeat,logout}, /api/me/password.          *)
(* Client: src/chainremote_auth.rs (TOKEN, EXPIRED_STREAK) and the widget  *)
(* flutter/lib/common/widgets/chainremote_auth_gate.dart (authed, the      *)
(* heartbeat timer, the modal dialogs).                                    *)
(*                                                                         *)
(* All accounts belong to one dealer.  A request is as many actions as it  *)
(* has database statements whose interleaving matters; consecutive reads   *)
(* of one request are one action.  Times are abstracted: a seat is fresh   *)
(* until two minutes without a heartbeat pass, a token is new, then old    *)
(* (under 12 hours left), then expired.                                    *)
(***************************************************************************)
EXTENDS Naturals, FiniteSets

CONSTANTS
    Users,       \* accounts of one dealer
    Devices,     \* PCs with the HQ application
    NoUser,      \* not an account
    NoDevice,    \* not a PC
    Slots,       \* heartbeats a PC may have under way at once
    MaxSeats,    \* tenants.max_seats
    StreakLimit, \* non-revoked 401s in a row that mean "expired" (3)
    MaxLogins,   \* bound: logins and takeovers that reach the seat
    MaxAdmin     \* bound: acts of administrators and password changes

ASSUME NobodyAssumption == NoUser \notin Users /\ NoDevice \notin Devices
ASSUME SeatsAssumption ==
    /\ MaxSeats \in Nat
    /\ StreakLimit \in Nat \ {0}
    /\ MaxLogins \in Nat /\ MaxAdmin \in Nat

VARIABLES
    seat,     \* active_login_sessions, keyed by account
    issued,   \* the newest jti; a random UUID is modelled by a fresh number
    active,   \* users.is_active
    paid,     \* tenants.is_active and subscription_status = 'active'
    revoke,   \* <<account, by whom>>: revokeSeat calls still to run
    acts,     \* how many of MaxAdmin are used up
    token,    \* TOKEN of the application on each PC
    authed,   \* ChainRemoteAuth.authed
    timer,    \* the heartbeat timer runs
    gate,     \* _onRevoked / _onExpired: none, closing windows, dialog shown
    streak,   \* EXPIRED_STREAK
    login,    \* the login page's request
    beat,     \* heartbeats under way
    logouts   \* fire-and-forget logout requests under way

serverVars == <<seat, issued, active, paid, revoke, acts>>
clientVars == <<token, authed, timer, gate, streak, login, beat, logouts>>
vars == <<serverVars, clientVars>>

Jtis   == 1..MaxLogins
Ages   == {"new", "old", "expired"}
Tokens == [user: Users, jti: Jtis, age: Ages]

NoToken == [user |-> NoUser, jti |-> 0, age |-> "new"]
NoSeat  == [jti |-> 0, device |-> NoDevice, fresh |-> FALSE]
NoLogin == [at |-> "none"]
NoBeat  == [at |-> "none"]

Logins ==
    {NoLogin}
    \cup [at: {"check", "claim", "occupied"}, user: Users, force: BOOLEAN]
    \cup [at: {"granted", "stored"}, token: Tokens]

Beats ==
    {NoBeat}
    \cup [at: {"auth", "check", "touch"}, token: Tokens]
    \cup [at: {"ok", "revoked", "401"}, token: Tokens]

TypeOK ==
    /\ seat \in [Users -> {NoSeat} \cup
                     [jti: Jtis, device: Devices, fresh: BOOLEAN]]
    /\ issued \in 0..MaxLogins
    /\ active \in [Users -> BOOLEAN]
    /\ paid \in BOOLEAN
    /\ revoke \subseteq Users \X {"self", "admin"}
    /\ acts \in 0..MaxAdmin
    /\ token \in [Devices -> Tokens \cup {NoToken}]
    /\ authed \in [Devices -> BOOLEAN]
    /\ timer \in [Devices -> BOOLEAN]
    /\ gate \in [Devices -> {"none", "closing", "dialog"}]
    /\ streak \in [Devices -> 0..StreakLimit]
    /\ login \in [Devices -> Logins]
    /\ beat \in [Devices -> [Slots -> Beats]]
    /\ logouts \subseteq Tokens

Init ==
    /\ seat = [u \in Users |-> NoSeat]
    /\ issued = 0
    /\ active = [u \in Users |-> TRUE]
    /\ paid = TRUE
    /\ revoke = {}
    /\ acts = 0
    /\ token = [d \in Devices |-> NoToken]
    /\ authed = [d \in Devices |-> FALSE]
    /\ timer = [d \in Devices |-> FALSE]
    /\ gate = [d \in Devices |-> "none"]
    /\ streak = [d \in Devices |-> 0]
    /\ login = [d \in Devices |-> NoLogin]
    /\ beat = [d \in Devices |-> [s \in Slots |-> NoBeat]]
    /\ logouts = {}

-----------------------------------------------------------------------------
(* requireApiAuth: the verdict on a bearer token *)

\* Mutant: the token is verified, the seat is not compared.
VerdictWithoutSeat(t) ==
    IF t.age = "expired" THEN "401"
    ELSE IF ~active[t.user] THEN "revoked"
    ELSE IF ~paid THEN "401" ELSE "ok"

Verdict(t) ==
    IF t.age = "expired" THEN "401"
    ELSE IF ~active[t.user] \/ seat[t.user].jti # t.jti THEN "revoked"
    ELSE IF ~paid THEN "401" ELSE "ok"

Accepted(t) == t # NoToken /\ Verdict(t) = "ok"

\* countLiveTenantSessions, without the account that logs in.
LiveOthers(u) == {x \in Users \ {u} : seat[x].jti # 0 /\ seat[x].fresh}

-----------------------------------------------------------------------------
(* Login: the login page and POST /api/auth/token or /takeover *)

\* _submit.  A modal dialog blocks the page; _busy blocks a second press.
Submit(d, u) ==
    /\ ~authed[d] /\ login[d] = NoLogin /\ gate[d] # "dialog"
    /\ login' = [login EXCEPT ![d] =
                     [at |-> "check", user |-> u, force |-> FALSE]]
    /\ UNCHANGED <<serverVars, token, authed, timer, gate, streak, beat,
                   logouts>>

\* Password, account, subscription and the dealer's seat count.
LoginCheck(d) ==
    /\ login[d].at = "check"
    /\ login' = [login EXCEPT ![d] =
          IF active[login[d].user] /\ paid
             /\ Cardinality(LiveOthers(login[d].user)) < MaxSeats
          THEN [@ EXCEPT !.at = "claim"] ELSE NoLogin]
    /\ UNCHANGED <<serverVars, token, authed, timer, gate, streak, beat,
                   logouts>>

\* Mutant: the upsert without its WHERE.
MayAlwaysClaim(u, d, force) == TRUE

\* The WHERE of claimSeat's upsert; takeoverSeat has none.
MayClaim(u, d, force) ==
    force \/ seat[u].jti = 0 \/ seat[u].device = d \/ ~seat[u].fresh

\* The upsert; the token is signed for the new jti.  Otherwise 409.
LoginClaim(d) ==
    /\ login[d].at = "claim"
    /\ LET u == login[d].user IN
       IF MayClaim(u, d, login[d].force)
       THEN /\ issued < MaxLogins
            /\ issued' = issued + 1
            /\ seat' = [seat EXCEPT ![u] =
                   [jti |-> issued + 1, device |-> d, fresh |-> TRUE]]
            /\ login' = [login EXCEPT ![d] = [at |-> "granted",
                   token |-> [user |-> u, jti |-> issued + 1, age |-> "new"]]]
       ELSE /\ login' = [login EXCEPT ![d].at = "occupied"]
            /\ UNCHANGED <<seat, issued>>
    /\ UNCHANGED <<active, paid, revoke, acts, token, authed, timer, gate, streak,
                   beat, logouts>>

\* The "already in use" dialog: force, or give up.
Takeover(d) ==
    /\ login[d].at = "occupied"
    /\ \/ login' = [login EXCEPT ![d] = [@ EXCEPT !.at = "check",
                                                  !.force = TRUE]]
       \/ login' = [login EXCEPT ![d] = NoLogin]
    /\ UNCHANGED <<serverVars, token, authed, timer, gate, streak, beat,
                   logouts>>

\* The answer reaches the Rust thread, which stores the token ...
Store(d) ==
    /\ login[d].at = "granted"
    /\ token' = [token EXCEPT ![d] = login[d].token]
    /\ login' = [login EXCEPT ![d].at = "stored"]
    /\ UNCHANGED <<serverVars, authed, timer, gate, streak, beat, logouts>>

\* ... and later the Dart event loop, which enters the main page.
Enter(d) ==
    /\ login[d].at = "stored"
    /\ login' = [login EXCEPT ![d] = NoLogin]
    /\ authed' = [authed EXCEPT ![d] = TRUE]
    /\ timer' = [timer EXCEPT ![d] = TRUE]
    /\ UNCHANGED <<serverVars, token, gate, streak, beat, logouts>>

\* The request or its answer is lost: an error on the page.
LoginLost(d) ==
    /\ login[d].at \in {"check", "claim", "granted"}
    /\ login' = [login EXCEPT ![d] = NoLogin]
    /\ UNCHANGED <<serverVars, token, authed, timer, gate, streak, beat,
                   logouts>>

-----------------------------------------------------------------------------
(* Heartbeat: the periodic timer does not wait for the previous answer *)

\* heartbeat reads TOKEN before the POST; an empty one sends nothing.
BeatSend(d, s) ==
    /\ timer[d] /\ token[d] # NoToken /\ beat[d][s] = NoBeat
    /\ beat' = [beat EXCEPT ![d][s] = [at |-> "auth", token |-> token[d]]]
    /\ UNCHANGED <<serverVars, token, authed, timer, gate, streak, login,
                   logouts>>

\* Heartbeat route, step one: requireApiAuth.
BeatAuth(d, s) ==
    /\ beat[d][s].at = "auth"
    /\ beat' = [beat EXCEPT ![d][s].at =
          IF Verdict(beat[d][s].token) = "ok" THEN "check"
          ELSE Verdict(beat[d][s].token)]
    /\ UNCHANGED <<serverVars, token, authed, timer, gate, streak, login,
                   logouts>>

\* Step two: the subscription once more, and the account when an old token is
\* to be renewed.  The answer will carry a new token of the same jti.
BeatCheck(d, s) ==
    /\ beat[d][s].at = "check"
    /\ LET t == beat[d][s].token IN
       beat' = [beat EXCEPT ![d][s].at =
          IF ~paid THEN "401"
          ELSE IF t.age = "old" /\ ~active[t.user] THEN "revoked"
          ELSE "touch"]
    /\ UNCHANGED <<serverVars, token, authed, timer, gate, streak, login,
                   logouts>>

\* Mutant: an upsert keyed by the account instead of an UPDATE by jti.
BeatTouchUpserts(d, s) ==
    /\ beat[d][s].at = "touch"
    /\ LET t == beat[d][s].token IN
       seat' = [seat EXCEPT ![t.user] =
                   [jti |-> t.jti, device |-> d, fresh |-> TRUE]]
    /\ beat' = [beat EXCEPT ![d][s].at = "ok"]
    /\ UNCHANGED <<issued, active, paid, revoke, acts, token, authed, timer, gate,
                   streak, login, logouts>>

\* Step three: touchHeartbeat, last_seen of the row with this jti.
BeatTouch(d, s) ==
    /\ beat[d][s].at = "touch"
    /\ LET t == beat[d][s].token IN
       IF seat[t.user].jti = t.jti
       THEN /\ seat' = [seat EXCEPT ![t.user].fresh = TRUE]
            /\ beat' = [beat EXCEPT ![d][s].at = "ok"]
       ELSE /\ beat' = [beat EXCEPT ![d][s].at = "revoked"]
            /\ UNCHANGED seat
    /\ UNCHANGED <<issued, active, paid, revoke, acts, token, authed, timer, gate,
                   streak, login, logouts>>

\* 2xx: the streak is over; a renewed token replaces TOKEN, whatever it holds.
BeatOk(d, s) ==
    /\ beat[d][s].at = "ok"
    /\ streak' = [streak EXCEPT ![d] = 0]
    /\ token' = IF beat[d][s].token.age = "old"
                THEN [token EXCEPT ![d] =
                         [beat[d][s].token EXCEPT !.age = "new"]]
                ELSE token
    /\ beat' = [beat EXCEPT ![d][s] = NoBeat]
    /\ UNCHANGED <<serverVars, authed, timer, gate, login, logouts>>

\* _onRevoked: stop the timer and close the remote windows.
BeatRevoked(d, s) ==
    /\ beat[d][s].at = "revoked"
    /\ IF gate[d] = "none"
       THEN /\ gate' = [gate EXCEPT ![d] = "closing"]
            /\ timer' = [timer EXCEPT ![d] = FALSE]
       ELSE UNCHANGED <<gate, timer>>
    /\ beat' = [beat EXCEPT ![d][s] = NoBeat]
    /\ UNCHANGED <<serverVars, token, authed, streak, login, logouts>>

\* Mutant: a 401 is a passing error for ever.
BeatRetriedForever(d, s) ==
    /\ beat[d][s].at = "401"
    /\ beat' = [beat EXCEPT ![d][s] = NoBeat]
    /\ UNCHANGED <<serverVars, token, authed, timer, gate, streak, login,
                   logouts>>

\* A 401 without "revoked": from the StreakLimit-th in a row on, _onExpired.
BeatExpired(d, s) ==
    /\ beat[d][s].at = "401"
    /\ streak' = [streak EXCEPT ![d] = IF @ < StreakLimit THEN @ + 1 ELSE @]
    /\ IF streak[d] + 1 >= StreakLimit /\ gate[d] = "none"
       THEN /\ gate' = [gate EXCEPT ![d] = "dialog"]
            /\ timer' = [timer EXCEPT ![d] = FALSE]
       ELSE UNCHANGED <<gate, timer>>
    /\ beat' = [beat EXCEPT ![d][s] = NoBeat]
    /\ UNCHANGED <<serverVars, token, authed, login, logouts>>

BeatReply(d, s) == BeatOk(d, s) \/ BeatRevoked(d, s) \/ BeatExpired(d, s)

\* A network error keeps the session.
BeatLost(d, s) ==
    /\ beat[d][s] # NoBeat
    /\ beat' = [beat EXCEPT ![d][s] = NoBeat]
    /\ UNCHANGED <<serverVars, token, authed, timer, gate, streak, login,
                   logouts>>

-----------------------------------------------------------------------------
(* Leaving *)

\* chainremote_auth::logout and authed = false; the POST runs on its own.
LogOut(d) ==
    /\ logouts' = IF token[d] = NoToken THEN logouts
                  ELSE logouts \cup {token[d]}
    /\ token' = [token EXCEPT ![d] = NoToken]
    /\ authed' = [authed EXCEPT ![d] = FALSE]
    /\ timer' = [timer EXCEPT ![d] = FALSE]

UserLogout(d) ==
    /\ authed[d] /\ gate[d] # "dialog"
    /\ LogOut(d)
    /\ UNCHANGED <<serverVars, gate, streak, login, beat>>

\* closeAllSubWindows returns and the dialog appears.
ShowDialog(d) ==
    /\ gate[d] = "closing"
    /\ gate' = [gate EXCEPT ![d] = "dialog"]
    /\ UNCHANGED <<serverVars, token, authed, timer, streak, login, beat,
                   logouts>>

Confirm(d) ==
    /\ gate[d] = "dialog"
    /\ gate' = [gate EXCEPT ![d] = "none"]
    /\ LogOut(d)
    /\ UNCHANGED <<serverVars, streak, login, beat>>

\* Logout route: requireApiAuth, then DELETE the row that has this jti.
Release(t) ==
    /\ t \in logouts
    /\ logouts' = logouts \ {t}
    /\ seat' = IF Verdict(t) = "ok" THEN [seat EXCEPT ![t.user] = NoSeat]
               ELSE seat
    /\ UNCHANGED <<issued, active, paid, revoke, acts, token, authed, timer, gate,
                   streak, login, beat>>

LogoutLost(t) ==
    /\ t \in logouts
    /\ logouts' = logouts \ {t}
    /\ UNCHANGED <<serverVars, token, authed, timer, gate, streak, login, beat>>

\* The application is killed or the PC loses power.
AppDies(d) ==
    /\ token' = [token EXCEPT ![d] = NoToken]
    /\ authed' = [authed EXCEPT ![d] = FALSE]
    /\ timer' = [timer EXCEPT ![d] = FALSE]
    /\ gate' = [gate EXCEPT ![d] = "none"]
    /\ streak' = [streak EXCEPT ![d] = 0]
    /\ login' = [login EXCEPT ![d] = NoLogin]
    /\ beat' = [beat EXCEPT ![d] = [s \in Slots |-> NoBeat]]
    /\ UNCHANGED <<serverVars, logouts>>

-----------------------------------------------------------------------------
(* Administration: each is an UPDATE and, later, revokeSeat *)

Act == acts < MaxAdmin /\ acts' = acts + 1

SetActive(u, on) ==
    /\ Act
    /\ active' = [active EXCEPT ![u] = on]
    /\ revoke' = IF on THEN revoke ELSE revoke \cup {<<u, "admin">>}
    /\ UNCHANGED <<seat, issued, paid, clientVars>>

ResetPassword(u) ==
    /\ Act
    /\ revoke' = revoke \cup {<<u, "admin">>}
    /\ UNCHANGED <<seat, issued, active, paid, clientVars>>

ChangePassword(d) ==
    /\ Act
    /\ authed[d] /\ Accepted(token[d])
    /\ revoke' = revoke \cup {<<token[d].user, "self">>}
    /\ UNCHANGED <<seat, issued, active, paid, clientVars>>

RevokeSeat(r) ==
    /\ r \in revoke
    /\ revoke' = revoke \ {r}
    /\ seat' = [seat EXCEPT ![r[1]] = NoSeat]
    /\ UNCHANGED <<issued, active, paid, acts, clientVars>>

SetPaid(on) ==
    /\ Act
    /\ paid' = on
    /\ UNCHANGED <<seat, issued, active, revoke, clientVars>>

-----------------------------------------------------------------------------
(* Time *)

SeatStale(u) ==
    /\ seat[u].fresh
    /\ seat' = [seat EXCEPT ![u].fresh = FALSE]
    /\ UNCHANGED <<issued, active, paid, revoke, acts, clientVars>>

TokenAges(d) ==
    /\ token[d] # NoToken /\ token[d].age # "expired"
    /\ token' = [token EXCEPT ![d].age = IF @ = "new" THEN "old" ELSE "expired"]
    /\ UNCHANGED <<serverVars, authed, timer, gate, streak, login, beat,
                   logouts>>

-----------------------------------------------------------------------------
LoginStep ==
    \E d \in Devices :
        \/ \E u \in Users : Submit(d, u)
        \/ LoginCheck(d) \/ LoginClaim(d) \/ Takeover(d)
        \/ Store(d) \/ Enter(d) \/ LoginLost(d)

BeatStep ==
    \E d \in Devices, s \in Slots :
        \/ BeatSend(d, s) \/ BeatAuth(d, s) \/ BeatCheck(d, s)
        \/ BeatTouch(d, s) \/ BeatReply(d, s) \/ BeatLost(d, s)

LeaveStep ==
    \/ \E d \in Devices : UserLogout(d) \/ ShowDialog(d) \/ Confirm(d)
                          \/ AppDies(d)
    \/ \E t \in logouts : Release(t) \/ LogoutLost(t)

AdminStep ==
    \/ \E u \in Users : ResetPassword(u) \/ \E on \in BOOLEAN : SetActive(u, on)
    \/ \E d \in Devices : ChangePassword(d)
    \/ \E r \in revoke : RevokeSeat(r)
    \/ \E on \in BOOLEAN : SetPaid(on)

TimeStep ==
    \/ \E u \in Users : SeatStale(u)
    \/ \E d \in Devices : TokenAges(d)

Next == LoginStep \/ BeatStep \/ LeaveStep \/ AdminStep \/ TimeStep

Spec == Init /\ [][Next]_vars

\* The timer keeps firing, and the network and the server let a heartbeat get
\* through and be answered again and again.  Nothing is assumed of people.
Fairness ==
    \A d \in Devices, s \in Slots :
        /\ WF_vars(BeatSend(d, s))
        /\ SF_vars(BeatAuth(d, s)) /\ SF_vars(BeatCheck(d, s))
        /\ SF_vars(BeatTouch(d, s)) /\ SF_vars(BeatReply(d, s))

FairSpec == Spec /\ Fairness

-----------------------------------------------------------------------------
(* Properties *)

(* One account is usable on one PC at a time: however logins, takeovers,
   renewed tokens, late answers and logouts cross, requireApiAuth never
   accepts the tokens of two PCs for one account. *)
OneLivePC ==
    \A d, e \in Devices :
        /\ Accepted(token[d]) /\ Accepted(token[e])
        /\ token[d].user = token[e].user
        => d = e

(* A login that sends heartbeats is lost only to a takeover, to its own
   logout, to a new login of the same PC, or to an administrator or a password
   change: never to a plain login elsewhere or to a logout that arrives late. *)
LiveLoginKept ==
    [][\A u \in Users :
         seat[u].fresh /\ seat'[u].jti # seat[u].jti =>
            \/ \E r \in revoke \ revoke' : r[1] = u
            \/ seat'[u].device = seat[u].device
            \/ \E d \in Devices : login[d].at = "claim" /\ login'[d] # login[d]
                                  /\ login[d].user = u /\ login[d].force
            \/ \E t \in logouts \ logouts' : t.user = u /\ t.jti = seat[u].jti
      ]_vars

(* A login that lost its seat, to a takeover, a logout or an administrator, never
   gets it back: not by a heartbeat that requireApiAuth had let pass before, not
   by a renewed token, not because the account is active again.  The application
   depends on it when it shows its dialog after one answer "revoked". *)
LostStaysLost ==
    [][\A u \in Users, j \in 1..issued :
         seat[u].jti # j => seat'[u].jti # j]_vars

(* A PC whose token the server no longer accepts (taken over, revoked, account
   or dealer suspended, token expired) does not go on as if logged in: the
   gate closes, unless the server accepts the PC again. *)
DisplacedLeaves ==
    \A d \in Devices :
        (authed[d] /\ token[d] # NoToken /\ ~Accepted(token[d]))
            ~> (gate[d] # "none" \/ ~authed[d] \/ token[d] = NoToken
                \/ Accepted(token[d]))

\* The PC whose login an account's seat is for, and the PC the server accepts.
Owner == [u \in Users |-> seat[u].device]
Uses(d, u) == Accepted(token[d]) /\ token[d].user = u
Holder == [u \in Users |-> IF \E d \in Devices : Uses(d, u)
                           THEN CHOOSE d \in Devices : Uses(d, u)
                           ELSE NoDevice]

Lock == INSTANCE SeatLock WITH owner <- Owner, holder <- Holder

(* Seats, tokens, heartbeats, renewals and late answers together implement the
   lock of SeatLock: the PC that requireApiAuth accepts is the PC of the last
   login, and an account that moves to another PC is first accepted nowhere. *)
ImplementsLock == Lock!Spec
=============================================================================
