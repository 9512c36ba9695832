--------------------------- MODULE ServicesProofs ---------------------------
(***************************************************************************)
(* Three services of the API, for any number of clients, accounts, callers,*)
(* requests and records: sessions end as told, requests to Nominatim keep  *)
(* their interval, and an import accounts for whatever the providers sent. *)
(*                                                                         *)
(* Sessions.  What a client knows of a token must stay true: tokens are    *)
(* never given twice, and nothing takes a revocation or an expiry back     *)
(* (KnownIsEnded).  A request remembers whether its token was known when it*)
(* was made (Tracked), and so the guard refuses it whatever happened since.*)
(*                                                                         *)
(* Geocoding.  What a caller sleeps is computed once, before the sleep; it *)
(* suffices for the requests seen because lastRequestAt tells exactly when *)
(* the last one was sent (FieldIsExact), and because the gap grows at least*)
(* as fast as the sleep shrinks (SleepSuffices).                           *)
(***************************************************************************)
EXTENDS Accounts, Geocoding, ProviderFetch, OrderingProofs

-----------------------------------------------------------------------------
(* Sessions.                                                               *)

KnownIsEnded == \A t \in ended.known : ~ValidateSession(t)

(* A request r, when n was the newest user and token and e had ended.      *)
Tracked(r, n, e) ==
  /\ r \in CallType
  /\ r.user \in 0..n.user /\ r.token \in 0..n.token
  /\ r.late => r.token \in e.known /\ r.at \in {"idle", "asked"}
  /\ r.op \in {"register", "login"} => ~r.late
  /\ r.op = "register" => r.email \in Email
  /\ r.op = "logout" => r.token \in e.asked
  /\ r.op \in Guarded => r.token \in 1..n.token

CallsAreTracked == \A c \in Client : Tracked(call[c], newest, ended)

AccountsInv == AccountsTypeOK /\ KnownIsEnded /\ CallsAreTracked /\ SessionsEndAsTold

(* What the tables, and not the requests, have to do with the invariant.   *)
TablesAreSound ==
  /\ \A u \in DOMAIN users : users[u] \in UserType
  /\ DOMAIN users \subseteq 1..newest.user
  /\ favorites \subseteq DOMAIN users
  /\ DOMAIN sessions \subseteq 1..newest.token
  /\ \A t \in DOMAIN sessions :
       sessions[t] \in SessionType /\ sessions[t].user \in DOMAIN users
  /\ newest \in [user : Nat, token : Nat, call : 0..MaxCalls]
  /\ ended \in [known : SUBSET (1..newest.token), asked : SUBSET (1..newest.token)]
  /\ KnownIsEnded
  /\ \A t \in DOMAIN sessions : sessions[t].revoked => t \in ended.asked

(* The invariant is about the tables and about the requests.               *)
LEMMA TwoParts ==
  AccountsInv <=> call \in [Client -> CallType] /\ CallsAreTracked /\ TablesAreSound
BY DEF AccountsInv, AccountsTypeOK, TablesAreSound, SessionsEndAsTold, CallsAreTracked, Tracked

(* Numbers and history only grow, and one request changes.                 *)
LEMMA OneCallChanges ==
  ASSUME AccountsInv, TablesAreSound', NEW c \in Client, NEW r,
         call' = [call EXCEPT ![c] = r],
         newest.user <= newest'.user, newest.token <= newest'.token,
         ended.known \subseteq ended'.known, ended.asked \subseteq ended'.asked,
         Tracked(r, newest', ended')
  PROVE  AccountsInv'
<1>1. call \in [Client -> CallType] /\ CallsAreTracked /\ TablesAreSound
  BY TwoParts
<1>2. newest \in [user : Nat, token : Nat, call : 0..MaxCalls]
      /\ newest' \in [user : Nat, token : Nat, call : 0..MaxCalls]
  BY <1>1 DEF TablesAreSound
<1>3. \A d \in Client : Tracked(call[d], newest', ended')
  <2> SUFFICES ASSUME NEW d \in Client PROVE Tracked(call[d], newest', ended')
    OBVIOUS
  <2>1. Tracked(call[d], newest, ended)
    BY <1>1 DEF CallsAreTracked
  <2>2. 0..newest.user \subseteq 0..newest'.user /\ 0..newest.token \subseteq 0..newest'.token
        /\ 1..newest.token \subseteq 1..newest'.token
    BY <1>2
  <2> QED BY <2>1, <2>2, Zenon DEF Tracked
<1>4. call' \in [Client -> CallType] /\ \A d \in Client : call'[d] = IF d = c THEN r ELSE call[d]
  BY <1>1 DEF Tracked
<1>5. CallsAreTracked'
  BY <1>3, <1>4 DEF CallsAreTracked
<1> QED
  BY <1>4, <1>5
  DEF AccountsInv, AccountsTypeOK, TablesAreSound, SessionsEndAsTold, CallsAreTracked, Tracked

(* Nobody has registered yet.                                              *)
LEMMA AccountsInitInv == AccountsInit => AccountsInv
<1> SUFFICES ASSUME AccountsInit PROVE AccountsInv
  OBVIOUS
<1> USE AccountsAssumption DEF AccountsInit
<1>1. TablesAreSound
  BY DEF TablesAreSound, KnownIsEnded
<1>2. call \in [Client -> CallType]
  BY DEF CallType, Idle
<1>3. CallsAreTracked
  BY <1>2 DEF CallsAreTracked, Tracked, Idle, Guarded, CallType
<1> QED BY <1>1, <1>2, <1>3, TwoParts

(* What a request under way is, to begin with.                             *)
LEMMA CallOf ==
  ASSUME AccountsInv, NEW c \in Client
  PROVE  /\ Tracked(call[c], newest, ended)
         /\ newest \in [user : Nat, token : Nat, call : 0..MaxCalls]
         /\ ended \in [known : SUBSET (1..newest.token), asked : SUBSET (1..newest.token)]
BY TwoParts DEF CallsAreTracked, TablesAreSound

(* A request that is idle is tracked, whatever is known.                   *)
LEMMA IdleIsTracked ==
  ASSUME NEW n, n.user \in Nat, n.token \in Nat, NEW e
  PROVE  Tracked(Idle, n, e)
BY DEF Tracked, Idle, CallType, Guarded

(* A request ends, whatever it did to the tables.                          *)
LEMMA FinishInv ==
  ASSUME AccountsInv, TablesAreSound', NEW c \in Client, Finish(c),
         newest.user <= newest'.user, newest.token <= newest'.token,
         ended.known \subseteq ended'.known, ended.asked \subseteq ended'.asked
  PROVE  AccountsInv'
<1>1. newest' \in [user : Nat, token : Nat, call : 0..MaxCalls]
  BY DEF TablesAreSound
<1>2. Tracked(Idle, newest', ended')
  BY <1>1, IdleIsTracked
<1> QED BY <1>2, OneCallChanges DEF Finish

(* A request of which nothing was known to have ended goes on.             *)
LEMMA GoInv ==
  ASSUME AccountsInv, TablesAreSound', NEW c \in Client,
         ~call[c].late, newest' = newest,
         ended.known \subseteq ended'.known, ended.asked \subseteq ended'.asked,
         NEW at \in {"verified", "admitted", "listed", "confirmed", "revoked"} \cup Locale,
         NEW user \in 0..newest.user,
         call' = [call EXCEPT ![c].at = at, ![c].user = user]
  PROVE  AccountsInv'
<1> DEFINE r == [call[c] EXCEPT !.at = at, !.user = user]
<1>1. Tracked(call[c], newest, ended)
  BY CallOf
<1>2. /\ call[c] \in CallType /\ call[c].token \in 0..newest'.token
      /\ call[c].op = "logout" => call[c].token \in ended'.asked
  BY <1>1 DEF Tracked
<1>3. r \in CallType
  <2>1. user \in Nat
    BY CallOf
  <2> QED BY <1>2, <2>1 DEF CallType
<1>4. /\ r.op = call[c].op /\ r.token = call[c].token /\ r.email = call[c].email
      /\ r.late = call[c].late /\ r.user = user
  BY <1>2 DEF CallType
<1>5. Tracked(r, newest', ended')
  BY <1>1, <1>2, <1>3, <1>4, Zenon DEF Tracked
<1>6. call' = [call EXCEPT ![c] = r]
  BY TwoParts
<1>7. PICK x : call' = [call EXCEPT ![c] = x] /\ Tracked(x, newest', ended')
  BY <1>5, <1>6
<1>8. newest.user <= newest'.user /\ newest.token <= newest'.token
  BY CallOf
<1> QED BY <1>7, <1>8, OneCallChanges

(* What the invariant says of the tables and of the history.               *)
LEMMA TablesOf == AccountsInv => TablesAreSound
BY TwoParts

(* Rows of users that keep their numbers, and favourites of theirs.        *)
LEMMA UsersChangeInv ==
  ASSUME AccountsInv, UNCHANGED <<sessions, newest, ended>>,
         DOMAIN users' = DOMAIN users, \A u \in DOMAIN users : users'[u] \in UserType,
         favorites' \subseteq DOMAIN users
  PROVE  TablesAreSound'
BY TablesOf DEF TablesAreSound, KnownIsEnded, ValidateSession

(* A request begins: the tables stay, and it knows what is known.          *)
LEMMA StartCallInv ==
  ASSUME AccountsInv, NEW c \in Client,
         NEW op \in Guarded \cup {"register", "login", "logout"},
         NEW email \in Email \cup {"none"}, NEW user \in 0..newest.user,
         NEW token \in 0..newest.token,
         op \in {"register", "login"} => token = 0,
         op = "register" => email \in Email,
         op \in Guarded \cup {"logout"} => token \in 1..newest.token,
         StartCall(c, op, email, user, token)
  PROVE  AccountsInv'
<1> DEFINE r == [op |-> op, at |-> "asked", user |-> user, token |-> token,
                 email |-> email, late |-> token \in ended.known]
<1>1. /\ newest \in [user : Nat, token : Nat, call : 0..MaxCalls]
      /\ ended \in [known : SUBSET (1..newest.token), asked : SUBSET (1..newest.token)]
  BY CallOf
<1>2. /\ newest' = [newest EXCEPT !.call = @ + 1] /\ newest.call < MaxCalls
      /\ call' = [call EXCEPT ![c] = r]
      /\ UNCHANGED <<users, favorites, sessions>>
  BY DEF StartCall, Tables
<1>3. ended' = IF op = "logout" THEN [ended EXCEPT !.asked = @ \cup {token}] ELSE ended
  BY DEF StartCall
<1>4. /\ newest'.user = newest.user /\ newest'.token = newest.token
      /\ newest' \in [user : Nat, token : Nat, call : 0..MaxCalls]
  BY <1>1, <1>2, AccountsAssumption
<1>5. /\ ended'.known = ended.known /\ ended.asked \subseteq ended'.asked
      /\ op = "logout" => token \in ended'.asked
      /\ ended' \in [known : SUBSET (1..newest.token), asked : SUBSET (1..newest.token)]
  BY <1>1, <1>3
<1>6. TablesAreSound'
  BY TablesOf, <1>2, <1>4, <1>5 DEF TablesAreSound, KnownIsEnded, ValidateSession
<1>7. r \in CallType
  BY <1>1 DEF CallType
<1>8. op \in {"register", "login"} => ~(token \in ended.known)
  BY <1>1
<1>9. Tracked(r, newest', ended')
  <2>1. r.user \in 0..newest'.user /\ r.token \in 0..newest'.token
    BY <1>4
  <2>2. r.late => r.token \in ended'.known /\ r.at \in {"idle", "asked"}
    BY <1>5
  <2>3. r.op \in {"register", "login"} => ~r.late
    BY <1>8
  <2>4. /\ r.op = "register" => r.email \in Email
        /\ r.op = "logout" => r.token \in ended'.asked
        /\ r.op \in Guarded => r.token \in 1..newest'.token
    BY <1>4, <1>5
  <2> QED BY <1>7, <2>1, <2>2, <2>3, <2>4, Zenon DEF Tracked
<1>10. PICK x : call' = [call EXCEPT ![c] = x] /\ Tracked(x, newest', ended')
  BY <1>2, <1>9
<1>11. newest.user <= newest'.user /\ newest.token <= newest'.token
  BY <1>1, <1>4
<1> QED BY <1>5, <1>6, <1>10, <1>11, OneCallChanges

(* A request changes no more of the tables than UsersChangeInv allows,     *)
(* and ends, or goes on when nothing of it was known to have ended.        *)
LEMMA CallGoesOnInv ==
  ASSUME AccountsInv, NEW c \in Client, UNCHANGED <<sessions, newest, ended>>,
         DOMAIN users' = DOMAIN users, \A u \in DOMAIN users : users'[u] \in UserType,
         favorites' \subseteq DOMAIN users,
         \/ Finish(c)
         \/ /\ ~call[c].late
            /\ \E at \in {"verified", "admitted", "listed", "confirmed", "revoked"} \cup Locale :
                 Go(c, at)
  PROVE  AccountsInv'
<1>1. TablesAreSound'
  BY UsersChangeInv
<1>2. newest.user <= newest'.user /\ newest.token <= newest'.token
  BY CallOf
<1>3. CASE Finish(c)
  BY <1>1, <1>2, <1>3, FinishInv
<1>4. ASSUME ~call[c].late,
             NEW at \in {"verified", "admitted", "listed", "confirmed", "revoked"} \cup Locale,
             Go(c, at)
      PROVE  AccountsInv'
  <2>1. call[c].user \in 0..newest.user
    BY CallOf DEF Tracked
  <2>2. PICK u \in 0..newest.user : call[c].user = u
    BY <2>1
  <2>3. call' = [call EXCEPT ![c].at = at, ![c].user = u]
    <3>1. call[c] \in CallType
      BY CallOf DEF Tracked
    <3>2. [call[c] EXCEPT !.at = at] = [call[c] EXCEPT !.at = at, !.user = u]
      BY <2>2, <3>1 DEF CallType
    <3> QED BY <1>4, <2>2, <3>2, TwoParts DEF Go
  <2> QED BY <1>1, <1>4, <2>3, GoInv
<1> QED BY <1>3, <1>4

(* The user is stored with the next number, which no session names.        *)
LEMMA StoreUserInv ==
  ASSUME AccountsInv, NEW c \in Client, StoreUser(c)
  PROVE  AccountsInv'
<1>1. CASE Owner(call[c].email) # {}
  BY <1>1, CallGoesOnInv, TablesOf DEF StoreUser, TablesAreSound
<1>2. CASE Owner(call[c].email) = {}
  <2> DEFINE u == newest.user + 1
             row == [email |-> call[c].email, locale |-> "en", preferred |-> "en"]
  <2>1. /\ users' = Put(users, u, row) /\ newest' = [newest EXCEPT !.user = u]
        /\ call' = [call EXCEPT ![c].at = "verified", ![c].user = u]
        /\ UNCHANGED <<favorites, sessions, ended>>
        /\ call[c].op = "register" /\ call[c].at = "asked"
    BY <1>2 DEF StoreUser, At
  <2>2. Tracked(call[c], newest, ended)
        /\ newest \in [user : Nat, token : Nat, call : 0..MaxCalls]
    BY CallOf
  <2>3. /\ u \in Nat /\ newest.user < u /\ 1..newest.user \subseteq 1..u /\ u \in 1..u
        /\ newest'.user = u /\ newest'.token = newest.token
        /\ newest' \in [user : Nat, token : Nat, call : 0..MaxCalls]
    BY <2>1, <2>2
  <2>4. row \in UserType
    BY <2>1, <2>2, AccountsAssumption DEF Tracked, UserType
  <2>5. /\ DOMAIN users' = DOMAIN users \cup {u}
        /\ \A v \in DOMAIN users' : users'[v] = IF v = u THEN row ELSE users[v]
    <3> HIDE DEF u, row
    <3> QED BY <2>1 DEF Put
  <2>6. TablesAreSound'
    <3>1. DOMAIN users' \subseteq 1..newest'.user
      BY TablesOf, <2>3, <2>5 DEF TablesAreSound
    <3>2. \A v \in DOMAIN users' : users'[v] \in UserType
      BY TablesOf, <2>4, <2>5 DEF TablesAreSound
    <3>3. KnownIsEnded'
      BY TablesOf, <2>1, <2>5 DEF TablesAreSound, KnownIsEnded, ValidateSession
    <3> QED BY TablesOf, <2>1, <2>3, <2>5, <3>1, <3>2, <3>3 DEF TablesAreSound
  <2>7. PICK x : /\ call' = [call EXCEPT ![c] = x]
                 /\ x = [call[c] EXCEPT !.at = "verified", !.user = u]
    BY <2>1, TwoParts
  <2>8. Tracked(x, newest', ended')
    <3>1. x \in CallType /\ x.op = "register" /\ x.token = call[c].token /\ x.user = u
          /\ x.email = call[c].email /\ x.late = call[c].late
      BY <2>1, <2>2, <2>3, <2>7 DEF Tracked, CallType
    <3> QED BY <2>1, <2>2, <2>3, <3>1 DEF Tracked, Guarded
  <2>9. newest.user <= newest'.user /\ newest.token <= newest'.token
    BY <2>2, <2>3
  <2> QED BY <2>1, <2>6, <2>7, <2>8, <2>9, OneCallChanges
<1> QED BY <1>1, <1>2

(* A session gets the next token, which nobody knows yet.                  *)
LEMMA CreateSessionInv ==
  ASSUME AccountsInv, NEW c \in Client, CreateSession(c)
  PROVE  AccountsInv'
<1>1. CASE call[c].user \notin DOMAIN users
  BY <1>1, CallGoesOnInv, TablesOf DEF CreateSession, TablesAreSound
<1>2. CASE call[c].user \in DOMAIN users
  <2> DEFINE t == newest.token + 1
             s == [user |-> call[c].user, revoked |-> FALSE, expired |-> FALSE]
  <2>1. /\ newest' = [newest EXCEPT !.token = t] /\ sessions' = Put(sessions, t, s)
        /\ Finish(c) /\ UNCHANGED <<users, favorites, ended>>
    BY <1>2 DEF CreateSession
  <2>2. Tracked(call[c], newest, ended)
        /\ newest \in [user : Nat, token : Nat, call : 0..MaxCalls]
    BY CallOf
  <2>3. /\ t \in Nat /\ newest.token < t /\ 1..newest.token \subseteq 1..t /\ t \in 1..t
        /\ t \notin 1..newest.token
        /\ newest'.token = t /\ newest'.user = newest.user
        /\ newest' \in [user : Nat, token : Nat, call : 0..MaxCalls]
    BY <2>1, <2>2
  <2>4. s \in SessionType /\ s.user \in DOMAIN users /\ ~s.revoked
    BY <1>2, <2>2 DEF SessionType, Tracked, CallType
  <2>5. /\ DOMAIN sessions' = DOMAIN sessions \cup {t}
        /\ \A x \in DOMAIN sessions' : sessions'[x] = IF x = t THEN s ELSE sessions[x]
    <3> HIDE DEF t, s
    <3> QED BY <2>1 DEF Put
  <2>6. TablesAreSound'
    <3>1. DOMAIN sessions' \subseteq 1..newest'.token
      BY TablesOf, <2>3, <2>5 DEF TablesAreSound
    <3>2. \A x \in DOMAIN sessions' :
            sessions'[x] \in SessionType /\ sessions'[x].user \in DOMAIN users
      BY TablesOf, <2>4, <2>5 DEF TablesAreSound
    <3>3. ended' \in [known : SUBSET (1..newest'.token), asked : SUBSET (1..newest'.token)]
      BY TablesOf, <2>1, <2>3 DEF TablesAreSound
    <3>4. KnownIsEnded'
      BY TablesOf, <2>1, <2>3, <2>5 DEF TablesAreSound, KnownIsEnded, ValidateSession
    <3>5. \A x \in DOMAIN sessions' : sessions'[x].revoked => x \in ended'.asked
      BY TablesOf, <2>1, <2>4, <2>5 DEF TablesAreSound
    <3> QED BY TablesOf, <2>1, <2>3, <3>1, <3>2, <3>3, <3>4, <3>5 DEF TablesAreSound
  <2>7. newest.user <= newest'.user /\ newest.token <= newest'.token
    BY <2>2, <2>3
  <2> QED BY <2>1, <2>6, <2>7, FinishInv
<1> QED BY <1>1, <1>2

(* The guard admits nobody whose token was known to be of no more use.     *)
LEMMA CanActivateInv ==
  ASSUME AccountsInv, NEW c \in Client, CanActivate(c)
  PROVE  AccountsInv'
<1>1. /\ call[c].op \in Guarded /\ Tracked(call[c], newest, ended)
      /\ newest \in [user : Nat, token : Nat, call : 0..MaxCalls]
      /\ users' = users /\ favorites' = favorites /\ sessions' = sessions /\ newest' = newest
  BY CallOf DEF CanActivate, Tables
<1>2. CASE ValidateSession(call[c].token)
  <2>1. /\ call' = [call EXCEPT ![c].at = "admitted", ![c].user = sessions[call[c].token].user]
        /\ ended' = ended
    BY <1>2 DEF CanActivate
  <2>2. ~call[c].late
    BY <1>1, <1>2, TablesOf DEF TablesAreSound, KnownIsEnded, Tracked
  <2>3. sessions[call[c].token].user \in 0..newest.user
    BY <1>1, <1>2, TablesOf DEF TablesAreSound, ValidateSession
  <2>4. TablesAreSound'
    BY <1>1, <2>1, TablesOf DEF TablesAreSound, KnownIsEnded, ValidateSession
  <2>5. PICK u \in 0..newest.user :
          call' = [call EXCEPT ![c].at = "admitted", ![c].user = u]
    BY <2>1, <2>3
  <2> QED BY <1>1, <2>1, <2>2, <2>4, <2>5, GoInv
<1>3. CASE ~ValidateSession(call[c].token)
  <2>1. Finish(c) /\ ended' = [ended EXCEPT !.known = @ \cup {call[c].token}]
    BY <1>3 DEF CanActivate
  <2>2. call[c].token \in 1..newest.token
    BY <1>1 DEF Tracked
  <2>3. TablesAreSound'
    BY <1>1, <1>3, <2>1, <2>2, TablesOf DEF TablesAreSound, KnownIsEnded, ValidateSession
  <2>4. ended.known \subseteq ended'.known /\ ended.asked \subseteq ended'.asked
    BY <2>1, CallOf
  <2>5. newest.user <= newest'.user /\ newest.token <= newest'.token
    BY <1>1
  <2> QED BY <2>1, <2>3, <2>4, <2>5, FinishInv
<1> QED BY <1>2, <1>3

(* The logout of a token takes effect when the session is revoked.         *)
LEMMA RevokeSessionInv ==
  ASSUME AccountsInv, NEW c \in Client, RevokeSession(c)
  PROVE  AccountsInv'
<1>1. /\ Tracked(call[c], newest, ended)
      /\ newest \in [user : Nat, token : Nat, call : 0..MaxCalls]
      /\ ended \in [known : SUBSET (1..newest.token), asked : SUBSET (1..newest.token)]
  BY CallOf
<1>2. /\ call[c].op = "logout" /\ Finish(c)
      /\ ended' = [ended EXCEPT !.known = @ \cup {call[c].token}]
      /\ sessions' = [t \in DOMAIN sessions |->
                        [sessions[t] EXCEPT !.revoked = @ \/ t = call[c].token]]
      /\ users' = users /\ favorites' = favorites /\ newest' = newest
  BY DEF RevokeSession, At
<1>3. /\ call[c].token \in ended.asked /\ call[c].token \in 1..newest.token
      /\ ended'.known = ended.known \cup {call[c].token} /\ ended'.asked = ended.asked
      /\ ended' \in [known : SUBSET (1..newest.token), asked : SUBSET (1..newest.token)]
  BY <1>1, <1>2 DEF Tracked
<1>4. /\ DOMAIN sessions' = DOMAIN sessions
      /\ \A t \in DOMAIN sessions :
           /\ sessions'[t] \in SessionType /\ sessions'[t].user = sessions[t].user
           /\ sessions'[t].expired = sessions[t].expired
           /\ sessions'[t].revoked <=> sessions[t].revoked \/ t = call[c].token
  BY <1>2, TablesOf DEF TablesAreSound, SessionType
<1>5. TablesAreSound'
  BY <1>2, <1>3, <1>4, TablesOf DEF TablesAreSound, KnownIsEnded, ValidateSession
<1>6. newest.user <= newest'.user /\ newest.token <= newest'.token
  BY <1>1, <1>2
<1> QED BY <1>2, <1>3, <1>5, <1>6, FinishInv

(* Requests that the guard has admitted, and logins, were not late.        *)
LEMMA AdmittedIsNotLate ==
  ASSUME AccountsInv, NEW c \in Client,
         call[c].at \notin {"idle", "asked"} \/ call[c].op \in {"register", "login"}
  PROVE  ~call[c].late
BY CallOf DEF Tracked

(* The handlers that change no table, and those that change only           *)
(* preferences and favourites.                                             *)
LEMMA HandlerInv ==
  ASSUME AccountsInv, NEW c \in Client,
         \/ VerifyPassword(c)
         \/ GetMe(c) \/ GetPreferences(c) \/ ListFavorites(c)
         \/ \E l \in Locale : PatchUser(c, l)
         \/ PatchPreferences(c) \/ AddFavorite(c) \/ RemoveFavorite(c)
  PROVE  AccountsInv'
<1>1. TablesAreSound
  BY TablesOf
<1>2. \A u \in DOMAIN users : users[u] \in UserType
  BY <1>1 DEF TablesAreSound
<1>3. favorites \subseteq DOMAIN users
  BY <1>1 DEF TablesAreSound
<1>4. CASE VerifyPassword(c)
  <2>1. ~call[c].late
    BY <1>4, AdmittedIsNotLate DEF VerifyPassword, At
  <2> QED BY <1>2, <1>3, <1>4, <2>1, CallGoesOnInv DEF VerifyPassword, Tables
<1>5. CASE GetMe(c) \/ ListFavorites(c)
  BY <1>2, <1>3, <1>5, CallGoesOnInv DEF GetMe, ListFavorites, Tables
<1>6. CASE GetPreferences(c)
  <2>1. ~call[c].late
    BY <1>6, AdmittedIsNotLate DEF GetPreferences
  <2> QED BY <1>2, <1>3, <1>6, <2>1, CallGoesOnInv DEF GetPreferences, Tables
<1>7. ASSUME NEW l \in Locale, PatchUser(c, l)
      PROVE  AccountsInv'
  <2>1. ~call[c].late
    BY <1>7, AdmittedIsNotLate DEF PatchUser, At
  <2>2. DOMAIN users' = DOMAIN users /\ \A u \in DOMAIN users : users'[u] \in UserType
    BY <1>2, <1>7 DEF PatchUser, UserType
  <2>3. UNCHANGED <<favorites, sessions, newest, ended>> /\ (Finish(c) \/ Go(c, l))
    BY <1>7 DEF PatchUser
  <2> QED BY <1>3, <2>1, <2>2, <2>3, CallGoesOnInv
<1>8. CASE PatchPreferences(c)
  <2>1. DOMAIN users' = DOMAIN users /\ \A u \in DOMAIN users : users'[u] \in UserType
    BY <1>2, <1>8 DEF PatchPreferences, UserType
  <2>2. UNCHANGED <<favorites, sessions, newest, ended>> /\ Finish(c)
    BY <1>8 DEF PatchPreferences
  <2> QED BY <1>3, <2>1, <2>2, CallGoesOnInv
<1>9. CASE AddFavorite(c) \/ RemoveFavorite(c)
  BY <1>2, <1>3, <1>9, CallGoesOnInv DEF AddFavorite, RemoveFavorite
<1> QED BY <1>4, <1>5, <1>6, <1>7, <1>8, <1>9

(* Whoever confirms the deletion asks for every session to end.            *)
LEMMA ConfirmDeletionInv ==
  ASSUME AccountsInv, NEW c \in Client, ConfirmDeletion(c)
  PROVE  AccountsInv'
<1>1. TablesAreSound /\ ~call[c].late
  BY TablesOf, AdmittedIsNotLate DEF ConfirmDeletion, At
<1>2. CASE Finish(c) /\ UNCHANGED ended
  BY <1>1, <1>2, CallGoesOnInv DEF ConfirmDeletion, Tables, TablesAreSound
<1>3. CASE Go(c, "confirmed") /\ ended' = [ended EXCEPT !.asked = @ \cup TokensOf(call[c].user)]
  <2>1. UNCHANGED <<users, favorites, sessions, newest>>
    BY DEF ConfirmDeletion, Tables
  <2>2. /\ ended'.known = ended.known /\ ended'.asked = ended.asked \cup TokensOf(call[c].user)
        /\ ended' \in [known : SUBSET (1..newest.token), asked : SUBSET (1..newest.token)]
    BY <1>1, <1>3 DEF TablesAreSound, TokensOf
  <2>3. TablesAreSound'
    BY <1>1, <2>1, <2>2 DEF TablesAreSound, KnownIsEnded, ValidateSession
  <2>4. Tracked(call[c], newest, ended)
    BY CallOf
  <2>5. PICK x : call' = [call EXCEPT ![c] = x] /\ x = [call[c] EXCEPT !.at = "confirmed"]
    BY <1>3 DEF Go
  <2>6. Tracked(x, newest', ended')
    <3>1. /\ x \in CallType /\ x.op = call[c].op /\ x.token = call[c].token
          /\ x.user = call[c].user /\ x.email = call[c].email /\ ~x.late
      BY <1>1, <2>4, <2>5 DEF Tracked, CallType
    <3> QED BY <2>1, <2>2, <2>4, <3>1 DEF Tracked
  <2>7. newest.user <= newest'.user /\ newest.token <= newest'.token
    BY <2>1, CallOf
  <2> QED BY <2>2, <2>3, <2>5, <2>6, <2>7, OneCallChanges
<1> QED BY <1>2, <1>3 DEF ConfirmDeletion

(* Every session of the account is revoked, which was asked for.           *)
LEMMA RevokeAllUserSessionsInv ==
  ASSUME AccountsInv, NEW c \in Client, RevokeAllUserSessions(c)
  PROVE  AccountsInv'
<1>1. TablesAreSound /\ ~call[c].late
  BY TablesOf, AdmittedIsNotLate DEF RevokeAllUserSessions, At
<1>2. /\ users' = users /\ favorites' = favorites /\ newest' = newest
      /\ sessions' = [t \in DOMAIN sessions |->
                        [sessions[t] EXCEPT !.revoked = @ \/ sessions[t].user = call[c].user]]
      /\ ended' = [ended EXCEPT !.asked = @ \cup TokensOf(call[c].user)]
      /\ Go(c, "revoked")
  BY DEF RevokeAllUserSessions
<1>3. /\ ended'.known = ended.known /\ ended'.asked = ended.asked \cup TokensOf(call[c].user)
      /\ ended' \in [known : SUBSET (1..newest.token), asked : SUBSET (1..newest.token)]
  BY <1>1, <1>2 DEF TablesAreSound, TokensOf
<1>4. /\ DOMAIN sessions' = DOMAIN sessions
      /\ \A t \in DOMAIN sessions :
           /\ sessions'[t] \in SessionType /\ sessions'[t].user = sessions[t].user
           /\ sessions'[t].expired = sessions[t].expired
           /\ sessions'[t].revoked <=> sessions[t].revoked \/ sessions[t].user = call[c].user
  BY <1>1, <1>2 DEF TablesAreSound, SessionType
<1>5. TablesAreSound'
  <2>1. KnownIsEnded'
    BY <1>1, <1>2, <1>3, <1>4 DEF TablesAreSound, KnownIsEnded, ValidateSession
  <2>2. \A t \in DOMAIN sessions' : sessions'[t].revoked => t \in ended'.asked
    BY <1>1, <1>3, <1>4 DEF TablesAreSound, TokensOf
  <2> QED BY <1>1, <1>2, <1>3, <1>4, <2>1, <2>2 DEF TablesAreSound
<1>6. Tracked(call[c], newest, ended)
  BY CallOf
<1>7. PICK x : call' = [call EXCEPT ![c] = x] /\ x = [call[c] EXCEPT !.at = "revoked"]
  BY <1>2 DEF Go
<1>8. Tracked(x, newest', ended')
  <2>1. /\ x \in CallType /\ x.op = call[c].op /\ x.token = call[c].token
        /\ x.user = call[c].user /\ x.email = call[c].email /\ ~x.late
    BY <1>1, <1>6, <1>7 DEF Tracked, CallType
  <2> QED BY <1>2, <1>3, <1>6, <2>1 DEF Tracked
<1>9. newest.user <= newest'.user /\ newest.token <= newest'.token
  BY <1>2, CallOf
<1> QED BY <1>3, <1>5, <1>7, <1>8, <1>9, OneCallChanges

(* The rows of a deleted account go together, and its tokens with them.    *)
LEMMA DeleteUserInv ==
  ASSUME AccountsInv, NEW c \in Client, DeleteUser(c)
  PROVE  AccountsInv'
<1>1. TablesAreSound
  BY TablesOf
<1>2. /\ users' = [u \in DOMAIN users \ {call[c].user} |-> users[u]]
      /\ favorites' = favorites \ {call[c].user} /\ newest' = newest
      /\ sessions' = [t \in DOMAIN sessions \ TokensOf(call[c].user) |-> sessions[t]]
      /\ ended' = [ended EXCEPT !.known = @ \cup TokensOf(call[c].user)]
      /\ Finish(c)
  BY DEF DeleteUser
<1>3. /\ ended'.known = ended.known \cup TokensOf(call[c].user) /\ ended'.asked = ended.asked
      /\ ended' \in [known : SUBSET (1..newest.token), asked : SUBSET (1..newest.token)]
  BY <1>1, <1>2 DEF TablesAreSound, TokensOf
<1>4. /\ DOMAIN sessions' = DOMAIN sessions \ TokensOf(call[c].user)
      /\ \A t \in DOMAIN sessions' : sessions'[t] = sessions[t] /\ sessions[t].user # call[c].user
  BY <1>2 DEF TokensOf
<1>5. TablesAreSound'
  <2>1. KnownIsEnded'
    BY <1>1, <1>2, <1>3, <1>4 DEF TablesAreSound, KnownIsEnded, ValidateSession
  <2> QED BY <1>1, <1>2, <1>3, <1>4, <2>1 DEF TablesAreSound
<1>6. newest.user <= newest'.user /\ newest.token <= newest'.token
  BY <1>2, CallOf
<1> QED BY <1>2, <1>3, <1>5, <1>6, FinishInv

(* Requests stay, and the tables stay sound: so does the invariant.        *)
LEMMA NoCallChanges ==
  ASSUME AccountsInv, TablesAreSound', UNCHANGED <<newest, call, ended>>
  PROVE  AccountsInv'
BY TwoParts
DEF AccountsInv, AccountsTypeOK, TablesAreSound, SessionsEndAsTold, CallsAreTracked, Tracked

(* A session that expires or is cleaned up admits nobody new.              *)
LEMMA TimeInv ==
  ASSUME AccountsInv, CleanupExpiredSessions \/ \E t \in 1..newest.token : Expire(t)
  PROVE  AccountsInv'
<1>1. TablesAreSound
  BY TablesOf
<1>2. CASE CleanupExpiredSessions
  <2>1. TablesAreSound'
    BY <1>1, <1>2 DEF CleanupExpiredSessions, TablesAreSound, KnownIsEnded, ValidateSession
  <2> QED BY <1>2, <2>1, NoCallChanges DEF CleanupExpiredSessions
<1>3. ASSUME NEW t \in 1..newest.token, Expire(t)
      PROVE  AccountsInv'
  <2>1. /\ DOMAIN sessions' = DOMAIN sessions
        /\ \A x \in DOMAIN sessions :
             /\ sessions'[x] \in SessionType /\ sessions'[x].user = sessions[x].user
             /\ sessions'[x].revoked = sessions[x].revoked
             /\ ~sessions'[x].expired => ~sessions[x].expired
    BY <1>1, <1>3 DEF Expire, TablesAreSound, SessionType
  <2>2. TablesAreSound'
    BY <1>1, <1>3, <2>1 DEF Expire, TablesAreSound, KnownIsEnded, ValidateSession
  <2> QED BY <1>3, <2>2, NoCallChanges DEF Expire
<1> QED BY <1>2, <1>3

(* Every step keeps the invariant.                                         *)
LEMMA AccountsNextInv == AccountsInv /\ [AccountsNext]_accountVars => AccountsInv'
<1> SUFFICES ASSUME AccountsInv, [AccountsNext]_accountVars PROVE AccountsInv'
  OBVIOUS
<1>1. newest \in [user : Nat, token : Nat, call : 0..MaxCalls]
      /\ DOMAIN users \subseteq 1..newest.user
  BY TablesOf DEF TablesAreSound
<1>2. ASSUME NEW c \in Client, NEW e \in Email, Register(c, e)
      PROVE  AccountsInv'
  BY <1>1, <1>2, StartCallInv DEF Register, Guarded
<1>3. ASSUME NEW c \in Client, NEW e \in Email, Login(c, e)
      PROVE  AccountsInv'
  <2>1. PICK u \in 0..newest.user : StartCall(c, "login", e, u, 0)
    BY <1>1, <1>3 DEF Login, Owner
  <2> QED BY <1>1, <2>1, StartCallInv DEF Guarded
<1>4. ASSUME NEW c \in Client, NEW t \in 1..newest.token, NEW op \in Guarded \cup {"logout"},
             StartCall(c, op, "none", 0, t)
      PROVE  AccountsInv'
  BY <1>1, <1>4, StartCallInv DEF Guarded
<1>5. ASSUME NEW c \in Client, Handle(c)
      PROVE  AccountsInv'
  BY <1>5, StoreUserInv, CreateSessionInv, RevokeSessionInv, CanActivateInv, HandlerInv,
     ConfirmDeletionInv, RevokeAllUserSessionsInv, DeleteUserInv
  DEF Handle
<1>6. CASE UNCHANGED accountVars
  <2>1. TablesAreSound'
    BY <1>6, TablesOf DEF accountVars, TablesAreSound, KnownIsEnded, ValidateSession
  <2> QED BY <1>6, <2>1, NoCallChanges DEF accountVars
<1> QED BY <1>2, <1>3, <1>4, <1>5, <1>6, TimeInv DEF AccountsNext

(* The inductive invariant: what is known of a token stays true, and every *)
(* request remembers what was known when it was made.                      *)
THEOREM AccountsInvariant == AccountsSpec => []AccountsInv
BY AccountsInitInv, AccountsNextInv, PTL DEF AccountsSpec

(* The tables keep their foreign keys and the requests their types, for    *)
(* any number of clients and accounts.                                     *)
THEOREM AccountsTyped == AccountsSpec => []AccountsTypeOK
<1>1. AccountsInv => AccountsTypeOK
  BY DEF AccountsInv
<1> QED BY <1>1, AccountsInvariant, PTL

(* No request made after its token was answered with 401, logged out or    *)
(* deleted passes the session guard, and no session is revoked that its    *)
(* owner did not ask to be (auth.service.ts, session.service.ts and the    *)
(* session guard), for any number of clients, accounts and requests.       *)
THEOREM SessionsEnd == AccountsSpec => []SessionsEndAsTold
<1>1. AccountsInv => SessionsEndAsTold
  BY DEF AccountsInv
<1> QED BY <1>1, AccountsInvariant, PTL

-----------------------------------------------------------------------------
(* Geocoding.                                                              *)

FieldIsExact == elapsed = quiet

SleepSuffices == \A c \in Caller : geo[c].at = "sleeping" => geo[c].gap + geo[c].left >= minIntervalMs

AnswersAreKept == \A c \in Caller : geo[c].at = "filling" => geo[c].got \in Answer

GeoInv ==
  /\ GeoTypeOK
  /\ FieldIsExact /\ SleepSuffices /\ AnswersAreKept
  /\ IntervalToRequestsSeen

(* What a caller can be, in the words of GeoTypeOK.                        *)
CallerType ==
  [at : GeoPhase, ask : Question \cup {Nobody}, left : 0..minIntervalMs,
   gap : 0..minIntervalMs, got : Answer \cup {Nobody},
   status : GeoStatus]

(* A caller that the interval and the cache can be trusted with.           *)
Sound(r) ==
  /\ r \in CallerType
  /\ r.at = "sleeping" => r.gap + r.left >= minIntervalMs
  /\ r.at = "filling" => r.got \in Answer
  /\ r.at = "asking" => r.gap = minIntervalMs

(* The invariant is about the clocks, the cache, and each caller.          *)
LEMMA GeoParts ==
  GeoInv <=> /\ elapsed \in 0..minIntervalMs /\ quiet = elapsed
             /\ geoCache \in [Question -> Answer \cup {NotCached}]
             /\ geo \in [Caller -> CallerType]
             /\ \A c \in Caller : Sound(geo[c])
BY DEF GeoInv, GeoTypeOK, FieldIsExact, SleepSuffices, AnswersAreKept, IntervalToRequestsSeen,
       Sound, CallerType

(* What a caller is told is an answer's status, or that of a failure.      *)
LEMMA Statuses ==
  /\ 0 \in GeoStatus
  /\ \A q, a : StatusFor(q, a) \in GeoStatus
  /\ \A f \in DOMAIN GeoFailures : GeoFailures[f] \in GeoStatus
BY DEF GeoStatus, StatusFor

(* A caller that is not at the provider or asleep is sound.                *)
LEMMA RestingIsSound ==
  /\ Sound(NoCaller)
  /\ \A s \in GeoStatus : Sound(Ended(s))
  /\ \A q \in Question : Sound([NoCaller EXCEPT !.at = "slot", !.ask = q])
<1>1. NoCaller \in CallerType /\ NoCaller.at = "idle"
  BY Statuses, GeocodingAssumption DEF CallerType, NoCaller, GeoPhase
<1>2. ASSUME NEW s \in GeoStatus PROVE Sound(Ended(s))
  <2>1. Ended(s) \in CallerType /\ Ended(s).at = "done"
    BY <1>1 DEF Ended, CallerType, GeoPhase
  <2> QED BY <2>1 DEF Sound
<1>3. ASSUME NEW q \in Question PROVE Sound([NoCaller EXCEPT !.at = "slot", !.ask = q])
  <2> DEFINE r == [NoCaller EXCEPT !.at = "slot", !.ask = q]
  <2>1. r \in CallerType /\ r.at = "slot"
    BY <1>1 DEF CallerType, GeoPhase
  <2> QED BY <2>1 DEF Sound
<1> QED BY <1>1, <1>2, <1>3 DEF Sound

Moved(r, at, gap, left) == [r EXCEPT !.at = at, !.gap = gap, !.left = left]

(* A caller that changes its phase and its clocks keeps its type.          *)
LEMMA ChangeOfPhase ==
  ASSUME NEW r \in CallerType, NEW at \in GeoPhase,
         NEW gap \in 0..minIntervalMs, NEW left \in 0..minIntervalMs
  PROVE  /\ Moved(r, at, gap, left) \in CallerType
         /\ Moved(r, at, gap, left).at = at /\ Moved(r, at, gap, left).gap = gap
         /\ Moved(r, at, gap, left).left = left
BY DEF Moved, CallerType

(* A caller that got an answer keeps its type.                             *)
LEMMA ChangeOfAnswer ==
  ASSUME NEW r \in CallerType, NEW got \in Answer
  PROVE  LET x == [r EXCEPT !.at = "filling", !.gap = 0, !.got = got]
         IN  x \in CallerType /\ x.at = "filling" /\ x.got = got
<1>1. 0 \in 0..minIntervalMs /\ "filling" \in GeoPhase
  BY GeocodingAssumption DEF GeoPhase
<1> QED BY <1>1 DEF CallerType

(* The phases of a request that is to go out.                              *)
LEMMA Phases == "sleeping" \in GeoPhase /\ "asking" \in GeoPhase
BY DEF GeoPhase

(* One caller moves, the others stay as they were.                         *)
LEMMA OneCallerMoves ==
  ASSUME GeoInv, NEW c \in Caller, NEW r, geo' = [geo EXCEPT ![c] = r], Sound(r),
         elapsed' \in 0..minIntervalMs, quiet' = elapsed',
         geoCache' \in [Question -> Answer \cup {NotCached}]
  PROVE  GeoInv'
<1>1. geo \in [Caller -> CallerType] /\ \A d \in Caller : Sound(geo[d])
  BY GeoParts
<1>2. geo' \in [Caller -> CallerType] /\ \A d \in Caller : geo'[d] = IF d = c THEN r ELSE geo[d]
  BY <1>1 DEF Sound
<1>3. \A d \in Caller : Sound(geo'[d])
  BY <1>1, <1>2
<1> QED
  BY <1>2, <1>3
  DEF GeoInv, GeoTypeOK, FieldIsExact, SleepSuffices, AnswersAreKept, IntervalToRequestsSeen,
      Sound, CallerType

(* Nobody has asked, and the interval has passed.                          *)
LEMMA GeoInitInv == GeoInit => GeoInv
<1> SUFFICES ASSUME GeoInit PROVE GeoInv
  OBVIOUS
<1>1. elapsed \in 0..minIntervalMs /\ quiet = elapsed
  BY GeocodingAssumption DEF GeoInit
<1>2. geoCache \in [Question -> Answer \cup {NotCached}]
  BY DEF GeoInit
<1>3. NoCaller \in CallerType
  BY RestingIsSound DEF Sound
<1>4. geo \in [Caller -> CallerType] /\ \A c \in Caller : Sound(geo[c])
  BY <1>3, RestingIsSound DEF GeoInit
<1> QED BY <1>1, <1>2, <1>4, GeoParts

(* An answer from the cache, or a place in the line.                       *)
LEMMA GeoLookupInv ==
  ASSUME GeoInv, NEW c \in Caller, GeoLookup(c)
  PROVE  GeoInv'
<1>1. PICK r : geo' = [geo EXCEPT ![c] = r] /\ Sound(r)
  BY Statuses, RestingIsSound DEF GeoLookup
<1> QED BY <1>1, GeoParts, OneCallerMoves DEF GeoLookup

(* The caller is told how long to sleep, or its request goes out.          *)
LEMMA WaitForSlotInv ==
  ASSUME GeoInv, NEW c \in Caller, WaitForSlot(c)
  PROVE  GeoInv'
<1>1. /\ elapsed \in 0..minIntervalMs /\ quiet = elapsed /\ quiet \in 0..minIntervalMs
      /\ geo[c] \in CallerType /\ geo \in [Caller -> CallerType]
      /\ geoCache \in [Question -> Answer \cup {NotCached}]
  BY GeoParts
<1>2. CASE elapsed < minIntervalMs
  <2> DEFINE r == Moved(geo[c], "sleeping", quiet, minIntervalMs - elapsed)
  <2>1. geo' = [geo EXCEPT ![c] = r] /\ UNCHANGED <<elapsed, quiet, geoCache>>
    BY <1>1, <1>2 DEF WaitForSlot, Sleep, Moved
  <2>2. minIntervalMs - elapsed \in 0..minIntervalMs /\ quiet + (minIntervalMs - elapsed) = minIntervalMs
    BY <1>1, <1>2, GeocodingAssumption
  <2>3. Sound(r)
    <3>1. r \in CallerType /\ r.at = "sleeping" /\ r.gap = quiet /\ r.left = minIntervalMs - elapsed
      BY <1>1, <2>2, ChangeOfPhase, Phases
    <3> QED BY <1>1, <2>2, <3>1, GeocodingAssumption DEF Sound
  <2>4. PICK x : geo' = [geo EXCEPT ![c] = x] /\ Sound(x)
    BY <2>1, <2>3
  <2> QED BY <1>1, <2>1, <2>4, OneCallerMoves
<1>3. CASE ~(elapsed < minIntervalMs)
  <2> DEFINE r == Moved(geo[c], "asking", quiet, 0)
  <2>1. geo' = [geo EXCEPT ![c] = r] /\ elapsed' = 0 /\ quiet' = 0 /\ geoCache' = geoCache
    BY <1>1, <1>3 DEF WaitForSlot, Send, Moved
  <2>2. quiet = minIntervalMs
    BY <1>1, <1>3, GeocodingAssumption
  <2>3. Sound(r)
    <3>1. 0 \in 0..minIntervalMs
      BY GeocodingAssumption
    <3>2. r \in CallerType /\ r.at = "asking" /\ r.gap = quiet
      BY <1>1, <3>1, ChangeOfPhase, Phases
    <3> QED BY <2>2, <3>2 DEF Sound
  <2>4. PICK x : geo' = [geo EXCEPT ![c] = x] /\ Sound(x)
    BY <2>1, <2>3
  <2>5. elapsed' \in 0..minIntervalMs
    BY <2>1, GeocodingAssumption
  <2> QED BY <1>1, <2>1, <2>4, <2>5, OneCallerMoves
<1> QED BY <1>2, <1>3

(* After the sleep the gap to the request that was seen is the interval.   *)
LEMMA AwakeInv ==
  ASSUME GeoInv, NEW c \in Caller, Awake(c)
  PROVE  GeoInv'
<1>1. /\ geo[c] \in CallerType /\ geo \in [Caller -> CallerType] /\ Sound(geo[c])
      /\ geoCache \in [Question -> Answer \cup {NotCached}]
  BY GeoParts
<1>2. geo[c].gap = minIntervalMs
  BY <1>1, GeocodingAssumption DEF Awake, Sound, CallerType
<1> DEFINE r == Moved(geo[c], "asking", geo[c].gap, 0)
<1>3. geo' = [geo EXCEPT ![c] = r] /\ elapsed' = 0 /\ quiet' = 0 /\ geoCache' = geoCache
  BY <1>1 DEF Awake, Send, Moved
<1>4. Sound(r)
  <2>1. 0 \in 0..minIntervalMs /\ geo[c].gap \in 0..minIntervalMs
    BY <1>2, GeocodingAssumption
  <2>2. r \in CallerType /\ r.at = "asking" /\ r.gap = geo[c].gap
    BY <1>1, <2>1, ChangeOfPhase, Phases
  <2> QED BY <1>2, <2>2 DEF Sound
<1>5. PICK x : geo' = [geo EXCEPT ![c] = x] /\ Sound(x)
  BY <1>3, <1>4
<1>6. elapsed' \in 0..minIntervalMs
  BY <1>3, GeocodingAssumption
<1> QED BY <1>1, <1>3, <1>5, <1>6, OneCallerMoves

(* The provider answers or fails, and what it answered is kept.            *)
LEMMA RespondInv ==
  ASSUME GeoInv, NEW c \in Caller, Respond(c)
  PROVE  GeoInv'
<1>1. /\ geo[c] \in CallerType /\ geo \in [Caller -> CallerType]
      /\ elapsed \in 0..minIntervalMs /\ quiet = elapsed
      /\ geoCache \in [Question -> Answer \cup {NotCached}]
  BY GeoParts
<1>2. ASSUME NEW a \in Answer
      PROVE  Sound([geo[c] EXCEPT !.at = "filling", !.gap = 0, !.got = a])
  BY <1>1, ChangeOfAnswer DEF Sound
<1>3. PICK x : geo' = [geo EXCEPT ![c] = x] /\ Sound(x)
  <2>1. CASE \E a \in Answer : geo' = [geo EXCEPT ![c].at = "filling", ![c].gap = 0, ![c].got = a]
    BY <1>1, <1>2, <2>1
  <2>2. CASE \E f \in DOMAIN GeoFailures : geo' = [geo EXCEPT ![c] = Ended(GeoFailures[f])]
    BY <2>2, RestingIsSound, Statuses
  <2> QED BY <2>1, <2>2 DEF Respond
<1> QED BY <1>1, <1>3, OneCallerMoves DEF Respond

(* Only answers enter the cache.                                           *)
LEMMA FillCacheInv ==
  ASSUME GeoInv, NEW c \in Caller, FillCache(c)
  PROVE  GeoInv'
<1>1. /\ geo \in [Caller -> CallerType] /\ Sound(geo[c])
      /\ elapsed \in 0..minIntervalMs /\ quiet = elapsed
      /\ geoCache \in [Question -> Answer \cup {NotCached}]
  BY GeoParts
<1>2. geo[c].got \in Answer
  BY <1>1 DEF FillCache, Sound
<1>3. geoCache' \in [Question -> Answer \cup {NotCached}]
  BY <1>1, <1>2 DEF FillCache
<1>4. PICK x : geo' = [geo EXCEPT ![c] = x] /\ Sound(x)
  BY Statuses, RestingIsSound DEF FillCache
<1> QED BY <1>1, <1>3, <1>4, OneCallerMoves DEF FillCache

(* Time passes for the clocks and for whoever sleeps.                      *)
LEMMA TickInv == GeoInv /\ Tick => GeoInv'
<1> SUFFICES ASSUME GeoInv, Tick PROVE GeoInv'
  OBVIOUS
<1>1. /\ elapsed \in 0..minIntervalMs /\ quiet = elapsed /\ geo \in [Caller -> CallerType]
      /\ geoCache \in [Question -> Answer \cup {NotCached}]
      /\ \A c \in Caller : Sound(geo[c])
  BY GeoParts
<1>2. \A t \in 0..minIntervalMs :
        Later(t) \in 0..minIntervalMs /\ (Later(t) = t + 1 \/ Later(t) = minIntervalMs)
  BY GeocodingAssumption DEF Later
<1>3. ASSUME NEW c \in Caller PROVE Sound(geo'[c])
  <2>1. Sound(geo[c]) /\ geo[c] \in CallerType
    BY <1>1
  <2>2. CASE geo[c].at # "sleeping"
    BY <1>1, <2>1, <2>2 DEF Tick
  <2>3. CASE geo[c].at = "sleeping"
    <3> DEFINE left == IF geo[c].left > 0 THEN geo[c].left - 1 ELSE 0
    <3>1. geo'[c] = [geo[c] EXCEPT !.gap = Later(geo[c].gap), !.left = left]
      BY <2>3 DEF Tick
    <3>2. /\ geo[c].gap \in 0..minIntervalMs /\ geo[c].left \in 0..minIntervalMs
          /\ geo[c].gap + geo[c].left >= minIntervalMs
      BY <2>1, <2>3 DEF Sound, CallerType
    <3>3. left \in 0..minIntervalMs /\ left >= geo[c].left - 1
      BY <3>2, GeocodingAssumption
    <3>4. Later(geo[c].gap) \in 0..minIntervalMs /\ Later(geo[c].gap) + left >= minIntervalMs
      <4> HIDE DEF left
      <4> QED BY <1>2, <3>2, <3>3, GeocodingAssumption
    <3> HIDE DEF left
    <3> QED BY <2>1, <2>3, <3>1, <3>3, <3>4 DEF Sound, CallerType
  <2> QED BY <2>2, <2>3
<1>4. geo' \in [Caller -> CallerType]
  <2>1. \A c \in Caller : geo'[c] \in CallerType
    BY <1>3 DEF Sound
  <2> QED BY <2>1 DEF Tick
<1>5. elapsed' \in 0..minIntervalMs /\ quiet' = elapsed' /\ geoCache' = geoCache
  BY <1>1, <1>2 DEF Tick
<1> QED
  BY <1>1, <1>3, <1>4, <1>5
  DEF GeoInv, GeoTypeOK, FieldIsExact, SleepSuffices, AnswersAreKept, IntervalToRequestsSeen,
      Sound, CallerType

(* Every step keeps the invariant.                                         *)
LEMMA GeoNextInv == GeoInv /\ [GeoNext]_geoVars => GeoInv'
<1> SUFFICES ASSUME GeoInv, [GeoNext]_geoVars PROVE GeoInv'
  OBVIOUS
<1>1. /\ elapsed \in 0..minIntervalMs /\ quiet = elapsed
      /\ geoCache \in [Question -> Answer \cup {NotCached}]
  BY GeoParts
<1>2. ASSUME NEW c \in Caller, GeoLookup(c) \/ GeoStep(c) PROVE GeoInv'
  BY <1>2, GeoLookupInv, WaitForSlotInv, AwakeInv, RespondInv, FillCacheInv DEF GeoStep
<1>3. ASSUME NEW c \in Caller, Leave(c) PROVE GeoInv'
  BY <1>1, <1>3, RestingIsSound, OneCallerMoves DEF Leave
<1>4. ASSUME NEW q \in Question, ForgetAnswer(q) PROVE GeoInv'
  <2>1. geoCache' \in [Question -> Answer \cup {NotCached}]
    BY <1>1, <1>4 DEF ForgetAnswer
  <2> QED
    BY <1>4, <2>1
    DEF ForgetAnswer, GeoInv, GeoTypeOK, FieldIsExact, SleepSuffices, AnswersAreKept,
        IntervalToRequestsSeen
<1>5. CASE UNCHANGED geoVars
  BY <1>5
  DEF geoVars, GeoInv, GeoTypeOK, FieldIsExact, SleepSuffices, AnswersAreKept,
      IntervalToRequestsSeen
<1> QED BY <1>2, <1>3, <1>4, <1>5, TickInv DEF GeoNext

(* The inductive invariant: the field is exact, and sleeps suffice.        *)
THEOREM GeoInvariant == GeoSpec => []GeoInv
BY GeoInitInv, GeoNextInv, PTL DEF GeoSpec

(* However callers overlap, a request to Nominatim goes out at least the   *)
(* interval after every request its caller could see when it chose its     *)
(* time (geocoding.throttle.ts), whatever the interval.                    *)
THEOREM IntervalIsKept == GeoSpec => []IntervalToRequestsSeen
<1>1. GeoInv => IntervalToRequestsSeen
  BY DEF GeoInv
<1> QED BY <1>1, GeoInvariant, PTL

-----------------------------------------------------------------------------
(* What a provider makes of one record.                                    *)

(* Of this nothing is kept and nothing said.                               *)
Quiet(s, r) ==
  \/ s = "germanyPrices" /\ ParseGermanyPriceValue(r) = {}
  \/ s = "austria" /\ r.position # "zero" /\ ParseAustriaPriceAmount(r) = {}

LEMMA QuietIsUnpriced == \A r : Quiet(source, r) => Unpriced(r)
<1> SUFFICES ASSUME NEW r, Quiet(source, r) PROVE Unpriced(r)
  OBVIOUS
<1>1. CASE source = "germanyPrices"
  BY <1>1 DEF Quiet, Unpriced
<1>2. CASE source = "austria"
  BY <1>2 DEF Quiet, Unpriced
<1> QED BY <1>1, <1>2 DEF Quiet

IsNormal(n, s, r) ==
  /\ n.prices \subseteq r.prices /\ n.errors \in Nat
  /\ \A p \in n.prices :
       p.product \in Aliased /\ p.amount \in {"plain"} \cup (IF s = "austria" THEN {"high"} ELSE {})
  /\ Good(r) => Told(r) \subseteq n.prices
  /\ n.prices = {} /\ ~Quiet(s, r) => n.errors >= 1

LEMMA SomePrices ==
  ASSUME NEW r \in FeedRecord, NEW S, S \subseteq r.prices
  PROVE  IsFiniteSet(S) /\ Cardinality(S) \in Nat
BY FS_Subset, FS_CardinalityType DEF FeedRecord

(* Of prices none of which has an alias an error is told.                  *)
LEMMA UnknownAreTold ==
  ASSUME NEW r \in FeedRecord, NEW ps, ps \subseteq r.prices, ps # {}, Usable(ps) = {}
  PROVE  Unknown(ps) >= 1
<1> DEFINE odd == {p \in ps : p.product \notin Aliased}
<1>1. odd \subseteq r.prices /\ odd # {}
  BY DEF Usable
<1> HIDE DEF odd
<1>2. IsFiniteSet(odd) /\ Cardinality(odd) \in Nat
  BY <1>1, SomePrices
<1>3. Cardinality(odd) # 0
  BY <1>1, <1>2, FS_EmptySet
<1> QED BY <1>2, <1>3 DEF Unknown, odd

LEMMA SkipIs ==
  ASSUME NEW n
  PROVE  Skip(n).prices = {} /\ Skip(n).errors = n
BY DEF Skip

(* The common course.                                                      *)
LEMMA NormalizedIs ==
  ASSUME NEW r, NEW s, s # "austria", NEW readable, NEW located, NEW prices, NEW complaints \in Nat,
         prices \subseteq r.prices,
         \A p \in prices : p.product \in Aliased /\ p.amount = "plain",
         Good(r) => readable /\ located /\ Told(r) \subseteq prices
  PROVE  IsNormal(Normalized(readable, located, prices, complaints), s, r)
<1> DEFINE n == Normalized(readable, located, prices, complaints)
<1>1. CASE ~readable \/ ~located
  <2>1. n = Skip(1)
    BY <1>1 DEF Normalized
  <2>2. n.prices = {} /\ n.errors = 1
    BY <2>1, SkipIs
  <2> HIDE DEF n
  <2>3. IsNormal(n, s, r)
    BY <1>1, <2>2 DEF IsNormal
  <2> QED BY <2>3 DEF n
<1>2. CASE readable /\ located /\ prices = {}
  <2>1. n = Skip(complaints + 1)
    BY <1>2 DEF Normalized
  <2>2. n.prices = {} /\ n.errors = complaints + 1
    BY <2>1, SkipIs
  <2> HIDE DEF n
  <2>3. n.errors \in Nat /\ n.errors >= 1
    BY <2>2
  <2>4. IsNormal(n, s, r)
    BY <1>2, <2>2, <2>3 DEF IsNormal
  <2> QED BY <2>4 DEF n
<1>3. CASE readable /\ located /\ prices # {}
  <2>1. n.prices = prices /\ n.errors = complaints
    BY <1>3 DEF Normalized
  <2> HIDE DEF n
  <2>2. IsNormal(n, s, r)
    BY <1>3, <2>1 DEF IsNormal
  <2> QED BY <2>2 DEF n
<1> QED BY <1>1, <1>2, <1>3

LEMMA GermanyNormal ==
  ASSUME NEW r \in FeedRecord
  PROVE  IsNormal(GermanyListRecord(r), "germany", r)
         /\ IsNormal(GermanyPriceRecord(r), "germanyPrices", r)
<1> DEFINE ps == ParseGermanyPriceValue(r)
<1>1. ps \subseteq r.prices /\ Usable(ps) \subseteq r.prices
  BY DEF ParseGermanyPriceValue, Columns, Usable
<1>2. Unknown(ps) \in Nat
  BY <1>1, SomePrices DEF Unknown
<1>3. \A p \in Usable(ps) : p.product \in Aliased /\ p.amount = "plain"
  BY DEF ParseGermanyPriceValue, Usable
<1>4. Good(r) => /\ GermanyReadable(r) /\ r.position # "off"
                 /\ Told(r) \subseteq Usable(ps)
  BY DEF Good, Told, Amounts, GermanyReadable, ParseGermanyPriceValue, Columns, Usable
<1> HIDE DEF ps
<1>5. IsNormal(GermanyListRecord(r), "germany", r)
  <2>1. IsNormal(Normalized(GermanyReadable(r), r.position # "off", Usable(ps), Unknown(ps)),
                 "germany", r)
    BY <1>1, <1>2, <1>3, <1>4, NormalizedIs
  <2> QED BY <2>1 DEF GermanyListRecord, ps
<1>6. IsNormal(GermanyPriceRecord(r), "germanyPrices", r)
  <2>1. GermanyPriceRecord(r).prices = Usable(ps) /\ GermanyPriceRecord(r).errors = Unknown(ps)
    BY DEF GermanyPriceRecord, ps
  <2>2. GermanyPriceRecord(r).prices = {} /\ ~Quiet("germanyPrices", r)
        => GermanyPriceRecord(r).errors >= 1
    BY <1>1, <2>1, UnknownAreTold DEF Quiet, ps
  <2> QED BY <1>1, <1>2, <1>3, <1>4, <2>1, <2>2 DEF IsNormal
<1> QED BY <1>5, <1>6

LEMMA FranceNormal ==
  ASSUME NEW r \in FeedRecord
  PROVE  IsNormal(FranceRecord(r), "france", r)
<1>1. FrancePrices(r) \subseteq r.prices /\ FrancePriced(r) \subseteq r.prices
  BY DEF FrancePrices, FrancePriced, Columns, Usable
<1>2. Cardinality(FrancePriced(r) \ FrancePrices(r)) \in Nat
  BY <1>1, SomePrices
<1>3. \A p \in FrancePrices(r) : p.product \in Aliased /\ p.amount = "plain"
  BY DEF FrancePrices, FrancePriced, Usable
<1>4. Good(r) => /\ FranceReadable(r) /\ ExtractFranceCoordinates(r)
                 /\ Told(r) \subseteq FrancePrices(r)
  BY DEF Good, Told, Amounts, FranceReadable, ExtractFranceCoordinates, FrancePrices,
         FrancePriced, Columns, Usable
<1> QED BY <1>1, <1>2, <1>3, <1>4, NormalizedIs DEF FranceRecord

LEMMA SpainNormal ==
  ASSUME NEW r \in FeedRecord
  PROVE  IsNormal(SpainRecord(r), "spain", r)
<1> DEFINE fields == GetSpainPriceFields(r)
           good == {p \in fields : p.amount = "plain"}
<1>1. fields \ good \subseteq r.prices /\ good \subseteq r.prices /\ Usable(good) \subseteq r.prices
  BY DEF GetSpainPriceFields, Columns, Usable
<1>2. Cardinality(fields \ good) \in Nat /\ Unknown(good) \in Nat
  <2> HIDE DEF fields
  <2>1. Cardinality(fields \ good) \in Nat
    <3> HIDE DEF good
    <3> QED BY <1>1, SomePrices
  <2>2. {p \in good : p.product \notin Aliased} \subseteq r.prices
    BY <1>1
  <2> QED BY <2>1, <2>2, SomePrices DEF Unknown
<1>3. Cardinality(fields \ good) + Unknown(good) \in Nat
  BY <1>2
<1>4. \A p \in Usable(good) : p.product \in Aliased /\ p.amount = "plain"
  BY DEF Usable
<1>5. Good(r) => /\ SpainReadable(r) /\ ExtractSpainCoordinates(r)
                 /\ Told(r) \subseteq Usable(good)
  BY DEF Good, Told, Amounts, SpainReadable, ExtractSpainCoordinates, GetSpainPriceFields,
         Columns, Usable
<1>6. SpainRecord(r) = Normalized(SpainReadable(r), ExtractSpainCoordinates(r), Usable(good),
                                  Cardinality(fields \ good) + Unknown(good))
  BY DEF SpainRecord
<1> HIDE DEF fields, good
<1> QED BY <1>1, <1>3, <1>4, <1>5, <1>6, NormalizedIs

LEMMA SloveniaNormal ==
  ASSUME NEW r \in FeedRecord
  PROVE  IsNormal(SloveniaRecord(r), "slovenia", r)
<1> DEFINE fields == GetSloveniaPriceFields(r)
<1>1. fields \subseteq r.prices /\ Usable(fields) \subseteq r.prices
  BY DEF GetSloveniaPriceFields, Columns, Usable
<1>2. Unknown(fields) \in Nat
  BY <1>1, SomePrices DEF Unknown
<1>3. \A p \in Usable(fields) : p.product \in Aliased /\ p.amount = "plain"
  BY DEF GetSloveniaPriceFields, Usable
<1>4. Good(r) => /\ SloveniaReadable(r) /\ ExtractSloveniaCoordinates(r)
                 /\ Told(r) \subseteq Usable(fields)
  BY DEF Good, Told, Amounts, SloveniaReadable, ExtractSloveniaCoordinates,
         GetSloveniaPriceFields, Columns, Usable
<1>5. SloveniaRecord(r) = Normalized(SloveniaReadable(r), ExtractSloveniaCoordinates(r),
                                     Usable(fields), Unknown(fields))
  BY DEF SloveniaRecord
<1> HIDE DEF fields
<1> QED BY <1>1, <1>2, <1>3, <1>4, <1>5, NormalizedIs

LEMMA CroatiaNormal ==
  ASSUME NEW r \in FeedRecord
  PROVE  IsNormal(CroatiaRecord(r), "croatia", r)
<1> DEFINE ps == Usable(Of(r, {"plain"}))
<1>1. ps \subseteq r.prices /\ \A p \in ps : p.product \in Aliased /\ p.amount = "plain"
  BY DEF Of, Usable
<1>2. Good(r) => /\ CroatiaReadable(r) /\ ExtractCroatiaCoordinates(r)
                 /\ Told(r) \subseteq ps
  BY DEF Good, Told, Amounts, CroatiaReadable, ExtractCroatiaCoordinates, Columns, Usable, Of
<1>3. CroatiaRecord(r) = Normalized(CroatiaReadable(r), ExtractCroatiaCoordinates(r), ps, 0)
  BY DEF CroatiaRecord
<1> HIDE DEF ps
<1> QED BY <1>1, <1>2, <1>3, NormalizedIs

LEMMA AustriaNormal ==
  ASSUME NEW r \in FeedRecord
  PROVE  IsNormal(AustriaRecord(r), "austria", r)
<1> DEFINE ps == ParseAustriaPriceAmount(r)
<1>1. ps \subseteq r.prices /\ Usable(ps) \subseteq r.prices
  BY DEF ParseAustriaPriceAmount, Of, Usable
<1>2. Unknown(ps) \in Nat
  BY <1>1, SomePrices DEF Unknown
<1>3. \A p \in Usable(ps) : p.product \in Aliased /\ p.amount \in {"plain", "high"}
  BY DEF ParseAustriaPriceAmount, Of, Usable
<1>4. Good(r) => r.position # "zero" /\ Told(r) \subseteq Usable(ps)
  BY DEF Good, Told, Amounts, ParseAustriaPriceAmount, Columns, Usable, Of
<1>5. CASE r.position = "zero"
  <2>1. AustriaRecord(r) = Skip(1)
    BY <1>5 DEF AustriaRecord
  <2>2. AustriaRecord(r).prices = {} /\ AustriaRecord(r).errors = 1
    BY <2>1, SkipIs
  <2> QED BY <1>4, <1>5, <2>2 DEF IsNormal
<1>6. CASE r.position # "zero"
  <2>1. AustriaRecord(r).prices = Usable(ps) /\ AustriaRecord(r).errors = Unknown(ps)
    BY <1>6 DEF AustriaRecord, ps
  <2>2. AustriaRecord(r).prices = {} /\ ~Quiet("austria", r) => AustriaRecord(r).errors >= 1
    BY <1>1, <1>6, <2>1, UnknownAreTold DEF Quiet, ps
  <2> HIDE DEF ps
  <2> QED BY <1>1, <1>2, <1>3, <1>4, <2>1, <2>2 DEF IsNormal
<1> QED BY <1>5, <1>6

LEMMA RecordIsNormal ==
  ASSUME NEW r \in FeedRecord,
         source \in {"germany", "germanyPrices", "france", "spain", "slovenia", "croatia", "austria"}
  PROVE  IsNormal(NormalizeRecord(r), source, r)
<1>1. CASE source = "germany"
  BY <1>1, GermanyNormal DEF NormalizeRecord
<1>2. CASE source = "germanyPrices"
  BY <1>2, GermanyNormal DEF NormalizeRecord
<1>3. CASE source = "france"
  BY <1>3, FranceNormal DEF NormalizeRecord
<1>4. CASE source = "spain"
  BY <1>4, SpainNormal DEF NormalizeRecord
<1>5. CASE source = "slovenia"
  BY <1>5, SloveniaNormal DEF NormalizeRecord
<1>6. CASE source = "croatia"
  BY <1>6, CroatiaNormal DEF NormalizeRecord
<1>7. CASE source = "austria"
  BY <1>7, AustriaNormal DEF NormalizeRecord
<1> QED BY <1>1, <1>2, <1>3, <1>4, <1>5, <1>6, <1>7

-----------------------------------------------------------------------------
(* What it makes of them all.                                              *)

LEMMA ImageIsFinite ==
  ASSUME NEW S, IsFiniteSet(S), NEW X, NEW f \in [S -> X]
  PROVE  /\ IsFiniteSet(Range(f))
         /\ (\A x, y \in S : f[x] = f[y] => x = y) => Cardinality(Range(f)) = Cardinality(S)
<1> DEFINE T == Range(f)
<1>1. f \in Surjection(S, T)
  BY DEF Surjection, Range
<1>2. (\A x, y \in S : f[x] = f[y] => x = y) => f \in Injection(S, T)
  BY <1>1 DEF Injection, Surjection, IsInjective
<1> HIDE DEF T
<1>3. IsFiniteSet(T) /\ (Cardinality(T) = Cardinality(S) <=> f \in Injection(S, T))
  BY <1>1, FS_Surjection
<1> QED BY <1>2, <1>3 DEF T

AnswersAre ==
  /\ DOMAIN answered \subseteq 1..MaxUnits
  /\ \A u \in DOMAIN answered : answered[u].rows \in Seq(FeedRecord) /\ answered[u].dated \in BOOLEAN

LEMMA RowsAre ==
  ASSUME ProviderFetchAssumption, AnswersAre
  PROVE  /\ IsFiniteSet(Rows) /\ Records \subseteq Rows /\ IsFiniteSet(Records)
         /\ \A at \in Rows : Row(at) \in FeedRecord /\ at[1] \in DOMAIN answered
<1> DEFINE of == [u \in DOMAIN answered |-> {<<u, i>> : i \in DOMAIN answered[u].rows}]
<1>1. IsFiniteSet(DOMAIN answered)
  <2>1. IsFiniteSet(1..MaxUnits)
    <3>1. MaxUnits \in Int /\ 1 \in Int
      BY DEF ProviderFetchAssumption
    <3> QED BY <3>1, FS_Interval
  <2> QED BY <2>1, FS_Subset DEF AnswersAre
<1>2. \A u \in DOMAIN answered : /\ answered[u].rows \in Seq(FeedRecord)
                                 /\ IsFiniteSet(DOMAIN answered[u].rows)
                                 /\ \A i \in DOMAIN answered[u].rows : answered[u].rows[i] \in FeedRecord
  <2> SUFFICES ASSUME NEW u \in DOMAIN answered
               PROVE  /\ answered[u].rows \in Seq(FeedRecord)
                      /\ IsFiniteSet(DOMAIN answered[u].rows)
                      /\ \A i \in DOMAIN answered[u].rows : answered[u].rows[i] \in FeedRecord
    OBVIOUS
  <2>1. PICK s \in Seq(FeedRecord) : s = answered[u].rows
    BY DEF AnswersAre
  <2>2. DOMAIN s = 1..Len(s) /\ Len(s) \in Nat /\ \A i \in DOMAIN s : s[i] \in FeedRecord
    BY <2>1
  <2>3. IsFiniteSet(1..Len(s))
    <3>1. Len(s) \in Int /\ 1 \in Int
      BY <2>2
    <3> QED BY <3>1, FS_Interval
  <2> QED BY <2>1, <2>2, <2>3
<1>3. \A u \in DOMAIN answered : IsFiniteSet(of[u])
  <2> SUFFICES ASSUME NEW u \in DOMAIN answered PROVE IsFiniteSet(of[u])
    OBVIOUS
  <2> DEFINE D == DOMAIN answered[u].rows
             at == [i \in D |-> <<u, i>>]
  <2>1. IsFiniteSet(D) /\ at \in [D -> {<<u, i>> : i \in D}]
    BY <1>2
  <2>2. IsFiniteSet(Range(at))
    <3> HIDE DEF at, D
    <3> QED BY <2>1, ImageIsFinite
  <2>3. Range(at) = of[u]
    BY DEF Range
  <2> QED BY <2>2, <2>3
<1>4. Rows = UNION Range(of)
  <2>1. \A at : at \in Rows <=> \E u \in DOMAIN answered : at \in of[u]
    BY DEF Rows
  <2>2. \A at : at \in UNION Range(of) <=> \E u \in DOMAIN answered : at \in of[u]
    BY DEF Range
  <2> QED BY <2>1, <2>2
<1>5. IsFiniteSet(Range(of))
  <2>1. of \in [DOMAIN answered -> {of[u] : u \in DOMAIN answered}]
    OBVIOUS
  <2> HIDE DEF of
  <2> QED BY <1>1, <2>1, ImageIsFinite
<1>6. IsFiniteSet(Rows)
  <2> HIDE DEF of
  <2>1. \A S \in Range(of) : IsFiniteSet(S)
    BY <1>3 DEF of, Range
  <2> QED BY <1>4, <1>5, <2>1, FS_UNION
<1>7. Records \subseteq Rows
  <2>1. StationById \subseteq Rows /\ ParseCroatiaFeed \subseteq Rows
    BY DEF StationById, ParseCroatiaFeed
  <2> QED BY <2>1 DEF Records
<1>8. ASSUME NEW at \in Rows PROVE Row(at) \in FeedRecord /\ at[1] \in DOMAIN answered
  <2>1. PICK u \in DOMAIN answered : \E i \in DOMAIN answered[u].rows : at = <<u, i>>
    BY DEF Rows
  <2>2. PICK i \in DOMAIN answered[u].rows : at = <<u, i>>
    BY <2>1
  <2>3. at[1] = u /\ at[2] = i
    BY <2>2
  <2> QED BY <1>2, <2>3 DEF Row
<1> QED BY <1>6, <1>7, <1>8, FS_Subset

(* A good row is handed on, or a later one is the same station.            *)
LEMMA GoodIsHandedOn ==
  ASSUME ProviderFetchAssumption, AnswersAre, NEW at \in Rows, Good(Row(at))
  PROVE  at \in Records \/ (source = "germany" /\ FoundLater(at) # {})
<1>1. Row(at) \in FeedRecord
  BY RowsAre
<1>2. Row(at).named
  BY <1>1 DEF Good, FeedRecord
<1>3. CroatiaReadable(Row(at))
  BY DEF Good, CroatiaReadable
<1>4. CASE source = "germany"
  BY <1>2, <1>4 DEF Records, StationById
<1>5. CASE source = "croatia"
  BY <1>3, <1>5 DEF Records, ParseCroatiaFeed
<1>6. CASE source \notin {"germany", "croatia"}
  BY <1>6 DEF Records
<1> QED BY <1>4, <1>5, <1>6

(* The records that leave an error, read by row.                           *)
FaultyIn(res, s, row, at) ==
  IF s = "italy"
  THEN at[1] = 2 /\ \E p \in ItalyPriceRows(row[at]) \cap Columns(row[at]) :
                      p.product \notin Aliased \/ p.amount # "plain"
  ELSE /\ \A t \in res.stations : at \notin t.from
       /\ ~Quiet(s, row[at])

(* A result that accounts for the records R of a source s, read by row.    *)
Accounts(res, s, R, row) ==
  /\ res.skipped \in Nat /\ res.errors \in Nat
  /\ \A at \in R : Good(row[at]) /\ Told(row[at]) # {} /\ (s = "italy" => at[1] = 2) =>
       \E t \in res.stations : at \in t.from /\ Told(row[at]) \subseteq t.prices
  /\ s # "italy" => Cardinality(res.stations) + res.skipped = Cardinality(R)
  /\ \A t \in res.stations : \A p \in t.prices :
       p.product \in Aliased /\ p.amount \in {"plain"} \cup (IF s = "austria" THEN {"high"} ELSE {})
  /\ res.errors >= Cardinality({at \in R : FaultyIn(res, s, row, at)})

LEMMA RecordsAccounted ==
  ASSUME ProviderFetchAssumption, AnswersAre,
         source \in {"germany", "germanyPrices", "france", "spain", "slovenia", "croatia", "austria"}
  PROVE  Accounts(NormalizeRecords, source, Records, [at \in Records |-> Row(at)])
<1> DEFINE R == Records
           done == [at \in R |-> NormalizeRecord(Row(at))]
           kept == {at \in R : done[at].prices # {}}
           station == [at \in kept |->
             [id |-> Row(at).id, from |-> {at}, placed |-> source # "germanyPrices",
              prices |-> done[at].prices]]
           errors == [at \in R |-> done[at].errors]
           res == [stations |-> Range(station), skipped |-> Cardinality(R \ kept),
                   errors |-> SumFunctionOnSet(errors, R)]
           row == [at \in R |-> Row(at)]
<1>1. IsFiniteSet(R) /\ \A at \in R : Row(at) \in FeedRecord
  BY RowsAre
<1>2. NormalizeRecords = res
  BY DEF NormalizeRecords, Range
<1>3. \A at \in R : row[at] = Row(at)
  OBVIOUS
<1>4. \A at \in R : IsNormal(done[at], source, row[at])
  <2> SUFFICES ASSUME NEW at \in R PROVE IsNormal(done[at], source, row[at])
    OBVIOUS
  <2>1. IsNormal(NormalizeRecord(Row(at)), source, Row(at))
    BY <1>1, RecordIsNormal
  <2> QED BY <2>1
<1> HIDE DEF done, R, row
<1>5. IsFiniteSet(kept) /\ IsFiniteSet(R \ kept) /\ Cardinality(R) \in Nat
      /\ Cardinality(kept) \in Nat /\ Cardinality(R \ kept) \in Nat
  BY <1>1, FS_Subset, FS_CardinalityType
<1>6. Cardinality(R) = Cardinality(kept) + Cardinality(R \ kept)
  <2> DEFINE rest == R \ kept
  <2>1. R = kept \cup rest /\ kept \cap rest = {}
    OBVIOUS
  <2> HIDE DEF kept, rest
  <2>2. Cardinality(kept \cup rest) = Cardinality(kept) + Cardinality(rest) - Cardinality(kept \cap rest)
    BY <1>5, FS_Union DEF rest
  <2>3. Cardinality(kept \cap rest) = 0
    BY <2>1, FS_EmptySet
  <2>4. Cardinality(kept) \in Nat /\ Cardinality(rest) \in Nat
    BY <1>5 DEF rest
  <2>5. Cardinality(R) = Cardinality(kept \cup rest)
    BY <2>1
  <2>6. Cardinality(R) = Cardinality(kept) + Cardinality(rest)
    BY <2>2, <2>3, <2>4, <2>5
  <2> QED BY <2>6 DEF rest
<1>7. \A at \in kept : /\ station[at].from = {at} /\ station[at].prices = done[at].prices
                       /\ at \in R
  OBVIOUS
<1>8. station \in [kept -> Range(station)]
  BY DEF Range
<1> HIDE DEF station
<1>9. Cardinality(Range(station)) = Cardinality(kept)
  <2>1. \A x, y \in kept : station[x] = station[y] => x = y
    BY <1>7
  <2> HIDE DEF kept
  <2> QED BY <1>5, <1>8, <2>1, ImageIsFinite
<1>10. \A at \in R : errors[at] = done[at].errors /\ errors[at] \in Nat
  BY <1>4 DEF IsNormal
<1> HIDE DEF errors
<1>11. /\ SumFunctionOnSet(errors, R) \in Nat
       /\ SumFunctionOnSet(errors, R) >= Cardinality({at \in R : errors[at] > 0})
  BY <1>1, <1>10, SumProperties
<1>12. /\ res.stations = Range(station) /\ res.skipped = Cardinality(R \ kept)
       /\ res.errors = SumFunctionOnSet(errors, R)
  OBVIOUS
<1> HIDE DEF res
<1>13. ASSUME NEW at \in R, Good(row[at]), Told(row[at]) # {}
       PROVE  \E t \in res.stations : at \in t.from /\ Told(row[at]) \subseteq t.prices
  <2>1. Told(row[at]) \subseteq done[at].prices
    BY <1>4, <1>13 DEF IsNormal
  <2>2. at \in kept
    BY <1>13, <2>1
  <2>3. station[at] \in res.stations
    BY <1>8, <1>12, <2>2 DEF Range
  <2> QED BY <1>7, <2>1, <2>2, <2>3
<1>14. ASSUME NEW t \in res.stations, NEW p \in t.prices
       PROVE  p.product \in Aliased
              /\ p.amount \in {"plain"} \cup (IF source = "austria" THEN {"high"} ELSE {})
  <2>1. PICK at \in kept : t = station[at]
    BY <1>8, <1>12 DEF Range
  <2>2. p \in done[at].prices /\ at \in R
    BY <1>7, <2>1
  <2> QED BY <1>4, <2>2 DEF IsNormal
<1>15. res.errors >= Cardinality({at \in R : FaultyIn(res, source, row, at)})
  <2> DEFINE told == {at \in R : errors[at] > 0}
             faulty == {at \in R : FaultyIn(res, source, row, at)}
  <2>1. ASSUME NEW at \in R, FaultyIn(res, source, row, at) PROVE errors[at] > 0
    <3>1. (\A t \in res.stations : at \notin t.from) /\ ~Quiet(source, row[at])
      BY <2>1 DEF FaultyIn
    <3>2. at \in kept => station[at] \in res.stations /\ at \in station[at].from
      BY <1>7, <1>8, <1>12 DEF Range
    <3>3. done[at].prices = {}
      BY <3>1, <3>2
    <3>4. done[at].errors \in Nat /\ done[at].errors >= 1
      BY <1>4, <3>1, <3>3 DEF IsNormal
    <3> QED BY <1>10, <3>4
  <2>2. faulty \subseteq told /\ told \subseteq R
    BY <2>1
  <2> HIDE DEF told, faulty
  <2>3. IsFiniteSet(told) /\ Cardinality(told) \in Nat /\ IsFiniteSet(faulty)
        /\ Cardinality(faulty) \in Nat
    BY <1>1, <2>2, FS_Subset, FS_CardinalityType
  <2>4. Cardinality(faulty) <= Cardinality(told)
    BY <2>2, <2>3, FS_Subset
  <2>5. SumFunctionOnSet(errors, R) >= Cardinality(told)
    BY <1>11 DEF told
  <2>6. res.errors >= Cardinality(faulty)
    BY <1>11, <1>12, <2>3, <2>4, <2>5
  <2> QED BY <2>6 DEF faulty
<1>16. Cardinality(res.stations) + res.skipped = Cardinality(R)
  BY <1>5, <1>6, <1>9, <1>12
<1>17. Accounts(res, source, R, row)
  BY <1>5, <1>11, <1>12, <1>13, <1>14, <1>15, <1>16 DEF Accounts
<1> QED BY <1>2, <1>17 DEF R, row

(* Italy: the prices are grouped by station.                               *)
LEMMA ItalyIsNormal ==
  ASSUME NEW r \in FeedRecord, NEW dated \in BOOLEAN
  PROVE  LET n == ItalyRecord(r, dated)
         IN  /\ n.prices \subseteq r.prices /\ n.errors \in Nat
             /\ \A p \in n.prices : p.product \in Aliased /\ p.amount = "plain"
             /\ Good(r) => Told(r) \subseteq n.prices
             /\ Cardinality(r.prices) - Cardinality(n.prices) \in Nat
             /\ (\E p \in ItalyPriceRows(r) \cap Columns(r) :
                   p.product \notin Aliased \/ p.amount # "plain") => n.errors >= 1
<1> DEFINE n == ItalyRecord(r, dated)
<1>1. n.prices = ItalyUsable(r, dated) /\ n.errors = Cardinality(ItalyComplaints(r, dated))
  BY DEF ItalyRecord
<1>2. ItalyUsable(r, dated) \subseteq r.prices
      /\ \A p \in ItalyUsable(r, dated) : p.product \in Aliased /\ p.amount = "plain"
  BY DEF ItalyUsable, Usable, ItalyPriceRows
<1>3. ItalyComplaints(r, dated) \subseteq r.prices
  BY DEF ItalyComplaints, ItalyPriceRows, Columns
<1>4. Cardinality(ItalyComplaints(r, dated)) \in Nat
  BY <1>3, SomePrices
<1>5. Good(r) => Told(r) \subseteq ItalyUsable(r, dated)
  BY DEF FeedRecord, Good, Told, Amounts, ItalyUsable, Usable, Columns, ItalyPriceRows
<1>6. Cardinality(r.prices) - Cardinality(ItalyUsable(r, dated)) \in Nat
  <2>1. IsFiniteSet(r.prices) /\ Cardinality(r.prices) \in Nat
    BY SomePrices
  <2>2. Cardinality(ItalyUsable(r, dated)) \in Nat
    BY <1>2, SomePrices
  <2>3. Cardinality(ItalyUsable(r, dated)) <= Cardinality(r.prices)
    BY <1>2, <2>1, FS_Subset
  <2> QED BY <2>1, <2>2, <2>3
<1>8. ASSUME NEW p \in ItalyPriceRows(r) \cap Columns(r), p.product \notin Aliased \/ p.amount # "plain"
      PROVE  Cardinality(ItalyComplaints(r, dated)) >= 1
  <2>1. ItalyComplaints(r, dated) # {}
    BY <1>2, <1>8 DEF ItalyComplaints
  <2>2. Cardinality(ItalyComplaints(r, dated)) # 0
    BY <1>3, <2>1, SomePrices, FS_EmptySet
  <2> QED BY <1>4, <2>2
<1> HIDE DEF n
<1>7. /\ n.prices \subseteq r.prices /\ n.errors \in Nat
      /\ \A p \in n.prices : p.product \in Aliased /\ p.amount = "plain"
      /\ Good(r) => Told(r) \subseteq n.prices
      /\ Cardinality(r.prices) - Cardinality(n.prices) \in Nat
      /\ (\E p \in ItalyPriceRows(r) \cap Columns(r) :
            p.product \notin Aliased \/ p.amount # "plain") => n.errors >= 1
  BY <1>1, <1>2, <1>4, <1>5, <1>6, <1>8
<1> QED BY <1>7 DEF n

LEMMA ItalyAccounted ==
  ASSUME ProviderFetchAssumption, AnswersAre, source = "italy"
  PROVE  Accounts(NormalizeItaly, source, Records, [at \in Records |-> Row(at)])
<1> DEFINE stationRows == {at \in Rows : at[1] = 1}
           priceRows == {at \in Rows : at[1] = 2}
           done == [at \in priceRows |-> ItalyRecord(Row(at), answered[2].dated)]
           kept == {at \in priceRows : done[at].prices # {}}
           of(i) == {at \in kept : Row(at).id = i}
           found(i) == {at \in stationRows : Row(at).id = i /\ ItalyStations(Row(at))}
           placed(i) == \E at \in found(i) : /\ ParseItalyCoordinates(Row(at))
                                            /\ \A other \in found(i) : ~Before(at, other)
           count == [at \in priceRows |-> Cardinality(Row(at).prices) - Cardinality(done[at].prices)]
           errors == [at \in priceRows |-> done[at].errors]
           station(i) == [id |-> i, from |-> of(i), placed |-> placed(i),
                          prices |-> UNION {done[at].prices : at \in of(i)}]
           unread == {at \in stationRows : ~ItalyStations(Row(at))}
           res == [stations |-> {station(i) : i \in {Row(at).id : at \in kept}},
                   skipped |-> 1 + Cardinality(unread) + SumFunctionOnSet(count, priceRows),
                   errors |-> SumFunctionOnSet(errors, priceRows)]
           row == [at \in Records |-> Row(at)]
<1>1. /\ IsFiniteSet(Rows) /\ Records = Rows
      /\ \A at \in Rows : Row(at) \in FeedRecord /\ at[1] \in DOMAIN answered
  BY RowsAre DEF Records
<1>2. NormalizeItaly = res
  BY DEF NormalizeItaly
<1>3. IsFiniteSet(priceRows) /\ IsFiniteSet(unread)
  <2>1. priceRows \subseteq Rows /\ unread \subseteq Rows
    OBVIOUS
  <2> HIDE DEF priceRows, unread
  <2> QED BY <1>1, <2>1, FS_Subset
<1>4. ASSUME NEW at \in priceRows
      PROVE  /\ done[at].prices \subseteq Row(at).prices /\ done[at].errors \in Nat
             /\ \A p \in done[at].prices : p.product \in Aliased /\ p.amount = "plain"
             /\ Good(Row(at)) => Told(Row(at)) \subseteq done[at].prices
             /\ count[at] \in Nat /\ errors[at] = done[at].errors
             /\ (\E p \in ItalyPriceRows(Row(at)) \cap Columns(Row(at)) :
                   p.product \notin Aliased \/ p.amount # "plain") => errors[at] >= 1
  <2>1. Row(at) \in FeedRecord /\ answered[2].dated \in BOOLEAN
    BY <1>1 DEF AnswersAre
  <2> DEFINE n == ItalyRecord(Row(at), answered[2].dated)
  <2>2. /\ n.prices \subseteq Row(at).prices /\ n.errors \in Nat
        /\ \A p \in n.prices : p.product \in Aliased /\ p.amount = "plain"
        /\ Good(Row(at)) => Told(Row(at)) \subseteq n.prices
        /\ Cardinality(Row(at).prices) - Cardinality(n.prices) \in Nat
        /\ (\E p \in ItalyPriceRows(Row(at)) \cap Columns(Row(at)) :
              p.product \notin Aliased \/ p.amount # "plain") => n.errors >= 1
    BY <2>1, ItalyIsNormal
  <2>3. done[at] = n
    OBVIOUS
  <2>4. count[at] = Cardinality(Row(at).prices) - Cardinality(n.prices) /\ errors[at] = done[at].errors
    OBVIOUS
  <2> HIDE DEF n, done, count, errors
  <2> QED BY <2>2, <2>3, <2>4
<1>5. /\ SumFunctionOnSet(count, priceRows) \in Nat /\ SumFunctionOnSet(errors, priceRows) \in Nat
      /\ SumFunctionOnSet(errors, priceRows) >= Cardinality({at \in priceRows : errors[at] > 0})
  <2>1. \A at \in priceRows : count[at] \in Nat /\ errors[at] \in Nat
    <3> HIDE DEF priceRows, count, errors, done
    <3> QED BY <1>4
  <2> HIDE DEF priceRows, count, errors
  <2> QED BY <1>3, <2>1, SumProperties
<1>6. Cardinality(unread) \in Nat
  <2> HIDE DEF unread
  <2> QED BY <1>3, FS_CardinalityType
<1>7. /\ res.stations = {station(i) : i \in {Row(at).id : at \in kept}}
      /\ res.skipped = 1 + Cardinality(unread) + SumFunctionOnSet(count, priceRows)
      /\ res.errors = SumFunctionOnSet(errors, priceRows)
  OBVIOUS
<1>8. \A i : station(i).from = of(i) /\ station(i).prices = UNION {done[at].prices : at \in of(i)}
  OBVIOUS
<1>9. \A at \in Records : row[at] = Row(at)
  OBVIOUS
<1> HIDE DEF res, row, count, errors, station, unread, done
<1>10. res.skipped \in Nat /\ res.errors \in Nat
  <2> HIDE DEF priceRows
  <2> QED BY <1>5, <1>6, <1>7
<1>11. ASSUME NEW at \in Records, Good(row[at]), Told(row[at]) # {}, at[1] = 2
       PROVE  \E t \in res.stations : at \in t.from /\ Told(row[at]) \subseteq t.prices
  <2>1. at \in priceRows /\ row[at] = Row(at)
    BY <1>1, <1>9, <1>11
  <2>2. Told(Row(at)) \subseteq done[at].prices
    BY <1>4, <1>11, <2>1
  <2>3. at \in kept
    BY <1>11, <2>1, <2>2
  <2> DEFINE i == Row(at).id
  <2>4. at \in of(i) /\ station(i) \in res.stations
    BY <1>7, <2>3
  <2>5. at \in station(i).from /\ done[at].prices \subseteq station(i).prices
    BY <1>8, <2>4
  <2> QED BY <2>1, <2>2, <2>4, <2>5
<1>12. ASSUME NEW t \in res.stations, NEW p \in t.prices
       PROVE  p.product \in Aliased /\ p.amount = "plain"
  <2>1. PICK i : t = station(i)
    BY <1>7
  <2>2. p \in UNION {done[at].prices : at \in of(i)}
    BY <1>8, <2>1
  <2>3. PICK at \in of(i) : p \in done[at].prices
    BY <2>2
  <2>4. at \in priceRows
    OBVIOUS
  <2> QED BY <1>4, <2>3, <2>4
<1>14. res.errors >= Cardinality({at \in Records : FaultyIn(res, source, row, at)})
  <2> DEFINE told == {at \in priceRows : errors[at] > 0}
             faulty == {at \in Records : FaultyIn(res, source, row, at)}
  <2>1. ASSUME NEW at \in Records, FaultyIn(res, source, row, at)
        PROVE  at \in priceRows /\ errors[at] > 0
    <3>1. at[1] = 2 /\ \E p \in ItalyPriceRows(row[at]) \cap Columns(row[at]) :
                          p.product \notin Aliased \/ p.amount # "plain"
      BY <2>1 DEF FaultyIn
    <3>2. at \in priceRows /\ row[at] = Row(at)
      BY <1>1, <1>9, <3>1
    <3>3. errors[at] \in Nat /\ errors[at] >= 1
      BY <1>4, <3>1, <3>2
    <3> QED BY <3>2, <3>3
  <2>2. faulty \subseteq told /\ told \subseteq priceRows
    BY <2>1
  <2> HIDE DEF told, faulty
  <2>3. IsFiniteSet(told) /\ Cardinality(told) \in Nat /\ IsFiniteSet(faulty)
        /\ Cardinality(faulty) \in Nat
    <3> HIDE DEF priceRows
    <3> QED BY <1>3, <2>2, FS_Subset, FS_CardinalityType
  <2>4. Cardinality(faulty) <= Cardinality(told)
    BY <2>2, <2>3, FS_Subset
  <2>5. SumFunctionOnSet(errors, priceRows) >= Cardinality(told)
    <3> HIDE DEF priceRows
    <3> QED BY <1>5 DEF told
  <2>6. res.errors >= Cardinality(faulty)
    <3> HIDE DEF priceRows
    <3> QED BY <1>5, <1>7, <2>3, <2>4, <2>5
  <2> QED BY <2>6 DEF faulty
<1>13. Accounts(res, source, Records, row)
  BY <1>10, <1>11, <1>12, <1>14 DEF Accounts
<1> QED BY <1>2, <1>13 DEF row

-----------------------------------------------------------------------------
(* The inductive invariant of a fetch.  A request under way has neither an *)
(* answer nor was it given up; except for the tables of Italy there is one *)
(* at a time, and it is after all that are over.                           *)

FlightsAreNew ==
  /\ \A u \in DOMAIN inFlight : /\ u \in 0..MaxUnits /\ inFlight[u] \in 0..3
                                /\ u = 0 => source \in {"france", "slovenia"}
                                /\ u \notin DOMAIN answered /\ u \notin DOMAIN lost
  /\ source # "italy" =>
       \A u \in DOMAIN inFlight : /\ \A v \in DOMAIN inFlight : v = u
                                  /\ \A v \in DOMAIN answered : v < u
                                  /\ \A v \in DOMAIN lost : v < u

LostAreExcused ==
  /\ DOMAIN lost \subseteq 0..MaxUnits /\ DOMAIN answered \cap DOMAIN lost = {}
  /\ \A u \in DOMAIN lost : source \in {"germany", "germanyPrices"} /\ lost[u] \notin {"4xx", "too-large"}

FetchInv ==
  /\ source \in Source \cup {NoSource}
  /\ outcome \in {"none", "fetched", "failed", "normalized"}
  /\ AnswersAre /\ FlightsAreNew /\ LostAreExcused
  /\ source = NoSource => /\ DOMAIN inFlight = {} /\ DOMAIN answered = {} /\ DOMAIN lost = {}
                          /\ outcome = "none"
  /\ result.skipped \in Nat /\ result.errors \in Nat
  /\ outcome = "normalized" => Accounts(result, source, Records, [at \in Records |-> Row(at)])

LEMMA FetchInitInv == FetchInit => FetchInv
<1> SUFFICES ASSUME FetchInit PROVE FetchInv
  OBVIOUS
<1>1. /\ DOMAIN inFlight = {} /\ DOMAIN answered = {} /\ DOMAIN lost = {}
      /\ source = NoSource /\ outcome = "none"
  BY DEF FetchInit, Nothing
<1>2. result.skipped \in Nat /\ result.errors \in Nat
  BY DEF FetchInit, NoResult
<1> QED BY <1>1, <1>2 DEF FetchInv, AnswersAre, FlightsAreNew, LostAreExcused

LEMMA AccountsMeans ==
  (outcome = "normalized" => Accounts(result, source, Records, [at \in Records |-> Row(at)]))
  /\ LostAreExcused /\ ProviderFetchAssumption /\ AnswersAre => FeedIsAccountedFor
<1> SUFFICES ASSUME outcome = "normalized", LostAreExcused, ProviderFetchAssumption, AnswersAre,
                    Accounts(result, source, Records, [at \in Records |-> Row(at)])
             PROVE  FeedIsAccountedFor
  BY DEF FeedIsAccountedFor
<1> DEFINE row == [at \in Records |-> Row(at)]
<1>1. \A at \in Records : row[at] = Row(at)
  OBVIOUS
<1>2. Accounts(result, source, Records, row)
  OBVIOUS
<1> HIDE DEF row
<1>3. ASSUME NEW at \in Rows, Good(Row(at)), Told(Row(at)) # {}, source = "italy" => at[1] = 2
      PROVE  \/ \E t \in result.stations : at \in t.from /\ Told(Row(at)) \subseteq t.prices
             \/ source = "germany" /\ FoundLater(at) # {}
  BY <1>1, <1>2, <1>3, GoodIsHandedOn DEF Accounts
<1>4. result.errors >= Cardinality({at \in Records : Faulty(at)})
  <2> DEFINE faulty == {at \in Records : Faulty(at)}
             all == {at \in Records : FaultyIn(result, source, row, at)}
  <2>1. \A at \in Records : Faulty(at) => FaultyIn(result, source, row, at)
    BY <1>1, QuietIsUnpriced DEF Faulty, FaultyIn
  <2>2. faulty \subseteq all /\ all \subseteq Records
    BY <2>1
  <2>3. result.errors \in Nat /\ result.errors >= Cardinality(all)
    BY <1>2 DEF Accounts
  <2> HIDE DEF faulty, all
  <2>4. /\ IsFiniteSet(all) /\ Cardinality(all) \in Nat /\ Cardinality(faulty) \in Nat
        /\ Cardinality(faulty) <= Cardinality(all)
    BY <2>2, RowsAre, FS_Subset, FS_CardinalityType
  <2>5. result.errors >= Cardinality(faulty)
    BY <2>3, <2>4
  <2> QED BY <2>5 DEF faulty
<1> QED BY <1>2, <1>3, <1>4 DEF Accounts, LostAreExcused, FeedIsAccountedFor

LEMMA FetchInvSuffices == FetchInv => FetchTypeOK /\ FeedIsAccountedFor
BY AccountsMeans, ProviderFetchAssumption DEF FetchInv, FetchTypeOK, AnswersAre, FlightsAreNew, LostAreExcused

-----------------------------------------------------------------------------
(* How a request that is over is taken.                                    *)

AnswerIs(x) == x.rows \in Seq(FeedRecord) /\ x.dated \in BOOLEAN

Gives(u) == \E more \in BOOLEAN : \E y : /\ AnswerIs(y) /\ u >= 1
                                         /\ more => u < MaxUnits /\ source # "italy"
                                         /\ Give(u, y, more)
Loses(u) == \E more \in BOOLEAN : \E a : /\ source \in {"germany", "germanyPrices"}
                                         /\ a \notin {"4xx", "too-large"}
                                         /\ more => u < MaxUnits
                                         /\ Lose(u, a, more)
Moves(u) ==
  \/ Throw \/ Gives(u) \/ Loses(u)
  \/ u = 0 /\ source # "italy" /\ Next1(0, TRUE) /\ UNCHANGED <<answered, lost>>

LEMMA FeedAnswerIs ==
  ASSUME ProviderFetchAssumption, NEW u, NEW x \in FeedAnswer(u)
  PROVE  /\ AnswerIs(x) /\ x.more \in BOOLEAN
         /\ x.more => u < MaxUnits /\ source # "italy"
<1> DEFINE tables == {t \in Table : source = "germanyPrices" => \A i \in DOMAIN t : t[i].named}
<1>0. /\ x.rows \in tables
      /\ x.more \in (IF source \in {"france", "slovenia"} /\ u < MaxUnits THEN BOOLEAN ELSE {FALSE})
      /\ x.dated \in (IF source \in {"spain", "italy"} THEN BOOLEAN ELSE {TRUE})
  <2>1. tables = {t \in Table : source = "germanyPrices" => \A i \in DOMAIN t : t[i].named}
    OBVIOUS
  <2> HIDE DEF tables
  <2> QED BY <2>1 DEF FeedAnswer
<1>1. /\ x.rows \in Table
      /\ x.more \in (IF source \in {"france", "slovenia"} /\ u < MaxUnits THEN BOOLEAN ELSE {FALSE})
      /\ x.dated \in (IF source \in {"spain", "italy"} THEN BOOLEAN ELSE {TRUE})
  BY <1>0
<1>2. x.rows \in Seq(FeedRecord)
  BY <1>1 DEF ProviderFetchAssumption
<1>3. x.more \in BOOLEAN /\ (x.more => u < MaxUnits /\ source # "italy")
  BY <1>1
<1>4. x.dated \in BOOLEAN
  BY <1>1
<1> QED BY <1>2, <1>3, <1>4 DEF AnswerIs

LEMMA GiveMoves ==
  ASSUME NEW u, NEW y, NEW more, AnswerIs(y), u >= 1,
         more => u < MaxUnits /\ source # "italy", Give(u, y, more)
  PROVE  Moves(u)
<1>1. CASE more
  <2>1. Give(u, y, TRUE)
    BY <1>1 DEF Give, Next1
  <2>2. u < MaxUnits /\ source # "italy"
    BY <1>1
  <2> QED BY <2>1, <2>2 DEF Moves, Gives
<1>2. CASE ~more
  <2>1. Give(u, y, FALSE)
    BY <1>2 DEF Give, Next1
  <2> QED BY <2>1 DEF Moves, Gives
<1> QED BY <1>1, <1>2

LEMMA LoseMoves ==
  ASSUME NEW u, NEW end, NEW goesOn, source \in {"germany", "germanyPrices"},
         end \notin {"4xx", "too-large"}, goesOn => u < MaxUnits, Lose(u, end, goesOn)
  PROVE  Moves(u)
<1> DEFINE Fits(more, a) == /\ source \in {"germany", "germanyPrices"}
                            /\ a \notin {"4xx", "too-large"}
                            /\ more => u < MaxUnits
                            /\ Lose(u, a, more)
<1>1. CASE goesOn
  <2>1. Lose(u, end, TRUE)
    BY <1>1 DEF Lose, Next1
  <2>2. u < MaxUnits
    BY <1>1
  <2>3. Fits(TRUE, end)
    BY <2>1, <2>2
  <2>4. \E more \in BOOLEAN : \E a : Fits(more, a)
    <3> HIDE DEF Fits
    <3> QED BY <2>3
  <2>5. Loses(u)
    BY <2>4, Zenon DEF Loses
  <2> QED BY <2>5 DEF Moves
<1>2. CASE ~goesOn
  <2>1. Lose(u, end, FALSE)
    BY <1>2 DEF Lose, Next1
  <2>2. Fits(FALSE, end)
    BY <2>1
  <2>3. \E more \in BOOLEAN : \E a : Fits(more, a)
    <3> HIDE DEF Fits
    <3> QED BY <2>2
  <2>4. Loses(u)
    BY <2>3, Zenon DEF Loses
  <2> QED BY <2>4 DEF Moves
<1> QED BY <1>1, <1>2

LEMMA TakeAnswerMoves ==
  ASSUME ProviderFetchAssumption, NEW u \in 0..MaxUnits, u = 0 => source \in {"france", "slovenia"},
         source \in Source, NEW a, NEW x, a = "ok" => x \in FeedAnswer(u), TakeAnswer(u, a, x)
  PROVE  Moves(u)
<1>1. MaxUnits \in Nat /\ MaxUnits >= 2 /\ u \in Nat
  BY DEF ProviderFetchAssumption
<1>2. a = "ok" => /\ AnswerIs(x)
                  /\ x.more => u < MaxUnits /\ source # "italy"
  BY FeedAnswerIs
<1>3. (u < 2 => u < MaxUnits) /\ (u # 0 => u >= 1)
  BY <1>1
<1>4. CASE source \in {"germany", "germanyPrices"}
  <2>1. GermanyAnswer(u, a, x) /\ u >= 1
    BY <1>3, <1>4 DEF TakeAnswer
  <2>2. CASE a = "ok"
    <3> DEFINE more == u < MaxUnits
    <3>1. Give(u, x, more) /\ (more => u < MaxUnits)
      BY <2>1, <2>2 DEF GermanyAnswer
    <3>2. AnswerIs(x) /\ u >= 1 /\ source # "italy"
      BY <1>2, <1>4, <2>1, <2>2
    <3> HIDE DEF more
    <3> QED BY <3>1, <3>2, GiveMoves
  <2>3. CASE a # "ok"
    <3> DEFINE more == u < MaxUnits
    <3>1. Throw \/ (Lose(u, a, more) /\ ~(IsHttpFetchError(a) /\ HasStatus(a) /\ ~Retryable(a)))
      BY <2>1, <2>3 DEF GermanyAnswer
    <3>5. more => u < MaxUnits
      OBVIOUS
    <3> HIDE DEF more
    <3>2. a \in {"4xx", "too-large"} => IsHttpFetchError(a) /\ HasStatus(a) /\ ~Retryable(a)
      BY DEF IsHttpFetchError, HasStatus, Retryable
    <3>3. CASE Throw
      BY <3>3 DEF Moves
    <3>4. CASE Lose(u, a, more) /\ a \notin {"4xx", "too-large"}
      BY <1>4, <3>4, <3>5, LoseMoves
    <3> QED BY <3>1, <3>2, <3>3, <3>4
  <2> QED BY <2>2, <2>3
<1>5. CASE source = "france"
  <2>1. FranceAnswer(u, a, x)
    BY <1>5 DEF TakeAnswer
  <2>2. CASE u = 0
    BY <1>5, <2>1, <2>2 DEF FranceAnswer, Moves
  <2>3. CASE u # 0 /\ a = "ok"
    <3>1. Give(u, x, x.more)
      BY <2>1, <2>3 DEF FranceAnswer
    <3> QED BY <1>2, <1>3, <2>3, <3>1, GiveMoves
  <2>4. CASE u # 0 /\ a # "ok"
    BY <2>1, <2>4 DEF FranceAnswer, Moves
  <2> QED BY <2>2, <2>3, <2>4
<1>6. CASE source = "spain"
  <2>1. SpainAnswer(u, a, x) /\ u >= 1
    BY <1>3, <1>6 DEF TakeAnswer
  <2>2. (a = "ok" /\ Give(u, x, FALSE)) \/ Throw
    BY <2>1 DEF SpainAnswer
  <2> QED BY <1>2, <2>1, <2>2 DEF Moves, Gives
<1>7. CASE source = "italy"
  <2>1. ItalyAnswer(u, a, x) /\ u >= 1
    BY <1>3, <1>7 DEF TakeAnswer
  <2>2. (a = "ok" /\ Give(u, x, FALSE)) \/ Throw
    BY <2>1 DEF ItalyAnswer
  <2> QED BY <1>2, <2>1, <2>2 DEF Moves, Gives
<1>8. CASE source = "slovenia"
  <2>1. SloveniaAnswer(u, a, x)
    BY <1>8 DEF TakeAnswer
  <2>2. CASE Throw
    BY <2>2 DEF Moves
  <2>3. CASE ~Throw /\ u = 0
    BY <1>8, <2>1, <2>3 DEF SloveniaAnswer, Moves
  <2>4. CASE ~Throw /\ u # 0
    <3>1. u > 0
      BY <1>1, <2>4
    <3>2. a = "ok" /\ Give(u, x, x.more)
      BY <2>1, <2>4, <3>1 DEF SloveniaAnswer
    <3> QED BY <1>2, <1>3, <2>4, <3>2, GiveMoves
  <2> QED BY <2>2, <2>3, <2>4
<1>9. CASE source = "croatia"
  <2>1. CroatiaAnswer(u, a, x) /\ u >= 1
    BY <1>3, <1>9 DEF TakeAnswer
  <2>2. (a = "ok" /\ Give(u, x, FALSE)) \/ Throw
    BY <2>1 DEF CroatiaAnswer
  <2> QED BY <1>2, <2>1, <2>2 DEF Moves, Gives
<1>10. CASE source = "austria"
  <2>1. AustriaAnswer(u, a, x) /\ u >= 1
    BY <1>3, <1>10 DEF TakeAnswer
  <2> DEFINE more == u < 2
  <2>2. (a = "ok" /\ Give(u, x, more)) \/ Throw
    BY <2>1 DEF AustriaAnswer
  <2>3. more => u < MaxUnits
    BY <1>3
  <2> HIDE DEF more
  <2>4. CASE Throw
    BY <2>4 DEF Moves
  <2>5. CASE a = "ok" /\ Give(u, x, more)
    BY <1>2, <1>10, <2>1, <2>3, <2>5, GiveMoves
  <2> QED BY <2>2, <2>4, <2>5
<1> QED BY <1>4, <1>5, <1>6, <1>7, <1>8, <1>9, <1>10 DEF ProviderFetchAssumption

-----------------------------------------------------------------------------
(* What the end of a request leaves of the invariant.                      *)

LEMMA WithoutIs ==
  ASSUME NEW f, NEW u
  PROVE  /\ DOMAIN Without(f, u) = DOMAIN f \ {u}
         /\ \A v \in DOMAIN f : v # u => Without(f, u)[v] = f[v]
BY DEF Without

LEMMA FlightsNext ==
  ASSUME NEW u \in Nat, NEW more, Next1(u, more)
  PROVE  /\ \A v \in DOMAIN inFlight' :
              \/ v \in DOMAIN inFlight /\ v # u /\ inFlight'[v] = inFlight[v]
              \/ more /\ v = u + 1 /\ inFlight'[v] = 0
         /\ outcome' \in {"none", "fetched"}
<1> DEFINE rest == Without(inFlight, u)
           next == u + 1
<1>1. \A v \in DOMAIN rest : v \in DOMAIN inFlight /\ v # u /\ rest[v] = inFlight[v]
  BY WithoutIs
<1>2. /\ inFlight' = IF more THEN With(rest, next, 0) ELSE rest
      /\ outcome' \in {"none", "fetched"}
  BY DEF Next1
<1> HIDE DEF rest, next
<1>3. \A v \in DOMAIN inFlight' :
          \/ v \in DOMAIN inFlight /\ v # u /\ inFlight'[v] = inFlight[v]
          \/ more /\ v = next /\ inFlight'[v] = 0
  <2>1. CASE more
    <3>1. inFlight' = With(rest, next, 0)
      BY <1>2, <2>1
    <3>2. /\ DOMAIN With(rest, next, 0) = DOMAIN rest \cup {next}
          /\ With(rest, next, 0)[next] = 0
          /\ \A v \in DOMAIN rest : v # next => With(rest, next, 0)[v] = rest[v]
      BY DEF With
    <3> QED BY <1>1, <2>1, <3>1, <3>2
  <2>2. CASE ~more
    BY <1>1, <1>2, <2>2
  <2> QED BY <2>1, <2>2
<1> QED BY <1>2, <1>3 DEF next

LEMMA GivesKeeps ==
  ASSUME ProviderFetchAssumption, AnswersAre, FlightsAreNew, LostAreExcused,
         NEW u \in DOMAIN inFlight, Gives(u), source' = source
  PROVE  AnswersAre' /\ FlightsAreNew' /\ LostAreExcused' /\ outcome' \in {"none", "fetched"}
<1>0. PICK more \in BOOLEAN : \E y : /\ AnswerIs(y) /\ u >= 1
                                     /\ more => u < MaxUnits /\ source # "italy"
                                     /\ Give(u, y, more)
  BY Zenon DEF Gives
<1>1. PICK y : /\ AnswerIs(y) /\ u >= 1
               /\ more => u < MaxUnits /\ source # "italy"
               /\ Give(u, y, more)
  BY <1>0, Zenon
<1>2. /\ answered' = With(answered, u, y) /\ lost' = lost /\ Next1(u, more)
      /\ u \in 1..MaxUnits /\ MaxUnits \in Nat /\ u \notin DOMAIN lost
  BY <1>1 DEF Give, FlightsAreNew, ProviderFetchAssumption
<1>3. /\ DOMAIN answered' = DOMAIN answered \cup {u} /\ answered'[u] = y
      /\ \A v \in DOMAIN answered : v # u => answered'[v] = answered[v]
  BY <1>2 DEF With
<1>4. AnswersAre'
  <2>1. y.rows \in Seq(FeedRecord) /\ y.dated \in BOOLEAN
    BY <1>1 DEF AnswerIs
  <2>2. DOMAIN answered' \subseteq 1..MaxUnits
    BY <1>2, <1>3 DEF AnswersAre
  <2>3. ASSUME NEW v \in DOMAIN answered'
        PROVE  answered'[v].rows \in Seq(FeedRecord) /\ answered'[v].dated \in BOOLEAN
    BY <1>3, <2>1 DEF AnswersAre
  <2> QED BY <2>2, <2>3 DEF AnswersAre
<1>5. LostAreExcused'
  BY <1>2, <1>3 DEF LostAreExcused
<1>6. /\ \A v \in DOMAIN inFlight' :
              \/ v \in DOMAIN inFlight /\ v # u /\ inFlight'[v] = inFlight[v]
              \/ more /\ v = u + 1 /\ inFlight'[v] = 0
      /\ outcome' \in {"none", "fetched"}
  BY <1>2, FlightsNext
<1>7. ASSUME NEW v \in DOMAIN inFlight'
      PROVE  /\ v \in 0..MaxUnits /\ inFlight'[v] \in 0..3
             /\ v = 0 => source \in {"france", "slovenia"}
             /\ v \notin DOMAIN answered' /\ v \notin DOMAIN lost'
             /\ source # "italy" => /\ \A w \in DOMAIN inFlight' : w = v
                                    /\ \A w \in DOMAIN answered' : w < v
                                    /\ \A w \in DOMAIN lost' : w < v
  <2>1. CASE v \in DOMAIN inFlight /\ v # u /\ inFlight'[v] = inFlight[v]
    <3>1. source = "italy"
      BY <2>1 DEF FlightsAreNew
    <3> QED BY <1>2, <1>3, <2>1, <3>1 DEF FlightsAreNew
  <2>2. CASE more /\ v = u + 1 /\ inFlight'[v] = 0
    <3>1. source # "italy" /\ v \in 1..MaxUnits
      BY <1>1, <1>2, <2>2
    <3>2. /\ \A w \in DOMAIN inFlight : w = u
          /\ \A w \in DOMAIN answered : w < u
          /\ \A w \in DOMAIN lost : w < u
      BY <3>1 DEF FlightsAreNew
    <3>3. \A w \in DOMAIN inFlight' : w = v
      BY <1>6, <2>2, <3>2
    <3>4. (\A w \in DOMAIN answered' : w < v) /\ (\A w \in DOMAIN lost' : w < v)
      <4>1. DOMAIN answered \subseteq Nat /\ DOMAIN lost \subseteq Nat
        BY <1>2 DEF AnswersAre, LostAreExcused
      <4> QED BY <1>2, <1>3, <2>2, <3>2, <4>1
    <3>5. v \notin DOMAIN answered' /\ v \notin DOMAIN lost'
      BY <3>1, <3>4
    <3> QED BY <2>2, <3>1, <3>3, <3>4, <3>5
  <2> QED BY <1>6, <2>1, <2>2
<1>8. FlightsAreNew'
  BY <1>7 DEF FlightsAreNew
<1> QED BY <1>4, <1>5, <1>6, <1>8

LEMMA LosesKeeps ==
  ASSUME ProviderFetchAssumption, AnswersAre, FlightsAreNew, LostAreExcused,
         NEW u \in DOMAIN inFlight, Loses(u), source' = source
  PROVE  AnswersAre' /\ FlightsAreNew' /\ LostAreExcused' /\ outcome' \in {"none", "fetched"}
<1>0. PICK more \in BOOLEAN : \E a : /\ source \in {"germany", "germanyPrices"}
                                     /\ a \notin {"4xx", "too-large"}
                                     /\ more => u < MaxUnits
                                     /\ Lose(u, a, more)
  BY Zenon DEF Loses
<1>1. PICK a : /\ source \in {"germany", "germanyPrices"}
               /\ a \notin {"4xx", "too-large"}
               /\ more => u < MaxUnits
               /\ Lose(u, a, more)
  BY <1>0, Zenon
<1>2. /\ lost' = With(lost, u, a) /\ answered' = answered /\ Next1(u, more)
      /\ u \in 0..MaxUnits /\ MaxUnits \in Nat /\ u \notin DOMAIN answered
  BY <1>1 DEF Lose, FlightsAreNew, ProviderFetchAssumption
<1>3. /\ DOMAIN lost' = DOMAIN lost \cup {u} /\ lost'[u] = a
      /\ \A v \in DOMAIN lost : v # u => lost'[v] = lost[v]
  BY <1>2 DEF With
<1>4. AnswersAre'
  BY <1>2 DEF AnswersAre
<1>5. LostAreExcused'
  BY <1>1, <1>2, <1>3 DEF LostAreExcused
<1>6. /\ \A v \in DOMAIN inFlight' :
              \/ v \in DOMAIN inFlight /\ v # u /\ inFlight'[v] = inFlight[v]
              \/ more /\ v = u + 1 /\ inFlight'[v] = 0
      /\ outcome' \in {"none", "fetched"}
  BY <1>2, FlightsNext
<1>7. /\ \A w \in DOMAIN inFlight : w = u
      /\ \A w \in DOMAIN answered : w < u
      /\ \A w \in DOMAIN lost : w < u
      /\ DOMAIN answered \subseteq Nat /\ DOMAIN lost \subseteq Nat
  BY <1>1, <1>2 DEF FlightsAreNew, AnswersAre, LostAreExcused
<1>8. ASSUME NEW v \in DOMAIN inFlight'
      PROVE  /\ v \in 0..MaxUnits /\ inFlight'[v] \in 0..3
             /\ v = 0 => source \in {"france", "slovenia"}
             /\ v \notin DOMAIN answered' /\ v \notin DOMAIN lost'
             /\ \A w \in DOMAIN inFlight' : w = v
             /\ \A w \in DOMAIN answered' : w < v
             /\ \A w \in DOMAIN lost' : w < v
  <2>1. v = u + 1 /\ inFlight'[v] = 0 /\ more /\ v \in 1..MaxUnits
    BY <1>1, <1>2, <1>6, <1>7
  <2>2. \A w \in DOMAIN inFlight' : w = v
    BY <1>6, <1>7, <2>1
  <2>3. (\A w \in DOMAIN answered' : w < v) /\ (\A w \in DOMAIN lost' : w < v)
    BY <1>2, <1>3, <1>7, <2>1
  <2>4. v \notin DOMAIN answered' /\ v \notin DOMAIN lost'
    BY <2>1, <2>3
  <2> QED BY <2>1, <2>2, <2>3, <2>4
<1>9. FlightsAreNew'
  BY <1>8 DEF FlightsAreNew
<1> QED BY <1>4, <1>5, <1>6, <1>9

LEMMA MovesKeep ==
  ASSUME ProviderFetchAssumption, FetchInv, NEW u \in DOMAIN inFlight, Moves(u),
         UNCHANGED <<source, result>>
  PROVE  FetchInv'
<1>1. /\ AnswersAre /\ FlightsAreNew /\ LostAreExcused
      /\ source \in Source /\ result.skipped \in Nat /\ result.errors \in Nat
      /\ NoSource \notin Source /\ u \in 0..MaxUnits /\ MaxUnits \in Nat
  BY DEF FetchInv, FlightsAreNew, ProviderFetchAssumption
<1>2. AnswersAre' /\ FlightsAreNew' /\ LostAreExcused' /\ outcome' \in {"none", "fetched", "failed"}
  <2>1. CASE Throw
    <3>1. /\ answered' = answered /\ lost' = lost /\ outcome' = "failed"
          /\ DOMAIN inFlight' = {} /\ source' = source
      BY <2>1 DEF Throw, Nothing
    <3> QED BY <1>1, <3>1 DEF AnswersAre, FlightsAreNew, LostAreExcused
  <2>2. CASE Gives(u)
    BY <1>1, <2>2, GivesKeeps
  <2>3. CASE Loses(u)
    BY <1>1, <2>3, LosesKeeps
  <2>4. CASE u = 0 /\ source # "italy" /\ Next1(0, TRUE) /\ UNCHANGED <<answered, lost>>
    <3>1. /\ \A v \in DOMAIN inFlight' :
               \/ v \in DOMAIN inFlight /\ v # 0 /\ inFlight'[v] = inFlight[v]
               \/ v = 0 + 1 /\ inFlight'[v] = 0
          /\ outcome' \in {"none", "fetched"}
      BY <2>4, FlightsNext
    <3>2. /\ \A w \in DOMAIN inFlight : w = 0
          /\ \A w \in DOMAIN answered : w < 0
          /\ \A w \in DOMAIN lost : w < 0
      BY <1>1, <2>4 DEF FlightsAreNew
    <3>3. DOMAIN answered \subseteq Nat /\ DOMAIN lost \subseteq Nat
      BY <1>1 DEF AnswersAre, LostAreExcused
    <3>4. DOMAIN answered = {} /\ DOMAIN lost = {}
      BY <3>2, <3>3
    <3>5. \A v \in DOMAIN inFlight' : v = 1 /\ inFlight'[v] = 0
      BY <3>1, <3>2
    <3>6. /\ answered' = answered /\ lost' = lost /\ source' = source /\ 1 \in 0..MaxUnits
      BY <1>1, <2>4 DEF ProviderFetchAssumption
    <3>7. FlightsAreNew'
      BY <3>4, <3>5, <3>6 DEF FlightsAreNew
    <3>8. AnswersAre' /\ LostAreExcused'
      BY <1>1, <3>6 DEF AnswersAre, LostAreExcused
    <3> QED BY <3>1, <3>7, <3>8
  <2> QED BY <2>1, <2>2, <2>3, <2>4 DEF Moves
<1>3. source' \in Source /\ source' # NoSource /\ outcome' # "normalized"
  BY <1>1, <1>2
<1>4. result'.skipped \in Nat /\ result'.errors \in Nat
  BY <1>1
<1> QED BY <1>2, <1>3, <1>4 DEF FetchInv

LEMMA RequestKeeps ==
  ASSUME ProviderFetchAssumption, FetchInv, NEW u \in DOMAIN inFlight, Request(u)
  PROVE  FetchInv'
<1>1. /\ AnswersAre /\ FlightsAreNew /\ LostAreExcused
      /\ source \in Source /\ result.skipped \in Nat /\ result.errors \in Nat
      /\ NoSource \notin Source /\ u \in 0..MaxUnits /\ MaxUnits \in Nat
      /\ (u = 0 => source \in {"france", "slovenia"})
      /\ outcome = "none" /\ UNCHANGED <<source, result>>
  BY DEF FetchInv, FlightsAreNew, ProviderFetchAssumption, Request
<1>2. CASE \E x \in FeedAnswer(u) : TakeAnswer(u, "ok", x)
  <2>1. PICK x \in FeedAnswer(u) : TakeAnswer(u, "ok", x)
    BY <1>2
  <2>2. Moves(u)
    BY <1>1, <2>1, TakeAnswerMoves
  <2> QED BY <1>1, <2>2, MovesKeep
<1>3. ASSUME NEW a \in Failure, ~TriedAgain(a, inFlight[u], Retries(u)), TakeAnswer(u, a, NoSource)
      PROVE  FetchInv'
  <2>1. a # "ok"
    BY <1>3 DEF Failure, Attempt
  <2>2. Moves(u)
    BY <1>1, <1>3, <2>1, TakeAnswerMoves
  <2> QED BY <1>1, <2>2, MovesKeep
<1>4. ASSUME NEW a \in Failure, TriedAgain(a, inFlight[u], Retries(u)),
             inFlight' = [inFlight EXCEPT ![u] = @ + 1] /\ UNCHANGED <<answered, lost, outcome>>
      PROVE  FetchInv'
  <2>1. inFlight[u] \in 0..3
    BY <1>1 DEF FlightsAreNew
  <2>2. Retries(u) \in 0..3
    BY DEF Retries
  <2>3. inFlight[u] < Retries(u)
    BY <1>4 DEF TriedAgain
  <2>4. inFlight[u] + 1 \in 0..3
    <3>1. PICK n \in 0..3 : n = Retries(u)
      BY <2>2
    <3> QED BY <2>1, <2>3, <3>1
  <2>5. /\ DOMAIN inFlight' = DOMAIN inFlight
        /\ \A v \in DOMAIN inFlight : inFlight'[v] = IF v = u THEN inFlight[u] + 1 ELSE inFlight[v]
    BY <1>4
  <2>6. FlightsAreNew'
    BY <1>1, <1>4, <2>4, <2>5 DEF FlightsAreNew
  <2>7. AnswersAre' /\ LostAreExcused'
    BY <1>1, <1>4 DEF AnswersAre, LostAreExcused
  <2>8. /\ source' = source /\ outcome' = "none"
        /\ result'.skipped \in Nat /\ result'.errors \in Nat
    BY <1>1, <1>4
  <2> QED BY <1>1, <2>6, <2>7, <2>8 DEF FetchInv
<1> QED BY <1>2, <1>3, <1>4 DEF Request

LEMMA StartKeeps ==
  ASSUME ProviderFetchAssumption, FetchInv, NEW s \in Source, StartFetch(s)
  PROVE  FetchInv'
<1>1. /\ source' = s /\ s # NoSource
      /\ DOMAIN answered' = {} /\ DOMAIN lost' = {} /\ DOMAIN inFlight = {}
      /\ result'.skipped \in Nat /\ result'.errors \in Nat /\ outcome = "none"
  BY DEF FetchInv, StartFetch, ProviderFetchAssumption
<1>2. MaxUnits \in Nat /\ 1 \in 0..MaxUnits /\ 2 \in 0..MaxUnits /\ 0 \in 0..MaxUnits
  BY DEF ProviderFetchAssumption
<1>3. AnswersAre' /\ LostAreExcused'
  BY <1>1 DEF AnswersAre, LostAreExcused
<1>4. FlightsAreNew' /\ outcome' \in {"none", "failed", "fetched"}
  <2>1. CASE inFlight' = [u \in FirstRequests(s) |-> 0] /\ outcome' = outcome
    <3>1. DOMAIN inFlight' = FirstRequests(s) /\ \A u \in FirstRequests(s) : inFlight'[u] = 0
      BY <2>1
    <3>2. /\ \A u \in FirstRequests(s) : u \in 0..MaxUnits /\ (u = 0 => s \in {"france", "slovenia"})
          /\ s # "italy" => \A u, v \in FirstRequests(s) : u = v
      BY <1>2 DEF FirstRequests
    <3> QED BY <1>1, <2>1, <3>1, <3>2 DEF FlightsAreNew
  <2>2. CASE inFlight' = inFlight /\ outcome' \in {"failed", "fetched"}
    BY <1>1, <2>2 DEF FlightsAreNew
  <2> QED BY <2>1, <2>2 DEF StartFetch
<1> QED BY <1>1, <1>3, <1>4 DEF FetchInv

LEMMA NormalizeKeeps ==
  ASSUME ProviderFetchAssumption, FetchInv, Normalize
  PROVE  FetchInv'
<1>1. /\ UNCHANGED <<source, inFlight, answered, lost>> /\ outcome' = "normalized"
      /\ AnswersAre /\ FlightsAreNew /\ LostAreExcused /\ source \in Source
  BY DEF Normalize, FetchInv
<1> DEFINE rows == [at \in Records |-> Row(at)]
<1>2. Accounts(result', source, Records, rows)
  <2>1. CASE source = "italy"
    <3>1. result' = NormalizeItaly
      BY <2>1 DEF Normalize
    <3>2. Accounts(NormalizeItaly, source, Records, rows)
      BY <1>1, <2>1, ItalyAccounted
    <3> HIDE DEF rows
    <3> QED BY <3>1, <3>2
  <2>2. CASE source # "italy"
    <3>1. result' = NormalizeRecords
      BY <2>2 DEF Normalize
    <3>2. source \in {"germany", "germanyPrices", "france", "spain", "slovenia", "croatia", "austria"}
      BY <1>1, <2>2 DEF ProviderFetchAssumption
    <3>3. Accounts(NormalizeRecords, source, Records, rows)
      BY <1>1, <3>2, RecordsAccounted
    <3> HIDE DEF rows
    <3> QED BY <3>1, <3>3
  <2> QED BY <2>1, <2>2
<1>3. rows' = rows /\ Records' = Records
  BY <1>1 DEF Records, Rows, Row, Before, StationById, ParseCroatiaFeed, FoundLater
<1>4. Accounts(result', source', Records', rows')
  <2> HIDE DEF rows
  <2> QED BY <1>1, <1>2, <1>3
<1>5. result'.skipped \in Nat /\ result'.errors \in Nat
  BY <1>2 DEF Accounts
<1>6. AnswersAre' /\ FlightsAreNew' /\ LostAreExcused'
  BY <1>1 DEF AnswersAre, FlightsAreNew, LostAreExcused
<1>7. source' \in Source /\ NoSource \notin Source
  BY <1>1 DEF ProviderFetchAssumption
<1> QED BY <1>1, <1>4, <1>5, <1>6, <1>7 DEF FetchInv, Accounts

LEMMA FetchNextInv ==
  ASSUME ProviderFetchAssumption
  PROVE  FetchInv /\ [FetchNext]_fetchVars => FetchInv'
<1> SUFFICES ASSUME FetchInv, [FetchNext]_fetchVars PROVE FetchInv'
  OBVIOUS
<1>1. ASSUME NEW s \in Source, StartFetch(s) PROVE FetchInv'
  BY <1>1, StartKeeps
<1>2. ASSUME NEW u \in DOMAIN inFlight, Request(u) PROVE FetchInv'
  BY <1>2, RequestKeeps
<1>3. CASE Normalize
  BY <1>3, NormalizeKeeps
<1>4. CASE UNCHANGED fetchVars
  <2>1. UNCHANGED <<source, inFlight, answered, lost, outcome, result>>
    BY <1>4 DEF fetchVars
  <2>2. AnswersAre' /\ FlightsAreNew' /\ LostAreExcused'
    BY <2>1 DEF FetchInv, AnswersAre, FlightsAreNew, LostAreExcused
  <2> DEFINE rows == [at \in Records |-> Row(at)]
  <2>3. rows' = rows /\ Records' = Records
    BY <2>1 DEF Records, Rows, Row, Before, StationById, ParseCroatiaFeed, FoundLater
  <2>4. outcome' = "normalized" => Accounts(result', source', Records', rows')
    <3>1. outcome = "normalized" => Accounts(result, source, Records, rows)
      BY DEF FetchInv
    <3> HIDE DEF rows
    <3> QED BY <2>1, <2>3, <3>1
  <2>5. /\ source' \in Source \cup {NoSource}
        /\ outcome' \in {"none", "fetched", "failed", "normalized"}
        /\ source' = NoSource => /\ DOMAIN inFlight' = {} /\ DOMAIN answered' = {}
                                 /\ DOMAIN lost' = {} /\ outcome' = "none"
        /\ result'.skipped \in Nat /\ result'.errors \in Nat
    BY <2>1 DEF FetchInv
  <2> QED BY <2>2, <2>4, <2>5 DEF FetchInv
<1> QED BY <1>1, <1>2, <1>3, <1>4 DEF FetchNext, FetchStep
=============================================================================
