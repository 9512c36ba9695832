------------------------------- MODULE Accounts -------------------------------
(***************************************************************************)
(* Accounts, sessions, preferences and favourites: AuthService,            *)
(* SessionService, the session guard, PreferencesService and               *)
(* FavoritesService over the tables of PostgreSQL.                         *)
(*                                                                         *)
(* A request is a sequence of statements, each atomic, between which those *)
(* of other requests take place.  Ids and tokens are numbers in the order  *)
(* of their creation: neither is ever given twice.  A token is known to    *)
(* its client from the moment the session is stored.                       *)
(***************************************************************************)
EXTENDS Naturals, FiniteSets

CONSTANTS
  Client,       \* requests that can be under way at once
  Email,        \* normalised addresses
  Locale,       \* with "en", the first one of every account
  MaxCalls      \* bound: requests of a behaviour

ASSUME AccountsAssumption == "en" \in Locale /\ MaxCalls \in Nat

VARIABLES
  users,      \* id -> [email, locale, preferred]: users and user_preferences
  favorites,  \* user_favorites: ids of users whose favourite the station is
  sessions,   \* token -> [user, revoked, expired]: auth_sessions
  newest,     \* the last id and the last token given out, and requests made
  call,       \* the requests under way
  ended       \* history: tokens known to be of no more use, and those that
              \* their owner's logout or deletion asked to be revoked

accountVars == <<users, favorites, sessions, newest, call, ended>>

Idle == [op |-> "none", at |-> "idle", user |-> 0, token |-> 0, email |-> "none", late |-> FALSE]

AccountsInit ==
  /\ users = [u \in {} |-> 0] /\ sessions = [t \in {} |-> 0] /\ favorites = {}
  /\ newest = [user |-> 0, token |-> 0, call |-> 0]
  /\ call = [c \in Client |-> Idle]
  /\ ended = [known |-> {}, asked |-> {}]

(* What the columns of the tables and their foreign keys allow.            *)
UserType == [email : Email, locale : Locale, preferred : Locale]
SessionType == [user : Nat, revoked : BOOLEAN, expired : BOOLEAN]

-----------------------------------------------------------------------------
At(c, op, at) == call[c].op = op /\ call[c].at = at
Go(c, at) == call' = [call EXCEPT ![c].at = at]
Finish(c) == call' = [call EXCEPT ![c] = Idle]
Put(f, k, x) == [j \in DOMAIN f \cup {k} |-> IF j = k THEN x ELSE f[j]]
Owner(e) == {u \in DOMAIN users : users[u].email = e}
TokensOf(u) == {t \in DOMAIN sessions : sessions[t].user = u}
Tables == <<users, favorites, sessions>>

StartCall(c, op, email, user, token) ==
  /\ call[c] = Idle /\ newest.call < MaxCalls
  /\ newest' = [newest EXCEPT !.call = @ + 1]
  /\ call' = [call EXCEPT ![c] = [op |-> op, at |-> "asked", user |-> user,
                                  token |-> token, email |-> email, late |-> token \in ended.known]]
  /\ ended' = IF op = "logout" THEN [ended EXCEPT !.asked = @ \cup {token}] ELSE ended
  /\ UNCHANGED Tables

(* register: an address in use is refused by the read in the transaction,  *)
(* or by the unique index when another registration came first.            *)
Register(c, e) == Owner(e) = {} /\ StartCall(c, "register", e, 0, 0)

StoreUser(c) ==
  /\ At(c, "register", "asked")
  /\ IF Owner(call[c].email) # {} THEN Finish(c) /\ UNCHANGED <<users, newest>>
     ELSE LET u == newest.user + 1 IN
       /\ users' = Put(users, u, [email |-> call[c].email, locale |-> "en", preferred |-> "en"])
       /\ newest' = [newest EXCEPT !.user = u]
       /\ call' = [call EXCEPT ![c].at = "verified", ![c].user = u]
  /\ UNCHANGED <<favorites, sessions, ended>>

(* login: the user is read, the password verified, then the session is     *)
(* made.  In between the user may have gone.                               *)
Login(c, e) == \E u \in Owner(e) : StartCall(c, "login", e, u, 0)

VerifyPassword(c) ==
  /\ At(c, "login", "asked")
  /\ Finish(c) \/ Go(c, "verified")
  /\ UNCHANGED <<Tables, newest, ended>>

(* The foreign key refuses a session for a user deleted meanwhile.         *)
CreateSession(c) ==
  /\ call[c].op \in {"register", "login"} /\ call[c].at = "verified"
  /\ IF call[c].user \in DOMAIN users
     THEN /\ newest' = [newest EXCEPT !.token = @ + 1]
          /\ sessions' = Put(sessions, newest.token + 1,
                             [user |-> call[c].user, revoked |-> FALSE, expired |-> FALSE])
     ELSE UNCHANGED <<newest, sessions>>
  /\ Finish(c)
  /\ UNCHANGED <<users, favorites, ended>>

\* A faulty RevokeSession: every session of the user ends.
RevokeUserOf(c) ==
  /\ At(c, "logout", "asked")
  /\ sessions' = [t \in DOMAIN sessions |->
       [sessions[t] EXCEPT !.revoked = @ \/
          (call[c].token \in DOMAIN sessions /\ sessions[t].user = sessions[call[c].token].user)]]
  /\ ended' = [ended EXCEPT !.known = @ \cup {call[c].token}]
  /\ Finish(c)
  /\ UNCHANGED <<users, favorites, newest>>

(* logout asks for no valid session: any token will do.                    *)
RevokeSession(c) ==
  /\ At(c, "logout", "asked")
  /\ sessions' = [t \in DOMAIN sessions |->
                    [sessions[t] EXCEPT !.revoked = @ \/ t = call[c].token]]
  /\ ended' = [ended EXCEPT !.known = @ \cup {call[c].token}]
  /\ Finish(c)
  /\ UNCHANGED <<users, favorites, newest>>

-----------------------------------------------------------------------------
(* Everything else passes the guard first: the session is joined to its    *)
(* user and must be neither revoked nor expired.                           *)
Guarded == {"me", "preferences", "patch", "favorites", "add", "remove", "delete"}

ValidateSession(t) ==
  /\ t \in DOMAIN sessions
  /\ sessions[t].user \in DOMAIN users
  /\ ~sessions[t].revoked /\ ~sessions[t].expired

CanActivate(c) ==
  /\ call[c].op \in Guarded /\ call[c].at = "asked"
  /\ IF ValidateSession(call[c].token)
     THEN /\ call' = [call EXCEPT ![c].at = "admitted", ![c].user = sessions[call[c].token].user]
          /\ UNCHANGED ended
     ELSE /\ Finish(c)
          /\ ended' = [ended EXCEPT !.known = @ \cup {call[c].token}]
  /\ UNCHANGED <<Tables, newest>>

(* The handlers that only read: a user who is gone gives 401 or 404; the   *)
(* list of favourites reads the preferences first, and prices last.        *)
GetMe(c) == At(c, "me", "admitted") /\ Finish(c) /\ UNCHANGED <<Tables, newest, ended>>

GetPreferences(c) ==
  /\ call[c].op \in {"preferences", "favorites"} /\ call[c].at = "admitted"
  /\ IF call[c].op = "favorites" /\ call[c].user \in DOMAIN users THEN Go(c, "listed")
     ELSE Finish(c)
  /\ UNCHANGED <<Tables, newest, ended>>

ListFavorites(c) ==
  /\ At(c, "favorites", "listed")
  /\ Finish(c)
  /\ UNCHANGED <<Tables, newest, ended>>

(* An unknown fuel or currency, and a number out of range, are refused     *)
(* before anything is written; then the locale is written twice.           *)
PatchUser(c, l) ==
  /\ At(c, "patch", "admitted")
  /\ \/ Finish(c) /\ UNCHANGED users
     \/ /\ users' = [u \in DOMAIN users |->
                       IF u = call[c].user THEN [users[u] EXCEPT !.locale = l] ELSE users[u]]
        /\ Go(c, l)
  /\ UNCHANGED <<favorites, sessions, newest, ended>>

PatchPreferences(c) ==
  /\ call[c].op = "patch" /\ call[c].at \in Locale
  /\ users' = [u \in DOMAIN users |->
                 IF u = call[c].user THEN [users[u] EXCEPT !.preferred = call[c].at] ELSE users[u]]
  /\ Finish(c)
  /\ UNCHANGED <<favorites, sessions, newest, ended>>

(* A station that does not exist is refused; one that is a favourite       *)
(* already stays one; a user who is gone makes the insertion fail.         *)
AddFavorite(c) ==
  /\ At(c, "add", "admitted")
  /\ \/ UNCHANGED favorites
     \/ favorites' = favorites \cup ({call[c].user} \cap DOMAIN users)
  /\ Finish(c)
  /\ UNCHANGED <<users, sessions, newest, ended>>

RemoveFavorite(c) ==
  /\ At(c, "remove", "admitted")
  /\ favorites' = favorites \ {call[c].user}
  /\ Finish(c)
  /\ UNCHANGED <<users, sessions, newest, ended>>

(* deleteAccount: the password is asked for again, then all sessions are   *)
(* revoked, and then, after the images, the rows go.                       *)
ConfirmDeletion(c) ==
  /\ At(c, "delete", "admitted")
  /\ \/ Finish(c) /\ UNCHANGED ended
     \/ /\ call[c].user \in DOMAIN users /\ Go(c, "confirmed")
        /\ ended' = [ended EXCEPT !.asked = @ \cup TokensOf(call[c].user)]
  /\ UNCHANGED <<Tables, newest>>

RevokeAllUserSessions(c) ==
  /\ At(c, "delete", "confirmed")
  /\ sessions' = [t \in DOMAIN sessions |->
                    [sessions[t] EXCEPT !.revoked = @ \/ sessions[t].user = call[c].user]]
  /\ ended' = [ended EXCEPT !.asked = @ \cup TokensOf(call[c].user)]
  /\ Go(c, "revoked")
  /\ UNCHANGED <<users, favorites, newest>>

\* A faulty DeleteUser: the sessions stay behind.
DeleteUserOnly(c) ==
  /\ At(c, "delete", "revoked")
  /\ users' = [u \in DOMAIN users \ {call[c].user} |-> users[u]]
  /\ favorites' = favorites \ {call[c].user}
  /\ ended' = [ended EXCEPT !.known = @ \cup TokensOf(call[c].user)]
  /\ Finish(c)
  /\ UNCHANGED <<sessions, newest>>

(* The rows that refer to the user go with it.                             *)
DeleteUser(c) ==
  /\ At(c, "delete", "revoked")
  /\ users' = [u \in DOMAIN users \ {call[c].user} |-> users[u]]
  /\ favorites' = favorites \ {call[c].user}
  /\ sessions' = [t \in DOMAIN sessions \ TokensOf(call[c].user) |-> sessions[t]]
  /\ ended' = [ended EXCEPT !.known = @ \cup TokensOf(call[c].user)]
  /\ Finish(c)
  /\ UNCHANGED newest

-----------------------------------------------------------------------------
(* Thirty days pass; cleanup-sessions is run by hand.                      *)
Expire(t) ==
  /\ t \in DOMAIN sessions /\ ~sessions[t].expired
  /\ sessions' = [sessions EXCEPT ![t].expired = TRUE]
  /\ UNCHANGED <<users, favorites, newest, call, ended>>

CleanupExpiredSessions ==
  /\ \E t \in DOMAIN sessions : sessions[t].expired
  /\ sessions' = [t \in {x \in DOMAIN sessions : ~sessions[x].expired} |-> sessions[t]]
  /\ UNCHANGED <<users, favorites, newest, call, ended>>

Handle(c) ==
  \/ StoreUser(c) \/ VerifyPassword(c) \/ CreateSession(c) \/ RevokeSession(c)
  \/ CanActivate(c)
  \/ GetMe(c) \/ GetPreferences(c) \/ ListFavorites(c)
  \/ \E l \in Locale : PatchUser(c, l)
  \/ PatchPreferences(c) \/ AddFavorite(c) \/ RemoveFavorite(c)
  \/ ConfirmDeletion(c) \/ RevokeAllUserSessions(c) \/ DeleteUser(c)

AccountsNext ==
  \/ \E c \in Client, e \in Email : Register(c, e) \/ Login(c, e)
  \/ \E c \in Client, t \in 1..newest.token, op \in Guarded \cup {"logout"} :
       StartCall(c, op, "none", 0, t)
  \/ \E c \in Client : Handle(c)
  \/ \E t \in 1..newest.token : Expire(t)
  \/ CleanupExpiredSessions

AccountsSpec == AccountsInit /\ [][AccountsNext]_accountVars

-----------------------------------------------------------------------------
CallType ==
  [op : Guarded \cup {"none", "register", "login", "logout"},
   at : {"idle", "asked", "verified", "admitted", "listed", "confirmed", "revoked"} \cup Locale,
   user : Nat, token : Nat, email : Email \cup {"none"}, late : BOOLEAN]

AccountsTypeOK ==
  /\ DOMAIN users \subseteq 1..newest.user
  /\ \A u \in DOMAIN users : users[u] \in UserType
  /\ favorites \subseteq DOMAIN users
  /\ DOMAIN sessions \subseteq 1..newest.token
  /\ \A t \in DOMAIN sessions :
       sessions[t] \in SessionType /\ sessions[t].user \in DOMAIN users
  /\ newest \in [user : Nat, token : Nat, call : 0..MaxCalls]
  /\ call \in [Client -> CallType]
  /\ \A c \in Client : call[c].user \in 0..newest.user /\ call[c].token \in 0..newest.token
  /\ ended \in [known : SUBSET (1..newest.token), asked : SUBSET (1..newest.token)]

(* A session ends for good and only when it should: no request that is     *)
(* made after its token was answered with 401, logged out, or its account  *)
(* deleted, passes the guard; and a session is revoked only by a logout    *)
(* with its own token or the deletion of its own account                   *)
(* (docs/authentication.md:20 "Logout revokes only the current session";   *)
(* :36 "Expired or revoked sessions return 401 on protected routes").      *)
SessionsEndAsTold ==
  /\ \A c \in Client : call[c].late => call[c].at \in {"idle", "asked"}
  /\ \A t \in DOMAIN sessions : sessions[t].revoked => t \in ended.asked

=============================================================================
