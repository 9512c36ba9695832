------------------------------- MODULE SignedIn -------------------------------
(***************************************************************************)
(* Who is signed in, as the web application sees it: AuthProvider, the     *)
(* forms to log in and to register, the favourite buttons, and the account *)
(* page that saves preferences.                                            *)
(*                                                                         *)
(* A call is served by the API at one moment and answered to the page at a *)
(* later one; calls overtake each other.  Registering is to the page what  *)
(* logging in is.  Names and preferences themselves are left out.          *)
(***************************************************************************)
EXTENDS Naturals, FiniteSets

CONSTANTS
  User, NoUser,
  Starred,     \* stations with a favourite button
  MaxClicks    \* bound: what the user starts

ASSUME SignedInAssumption == NoUser \notin User /\ MaxClicks \in Nat

VARIABLES
  auth,           \* [status, user, favorites]: the state of AuthProvider
  cookie,         \* external: whose session the browser's cookie names
  userFavorites,  \* external: <<user, station>> in the API's user_favorites
  calls,          \* under way: [kind, user, station, remove, served, result]
  clicks,
  doubt           \* history: what calls that met, or were lost, may have spoilt

authVars == <<auth, cookie, userFavorites, calls, clicks, doubt>>

Anonymous == [status |-> "anonymous", user |-> NoUser, favorites |-> {}]
SignedInAs(u, f) == [status |-> "authenticated", user |-> u, favorites |-> f]
FavoritesOf(u) == {s \in Starred : <<u, s>> \in userFavorites}

Call(kind, u, s, remove) ==
  [kind |-> kind, user |-> u, station |-> s, remove |-> remove,
   served |-> FALSE, result |-> [ok |-> FALSE, user |-> NoUser, favorites |-> {}]]
Plain(kind, u) == Call(kind, u, "none", FALSE)

AuthInit ==
  /\ auth = [Anonymous EXCEPT !.status = "loading"]
  /\ cookie \in User \cup {NoUser}
  /\ userFavorites \in {{}, User \X Starred}
  /\ calls = {Plain("me", NoUser)}
  /\ clicks = 0 /\ doubt = {}

-----------------------------------------------------------------------------
(* What the API does of a call: 401 without a session.                     *)
Serve(c) ==
  /\ c \in calls /\ ~c.served
  /\ cookie' = CASE c.kind = "login" -> c.user
                 [] c.kind = "logout" -> NoUser
                 [] OTHER -> cookie
  /\ userFavorites' = IF c.kind = "toggle" /\ cookie # NoUser
               THEN IF c.remove THEN userFavorites \ {<<cookie, c.station>>}
                    ELSE userFavorites \cup {<<cookie, c.station>>}
               ELSE userFavorites
  /\ calls' = (calls \ {c}) \cup
       {[c EXCEPT !.served = TRUE,
                  !.result = [ok |-> c.kind \in {"login", "logout"} \/ cookie # NoUser,
                              user |-> cookie, favorites |-> FavoritesOf(cookie)]]}
  /\ UNCHANGED <<auth, clicks, doubt>>

(* A call starts while rest are under way.  Of two that concern who is     *)
(* signed in the later answer need not be the later truth, nor of two      *)
(* fetches of the favourites or of a fetch and a change of them.           *)
Identity(c) == c.kind \in {"me", "load", "login", "logout"}
Clash(c, d) == {c.kind, d.kind} \in {{"favorites"}, {"favorites", "toggle"}, {"load", "toggle"}}
Meeting(rest, next) ==
  {what \in {"who", "favorites"} : \E c \in next, d \in rest :
     IF what = "who" THEN Identity(c) /\ Identity(d) ELSE Clash(c, d)}
Doubt(what) == doubt' = doubt \cup what

(* The call of the page after call c, if any, and the page after it.       *)
After(c, next, a) ==
  calls' = (calls \ {c}) \cup next /\ auth' = a /\ Doubt(Meeting(calls \ {c}, next))
WithFavorites(f) == IF auth.status = "authenticated" THEN [auth EXCEPT !.favorites = f] ELSE auth

\* A faulty SetAuthenticated: the favourites are not fetched.
SetAuthenticatedOnly(c) == After(c, {}, SignedInAs(c.user, {}))

(* Signed in without favourites at first.                                  *)
SetAuthenticated(c) == After(c, {Plain("favorites", NoUser)}, SignedInAs(c.user, {}))

(* The answer reaches the page.  "me" is refresh and the first load: its   *)
(* user waits for the favourites ("load"), which may fail; whatever else   *)
(* fails in it means anonymous.                                            *)
AuthAnswer(c) ==
  /\ c \in calls /\ c.served
  /\ CASE c.kind = "me" /\ c.result.ok -> After(c, {Plain("load", c.result.user)}, auth)
       [] c.kind = "me" /\ ~c.result.ok -> After(c, {}, Anonymous)
       [] c.kind = "load" ->
            After(c, {}, SignedInAs(c.user, IF c.result.ok THEN c.result.favorites ELSE {}))
       [] c.kind = "favorites" /\ c.result.ok -> After(c, {}, WithFavorites(c.result.favorites))
       [] c.kind = "login" -> SetAuthenticated(c)
       [] c.kind = "logout" -> After(c, {}, Anonymous)
       [] c.kind = "toggle" /\ c.result.ok ->
            After(c, {}, WithFavorites(IF c.remove THEN auth.favorites \ {c.station}
                                       ELSE auth.favorites \cup {c.station}))
       [] c.kind = "save" /\ c.result.ok -> After(c, {Plain("me", NoUser)}, auth)
       [] OTHER -> After(c, {}, auth)
  /\ UNCHANGED <<cookie, userFavorites, clicks>>

(* The call or its answer is lost on the way.                              *)
LoseCall(c) ==
  /\ c \in calls /\ calls' = calls \ {c}
  /\ auth' = CASE c.kind = "me" -> Anonymous
               [] c.kind = "load" -> SignedInAs(c.user, {})
               [] OTHER -> auth
  /\ Doubt(CASE c.kind = "me" -> {"who"}
              [] c.kind \in {"login", "logout"} /\ c.served -> {"who"}
              [] c.kind \in {"load", "favorites"} -> {"favorites"}
              [] c.kind = "toggle" /\ c.served -> {"favorites"}
              [] OTHER -> {})
  /\ UNCHANGED <<cookie, userFavorites, clicks>>

-----------------------------------------------------------------------------
Click(call) ==
  /\ clicks < MaxClicks /\ clicks' = clicks + 1
  /\ calls' = calls \cup {call} /\ Doubt(Meeting(calls, {call}))
  /\ UNCHANGED <<auth, cookie, userFavorites>>

Pending(kind) == \E c \in calls : c.kind = kind

(* The form's button is off while its call is under way.                   *)
LogIn(u) == ~Pending("login") /\ Click(Plain("login", u))

LogOut == auth.status = "authenticated" /\ Click(Plain("logout", NoUser))

(* So is a favourite button; whether it adds or removes is what it shows.  *)
ToggleFavorite(s) ==
  /\ auth.status = "authenticated" /\ \A c \in calls : c.station # s
  /\ Click(Call("toggle", NoUser, s, s \in auth.favorites))

SavePreferences == auth.status = "authenticated" /\ ~Pending("save") /\ Click(Plain("save", NoUser))

AuthStep == \E c \in calls : Serve(c) \/ AuthAnswer(c) \/ LoseCall(c)

AuthNext ==
  \/ AuthStep
  \/ \E u \in User : LogIn(u)
  \/ \E s \in Starred : ToggleFavorite(s)
  \/ LogOut \/ SavePreferences

-----------------------------------------------------------------------------
AuthTypeOK ==
  /\ auth \in [status : {"loading", "anonymous", "authenticated"},
               user : User \cup {NoUser}, favorites : SUBSET Starred]
  /\ cookie \in User \cup {NoUser} /\ userFavorites \subseteq User \X Starred
  /\ \A c \in calls : c.kind \in {"me", "load", "favorites", "login", "logout", "toggle", "save"}
  /\ clicks \in 0..MaxClicks /\ doubt \subseteq {"who", "favorites"}

(* The page shows who is signed in at the API, whatever other calls are    *)
(* under way, and at rest exactly that user's favourites                   *)
(* (docs/frontend.md:192).  The code does not keep to that when two calls  *)
(* about who it is meet, when favourites are fetched while they change or  *)
(* are fetched, or when an answer is lost: these are set apart in doubt.   *)
PageKnowsUser ==
  /\ "who" \notin doubt /\ (\A c \in calls : ~Identity(c)) =>
       /\ auth.user = cookie
       /\ auth.status = IF cookie = NoUser THEN "anonymous" ELSE "authenticated"
  /\ doubt = {} /\ calls = {} => auth.favorites = FavoritesOf(cookie)
=============================================================================
