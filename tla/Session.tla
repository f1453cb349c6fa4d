------------------------------ MODULE Session -------------------------------
(***************************************************************************)
(* The session of one account: the token and refresh token in its row of   *)
(* MySQL, the token that Redis caches under account:id, and the lookup     *)
(* keys refresh:token.  Requests run concurrently in the API processes;    *)
(* every statement and every Redis command of a request is one step.  A    *)
(* protected request (read, Rename, Logout) goes through the JWT           *)
(* middleware first, which writes to Redis itself.                         *)
(*                                                                         *)
(* Tokens are numbers in order of issue, 0 for none: a JWT names the       *)
(* second it was issued in, and the model takes two issues to differ.      *)
(* Passwords are right, JWTs have not expired (wrong and expired ones are  *)
(* refused before anything is read).  The key account:id:refresh is        *)
(* written and deleted but never read, and is left out.                    *)
(***************************************************************************)
EXTENDS Integers, FiniteSets

CONSTANTS
    Requests,       \* bound: requests, each served once
    MaxConcurrent,  \* bound: requests served at the same time
    MaxFaults,      \* bound: Redis commands and statements that fail
    MaxExpiries     \* bound: Redis keys whose time to live runs out

ASSUME SessionConstants ==
    /\ IsFiniteSet(Requests)
    /\ MaxConcurrent \in Nat \ {0} /\ MaxFaults \in Nat /\ MaxExpiries \in Nat

VARIABLES
    dbToken,    \* accounts.token
    dbRefresh,  \* accounts.refresh_token
    cToken,     \* account:id in Redis
    lookups,    \* refresh tokens with a key refresh:token in Redis
    req,        \* what each request is and where it is
    issued,     \* tokens issued so far
    tokens,     \* tokens that clients have been given
    refreshes,  \* refresh tokens that clients have been given
    everSaved,  \* history: tokens that have been in the row of MySQL
    accepted,   \* history: tokens that the middleware has let through
    late,       \* history: refresh requests that began with a superseded token
    overlapped, \* history: have two requests run at the same time
    faults,     \* history: faults taken so far
    expiries    \* history: keys that ran out

rowVars   == <<dbToken, dbRefresh>>
redisVars == <<cToken, lookups>>
giveVars  == <<issued, tokens, refreshes>>
histVars  == <<everSaved, accepted, late, overlapped, faults, expiries>>
sessionVars == <<rowVars, redisVars, req, giveVars, histVars>>

Protected == {"read", "Rename", "Logout"}
Kinds  == {"Login", "RefreshToken"} \cup Protected
Stages == {"new", "auth", "authDB", "authCache",          \* the middleware
           "lookup", "findByID", "findByRefreshToken",    \* RefreshToken
           "save", "cacheToken", "cacheLookup",           \* issuing a token
           "find", "deleteToken", "deleteLookup", "clear", \* Logout
           "done", "refused"}
Idle == [kind |-> "read", stage |-> "new", token |-> 0, new |-> 0, refresh |-> 0,
         viaCache |-> FALSE]

SessionTypeOK ==
    /\ dbToken \in 0 .. issued /\ dbRefresh \in 0 .. issued /\ cToken \in 0 .. issued
    /\ lookups \subseteq 1 .. issued
    /\ req \in [Requests -> [kind : Kinds, stage : Stages, token : 0 .. issued,
                             new : 0 .. issued, refresh : 0 .. issued, viaCache : BOOLEAN]]
    /\ issued \in Nat
    /\ tokens \subseteq 1 .. issued /\ refreshes \subseteq 1 .. issued
    /\ everSaved \subseteq 1 .. issued /\ accepted \subseteq 1 .. issued
    /\ late \subseteq Requests /\ overlapped \in BOOLEAN
    /\ faults \in Nat /\ expiries \in Nat

SessionInit ==
    /\ dbToken = 0 /\ dbRefresh = 0
    /\ cToken = 0 /\ lookups = {}
    /\ req = [r \in Requests |-> Idle]
    /\ issued = 0 /\ tokens = {} /\ refreshes = {}
    /\ everSaved = {} /\ accepted = {} /\ late = {} /\ overlapped = FALSE
    /\ faults = 0 /\ expiries = 0

Ended == {"done", "refused"}
Active(r) == req[r].stage \notin {"new"} \cup Ended
At(r, stage) == req[r].stage = stage
Goto(r, stage) == req' = [req EXCEPT ![r].stage = stage]
Is(r, kind) == req[r].kind = kind

Fault == faults < MaxFaults /\ faults' = faults + 1
NoFault == UNCHANGED faults

\* A request arrives; it runs beside those that are on their way.
Arrives(r, request) ==
    /\ At(r, "new")
    /\ Cardinality({s \in Requests : Active(s)}) < MaxConcurrent
    /\ req' = [req EXCEPT ![r] = request]
    /\ overlapped' = (overlapped \/ \E s \in Requests : Active(s))

-----------------------------------------------------------------------------
(* The JWT middleware.                                                     *)

Authenticate(r, kind, t) ==
    /\ Arrives(r, [Idle EXCEPT !.kind = kind, !.stage = "auth", !.token = t])
    /\ UNCHANGED <<rowVars, redisVars, giveVars, everSaved, accepted, late, faults, expiries>>

\* c.Next: a read changes nothing, the others have a token to issue or a
\* session to end.
AfterAuth(kind) ==
    CASE kind = "read" -> "done" [] kind = "Rename" -> "save" [] kind = "Logout" -> "find"

\* The token is accepted and the handler starts.  Rename generates its token
\* before its first statement.
Passes(r) ==
    LET fresh == IF Is(r, "Rename") THEN issued + 1 ELSE 0 IN
    /\ req' = [req EXCEPT ![r].stage = AfterAuth(req[r].kind), ![r].new = fresh]
    /\ issued' = IF Is(r, "Rename") THEN fresh ELSE issued
    /\ accepted' = accepted \cup {req[r].token}

\* GET account:id.  An error is a miss.
AuthCached(r) ==
    /\ At(r, "auth")
    /\ \/ cToken = req[r].token /\ Passes(r) /\ NoFault
       \/ cToken \notin {0, req[r].token} /\ Goto(r, "refused") /\ UNCHANGED <<issued, accepted>> /\ NoFault
       \/ cToken = 0 /\ Goto(r, "authDB") /\ UNCHANGED <<issued, accepted>> /\ NoFault
       \/ Fault /\ Goto(r, "authDB") /\ UNCHANGED <<issued, accepted>>
    /\ UNCHANGED <<rowVars, redisVars, tokens, refreshes, everSaved, late, overlapped, expiries>>

\* The row decides; a query that fails counts as a revoked token.
AuthDB(r) ==
    /\ At(r, "authDB")
    /\ \/ dbToken = req[r].token /\ Goto(r, "authCache") /\ NoFault
       \/ dbToken # req[r].token /\ Goto(r, "refused") /\ NoFault
       \/ Fault /\ Goto(r, "refused")
    /\ UNCHANGED <<rowVars, redisVars, giveVars, everSaved, accepted, late, overlapped, expiries>>

\* The token goes into Redis, as it was read.
AuthCache(r) ==
    /\ At(r, "authCache")
    /\ \/ cToken' = req[r].token /\ NoFault
       \/ Fault /\ UNCHANGED cToken
    /\ Passes(r)
    /\ UNCHANGED <<rowVars, lookups, tokens, refreshes, everSaved, late, overlapped, expiries>>

-----------------------------------------------------------------------------
(* Login and RefreshToken up to the issue.                                 *)

\* The password is right: token and refresh token are generated.
Login(r) ==
    /\ Arrives(r, [Idle EXCEPT !.kind = "Login", !.stage = "save",
                               !.new = issued + 1, !.refresh = issued + 1])
    /\ issued' = issued + 1
    /\ UNCHANGED <<rowVars, redisVars, tokens, refreshes, everSaved, accepted, late, faults, expiries>>

RefreshToken(r, t) ==
    /\ Arrives(r, [Idle EXCEPT !.kind = "RefreshToken", !.stage = "lookup", !.refresh = t])
    /\ late' = IF t = dbRefresh THEN late ELSE late \cup {r}
    /\ UNCHANGED <<rowVars, redisVars, giveVars, everSaved, accepted, faults, expiries>>

\* GET refresh:token.
Lookup(r) ==
    /\ At(r, "lookup")
    /\ \/ req[r].refresh \in lookups /\ Goto(r, "findByID") /\ NoFault
       \/ req[r].refresh \notin lookups /\ Goto(r, "findByRefreshToken") /\ NoFault
       \/ Fault /\ Goto(r, "findByRefreshToken")
    /\ UNCHANGED <<rowVars, redisVars, giveVars, everSaved, accepted, late, overlapped, expiries>>

\* The row is there and a new token is generated for it.
Continues(r, cached) ==
    /\ req' = [req EXCEPT ![r].stage = "save", ![r].new = issued + 1, ![r].viaCache = cached]
    /\ issued' = issued + 1

\* Mutant of FindByID: the lookup key is believed.
BugTrustsLookup(r) ==
    /\ At(r, "findByID")
    /\ Continues(r, TRUE)
    /\ UNCHANGED <<rowVars, redisVars, tokens, refreshes, everSaved, accepted, late, overlapped, faults, expiries>>

\* The lookup key names the account; its row must still have the refresh
\* token.  If not, or if the query fails, the row is looked for.
FindByID(r) ==
    /\ At(r, "findByID")
    /\ \/ dbRefresh = req[r].refresh /\ Continues(r, TRUE) /\ NoFault
       \/ dbRefresh # req[r].refresh /\ Goto(r, "findByRefreshToken") /\ UNCHANGED issued /\ NoFault
       \/ Fault /\ Goto(r, "findByRefreshToken") /\ UNCHANGED issued
    /\ UNCHANGED <<rowVars, redisVars, tokens, refreshes, everSaved, accepted, late, overlapped, expiries>>

FindByRefreshToken(r) ==
    /\ At(r, "findByRefreshToken")
    /\ \/ dbRefresh = req[r].refresh /\ Continues(r, FALSE) /\ NoFault
       \/ dbRefresh # req[r].refresh /\ Goto(r, "refused") /\ UNCHANGED issued /\ NoFault
       \/ Fault /\ Goto(r, "refused") /\ UNCHANGED issued
    /\ UNCHANGED <<rowVars, redisVars, tokens, refreshes, everSaved, accepted, late, overlapped, expiries>>

-----------------------------------------------------------------------------
(* A new token: MySQL first, then Redis, then the client.                  *)

\* The response; Login's has the refresh token too.
Respond(r) ==
    /\ tokens' = tokens \cup {req[r].new}
    /\ refreshes' = IF Is(r, "Login") THEN refreshes \cup {req[r].refresh} ELSE refreshes

\* Mutant of AfterSave: Rename leaves the cache alone.
BugRenameUncached(r) ==
    IF Is(r, "Login") \/ req[r].viaCache THEN "cacheToken" ELSE "done"

\* RefreshToken writes the cache only where it found its lookup key there.
AfterSave(r) == IF Is(r, "RefreshToken") /\ ~req[r].viaCache THEN "done" ELSE "cacheToken"

\* UpdateTokenAndRefreshToken, UpdateToken, RenameWithToken.
Save(r) ==
    /\ At(r, "save")
    /\ dbToken' = req[r].new
    /\ dbRefresh' = IF Is(r, "Login") THEN req[r].refresh ELSE dbRefresh
    /\ everSaved' = everSaved \cup {req[r].new}
    /\ Goto(r, AfterSave(r))
    /\ IF AfterSave(r) = "done" THEN Respond(r) ELSE UNCHANGED <<tokens, refreshes>>
    /\ UNCHANGED <<redisVars, issued, accepted, late, overlapped, faults, expiries>>

\* Mutant of SaveFails: the error is logged only.
BugSaveErrorLogged(r) ==
    /\ At(r, "save")
    /\ Fault
    /\ Goto(r, AfterSave(r))
    /\ UNCHANGED <<rowVars, redisVars, giveVars, everSaved, accepted, late, overlapped, expiries>>

\* The statement fails, or the new name is taken.
SaveFails(r) ==
    /\ At(r, "save")
    /\ Fault
    /\ Goto(r, "refused")
    /\ UNCHANGED <<rowVars, redisVars, giveVars, everSaved, accepted, late, overlapped, expiries>>

\* SET account:id.  Login goes on to the lookup key.
CacheToken(r) ==
    /\ At(r, "cacheToken")
    /\ cToken' = req[r].new
    /\ IF Is(r, "Login")
       THEN Goto(r, "cacheLookup") /\ UNCHANGED <<tokens, refreshes>>
       ELSE Goto(r, "done") /\ Respond(r)
    /\ UNCHANGED <<rowVars, lookups, issued, everSaved, accepted, late, overlapped, faults, expiries>>

\* Login and Rename log the failure; RefreshToken returns an error, with its
\* token already saved.
CacheTokenFails(r) ==
    /\ At(r, "cacheToken")
    /\ Fault
    /\ \/ Is(r, "Login") /\ Goto(r, "cacheLookup") /\ UNCHANGED <<tokens, refreshes>>
       \/ Is(r, "Rename") /\ Goto(r, "done") /\ Respond(r)
       \/ Is(r, "RefreshToken") /\ Goto(r, "refused") /\ UNCHANGED <<tokens, refreshes>>
    /\ UNCHANGED <<rowVars, redisVars, issued, everSaved, accepted, late, overlapped, expiries>>

\* SET refresh:token; the keys of earlier refresh tokens stay.
CacheLookup(r) ==
    /\ At(r, "cacheLookup")
    /\ \/ lookups' = lookups \cup {req[r].refresh} /\ NoFault
       \/ Fault /\ UNCHANGED lookups
    /\ Goto(r, "done") /\ Respond(r)
    /\ UNCHANGED <<rowVars, cToken, issued, everSaved, accepted, late, overlapped, expiries>>

-----------------------------------------------------------------------------
(* Logout: Redis first, then MySQL.                                        *)

Find(r) ==
    /\ At(r, "find")
    /\ \/ dbToken = 0 /\ Goto(r, "done") /\ NoFault
       \/ /\ dbToken # 0 /\ NoFault
          /\ req' = [req EXCEPT ![r].stage = "deleteToken", ![r].refresh = dbRefresh]
       \/ Fault /\ Goto(r, "refused")
    /\ UNCHANGED <<rowVars, redisVars, giveVars, everSaved, accepted, late, overlapped, expiries>>

\* DEL account:id; a failure is logged.
DeleteToken(r) ==
    /\ At(r, "deleteToken")
    /\ \/ cToken' = 0 /\ NoFault
       \/ Fault /\ UNCHANGED cToken
    /\ Goto(r, IF req[r].refresh = 0 THEN "clear" ELSE "deleteLookup")
    /\ UNCHANGED <<rowVars, lookups, giveVars, everSaved, accepted, late, overlapped, expiries>>

\* DEL refresh:token, of the token that was read.
DeleteLookup(r) ==
    /\ At(r, "deleteLookup")
    /\ \/ lookups' = lookups \ {req[r].refresh} /\ NoFault
       \/ Fault /\ UNCHANGED lookups
    /\ Goto(r, "clear")
    /\ UNCHANGED <<rowVars, cToken, giveVars, everSaved, accepted, late, overlapped, expiries>>

\* DeleteTokenAndRefreshToken, whatever the row holds by now.
Clear(r) ==
    /\ At(r, "clear")
    /\ \/ dbToken' = 0 /\ dbRefresh' = 0 /\ Goto(r, "done") /\ NoFault
       \/ Fault /\ Goto(r, "refused") /\ UNCHANGED rowVars
    /\ UNCHANGED <<redisVars, giveVars, everSaved, accepted, late, overlapped, expiries>>

-----------------------------------------------------------------------------

Expiry == expiries < MaxExpiries /\ expiries' = expiries + 1

TokenExpires ==
    /\ cToken # 0 /\ Expiry
    /\ cToken' = 0
    /\ UNCHANGED <<rowVars, lookups, req, giveVars, everSaved, accepted, late, overlapped, faults>>

LookupExpires(t) ==
    /\ t \in lookups /\ Expiry
    /\ lookups' = lookups \ {t}
    /\ UNCHANGED <<rowVars, cToken, req, giveVars, everSaved, accepted, late, overlapped, faults>>

Arrival(r) ==
    \/ Login(r)
    \/ \E t \in refreshes : RefreshToken(r, t)
    \/ \E t \in tokens, kind \in Protected : Authenticate(r, kind, t)

Step(r) ==
    \/ AuthCached(r) \/ AuthDB(r) \/ AuthCache(r)
    \/ Lookup(r) \/ FindByID(r) \/ FindByRefreshToken(r)
    \/ Save(r) \/ SaveFails(r) \/ CacheToken(r) \/ CacheTokenFails(r) \/ CacheLookup(r)
    \/ Find(r) \/ DeleteToken(r) \/ DeleteLookup(r) \/ Clear(r)

SessionNext ==
    \/ \E r \in Requests : Arrival(r) \/ Step(r)
    \/ TokenExpires \/ \E t \in lookups : LookupExpires(t)

SessionSpec == SessionInit /\ [][SessionNext]_sessionVars

-----------------------------------------------------------------------------
(* Properties.                                                             *)

AtRest == \A r \in Requests : ~Active(r)

\* The middleware accepts only tokens that have been in the row of MySQL: no
\* failed statement, late write of the cache or degraded read lets a token in
\* that was never saved.
AcceptedWasSaved == accepted \subseteq everSaved

\* A refresh that begins after its refresh token was superseded or deleted is
\* never given a token, although the lookup keys of superseded tokens stay in
\* Redis and Login, Logout and other refreshes run beside it.
LateRefreshRefused ==
    \A r \in late : req[r].stage \in {"lookup", "findByID", "findByRefreshToken", "refused"}

\* One request at a time and with Redis and MySQL at work, what Redis caches
\* is what MySQL has, and Logout has left neither token behind.
SequentialCoherence ==
    ~overlapped /\ faults = 0 /\ expiries = 0 /\ AtRest =>
        cToken \in {0, dbToken} /\ (dbRefresh = 0 => dbToken = 0)

=============================================================================
