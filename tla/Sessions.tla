------------------------------ MODULE Sessions ------------------------------
(***************************************************************************)
(* The loopback HTTP server and the browsers that reach it.  A launcher     *)
(* link carries a one-time bootstrap token; the browser exchanges it for a  *)
(* session cookie and a CSRF token, and every later request shows them.  A  *)
(* locked service answers only what needs no open store.                    *)
(*                                                                         *)
(* Every request is a goroutine.  The maps of tokens and sessions are under *)
(* one mutex, which no request holds from one check to the next, and Close  *)
(* does not wait for the requests that run.                                 *)
(***************************************************************************)
EXTENDS Naturals, FiniteSets

CONSTANTS
    Slot,           \* requests at a time
    Token,          \* bootstrap tokens
    FirstToken,     \* the one the server is made with
    Session,        \* session identifiers
    BootstrapTTL, SessionTTL,
    MaxTime,
    NoCredential

ASSUME TokenAssumption == FirstToken \in Token
ASSUME CredentialAssumption == NoCredential \notin Token \cup Session
ASSUME SessionTimes == BootstrapTTL \in Nat /\ SessionTTL \in Nat /\ MaxTime \in Nat

VARIABLES
    now,            \* the clock
    reachable,      \* whether the server has a host name and an origin
    closed,
    operational,    \* whether the workflows are installed
    advertised,     \* whether BootstrapURL still gives the first token
    tokens,         \* when each unspent token expires
    issued,         \* tokens ever made; random ones never repeat
    sessions,       \* when each session expires
    origin,         \* the token each session was made for
    late,           \* sessions that were stored after Close
    held,           \* sessions whose cookie and CSRF token a browser has
    request         \* the request in each slot

serverVars == <<reachable, closed, operational>>
bootstrapVars == <<advertised, tokens, issued>>
grantVars == <<sessions, origin, late, held>>
sessionVars == <<now, serverVars, bootstrapVars, grantVars, request>>

(* Methods, by what the checks tell apart.                                   *)
Methods == {"GET", "HEAD", "PUT"}

(* Paths, by what the handler of the path asks for.                          *)
BrowserRoutes == {"metadata", "always", "edit", "settings"}
CommandRoutes == {"dashboard", "vault", "command"}
OpenRoutes == {"asset", "exchange"}
Routes == BrowserRoutes \cup CommandRoutes \cup OpenRoutes

Stages == {"idle", "gate", "credential", "csrf", "serve", "grant"}

NoRequest == [route |-> "asset", method |-> "GET", has |-> {NoCredential},
              shown |-> NoCredential, csrf |-> NoCredential, stage |-> "idle",
              locked |-> FALSE, due |-> 0]

IsExpiryMap(f, S) == DOMAIN f \subseteq S /\ \A x \in DOMAIN f : f[x] \in Nat

SessionTypeOK ==
    /\ now \in Nat
    /\ reachable \in BOOLEAN /\ closed \in BOOLEAN /\ operational \in BOOLEAN
    /\ advertised \in BOOLEAN
    /\ issued \subseteq Token
    /\ IsExpiryMap(tokens, issued)
    /\ DOMAIN origin \subseteq Session
    /\ \A s \in DOMAIN origin : origin[s] \in issued
    /\ IsExpiryMap(sessions, DOMAIN origin)
    /\ late \subseteq DOMAIN origin
    /\ held \subseteq DOMAIN origin
    /\ request \in [Slot -> [route : Routes, method : Methods,
                             has : SUBSET (Session \cup {NoCredential}),
                             shown : Token \cup Session \cup {NoCredential},
                             csrf : Session \cup {NoCredential},
                             stage : Stages, locked : BOOLEAN, due : Nat]]

EmptyMap == [x \in {} |-> 0]

(* NewServer.                                                                *)
SessionInit ==
    /\ now = 0
    /\ reachable = FALSE /\ closed = FALSE
    /\ operational \in BOOLEAN
    /\ advertised = TRUE
    /\ tokens = [t \in {FirstToken} |-> BootstrapTTL]
    /\ issued = {FirstToken}
    /\ sessions = EmptyMap /\ origin = EmptyMap
    /\ late = {} /\ held = {}
    /\ request = [r \in Slot |-> NoRequest]

-----------------------------------------------------------------------------

Without(f, S) == [x \in DOMAIN f \ S |-> f[x]]
With(f, x, v) == [y \in DOMAIN f \cup {x} |-> IF y = x THEN v ELSE f[y]]

Expired(f) == {x \in DOMAIN f : f[x] <= now}

RequiresOperationalState(route) == route \notin OpenRoutes \cup {"dashboard", "vault", "metadata"}

(* Which requests must show a CSRF token, as the locked gate sees it ...     *)
RequiresBrowserCSRF(route, method) ==
    \/ route = "always"
    \/ route = "edit" /\ method # "GET"
    \/ route = "settings" /\ method \notin {"GET", "HEAD"}

(* ... and as the handlers of the paths do.                                  *)
HandlerRequiresCSRF(route, method) ==
    \/ route = "always"
    \/ route \in {"edit", "settings"} /\ method # "GET"
    \/ route = "metadata" /\ method \notin {"GET", "HEAD"}

NeedsCSRF(q) == IF q.locked THEN RequiresBrowserCSRF(q.route, q.method)
                            ELSE HandlerRequiresCSRF(q.route, q.method)

Move(r, stage) == request' = [request EXCEPT ![r].stage = stage]

(* The answer goes out, and the slot is free for another request.            *)
Answer(r) == request' = [request EXCEPT ![r] = NoRequest]

-----------------------------------------------------------------------------
(* Requests.  A browser has the sessions it was granted, and may mix them    *)
(* up.  Which of those it had, has, a request carries is chosen when the     *)
(* server reads it: nothing depends on it before.                            *)

(* What clients send: a browser reads with GET, an edit of it is a PUT, and  *)
(* a command line process only changes things.  HEAD is told apart from both *)
(* by the settings paths alone.                                              *)
Sent(route) ==
    CASE route \in {"asset", "metadata"} -> {"GET"}
      [] route = "edit" -> {"GET", "PUT"}
      [] route = "settings" -> Methods
      [] OTHER -> {"PUT"}

Arrive(r) ==
    /\ request[r].stage = "idle"
    /\ \E route \in Routes : \E method \in Sent(route) :
          \/ /\ reachable
             /\ request' = [request EXCEPT ![r] =
                    [NoRequest EXCEPT !.route = route, !.method = method, !.stage = "gate",
                        !.has = IF route \in BrowserRoutes THEN held \cup @ ELSE @]]
          \/ /\ ~reachable
             /\ Answer(r)
    /\ UNCHANGED <<now, serverVars, bootstrapVars, grantVars>>

Gate(r) ==
    /\ request[r].stage = "gate"
    /\ request' = [request EXCEPT
          ![r].locked = RequiresOperationalState(request[r].route) /\ ~operational,
          ![r].stage = IF request[r].route \in OpenRoutes THEN "serve" ELSE "credential"]
    /\ UNCHANGED <<now, serverVars, bootstrapVars, grantVars>>

(* A command route compares the command token; the process that asks has it. *)
AuthorizeCommand(r) ==
    /\ request[r].stage = "credential"
    /\ request[r].route \in CommandRoutes
    /\ Move(r, "serve")
    /\ UNCHANGED <<now, serverVars, bootstrapVars, grantVars>>

(* A browser route looks up the session of the cookie, and forgets it when   *)
(* it has expired.                                                           *)
Authorize(r) ==
    /\ request[r].stage = "credential"
    /\ request[r].route \in BrowserRoutes
    /\ \E s \in request[r].has :
          \/ /\ s \in DOMAIN sessions \ Expired(sessions)
             /\ request' = [request EXCEPT ![r].stage = "csrf", ![r].shown = s]
             /\ UNCHANGED sessions
          \/ /\ s \notin DOMAIN sessions \ Expired(sessions)
             /\ sessions' = Without(sessions, {s})
             /\ Answer(r)
    /\ UNCHANGED <<now, serverVars, bootstrapVars, origin, late, held>>

(* The session of the CSRF token is looked up anew: it may be gone by then.  *)
CheckCSRF(r) ==
    LET q == request[r]
    IN  /\ q.stage = "csrf"
        /\ \E c \in q.has :
              LET valid == q.shown \in DOMAIN sessions /\ c = q.shown
              IN  IF NeedsCSRF(q) /\ ~valid THEN Answer(r)
                  ELSE request' = [request EXCEPT ![r].stage = "serve", ![r].csrf = c]
        /\ UNCHANGED <<now, serverVars, bootstrapVars, grantVars>>

(* The rest of a request that leaves the state of the server alone: it is    *)
(* answered, or told that the service is locked.                             *)
Handle(r) ==
    /\ request[r].stage = "serve"
    /\ request[r].route \notin {"exchange", "dashboard", "vault"}
    /\ Answer(r)
    /\ UNCHANGED <<now, serverVars, bootstrapVars, grantVars>>

(* The command line asks for another launcher link; drawing the token may    *)
(* fail.                                                                     *)
CommandDashboard(r) ==
    /\ request[r].stage = "serve"
    /\ request[r].route = "dashboard"
    /\ \/ \E t \in Token \ issued :
             tokens' = With(tokens, t, now + BootstrapTTL) /\ issued' = issued \cup {t}
       \/ UNCHANGED <<tokens, issued>>
    /\ Answer(r)
    /\ UNCHANGED <<now, serverVars, advertised, grantVars>>

(* The command line unlocks the service, or fails to.                        *)
CommandVault(r) ==
    /\ request[r].stage = "serve"
    /\ request[r].route = "vault"
    /\ operational' \in {operational, TRUE}
    /\ Answer(r)
    /\ UNCHANGED <<now, reachable, closed, bootstrapVars, grantVars>>

(* MUTANT: a token is looked up first, to be deleted with the session. *)
TakeLater(r) ==
    /\ request[r].stage = "serve"
    /\ request[r].route = "exchange"
    /\ \E t \in issued :
          LET live == Without(tokens, Expired(tokens))
          IN  /\ advertised' = (advertised /\ FirstToken \in DOMAIN live \ {t})
              /\ tokens' = live
              /\ IF t \in DOMAIN live
                 THEN request' = [request EXCEPT ![r].stage = "grant", ![r].shown = t,
                                                 ![r].due = now + SessionTTL]
                 ELSE Answer(r)
    /\ UNCHANGED <<now, serverVars, issued, grantVars>>

(* An exchange drops expired tokens and spends its own in one critical       *)
(* section ...                                                               *)
TakeToken(r) ==
    /\ request[r].stage = "serve"
    /\ request[r].route = "exchange"
    /\ \E t \in issued :
          LET live == Without(tokens, Expired(tokens))
          IN  /\ advertised' = (advertised /\ FirstToken \in DOMAIN live \ {t})
              /\ tokens' = Without(live, {t})
              /\ IF t \in DOMAIN live
                 THEN request' = [request EXCEPT ![r].stage = "grant", ![r].shown = t,
                                                 ![r].due = now + SessionTTL]
                 ELSE Answer(r)
    /\ UNCHANGED <<now, serverVars, issued, grantVars>>

(* ... and stores the new session in another one, after it has drawn its     *)
(* random values, unless it cannot.                                          *)
GrantSession(r) ==
    /\ request[r].stage = "grant"
    /\ \E s \in Session \ DOMAIN origin :
          /\ sessions' = With(sessions, s, request[r].due)
          /\ origin' = With(origin, s, request[r].shown)
          /\ late' = IF closed THEN late \cup {s} ELSE late
          /\ held' = held \cup {s}
    /\ Answer(r)
    /\ UNCHANGED <<now, serverVars, bootstrapVars>>

GrantFails(r) ==
    /\ request[r].stage = "grant"
    /\ Answer(r)
    /\ UNCHANGED <<now, serverVars, bootstrapVars, grantVars>>

-----------------------------------------------------------------------------

(* Listen: a closed server gets no host name and no origin again.            *)
AttachListener ==
    /\ ~closed
    /\ reachable' = TRUE
    /\ UNCHANGED <<now, closed, operational, bootstrapVars, grantVars, request>>

Close ==
    /\ ~closed
    /\ closed' = TRUE
    /\ reachable' = FALSE
    /\ sessions' = EmptyMap
    /\ tokens' = EmptyMap
    /\ advertised' = FALSE
    /\ UNCHANGED <<now, operational, issued, origin, late, held, request>>

SessionTick ==
    /\ now < MaxTime
    /\ now' = now + 1
    /\ UNCHANGED <<serverVars, bootstrapVars, grantVars, request>>

Serving(r) ==
    \/ Arrive(r) \/ Gate(r) \/ AuthorizeCommand(r) \/ Authorize(r)
    \/ CheckCSRF(r) \/ Handle(r) \/ CommandDashboard(r) \/ CommandVault(r)
    \/ TakeToken(r) \/ GrantSession(r) \/ GrantFails(r)

SessionNext == (\E r \in Slot : Serving(r)) \/ AttachListener \/ Close \/ SessionTick

SessionSpec == SessionInit /\ [][SessionNext]_sessionVars

-----------------------------------------------------------------------------

(* A launcher link opens one session, however many requests exchange it at   *)
(* the same time.  server.go:1156.                                           *)
OneSessionPerToken ==
    \A s, t \in DOMAIN origin : origin[s] = origin[t] => s = t

(* A request that was inside the exchange when the server closed stores a    *)
(* session in the closed server.  It opens nothing: no request gets past the *)
(* host check after Close, and what had passed it before holds older         *)
(* sessions.  server.go:453.                                                 *)
LateSessionUseless ==
    \A r \in Slot :
        request[r].route \in BrowserRoutes /\ request[r].stage \in {"csrf", "serve"}
            => request[r].shown \notin late

(* A request of a browser that may change something is carried out only with *)
(* both tokens of one session, also when sessions expire and are forgotten   *)
(* between its two checks.  server.go:1242.                                  *)
ChangeShowsBothTokens ==
    \A r \in Slot :
        LET q == request[r]
        IN  q.stage = "serve" /\ q.route \in {"always", "edit", "settings"} /\ q.method = "PUT"
                => q.shown \in DOMAIN origin /\ q.csrf = q.shown

(* A locked service tells that it is locked only to whom the unlocked one    *)
(* would have served: the two lists of paths that ask for a CSRF token agree *)
(* (but for HEAD, which the settings paths do not serve).                    *)
(* server.go:1397.                                                           *)
LockedOnlyToServed ==
    \A r \in Slot :
        LET q == request[r]
        IN  q.stage = "serve" /\ q.locked /\ q.route \in BrowserRoutes /\ q.method # "HEAD"
                => /\ q.shown \in DOMAIN origin
                   /\ HandlerRequiresCSRF(q.route, q.method) => q.csrf = q.shown

(* While the server advertises its launcher link the link can be used,       *)
(* unless its time is over.  server.go:498.                                  *)
AdvertisedIsUsable == advertised => FirstToken \in DOMAIN tokens

(* What the server grants: one session for a token, no use of a session that *)
(* is stored late, no change without both tokens of one session, the state   *)
(* of a locked service to nobody else, and a launcher link that works.       *)
(* server.go:1156, :1193, :1242, :1397, :498.                                *)
SessionsGuarded ==
    /\ SessionTypeOK /\ OneSessionPerToken /\ LateSessionUseless
    /\ ChangeShowsBothTokens /\ LockedOnlyToServed /\ AdvertisedIsUsable
=============================================================================
