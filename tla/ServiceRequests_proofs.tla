------------------------ MODULE ServiceRequests_proofs ------------------------
(***************************************************************************)
(* What the requests of the service may do, proved for any number of       *)
(* browsers and tokens, of requests at a time, of profiles, packs and      *)
(* versions, and on each of the three platforms: the sessions and their    *)
(* tokens, the enrollment with the service manager, the configuration      *)
(* packs, their projection and import, and the support bundles.  Each part *)
(* has an invariant that says what a request or a command knows by the     *)
(* step it stands at, and every step of the part keeps it.                 *)
(***************************************************************************)
EXTENDS Sessions, Enrollment, ConfigurationPacks, ConfigurationImport, Projection, Diagnostics,
        FiniteSetTheorems, TLAPS

-----------------------------------------------------------------------------
(* Sessions.                                                                 *)

(* Closing is final, and what comes late comes from a closed server.         *)
ClosedForGood == (closed => ~reachable) /\ (late # {} => closed)

(* What a request holds and has been shown, by the stage it is at.           *)
Pending(q) ==
    /\ q.has \subseteq held \cup {NoCredential} /\ q.has \cap late = {}
    /\ q.stage = "credential" => q.route \notin OpenRoutes
    /\ q.stage = "csrf" => q.route \in BrowserRoutes
    /\ q.stage \in {"csrf", "serve"} /\ q.route \in BrowserRoutes =>
          q.shown \in q.has \cap DOMAIN origin
    /\ q.stage = "grant" => q.shown \in issued \ DOMAIN tokens
    /\ q.locked => RequiresOperationalState(q.route)
    /\ q.route = "metadata" => q.method = "GET"

(* All requests that are being served.                                       *)
RequestsKnown == \A r \in Slot : Pending(request[r])

Granting(r) == request[r].stage = "grant"

(* A token that was exchanged, or is being exchanged, is not there for       *)
(* another request.                                                          *)
TokensSpent ==
    /\ \A s \in DOMAIN origin : origin[s] \notin DOMAIN tokens
    /\ \A r \in Slot : Granting(r) => \A s \in DOMAIN origin : origin[s] # request[r].shown
    /\ \A q, r \in Slot :
          Granting(q) /\ Granting(r) /\ request[q].shown = request[r].shown => q = r

(* The invariant of the sessions.                                            *)
SessionInv == SessionsGuarded /\ ClosedForGood /\ RequestsKnown /\ TokensSpent

(* The requests, as a set of records.                                        *)
Requests ==
    [route : Routes, method : Methods, has : SUBSET (Session \cup {NoCredential}),
     shown : Token \cup Session \cup {NoCredential}, csrf : Session \cup {NoCredential},
     stage : Stages, locked : BOOLEAN, due : Nat]

(* The type invariant speaks of these records.                               *)
LEMMA RequestsTyped ==
  ASSUME SessionTypeOK PROVE request \in [Slot -> Requests]
BY DEF SessionTypeOK, Requests

(* Writing one request leaves the others.                                    *)
LEMMA RequestTypes ==
  ASSUME SessionTypeOK, NEW r \in Slot, NEW q \in Requests,
         request' = [request EXCEPT ![r] = q]
  PROVE  /\ request' \in [Slot -> Requests]
         /\ request'[r] = q
         /\ \A p \in Slot : p # r => request'[p] = request[p]
BY RequestsTyped, Zenon

(* A slot without a request is typed.                                        *)
LEMMA NoRequestTyped == NoRequest \in Requests
BY SMT DEF NoRequest, Requests, Routes, Methods, Stages, BrowserRoutes, CommandRoutes,
   OpenRoutes

(* The steps of a request write it field by field.                           *)
LEMMA ArrivalTyped ==
  ASSUME NEW q \in Requests, NEW stage \in Stages, NEW route \in Routes, NEW method \in Methods,
         NEW has \in SUBSET (Session \cup {NoCredential})
  PROVE  [q EXCEPT !.route = route, !.method = method, !.stage = stage, !.has = has] \in Requests
BY Zenon DEF Requests

LEMMA CookieTyped ==
  ASSUME NEW q \in Requests, NEW stage \in Stages,
         NEW shown \in Token \cup Session \cup {NoCredential}
  PROVE  [q EXCEPT !.stage = stage, !.shown = shown] \in Requests
BY Zenon DEF Requests

LEMMA CheckedTyped ==
  ASSUME NEW q \in Requests, NEW stage \in Stages, NEW csrf \in Session \cup {NoCredential}
  PROVE  [q EXCEPT !.stage = stage, !.csrf = csrf] \in Requests
BY Zenon DEF Requests

LEMMA ExchangeTyped ==
  ASSUME NEW q \in Requests, NEW stage \in Stages,
         NEW shown \in Token \cup Session \cup {NoCredential}, NEW due \in Nat
  PROVE  [q EXCEPT !.stage = stage, !.shown = shown, !.due = due] \in Requests
BY Zenon DEF Requests

(* A request that arrives carries what its browser holds by then, and comes   *)
(* in only while the server can be reached.                                   *)
LEMMA ArriveMakes ==
  ASSUME SessionTypeOK, NEW r \in Slot, Arrive(r)
  PROVE  \E q \in Requests :
            /\ request' = [request EXCEPT ![r] = q]
            /\ q = NoRequest \/ (reachable /\ q.stage = "gate")
            /\ ~q.locked
            /\ q.has \subseteq held \cup {NoCredential}
            /\ q.route = "metadata" => q.method = "GET"
<1>1. CASE Answer(r)
  <2>1. /\ ~NoRequest.locked /\ NoRequest.has = {NoCredential}
        /\ NoRequest.route # "metadata"
    BY SMT DEF NoRequest
  <2>. QED BY <1>1, <2>1, NoRequestTyped, Zenon DEF Answer
<1>2. ASSUME NEW route \in Routes, NEW method \in Sent(route), reachable,
             NEW has \in SUBSET (held \cup {NoCredential}),
             request' = [request EXCEPT ![r] =
                [NoRequest EXCEPT !.route = route, !.method = method, !.stage = "gate",
                                  !.has = has]]
      PROVE  \E q \in Requests :
                /\ request' = [request EXCEPT ![r] = q]
                /\ q = NoRequest \/ (reachable /\ q.stage = "gate")
                /\ ~q.locked
                /\ q.has \subseteq held \cup {NoCredential}
                /\ q.route = "metadata" => q.method = "GET"
  <2> DEFINE q == [NoRequest EXCEPT !.route = route, !.method = method, !.stage = "gate",
                                    !.has = has]
  <2>1. method \in Methods /\ (route = "metadata" => method = "GET")
    BY <1>2, SMT DEF Sent, Methods, Routes, BrowserRoutes, CommandRoutes, OpenRoutes
  <2>2. has \in SUBSET (Session \cup {NoCredential}) /\ "gate" \in Stages
    BY SMT DEF SessionTypeOK, Stages
  <2>3. q \in Requests
    BY <2>1, <2>2, NoRequestTyped, ArrivalTyped, Zenon
  <2>4. q.stage = "gate" /\ ~q.locked /\ q.has = has /\ q.route = route /\ q.method = method
    BY SMT DEF NoRequest
  <2>5. request' = [request EXCEPT ![r] = q]
    BY <1>2
  <2>. HIDE DEF q
  <2>. QED BY <1>2, <2>1, <2>3, <2>4, <2>5, Zenon
<1>3. PICK route \in Routes, method \in UNION {Sent(p) : p \in Routes} :
         \/ /\ reachable
            /\ method \in Sent(route)
            /\ request' = [request EXCEPT ![r] =
                  [NoRequest EXCEPT !.route = route, !.method = method, !.stage = "gate",
                     !.has = IF route \in BrowserRoutes THEN held \cup @ ELSE @]]
         \/ Answer(r)
  BY DEF Arrive
<1>4. CASE ~Answer(r)
  <2> DEFINE has == IF route \in BrowserRoutes THEN held \cup NoRequest.has ELSE NoRequest.has
  <2>1. has \in SUBSET (held \cup {NoCredential})
    BY SMT DEF NoRequest
  <2>2. request' = [request EXCEPT ![r] =
                [NoRequest EXCEPT !.route = route, !.method = method, !.stage = "gate",
                                  !.has = has]]
    BY <1>3, <1>4, SMT DEF NoRequest
  <2>. HIDE DEF has
  <2>. QED BY <1>2, <1>3, <1>4, <2>1, <2>2
<1>. QED BY <1>1, <1>4

(* What the check of the session writes is a request.                        *)
LEMMA AuthorizeTyped ==
  ASSUME SessionTypeOK, NEW r \in Slot, Authorize(r)
  PROVE  \E q \in Requests : request' = [request EXCEPT ![r] = q]
<1>1. ASSUME NEW s \in request[r].has,
             request' = [request EXCEPT ![r].stage = "csrf", ![r].shown = s]
      PROVE  \E q \in Requests : request' = [request EXCEPT ![r] = q]
  <2>1. /\ request[r] \in Requests /\ s \in Token \cup Session \cup {NoCredential}
        /\ "csrf" \in Stages
    BY RequestsTyped, SMT DEF Requests, Stages
  <2>2. [request[r] EXCEPT !.stage = "csrf", !.shown = s] \in Requests
    BY <2>1, CookieTyped, Zenon
  <2>. QED BY <1>1, <2>2, Zenon
<1>. QED BY <1>1, NoRequestTyped, SMT DEF Authorize, Answer

(* What the check of the CSRF token writes is a request.                     *)
LEMMA CheckTyped ==
  ASSUME SessionTypeOK, NEW r \in Slot, CheckCSRF(r)
  PROVE  \E q \in Requests : request' = [request EXCEPT ![r] = q]
<1>1. ASSUME NEW c \in request[r].has,
             request' = [request EXCEPT ![r].stage = "serve", ![r].csrf = c]
      PROVE  \E q \in Requests : request' = [request EXCEPT ![r] = q]
  <2>1. request[r] \in Requests /\ c \in Session \cup {NoCredential} /\ "serve" \in Stages
    BY RequestsTyped, SMT DEF Requests, Stages
  <2>2. [request[r] EXCEPT !.stage = "serve", !.csrf = c] \in Requests
    BY <2>1, CheckedTyped, Zenon
  <2>. QED BY <1>1, <2>2, Zenon
<1>. QED BY <1>1, NoRequestTyped, SMT DEF CheckCSRF, Answer

(* What taking a token writes is a request.                                  *)
LEMMA TakeTyped ==
  ASSUME SessionTypeOK, SessionTimes, NEW r \in Slot, TakeToken(r)
  PROVE  \E q \in Requests : request' = [request EXCEPT ![r] = q]
<1>1. ASSUME NEW t \in issued,
             request' = [request EXCEPT ![r].stage = "grant", ![r].shown = t,
                                        ![r].due = now + SessionTTL]
      PROVE  \E q \in Requests : request' = [request EXCEPT ![r] = q]
  <2>1. /\ request[r] \in Requests /\ t \in Token \cup Session \cup {NoCredential}
        /\ "grant" \in Stages /\ now + SessionTTL \in Nat
    BY RequestsTyped, SMT DEF SessionTypeOK, SessionTimes, Stages
  <2>2. [request[r] EXCEPT !.stage = "grant", !.shown = t, !.due = now + SessionTTL]
           \in Requests
    BY <2>1, ExchangeTyped, Zenon
  <2>. QED BY <1>1, <2>2, Zenon
<1>2. \/ \E t \in issued :
            request' = [request EXCEPT ![r].stage = "grant", ![r].shown = t,
                                       ![r].due = now + SessionTTL]
      \/ Answer(r)
  BY Zenon DEF TakeToken
<1>. QED BY <1>1, <1>2, NoRequestTyped, Zenon DEF Answer

(* A dashboard link is a token that was never issued before.                 *)
LEMMA DashboardIssues ==
  ASSUME SessionTypeOK, SessionTimes, NEW r \in Slot, CommandDashboard(r)
  PROVE  /\ issued \subseteq issued' /\ issued' \subseteq Token
         /\ IsExpiryMap(tokens', issued')
         /\ DOMAIN tokens \subseteq DOMAIN tokens'
         /\ \A t \in DOMAIN tokens' \ DOMAIN tokens : t \notin issued
<1>1. ASSUME NEW t \in Token \ issued, tokens' = With(tokens, t, now + BootstrapTTL),
             issued' = issued \cup {t}
      PROVE  /\ issued \subseteq issued' /\ issued' \subseteq Token
             /\ IsExpiryMap(tokens', issued')
             /\ DOMAIN tokens \subseteq DOMAIN tokens'
             /\ \A u \in DOMAIN tokens' \ DOMAIN tokens : u \notin issued
  <2>1. /\ DOMAIN tokens' = DOMAIN tokens \cup {t}
        /\ tokens'[t] = now + BootstrapTTL
        /\ \A u \in DOMAIN tokens \ {t} : tokens'[u] = tokens[u]
    BY <1>1, SMT DEF With
  <2>. QED BY <1>1, <2>1, SMT DEF SessionTypeOK, IsExpiryMap, SessionTimes
<1>2. CASE UNCHANGED <<tokens, issued>>
  BY <1>2, SMT DEF SessionTypeOK, IsExpiryMap
<1>. QED BY <1>1, <1>2, Zenon DEF CommandDashboard

(* The invariant holds of the first states.                                  *)
LEMMA SessionInvHolds ==
  ASSUME SessionInit, TokenAssumption, SessionTimes PROVE SessionInv
BY DEF SessionInit, TokenAssumption, SessionTimes, SessionInv, SessionsGuarded,
   SessionTypeOK, OneSessionPerToken, LateSessionUseless, ChangeShowsBothTokens,
   LockedOnlyToServed, AdvertisedIsUsable, ClosedForGood, RequestsKnown, Pending,
   Granting, TokensSpent, IsExpiryMap, EmptyMap, NoRequest, Routes, Methods, Stages,
   BrowserRoutes, CommandRoutes, OpenRoutes, RequiresOperationalState

(* Every step of a request, of the server and of the clock keeps the         *)
(* invariant.                                                                *)
LEMMA SessionStep ==
  ASSUME SessionInv, [SessionNext]_sessionVars, TokenAssumption, CredentialAssumption,
         SessionTimes
  PROVE  SessionInv'
<1> USE TokenAssumption, CredentialAssumption, SessionTimes DEF TokenAssumption,
     CredentialAssumption, SessionTimes, SessionInv, SessionsGuarded, SessionTypeOK,
     OneSessionPerToken, LateSessionUseless, ChangeShowsBothTokens, LockedOnlyToServed,
     AdvertisedIsUsable, ClosedForGood, RequestsKnown, Pending, Granting, TokensSpent,
     IsExpiryMap, NoRequest, Routes, Methods, Stages, BrowserRoutes, CommandRoutes,
     OpenRoutes, RequiresOperationalState, serverVars, bootstrapVars, grantVars, Without,
     With, Expired, Answer, Move
<1>1. CASE UNCHANGED sessionVars
  BY <1>1, SMTT(20) DEF sessionVars
<1>2. ASSUME NEW r \in Slot, Arrive(r)
      PROVE  SessionInv'
  <2>a. PICK q \in Requests :
           /\ request' = [request EXCEPT ![r] = q]
           /\ q = NoRequest \/ (reachable /\ q.stage = "gate")
           /\ ~q.locked
           /\ q.has \subseteq held \cup {NoCredential}
           /\ q.route = "metadata" => q.method = "GET"
    BY <1>2, ArriveMakes
  <2>b. UNCHANGED <<now, serverVars, bootstrapVars, grantVars>>
    BY <1>2 DEF Arrive
  <2>c. /\ request' \in [Slot -> Requests]
        /\ request'[r] = q
        /\ \A p \in Slot : p # r => request'[p] = request[p]
    BY <2>a, RequestTypes
  <2>1. SessionTypeOK'
    BY <2>a, <2>b, <2>c, SMTT(20) DEF Requests
  <2>2. /\ OneSessionPerToken' /\ LateSessionUseless'
        /\ ChangeShowsBothTokens' /\ LockedOnlyToServed'
        /\ AdvertisedIsUsable' /\ ClosedForGood' /\ RequestsKnown'
        /\ TokensSpent'
    BY <2>a, <2>b, <2>c, SMTT(20)
  <2>. QED BY <2>1, <2>2, SMT DEF SessionInv
<1>3. ASSUME NEW r \in Slot, Gate(r)
      PROVE  SessionInv'
  <2>1. /\ SessionTypeOK' /\ OneSessionPerToken' /\ LateSessionUseless'
        /\ ChangeShowsBothTokens' /\ LockedOnlyToServed'
        /\ AdvertisedIsUsable' /\ ClosedForGood' /\ RequestsKnown'
        /\ TokensSpent'
    BY <1>3, SMTT(20) DEF Gate
  <2>. QED BY <2>1, SMT DEF SessionInv
<1>4. ASSUME NEW r \in Slot, AuthorizeCommand(r)
      PROVE  SessionInv'
  BY <1>4, SMTT(20) DEF AuthorizeCommand
<1>5. ASSUME NEW r \in Slot, Authorize(r)
      PROVE  SessionInv'
  <2>1. SessionTypeOK'
    <3>1. request' \in [Slot -> Requests]
      BY <1>5, AuthorizeTyped, RequestTypes
    <3>. QED BY <3>1, <1>5, SMTT(20) DEF Authorize, Requests
  <2>2. /\ OneSessionPerToken' /\ LateSessionUseless'
        /\ ChangeShowsBothTokens' /\ LockedOnlyToServed'
        /\ AdvertisedIsUsable' /\ ClosedForGood' /\ RequestsKnown'
        /\ TokensSpent'
    BY <1>5, SMTT(20) DEF Authorize
  <2>. QED BY <2>1, <2>2, SMT DEF SessionInv
<1>6. ASSUME NEW r \in Slot, CheckCSRF(r)
      PROVE  SessionInv'
  <2>1. SessionTypeOK'
    <3>1. request' \in [Slot -> Requests]
      BY <1>6, CheckTyped, RequestTypes
    <3>. QED BY <3>1, <1>6, SMTT(20) DEF CheckCSRF, Requests
  <2>2. /\ OneSessionPerToken' /\ LateSessionUseless'
        /\ ChangeShowsBothTokens' /\ LockedOnlyToServed'
        /\ AdvertisedIsUsable' /\ ClosedForGood' /\ RequestsKnown'
        /\ TokensSpent'
    BY <1>6, SMTT(20) DEF CheckCSRF, NeedsCSRF, RequiresBrowserCSRF,
       HandlerRequiresCSRF
  <2>. QED BY <2>1, <2>2, SMT DEF SessionInv
<1>7. ASSUME NEW r \in Slot, Handle(r)
      PROVE  SessionInv'
  BY <1>7, SMTT(20) DEF Handle
<1>8. ASSUME NEW r \in Slot, CommandDashboard(r)
      PROVE  SessionInv'
  <2>a. /\ request' = [request EXCEPT ![r] = NoRequest]
        /\ UNCHANGED <<now, serverVars, advertised, grantVars>>
    BY <1>8 DEF CommandDashboard
  <2>b. /\ request' \in [Slot -> Requests]
        /\ request'[r] = NoRequest
        /\ \A p \in Slot : p # r => request'[p] = request[p]
    BY <2>a, NoRequestTyped, RequestTypes
  <2>c. /\ issued \subseteq issued' /\ issued' \subseteq Token
        /\ IsExpiryMap(tokens', issued')
        /\ DOMAIN tokens \subseteq DOMAIN tokens'
        /\ \A t \in DOMAIN tokens' \ DOMAIN tokens : t \notin issued
    BY <1>8, DashboardIssues
  <2>1. SessionTypeOK'
    BY <2>a, <2>b, <2>c, SMTT(20) DEF Requests
  <2>2. /\ OneSessionPerToken' /\ LateSessionUseless'
        /\ ChangeShowsBothTokens' /\ LockedOnlyToServed'
        /\ AdvertisedIsUsable' /\ ClosedForGood' /\ RequestsKnown'
        /\ TokensSpent'
    BY <2>a, <2>b, <2>c, SMTT(20)
  <2>. QED BY <2>1, <2>2, SMT DEF SessionInv
<1>9. ASSUME NEW r \in Slot, CommandVault(r)
      PROVE  SessionInv'
  <2>1. SessionTypeOK'
    <3>1. operational' \in BOOLEAN
      BY <1>9, Zenon DEF CommandVault
    <3>. QED BY <3>1, <1>9, SMTT(20) DEF CommandVault
  <2>2. /\ OneSessionPerToken' /\ LateSessionUseless'
        /\ ChangeShowsBothTokens' /\ LockedOnlyToServed'
        /\ AdvertisedIsUsable' /\ ClosedForGood' /\ RequestsKnown'
        /\ TokensSpent'
    BY <1>9, SMTT(20) DEF CommandVault
  <2>. QED BY <2>1, <2>2, SMT DEF SessionInv
<1>10. ASSUME NEW r \in Slot, TakeToken(r)
      PROVE  SessionInv'
  <2>1. SessionTypeOK'
    <3>1. request' \in [Slot -> Requests]
      BY <1>10, TakeTyped, RequestTypes
    <3>2. advertised' \in BOOLEAN
      BY <1>10, Zenon DEF TakeToken
    <3>. QED BY <3>1, <3>2, <1>10, SMTT(20) DEF TakeToken, Requests
  <2>2. /\ OneSessionPerToken' /\ LateSessionUseless'
        /\ ChangeShowsBothTokens' /\ LockedOnlyToServed'
        /\ AdvertisedIsUsable' /\ ClosedForGood' /\ RequestsKnown'
        /\ TokensSpent'
    BY <1>10, SMTT(20) DEF TakeToken
  <2>. QED BY <2>1, <2>2, SMT DEF SessionInv
<1>11. ASSUME NEW r \in Slot, GrantSession(r)
      PROVE  SessionInv'
  BY <1>11, SMTT(20) DEF GrantSession
<1>12. ASSUME NEW r \in Slot, GrantFails(r)
      PROVE  SessionInv'
  BY <1>12, SMTT(20) DEF GrantFails
<1>13. CASE AttachListener
  BY <1>13, SMTT(20) DEF AttachListener
<1>14. CASE Close
  <2>1. SessionTypeOK'
    <3>1. closed' \in BOOLEAN /\ reachable' \in BOOLEAN /\ advertised' \in BOOLEAN
      BY <1>14, Zenon DEF Close
    <3>. QED BY <3>1, <1>14, SMTT(20) DEF Close, EmptyMap
  <2>2. /\ OneSessionPerToken' /\ LateSessionUseless'
        /\ ChangeShowsBothTokens' /\ LockedOnlyToServed'
        /\ AdvertisedIsUsable' /\ ClosedForGood' /\ RequestsKnown'
        /\ TokensSpent'
    BY <1>14, SMTT(20) DEF Close, EmptyMap
  <2>. QED BY <2>1, <2>2, SMT DEF SessionInv
<1>15. CASE SessionTick
  BY <1>15, SMTT(20) DEF SessionTick
<1>. QED BY <1>1, <1>2, <1>3, <1>4, <1>5, <1>6, <1>7, <1>8, <1>9, <1>10,
   <1>11, <1>12, <1>13, <1>14, <1>15 DEF SessionNext, Serving

(* One session for a token, no use of a session stored late, no change       *)
(* without both tokens of one session, the state of a locked service to      *)
(* nobody, and a launcher link that works: for any number of browsers'       *)
(* tokens and of requests at a time.  server.go:1156, :1193, :1242, :498.    *)
THEOREM SessionsAreGuarded ==
  ASSUME TokenAssumption, CredentialAssumption, SessionTimes
  PROVE  SessionSpec => []SessionsGuarded
<1>1. SessionInit => SessionInv
  BY SessionInvHolds
<1>2. SessionInv /\ [SessionNext]_sessionVars => SessionInv'
  BY SessionStep
<1>3. SessionInv => SessionsGuarded
  BY DEF SessionInv
<1>. QED BY <1>1, <1>2, <1>3, PTL DEF SessionSpec

-----------------------------------------------------------------------------
(* The enrollment of the service.                                            *)

(* Where each command may be on each platform.                               *)
Stations(op, manager) ==
    IF op = "install"
    THEN IF manager = "linux" THEN {"status", "write", "reload", "enable", "start", "after"}
         ELSE IF manager = "darwin" THEN {"status", "write", "unload", "load", "start", "after"}
         ELSE {"status", "compare", "create", "start", "after"}
    ELSE IF manager = "linux" THEN {"status", "stop", "remove", "reload", "after"}
         ELSE IF manager = "darwin" THEN {"status", "stop", "remove", "after"}
         ELSE {"status", "stop", "after"}

(* A command is at a step that its platform has.                             *)
InPlace ==
    /\ command.pc # "idle" => command.pc \in Stations(command.op, platform)
    /\ command.pc # "idle" /\ command.op = "install" => command.want \in Definition

(* Without a failed command since the login, what runs is what was           *)
(* registered.                                                               *)
Undisturbed(d) ==
    ~disturbed => /\ running \in {NoDefinition, d}
                  /\ platform = "darwin" => loaded = file

(* Nothing has been changed yet, and what was seen still holds.              *)
NothingChanged ==
    /\ command.pc = "idle" => Undisturbed(AtLogin)
    /\ command.pc \in {"status", "write", "compare", "stop"} =>
          AtLogin = command.first /\ Undisturbed(command.first)
    /\ command.pc \in {"write", "compare", "create", "stop"} => (command.installed <=> Installed)
    /\ command.pc \in {"write", "compare"} =>
          /\ (command.changed <=> ~Installed)
          /\ ~command.active => ~Installed \/ running = NoDefinition

(* What an installation has put in place by the step it is at.               *)
Installing ==
    command.op = "install" =>
        /\ command.pc \in {"reload", "enable", "unload", "load"}
              \/ (command.pc \in {"start", "after"} /\ platform # "windows") => file = command.want
        /\ platform = "linux" /\ command.pc \in {"reload", "enable"} /\ ~command.changed =>
              enabled /\ command.first = command.want
        /\ platform = "linux" /\ command.pc \in {"reload", "enable", "start"} /\ ~disturbed =>
              (command.active /\ command.rewritten) \/ running \in {NoDefinition, command.want}
        /\ platform = "linux" /\ command.pc \in {"enable", "start"} => loaded = command.want
        /\ platform = "linux" /\ command.pc \in {"start", "after"} => enabled
        /\ command.pc \in {"unload", "load", "create"} => command.changed
        /\ command.pc = "create" /\ ~disturbed /\ ~command.active => running = NoDefinition
        /\ command.pc \in {"start", "after"} => AtLogin = command.want
        /\ command.pc \in {"start", "after"} /\ ~command.changed => command.first = command.want
        /\ (command.pc = "start" /\ platform # "linux") \/ command.pc = "after" =>
              Undisturbed(command.want)
        /\ command.pc = "start" /\ platform # "linux" /\ ~disturbed => loaded = command.want

(* What a removal has cleared by the step it is at.                          *)
Removing ==
    command.op = "uninstall" =>
        /\ command.pc \in {"remove", "reload", "after"} /\ ~disturbed => running = NoDefinition
        /\ command.pc \in {"remove", "after"} /\ platform # "linux" => loaded = NoDefinition
        /\ command.pc \in {"reload", "after"} => file = NoDefinition

(* The invariant of the enrollment.                                          *)
EnrollmentInv == ReportsAreTrue /\ InPlace /\ NothingChanged /\ Installing /\ Removing

(* What the commands can see, and what a login starts, by platform.          *)
LEMMA SeenInstalled ==
  /\ platform = "linux" => (Installed <=> file # NoDefinition /\ enabled)
  /\ platform \in {"darwin", "windows"} => (Installed <=> loaded # NoDefinition)
<1>1. platform = "linux" => (Installed <=> file # NoDefinition /\ enabled)
  BY SMT DEF Installed
<1>2. platform = "darwin" => (Installed <=> loaded # NoDefinition)
  BY SMT DEF Installed
<1>6. platform = "windows" => (Installed <=> loaded # NoDefinition)
  BY SMT DEF Installed
<1>. QED BY <1>1, <1>2, <1>6

LEMMA StartsAtLogin ==
  /\ platform = "linux" => AtLogin = IF enabled THEN file ELSE NoDefinition
  /\ platform = "darwin" => AtLogin = file
  /\ platform = "windows" => AtLogin = loaded
<1>1. platform = "linux" => AtLogin = IF enabled THEN file ELSE NoDefinition
  BY SMT DEF AtLogin
<1>2. platform = "darwin" => AtLogin = file
  BY SMT DEF AtLogin
<1>3. platform = "windows" => AtLogin = loaded
  BY SMT DEF AtLogin
<1>. QED BY <1>1, <1>2, <1>3

(* And the same of the next state.                                           *)
LEMMA SeenNext ==
  /\ platform' = "linux" => (Installed' <=> file' # NoDefinition /\ enabled')
  /\ platform' \in {"darwin", "windows"} => (Installed' <=> loaded' # NoDefinition)
  /\ platform' = "linux" => AtLogin' = IF enabled' THEN file' ELSE NoDefinition
  /\ platform' = "darwin" => AtLogin' = file'
  /\ platform' = "windows" => AtLogin' = loaded'
<1>1. platform' = "linux" => (Installed' <=> file' # NoDefinition /\ enabled')
  BY SMT DEF Installed
<1>2. platform' = "darwin" => (Installed' <=> loaded' # NoDefinition)
  BY SMT DEF Installed
<1>6. platform' = "windows" => (Installed' <=> loaded' # NoDefinition)
  BY SMT DEF Installed
<1>3. platform' = "linux" => AtLogin' = IF enabled' THEN file' ELSE NoDefinition
  BY SMT DEF AtLogin
<1>4. platform' = "darwin" => AtLogin' = file'
  BY SMT DEF AtLogin
<1>5. platform' = "windows" => AtLogin' = loaded'
  BY SMT DEF AtLogin
<1>. QED BY <1>1, <1>2, <1>3, <1>4, <1>5, <1>6

(* The steps of the commands.                                                *)
Pcs == {"idle", "status", "write", "reload", "enable", "unload", "load",
        "compare", "create", "start", "stop", "remove", "after"}

(* The commands, as a set of records.                                        *)
Commands ==
    [op : {"install", "uninstall"}, pc : Pcs, want : Some, installed : BOOLEAN,
     active : BOOLEAN, changed : BOOLEAN, rewritten : BOOLEAN, first : Some]

(* No command is typed.                                                      *)
LEMMA IdleTyped == Idle \in Commands
BY SMT DEF Idle, Commands, Some, Pcs

(* What a login starts is a definition or none.                              *)
LEMMA AtLoginTyped == ASSUME EnrollmentTypeOK PROVE AtLogin \in Some
BY StartsAtLogin, SMT DEF EnrollmentTypeOK, Some

(* Whether it is installed is true or false, on each platform.               *)
LEMMA InstalledTyped == ASSUME EnrollmentTypeOK PROVE Installed \in BOOLEAN
<1>1. CASE platform = "linux" BY <1>1, Zenon DEF Installed
<1>2. CASE platform = "darwin" BY <1>2, Zenon DEF Installed
<1>3. CASE platform = "windows" BY <1>3, Zenon DEF Installed
<1>. QED BY <1>1, <1>2, <1>3 DEF EnrollmentTypeOK

(* The steps of a command write it field by field.                           *)
LEMMA GoneTyped ==
  ASSUME NEW c \in Commands, NEW pc \in Pcs PROVE [c EXCEPT !.pc = pc] \in Commands
BY Zenon DEF Commands

LEMMA StartedTyped ==
  ASSUME NEW c \in Commands, NEW pc \in Pcs, NEW want \in Some, NEW first \in Some
  PROVE  [c EXCEPT !.pc = pc, !.want = want, !.first = first] \in Commands
BY Zenon DEF Commands

LEMMA RemovalTyped ==
  ASSUME NEW c \in Commands, NEW pc \in Pcs, NEW first \in Some
  PROVE  [c EXCEPT !.op = "uninstall", !.pc = pc, !.first = first] \in Commands
BY Zenon DEF Commands

LEMMA SeenTyped ==
  ASSUME NEW c \in Commands, NEW installed \in BOOLEAN, NEW active \in BOOLEAN,
         NEW changed \in BOOLEAN, NEW pc \in Pcs
  PROVE  /\ [c EXCEPT !.installed = installed, !.active = active, !.changed = changed, !.pc = pc] \in Commands
         /\ [c EXCEPT !.installed = installed, !.pc = pc] \in Commands
<1>1. [c EXCEPT !.installed = installed, !.active = active, !.changed = changed, !.pc = pc] \in Commands
  BY Zenon DEF Commands
<1>2. [c EXCEPT !.installed = installed, !.pc = pc] \in Commands
  BY Zenon DEF Commands
<1>. QED BY <1>1, <1>2

LEMMA WrittenTyped ==
  ASSUME NEW c \in Commands, NEW rewritten \in BOOLEAN, NEW changed \in BOOLEAN, NEW pc \in Pcs
  PROVE  [c EXCEPT !.rewritten = rewritten, !.changed = changed, !.pc = pc] \in Commands
BY Zenon DEF Commands

LEMMA ComparedTyped ==
  ASSUME NEW c \in Commands, NEW changed \in BOOLEAN, NEW pc \in Pcs
  PROVE  [c EXCEPT !.changed = changed, !.pc = pc] \in Commands
BY Zenon DEF Commands

(* The type invariant speaks of these records.                               *)
LEMMA CommandTyped == EnrollmentTypeOK => command \in Commands
BY DEF EnrollmentTypeOK, Commands, Pcs

(* After stopping, a removal goes on to the file or is at its end.           *)
LEMMA DisableGoes ==
  ASSUME command \in Commands, Disable PROVE command' \in Commands
<1>1. \/ command' = [command EXCEPT !.pc = "remove"]
      \/ command' = [command EXCEPT !.pc = "after"]
  BY Zenon DEF Disable, Goto
<1>2. "remove" \in Pcs /\ "after" \in Pcs
  BY SMT DEF Pcs
<1>. QED BY <1>1, <1>2, GoneTyped, Zenon

(* Writing the definition puts the wanted one in its file and goes on by     *)
(* platform.                                                                 *)
LEMMA WriteGoes ==
  ASSUME EnrollmentTypeOK, InPlace, WriteDefinition
  PROVE  /\ command' \in Commands /\ InPlace'
         /\ platform \in {"linux", "darwin"} /\ file' = command.want /\ command.want \in Some
         /\ UNCHANGED <<platform, enabled, loaded, running, outcome, disturbed>>
<1>1. /\ command \in Commands /\ command.op = "install" /\ command.pc = "write"
      /\ platform' = platform
  BY CommandTyped, SMT DEF WriteDefinition, At
<1>2. platform \in {"linux", "darwin"} /\ command.want \in Definition
  BY <1>1, SMT DEF EnrollmentTypeOK, InPlace, Stations
<1>. DEFINE pc == CASE platform = "linux" -> "reload"
                    [] platform = "darwin" /\ ~command.installed -> "load"
                    [] platform = "darwin" /\ command.installed ->
                          IF file = command.want THEN "start" ELSE "unload"
            differs == file # command.want
            altered == command.changed \/ file # command.want
<1>3. /\ differs \in BOOLEAN /\ altered \in BOOLEAN
      /\ platform = "linux" => pc = "reload"
      /\ platform = "darwin" => pc \in {"unload", "load", "start"}
  BY SMT
<1>4. command' = [command EXCEPT !.rewritten = differs, !.changed = altered, !.pc = pc]
  BY DEF WriteDefinition
<1>. HIDE DEF pc, differs, altered
<1>5. pc \in Pcs
  BY <1>2, <1>3, SMT DEF Pcs
<1>6. command' \in Commands
  BY <1>1, <1>3, <1>4, <1>5, WrittenTyped, Zenon
<1>7. command'.op = "install" /\ command'.want = command.want /\ command'.pc = pc
  BY <1>1, <1>4, SMT DEF Commands
<1>8. InPlace'
  <2>1. CASE platform = "linux"
    BY <1>1, <1>2, <1>3, <1>7, <2>1, SMT DEF InPlace, Stations
  <2>2. CASE platform = "darwin"
    BY <1>1, <1>2, <1>3, <1>7, <2>2, SMT DEF InPlace, Stations
  <2>. QED BY <1>2, <2>1, <2>2
<1>9. /\ file' = command.want /\ command.want \in Some
       /\ UNCHANGED <<platform, enabled, loaded, running, outcome, disturbed>>
  BY <1>2 DEF WriteDefinition, Some
<1>. QED BY <1>2, <1>6, <1>8, <1>9

(* What the status step records is what there is.                            *)
LEMMA StatusSees ==
  ASSUME EnrollmentTypeOK, InstallStatus
  PROVE  /\ command'.op = command.op /\ command'.first = command.first
         /\ command'.pc = IF platform = "windows" THEN "compare" ELSE "write"
         /\ command'.installed = Installed /\ command'.active = Active
         /\ command'.changed = ~Installed
<1>1. command'.op = command.op /\ command'.first = command.first
  BY CommandTyped, SMT DEF InstallStatus, Commands
<1>2. command'.pc = IF platform = "windows" THEN "compare" ELSE "write"
  BY CommandTyped, SMT DEF InstallStatus, Commands
<1>3. command'.installed = Installed /\ command'.active = Active
  BY CommandTyped, SMT DEF InstallStatus, Commands
<1>4. command'.changed = ~Installed
  BY CommandTyped, SMT DEF InstallStatus, Commands
<1>. QED BY <1>1, <1>2, <1>3, <1>4

(* Asking for the status changes nothing.                                    *)
LEMMA StatusChangesNothing ==
  ASSUME EnrollmentTypeOK, NothingChanged, InstallStatus PROVE NothingChanged'
<1>1. UNCHANGED <<platform, file, enabled, loaded, running, disturbed>>
  BY DEF InstallStatus, managerVars
<1>2. UNCHANGED <<Installed, AtLogin>>
  BY <1>1, Zenon DEF Installed, AtLogin
<1>3. Undisturbed(command.first) /\ AtLogin = command.first
  BY SMT DEF InstallStatus, At, NothingChanged
<1>4. Undisturbed(command.first)'
  BY <1>1, <1>3, StatusSees, SMT DEF Undisturbed
<1>5. command'.pc \in {"compare", "write"}
  BY StatusSees
<1>6. /\ command'.installed <=> Installed'
      /\ command'.changed <=> ~Installed'
      /\ ~command'.active => ~Installed' \/ running' = NoDefinition
  BY <1>1, <1>2, StatusSees, Zenon DEF Active
<1>. QED BY <1>2, <1>3, <1>4, <1>5, <1>6, StatusSees, SMT DEF NothingChanged

(* The invariant holds of the first states.                                  *)
LEMMA EnrollmentInvHolds ==
  ASSUME EnrollmentInit, Platform \subseteq {"linux", "darwin", "windows"}
  PROVE  EnrollmentInv
BY DEF EnrollmentInit, PlatformAssumption, EnrollmentInv, ReportsAreTrue,
   EnrollmentTypeOK, InstallRegisters, UninstallRemoves, UnchangedIsTrue,
   StaleOnlyAfterFailure, InPlace, Undisturbed, NothingChanged, Installing, Removing,
   Some, AtLogin, Idle, Settled

(* Every step of a command, every failure, exit and login keeps the          *)
(* invariant.                                                                *)
LEMMA EnrollmentStep ==
  ASSUME EnrollmentInv, [EnrollmentNext]_enrollmentVars, DefinitionAssumption
  PROVE  EnrollmentInv'
<1> USE DefinitionAssumption, SeenInstalled, StartsAtLogin, SeenNext
     DEF DefinitionAssumption, EnrollmentInv, ReportsAreTrue, EnrollmentTypeOK,
     InstallRegisters, UninstallRemoves, UnchangedIsTrue, StaleOnlyAfterFailure, InPlace,
     Undisturbed, NothingChanged, Installing, Removing, Some, managerVars, Active, At,
     Goto, End, Idle, Settled, Stations
<1>1. CASE UNCHANGED enrollmentVars
  <2>1. /\ EnrollmentTypeOK' /\ InstallRegisters' /\ UninstallRemoves'
        /\ UnchangedIsTrue' /\ StaleOnlyAfterFailure' /\ InPlace'
        /\ NothingChanged' /\ Installing' /\ Removing'
    BY <1>1, SMTT(20) DEF enrollmentVars
  <2>. QED BY <2>1, Zenon DEF EnrollmentInv
<1>2. CASE RunInstall
  <2>1. EnrollmentTypeOK'
    <3>0. command \in Commands /\ Idle \in Commands
      BY CommandTyped, IdleTyped
    <3>2. "status" \in Pcs /\ AtLogin \in Some /\ Definition \subseteq Some
      BY AtLoginTyped, SMT DEF Pcs, Some
    <3>3. PICK d \in Definition :
             command' = [Idle EXCEPT !.pc = "status", !.want = d, !.first = AtLogin]
      BY <1>2 DEF RunInstall
    <3>1. command' \in Commands
      BY <3>0, <3>2, <3>3, StartedTyped, Zenon
    <3>. QED BY <3>1, <1>2, SMTT(20) DEF RunInstall, Commands, Pcs
  <2>2. /\ InstallRegisters' /\ UninstallRemoves' /\ UnchangedIsTrue'
        /\ StaleOnlyAfterFailure' /\ InPlace' /\ NothingChanged'
        /\ Installing' /\ Removing'
    BY <1>2, SMTT(20) DEF RunInstall
  <2>. QED BY <2>1, <2>2, Zenon DEF EnrollmentInv
<1>3. CASE InstallStatus
  <2>1. EnrollmentTypeOK'
    <3>0. command \in Commands /\ Idle \in Commands
      BY CommandTyped, IdleTyped
    <3>2. Installed \in BOOLEAN /\ Active \in BOOLEAN /\ (~Installed) \in BOOLEAN
      BY InstalledTyped, Zenon DEF Active
    <3>3. (IF platform = "windows" THEN "compare" ELSE "write") \in Pcs
      BY SMT DEF Pcs
    <3>1. command' \in Commands
      BY <1>3, <3>0, <3>2, <3>3, SeenTyped, Zenon DEF InstallStatus
    <3>. QED BY <3>1, <1>3, SMTT(20) DEF InstallStatus, Commands, Pcs
  <2>2. /\ InstallRegisters' /\ UninstallRemoves' /\ UnchangedIsTrue'
        /\ StaleOnlyAfterFailure' /\ InPlace'
    BY <1>3, SMTT(20) DEF InstallStatus
  <2>3. NothingChanged'
    BY <1>3, StatusChangesNothing, Zenon
  <2>4. /\ Installing' /\ Removing'
    BY <1>3, SMTT(20) DEF InstallStatus
  <2>. QED BY <2>1, <2>2, <2>3, <2>4, Zenon DEF EnrollmentInv
<1>4. CASE WriteDefinition
  <2>1. EnrollmentTypeOK'
    <3>1. /\ command' \in Commands
          /\ platform \in {"linux", "darwin"} /\ file' = command.want /\ command.want \in Some
          /\ UNCHANGED <<platform, enabled, loaded, running, outcome, disturbed>>
      BY <1>4, WriteGoes, Zenon
    <3>. QED BY <3>1, SMTT(20) DEF Commands, Pcs
  <2>2. /\ InstallRegisters' /\ UninstallRemoves' /\ UnchangedIsTrue'
        /\ StaleOnlyAfterFailure'
    BY <1>4, SMTT(20) DEF WriteDefinition
  <2>3. InPlace'
    BY <1>4, WriteGoes, Zenon
  <2>4. /\ NothingChanged' /\ Installing' /\ Removing'
    BY <1>4, SMTT(20) DEF WriteDefinition
  <2>. QED BY <2>1, <2>2, <2>3, <2>4, Zenon DEF EnrollmentInv
<1>5. CASE InstallReload
  <2>1. /\ EnrollmentTypeOK' /\ InstallRegisters' /\ UninstallRemoves'
        /\ UnchangedIsTrue' /\ StaleOnlyAfterFailure' /\ InPlace'
        /\ NothingChanged' /\ Installing' /\ Removing'
    BY <1>5, SMTT(20) DEF InstallReload
  <2>. QED BY <2>1, Zenon DEF EnrollmentInv
<1>6. CASE EnableUnit
  BY <1>6, SMTT(20) DEF EnableUnit
<1>7. CASE Unload
  BY <1>7, SMTT(20) DEF Unload
<1>8. CASE Load
  <2>1. /\ EnrollmentTypeOK' /\ InstallRegisters' /\ UninstallRemoves'
        /\ UnchangedIsTrue' /\ StaleOnlyAfterFailure' /\ InPlace'
        /\ NothingChanged' /\ Installing' /\ Removing'
    BY <1>8, SMTT(20) DEF Load
  <2>. QED BY <2>1, Zenon DEF EnrollmentInv
<1>9. CASE CompareTask
  <2>1. EnrollmentTypeOK'
    <3>0. command \in Commands /\ Idle \in Commands
      BY CommandTyped, IdleTyped
    <3>. DEFINE changed == ~command.installed \/ loaded # command.want
                pc == IF changed THEN "create" ELSE "start"
    <3>2. changed \in BOOLEAN /\ pc \in Pcs
      BY SMT DEF Pcs
    <3>3. command' = [command EXCEPT !.changed = changed, !.pc = pc]
      BY <1>9 DEF CompareTask
    <3>. HIDE DEF pc, changed
    <3>1. command' \in Commands
      BY <3>0, <3>2, <3>3, ComparedTyped, Zenon
    <3>. QED BY <3>1, <1>9, SMTT(20) DEF CompareTask, Commands, Pcs
  <2>2. /\ InstallRegisters' /\ UninstallRemoves' /\ UnchangedIsTrue'
        /\ StaleOnlyAfterFailure' /\ InPlace' /\ NothingChanged'
        /\ Installing' /\ Removing'
    BY <1>9, SMTT(20) DEF CompareTask
  <2>. QED BY <2>1, <2>2, Zenon DEF EnrollmentInv
<1>10. CASE CreateTask
  <2>1. EnrollmentTypeOK'
    <3>0. command \in Commands /\ Idle \in Commands
      BY CommandTyped, IdleTyped
    <3>2. "start" \in Pcs BY DEF Pcs
    <3>1. command' \in Commands /\ disturbed' \in BOOLEAN
      BY <1>10, <3>0, <3>2, GoneTyped, Zenon DEF CreateTask
    <3>. QED BY <3>1, <1>10, SMTT(20) DEF CreateTask, Commands, Pcs
  <2>2. /\ InstallRegisters' /\ UninstallRemoves' /\ UnchangedIsTrue'
        /\ StaleOnlyAfterFailure' /\ InPlace' /\ NothingChanged'
        /\ Installing' /\ Removing'
    BY <1>10, SMTT(20) DEF CreateTask
  <2>. QED BY <2>1, <2>2, Zenon DEF EnrollmentInv
<1>11. CASE StartService
  <2>1. EnrollmentTypeOK'
    <3>0. command \in Commands /\ Idle \in Commands
      BY CommandTyped, IdleTyped
    <3>2. "after" \in Pcs BY DEF Pcs
    <3>1. command' \in Commands
      BY <1>11, <3>0, <3>2, GoneTyped, Zenon DEF StartService
    <3>. QED BY <3>1, <1>11, SMTT(20) DEF StartService, Commands, Pcs
  <2>2. /\ InstallRegisters' /\ UninstallRemoves' /\ UnchangedIsTrue'
        /\ StaleOnlyAfterFailure' /\ InPlace' /\ NothingChanged'
        /\ Installing' /\ Removing'
    BY <1>11, SMTT(20) DEF StartService
  <2>. QED BY <2>1, <2>2, Zenon DEF EnrollmentInv
<1>12. CASE InstallEnds
  BY <1>12, SMTT(20) DEF InstallEnds
<1>13. CASE RunUninstall
  <2>1. EnrollmentTypeOK'
    <3>0. command \in Commands /\ Idle \in Commands
      BY CommandTyped, IdleTyped
    <3>2. "status" \in Pcs /\ AtLogin \in Some
      BY AtLoginTyped, SMT DEF Pcs
    <3>1. command' \in Commands
      BY <1>13, <3>0, <3>2, RemovalTyped, Zenon DEF RunUninstall
    <3>. QED BY <3>1, <1>13, SMTT(20) DEF RunUninstall, Commands, Pcs
  <2>2. /\ InstallRegisters' /\ UninstallRemoves' /\ UnchangedIsTrue'
        /\ StaleOnlyAfterFailure' /\ InPlace' /\ NothingChanged'
        /\ Installing' /\ Removing'
    BY <1>13, SMTT(20) DEF RunUninstall
  <2>. QED BY <2>1, <2>2, Zenon DEF EnrollmentInv
<1>14. CASE UninstallStatus
  <2>1. ASSUME NEW seen \in BOOLEAN, seen <=> Installed
        PROVE  LET c == [command EXCEPT !.installed = seen, !.pc = "stop"]
               IN  /\ c \in Commands /\ c.op = command.op /\ c.pc = "stop"
                   /\ c.first = command.first /\ (c.installed <=> Installed)
    <3>1. command \in Commands /\ "stop" \in Pcs
      BY CommandTyped, SMT DEF Pcs
    <3>2. [command EXCEPT !.installed = seen, !.pc = "stop"] \in Commands
      BY <3>1, SeenTyped, Zenon
    <3>. QED BY <3>1, <3>2, <2>1, SMT DEF Commands
  <2>2. CASE ~Installed /\ file = NoDefinition /\ End(FALSE)
    BY <1>14, <2>2, CommandTyped, SMTT(20) DEF UninstallStatus, Commands
  <2>3. CASE /\ Installed \/ file # NoDefinition
             /\ command' = [command EXCEPT !.installed = Installed, !.pc = "stop"]
             /\ UNCHANGED outcome
    <3>1. Installed \in BOOLEAN
      BY InstalledTyped
    <3>2. /\ command' \in Commands /\ command'.op = command.op /\ command'.pc = "stop"
          /\ command'.first = command.first /\ (command'.installed <=> Installed)
      BY <2>1, <2>3, <3>1, Zenon
    <3>3. UNCHANGED <<managerVars, disturbed, outcome>> /\ At("uninstall", "status")
      BY <1>14, <2>3 DEF UninstallStatus
    <3>. QED BY <3>2, <3>3, SMTT(20) DEF Commands, Pcs
  <2>. QED BY <1>14, <2>2, <2>3 DEF UninstallStatus
<1>15. CASE Disable
  <2>1. EnrollmentTypeOK'
    <3>0. command \in Commands /\ Idle \in Commands
      BY CommandTyped, IdleTyped
    <3>2. "remove" \in Pcs /\ "after" \in Pcs BY DEF Pcs
    <3>3. command' \in Commands
      BY <1>15, <3>0, DisableGoes
    <3>4. enabled' \in BOOLEAN
      BY <1>15, Zenon DEF Disable
    <3>1. command' \in Commands /\ enabled' \in BOOLEAN /\ disturbed' \in BOOLEAN
      BY <1>15, <3>3, <3>4, Zenon DEF Disable
    <3>5. platform' = platform /\ outcome' = outcome /\ file' = file /\ loaded' \in Some /\ running' \in Some
      BY <1>15, SMTT(20) DEF Disable
    <3>6. platform # "linux" => ~enabled'
      BY <1>15, Zenon DEF Disable
    <3>. QED BY <3>5, <3>6, <3>1, <1>15, SMTT(20) DEF Commands, Pcs
  <2>2. /\ InstallRegisters' /\ UninstallRemoves' /\ UnchangedIsTrue'
        /\ StaleOnlyAfterFailure' /\ InPlace' /\ NothingChanged'
        /\ Installing' /\ Removing'
    BY <1>15, SMTT(20) DEF Disable
  <2>. QED BY <2>1, <2>2, Zenon DEF EnrollmentInv
<1>16. CASE RemoveDefinition
  BY <1>16, SMTT(20) DEF RemoveDefinition
<1>17. CASE UninstallReload
  BY <1>17, SMTT(20) DEF UninstallReload
<1>18. CASE UninstallEnds
  BY <1>18, SMTT(20) DEF UninstallEnds
<1>19. CASE Interrupted
  <2>1. EnrollmentTypeOK'
    <3>1. command' \in Commands /\ disturbed' \in BOOLEAN
      BY <1>19, IdleTyped, Zenon DEF Interrupted
    <3>2. outcome' \in [op : {"install", "uninstall"}, ok : BOOLEAN, changed : BOOLEAN,
                        want : Some, first : Some]
      BY <1>19, Zenon DEF Interrupted
    <3>. QED BY <3>1, <3>2, <1>19, SMTT(20) DEF Interrupted, Commands, Pcs
  <2>2. /\ InstallRegisters' /\ UninstallRemoves' /\ UnchangedIsTrue'
        /\ StaleOnlyAfterFailure' /\ InPlace' /\ NothingChanged'
        /\ Installing' /\ Removing'
    BY <1>19, SMTT(20) DEF Interrupted
  <2>. QED BY <2>1, <2>2, Zenon DEF EnrollmentInv
<1>20. CASE ServiceEnds
  BY <1>20, SMTT(20) DEF ServiceEnds
<1>21. CASE Login
  <2>1. EnrollmentTypeOK'
    <3>1. /\ AtLogin \in Some /\ file \in Some /\ loaded \in Some /\ FALSE \in BOOLEAN
          /\ platform = "windows" \/ platform # "windows"
      BY AtLoginTyped
    <3>2. loaded' \in Some /\ running' \in Some /\ disturbed' \in BOOLEAN
      BY <1>21, <3>1, Zenon DEF Login
    <3>3. UNCHANGED <<platform, file, enabled, command, outcome>>
      BY <1>21 DEF Login
    <3>4. platform = "windows" => file = NoDefinition
      BY Zenon
    <3>. QED BY <3>2, <3>3, CommandTyped, SMT DEF Commands, Pcs
  <2>2. /\ InstallRegisters' /\ UninstallRemoves' /\ UnchangedIsTrue'
        /\ StaleOnlyAfterFailure' /\ InPlace' /\ NothingChanged'
        /\ Installing' /\ Removing'
    BY <1>21, SMTT(20) DEF Login
  <2>. QED BY <2>1, <2>2, Zenon DEF EnrollmentInv
<1>. QED BY <1>1, <1>2, <1>3, <1>4, <1>5, <1>6, <1>7, <1>8, <1>9, <1>10,
   <1>11, <1>12, <1>13, <1>14, <1>15, <1>16, <1>17, <1>18, <1>19, <1>20, <1>21 DEF EnrollmentNext

(* What a command of the enrollment reports is what the next login does,     *)
(* whatever earlier commands, interruptions and logins left behind, on each  *)
(* platform.  service_enrollment.go:229, :331.                               *)
THEOREM ReportsAreTold ==
  ASSUME DefinitionAssumption, PlatformAssumption
  PROVE  EnrollmentSpec => []ReportsAreTrue
<1>1. EnrollmentInit => EnrollmentInv
  BY EnrollmentInvHolds
<1>2. EnrollmentInv /\ [EnrollmentNext]_enrollmentVars => EnrollmentInv'
  BY EnrollmentStep
<1>3. EnrollmentInv => ReportsAreTrue
  BY DEF EnrollmentInv
<1>. QED BY <1>1, <1>2, <1>3, PTL DEF EnrollmentSpec

-----------------------------------------------------------------------------
(* Configuration packs.                                                      *)

(* What an operation has read so far, by the step it is at.                  *)
Assignments == [profile : Profiles, alias : Aliases, version : Versions]

(* What an operation was asked, and where it may stand.                      *)
OperationFields(o) ==
    /\ o.kind \in Kinds /\ o.alias \in Aliases
    /\ o.pc \in {"assignment", "overrides", "target", "store", "again", "write"}
    /\ o.kind \in Versioned => o.version \in Versions
    /\ o.kind = "override" => o.files \in PackFiles
    /\ o.kind = "assign" => o.pc \in {"target", "store"}
    /\ o.pc = "store" => o.kind \in {"assign", "override"} /\ o.target \in Profiles
    /\ o.pc = "again" => o.kind = "promote"

(* What it has read by then.                                                 *)
HasRead(o) ==
    /\ o.pc \in {"overrides", "again", "write"} \/ (o.pc = "target" /\ o.kind # "assign") =>
          o.assignment \in Assignments /\ Approved(o.assignment.version)
    /\ o.pc \in {"again", "write"} \/ (o.pc = "target" /\ o.kind # "assign") =>
          /\ o.owner \in Profiles /\ o.override \in PackFiles \cup {None} /\ o.merged \in PackFiles
          /\ o.kind # "promote" => o.merged = Merged(o.assignment.version, o.override)
    /\ o.pc = "again" =>
          o = [pc |-> "again", kind |-> o.kind, alias |-> o.alias, version |-> o.version,
               files |-> o.files, assignment |-> o.assignment, owner |-> o.owner,
               override |-> o.override, merged |-> o.merged]

(* The operation that is under way, if there is one.                         *)
OperationOK == operation # NoOperation => OperationFields(operation) /\ HasRead(operation)

(* A review says what its digest says, and an operation that applies one is  *)
(* of its kind.                                                              *)
ReviewOK ==
    /\ review # NoReview /\ review.kind = "apply" =>
          /\ review.digest.target = review.home /\ review.digest.merged = review.shown
          /\ review.digest.conflict = review.conflict
    /\ review # NoReview /\ review.kind = "promote_reviewed" =>
          review.digest.to = review.to /\ review.digest.merged = review.shown
    /\ operation # NoOperation /\ operation.kind \in {"apply", "promote_reviewed"} =>
          review # NoReview /\ review.kind = operation.kind

(* The invariant of the configuration packs.                                 *)
PacksInv == PacksKept /\ OperationOK /\ ReviewOK

(* Every step of an operation and of what happens meanwhile keeps the        *)
(* invariant.                                                                *)
LEMMA PacksStep ==
  ASSUME PacksInv, [ConfigurationNext]_configurationVars, PacksAssumption PROVE PacksInv'
<1> USE PacksAssumption DEF PacksAssumption, PacksInv, PacksKept, ConfigurationTypeOK,
     ProjectionsReproducible, OperationOK, OperationFields, HasRead, ReviewOK,
     Assignments, Approved, Merged, Packs, Projections, Kinds, Versioned, packVars,
     profileVars, Change
<1>1. CASE UNCHANGED configurationVars
  BY <1>1, SMTT(20) DEF configurationVars
<1>2. ASSUME NEW kind \in Kinds, NEW a \in Aliases, StartOperation(kind, a)
      PROVE  PacksInv'
  BY <1>2, SMTT(20) DEF StartOperation
<1>3. CASE FailOperation
  BY <1>3, SMTT(20) DEF FailOperation
<1>4. CASE ReadAssignment
  BY <1>4, SMTT(20) DEF ReadAssignment, Found
<1>5. CASE ReadOverrides
  BY <1>5, SMTT(20) DEF ReadOverrides, Found, NextStep
<1>6. CASE ReadOverridesAgain
  BY <1>6, SMTT(20) DEF ReadOverridesAgain, Found
<1>7. CASE ReadTarget
  BY <1>7, SMTT(20) DEF ReadTarget, Found
<1>8. CASE Assign
  BY <1>8, SMTT(20) DEF Assign
<1>9. CASE SetOverride
  BY <1>9, SMTT(20) DEF SetOverride
<1>10. CASE Preview
  BY <1>10, SMTT(20) DEF Preview, Found, ProjectionDigest, Conflict
<1>11. CASE PreviewPromotion
  BY <1>11, SMTT(20) DEF PreviewPromotion, PromotionDigest
<1>12. CASE Project
  BY <1>12, SMTT(20) DEF Project, Found, Projected, Conflict, Stopped
<1>13. CASE ApplyReviewed
  BY <1>13, SMTT(20) DEF ApplyReviewed, Found, Projected, Conflict, Stopped
<1>14. CASE Promote
  BY <1>14, SMTT(20) DEF Promote, Promoted, Unused
<1>15. CASE PromoteReviewed
  BY <1>15, SMTT(20) DEF PromoteReviewed, Promoted, Unused
<1>16. ASSUME NEW v \in Versions, NEW f \in PackFiles, CreateDraft(v, f)
      PROVE  PacksInv'
  BY <1>16, SMTT(20) DEF CreateDraft, Unused
<1>17. ASSUME NEW v \in Versions, NEW f \in PackFiles, ImportPack(v, f)
      PROVE  PacksInv'
  BY <1>17, SMTT(20) DEF ImportPack, Unused
<1>18. ASSUME NEW v \in Versions, Approve(v)
      PROVE  PacksInv'
  BY <1>18, SMTT(20) DEF Approve
<1>19. ASSUME NEW p \in Profiles, NEW a \in Aliases, Rename(p, a)
      PROVE  PacksInv'
  BY <1>19, SMTT(20) DEF Rename
<1>20. ASSUME NEW p \in Profiles, RemoveProfile(p)
      PROVE  PacksInv'
  BY <1>20, SMTT(20) DEF RemoveProfile
<1>21. ASSUME NEW p \in Profiles, RestoreProfile(p)
      PROVE  PacksInv'
  BY <1>21, SMTT(20) DEF RestoreProfile
<1>22. ASSUME NEW p \in Profiles, PurgeProfile(p)
      PROVE  PacksInv'
  BY <1>22, SMTT(20) DEF PurgeProfile
<1>23. ASSUME NEW p \in Profiles, Launch(p)
      PROVE  PacksInv'
  BY <1>23, SMTT(20) DEF Launch
<1>24. ASSUME NEW p \in Profiles, EndLaunch(p)
      PROVE  PacksInv'
  BY <1>24, SMTT(20) DEF EndLaunch
<1>25. ASSUME NEW p \in Profiles, ChangeLocally(p)
      PROVE  PacksInv'
  BY <1>25, SMTT(20) DEF ChangeLocally
<1>. QED BY <1>1, <1>2, <1>3, <1>4, <1>5, <1>6, <1>7, <1>8, <1>9, <1>10,
   <1>11, <1>12, <1>13, <1>14, <1>15, <1>16, <1>17, <1>18, <1>19, <1>20,
   <1>21, <1>22, <1>23, <1>24, <1>25 DEF ConfigurationNext

(* The invariant holds of the first states.                                  *)
LEMMA PacksInvHolds ==
  ASSUME ConfigurationInit, PacksAssumption PROVE PacksInv
BY DEF ConfigurationInit, PacksAssumption, PacksInv, PacksKept, ConfigurationTypeOK,
   ProjectionsReproducible, OperationOK, ReviewOK, Packs

(* Every home that holds a projection holds the files of an approved         *)
(* version, however long ago it was projected: for any packs, versions and   *)
(* profiles. store/configuration_packs.go:183.                               *)
THEOREM PacksAreKept == ASSUME PacksAssumption PROVE ConfigurationSpec => []PacksKept
<1>1. ConfigurationInit => PacksInv
  BY PacksInvHolds
<1>2. PacksInv /\ [ConfigurationNext]_configurationVars => PacksInv'
  BY PacksStep
<1>3. PacksInv => PacksKept
  BY DEF PacksInv
<1>. QED BY <1>1, <1>2, <1>3, PTL DEF ConfigurationSpec

(* Only a projection writes into a home. *)
LEMMA OnlyProjectionsWrite ==
  ASSUME PacksInv, [ConfigurationNext]_configurationVars, NEW p \in Profiles, Written(p)
  PROVE  \/ Project /\ p \in Found(operation.alias) /\ Projected(p)
         \/ ApplyReviewed
<1> USE DEF Written
<1>1. CASE UNCHANGED configurationVars BY <1>1 DEF configurationVars
<1>2. CASE Project BY <1>2 DEF Project, Projected, PacksInv, PacksKept,
     ConfigurationTypeOK
<1>3. CASE ApplyReviewed BY <1>3
<1>4. CASE \E q \in Profiles : PurgeProfile(q) \/ ChangeLocally(q)
  BY <1>4 DEF PurgeProfile, ChangeLocally, PacksInv, PacksKept, ConfigurationTypeOK
<1>5. CASE UNCHANGED home BY <1>5
<1>. QED BY <1>1, <1>2, <1>3, <1>4, <1>5 DEF ConfigurationNext, StartOperation,
     FailOperation, ReadAssignment, ReadOverrides, ReadOverridesAgain, ReadTarget, Assign,
     SetOverride, Preview, PreviewPromotion, Promote, PromoteReviewed, CreateDraft,
     ImportPack, Approve, Rename, RemoveProfile, RestoreProfile, Launch, EndLaunch

(* The two parts of the property, as steps.                                  *)
RestingHome ==
  \A p \in Profiles : Written(p) => p \notin launched \cup quarantined

(* A home that is written is neither launched nor in quarantine.             *)
LEMMA RestingHomeStep ==
  ASSUME PacksInv, [ConfigurationNext]_configurationVars PROVE RestingHome
<1>. SUFFICES ASSUME NEW p \in Profiles, Written(p) PROVE p \notin launched \cup quarantined
  BY DEF RestingHome
<1>1. CASE Project /\ p \in Found(operation.alias) /\ Projected(p)
  BY <1>1 DEF Found, Projected, Stopped
<1>2. CASE ApplyReviewed
  <2>1. PICK q \in Found(operation.alias) : Projected(q)
    BY <1>2 DEF ApplyReviewed
  <2>2. p = q
    BY <2>1 DEF Found, Projected, Written, PacksInv, PacksKept, ConfigurationTypeOK
  <2>. QED BY <2>1, <2>2 DEF Found, Projected, Stopped
<1>. QED BY <1>1, <1>2, OnlyProjectionsWrite

(* What an operation that applies a review writes was reviewed.              *)
AppliesReview ==
  (operation # NoOperation /\ operation' = NoOperation)
    => /\ \A p \in Profiles : (operation.kind = "apply" /\ Written(p)) =>
            p = review.home /\ home'[p].files = review.shown /\ ~review.conflict
       /\ \A v \in Versions : (operation.kind = "promote_reviewed" /\ packs'[v] # packs[v]) =>
            v = review.to /\ packs'[v].files = review.shown

(* The digest stands for all that the review showed.                         *)
LEMMA AppliesReviewStep ==
  ASSUME PacksInv, [ConfigurationNext]_configurationVars PROVE AppliesReview
<1>. SUFFICES ASSUME operation # NoOperation, operation' = NoOperation PROVE AppliesReview
  BY DEF AppliesReview
<1>1. ASSUME NEW p \in Profiles, operation.kind = "apply", Written(p)
      PROVE  p = review.home /\ home'[p].files = review.shown /\ ~review.conflict
  <2>1. ApplyReviewed
    BY <1>1, OnlyProjectionsWrite DEF Project
  <2>2. PICK q \in Found(operation.alias) :
           ProjectionDigest(operation.assignment, q, operation.merged) = review.digest /\ Projected(q)
    BY <2>1 DEF ApplyReviewed
  <2>3. p = q
    BY <1>1, <2>2 DEF Found, Projected, Written, PacksInv, PacksKept, ConfigurationTypeOK
  <2>4. ~Conflict(p) /\ home'[p].files = operation.merged
    BY <1>1, <2>2, <2>3 DEF Projected, Written, PacksInv, PacksKept, ConfigurationTypeOK
  <2>5. /\ review.digest.target = review.home /\ review.digest.merged = review.shown
        /\ review.digest.conflict = review.conflict
    BY <1>1 DEF PacksInv, ReviewOK
  <2>. QED BY <2>2, <2>3, <2>4, <2>5 DEF ProjectionDigest
<1>2. ASSUME NEW v \in Versions, operation.kind = "promote_reviewed", packs'[v] # packs[v]
      PROVE  v = review.to /\ packs'[v].files = review.shown
  <2>1. PromoteReviewed
    BY <1>2 DEF ConfigurationNext, configurationVars, packVars, StartOperation,
       FailOperation, ReadAssignment, ReadOverrides, ReadOverridesAgain, ReadTarget,
       Assign, SetOverride, Preview, PreviewPromotion, Promote, Project, ApplyReviewed,
       CreateDraft, ImportPack, Approve, Rename, RemoveProfile, RestoreProfile,
       PurgeProfile, Launch, EndLaunch, ChangeLocally
  <2>2. /\ PromotionDigest(operation.assignment, operation.version, operation.merged) = review.digest
        /\ packs' = [packs EXCEPT ![operation.version] = [state |-> "approved", files |-> operation.merged]]
    BY <2>1 DEF PromoteReviewed, Promoted
  <2>3. v = operation.version /\ packs'[v].files = operation.merged
    BY <1>2, <2>2 DEF PacksInv, PacksKept, ConfigurationTypeOK
  <2>4. review.digest.to = review.to /\ review.digest.merged = review.shown
    BY <1>2 DEF PacksInv, ReviewOK
  <2>. QED BY <2>2, <2>3, <2>4 DEF PromotionDigest
<1>. QED BY <1>1, <1>2 DEF AppliesReview

(* A projection or a promotion is of what was reviewed, and goes into a home *)
(* at rest, whatever changes between review and application.                 *)
(* configpack.go:451, store/configuration_packs.go:382.                      *)
THEOREM ReviewsAreApplied ==
  ASSUME PacksAssumption PROVE ConfigurationSpec => ProjectionReviewed
<1>1. ConfigurationInit => PacksInv
  BY PacksInvHolds
<1>2. PacksInv /\ [ConfigurationNext]_configurationVars => PacksInv'
  BY PacksStep
<1>3. PacksInv /\ [ConfigurationNext]_configurationVars => [AppliesReview]_configurationVars
  BY AppliesReviewStep
<1>4. PacksInv /\ [ConfigurationNext]_configurationVars => [RestingHome]_configurationVars
  BY RestingHomeStep
<1>5. ConfigurationSpec => [][AppliesReview]_configurationVars
  BY <1>1, <1>2, <1>3, PTL DEF ConfigurationSpec
<1>6. ConfigurationSpec => [][RestingHome]_configurationVars
  BY <1>1, <1>2, <1>4, PTL DEF ConfigurationSpec
<1>. QED BY <1>5, <1>6 DEF ProjectionReviewed, ReviewIsApplied, HomeAtRest, AppliesReview,
     RestingHome

-----------------------------------------------------------------------------
(* The configuration import.                                                 *)

(* The answers are to the conflicts that the digest tells of.                *)
AnswersFit ==
    import # NoImport =>
        /\ import.digest.bundle = import.bundle /\ import.digest.shown = import.seen
        /\ DOMAIN import.answers = DOMAIN import.digest.conflicts
        /\ \A e \in DOMAIN import.answers : import.answers[e] \in import.digest.conflicts[e]

(* The invariant of the import.                                              *)
ImportInv == ImportTypeOK /\ AnswersFit

(* An import goes ahead where the store looks as it did at the preview, with *)
(* answers that are answers to what conflicts now.                           *)
LEMMA AnswersStillFit ==
  ASSUME ImportInv, ApplyImport
  PROVE  /\ import.bundle \in Bundles
         /\ import.seen = exportConfiguration
         /\ DOMAIN import.answers = Conflicting(import.bundle)
         /\ \A e \in Conflicting(import.bundle) : import.answers[e] \in Resolutions(import.bundle, e)
<1>1. /\ import # NoImport /\ ConfirmationDigest(import.bundle) = import.digest
      /\ import.bundle \in Bundles
  BY DEF ApplyImport, ImportInv, ImportTypeOK
<1>2. /\ import.digest.shown = exportConfiguration
      /\ import.digest.conflicts = [e \in Conflicting(import.bundle) |-> Resolutions(import.bundle, e)]
  BY <1>1 DEF ConfirmationDigest
<1>. QED BY <1>1, <1>2 DEF ImportInv, AnswersFit

(* What the preview cannot show is never taken.                              *)
LEMMA HiddenStays ==
  ASSUME ImportInv, ImportAssumption, ApplyImport, NEW e \in hidden
  PROVE  ~Taken(e)
<1>. SUFFICES ASSUME Taken(e) PROVE FALSE
  OBVIOUS
<1>1. /\ e \in Entries \ {"preferences"} /\ local[e] # Missing /\ import.bundle[e] # Missing
      /\ exportConfiguration[e] = Missing
  BY DEF ImportInv, ImportTypeOK, Taken, exportConfiguration
<1>2. CASE "profile" \in hidden /\ e \in {"profile", "threshold"}
  <2>1. "profile" \in Conflicting(import.bundle)
    BY <1>1, <1>2, AnswersStillFit DEF Conflicting, Bundles, Entries
  <2>2. import.answers["profile"] = "skip"
    BY <1>2, <2>1, AnswersStillFit DEF Resolutions
  <2>. QED BY <1>2, <2>1, <2>2, AnswersStillFit DEF Taken, Wanted
<1>3. CASE e = "project"
  <2>1. "project" \in Conflicting(import.bundle)
    BY <1>1, <1>3 DEF Conflicting
  <2>2. import.answers["project"] = "skip"
    BY <1>1, <1>3, <2>1, AnswersStillFit DEF Resolutions
  <2>. QED BY <1>3, <2>1, <2>2, AnswersStillFit DEF Taken, Wanted
<1>4. CASE e = "pack"
  BY <1>1, <1>4 DEF Taken
<1>. QED BY <1>1, <1>2, <1>3, <1>4 DEF Entries, ImportInv, ImportTypeOK

(* What an import replaces was seen, and answered for if it was there.       *)
LEMMA OverwrittenSeen ==
  ASSUME ImportInv, ImportAssumption, ApplyImport, NEW e \in Entries, local'[e] # local[e]
  PROVE  /\ import.seen[e] = local[e]
         /\ local[e] # Missing => e \in DOMAIN import.answers /\ import.answers[e] = "use_imported"
<1>1. Taken(e) /\ import.bundle[e] # local[e]
  BY DEF ApplyImport
<1>2. e \notin hidden
  BY <1>1, HiddenStays
<1>3. exportConfiguration[e] = local[e]
  BY <1>2 DEF exportConfiguration
<1>4. local[e] # Missing => e \in Conflicting(import.bundle)
  BY <1>1, <1>3 DEF Conflicting, Taken
<1>. QED BY <1>1, <1>3, <1>4, AnswersStillFit DEF Taken, Wanted

(* An import leaves a configuration that makes sense.                        *)
LEMMA AppliedTyped ==
  ASSUME ImportInv, ImportAssumption, ApplyImport PROVE ImportTypeOK'
<1>1. /\ import.bundle \in Bundles /\ local \in Configurations
      /\ local' = [e \in Entries |-> IF Taken(e) THEN import.bundle[e] ELSE local[e]]
      /\ UNCHANGED <<hidden, import, localChanges>>
  BY AnswersStillFit DEF ApplyImport, ImportInv, ImportTypeOK
<1>2. \A e \in Entries : Taken(e) => import.bundle[e] \in Values
  BY <1>1, ImportAssumption DEF Taken, Bundles, ImportAssumption
<1>3. local' \in Configurations
  BY <1>1, <1>2 DEF Configurations
<1>4. \A e \in Entries : local[e] # Missing => local'[e] # Missing
  BY <1>1 DEF Taken
<1>5. ASSUME Taken("threshold")
      PROVE  local'["profile"] # Missing /\ "profile" \notin hidden /\ "threshold" \notin hidden
  <2>1. import.bundle["profile"] # Missing
    BY <1>1, <1>5 DEF Taken, Bundles, Entries
  <2>2. "profile" \notin hidden
    <3>. SUFFICES ASSUME "profile" \in hidden PROVE FALSE
      OBVIOUS
    <3>1. "profile" \in Conflicting(import.bundle)
      BY <2>1 DEF Conflicting, Entries
    <3>. QED BY <3>1, <1>5, AnswersStillFit DEF Resolutions, Taken, Wanted
  <2>3. local'["profile"] # Missing
    <3>1. CASE "profile" \in Conflicting(import.bundle)
      BY <2>2, <3>1, <1>4 DEF Conflicting, exportConfiguration, Entries
    <3>2. CASE "profile" \notin Conflicting(import.bundle)
      <4>1. Taken("profile")
        BY <2>1, <3>2, AnswersStillFit DEF Taken, Wanted
      <4>. QED BY <4>1, <2>1, <1>1 DEF Entries
    <3>. QED BY <3>1, <3>2
  <2>4. "threshold" \notin hidden
    BY <1>5, HiddenStays
  <2>. QED BY <2>2, <2>3, <2>4
<1>6. ~Taken("threshold") => local'["threshold"] = local["threshold"]
  BY <1>1 DEF Entries
<1>7. local'["preferences"] # Missing
  BY <1>4 DEF ImportInv, ImportTypeOK, Entries
<1>8. hidden' \subseteq {e \in Entries \ {"preferences"} : local'[e] # Missing}
  BY <1>1, <1>4 DEF ImportInv, ImportTypeOK
<1>9. local'["threshold"] # Missing =>
         local'["profile"] # Missing /\ ("threshold" \in hidden' <=> "profile" \in hidden')
  BY <1>1, <1>4, <1>5, <1>6 DEF ImportInv, ImportTypeOK, Entries
<1>. QED BY <1>1, <1>3, <1>7, <1>8, <1>9 DEF ImportInv, ImportTypeOK

(* The invariant holds of the first states.                                  *)
LEMMA ImportInvHolds ==
  ASSUME ImportInit, ImportAssumption PROVE ImportInv
BY DEF ImportInit, ImportAssumption, ImportInv, ImportTypeOK, AnswersFit

(* Every step of an import and every change of the store keeps the           *)
(* invariant.                                                                *)
LEMMA ImportStep ==
  ASSUME ImportInv, [ImportNext]_importVars, ImportAssumption PROVE ImportInv'
<1>. USE ImportAssumption DEF ImportAssumption, ImportInv, ImportTypeOK, AnswersFit,
     Configurations,
         Entries, LocalChange
<1>1. CASE UNCHANGED importVars
  BY <1>1 DEF importVars
<1>2. ASSUME NEW b \in Bundles, PreviewImport(b)
      PROVE  ImportInv'
  BY <1>2 DEF PreviewImport, ConfirmationDigest
<1>3. CASE ApplyImport
  BY <1>3, AppliedTyped DEF ApplyImport
<1>4. CASE DropImport
  BY <1>4 DEF DropImport
<1>5. ASSUME NEW e \in Entries, NEW value \in Values, SetLocally(e, value)
      PROVE  ImportInv'
  BY <1>5 DEF SetLocally
<1>6. CASE ApproveDraft
  BY <1>6 DEF ApproveDraft
<1>7. CASE SecondProject
  BY <1>7 DEF SecondProject
<1>8. CASE Quarantine
  <2>1. /\ hidden' = hidden \cup {e \in {"profile", "threshold"} : local[e] # Missing}
        /\ local["profile"] # Missing /\ UNCHANGED <<local, import>>
    BY <1>8 DEF Quarantine
  <2>2. /\ "profile" \in hidden'
        /\ "threshold" \in hidden' <=> "threshold" \in hidden \/ local["threshold"] # Missing
    BY <2>1
  <2>3. hidden' \subseteq {e \in Entries \ {"preferences"} : local'[e] # Missing}
    BY <2>1
  <2>. QED BY <1>8, <2>1, <2>2, <2>3 DEF Quarantine
<1>9. CASE Restore
  BY <1>9 DEF Restore
<1>10. CASE Purge
  BY <1>10 DEF Purge, OfProfile
<1>. QED BY <1>1, <1>2, <1>3, <1>4, <1>5, <1>6, <1>7, <1>8, <1>9, <1>10 DEF ImportNext

(* The two parts of the property, as steps.                                  *)
OverwritesSeen ==
  ApplyImport =>
      \A e \in Entries : local'[e] # local[e] =>
          /\ import.seen[e] = local[e]
          /\ local[e] # Missing => e \in DOMAIN import.answers /\ import.answers[e] = "use_imported"

(* What is hidden from the preview stays as it is.                           *)
LeavesHidden == ApplyImport => \A e \in hidden : local'[e] = local[e]

(* An import replaces only what its preview showed and what the answers      *)
(* allow, and leaves alone what the preview hid: for any bundles and values. *)
(* store/configuration_bundle.go:231, :167.                                  *)
THEOREM ImportsAreReviewed == ASSUME ImportAssumption PROVE ImportSpec => ImportReviewed
<1>1. ImportInit => ImportInv
  BY ImportInvHolds
<1>2. ImportInv /\ [ImportNext]_importVars => ImportInv'
  BY ImportStep
<1>3. ImportInv /\ [ImportNext]_importVars => [OverwritesSeen]_importVars
  BY OverwrittenSeen DEF OverwritesSeen
<1>4. ImportInv /\ [ImportNext]_importVars => [LeavesHidden]_importVars
  BY HiddenStays DEF LeavesHidden, ApplyImport, ImportInv, ImportTypeOK
<1>5. ImportInv => ImportTypeOK
  BY DEF ImportInv
<1>6. ImportSpec => []ImportTypeOK
  BY <1>1, <1>2, <1>5, PTL DEF ImportSpec
<1>7. ImportSpec => [][OverwritesSeen]_importVars
  BY <1>1, <1>2, <1>3, PTL DEF ImportSpec
<1>8. ImportSpec => [][LeavesHidden]_importVars
  BY <1>1, <1>2, <1>4, PTL DEF ImportSpec
<1>. QED BY <1>6, <1>7, <1>8 DEF ImportReviewed, OverwritesOnlySeen, HiddenUntouched,
            OverwritesSeen, LeavesHidden
-----------------------------------------------------------------------------
(***************************************************************************)
(* The projection of packs into an Identity Home, for any number of files, *)
(* contents and edits.  The invariant follows each file through the steps  *)
(* of the projection and of its rollback: it is in its place, or in the    *)
(* stage directory, or it has been replaced.                               *)
(***************************************************************************)

(* The entries that come before step s.                                      *)
Passed(s) == {Steps[i] : i \in 1..(s - 1)}

(* What the projection replaces, but for the manifest.                       *)
Touched == job.affected \ job.preserved

HasBackup(e) == \E b \in job.backups : b[1] = e

(* A file of a pack is the one that was there before.                        *)
AsBefore(p, content) == content \in PackContents => content = job.before.files[p]

(* What the projection has read, and what it concluded.                      *)
ReadOnce ==
    /\ job.existed = {p \in PathSet : job.before.files[p] # Absent}
    /\ job.affected = {p \in PathSet : job.files[p] # Absent \/ job.before.tracking[p] # Absent}
    /\ \A p \in job.preserved : job.before.files[p] # Absent /\ job.before.files[p] # job.before.tracking[p]
    /\ \A p \in PathSet : job.tracking[p] = IF p \in job.preserved THEN Absent ELSE job.files[p]
    /\ \A p \in PathSet \ interrupted :
          job.before.files[p] \in PackContents => job.before.tracking[p] = job.before.files[p]
    /\ \A p \in PathSet : localChange[p] # Absent => p \notin Touched

(* Where it stands.                                                          *)
Standing ==
    /\ job.pc # "move" => job.step <= Len(Steps)
    /\ job.pc # "rollback" => job.step >= 1 /\ job.restored
    /\ job.installed \subseteq Touched \cup {Manifest}
    /\ \A b \in job.backups : b[1] \in Touched \cup {Manifest}

(* What it has not come to is untouched, what it has come to is replaced.    *)
Progress ==
    /\ job.pc = "move" =>
          \A e \in (PathSet \cup {Manifest}) \ Passed(job.step) : e \notin job.installed /\ ~HasBackup(e)
    /\ job.pc = "install" =>
          /\ \A e \in (PathSet \cup {Manifest}) \ Passed(job.step + 1) : e \notin job.installed /\ ~HasBackup(e)
          /\ Entry \notin job.installed
          /\ Entry \in PathSet => Entry \in Touched /\ homeFiles[Entry] \notin PackContents
          /\ Entry \in job.existed => HasBackup(Entry)
    /\ job.pc # "rollback" =>
          \A p \in Touched \cap Passed(job.step) :
              homeFiles[p] \in PackContents => homeFiles[p] = job.files[p]

(* Nothing of the files is lost: each is in its place or in the stage        *)
(* directory, unless somebody else has written it.                           *)
FilesRecoverable ==
    /\ \A p \in PathSet : p \notin job.installed /\ ~HasBackup(p) => AsBefore(p, homeFiles[p])
    /\ \A b \in job.backups : b[1] \in PathSet =>
          AsBefore(b[1], b[2]) /\ (b[1] \notin job.edited => b[2] = job.before.files[b[1]])
    /\ \A p \in PathSet \ job.edited : (job.pc = "rollback" => p \in Passed(job.step + 1)) =>
          \/ homeFiles[p] = job.before.files[p] /\ p \notin job.installed /\ ~HasBackup(p)
          \/ HasBackup(p)
          \/ job.before.files[p] = Absent /\ p \in job.installed
    /\ \A p \in PathSet : job.pc = "rollback" /\ p \notin Passed(job.step + 1) =>
          /\ job.restored => AsBefore(p, homeFiles[p])
          /\ p \notin job.edited =>
                \/ homeFiles[p] = job.before.files[p]
                \/ ~job.restored /\ (HasBackup(p) \/ job.before.files[p] = Absent)

(* Nor is anything of the manifest.                                          *)
ManifestRecoverable ==
    /\ \A b \in job.backups : b[1] = Manifest => b[2] = job.before.tracking
    /\ job.pc = "move" /\ job.step = 1 => tracked = job.before.tracking
    /\ job.pc = "install" /\ job.step = 1 => HasBackup(Manifest)
    /\ job.pc # "rollback" /\ job.step > 1 => HasBackup(Manifest) /\ tracked = job.tracking
    /\ job.pc = "rollback" /\ job.step >= 1 =>
          \/ tracked = job.before.tracking /\ ~HasBackup(Manifest) /\ Manifest \notin job.installed
          \/ HasBackup(Manifest)
    /\ job.pc = "rollback" /\ job.step = 0 =>
          tracked = job.before.tracking \/ (~job.restored /\ HasBackup(Manifest))

HomeTyped ==
    /\ homeFiles \in [PathSet -> Contents \cup {Absent}] /\ tracked \in Tracking
    /\ edits \in 0..MaxEdits
    /\ localChange \in [PathSet -> LocalContents \cup {Absent}] /\ interrupted \subseteq PathSet
    /\ job # NoJob => job \in Jobs

(* The invariant of the projections.                                         *)
JobInv == ReadOnce /\ Standing /\ Progress /\ FilesRecoverable /\ ManifestRecoverable
HomeInv ==
    /\ HomeTyped /\ LocalKept /\ NothingForgotten
    /\ job # NoJob => JobInv

(* The steps begin with the manifest, and each path has one.                 *)
LEMMA StepsFacts ==
  ASSUME ProjectionAssumption
  PROVE  /\ Len(Steps) \in Nat /\ Len(Steps) >= 2 /\ Steps[1] = Manifest
         /\ \A i \in 2..Len(Steps) : Steps[i] \in PathSet
         /\ \A p \in PathSet : \E i \in 2..Len(Steps) : Steps[i] = p
         /\ \A i, j \in 1..Len(Steps) : Steps[i] = Steps[j] => i = j
<1>1. /\ Paths \in Seq(PathSet) /\ Len(Paths) >= 1 /\ Manifest \notin PathSet
      /\ \A i, j \in DOMAIN Paths : Paths[i] = Paths[j] => i = j
      /\ PathSet = {Paths[i] : i \in DOMAIN Paths}
  BY DEF ProjectionAssumption, PathSet, Range
<1>2. /\ Len(Steps) = Len(Paths) + 1 /\ Len(Paths) \in Nat /\ DOMAIN Paths = 1..Len(Paths)
      /\ \A i \in 1..Len(Steps) : Steps[i] = IF i = 1 THEN Manifest ELSE Paths[i - 1]
  BY <1>1 DEF Steps
<1>3. \A i \in 2..Len(Steps) : i - 1 \in DOMAIN Paths /\ Steps[i] = Paths[i - 1]
  BY <1>2
<1>4. \A i \in DOMAIN Paths : i + 1 \in 2..Len(Steps) /\ Steps[i + 1] = Paths[i]
  BY <1>2
<1>5. ASSUME NEW i \in 1..Len(Steps), NEW j \in 1..Len(Steps), Steps[i] = Steps[j] PROVE i = j
  <2>1. CASE i = 1 \/ j = 1 BY <2>1, <1>1, <1>2, <1>3, <1>5
  <2>2. CASE i # 1 /\ j # 1
    <3>1. i \in 2..Len(Steps) /\ j \in 2..Len(Steps) BY <2>2, <1>2
    <3>2. i - 1 = j - 1 BY <3>1, <1>3, <1>1, <1>5
    <3>. QED BY <3>2, <1>2
  <2>. QED BY <2>1, <2>2
<1>6. \A p \in PathSet : \E i \in 2..Len(Steps) : Steps[i] = p BY <1>1, <1>4
<1>7. \A i \in 2..Len(Steps) : Steps[i] \in PathSet BY <1>1, <1>3
<1>8. Len(Steps) \in Nat /\ Len(Steps) >= 2 /\ Steps[1] = Manifest BY <1>1, <1>2
<1>. QED BY <1>5, <1>6, <1>7, <1>8

(* What is passed grows by the entry, and in the end is everything.          *)
LEMMA PassedFacts ==
  ASSUME ProjectionAssumption
  PROVE  /\ Len(Steps) \in Nat /\ Len(Steps) >= 2
         /\ Passed(1) = {} /\ Passed(Len(Steps) + 1) = PathSet \cup {Manifest}
         /\ \A s \in 1..Len(Steps) :
               /\ Passed(s + 1) = Passed(s) \cup {Steps[s]} /\ Steps[s] \notin Passed(s)
               /\ Steps[s] \in PathSet \cup {Manifest} /\ (Steps[s] = Manifest <=> s = 1)
         /\ Manifest \notin PathSet
<1>1. /\ Len(Steps) \in Nat /\ Len(Steps) >= 2 /\ Steps[1] = Manifest
      /\ \A i \in 2..Len(Steps) : Steps[i] \in PathSet
      /\ \A p \in PathSet : \E i \in 2..Len(Steps) : Steps[i] = p
      /\ \A i, j \in 1..Len(Steps) : Steps[i] = Steps[j] => i = j
  BY StepsFacts
<1>2. Manifest \notin PathSet BY DEF ProjectionAssumption
<1>3. Passed(1) = {} BY DEF Passed
<1>4. Passed(Len(Steps) + 1) = PathSet \cup {Manifest}
  <2>1. Passed(Len(Steps) + 1) = {Steps[i] : i \in 1..Len(Steps)} BY <1>1 DEF Passed
  <2>2. \A i \in 1..Len(Steps) : i = 1 \/ i \in 2..Len(Steps) BY <1>1
  <2>3. \A i \in 2..Len(Steps) : i \in 1..Len(Steps) BY <1>1
  <2>. QED BY <2>1, <2>2, <2>3, <1>1
<1>5. ASSUME NEW s \in 1..Len(Steps)
      PROVE /\ Passed(s + 1) = Passed(s) \cup {Steps[s]} /\ Steps[s] \notin Passed(s)
            /\ Steps[s] \in PathSet \cup {Manifest} /\ (Steps[s] = Manifest <=> s = 1)
  <2>1. 1..(s + 1 - 1) = (1..(s - 1)) \cup {s} BY <1>1
  <2>2. Passed(s + 1) = Passed(s) \cup {Steps[s]} BY <2>1 DEF Passed
  <2>3. \A i \in 1..(s - 1) : i \in 1..Len(Steps) /\ i # s BY <1>1
  <2>4. Steps[s] \notin Passed(s) BY <2>3, <1>1 DEF Passed
  <2>5. s = 1 \/ s \in 2..Len(Steps) BY <1>1
  <2>. QED BY <2>2, <2>4, <2>5, <1>1, <1>2
<1>. QED BY <1>1, <1>2, <1>3, <1>4, <1>5

(* The kinds of content are told apart.                                      *)
LEMMA ContentFacts ==
  ASSUME ProjectionAssumption
  PROVE  /\ \A l \in LocalContents : l \notin PackContents /\ l # Absent /\ l # Legacy
         /\ Absent \notin PackContents /\ Absent \notin LocalContents
         /\ Legacy \notin PackContents /\ Legacy # Absent
         /\ NoJob \notin Jobs /\ MaxEdits \in Nat
BY DEF ProjectionAssumption, Contents

LEMMA HomeBegins ==
  ASSUME ProjectionAssumption, ProjectionInit PROVE HomeInv
<1>1. HomeTyped
  BY ContentFacts DEF ProjectionInit, HomeTyped, Tracking, Contents
<1>2. LocalKept /\ NothingForgotten
  BY ContentFacts DEF ProjectionInit, LocalKept, NothingForgotten
<1>. QED BY <1>1, <1>2 DEF HomeInv, ProjectionInit

(* What a projection reads tells it what is not its own.                     *)
LEMMA StartKeeps ==
  ASSUME ProjectionAssumption, HomeInv, NEW files \in FileSets, StartProjection(files)
  PROVE  HomeInv'
<1>1. /\ job' \in Jobs /\ job'.pc = "move" /\ job'.step = 1 /\ job'.files = files
      /\ job'.tracking = NewTracking(files) /\ job'.preserved = Conflicts(files)
      /\ job'.affected = Affected(files)
      /\ job'.existed = {p \in PathSet : homeFiles[p] # Absent}
      /\ job'.before.files = homeFiles /\ job'.before.tracking = tracked
      /\ job'.backups = {} /\ job'.installed = {} /\ job'.restored = TRUE /\ job'.edited = {}
  <2>1. job' = [pc |-> "move", step |-> 1, files |-> files, tracking |-> NewTracking(files),
               preserved |-> Conflicts(files), affected |-> Affected(files),
               existed |-> {p \in PathSet : homeFiles[p] # Absent},
               before |-> [files |-> homeFiles, tracking |-> tracked],
               backups |-> {}, installed |-> {}, restored |-> TRUE, edited |-> {}]
    BY DEF StartProjection
  <2>2. files \in [PathSet -> PackContents \cup {Absent}] BY DEF FileSets
  <2>3. NewTracking(files) \in Tracking
    BY <2>2 DEF NewTracking, Tracking
  <2>4. Conflicts(files) \in SUBSET PathSet /\ Affected(files) \in SUBSET PathSet
        /\ {p \in PathSet : homeFiles[p] # Absent} \in SUBSET PathSet
    BY DEF Conflicts, Affected
  <2>5. 1 \in 0..Len(Steps) + 1 BY StepsFacts
  <2>6. homeFiles \in [PathSet -> Contents \cup {Absent}] /\ tracked \in Tracking
    BY DEF HomeInv, HomeTyped
  <2>. QED BY <2>1, <2>2, <2>3, <2>4, <2>5, <2>6 DEF Jobs
<1>2. UNCHANGED <<homeFiles, tracked, edits, localChange, interrupted>> /\ job = NoJob
  BY DEF StartProjection
<1>3. HomeTyped' BY <1>1, <1>2 DEF HomeInv, HomeTyped
<1>4. job' # NoJob BY <1>1, ContentFacts
<1>5. LocalKept' /\ NothingForgotten'
  BY <1>2, <1>4 DEF HomeInv, LocalKept, NothingForgotten
<1>6. /\ homeFiles \in [PathSet -> Contents \cup {Absent}] /\ tracked \in Tracking
      /\ files \in [PathSet -> PackContents \cup {Absent}]
      /\ localChange \in [PathSet -> LocalContents \cup {Absent}]
  BY DEF HomeInv, HomeTyped, FileSets
<1>7. ReadOnce'
  <2>1. \A p \in Conflicts(files) : p \in PathSet /\ homeFiles[p] # Absent /\ homeFiles[p] # tracked[p]
    BY DEF Conflicts, Own
  <2>2. \A p \in PathSet \ interrupted : homeFiles[p] \in PackContents => tracked[p] = homeFiles[p]
    BY <1>2 DEF HomeInv, NothingForgotten
  <2>3. ASSUME NEW p \in PathSet, localChange[p] # Absent PROVE p \notin Affected(files) \ Conflicts(files)
    <3>1. homeFiles[p] \in LocalContents /\ homeFiles[p] # Absent
      BY <2>3, <1>6, ContentFacts DEF HomeInv, LocalKept
    <3>2. tracked[p] \in PackContents \cup {Legacy, Absent} BY <1>6 DEF Tracking
    <3>3. homeFiles[p] # tracked[p] /\ homeFiles[p] # files[p] BY <3>1, <3>2, <1>6, ContentFacts
    <3>. QED BY <3>1, <3>3 DEF Affected, Conflicts, Own
  <2>4. \A p \in PathSet : NewTracking(files)[p] = IF p \in Conflicts(files) THEN Absent ELSE files[p]
    BY DEF NewTracking
  <2>. QED BY <1>1, <1>2, <2>1, <2>2, <2>3, <2>4 DEF ReadOnce, Touched, Affected
<1>8. Standing' BY <1>1 DEF Standing
<1>9. Progress' BY <1>1, PassedFacts DEF Progress, HasBackup
<1>10. FilesRecoverable'
  BY <1>1, <1>2 DEF FilesRecoverable, HasBackup, AsBefore
<1>11. ManifestRecoverable'
  BY <1>1, <1>2 DEF ManifestRecoverable, HasBackup
<1>. QED BY <1>3, <1>5, <1>7, <1>8, <1>9, <1>10, <1>11 DEF HomeInv, JobInv

(* Whoever writes in the home is remembered.                                 *)
LEMMA EditKeeps ==
  ASSUME ProjectionAssumption, HomeInv, NEW p \in PathSet, NEW content \in LocalContents \cup {Absent},
         EditHome(p, content)
  PROVE  HomeInv'
<1>1. /\ homeFiles' = [homeFiles EXCEPT ![p] = content] /\ edits' = edits + 1 /\ edits < MaxEdits
      /\ UNCHANGED <<tracked, interrupted>>
  BY DEF EditHome
<1>2. /\ homeFiles \in [PathSet -> Contents \cup {Absent}] /\ tracked \in Tracking /\ edits \in 0..MaxEdits
      /\ localChange \in [PathSet -> LocalContents \cup {Absent}] /\ interrupted \subseteq PathSet
      /\ job # NoJob => job \in Jobs
  BY DEF HomeInv, HomeTyped
<1>3. /\ homeFiles' \in [PathSet -> Contents \cup {Absent}] /\ edits' \in 0..MaxEdits
      /\ homeFiles'[p] = content /\ \A q \in PathSet : q # p => homeFiles'[q] = homeFiles[q]
  BY <1>1, <1>2, ContentFacts DEF Contents
<1>4. content \notin PackContents BY ContentFacts
<1>5. CASE job = NoJob
  <2>1. localChange' = [localChange EXCEPT ![p] = content] /\ job' = job BY <1>5 DEF EditHome
  <2>2. /\ localChange' \in [PathSet -> LocalContents \cup {Absent}]
        /\ localChange'[p] = content /\ \A q \in PathSet : q # p => localChange'[q] = localChange[q]
    BY <2>1, <1>2
  <2>3. HomeTyped' BY <2>1, <2>2, <1>1, <1>2, <1>3, <1>5 DEF HomeTyped
  <2>4. LocalKept' BY <2>2, <1>3 DEF HomeInv, LocalKept
  <2>5. NothingForgotten' BY <2>1, <1>1, <1>3, <1>4, <1>5 DEF HomeInv, NothingForgotten
  <2>. QED BY <2>1, <2>3, <2>4, <2>5, <1>5 DEF HomeInv
<1>6. CASE job # NoJob
  <2>1. localChange' = [localChange EXCEPT ![p] = Absent] /\ job' = [job EXCEPT !.edited = @ \cup {p}]
    BY <1>6 DEF EditHome
  <2>2. /\ localChange' \in [PathSet -> LocalContents \cup {Absent}]
        /\ localChange'[p] = Absent /\ \A q \in PathSet : q # p => localChange'[q] = localChange[q]
    BY <2>1, <1>2
  <2>3. /\ job' \in Jobs /\ job'.pc = job.pc /\ job'.step = job.step /\ job'.files = job.files
        /\ job'.tracking = job.tracking /\ job'.preserved = job.preserved
        /\ job'.affected = job.affected /\ job'.existed = job.existed /\ job'.before = job.before
        /\ job'.backups = job.backups /\ job'.installed = job.installed
        /\ job'.restored = job.restored /\ job'.edited = job.edited \cup {p}
    <3>1. job \in Jobs BY <1>2, <1>6
    <3>. QED BY <3>1, <2>1 DEF Jobs
  <2>4. JobInv BY <1>6 DEF HomeInv
  <2>5. HomeTyped' BY <2>2, <2>3, <1>1, <1>2, <1>3 DEF HomeTyped
  <2>6. LocalKept' BY <2>2, <1>3 DEF HomeInv, LocalKept
  <2>7. NothingForgotten' BY <2>3, ContentFacts DEF NothingForgotten
  <2>8. ReadOnce' BY <2>2, <2>3, <2>4, <1>1 DEF JobInv, ReadOnce, Touched
  <2>9. Standing' BY <2>3, <2>4 DEF JobInv, Standing, Touched
  <2>10. Progress'
    BY <2>3, <2>4, <1>3, <1>4 DEF JobInv, Progress, Touched, HasBackup, Entry, ReadOnce
  <2>11. FilesRecoverable'
    BY <2>3, <2>4, <1>3, <1>4 DEF JobInv, FilesRecoverable, HasBackup, AsBefore
  <2>12. ManifestRecoverable'
    BY <2>3, <2>4, <1>1 DEF JobInv, ManifestRecoverable, HasBackup
  <2>. QED BY <2>5, <2>6, <2>7, <2>8, <2>9, <2>10, <2>11, <2>12 DEF HomeInv, JobInv
<1>. QED BY <1>5, <1>6

(* A projection that ends leaves what its files and the manifest say.        *)
LEMMA FinishKeeps ==
  ASSUME ProjectionAssumption, HomeInv, FinishProjection PROVE HomeInv'
<1>1. /\ job # NoJob /\ job \in Jobs /\ job.pc = "move" /\ job.step > Len(Steps) /\ job' = NoJob
      /\ UNCHANGED <<homeFiles, tracked, edits, localChange, interrupted>>
  BY DEF FinishProjection, HomeInv, HomeTyped
<1>2. JobInv BY <1>1 DEF HomeInv
<1>3. job.step = Len(Steps) + 1 BY <1>1, StepsFacts DEF Jobs
<1>4. Passed(job.step) = PathSet \cup {Manifest} /\ job.step > 1 BY <1>3, PassedFacts
<1>5. tracked = job.tracking BY <1>1, <1>2, <1>4 DEF JobInv, ManifestRecoverable
<1>6. ASSUME NEW p \in PathSet \ interrupted, homeFiles[p] \in PackContents PROVE tracked[p] = homeFiles[p]
  <2>1. CASE p \in Touched
    <3>1. homeFiles[p] = job.files[p] BY <2>1, <1>6, <1>1, <1>2, <1>4 DEF JobInv, Progress
    <3>. QED BY <3>1, <2>1, <1>2, <1>5 DEF JobInv, ReadOnce, Touched
  <2>2. CASE p \notin Touched
    <3>1. p \notin job.installed /\ ~HasBackup(p)
      BY <2>2, <1>2, PassedFacts DEF JobInv, Standing, HasBackup
    <3>2. homeFiles[p] = job.before.files[p]
      BY <3>1, <1>6, <1>2 DEF JobInv, FilesRecoverable, AsBefore
    <3>3. job.before.tracking[p] = job.before.files[p] BY <3>2, <1>6, <1>2 DEF JobInv, ReadOnce
    <3>4. p \notin job.preserved BY <3>3, <1>2 DEF JobInv, ReadOnce
    <3>5. p \in job.affected BY <3>2, <3>3, <1>6, <1>2, ContentFacts DEF JobInv, ReadOnce
    <3>. QED BY <3>4, <3>5, <2>2 DEF Touched
  <2>. QED BY <2>1, <2>2
<1>. QED BY <1>1, <1>6 DEF HomeInv, HomeTyped, LocalKept, NothingForgotten

(* What was not touched is as it was read.                                   *)
LEMMA UntouchedKnown ==
  ASSUME ProjectionAssumption, JobInv, NEW p \in PathSet \ (interrupted \cup job.affected)
  PROVE  homeFiles[p] \notin PackContents
<1>1. p \notin job.installed /\ ~HasBackup(p)
  BY PassedFacts DEF JobInv, Standing, HasBackup, Touched
<1>2. homeFiles[p] \in PackContents => homeFiles[p] = job.before.files[p]
  BY <1>1 DEF JobInv, FilesRecoverable, AsBefore
<1>3. job.before.tracking[p] = Absent BY DEF JobInv, ReadOnce
<1>. QED BY <1>2, <1>3, ContentFacts DEF JobInv, ReadOnce

LEMMA CrashKeeps ==
  ASSUME ProjectionAssumption, HomeInv, CrashProjection PROVE HomeInv'
<1>1. /\ job # NoJob /\ job \in Jobs /\ job' = NoJob /\ interrupted' = interrupted \cup job.affected
      /\ UNCHANGED <<homeFiles, tracked, edits, localChange>>
  BY DEF CrashProjection, HomeInv, HomeTyped
<1>2. JobInv BY <1>1 DEF HomeInv
<1>3. NothingForgotten' BY <1>1, <1>2, UntouchedKnown DEF NothingForgotten
<1>4. job.affected \subseteq PathSet BY <1>1 DEF Jobs
<1>. QED BY <1>1, <1>3, <1>4 DEF HomeInv, HomeTyped, LocalKept

(* So is everything when the rollback could put everything back.             *)
LEMMA FailKeeps ==
  ASSUME ProjectionAssumption, HomeInv, FailProjection PROVE HomeInv'
<1>1. /\ job # NoJob /\ job \in Jobs /\ job.pc = "rollback" /\ job.step = 0 /\ job' = NoJob
      /\ interrupted' = IF job.restored THEN interrupted ELSE interrupted \cup job.affected
      /\ UNCHANGED <<homeFiles, tracked, edits, localChange>>
  BY DEF FailProjection, HomeInv, HomeTyped
<1>2. JobInv BY <1>1 DEF HomeInv
<1>3. NothingForgotten'
  <2>1. CASE ~job.restored BY <2>1, <1>1, <1>2, UntouchedKnown DEF NothingForgotten
  <2>2. CASE job.restored
    <3>1. tracked = job.before.tracking BY <2>2, <1>1, <1>2 DEF JobInv, ManifestRecoverable
    <3>2. Passed(job.step + 1) = {} BY <1>1, PassedFacts
    <3>3. \A p \in PathSet : AsBefore(p, homeFiles[p])
      BY <3>2, <2>2, <1>1, <1>2 DEF JobInv, FilesRecoverable
    <3>4. \A p \in PathSet \ interrupted : homeFiles[p] \in PackContents => tracked[p] = homeFiles[p]
      BY <3>1, <3>3, <1>2 DEF AsBefore, JobInv, ReadOnce
    <3>. QED BY <3>4, <2>2, <1>1 DEF NothingForgotten
  <2>. QED BY <2>1, <2>2
<1>4. job.affected \subseteq PathSet BY <1>1 DEF Jobs
<1>. QED BY <1>1, <1>3, <1>4 DEF HomeInv, HomeTyped, LocalKept

(* A job that moves on keeps what it has read.                               *)
ReadKept ==
    /\ job'.files = job.files /\ job'.tracking = job.tracking /\ job'.preserved = job.preserved
    /\ job'.affected = job.affected /\ job'.existed = job.existed /\ job'.before = job.before
    /\ job'.edited = job.edited

LEMMA ReadOnceStays ==
  ASSUME ReadOnce, ReadKept, UNCHANGED <<localChange, interrupted>> PROVE ReadOnce'
BY DEF ReadOnce, ReadKept, Touched

(* Advancing moves the place, and no more.                                   *)
LEMMA AdvanceFacts ==
  ASSUME ProjectionAssumption, NEW moved \in Jobs, job \in Jobs,
         job.step \in 1..Len(Steps), job' = Advance(moved)
  PROVE  /\ job' \in Jobs /\ job'.pc = "move" /\ job'.step = job.step + 1
         /\ job'.files = moved.files /\ job'.tracking = moved.tracking
         /\ job'.preserved = moved.preserved /\ job'.affected = moved.affected
         /\ job'.existed = moved.existed /\ job'.before = moved.before
         /\ job'.edited = moved.edited /\ job'.backups = moved.backups
         /\ job'.installed = moved.installed /\ job'.restored = moved.restored
<1>1. Len(Steps) \in Nat /\ Len(Steps) >= 2 BY StepsFacts
<1>2. job' = [moved EXCEPT !.step = job.step + 1, !.pc = "move"]
  BY DEF Advance
<1>3. job.step + 1 \in 0..Len(Steps) + 1 BY <1>1
<1>. QED BY <1>2, <1>3 DEF Jobs

(* Where the entry stands.                                                   *)
LEMMA EntryFacts ==
  ASSUME ProjectionAssumption, job \in Jobs, job.step \in 1..Len(Steps)
  PROVE  /\ Passed(job.step + 1) = Passed(job.step) \cup {Entry} /\ Entry \notin Passed(job.step)
         /\ Entry \in PathSet \cup {Manifest} /\ (Entry = Manifest <=> job.step = 1)
         /\ Manifest \notin PathSet
BY PassedFacts DEF Entry

LEMMA SkipKeeps ==
  ASSUME ProjectionAssumption, HomeInv, Skip PROVE HomeInv'
<1>1. /\ job # NoJob /\ job \in Jobs /\ job.pc = "move" /\ job.step <= Len(Steps) /\ Skipped
      /\ job' = Advance(job) /\ JobInv
      /\ UNCHANGED <<homeFiles, tracked, edits, localChange, interrupted>>
  BY DEF Skip, HomeInv, HomeTyped
<1>2. job.step \in 1..Len(Steps) BY <1>1, StepsFacts DEF JobInv, Standing, Jobs
<1>3. /\ job' \in Jobs /\ job'.pc = "move" /\ job'.step = job.step + 1 /\ ReadKept
      /\ job'.backups = job.backups /\ job'.installed = job.installed /\ job'.restored = job.restored
  BY <1>1, <1>2, AdvanceFacts DEF ReadKept
<1>4. HomeTyped' BY <1>1, <1>3 DEF HomeInv, HomeTyped
<1>5. LocalKept' /\ NothingForgotten'
  BY <1>1, <1>3, ContentFacts DEF HomeInv, LocalKept, NothingForgotten
<1>6. ReadOnce' BY <1>1, <1>3, ReadOnceStays DEF JobInv
<1>7. Standing' BY <1>1, <1>2, <1>3 DEF JobInv, Standing, Touched, ReadKept
<1>8. Passed(job'.step) = Passed(job.step) \cup {Entry} /\ Entry \notin Touched
      /\ Entry # Manifest /\ job.step > 1
  <2>1. Entry # Manifest /\ Entry \notin Touched BY <1>1 DEF Skipped, Touched
  <2>2. job.step # 1 BY <2>1, <1>1, <1>2, EntryFacts
  <2>. QED BY <2>1, <2>2, <1>1, <1>2, <1>3, EntryFacts
<1>9. Progress' BY <1>1, <1>3, <1>8 DEF JobInv, Progress, HasBackup, Touched, ReadKept
<1>10. FilesRecoverable'
  BY <1>1, <1>3 DEF JobInv, FilesRecoverable, HasBackup, AsBefore, ReadKept
<1>11. ManifestRecoverable'
  BY <1>1, <1>2, <1>3, <1>8 DEF JobInv, ManifestRecoverable, HasBackup, ReadKept
<1>. QED BY <1>4, <1>5, <1>6, <1>7, <1>9, <1>10, <1>11 DEF HomeInv, JobInv

(* What a failing step leaves can be put back.                               *)
LEMMA FailingKeeps ==
  ASSUME ProjectionAssumption, HomeInv, job # NoJob, job.pc \in {"move", "install"},
         job.step <= Len(Steps), Fail,
         UNCHANGED <<homeFiles, tracked, edits, localChange, interrupted>>
  PROVE  HomeInv'
<1>1. job \in Jobs /\ JobInv BY DEF HomeInv, HomeTyped
<1>2. job.step \in 1..Len(Steps) /\ job.restored
  BY <1>1, StepsFacts DEF JobInv, Standing, Jobs
<1>3. /\ job' \in Jobs /\ job'.pc = "rollback" /\ job'.step = job.step /\ ReadKept
      /\ job'.backups = job.backups /\ job'.installed = job.installed /\ job'.restored = job.restored
  BY <1>1 DEF Fail, Jobs, ReadKept
<1>4. HomeTyped' BY <1>3 DEF HomeInv, HomeTyped
<1>5. LocalKept' /\ NothingForgotten'
  BY <1>3, ContentFacts DEF HomeInv, LocalKept, NothingForgotten
<1>6. ReadOnce' BY <1>1, <1>3, ReadOnceStays DEF JobInv
<1>7. Standing' BY <1>1, <1>3 DEF JobInv, Standing, Touched, ReadKept
<1>8. Progress' BY <1>3 DEF Progress
<1>9. \A p \in PathSet \ Passed(job.step + 1) : p \notin job.installed /\ ~HasBackup(p)
  BY <1>1, <1>2, EntryFacts DEF JobInv, Progress
<1>10. FilesRecoverable'
  BY <1>1, <1>2, <1>3, <1>9 DEF JobInv, FilesRecoverable, HasBackup, AsBefore, ReadKept
<1>11. ManifestRecoverable'
  <2>1. job.pc = "move" /\ job.step = 1 => ~HasBackup(Manifest) /\ Manifest \notin job.installed
    BY <1>1, PassedFacts DEF JobInv, Progress
  <2>. QED BY <2>1, <1>1, <1>2, <1>3 DEF JobInv, ManifestRecoverable, HasBackup, ReadKept
<1>. QED BY <1>4, <1>5, <1>6, <1>7, <1>8, <1>10, <1>11 DEF HomeInv, JobInv

(* What is moved away is in the stage directory.                             *)
LEMMA MoveAwayKeeps ==
  ASSUME ProjectionAssumption, HomeInv, MoveAway PROVE HomeInv'
<1>1. /\ job # NoJob /\ job \in Jobs /\ job.pc = "move" /\ job.step <= Len(Steps) /\ ~Skipped
      /\ JobInv /\ UNCHANGED <<edits, localChange, interrupted>>
  BY DEF MoveAway, HomeInv, HomeTyped
<1>2. job.step \in 1..Len(Steps) /\ job.restored
  BY <1>1, StepsFacts DEF JobInv, Standing, Jobs
<1>3. /\ Passed(job.step + 1) = Passed(job.step) \cup {Entry} /\ Entry \notin Passed(job.step)
      /\ Entry \in PathSet \cup {Manifest} /\ (Entry = Manifest <=> job.step = 1)
      /\ Manifest \notin PathSet
  BY <1>1, <1>2, EntryFacts
<1>4. /\ homeFiles \in [PathSet -> Contents \cup {Absent}] /\ tracked \in Tracking
  BY DEF HomeInv, HomeTyped
<1>5. Entry \notin job.installed /\ ~HasBackup(Entry)
  BY <1>1, <1>3 DEF JobInv, Progress
<1>6. Entry \in PathSet => Entry \in Touched BY <1>1, <1>3 DEF Skipped, Touched
<1>7. CASE Fail /\ UNCHANGED <<homeFiles, tracked>>
  BY <1>7, <1>1, FailingKeeps
<1>8. CASE /\ Entry = Manifest
           /\ job' = [job EXCEPT !.pc = "install", !.backups = {<<Manifest, tracked>>}]
           /\ tracked' = [p \in PathSet |-> Absent]
           /\ UNCHANGED homeFiles
  <2>1. /\ job' \in Jobs /\ job'.pc = "install" /\ job'.step = job.step /\ ReadKept
        /\ job'.backups = {<<Manifest, tracked>>} /\ job'.installed = job.installed
        /\ job'.restored = job.restored
    <3>1. {<<Manifest, tracked>>} \subseteq {Manifest} \X Tracking BY <1>4
    <3>2. job' = [job EXCEPT !.pc = "install", !.backups = {<<Manifest, tracked>>}] BY <1>8
    <3>. QED BY <1>1, <3>1, <3>2 DEF Jobs, ReadKept
  <2>2. HomeTyped' BY <1>1, <1>8, <2>1 DEF HomeInv, HomeTyped, Tracking
  <2>3. LocalKept' /\ NothingForgotten'
    BY <1>1, <1>8, <2>1, ContentFacts DEF HomeInv, LocalKept, NothingForgotten
  <2>4. ReadOnce' BY <1>1, <2>1, ReadOnceStays DEF JobInv
  <2>5. Standing' BY <1>1, <1>2, <2>1 DEF JobInv, Standing, Touched, ReadKept
  <2>6. Entry' = Manifest /\ Passed(job.step) = {} BY <1>3, <1>8, <2>1, PassedFacts DEF Entry
  <2>7. ~\E p \in PathSet : HasBackup(p)
    BY <1>1, <2>6 DEF JobInv, Progress
  <2>8. job.existed \subseteq PathSet BY <1>1 DEF Jobs
  <2>9. \A p \in PathSet : p # Manifest BY <1>3
  <2>10. Progress'
    BY <1>1, <1>3, <1>5, <1>8, <2>1, <2>6, <2>8 DEF JobInv, Progress, HasBackup, Touched, ReadKept
  <2>11. FilesRecoverable'
    BY <1>1, <1>8, <2>1, <2>7, <2>9 DEF JobInv, FilesRecoverable, HasBackup, AsBefore, ReadKept
  <2>12. ManifestRecoverable'
    <3>1. tracked = job.before.tracking BY <1>1, <1>3, <1>8 DEF JobInv, ManifestRecoverable
    <3>2. \A b \in job'.backups : b[1] = Manifest /\ b[2] = tracked BY <2>1
    <3>3. HasBackup(Manifest)' BY <2>1 DEF HasBackup
    <3>. QED BY <3>1, <3>2, <3>3, <1>3, <1>8, <2>1 DEF ManifestRecoverable, ReadKept
  <2>. QED BY <2>2, <2>3, <2>4, <2>5, <2>10, <2>11, <2>12 DEF HomeInv, JobInv
<1>9. CASE /\ Entry # Manifest /\ Entry \in job.existed /\ homeFiles[Entry] # Absent
           /\ job' = [job EXCEPT !.pc = "install",
                                 !.backups = @ \cup {<<Entry, homeFiles[Entry]>>}]
           /\ homeFiles' = [homeFiles EXCEPT ![Entry] = Absent]
           /\ UNCHANGED tracked
  <2>1. Entry \in PathSet /\ Entry \in Touched /\ job.step > 1 BY <1>2, <1>3, <1>6, <1>9
  <2>2. <<Entry, homeFiles[Entry]>> \in PathSet \X (Contents \cup {Absent}) BY <2>1, <1>4
  <2>3. /\ job' \in Jobs /\ job'.pc = "install" /\ job'.step = job.step /\ ReadKept
        /\ job'.backups = job.backups \cup {<<Entry, homeFiles[Entry]>>}
        /\ job'.installed = job.installed /\ job'.restored = job.restored
    BY <1>1, <1>9, <2>2 DEF Jobs, ReadKept
  <2>4. /\ homeFiles' \in [PathSet -> Contents \cup {Absent}] /\ homeFiles'[Entry] = Absent
        /\ \A p \in PathSet : p # Entry => homeFiles'[p] = homeFiles[p]
    BY <1>4, <1>9, <2>1
  <2>5. HomeTyped' BY <1>1, <1>9, <2>3, <2>4 DEF HomeInv, HomeTyped
  <2>6. localChange[Entry] = Absent BY <1>1, <2>1 DEF JobInv, ReadOnce
  <2>7. LocalKept' /\ NothingForgotten'
    BY <1>1, <2>3, <2>4, <2>6, ContentFacts DEF HomeInv, LocalKept, NothingForgotten
  <2>8. ReadOnce' BY <1>1, <2>3, ReadOnceStays DEF JobInv
  <2>9. Standing' BY <1>1, <1>2, <2>1, <2>3 DEF JobInv, Standing, Touched, ReadKept
  <2>10. Entry' = Entry BY <2>3 DEF Entry
  <2>11. ASSUME NEW e PROVE HasBackup(e)' <=> (HasBackup(e) \/ e = Entry)
    <3>1. <<Entry, homeFiles[Entry]>>[1] = Entry OBVIOUS
    <3>2. \A b : b \in job'.backups <=> b \in job.backups \/ b = <<Entry, homeFiles[Entry]>> BY <2>3
    <3>. QED BY <3>1, <3>2, Zenon DEF HasBackup
  <2>12. Progress'
    <3>1. \A e \in (PathSet \cup {Manifest}) \ Passed(job.step + 1) :
             e \notin job.installed /\ ~HasBackup(e) /\ e # Entry
      BY <1>1, <1>3 DEF JobInv, Progress
    <3>2. \A p \in Touched \cap Passed(job.step) :
             homeFiles[p] \in PackContents => homeFiles[p] = job.files[p]
      BY <1>1 DEF JobInv, Progress
    <3>3. \A p \in Touched \cap Passed(job.step) : p \in PathSet /\ p # Entry
      BY <1>1, <1>3 DEF Touched, Jobs
    <3>4. Touched' = Touched BY <2>3 DEF Touched, ReadKept
    <3>. QED BY <3>1, <3>2, <3>3, <3>4, <1>1, <1>5, <2>1, <2>3, <2>4, <2>10, <2>11, ContentFacts
             DEF Progress, ReadKept
  <2>13. Entry \notin job.edited => homeFiles[Entry] = job.before.files[Entry]
    BY <1>1, <1>5, <2>1 DEF JobInv, FilesRecoverable
  <2>14. AsBefore(Entry, homeFiles[Entry])
    BY <1>1, <1>5, <2>1 DEF JobInv, FilesRecoverable
  <2>15. FilesRecoverable'
    BY <1>1, <2>1, <2>3, <2>4, <2>11, <2>13, <2>14 DEF JobInv, FilesRecoverable, AsBefore, ReadKept
  <2>16. ManifestRecoverable'
    BY <1>1, <1>3, <1>9, <2>1, <2>3, <2>11 DEF JobInv, ManifestRecoverable, ReadKept
  <2>. QED BY <2>5, <2>7, <2>8, <2>9, <2>12, <2>15, <2>16 DEF HomeInv, JobInv
<1>10. CASE /\ Entry # Manifest /\ Entry \notin job.existed
            /\ job' = [job EXCEPT !.pc = "install"]
            /\ UNCHANGED <<homeFiles, tracked>>
  <2>1. Entry \in PathSet /\ Entry \in Touched /\ job.step > 1 BY <1>2, <1>3, <1>6, <1>10
  <2>2. /\ job' \in Jobs /\ job'.pc = "install" /\ job'.step = job.step /\ ReadKept
        /\ job'.backups = job.backups /\ job'.installed = job.installed /\ job'.restored = job.restored
    BY <1>1, <1>10 DEF Jobs, ReadKept
  <2>3. HomeTyped' BY <1>1, <1>10, <2>2 DEF HomeInv, HomeTyped
  <2>4. LocalKept' /\ NothingForgotten'
    BY <1>1, <1>10, <2>2, ContentFacts DEF HomeInv, LocalKept, NothingForgotten
  <2>5. ReadOnce' BY <1>1, <2>2, ReadOnceStays DEF JobInv
  <2>6. Standing' BY <1>1, <1>2, <2>2 DEF JobInv, Standing, Touched, ReadKept
  <2>7. Entry' = Entry BY <2>2 DEF Entry
  <2>8. homeFiles[Entry] \notin PackContents
    <3>1. AsBefore(Entry, homeFiles[Entry]) BY <1>1, <1>5, <2>1 DEF JobInv, FilesRecoverable
    <3>2. job.before.files[Entry] = Absent BY <1>1, <1>10, <2>1 DEF JobInv, ReadOnce
    <3>. QED BY <3>1, <3>2, ContentFacts DEF AsBefore
  <2>9. Progress'
    BY <1>1, <1>3, <1>5, <1>10, <2>1, <2>2, <2>7, <2>8 DEF JobInv, Progress, HasBackup, Touched, ReadKept
  <2>10. FilesRecoverable'
    BY <1>1, <1>10, <2>2 DEF JobInv, FilesRecoverable, HasBackup, AsBefore, ReadKept
  <2>11. ManifestRecoverable'
    BY <1>1, <1>10, <2>1, <2>2 DEF JobInv, ManifestRecoverable, HasBackup, ReadKept
  <2>. QED BY <2>3, <2>4, <2>5, <2>6, <2>9, <2>10, <2>11 DEF HomeInv, JobInv
<1>. QED BY <1>7, <1>8, <1>9, <1>10 DEF MoveAway

LEMMA AdvanceInstalled ==
  ASSUME ProjectionAssumption, job \in Jobs, job.step \in 1..Len(Steps),
         NEW e \in PathSet \cup {Manifest}, job' = Advance([job EXCEPT !.installed = @ \cup {e}])
  PROVE  /\ job' \in Jobs /\ job'.pc = "move" /\ job'.step = job.step + 1 /\ ReadKept
         /\ job'.backups = job.backups /\ job'.installed = job.installed \cup {e}
         /\ job'.restored = job.restored
<1> DEFINE moved == [job EXCEPT !.installed = @ \cup {e}]
<1>1. /\ moved \in Jobs
      /\ moved.files = job.files /\ moved.tracking = job.tracking
      /\ moved.preserved = job.preserved /\ moved.affected = job.affected
      /\ moved.existed = job.existed /\ moved.before = job.before
      /\ moved.edited = job.edited /\ moved.backups = job.backups
      /\ moved.installed = job.installed \cup {e} /\ moved.restored = job.restored
  BY DEF Jobs
<1>2. job' = Advance(moved) OBVIOUS
<1> HIDE DEF moved
<1>. QED BY <1>1, <1>2, AdvanceFacts DEF ReadKept

(* What is moved in is over what is in the stage directory.                  *)
LEMMA InstallKeeps ==
  ASSUME ProjectionAssumption, HomeInv, Install PROVE HomeInv'
<1>1. /\ job # NoJob /\ job \in Jobs /\ job.pc = "install"
      /\ JobInv /\ UNCHANGED <<edits, localChange, interrupted>>
  BY DEF Install, HomeInv, HomeTyped
<1>2. job.step \in 1..Len(Steps) /\ job.restored /\ job.step <= Len(Steps)
  BY <1>1, StepsFacts DEF JobInv, Standing, Jobs
<1>3. /\ Passed(job.step + 1) = Passed(job.step) \cup {Entry} /\ Entry \notin Passed(job.step)
      /\ Entry \in PathSet \cup {Manifest} /\ (Entry = Manifest <=> job.step = 1)
      /\ Manifest \notin PathSet
  BY <1>1, <1>2, EntryFacts
<1>4. /\ homeFiles \in [PathSet -> Contents \cup {Absent}] /\ tracked \in Tracking
  BY DEF HomeInv, HomeTyped
<1>5. /\ Entry \notin job.installed
      /\ Entry \in PathSet => Entry \in Touched /\ homeFiles[Entry] \notin PackContents
  BY <1>1 DEF JobInv, Progress
<1>6. Entry \in PathSet /\ Entry \notin job.edited =>
          homeFiles[Entry] = job.before.files[Entry] \/ HasBackup(Entry)
  BY <1>1, <1>5 DEF JobInv, FilesRecoverable
<1>7. Entry \in PathSet => HasBackup(Entry) \/ job.before.files[Entry] = Absent
  BY <1>1 DEF JobInv, Progress, ReadOnce
<1>8. CASE Fail /\ UNCHANGED <<homeFiles, tracked>>
  BY <1>8, <1>1, <1>2, FailingKeeps
<1>9. CASE /\ Entry = Manifest
           /\ tracked' = job.tracking /\ UNCHANGED homeFiles
           /\ job' = Advance([job EXCEPT !.installed = @ \cup {Manifest}])
  <2>2. /\ job' \in Jobs /\ job'.pc = "move" /\ job'.step = job.step + 1 /\ ReadKept
        /\ job'.backups = job.backups /\ job'.installed = job.installed \cup {Manifest}
        /\ job'.restored = job.restored
    BY <1>1, <1>2, <1>9, AdvanceInstalled
  <2>3. HomeTyped' BY <1>1, <1>9, <2>2 DEF HomeInv, HomeTyped, Jobs
  <2>4. LocalKept' /\ NothingForgotten'
    BY <1>1, <1>9, <2>2, ContentFacts DEF HomeInv, LocalKept, NothingForgotten
  <2>5. ReadOnce' BY <1>1, <2>2, ReadOnceStays DEF JobInv
  <2>6. Standing' BY <1>1, <1>2, <2>2 DEF JobInv, Standing, Touched, ReadKept
  <2>7. \A p \in PathSet : p # Manifest /\ p \notin Passed(job'.step)
    BY <1>3, <1>9, <2>2, PassedFacts
  <2>8. Passed(job'.step) = {Manifest} BY <1>3, <1>9, <2>2, PassedFacts
  <2>9. Progress'
    <3>1. \A e \in (PathSet \cup {Manifest}) \ {Manifest} : e \notin job.installed /\ ~HasBackup(e)
      BY <1>1, <1>3, <2>2, <2>8 DEF JobInv, Progress
    <3>2. Touched' \subseteq PathSet BY <2>2 DEF Touched, Jobs
    <3>. QED BY <3>1, <3>2, <2>2, <2>7, <2>8 DEF Progress, HasBackup
  <2>10. FilesRecoverable'
    <3>1. \A p \in PathSet : p \in job'.installed <=> p \in job.installed BY <2>2, <2>7
    <3>2. \A e : HasBackup(e)' <=> HasBackup(e) BY <2>2 DEF HasBackup
    <3>3. homeFiles' = homeFiles BY <1>9
    <3>4. FilesRecoverable BY <1>1 DEF JobInv
    <3>5. job'.before = job.before /\ job'.edited = job.edited BY <2>2 DEF ReadKept
    <3>6. (\A p \in PathSet : p \notin job.installed /\ ~HasBackup(p) => AsBefore(p, homeFiles[p]))'
      BY <3>1, <3>2, <3>3, <3>4, <3>5 DEF FilesRecoverable, AsBefore
    <3>7. (\A b \in job.backups : b[1] \in PathSet =>
             AsBefore(b[1], b[2]) /\ (b[1] \notin job.edited => b[2] = job.before.files[b[1]]))'
      BY <2>2, <3>4, <3>5 DEF FilesRecoverable, AsBefore
    <3>. QED BY <3>1, <3>2, <3>3, <3>4, <3>5, <3>6, <3>7, <1>1, <2>2 DEF FilesRecoverable
  <2>11. ManifestRecoverable'
    BY <1>1, <1>2, <1>3, <1>9, <2>2 DEF JobInv, ManifestRecoverable, HasBackup, ReadKept
  <2>. QED BY <2>3, <2>4, <2>5, <2>6, <2>9, <2>10, <2>11 DEF HomeInv, JobInv
<1>10. CASE /\ Entry # Manifest /\ job.files[Entry] # Absent
            /\ homeFiles' = [homeFiles EXCEPT ![Entry] = job.files[Entry]]
            /\ job' = Advance([job EXCEPT !.installed = @ \cup {Entry}])
            /\ UNCHANGED tracked
  <2>1. Entry \in PathSet /\ Entry \in Touched /\ job.step > 1 BY <1>2, <1>3, <1>5, <1>10
  <2>3. /\ job' \in Jobs /\ job'.pc = "move" /\ job'.step = job.step + 1 /\ ReadKept
        /\ job'.backups = job.backups /\ job'.installed = job.installed \cup {Entry}
        /\ job'.restored = job.restored
    BY <1>1, <1>2, <1>10, <2>1, AdvanceInstalled
  <2>4. job.files[Entry] \in PackContents BY <1>1, <1>10, <2>1 DEF Jobs
  <2>5. /\ homeFiles' \in [PathSet -> Contents \cup {Absent}] /\ homeFiles'[Entry] = job.files[Entry]
        /\ \A p \in PathSet : p # Entry => homeFiles'[p] = homeFiles[p]
    BY <1>4, <1>10, <2>1, <2>4 DEF Contents
  <2>6. HomeTyped' BY <1>1, <1>10, <2>3, <2>5 DEF HomeInv, HomeTyped
  <2>7. localChange[Entry] = Absent BY <1>1, <2>1 DEF JobInv, ReadOnce
  <2>8. LocalKept' /\ NothingForgotten'
    BY <1>1, <2>3, <2>5, <2>7, ContentFacts DEF HomeInv, LocalKept, NothingForgotten
  <2>9. ReadOnce' BY <1>1, <2>3, ReadOnceStays DEF JobInv
  <2>10. Standing' BY <1>1, <1>2, <2>1, <2>3 DEF JobInv, Standing, Touched, ReadKept
  <2>11. Touched' = Touched /\ (\A e : HasBackup(e)' <=> HasBackup(e))
    BY <2>3 DEF Touched, ReadKept, HasBackup
  <2>12. Progress'
    <3>1. \A p \in Touched : p \in PathSet BY <1>1 DEF Touched, Jobs
    <3>. QED BY <3>1, <1>1, <1>3, <2>1, <2>3, <2>5, <2>11 DEF JobInv, Progress, ReadKept
  <2>13. FilesRecoverable'
    <3>1. \A p \in PathSet : p \notin job'.installed /\ ~HasBackup(p) => p # Entry /\ p \notin job.installed
      BY <2>3
    <3>2. \A p, content : AsBefore(p, content)' <=> AsBefore(p, content) BY <2>3 DEF AsBefore, ReadKept
    <3>. QED BY <3>1, <3>2, <1>1, <1>7, <2>1, <2>3, <2>5, <2>11 DEF JobInv, FilesRecoverable, ReadKept, AsBefore
  <2>14. ManifestRecoverable'
    BY <1>1, <1>10, <2>1, <2>3, <2>11 DEF JobInv, ManifestRecoverable, ReadKept, Jobs
  <2>. QED BY <2>6, <2>8, <2>9, <2>10, <2>12, <2>13, <2>14 DEF HomeInv, JobInv
<1>11. CASE /\ Entry # Manifest /\ job.files[Entry] = Absent
            /\ job' = Advance(job)
            /\ UNCHANGED <<homeFiles, tracked>>
  <2>1. Entry \in PathSet /\ Entry \in Touched /\ job.step > 1 BY <1>2, <1>3, <1>5, <1>11
  <2>2. /\ job' \in Jobs /\ job'.pc = "move" /\ job'.step = job.step + 1 /\ ReadKept
        /\ job'.backups = job.backups /\ job'.installed = job.installed
        /\ job'.restored = job.restored
    BY <1>1, <1>2, <1>11, AdvanceFacts DEF ReadKept
  <2>3. HomeTyped' BY <1>1, <1>11, <2>2 DEF HomeInv, HomeTyped
  <2>4. LocalKept' /\ NothingForgotten'
    BY <1>1, <1>11, <2>2, ContentFacts DEF HomeInv, LocalKept, NothingForgotten
  <2>5. ReadOnce' BY <1>1, <2>2, ReadOnceStays DEF JobInv
  <2>6. Standing' BY <1>1, <1>2, <2>2 DEF JobInv, Standing, Touched, ReadKept
  <2>7. Progress'
    BY <1>1, <1>3, <1>5, <1>11, <2>2 DEF JobInv, Progress, HasBackup, Touched, ReadKept
  <2>8. FilesRecoverable'
    BY <1>1, <1>11, <2>2 DEF JobInv, FilesRecoverable, HasBackup, AsBefore, ReadKept
  <2>9. ManifestRecoverable'
    BY <1>1, <1>11, <2>1, <2>2 DEF JobInv, ManifestRecoverable, HasBackup, ReadKept, Jobs
  <2>. QED BY <2>3, <2>4, <2>5, <2>6, <2>7, <2>8, <2>9 DEF HomeInv, JobInv
<1>. QED BY <1>8, <1>9, <1>10, <1>11 DEF Install

(* A step of the rollback puts back what is there, or remembers that it      *)
(* could not.                                                                *)
(* What a rollback step does to its entry.                                   *)
RolledFile(value) ==
    /\ Entry \in PathSet => tracked' = tracked /\ homeFiles' = [homeFiles EXCEPT ![Entry] = value]
    /\ Entry = Manifest => homeFiles' = homeFiles /\ tracked' = value

LEMMA RollbackKeeps ==
  ASSUME ProjectionAssumption, HomeInv, RollbackStep PROVE HomeInv'
<1>0. PICK e : e = Entry OBVIOUS
<1>1. /\ job # NoJob /\ job \in Jobs /\ job.pc = "rollback" /\ job.step > 0
      /\ JobInv /\ UNCHANGED <<edits, localChange, interrupted>>
  BY DEF RollbackStep, HomeInv, HomeTyped
<1>2. job.step \in 1..Len(Steps)
  BY <1>1, StepsFacts DEF JobInv, Standing, Jobs
<1>3. /\ Passed(job.step + 1) = Passed(job.step) \cup {Entry} /\ Entry \notin Passed(job.step)
      /\ Entry \in PathSet \cup {Manifest} /\ (Entry = Manifest <=> job.step = 1)
      /\ Manifest \notin PathSet
  BY <1>1, <1>2, EntryFacts
<1>4. /\ homeFiles \in [PathSet -> Contents \cup {Absent}] /\ tracked \in Tracking
  BY DEF HomeInv, HomeTyped
<1>5. PICK removed \in BOOLEAN, back \in BOOLEAN :
        /\ Entry \notin job.installed => removed
        /\ Backup(Entry) = {} => back
        /\ CASE Backup(Entry) # {} /\ back -> PutBack(Entry)
             [] ~(Backup(Entry) # {} /\ back) /\ Entry \in job.installed /\ removed -> TakeOut(Entry)
             [] OTHER -> UNCHANGED <<homeFiles, tracked>>
        /\ job' = [job EXCEPT !.step = @ - 1, !.restored = @ /\ removed /\ back,
                              !.backups = IF back THEN @ \ Backup(Entry) ELSE @]
  BY DEF RollbackStep
<1>6. Backup(Entry) # {} <=> HasBackup(Entry) BY DEF Backup, HasBackup
<1>7. /\ job' \in Jobs /\ job'.pc = "rollback" /\ job'.step = job.step - 1 /\ ReadKept
      /\ job'.backups = (IF back THEN job.backups \ Backup(Entry) ELSE job.backups)
      /\ job'.installed = job.installed /\ (job'.restored <=> job.restored /\ removed /\ back)
  <2>1. job.step - 1 \in 0..Len(Steps) + 1 BY <1>2, StepsFacts
  <2>2. (IF back THEN job.backups \ Backup(Entry) ELSE job.backups)
           \in SUBSET (({Manifest} \X Tracking) \cup (PathSet \X (Contents \cup {Absent})))
    BY <1>1 DEF Jobs
  <2>3. (job.restored /\ removed /\ back) \in BOOLEAN OBVIOUS
  <2>. QED BY <1>1, <1>5, <2>1, <2>2, <2>3 DEF Jobs, ReadKept
<1>8. /\ job'.backups \subseteq job.backups
      /\ \A f : f # Entry => (HasBackup(f)' <=> HasBackup(f))
      /\ HasBackup(e)' <=> HasBackup(Entry) /\ ~back
  BY <1>7, <1>0 DEF HasBackup, Backup
<1>9. \A b \in job.backups : b \in ({Manifest} \X Tracking) \cup (PathSet \X (Contents \cup {Absent}))
  BY <1>1 DEF Jobs
<1>10. Entry \in job.installed \/ HasBackup(Entry) => Entry = Manifest \/ Entry \in Touched
  BY <1>1 DEF JobInv, Standing, HasBackup
(* What may be in the place of the entry then.                               *)
<1>11. ASSUME Entry \in PathSet
       PROVE  /\ tracked' = tracked /\ homeFiles' \in [PathSet -> Contents \cup {Absent}]
              /\ \A p \in PathSet : p # Entry => homeFiles'[p] = homeFiles[p]
              /\ Entry \notin Touched => homeFiles'[Entry] = homeFiles[Entry]
              /\ \/ \E b \in job.backups : b[1] = Entry /\ back /\ homeFiles'[Entry] = b[2]
                 \/ ~(HasBackup(Entry) /\ back) /\ Entry \in job.installed /\ removed /\ homeFiles'[Entry] = Absent
                 \/ ~(HasBackup(Entry) /\ back) /\ ~(Entry \in job.installed /\ removed)
                       /\ homeFiles'[Entry] = homeFiles[Entry]
  <2>1. Entry # Manifest BY <1>3, <1>11
  <2>2. CASE HasBackup(Entry) /\ back
    <3>1. PutBack(Entry) BY <1>5, <1>6, <2>2
    <3>2. PICK b \in Backup(Entry) : homeFiles' = [homeFiles EXCEPT ![Entry] = b[2]] /\ tracked' = tracked
      BY <3>1, <1>6, <2>1, <2>2 DEF PutBack
    <3>3. b \in job.backups /\ b[1] = Entry BY DEF Backup
    <3>4. b[2] \in Contents \cup {Absent} BY <1>9, <3>3, <2>1
    <3>. QED BY <3>2, <3>3, <3>4, <1>4, <1>10, <1>11, <2>1, <2>2
  <2>3. CASE ~(HasBackup(Entry) /\ back) /\ Entry \in job.installed /\ removed
    <3>1. TakeOut(Entry) BY <1>5, <1>6, <2>3
    <3>2. homeFiles' = [homeFiles EXCEPT ![Entry] = Absent] /\ tracked' = tracked
      BY <3>1, <2>1 DEF TakeOut
    <3>. QED BY <3>2, <1>4, <1>10, <1>11, <2>1, <2>3
  <2>4. CASE ~(HasBackup(Entry) /\ back) /\ ~(Entry \in job.installed /\ removed)
    <3>1. UNCHANGED <<homeFiles, tracked>> BY <1>5, <1>6, <2>4
    <3>. QED BY <3>1, <1>4, <1>11, <2>4
  <2>. QED BY <2>2, <2>3, <2>4
<1>12. ASSUME Entry = Manifest
       PROVE  /\ homeFiles' = homeFiles /\ tracked' \in Tracking
              /\ \/ tracked' = job.before.tracking
                 \/ HasBackup(Manifest) /\ ~back
  <2>1. CASE HasBackup(Entry) /\ back
    <3>1. PutBack(Entry) BY <1>5, <1>6, <2>1
    <3>2. PICK b \in Backup(Entry) : homeFiles' = homeFiles /\ tracked' = b[2]
      BY <3>1, <1>6, <1>12, <2>1 DEF PutBack
    <3>3. b \in job.backups /\ b[1] = Entry BY DEF Backup
    <3>4. b[2] = job.before.tracking BY <3>3, <1>1, <1>12 DEF JobInv, ManifestRecoverable
    <3>. QED BY <3>2, <3>4, <1>1 DEF Jobs
  <2>2. CASE HasBackup(Entry) /\ ~back
    <3>1. TakeOut(Entry) \/ UNCHANGED <<homeFiles, tracked>> BY <1>5, <1>6, <2>2
    <3>. QED BY <3>1, <2>2, <1>4, <1>12 DEF TakeOut, Tracking
  <2>3. CASE ~HasBackup(Entry)
    <3>1. tracked = job.before.tracking /\ Entry \notin job.installed
      BY <2>3, <1>1, <1>2, <1>12 DEF JobInv, ManifestRecoverable
    <3>2. UNCHANGED <<homeFiles, tracked>> BY <3>1, <1>5, <1>6, <2>3
    <3>. QED BY <3>1, <3>2, <1>4
  <2>. QED BY <2>1, <2>2, <2>3
<1>13. /\ \A p \in PathSet : p # Entry => homeFiles'[p] = homeFiles[p]
       /\ homeFiles' \in [PathSet -> Contents \cup {Absent}] /\ tracked' \in Tracking
  BY <1>3, <1>4, <1>11, <1>12
<1>14. HomeTyped' BY <1>1, <1>7, <1>13 DEF HomeInv, HomeTyped
<1>15. LocalKept'
  <2>1. \A p \in PathSet : localChange[p] # Absent => p \notin Touched BY <1>1 DEF JobInv, ReadOnce
  <2>2. \A p \in PathSet : p \notin Touched => homeFiles'[p] = homeFiles[p] BY <1>11, <1>13
  <2>. QED BY <2>1, <2>2, <1>1 DEF HomeInv, LocalKept
<1>16. NothingForgotten' BY <1>7, ContentFacts DEF NothingForgotten
<1>17. ReadOnce' BY <1>1, <1>7, ReadOnceStays DEF JobInv
<1>18. Standing' BY <1>1, <1>2, <1>7, <1>8 DEF JobInv, Standing, Touched, ReadKept
<1>19. Progress' BY <1>7 DEF Progress
(* The entry is as it was, or something is kept of it.                       *)
<1>20. ASSUME Entry \in PathSet
       PROVE  /\ AsBefore(Entry, homeFiles'[Entry]) \/ (HasBackup(Entry) /\ ~back)
                    \/ (Entry \in job.installed /\ ~removed)
              /\ Entry \notin job.edited =>
                    \/ homeFiles'[Entry] = job.before.files[Entry]
                    \/ HasBackup(Entry) /\ ~back
                    \/ Entry \in job.installed /\ ~removed /\ job.before.files[Entry] = Absent
  <2>1. \A b \in job.backups : b[1] = Entry =>
           AsBefore(Entry, b[2]) /\ (Entry \notin job.edited => b[2] = job.before.files[Entry])
    BY <1>1, <1>20 DEF JobInv, FilesRecoverable
  <2>2. Entry \notin job.installed /\ ~HasBackup(Entry) => AsBefore(Entry, homeFiles[Entry])
    BY <1>1, <1>20 DEF JobInv, FilesRecoverable
  <2>3. Entry \notin job.edited =>
          \/ homeFiles[Entry] = job.before.files[Entry] /\ Entry \notin job.installed /\ ~HasBackup(Entry)
          \/ HasBackup(Entry)
          \/ job.before.files[Entry] = Absent /\ Entry \in job.installed
    BY <1>1, <1>3, <1>20 DEF JobInv, FilesRecoverable
  <2>4. AsBefore(Entry, Absent) BY ContentFacts DEF AsBefore
  <2>. QED BY <2>1, <2>2, <2>3, <2>4, <1>11, <1>20
<1>21. /\ (Entry \in job.installed /\ ~removed) \/ (HasBackup(Entry) /\ ~back) => ~job'.restored
       /\ HasBackup(Entry) /\ ~back => HasBackup(e)'
       /\ Passed(job'.step + 1) = Passed(job.step) /\ job'.before = job.before /\ job'.edited = job.edited
       /\ job'.installed = job.installed
  <2>1. job'.step + 1 = job.step BY <1>2, <1>7
  <2>. QED BY <2>1, <1>7, <1>8 DEF ReadKept
<1>22. FilesRecoverable'
  <2>1. (\A p \in PathSet : p \notin job.installed /\ ~HasBackup(p) => AsBefore(p, homeFiles[p]))'
    <3>1. SUFFICES ASSUME NEW p \in PathSet, p \notin job.installed, ~HasBackup(p)'
                   PROVE  homeFiles'[p] \in PackContents => homeFiles'[p] = job.before.files[p]
      BY <1>21 DEF AsBefore
    <3>2. CASE p = Entry BY <3>1, <3>2, <1>0, <1>8, <1>20 DEF AsBefore
    <3>3. CASE p # Entry BY <3>1, <3>3, <1>1, <1>8, <1>13 DEF AsBefore, JobInv, FilesRecoverable
    <3>. QED BY <3>2, <3>3
  <2>2. (\A b \in job.backups : b[1] \in PathSet =>
            AsBefore(b[1], b[2]) /\ (b[1] \notin job.edited => b[2] = job.before.files[b[1]]))'
    BY <1>1, <1>8, <1>21 DEF AsBefore, JobInv, FilesRecoverable
  <2>3. (\A p \in PathSet \ job.edited : p \in Passed(job.step + 1) =>
          \/ homeFiles[p] = job.before.files[p] /\ p \notin job.installed /\ ~HasBackup(p)
          \/ HasBackup(p)
          \/ job.before.files[p] = Absent /\ p \in job.installed)'
    BY <1>1, <1>3, <1>8, <1>13, <1>21 DEF JobInv, FilesRecoverable
  <2>4. (\A p \in PathSet : p \notin Passed(job.step + 1) =>
          /\ job.restored => AsBefore(p, homeFiles[p])
          /\ p \notin job.edited =>
                \/ homeFiles[p] = job.before.files[p]
                \/ ~job.restored /\ (HasBackup(p) \/ job.before.files[p] = Absent))'
    <3>1. SUFFICES ASSUME NEW p \in PathSet, p \notin Passed(job.step)
                   PROVE  /\ job'.restored =>
                               (homeFiles'[p] \in PackContents => homeFiles'[p] = job.before.files[p])
                          /\ p \notin job.edited =>
                                \/ homeFiles'[p] = job.before.files[p]
                                \/ ~job'.restored /\ (HasBackup(p)' \/ job.before.files[p] = Absent)
      BY <1>21 DEF AsBefore
    <3>2. CASE p = Entry BY <3>1, <3>2, <1>0, <1>20, <1>21 DEF AsBefore
    <3>3. CASE p # Entry
      <4>1. p \notin Passed(job.step + 1) BY <3>1, <3>3, <1>3
      <4>2. job'.restored => job.restored BY <1>7
      <4>. QED BY <4>1, <4>2, <3>3, <1>1, <1>8, <1>13 DEF AsBefore, JobInv, FilesRecoverable
    <3>. QED BY <3>2, <3>3
  <2>. QED BY <2>1, <2>2, <2>3, <2>4, <1>7 DEF FilesRecoverable
<1>23. ManifestRecoverable'
  <2>1. (\A b \in job.backups : b[1] = Manifest => b[2] = job.before.tracking)'
    BY <1>1, <1>8, <1>21 DEF JobInv, ManifestRecoverable
  <2>2. CASE Entry = Manifest
    <3>1. job'.step = 0 BY <2>2, <1>2, <1>3, <1>7
    <3>. QED BY <2>1, <2>2, <3>1, <1>0, <1>7, <1>12, <1>21 DEF ManifestRecoverable
  <2>3. CASE Entry # Manifest
    <3>1. job'.step >= 1 BY <2>3, <1>2, <1>3, <1>7
    <3>2. tracked' = tracked /\ (HasBackup(Manifest)' <=> HasBackup(Manifest))
      BY <2>3, <1>3, <1>8, <1>11
    <3>3. \/ tracked = job.before.tracking /\ ~HasBackup(Manifest) /\ Manifest \notin job.installed
          \/ HasBackup(Manifest)
      BY <1>1, <1>2 DEF JobInv, ManifestRecoverable
    <3>4. job'.step # 0 BY <3>1
    <3>. QED BY <2>1, <3>1, <3>2, <3>3, <3>4, <1>7, <1>21 DEF ManifestRecoverable
  <2>. QED BY <2>2, <2>3
<1>. QED BY <1>14, <1>15, <1>16, <1>17, <1>18, <1>19, <1>22, <1>23 DEF HomeInv, JobInv

LEMMA HomeStepKeeps ==
  ASSUME ProjectionAssumption, HomeInv, [ProjectionNext]_projectionVars PROVE HomeInv'
<1>1. CASE UNCHANGED projectionVars
  BY <1>1 DEF projectionVars, HomeInv, HomeTyped, LocalKept, NothingForgotten, JobInv, ReadOnce,
              Standing, Progress, FilesRecoverable, ManifestRecoverable, Touched, HasBackup,
              AsBefore, Entry
<1>. QED BY <1>1, StartKeeps, SkipKeeps, MoveAwayKeeps, InstallKeeps, FinishKeeps, RollbackKeeps,
            FailKeeps, CrashKeeps, EditKeeps DEF ProjectionNext

(* The conjunct of the type invariant about a job.                           *)
LEMMA HomeInvGives ==
  ASSUME ProjectionAssumption, HomeInv PROVE ProjectionTypeOK /\ LocalKept /\ NothingForgotten
<1>1. ASSUME job # NoJob
      PROVE  /\ job.pc \in {"move", "install", "rollback"} /\ job.step \in 0..Len(Steps) + 1
             /\ job.installed \cap job.preserved = {}
             /\ \A b \in job.backups : b[1] \notin job.preserved
  <2>1. job \in Jobs /\ JobInv BY <1>1 DEF HomeInv, HomeTyped
  <2>2. job.preserved \subseteq PathSet /\ Manifest \notin PathSet BY <2>1, PassedFacts DEF Jobs
  <2>. QED BY <2>1, <2>2 DEF Jobs, JobInv, Standing, Touched
<1>. QED BY <1>1 DEF HomeInv, HomeTyped, ProjectionTypeOK

(* A rollback that ends has put back everything, or kept it.                 *)
LEMMA FailureLeaves ==
  ASSUME ProjectionAssumption, HomeInv, job # NoJob, job.pc = "rollback", job.step = 0
  PROVE  /\ \A p \in PathSet \ job.edited :
              Unchanged(p) \/ (job.before.files[p] = Absent /\ ~job.restored)
         /\ tracked = job.before.tracking \/ <<Manifest, job.before.tracking>> \in LeftBehind
<1>1. job \in Jobs /\ JobInv BY DEF HomeInv, HomeTyped
<1>2. Passed(job.step + 1) = {} BY PassedFacts
<1>3. ASSUME NEW e, HasBackup(e) PROVE \E value : <<e, value>> \in job.backups
  <2>1. PICK b \in job.backups : b[1] = e BY <1>3 DEF HasBackup
  <2>2. b = <<e, b[2]>> BY <2>1, <1>1 DEF Jobs
  <2>. QED BY <2>1, <2>2
<1>4. ASSUME NEW p \in PathSet \ job.edited
      PROVE  Unchanged(p) \/ (job.before.files[p] = Absent /\ ~job.restored)
  <2>1. \/ homeFiles[p] = job.before.files[p]
        \/ ~job.restored /\ (HasBackup(p) \/ job.before.files[p] = Absent)
    BY <1>1, <1>2 DEF JobInv, FilesRecoverable
  <2>2. ASSUME HasBackup(p) PROVE <<p, job.before.files[p]>> \in job.backups
    <3>1. PICK value : <<p, value>> \in job.backups BY <1>3, <2>2
    <3>2. <<p, value>>[1] = p /\ <<p, value>>[2] = value OBVIOUS
    <3>3. value = job.before.files[p] BY <3>1, <3>2, <1>1 DEF JobInv, FilesRecoverable
    <3>. QED BY <3>1, <3>3
  <2>. QED BY <2>1, <2>2 DEF Unchanged, LeftBehind
<1>5. tracked = job.before.tracking \/ <<Manifest, job.before.tracking>> \in LeftBehind
  <2>1. tracked = job.before.tracking \/ (~job.restored /\ HasBackup(Manifest))
    BY <1>1 DEF JobInv, ManifestRecoverable
  <2>2. ASSUME HasBackup(Manifest) PROVE <<Manifest, job.before.tracking>> \in job.backups
    <3>1. PICK value : <<Manifest, value>> \in job.backups BY <1>3, <2>2
    <3>2. <<Manifest, value>>[1] = Manifest /\ <<Manifest, value>>[2] = value OBVIOUS
    <3>3. value = job.before.tracking BY <3>1, <3>2, <1>1 DEF JobInv, ManifestRecoverable
    <3>. QED BY <3>1, <3>3
  <2>. QED BY <2>1, <2>2 DEF LeftBehind
<1>. QED BY <1>4, <1>5

ProjectionSpec == ProjectionInit /\ [][ProjectionNext]_projectionVars

(* An Identity Home keeps its local moved, its manifest knows the files of *)
(* the packs, and a projection that fails loses neither a file nor the       *)
(* manifest, for any number of files and any writer that interferes:         *)
(* configpack/projector.go:154.                                              *)
THEOREM HomesAreKept ==
  ASSUME ProjectionAssumption PROVE ProjectionSpec => HomeKept
<1>1. ProjectionInit => HomeInv
  BY HomeBegins
<1>2. HomeInv /\ [ProjectionNext]_projectionVars => HomeInv'
  BY HomeStepKeeps
<1>3. HomeInv => ProjectionTypeOK /\ LocalKept /\ NothingForgotten
  BY HomeInvGives
<1>4. HomeInv /\ [ProjectionNext]_projectionVars =>
        [(job # NoJob /\ job.pc = "rollback" /\ job.step = 0 /\ job' = NoJob)
          => /\ \A p \in PathSet \ job.edited : Unchanged(p) \/ (job.before.files[p] = Absent /\ ~job.restored)
             /\ tracked = job.before.tracking \/ <<Manifest, job.before.tracking>> \in LeftBehind
        ]_projectionVars
  BY FailureLeaves
<1>5. ProjectionSpec => [](ProjectionTypeOK /\ LocalKept /\ NothingForgotten)
  BY <1>1, <1>2, <1>3, PTL DEF ProjectionSpec
<1>6. ProjectionSpec => FailureChangesNothing
  BY <1>1, <1>2, <1>4, PTL DEF ProjectionSpec, FailureChangesNothing
<1>. QED BY <1>5, <1>6 DEF HomeKept

-----------------------------------------------------------------------------
(***************************************************************************)
(* Diagnostics and support bundles, for any number of requests, buckets    *)
(* and days.                                                               *)
(***************************************************************************)

(* The days a row spans are those of the events it counts.                   *)
Spans(rows, days) ==
    \A b \in Stored(rows) :
        /\ rows[b].first \in days[b] /\ rows[b].last \in days[b]
        /\ \A d \in days[b] : rows[b].first <= d /\ d <= rows[b].last

RowsTyped ==
    /\ aggregates \in Rows /\ admitted \in [Buckets -> SUBSET Days]
    /\ IsFiniteSet(Stored(aggregates)) /\ Cardinality(Stored(aggregates)) <= MaxAggregateCount
    /\ Spans(aggregates, admitted)

Askings == [at : {"idle", "listing", "confirming", "caching", "shown", "exported"},
            bundle : Bundle \cup {NoBundle}]

BundlesTyped ==
    /\ cached \in Bundle \cup {NoBundle} /\ current \in BOOLEAN
    /\ asking \in [Requesters -> Askings]
    /\ \A q \in Requesters : asking[q].at \notin {"idle"} => asking[q].bundle \in Bundle

SettingsTyped ==
    /\ diagnostics \in DiagnosticSettings /\ today \in Days
    /\ updates \in 0..MaxUpdates /\ updating \in Nat

DiagnosticsInv == RowsTyped /\ BundlesTyped /\ SettingsTyped /\ OldPreviewsGone

(* The least and the greatest of two, and of a set whose bound is known.     *)
LEMMA TwoNumbers ==
  ASSUME NEW a \in Nat, NEW b \in Nat
  PROVE  /\ Min({a, b}) \in {a, b} /\ Min({a, b}) <= a /\ Min({a, b}) <= b
         /\ Max({a, b}) \in {a, b} /\ Max({a, b}) >= a /\ Max({a, b}) >= b
<1>1. /\ \E x \in {a, b} : \A y \in {a, b} : x <= y
      /\ \E x \in {a, b} : \A y \in {a, b} : x >= y
  BY SMT
<1>2. Min({a, b}) \in {a, b} /\ \A y \in {a, b} : Min({a, b}) <= y BY <1>1, Zenon DEF Min
<1>3. Max({a, b}) \in {a, b} /\ \A y \in {a, b} : Max({a, b}) >= y BY <1>1, Zenon DEF Max
<1>. QED BY <1>2, <1>3

LEMMA BoundIsMin ==
  ASSUME NEW S \in SUBSET Nat, NEW m \in S
  PROVE  /\ (\A k \in S : m <= k) => Min(S) = m
         /\ (\A k \in S : k <= m) => Max(S) = m
<1>1. ASSUME \A k \in S : m <= k PROVE Min(S) = m
  <2>1. Min(S) \in S /\ \A y \in S : Min(S) <= y BY <1>1, Zenon DEF Min
  <2>2. Min(S) <= m /\ m <= Min(S) BY <2>1, <1>1
  <2>3. Min(S) \in Nat /\ m \in Nat BY <2>1
  <2>. QED BY <2>2, <2>3
<1>2. ASSUME \A k \in S : k <= m PROVE Max(S) = m
  <2>1. \A k \in S : m >= k BY <1>2
  <2>2. Max(S) \in S /\ \A y \in S : Max(S) >= y BY <2>1, Zenon DEF Max
  <2>3. Max(S) >= m /\ Max(S) <= m BY <2>2, <1>2
  <2>4. Max(S) \in Nat /\ m \in Nat BY <2>2
  <2>. QED BY <2>3, <2>4
<1>. QED BY <1>1, <1>2

(* Rows are in a strict order.                                               *)
LEMMA RowsOrdered ==
  ASSUME DiagnosticsAssumption, NEW rows \in Rows
  PROVE  /\ \A b, c \in Stored(rows) : b # c => NewerRow(rows, b, c) \/ NewerRow(rows, c, b)
         /\ \A b, c \in Stored(rows) : ~(NewerRow(rows, b, c) /\ NewerRow(rows, c, b))
         /\ \A b, c, d \in Stored(rows) :
               NewerRow(rows, b, c) /\ NewerRow(rows, c, d) => NewerRow(rows, b, d)
<1>1. \A b \in Stored(rows) : b \in Nat /\ rows[b].last \in Nat
  BY DEF DiagnosticsAssumption, Stored, Rows, Row, Days
<1>. QED BY <1>1 DEF NewerRow

(* The newest rows are as many as the limit: two of them do not have the     *)
(* same number of newer ones.                                                *)
LEMMA NewestAreFew ==
  ASSUME DiagnosticsAssumption, NEW rows \in Rows, IsFiniteSet(Stored(rows))
  PROVE  /\ Newest(rows) \in Rows /\ Stored(Newest(rows)) \subseteq Stored(rows)
         /\ \A b \in Stored(Newest(rows)) : Newest(rows)[b] = rows[b]
         /\ IsFiniteSet(Stored(Newest(rows)))
         /\ Cardinality(Stored(Newest(rows))) <= MaxAggregateCount
<1> DEFINE S == Stored(rows)
           Above(b) == {c \in S \ {b} : NewerRow(rows, c, b)}
           K == Stored(Newest(rows))
           rank == [b \in K |-> Cardinality(Above(b))]
<1>1. Newest(rows) \in Rows BY DEF Newest, Rows
<1>2. \A b \in Buckets : Newest(rows)[b] = IF b \in S /\ Cardinality(Above(b)) < MaxAggregateCount
                                           THEN rows[b] ELSE NoBucket
  BY DEF Newest
<1>3. K \subseteq S /\ \A b \in K : Newest(rows)[b] = rows[b] /\ Cardinality(Above(b)) < MaxAggregateCount
  BY <1>2 DEF Stored
<1>4. IsFiniteSet(K) BY <1>3, FS_Subset
<1>5. \A b \in S : IsFiniteSet(Above(b)) /\ Cardinality(Above(b)) \in Nat
  <2>1. TAKE b \in S
  <2>2. Above(b) \in SUBSET S OBVIOUS
  <2>3. IsFiniteSet(Above(b)) BY <2>2, FS_Subset
  <2>. QED BY <2>3, FS_CardinalityType
<1>6. ASSUME NEW b \in S, NEW c \in S, NewerRow(rows, b, c) PROVE Cardinality(Above(b)) < Cardinality(Above(c))
  <2>1. Above(b) \subseteq Above(c)
    BY <1>6, RowsOrdered
  <2>2. b # c BY <1>6, RowsOrdered
  <2>3. b \in Above(c) /\ b \notin Above(b) BY <1>6, <2>2
  <2>4. /\ Cardinality(Above(b)) <= Cardinality(Above(c))
        /\ Cardinality(Above(c)) = Cardinality(Above(b)) => Above(c) = Above(b)
    BY <2>1, <1>5, FS_Subset
  <2>. QED BY <2>3, <2>4, <1>5
<1>7. MaxAggregateCount \in Nat \ {0} BY DEF DiagnosticsAssumption
<1>8. IsFiniteSet(0..(MaxAggregateCount - 1)) /\ Cardinality(0..(MaxAggregateCount - 1)) = MaxAggregateCount
  BY <1>7, FS_Interval
<1>9. rank \in [K -> 0..(MaxAggregateCount - 1)]
  <2>1. ASSUME NEW b \in K PROVE Cardinality(Above(b)) \in 0..(MaxAggregateCount - 1)
    <3>1. Cardinality(Above(b)) \in Nat /\ Cardinality(Above(b)) < MaxAggregateCount BY <1>3, <1>5
    <3> HIDE DEF Above
    <3>. QED BY <3>1, <1>7
  <2>. QED BY <2>1
<1>10. \A b, c \in K : b # c => rank[b] # rank[c]
  <2>1. TAKE b, c \in K
  <2>2. HAVE b # c
  <2>3. b \in S /\ c \in S BY <1>3
  <2>4. NewerRow(rows, b, c) \/ NewerRow(rows, c, b) BY <2>2, <2>3, RowsOrdered
  <2>5. Cardinality(Above(b)) # Cardinality(Above(c))
    <3>1. Cardinality(Above(b)) \in Nat /\ Cardinality(Above(c)) \in Nat BY <2>3, <1>5
    <3>2. Cardinality(Above(b)) < Cardinality(Above(c)) \/ Cardinality(Above(c)) < Cardinality(Above(b))
      BY <2>3, <2>4, <1>6
    <3> HIDE DEF Above
    <3>. QED BY <3>1, <3>2
  <2>. QED BY <2>5
<1> HIDE DEF rank, K, S
<1>11. ~(Cardinality(0..(MaxAggregateCount - 1)) < Cardinality(K))
  BY <1>4, <1>8, <1>9, <1>10, FS_PigeonHole
<1>12. Cardinality(K) \in Nat BY <1>4, FS_CardinalityType
<1>13. Cardinality(K) <= MaxAggregateCount BY <1>7, <1>8, <1>11, <1>12
<1>. QED BY <1>1, <1>3, <1>4, <1>13 DEF K, S

(* What is kept for its age is some of what was there.                       *)
LEMMA SinceKeeps ==
  ASSUME RowsTyped, NEW cutoff
  PROVE  /\ Since(aggregates, cutoff) \in Rows
         /\ Stored(Since(aggregates, cutoff)) \subseteq Stored(aggregates)
         /\ \A b \in Stored(Since(aggregates, cutoff)) : Since(aggregates, cutoff)[b] = aggregates[b]
         /\ IsFiniteSet(Stored(Since(aggregates, cutoff)))
         /\ Cardinality(Stored(Since(aggregates, cutoff))) <= MaxAggregateCount
<1> DEFINE kept == Since(aggregates, cutoff)
<1>1. kept \in Rows BY DEF RowsTyped, Since, Rows
<1>2. Stored(kept) \subseteq Stored(aggregates) /\ \A b \in Stored(kept) : kept[b] = aggregates[b]
  BY DEF Since, Stored
<1> HIDE DEF kept
<1>3. IsFiniteSet(Stored(kept)) /\ Cardinality(Stored(kept)) <= Cardinality(Stored(aggregates))
  BY <1>2, FS_Subset DEF RowsTyped
<1>4. Cardinality(Stored(kept)) \in Nat /\ Cardinality(Stored(aggregates)) \in Nat
  BY <1>3, FS_CardinalityType DEF RowsTyped
<1>5. Cardinality(Stored(kept)) <= MaxAggregateCount
  <2>1. Cardinality(Stored(aggregates)) <= MaxAggregateCount BY DEF RowsTyped
  <2>. QED BY <2>1, <1>3, <1>4, DiagnosticsAssumption DEF DiagnosticsAssumption
<1>. QED BY <1>1, <1>2, <1>3, <1>5 DEF kept

LEMMA CommitKeeps ==
  ASSUME RowsTyped, NEW rows \in Rows, Stored(rows) \subseteq Stored(aggregates),
         \A b \in Stored(rows) : rows[b] = aggregates[b],
         IsFiniteSet(Stored(rows)), Cardinality(Stored(rows)) <= MaxAggregateCount, Commit(rows)
  PROVE  RowsTyped'
<1>1. aggregates' = rows /\ admitted' = [b \in Buckets |-> IF rows[b] = NoBucket THEN {} ELSE admitted[b]]
  BY DEF Commit
<1>2. admitted' \in [Buckets -> SUBSET Days] BY <1>1 DEF RowsTyped
<1>3. \A b \in Stored(rows) : admitted'[b] = admitted[b] BY <1>1 DEF Stored
<1>. QED BY <1>1, <1>2, <1>3 DEF RowsTyped, Spans

(* An event is counted in a row that spans its day.                          *)
LEMMA CountedSpans ==
  ASSUME DiagnosticsAssumption, NEW row \in Row \cup {NoBucket}, NEW day \in Days, NEW days \in SUBSET Days,
         row = NoBucket => days = {},
         row # NoBucket => row.first \in days /\ row.last \in days
                              /\ \A d \in days : row.first <= d /\ d <= row.last
  PROVE  /\ Counted(row, day) \in Row
         /\ Counted(row, day).first \in days \cup {day} /\ Counted(row, day).last \in days \cup {day}
         /\ \A d \in days \cup {day} : Counted(row, day).first <= d /\ d <= Counted(row, day).last
<1>1. day \in Nat /\ Days \subseteq Nat /\ MaxOccurrenceCount \in Nat \ {0}
  BY DEF Days, DiagnosticsAssumption
<1>2. CASE row = NoBucket
  <2>1. Counted(row, day) = [count |-> 1, first |-> day, last |-> day] BY <1>2 DEF Counted
  <2>. QED BY <2>1, <1>1, <1>2 DEF Row
<1>3. CASE row # NoBucket
  <2>1. /\ row \in Row /\ row.count \in Nat /\ row.count >= 1 /\ row.first \in Days /\ row.last \in Days
    BY <1>1, <1>3 DEF Row
  <2>2. row.first \in Nat /\ row.last \in Nat BY <2>1, <1>1
  <2>3. /\ Min({row.first, day}) \in {row.first, day} /\ Min({row.first, day}) <= row.first
        /\ Min({row.first, day}) <= day
    BY <2>2, <1>1, TwoNumbers
  <2>4. /\ Max({row.last, day}) \in {row.last, day} /\ Max({row.last, day}) >= row.last
        /\ Max({row.last, day}) >= day
    BY <2>2, <1>1, TwoNumbers
  <2>5. Min({row.count + 1, MaxOccurrenceCount}) \in 1..MaxOccurrenceCount
    <3>1. row.count + 1 \in Nat BY <2>1
    <3>2. /\ Min({row.count + 1, MaxOccurrenceCount}) \in {row.count + 1, MaxOccurrenceCount}
          /\ Min({row.count + 1, MaxOccurrenceCount}) <= MaxOccurrenceCount
      BY <3>1, <1>1, TwoNumbers
    <3>. QED BY <3>1, <3>2, <2>1, <1>1
  <2>6. Counted(row, day) = [count |-> Min({row.count + 1, MaxOccurrenceCount}),
                             first |-> Min({row.first, day}), last |-> Max({row.last, day})]
    BY <1>3 DEF Counted
  <2>7. /\ Counted(row, day).first = Min({row.first, day}) /\ Counted(row, day).last = Max({row.last, day})
        /\ Counted(row, day) \in Row
    <3>1. Min({row.first, day}) \in Days /\ Max({row.last, day}) \in Days BY <2>1, <2>3, <2>4
    <3>. QED BY <2>5, <2>6, <3>1 DEF Row
  <2>8. ASSUME NEW d \in days \cup {day}
        PROVE  Min({row.first, day}) <= d /\ d <= Max({row.last, day})
    <3>1. d \in Nat /\ Min({row.first, day}) \in Nat /\ Max({row.last, day}) \in Nat
      BY <1>1, <2>2, <2>3, <2>4
    <3>2. d = day \/ (row.first <= d /\ d <= row.last) BY <1>3
    <3>. QED BY <3>1, <3>2, <2>2, <2>3, <2>4
  <2>. QED BY <2>3, <2>4, <2>7, <2>8, <1>3
<1>. QED BY <1>2, <1>3

LEMMA RecordKeepsRows ==
  ASSUME DiagnosticsAssumption, RowsTyped, NEW b \in Buckets, NEW day \in Days, RecordDiagnostic(b, day)
  PROVE  RowsTyped'
<1> DEFINE kept == Since(aggregates, Cutoff(diagnostics))
           fresh == [kept EXCEPT ![b] = Counted(kept[b], day)]
           counted == Newest(fresh)
           days == IF kept[b] = NoBucket THEN {} ELSE admitted[b]
<1>1. /\ kept \in Rows /\ Stored(kept) \subseteq Stored(aggregates)
      /\ \A c \in Stored(kept) : kept[c] = aggregates[c]
      /\ IsFiniteSet(Stored(kept)) /\ Cardinality(Stored(kept)) <= MaxAggregateCount
  BY SinceKeeps
<1>2. CASE Commit(kept) BY <1>1, <1>2, CommitKeeps
<1>3. CASE /\ aggregates' = counted
           /\ admitted' = [c \in Buckets |->
                 IF counted[c] = NoBucket THEN {}
                 ELSE IF c # b THEN admitted[c]
                 ELSE {day} \cup days]
  <2> HIDE DEF kept
  <2>1. kept[b] \in Row \cup {NoBucket} /\ days \in SUBSET Days
    BY <1>1 DEF Rows, RowsTyped
  <2>2. kept[b] # NoBucket => b \in Stored(aggregates) /\ kept[b] = aggregates[b] /\ days = admitted[b]
    BY <1>1 DEF Stored
  <2>3. /\ kept[b] = NoBucket => days = {}
        /\ kept[b] # NoBucket => kept[b].first \in days /\ kept[b].last \in days
              /\ \A d \in days : kept[b].first <= d /\ d <= kept[b].last
    BY <2>2 DEF RowsTyped, Spans
  <2> HIDE DEF days
  <2>4. /\ Counted(kept[b], day) \in Row
        /\ Counted(kept[b], day).first \in days \cup {day} /\ Counted(kept[b], day).last \in days \cup {day}
        /\ \A d \in days \cup {day} : Counted(kept[b], day).first <= d /\ d <= Counted(kept[b], day).last
    BY <2>1, <2>3, CountedSpans
  <2>5. /\ fresh \in Rows /\ fresh[b] = Counted(kept[b], day)
        /\ \A c \in Buckets : c # b => fresh[c] = kept[c]
    BY <1>1, <2>4 DEF Rows
  <2> HIDE DEF fresh
  <2>6. Stored(fresh) \subseteq Stored(kept) \cup {b} BY <2>5 DEF Stored
  <2>7. IsFiniteSet(Stored(fresh))
    <3>1. IsFiniteSet(Stored(kept) \cup {b}) BY <1>1, FS_AddElement
    <3>. QED BY <3>1, <2>6, FS_Subset
  <2>8. /\ counted \in Rows /\ Stored(counted) \subseteq Stored(fresh)
        /\ \A c \in Stored(counted) : counted[c] = fresh[c]
        /\ IsFiniteSet(Stored(counted)) /\ Cardinality(Stored(counted)) <= MaxAggregateCount
    BY <2>5, <2>7, NewestAreFew
  <2> HIDE DEF counted
  <2>9. admitted' \in [Buckets -> SUBSET Days] BY <1>3, <2>1 DEF RowsTyped
  <2>10. ASSUME NEW c \in Stored(counted)
         PROVE  /\ counted[c].first \in admitted'[c] /\ counted[c].last \in admitted'[c]
                /\ \A d \in admitted'[c] : counted[c].first <= d /\ d <= counted[c].last
    <3>1. c \in Buckets /\ counted[c] # NoBucket /\ counted[c] = fresh[c] BY <2>8 DEF Stored
    <3>2. CASE c = b
      <4>1. admitted'[c] = {day} \cup days BY <3>1, <3>2, <1>3
      <4>. QED BY <4>1, <3>1, <3>2, <2>4, <2>5
    <3>3. CASE c # b
      <4>1. admitted'[c] = admitted[c] /\ counted[c] = kept[c] BY <3>1, <3>3, <1>3, <2>5
      <4>2. c \in Stored(aggregates) /\ kept[c] = aggregates[c] BY <4>1, <3>1, <1>1 DEF Stored
      <4>. QED BY <4>1, <4>2 DEF RowsTyped, Spans
    <3>. QED BY <3>2, <3>3
  <2>. QED BY <1>3, <2>8, <2>9, <2>10 DEF RowsTyped, Spans
<1>. QED BY <1>2, <1>3 DEF RecordDiagnostic

LEMMA DiagnosticsBegin ==
  ASSUME DiagnosticsAssumption, DiagnosticsInit PROVE DiagnosticsInv
<1>1. Stored(aggregates) = {} BY DEF DiagnosticsInit, Stored
<1>2. IsFiniteSet(Stored(aggregates)) /\ Cardinality(Stored(aggregates)) = 0 BY <1>1, FS_EmptySet
<1>3. RowsTyped
  <2>1. 0 <= MaxAggregateCount BY DEF DiagnosticsAssumption
  <2>. QED BY <1>1, <1>2, <2>1 DEF RowsTyped, DiagnosticsInit, Rows, Spans
<1>4. BundlesTyped BY DEF BundlesTyped, DiagnosticsInit, Askings, Unasked
<1>5. SettingsTyped
  <2>1. 0 \in Days /\ 0 \in 0..MaxUpdates BY DEF Days, DiagnosticsAssumption
  <2>2. diagnostics \in DiagnosticSettings
    BY DEF DiagnosticsInit, DiagnosticSettings, Collections, DiagnosticsAssumption
  <2>. QED BY <2>1, <2>2 DEF SettingsTyped, DiagnosticsInit
<1>6. OldPreviewsGone BY DEF OldPreviewsGone, DiagnosticsInit
<1>. QED BY <1>3, <1>4, <1>5, <1>6 DEF DiagnosticsInv

(* Reading writes no row.                                                    *)
LEMMA RowsStay ==
  ASSUME RowsTyped, UNCHANGED <<aggregates, admitted>> PROVE RowsTyped'
BY DEF RowsTyped, Spans

(* A request moves on alone.                                                 *)
LEMMA AskingStep ==
  ASSUME asking \in [Requesters -> Askings], NEW q \in Requesters, NEW value \in Askings,
         asking' = [asking EXCEPT ![q] = value],
         \A r \in Requesters : asking[r].at \notin {"idle"} => asking[r].bundle \in Bundle,
         value.at \notin {"idle"} => value.bundle \in Bundle
  PROVE  /\ asking' \in [Requesters -> Askings]
         /\ \A r \in Requesters : asking'[r].at \notin {"idle"} => asking'[r].bundle \in Bundle
         /\ \A r \in Requesters : asking'[r] = IF r = q THEN value ELSE asking[r]
<1>1. asking' \in [Requesters -> Askings] OBVIOUS
<1>2. \A r \in Requesters : asking'[r] = IF r = q THEN value ELSE asking[r] OBVIOUS
<1>. QED BY <1>1, <1>2

(* What a request exports is what it was shown.                              *)
Shown(q) == asking[q].at = "shown" /\ asking'[q].at = "exported" => asking'[q].bundle = asking[q].bundle

LEMMA RequestKeeps ==
  ASSUME DiagnosticsAssumption, DiagnosticsInv, NEW q \in Requesters,
         ReadSettings(q) \/ ListDiagnosticAggregates(q) \/ ConfirmSettings(q)
            \/ CachePreview(q) \/ Export(q)
  PROVE  DiagnosticsInv' /\ \A r \in Requesters : Shown(r)
<1>1. /\ UNCHANGED <<diagnostics, aggregates, admitted, today, updating, updates>>
      /\ RowsTyped' /\ SettingsTyped'
  BY RowsStay DEF ReadSettings, ListDiagnosticAggregates, ConfirmSettings, CachePreview, Export,
                  DiagnosticsInv, SettingsTyped
<1>2. /\ asking \in [Requesters -> Askings] /\ asking[q] \in Askings
      /\ \A r \in Requesters : asking[r].at \notin {"idle"} => asking[r].bundle \in Bundle
      /\ cached \in Bundle \cup {NoBundle} /\ current \in BOOLEAN
      /\ RowsTyped /\ diagnostics \in DiagnosticSettings /\ OldPreviewsGone
  BY DEF DiagnosticsInv, BundlesTyped, SettingsTyped
<1>3. Unasked \in Askings /\ Unasked.at = "idle" BY DEF Unasked, Askings
<1>4. ASSUME NEW value \in Askings, asking' = [asking EXCEPT ![q] = value],
             value.at \notin {"idle"} => value.bundle \in Bundle,
             asking[q].at = "shown" /\ value.at = "exported" => value.bundle = asking[q].bundle,
             cached' \in Bundle \cup {NoBundle}, current' \in BOOLEAN, OldPreviewsGone'
      PROVE  DiagnosticsInv' /\ \A r \in Requesters : Shown(r)
  <2>1. /\ asking' \in [Requesters -> Askings]
        /\ \A r \in Requesters : asking'[r].at \notin {"idle"} => asking'[r].bundle \in Bundle
        /\ \A r \in Requesters : asking'[r] = IF r = q THEN value ELSE asking[r]
    BY <1>2, <1>4, AskingStep
  <2>2. \A r \in Requesters : Shown(r) BY <2>1, <1>4 DEF Shown
  <2>3. BundlesTyped' BY <2>1, <1>4 DEF BundlesTyped
  <2>. QED BY <2>2, <2>3, <1>1, <1>4 DEF DiagnosticsInv
<1>5. UNCHANGED <<cached, current>> => OldPreviewsGone' BY <1>1, <1>2 DEF OldPreviewsGone
<1>6. CASE ReadSettings(q)
  <2> DEFINE value == [at |-> "listing", bundle |-> [settings |-> diagnostics, rows |-> [b \in Buckets |-> NoBucket]]]
  <2>1. value \in Askings /\ value.at = "listing" /\ value.bundle \in Bundle
    BY <1>2 DEF Askings, Bundle, Rows
  <2>2. asking' = [asking EXCEPT ![q] = value] /\ UNCHANGED <<cached, current>> BY <1>6 DEF ReadSettings
  <2> HIDE DEF value
  <2>. QED BY <2>1, <2>2, <1>2, <1>4, <1>5
<1>7. CASE ListDiagnosticAggregates(q)
  <2> DEFINE rows == Since(aggregates, Cutoff(diagnostics))
             value == [asking[q] EXCEPT !.at = "confirming", !.bundle.rows = rows]
  <2>1. rows \in Rows BY <1>2, SinceKeeps
  <2>2. asking[q].bundle \in Bundle BY <1>2, <1>7 DEF ListDiagnosticAggregates
  <2>3. asking' = [asking EXCEPT ![q] = value] /\ UNCHANGED <<cached, current>>
    BY <1>2, <1>7 DEF ListDiagnosticAggregates
  <2> HIDE DEF rows
  <2>4. value \in Askings /\ value.at = "confirming" /\ value.bundle \in Bundle
    BY <1>2, <2>1, <2>2 DEF Askings, Bundle
  <2> HIDE DEF value
  <2>. QED BY <2>3, <2>4, <1>2, <1>4, <1>5
<1>8. CASE ConfirmSettings(q)
  <2> DEFINE value == IF asking[q].bundle.settings = diagnostics THEN [asking[q] EXCEPT !.at = "caching"] ELSE Unasked
  <2>1. asking[q].bundle \in Bundle BY <1>2, <1>8 DEF ConfirmSettings
  <2>2. asking' = [asking EXCEPT ![q] = value] /\ UNCHANGED <<cached, current>>
    BY <1>2, <1>8 DEF ConfirmSettings
  <2>3. value \in Askings /\ value.at \in {"caching", "idle"} /\ (value.at = "caching" => value.bundle \in Bundle)
    BY <1>2, <1>3, <2>1 DEF Askings
  <2> HIDE DEF value
  <2>. QED BY <2>2, <2>3, <1>2, <1>4, <1>5
<1>9. CASE CachePreview(q)
  <2> DEFINE value == [asking[q] EXCEPT !.at = "shown"]
  <2>1. asking[q].bundle \in Bundle /\ cached' = asking[q].bundle /\ current' = TRUE
    BY <1>2, <1>9 DEF CachePreview
  <2>2. asking' = [asking EXCEPT ![q] = value] BY <1>2, <1>9 DEF CachePreview
  <2>3. value \in Askings /\ value.at = "shown" /\ value.bundle \in Bundle
    BY <1>2, <2>1 DEF Askings
  <2>4. OldPreviewsGone' BY <2>1 DEF OldPreviewsGone
  <2> HIDE DEF value
  <2>. QED BY <2>1, <2>2, <2>3, <2>4, <1>2, <1>4
<1>10. CASE Export(q)
  <2> DEFINE value == IF Confirmed(q) THEN [at |-> "exported", bundle |-> cached] ELSE Unasked
  <2>1. asking[q].bundle \in Bundle BY <1>2, <1>10 DEF Export
  <2>2. asking' = [asking EXCEPT ![q] = value] /\ UNCHANGED <<cached, current>> BY <1>10 DEF Export
  <2>3. /\ value \in Askings /\ value.at \in {"exported", "idle"}
        /\ value.at = "exported" => value.bundle = asking[q].bundle
    BY <1>2, <1>3, <2>1 DEF Askings, Confirmed
  <2> HIDE DEF value
  <2>. QED BY <2>1, <2>2, <2>3, <1>2, <1>4, <1>5
<1>. QED BY <1>6, <1>7, <1>8, <1>9, <1>10

LEMMA DiagnosticsStep ==
  ASSUME DiagnosticsAssumption, DiagnosticsInv, [DiagnosticsNext]_diagnosticsVars
  PROVE  DiagnosticsInv' /\ \A r \in Requesters : Shown(r)
<1>1. ASSUME NEW b \in Buckets, NEW day \in Days, RecordDiagnostic(b, day)
      PROVE  DiagnosticsInv' /\ \A r \in Requesters : Shown(r)
  <2>1. UNCHANGED <<diagnostics, today, cached, current, asking, updating, updates>>
    BY <1>1 DEF RecordDiagnostic
  <2>2. RowsTyped' BY <1>1, RecordKeepsRows DEF DiagnosticsInv
  <2>. QED BY <2>1, <2>2 DEF DiagnosticsInv, BundlesTyped, SettingsTyped, OldPreviewsGone, Shown
<1>2. CASE NextDay
  <2>1. UNCHANGED <<diagnostics, aggregates, admitted, cached, current, asking, updating, updates>>
    BY <1>2 DEF NextDay
  <2>2. today' \in Days BY <1>2 DEF NextDay, Days, DiagnosticsInv, SettingsTyped, DiagnosticsAssumption
  <2>3. RowsTyped' BY <2>1, RowsStay DEF DiagnosticsInv
  <2>. QED BY <2>1, <2>2, <2>3 DEF DiagnosticsInv, BundlesTyped, SettingsTyped, OldPreviewsGone, Shown
<1>3. ASSUME NEW settings \in DiagnosticSettings, SetDiagnosticSettings(settings)
      PROVE  DiagnosticsInv' /\ \A r \in Requesters : Shown(r)
  <2>1. /\ UNCHANGED <<today, cached, asking>> /\ diagnostics' = settings /\ current' = FALSE
        /\ updates < MaxUpdates /\ updates' = updates + 1 /\ updating' = updating + 1
        /\ Commit(Since(aggregates, Cutoff(settings)))
    BY <1>3 DEF SetDiagnosticSettings
  <2>2. RowsTyped' BY <2>1, SinceKeeps, CommitKeeps DEF DiagnosticsInv
  <2>3. updates' \in 0..MaxUpdates /\ updating' \in Nat /\ updating' > 0
    BY <2>1 DEF DiagnosticsInv, SettingsTyped, DiagnosticsAssumption
  <2>. QED BY <2>1, <2>2, <2>3 DEF DiagnosticsInv, BundlesTyped, SettingsTyped, OldPreviewsGone, Shown
<1>4. CASE ForgetPreview
  <2>1. /\ UNCHANGED <<diagnostics, aggregates, admitted, today, current, asking, updates>>
        /\ updating > 0 /\ updating' = updating - 1 /\ cached' = NoBundle
    BY <1>4 DEF ForgetPreview
  <2>2. RowsTyped' BY <2>1, RowsStay DEF DiagnosticsInv
  <2>3. updating' \in Nat BY <2>1 DEF DiagnosticsInv, SettingsTyped
  <2>. QED BY <2>1, <2>2, <2>3 DEF DiagnosticsInv, BundlesTyped, SettingsTyped, OldPreviewsGone, Shown
<1>5. CASE UNCHANGED diagnosticsVars
  <2>1. RowsTyped' BY <1>5, RowsStay DEF DiagnosticsInv, diagnosticsVars
  <2>. QED BY <1>5, <2>1 DEF diagnosticsVars, DiagnosticsInv, BundlesTyped, SettingsTyped,
                            OldPreviewsGone, Shown
<1>. QED BY <1>1, <1>2, <1>3, <1>4, <1>5, RequestKeeps DEF DiagnosticsNext

LEMMA DiagnosticsGive ==
  ASSUME DiagnosticsAssumption, DiagnosticsInv
  PROVE  DiagnosticsTypeOK /\ RowsSpanEvents /\ OldPreviewsGone
<1>1. DiagnosticsTypeOK
  BY DEF DiagnosticsTypeOK, DiagnosticsInv, RowsTyped, BundlesTyped, SettingsTyped, Askings
<1>2. ASSUME NEW b \in Stored(aggregates)
      PROVE  aggregates[b].first = Min(admitted[b]) /\ aggregates[b].last = Max(admitted[b])
  <2>1. b \in Buckets BY DEF Stored
  <2>2. admitted[b] \in SUBSET Nat BY <2>1 DEF DiagnosticsInv, RowsTyped, Days
  <2>3. /\ aggregates[b].first \in admitted[b] /\ aggregates[b].last \in admitted[b]
        /\ \A d \in admitted[b] : aggregates[b].first <= d /\ d <= aggregates[b].last
    BY DEF DiagnosticsInv, RowsTyped, Spans
  <2>. QED BY <2>2, <2>3, BoundIsMin
<1>. QED BY <1>1, <1>2 DEF RowsSpanEvents, DiagnosticsInv

(* A support bundle leaves as it was shown, under settings that no answered  *)
(* change has replaced, from rows that never exceed their limit and tell the *)
(* days of their events, for any number of requests and any order of events: *)
(* diagnostics/service.go:220, :300 and store/diagnostics.go:55.             *)
THEOREM BundlesAreReviewed ==
  ASSUME DiagnosticsAssumption PROVE DiagnosticsSpec => BundlesReviewed
<1>1. DiagnosticsInit => DiagnosticsInv
  BY DiagnosticsBegin
<1>2. DiagnosticsInv /\ [DiagnosticsNext]_diagnosticsVars => DiagnosticsInv'
  BY DiagnosticsStep
<1>3. DiagnosticsInv => DiagnosticsTypeOK /\ RowsSpanEvents /\ OldPreviewsGone
  BY DiagnosticsGive
<1>4. DiagnosticsInv /\ [DiagnosticsNext]_diagnosticsVars =>
        [\A q \in Requesters : asking[q].at = "shown" /\ asking'[q].at = "exported" =>
            asking'[q].bundle = asking[q].bundle]_diagnosticsVars
  BY DiagnosticsStep DEF Shown
<1>5. DiagnosticsSpec => [](DiagnosticsTypeOK /\ RowsSpanEvents /\ OldPreviewsGone)
  BY <1>1, <1>2, <1>3, PTL DEF DiagnosticsSpec
<1>6. DiagnosticsSpec => ExportsWhatWasShown
  BY <1>1, <1>2, <1>4, PTL DEF DiagnosticsSpec, ExportsWhatWasShown
<1>. QED BY <1>5, <1>6 DEF BundlesReviewed
=============================================================================
