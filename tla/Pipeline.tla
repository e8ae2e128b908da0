------------------------------ MODULE Pipeline ------------------------------
(***************************************************************************)
(* A request on its way through the router of cmd/server/main.go: the       *)
(* middleware in their order (internal/middleware), the checks of its       *)
(* handler (internal/handler) and the call of a service, while the sessions *)
(* of Session are opened, rotated, banned and expire.                       *)
(*                                                                          *)
(* Middleware that only look at the request run in one step with the next   *)
(* one that asks Redis.  What the limiters answer is left open here (see    *)
(* RateLimit); requests to /auth are the calls of Session, and what the     *)
(* other services do is in the modules of their tables.                     *)
(***************************************************************************)
EXTENDS Session, Sequences

CONSTANTS
  Reqs,      \* connections, each with one request at a time
  Routes,    \* the routes asked for: a subset of AllRoutes, for a smaller model
  Leaks      \* the sets of forwarding headers requests may come with

VARIABLES
  production,  \* Config.IsProduction
  req          \* the state of a request

pipelineVars == <<vars, production, req>>
-----------------------------------------------------------------------------
(* The handlers: what each of them checks, in this order, before the call   *)
(* of its service.  "id" stands for everything it parses.                   *)

check == <<"service">>
registerAccount == <<"service">>
refreshToken == <<"bind", "service">>
create == <<"bind", "userID", "pseudonym", "service">>
delete == <<"bind", "userID", "id", "service">>
getByID == <<"bind", "id", "service">>
createReply == <<"bind", "id", "userID", "pseudonym", "service">>
listReplies == <<"bind", "id", "service">>
react == <<"bind", "id", "userID", "service">>
createReport == <<"bind", "id", "userID", "service">>
listReports == <<"bind", "service">>
action == <<"userID", "bind", "id", "service">>
latest == <<"bind", "id", "service">>
trending == <<"bind", "service">>
feed == <<"service">>

Handler ==
  [health |-> check, register |-> registerAccount, refresh |-> refreshToken,
   create |-> create, delete |-> delete, get |-> getByID,
   createReply |-> createReply, listReplies |-> listReplies, react |-> react,
   report |-> createReport, listReports |-> listReports, action |-> action,
   latest |-> latest, trending |-> trending, feed |-> feed]

AllRoutes == DOMAIN Handler

ASSUME PipelineAssumption == Routes \subseteq AllRoutes

AdminRoutes == {"listReports", "action"}
PrivateRoutes == AdminRoutes \cup {"create", "delete", "createReply", "react", "report"}
-----------------------------------------------------------------------------
\* What a request asks for.  OPTIONS from another origin is "preflight", for
\* any path; what would match but for a slash at its end is "slash", and what
\* matches no route is "nowhere".  A token of None is missing, malformed, or
\* not one the service has signed.
Asked == Routes \cup {"preflight", "slash", "nowhere"}

Input == [route : Asked, token : Token \cup {None}, https : BOOLEAN]

\* What Auth puts in the request's context.
Context == [userID : Users, pseudonym : Names, isAdmin : BOOLEAN]

ASSUME ContextAssumption == None \notin Context

\* Who writes the answer: the chain of middleware and handler, the engine that
\* has found none for the path, or the upgrader, on the connection itself.
Writers == {"chain", "engine", "upgrader"}

Answer ==
  [status : {101, 200, 201, 204, 301, 307, 400, 401, 403, 404, 409, 429, 500, 503},
   headers : SUBSET {"hardened", "hsts"}, by : Writers, https : BOOLEAN]

Request == [pc : {"idle", "general", "auth", "posts", "handler", "answered", "dropped"},
            input : Input \cup {None}, context : Context \cup {None},
            late : BOOLEAN, answer : Answer \cup {None}]

Fresh == [pc |-> "idle", input |-> None, context |-> None, late |-> FALSE, answer |-> None]

PipelineInit ==
  /\ Init
  /\ production \in BOOLEAN
  /\ req = [r \in Reqs |-> Fresh]

\* A step of a request leaves accounts and sessions alone.
Step(r, next) ==
  /\ req' = [req EXCEPT ![r] = next]
  /\ UNCHANGED <<vars, production>>
-----------------------------------------------------------------------------
\* The headers every later middleware finds set.
Headers(input) ==
  {"hardened"} \cup (IF production /\ input.https THEN {"hsts"} ELSE {})

\* Of a request that is over only the answer is kept.
Replied(input, status, headers, by) ==
  [Fresh EXCEPT !.pc = "answered",
                !.answer = [status |-> status, headers |-> headers, by |-> by,
                            https |-> input.https]]

Answered(q, status) == Replied(q.input, status, Headers(q.input), "chain")

\* gin.New leaves RedirectTrailingSlash on: no middleware has run by then.
Redirected(input, status) == Replied(input, status, {}, "engine")

\* The handshake takes over the connection, and is given no header.
Switched(q) == Replied(q.input, 101, {}, "upgrader")

\* NoIP removes these headers, and the audit that follows it in development
\* panics, outside of Recovery, if one of its own list is left.
stripHeaderNames == {"X-Forwarded-For", "X-Real-Ip", "Cf-Connecting-Ip", "True-Client-Ip"}
ipHeaders == {"X-Forwarded-For", "X-Real-Ip", "Cf-Connecting-Ip", "True-Client-Ip"}

NoIP(leaks) == leaks \ stripHeaderNames
NoIPContext(headers) == production \/ headers \cap ipHeaders = {}

\* Mutant: the redirect comes before the headers.
SecurityBare(q) ==
  IF production /\ ~q.input.https
  THEN Replied(q.input, 301, {}, "chain")
  ELSE [q EXCEPT !.pc = "general"]

\* Security: in production plain http is redirected.
Security(q) ==
  IF production /\ ~q.input.https
  THEN Answered(q, 301) ELSE [q EXCEPT !.pc = "general"]

\* A session that is over, when the request comes in, is remembered in late.
Arrive(r, input, leaks) ==
  /\ req[r].pc \in {"idle", "answered", "dropped"}
  /\ \/ /\ input.route = "slash"
        /\ \E status \in {301, 307} : Step(r, Redirected(input, status))
     \/ /\ input.route # "slash"
        /\ LET q == [Fresh EXCEPT !.input = input,
                                  !.late = input.token # None /\ Gone(input.token.user)]
           IN  Step(r, IF NoIPContext(NoIP(leaks)) THEN Security(q)
                       ELSE [Fresh EXCEPT !.pc = "dropped"])

\* CORS answers a preflight before any route is looked for.
CORS(q) == Answered(q, 204)

\* Logger and CORS, and the routes.
Routed(q) ==
  IF q.input.route = "preflight" THEN CORS(q)
  ELSE IF q.input.route = "nowhere" THEN Answered(q, 404)
  ELSE [q EXCEPT !.pc = IF q.input.route \in PrivateRoutes THEN "auth" ELSE "handler"]

\* The general limiter, and what follows it up to the next one.
General(r) ==
  /\ req[r].pc = "general"
  /\ \/ Step(r, Routed(req[r]))
     \/ Step(r, Answered(req[r], 429))
     \/ Faults /\ Step(r, Answered(req[r], 500))

\* Mutant: the claim is not looked at.
AdminAny(q) == [q EXCEPT !.pc = "handler"]

\* Admin, which needs no more than the context.
Admin(q) ==
  IF q.context.isAdmin THEN [q EXCEPT !.pc = "handler"] ELSE Answered(q, 403)

Claims(t) == [userID |-> t.user, pseudonym |-> t.name, isAdmin |-> t.admin]

\* Auth lets the request through to what follows on its route.
Authenticated(q) ==
  LET known == [q EXCEPT !.context = Claims(q.input.token)]
  IN  IF q.input.route \in AdminRoutes THEN Admin(known)
      ELSE [known EXCEPT !.pc = IF q.input.route = "create" THEN "posts" ELSE "handler"]

Auth(r) ==
  LET t == req[r].input.token
  IN  /\ req[r].pc = "auth"
      /\ \/ t # None /\ Accepts(t) /\ Step(r, Authenticated(req[r]))
         \/ t = None /\ Step(r, Answered(req[r], 401))
         \/ t # None /\ ~Accepts(t) /\ Step(r, Answered(req[r], 401))
         \/ Faults /\ t # None /\ now < t.exp /\ Step(r, Answered(req[r], 500))

\* The limiter of POST /posts.
PostCreate(r) ==
  /\ req[r].pc = "posts"
  /\ \/ Step(r, [req[r] EXCEPT !.pc = "handler"])
     \/ Step(r, Answered(req[r], 429))
     \/ Faults /\ Step(r, Answered(req[r], 500))
-----------------------------------------------------------------------------
\* A check of a handler that the request may fail, and the status it then gets.
Fails(q, stage) ==
  \/ stage \in {"bind", "id"}
  \/ stage \in {"userID", "pseudonym"} /\ q.context = None

FailStatus(stage) == IF stage \in {"bind", "id"} THEN 400 ELSE 401

\* mapDomainError.
ErrorStatus ==
  [ErrInvalidInput |-> 400, ErrUnauthorized |-> 401, ErrForbidden |-> 403,
   ErrNotFound |-> 404, ErrConflict |-> 409, internal |-> 500]

Success(route) ==
  IF route \in {"register", "create", "createReply", "report"} THEN 201 ELSE 200

\* The answers to a call of the service, and of the upgrader to a request it
\* refuses (what the handler adds then comes too late).
ServiceStatus(route) ==
  IF route = "feed" THEN {400, 403, 500}
  ELSE {Success(route)} \cup
       (IF route = "health" THEN {503} ELSE {ErrorStatus[e] : e \in DOMAIN ErrorStatus})

\* The handler stops at its i-th check, the last of which is the service.
Handle(r, i) ==
  LET q == req[r]
      stages == Handler[q.input.route]
  IN  /\ q.pc = "handler"
      /\ i \in 1..Len(stages)
      /\ \A j \in 1..(i - 1) :
           stages[j] \in {"userID", "pseudonym"} => ~Fails(q, stages[j])
      /\ \/ /\ Fails(q, stages[i])
            /\ Step(r, Answered(q, FailStatus(stages[i])))
         \/ /\ stages[i] = "service"
            /\ \E status \in ServiceStatus(q.input.route) :
                 Step(r, Answered(q, status))

\* The upgrade succeeds, or is given up once the connection is taken over.
Upgrade(r) ==
  /\ req[r].pc = "handler"
  /\ req[r].input.route = "feed"
  /\ Step(r, Switched(req[r])) \/ Step(r, Fresh)

Serve(r) ==
  \/ General(r) \/ Auth(r) \/ PostCreate(r) \/ Upgrade(r)
  \/ \E i \in 1..5 : Handle(r, i)

\* Nothing but Auth looks into a token, and nothing asks in development
\* whether a request came over https.
Inputs ==
  {i \in [route : Asked, token : issued \cup {None}, https : BOOLEAN] :
     /\ i.token # None => i.route \in PrivateRoutes
     /\ i.https => production}

PipelineNext ==
  \/ Next /\ UNCHANGED <<production, req>>
  \/ \E r \in Reqs :
       \/ \E input \in Inputs, leaks \in Leaks : Arrive(r, input, leaks)
       \/ Serve(r)

PipelineSpec == PipelineInit /\ [][PipelineNext]_pipelineVars
-----------------------------------------------------------------------------
PipelineTypeOK ==
  /\ TypeOK
  /\ production \in BOOLEAN
  /\ req \in [Reqs -> Request]

\* A handler behind Auth is about to act for the bearer of a token.
Acting(q) == q.pc = "handler" /\ q.input.route \in PrivateRoutes

(***************************************************************************)
(* A session that has ended, by a ban or by its expiry, is over for the     *)
(* bearer's later requests: no handler acts for them on any token they ever *)
(* held, whatever accounts and refreshes others have under way.             *)
(***************************************************************************)
GoneNeverActs == \A r \in Reqs : Acting(req[r]) => ~req[r].late

(***************************************************************************)
(* Whoever a handler acts for is known by then, has an account, and acts    *)
(* under the pseudonym of that account and of no other; on the routes of    *)
(* moderators the account is a moderator's.  The handlers take all of it    *)
(* from the context and never ask the users table.                          *)
(***************************************************************************)
ActsAsOwner ==
  \A r \in Reqs : Acting(req[r]) =>
    LET c == req[r].context
    IN  /\ c # None
        /\ users[c.userID] # None
        /\ users[c.userID].name = c.pseudonym
        /\ \A v \in Users \ {c.userID} : users[v] # None => users[v].name # c.pseudonym
        /\ req[r].input.route \in AdminRoutes => users[c.userID].admin

(***************************************************************************)
(* Whatever ends a request on its way through the middleware, limiters and  *)
(* unknown paths included, its answer carries the security headers.  Those  *)
(* that do not are the redirect of a path with a slash too many or too few, *)
(* which the engine gives before any middleware, and the handshake of a     *)
(* websocket.  In production nothing but redirects goes out over plain http;*)
(* and the audit, which runs outside of Recovery, drops no request.         *)
(***************************************************************************)
AnswersHardened ==
  \A r \in Reqs :
    /\ req[r].pc # "dropped"
    /\ req[r].pc = "answered" =>
         LET a == req[r].answer
         IN  /\ "hardened" \in a.headers \/ a.by \in {"engine", "upgrader"}
             /\ production /\ ~a.https => a.status \in {301, 307}
             /\ production /\ a.by = "chain" => ("hsts" \in a.headers <=> a.https)
=============================================================================
