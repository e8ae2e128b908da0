--------------------------- MODULE PipelineProofs ---------------------------
(***************************************************************************)
(* Proofs about Pipeline, for every set of connections, routes, users and   *)
(* headers.  They rest on the invariant of Session: a request step leaves   *)
(* accounts and sessions alone, and a step of Session leaves requests.      *)
(***************************************************************************)
EXTENDS Pipeline, SessionProofs

USE PipelineAssumption, ContextAssumption

\* The request is on its way.
Running(q) == q.pc \in {"general", "auth", "posts", "handler"}

\* Auth has let it through.
Past(q) == q.pc = "posts" \/ Acting(q)

\* What a running request carries.
Carries(q) ==
  /\ q.input \in Input
  /\ production => q.input.https
  /\ q.input.token # None => q.input.token \in issued

\* What has been found out about its bearer.
Identified(q) ==
  /\ q.pc = "auth" => q.input.route \in PrivateRoutes
  /\ q.pc = "posts" => q.input.route \in PrivateRoutes \ AdminRoutes
  /\ q.late => q.input.token # None /\ Gone(q.input.token.user)
  /\ Past(q) =>
       /\ q.input.token # None
       /\ q.context = Claims(q.input.token)
       /\ ~q.late
  /\ Acting(q) /\ q.input.route \in AdminRoutes => q.context.isAdmin

Hardened(a) ==
  /\ "hardened" \in a.headers \/ a.by \in {"engine", "upgrader"}
  /\ production /\ ~a.https => a.status \in {301, 307}
  /\ production /\ a.by = "chain" => ("hsts" \in a.headers <=> a.https)

RequestOK(q) ==
  /\ q \in Request
  /\ q.pc # "dropped"
  /\ Running(q) => Carries(q) /\ Identified(q)
  /\ q.pc = "answered" => Hardened(q.answer)

\* The inductive invariant.
PipelineInv ==
  /\ IInv
  /\ production \in BOOLEAN
  /\ req \in [Reqs -> Request]
  /\ \A r \in Reqs : RequestOK(req[r])

LEMMA FreshFields ==
  /\ Fresh \in Request
  /\ Fresh.pc = "idle"
BY DEF Fresh, Request

LEMMA PipelineInitInv == PipelineInit => PipelineInv
<1> SUFFICES ASSUME PipelineInit PROVE PipelineInv
  OBVIOUS
<1>1. IInv /\ production \in BOOLEAN
  BY InitIInv DEF PipelineInit
<1>2. \A r \in Reqs : req[r] = Fresh
  BY DEF PipelineInit
<1>3. RequestOK(Fresh)
  BY FreshFields DEF RequestOK, Running
<1> QED
  BY <1>1, <1>2, <1>3, FreshFields DEF PipelineInv, PipelineInit

(* The facts about accounts and tokens that the requests need.              *)

LEMMA InputFields ==
  ASSUME NEW i \in Input
  PROVE  /\ i.route \in Asked
         /\ i.token \in Token \cup {None}
         /\ i.https \in BOOLEAN
BY DEF Input

LEMMA RequestFields ==
  ASSUME NEW q \in Request
  PROVE  /\ q.pc \in {"idle", "general", "auth", "posts", "handler", "answered", "dropped"}
         /\ q.input \in Input \cup {None}
         /\ q.context \in Context \cup {None}
         /\ q.late \in BOOLEAN
BY DEF Request

LEMMA ClaimsType ==
  ASSUME NEW t \in Token
  PROVE  Claims(t) \in Context /\ Claims(t) # None
BY TokenFields DEF Claims, Context
-----------------------------------------------------------------------------
(* Steps of Session.                                                        *)

LEMMA SessionStep ==
  ASSUME PipelineInv, Next, UNCHANGED <<production, req>>
  PROVE  PipelineInv'
<1>1. IInv /\ IInv'
  BY NextIInv DEF PipelineInv
<1>2. issued \subseteq issued'
  BY IssuedGrows
<1>3. ASSUME NEW r \in Reqs
      PROVE  RequestOK(req[r])'
  <2> DEFINE q == req[r]
  <2>1. RequestOK(q) /\ q \in Request
    BY DEF PipelineInv
  <2>2. ASSUME Running(q) PROVE Carries(q)'
    BY <2>1, <2>2, <1>2 DEF RequestOK, Carries
  <2>3. ASSUME Running(q) PROVE Identified(q)'
    <3>1. Carries(q) /\ Identified(q)
      BY <2>1, <2>3 DEF RequestOK
    <3>2. q.late /\ q.input.token # None => q.input.token.user \in Users
      BY <3>1, InputFields, TokenFields DEF Carries
    <3>3. q.late => Gone(q.input.token.user)'
      BY <3>1, <3>2, <1>1, GoneNext DEF Identified
    <3> QED
      BY <3>1, <3>3 DEF Identified, Past, Acting, Claims
  <2>4. q.pc = "answered" => Hardened(q.answer)'
    BY <2>1 DEF RequestOK, Hardened
  <2> QED
    BY <2>1, <2>2, <2>3, <2>4 DEF RequestOK, Running
<1> QED
  BY <1>1, <1>3 DEF PipelineInv
-----------------------------------------------------------------------------
(* Steps of requests.                                                       *)

LEMMA StepOK ==
  ASSUME PipelineInv, NEW r \in Reqs, NEW next, Step(r, next), RequestOK(next)
  PROVE  PipelineInv'
<1>1. IInv' /\ production' \in BOOLEAN
  BY NextIInv DEF PipelineInv, Step
<1>2. \A q : RequestOK(q) => RequestOK(q)'
  BY DEF Step, vars, RequestOK, Running, Carries, Identified, Past, Acting, Hardened,
     Gone, Live, Refreshing, Claims
<1>3. next \in Request
  BY DEF RequestOK
<1>4. \A s \in Reqs : req'[s] = req[s] \/ req'[s] = next
  BY DEF Step, PipelineInv
<1>5. \A s \in Reqs : RequestOK(req[s])'
  BY <1>2, <1>4 DEF PipelineInv
<1>6. req' \in [Reqs -> Request]
  BY <1>3 DEF Step, PipelineInv
<1> QED
  BY <1>1, <1>5, <1>6 DEF PipelineInv

LEMMA AnswerFields ==
  ASSUME NEW a \in Answer
  PROVE  /\ [Fresh EXCEPT !.pc = "answered", !.answer = a] \in Request
         /\ [Fresh EXCEPT !.pc = "answered", !.answer = a].pc = "answered"
         /\ [Fresh EXCEPT !.pc = "answered", !.answer = a].answer = a
BY DEF Fresh, Request

Statuses == {101, 200, 201, 204, 301, 307, 400, 401, 403, 404, 409, 429, 500, 503}

\* What an answer has to keep to, whoever writes it.
LEMMA RepliedOK ==
  ASSUME NEW input \in Input, NEW status \in Statuses,
         NEW headers \in SUBSET {"hardened", "hsts"}, NEW by \in Writers,
         Hardened([status |-> status, headers |-> headers, by |-> by, https |-> input.https])
  PROVE  RequestOK(Replied(input, status, headers, by))
<1> DEFINE a == [status |-> status, headers |-> headers, by |-> by, https |-> input.https]
           n == [Fresh EXCEPT !.pc = "answered", !.answer = a]
<1>1. a \in Answer
  BY InputFields DEF Answer, Statuses
<1>2. Replied(input, status, headers, by) = n
  BY DEF Replied
<1> HIDE DEF a
<1>3. n \in Request /\ n.pc = "answered" /\ n.answer = a
  BY <1>1, AnswerFields
<1>4. Hardened(a)
  BY DEF a
<1> HIDE DEF n
<1> QED
  BY <1>2, <1>3, <1>4 DEF RequestOK, Running

LEMMA HeadersType ==
  ASSUME NEW input
  PROVE  /\ Headers(input) \in SUBSET {"hardened", "hsts"}
         /\ "hardened" \in Headers(input)
         /\ "hsts" \in Headers(input) <=> production /\ input.https
BY DEF Headers

\* The chain answers over https, or with a redirect.
LEMMA AnsweredOK ==
  ASSUME NEW q, NEW status \in Statuses, q.input \in Input,
         production /\ ~q.input.https => status = 301
  PROVE  RequestOK(Answered(q, status))
<1> DEFINE h == Headers(q.input)
<1>1. h \in SUBSET {"hardened", "hsts"} /\ "chain" \in Writers
  BY HeadersType DEF Writers
<1>2. Hardened([status |-> status, headers |-> h, by |-> "chain", https |-> q.input.https])
  BY HeadersType DEF Hardened
<1> QED
  BY <1>1, <1>2, RepliedOK DEF Answered

LEMMA RunningFields ==
  ASSUME PipelineInv, NEW r \in Reqs, Running(req[r])
  PROVE  /\ req[r] \in Request /\ RequestOK(req[r])
         /\ Carries(req[r]) /\ Identified(req[r])
BY DEF PipelineInv, RequestOK

\* The request goes on as it is, to the next stage.
LEMMA Onward ==
  ASSUME PipelineInv, NEW r \in Reqs, Running(req[r]), ~Past(req[r]),
         NEW pc \in {"auth", "handler"},
         req[r].input.route \in PrivateRoutes <=> pc = "auth"
  PROVE  RequestOK([req[r] EXCEPT !.pc = pc])
<1> DEFINE q == req[r]
           n == [q EXCEPT !.pc = pc]
<1>1. q \in Request /\ Carries(q) /\ Identified(q)
  BY RunningFields
<1>2. /\ n \in Request /\ n.pc = pc /\ n.input = q.input
      /\ n.context = q.context /\ n.late = q.late
  BY <1>1 DEF Request
<1> HIDE DEF n
<1>3. Carries(n)
  BY <1>1, <1>2 DEF Carries
<1>4. ~Past(n)
  BY <1>2 DEF Past, Acting
<1>5. Identified(n)
  BY <1>1, <1>2, <1>4 DEF Identified, Past
<1>6. RequestOK(n)
  BY <1>2, <1>3, <1>5 DEF RequestOK
<1> QED
  BY <1>6 DEF n

LEMMA StepArrive ==
  ASSUME PipelineInv, NEW r \in Reqs, NEW input \in Inputs, NEW leaks \in Leaks,
         Arrive(r, input, leaks)
  PROVE  PipelineInv'
<1> DEFINE q == [Fresh EXCEPT !.input = input,
                              !.late = input.token # None /\ Gone(input.token.user)]
<1>1. input \in Input /\ (input.token # None => input.token \in issued)
  BY DEF Inputs, Input, PipelineInv, IInv, TypeOK
<1>2. NoIPContext(NoIP(leaks))
  BY DEF NoIPContext, NoIP, stripHeaderNames, ipHeaders
<1>3. /\ q \in Request /\ q.input = input
      /\ q.late => input.token # None /\ Gone(input.token.user)
  BY <1>1, FreshFields DEF Request
<1> HIDE DEF q
<1>4. CASE input.route = "slash"
  <2>1. PICK status \in {301, 307} : Step(r, Redirected(input, status))
    BY <1>4 DEF Arrive
  <2>2. Hardened([status |-> status, headers |-> {}, by |-> "engine", https |-> input.https])
    BY DEF Hardened
  <2>3. status \in Statuses /\ {} \in SUBSET {"hardened", "hsts"} /\ "engine" \in Writers
    BY DEF Statuses, Writers
  <2>4. RequestOK(Redirected(input, status))
    BY <1>1, <2>2, <2>3, RepliedOK DEF Redirected
  <2> QED
    BY <2>1, <2>4, StepOK
<1>5. CASE input.route # "slash" /\ production /\ ~input.https
  <2>1. Step(r, Answered(q, 301))
    BY <1>2, <1>3, <1>5 DEF Arrive, Security, q
  <2>2. RequestOK(Answered(q, 301))
    BY <1>1, <1>3, AnsweredOK DEF Statuses
  <2> QED
    BY <2>1, <2>2, StepOK
<1>6. CASE input.route # "slash" /\ ~(production /\ ~input.https)
  <2> DEFINE n == [q EXCEPT !.pc = "general"]
  <2>1. Step(r, n)
    BY <1>2, <1>3, <1>6 DEF Arrive, Security, q
  <2>2. /\ n \in Request /\ n.pc = "general" /\ n.input = input
        /\ n.late = q.late
    BY <1>3 DEF Request
  <2> HIDE DEF n
  <2>3. Carries(n)
    BY <1>1, <1>6, <2>2, InputFields DEF Carries, PipelineInv
  <2>4. Identified(n)
    BY <1>3, <2>2 DEF Identified, Past, Acting
  <2>5. RequestOK(n)
    BY <2>2, <2>3, <2>4 DEF RequestOK
  <2> QED
    BY <2>1, <2>5, StepOK
<1> QED
  BY <1>4, <1>5, <1>6

LEMMA AnswerStep ==
  ASSUME PipelineInv, NEW r \in Reqs, Running(req[r]),
         NEW status \in Statuses, Step(r, Answered(req[r], status))
  PROVE  PipelineInv'
<1>1. RequestOK(Answered(req[r], status))
  BY RunningFields, AnsweredOK DEF Carries
<1> QED
  BY <1>1, StepOK

LEMMA StepGeneral ==
  ASSUME PipelineInv, NEW r \in Reqs, General(r)
  PROVE  PipelineInv'
<1>1. req[r].pc = "general" /\ Running(req[r]) /\ ~Past(req[r])
  BY DEF General, Running, Past, Acting
<1>2. CASE Step(r, Answered(req[r], 429)) \/ Step(r, Answered(req[r], 500))
  BY <1>1, <1>2, AnswerStep DEF Statuses
<1>3. CASE Step(r, Routed(req[r]))
  <2>1. CASE req[r].input.route = "preflight"
    BY <1>1, <1>3, <2>1, AnswerStep DEF Routed, CORS, Statuses
  <2>2. CASE req[r].input.route = "nowhere"
    BY <1>1, <1>3, <2>2, AnswerStep DEF Routed, Statuses
  <2>3. CASE req[r].input.route \notin {"preflight", "nowhere"}
    <3>1. CASE req[r].input.route \in PrivateRoutes
      <4>1. Routed(req[r]) = [req[r] EXCEPT !.pc = "auth"]
        BY <2>3, <3>1 DEF Routed
      <4> QED
        BY <1>1, <1>3, <3>1, <4>1, Onward, StepOK
    <3>2. CASE req[r].input.route \notin PrivateRoutes
      <4>1. Routed(req[r]) = [req[r] EXCEPT !.pc = "handler"]
        BY <2>3, <3>2 DEF Routed
      <4> QED
        BY <1>1, <1>3, <3>2, <4>1, Onward, StepOK
    <3> QED
      BY <3>1, <3>2
  <2> QED
    BY <2>1, <2>2, <2>3
<1> QED
  BY <1>2, <1>3 DEF General

LEMMA StepAuth ==
  ASSUME PipelineInv, NEW r \in Reqs, Auth(r)
  PROVE  PipelineInv'
<1> DEFINE q == req[r]
           t == q.input.token
           known == [q EXCEPT !.context = Claims(t)]
<1>1. q.pc = "auth" /\ Running(q)
  BY DEF Auth, Running
<1>2. q \in Request /\ Carries(q) /\ Identified(q) /\ q.input.route \in PrivateRoutes
  BY <1>1, RunningFields DEF Identified
<1>3. CASE \/ Step(r, Answered(q, 401))
           \/ Step(r, Answered(q, 500))
  BY <1>1, <1>3, AnswerStep DEF Statuses
<1>4. CASE t # None /\ Accepts(t) /\ Step(r, Authenticated(q))
  <2>1. t \in Token /\ t \in issued
    BY <1>2, <1>4 DEF Carries, PipelineInv, IInv, TypeOK
  <2>2. ~q.late
    BY <1>2, <1>4 DEF Identified, Gone, Accepts
  <2>3. Claims(t) \in Context
    BY <2>1, ClaimsType
  <2>4. ASSUME NEW pc \in {"posts", "handler"},
               q.input.route \in AdminRoutes => pc = "handler" /\ Claims(t).isAdmin
        PROVE  RequestOK([known EXCEPT !.pc = pc])
    <3> DEFINE n == [known EXCEPT !.pc = pc]
    <3>1. /\ n \in Request /\ n.pc = pc /\ n.input = q.input
          /\ n.context = Claims(t) /\ n.late = q.late
      BY <1>2, <2>3 DEF Request
    <3> HIDE DEF n
    <3>2. Carries(n)
      BY <1>2, <3>1 DEF Carries
    <3>3. Identified(n)
      BY <1>2, <1>4, <2>2, <2>4, <3>1 DEF Identified, Acting
    <3>4. RequestOK(n)
      BY <3>1, <3>2, <3>3 DEF RequestOK
    <3> QED
      BY <3>4 DEF n
  <2>5. known.input = q.input /\ known.context = Claims(t)
    BY <1>2 DEF Request
  <2>6. CASE q.input.route \in AdminRoutes
    <3>1. CASE Claims(t).isAdmin
      <4>1. Authenticated(q) = [known EXCEPT !.pc = "handler"]
        BY <2>5, <2>6, <3>1 DEF Authenticated, Admin
      <4> QED
        BY <1>4, <2>4, <3>1, <4>1, StepOK
    <3>2. CASE ~Claims(t).isAdmin
      <4>1. Authenticated(q) = Answered(known, 403)
        BY <2>5, <2>6, <3>2 DEF Authenticated, Admin
      <4>2. RequestOK(Answered(known, 403))
        <5>1. known.input \in Input /\ (production => known.input.https)
          BY <1>2, <2>5 DEF Carries
        <5> HIDE DEF known
        <5> QED
          BY <5>1, AnsweredOK DEF Statuses
      <4> QED
        BY <1>4, <4>1, <4>2, StepOK
    <3> QED
      BY <3>1, <3>2
  <2>7. CASE q.input.route \notin AdminRoutes
    <3>1. PICK pc \in {"posts", "handler"} : Authenticated(q) = [known EXCEPT !.pc = pc]
      BY <2>7 DEF Authenticated
    <3> QED
      BY <1>4, <2>4, <2>7, <3>1, StepOK
  <2> QED
    BY <2>6, <2>7
<1> QED
  BY <1>3, <1>4 DEF Auth

LEMMA StepPostCreate ==
  ASSUME PipelineInv, NEW r \in Reqs, PostCreate(r)
  PROVE  PipelineInv'
<1> DEFINE q == req[r]
           n == [q EXCEPT !.pc = "handler"]
<1>1. q.pc = "posts" /\ Running(q) /\ Past(q)
  BY DEF PostCreate, Running, Past
<1>2. CASE Step(r, Answered(q, 429)) \/ Step(r, Answered(q, 500))
  BY <1>1, <1>2, AnswerStep DEF Statuses
<1>3. CASE Step(r, n)
  <2>1. q \in Request /\ Carries(q) /\ Identified(q)
    BY <1>1, RunningFields
  <2>2. /\ n \in Request /\ n.pc = "handler" /\ n.input = q.input
        /\ n.context = q.context /\ n.late = q.late
    BY <2>1 DEF Request
  <2>3. q.input.route \notin AdminRoutes
    BY <1>1, <2>1 DEF Identified
  <2> HIDE DEF n
  <2>4. RequestOK(n)
    BY <1>1, <2>1, <2>2, <2>3 DEF RequestOK, Carries, Identified, Past, Acting
  <2> QED
    BY <1>3, <2>4, StepOK
<1> QED
  BY <1>2, <1>3 DEF PostCreate

LEMMA ServiceStatuses ==
  ASSUME NEW route
  PROVE  ServiceStatus(route) \subseteq Statuses
<1>1. Success(route) \in {200, 201}
  BY DEF Success
<1>2. {ErrorStatus[e] : e \in DOMAIN ErrorStatus} \subseteq {400, 401, 403, 404, 409, 500}
  BY DEF ErrorStatus
<1> QED
  BY <1>1, <1>2 DEF ServiceStatus, Statuses

LEMMA StepHandle ==
  ASSUME PipelineInv, NEW r \in Reqs, NEW i \in 1..5, Handle(r, i)
  PROVE  PipelineInv'
<1>1. req[r].pc = "handler" /\ Running(req[r])
  BY DEF Handle, Running
<1>2. \A stage : FailStatus(stage) \in Statuses
  BY DEF FailStatus, Statuses
<1>3. ASSUME NEW status \in ServiceStatus(req[r].input.route)
      PROVE  status \in Statuses
  BY ServiceStatuses
<1> QED
  BY <1>1, <1>2, <1>3, AnswerStep DEF Handle

LEMMA StepUpgrade ==
  ASSUME PipelineInv, NEW r \in Reqs, Upgrade(r)
  PROVE  PipelineInv'
<1> DEFINE input == req[r].input
<1>1. req[r].pc = "handler" /\ Running(req[r])
  BY DEF Upgrade, Running
<1>2. input \in Input /\ (production => input.https)
  BY <1>1, RunningFields DEF Carries
<1>3. RequestOK(Switched(req[r]))
  <2>1. 101 \in Statuses /\ {} \in SUBSET {"hardened", "hsts"} /\ "upgrader" \in Writers
    BY DEF Statuses, Writers
  <2>2. Hardened([status |-> 101, headers |-> {}, by |-> "upgrader", https |-> input.https])
    BY <1>2 DEF Hardened
  <2> QED
    BY <1>2, <2>1, <2>2, RepliedOK DEF Switched
<1>4. RequestOK(Fresh)
  BY FreshFields DEF RequestOK, Running
<1> QED
  BY <1>3, <1>4, StepOK DEF Upgrade

LEMMA PipelineNextInv == PipelineInv /\ [PipelineNext]_pipelineVars => PipelineInv'
<1> SUFFICES ASSUME PipelineInv, [PipelineNext]_pipelineVars PROVE PipelineInv'
  OBVIOUS
<1>1. CASE UNCHANGED pipelineVars
  <2>1. IInv'
    BY <1>1, NextIInv DEF pipelineVars, PipelineInv
  <2>2. \A q : RequestOK(q) => RequestOK(q)'
    BY <1>1 DEF pipelineVars, vars, RequestOK, Running, Carries, Identified, Past, Acting,
       Hardened, Gone, Live, Refreshing, Claims
  <2> QED
    BY <1>1, <2>1, <2>2 DEF pipelineVars, PipelineInv
<1>2. CASE Next /\ UNCHANGED <<production, req>>
  BY <1>2, SessionStep
<1>3. ASSUME NEW r \in Reqs, NEW input \in Inputs, NEW leaks \in Leaks,
             Arrive(r, input, leaks)
      PROVE  PipelineInv'
  BY <1>3, StepArrive
<1>4. ASSUME NEW r \in Reqs, Serve(r)
      PROVE  PipelineInv'
  BY <1>4, StepGeneral, StepAuth, StepPostCreate, StepHandle, StepUpgrade DEF Serve
<1> QED
  BY <1>1, <1>2, <1>3, <1>4 DEF PipelineNext

(***************************************************************************)
(* What is known of a request at each stage of the router: the inductive    *)
(* invariant of the pipeline.                                               *)
(***************************************************************************)
THEOREM PipelineInvariant == PipelineSpec => []PipelineInv
BY PipelineInitInv, PipelineNextInv, PTL DEF PipelineSpec

(***************************************************************************)
(* Requests keep their types, and so do the accounts and sessions under     *)
(* them.                                                                    *)
(***************************************************************************)
THEOREM PipelineTypes == PipelineSpec => []PipelineTypeOK
<1>1. PipelineInv => PipelineTypeOK
  BY DEF PipelineInv, PipelineTypeOK, IInv
<1> QED
  BY PipelineInvariant, <1>1, PTL

(***************************************************************************)
(* No handler acts for a request whose session was over when it came in.    *)
(***************************************************************************)
THEOREM PipelineGoneNeverActs == PipelineSpec => []GoneNeverActs
<1>1. PipelineInv => GoneNeverActs
  BY DEF PipelineInv, RequestOK, Running, Identified, Past, Acting, GoneNeverActs
<1> QED
  BY PipelineInvariant, <1>1, PTL

(***************************************************************************)
(* A handler behind Auth acts for an account, under its pseudonym alone,    *)
(* and on the routes of moderators for a moderator's.                       *)
(***************************************************************************)
THEOREM PipelineActsAsOwner == PipelineSpec => []ActsAsOwner
<1>1. PipelineInv => ActsAsOwner
  <2> SUFFICES ASSUME PipelineInv, NEW r \in Reqs, Acting(req[r])
               PROVE  LET c == req[r].context
                      IN  /\ c # None
                          /\ users[c.userID] # None
                          /\ users[c.userID].name = c.pseudonym
                          /\ \A v \in Users \ {c.userID} :
                               users[v] # None => users[v].name # c.pseudonym
                          /\ req[r].input.route \in AdminRoutes => users[c.userID].admin
    BY DEF ActsAsOwner
  <2> DEFINE q == req[r]
             t == q.input.token
  <2>1. /\ q \in Request /\ Carries(q) /\ Identified(q)
        /\ t # None /\ q.context = Claims(t)
    BY DEF PipelineInv, RequestOK, Running, Identified, Past, Acting
  <2>2. t \in issued /\ t \in Token
    BY <2>1 DEF Carries, PipelineInv, IInv, TypeOK
  <2>3. q.context # None
    BY <2>1, <2>2, ClaimsType
  <2>4. /\ q.context.userID = t.user /\ q.context.pseudonym = t.name
        /\ q.context.isAdmin = t.admin
    BY <2>1 DEF Claims
  <2>5. /\ users[t.user] # None /\ users[t.user].name = t.name
        /\ t.admin => users[t.user].admin
    BY <2>2 DEF PipelineInv, IInv, Tokens, Known
  <2>6. \A v \in Users \ {t.user} : users[v] # None => users[v].name # t.name
    BY <2>2, <2>5, TokenFields DEF PipelineInv, IInv, Accounts
  <2>7. q.input.route \in AdminRoutes => q.context.isAdmin
    BY <2>1 DEF Identified
  <2> QED
    BY <2>3, <2>4, <2>5, <2>6, <2>7
<1> QED
  BY PipelineInvariant, <1>1, PTL

(***************************************************************************)
(* The chain of middleware hardens each of its answers, HSTS is theirs when *)
(* they go out over https in production, and no request is dropped; of the  *)
(* answers over plain http in production each is a redirect.                *)
(***************************************************************************)
THEOREM PipelineAnswersHardened == PipelineSpec => []AnswersHardened
<1>1. PipelineInv => AnswersHardened
  BY DEF PipelineInv, RequestOK, Hardened, AnswersHardened
<1> QED
  BY PipelineInvariant, <1>1, PTL
-----------------------------------------------------------------------------
(* What the router adds takes nothing away from Session: no middleware and  *)
(* no handler that is modelled here touches an account, a session or a      *)
(* token, whatever the stage at which it answers.                           *)

LEMMA ArriveStep ==
  ASSUME NEW r \in Reqs, NEW input \in Inputs, NEW leaks \in Leaks, Arrive(r, input, leaks)
  PROVE  UNCHANGED vars
BY DEF Arrive, Step

LEMMA ServeStep ==
  ASSUME NEW r \in Reqs, Serve(r)
  PROVE  UNCHANGED vars
<1>1. General(r) => UNCHANGED vars
  BY DEF General, Step
<1>2. Auth(r) => UNCHANGED vars
  BY DEF Auth, Step
<1>3. PostCreate(r) => UNCHANGED vars
  BY DEF PostCreate, Step
<1>4. \A i \in 1..5 : Handle(r, i) => UNCHANGED vars
  BY DEF Handle, Step
<1>5. Upgrade(r) => UNCHANGED vars
  BY DEF Upgrade, Step
<1> QED
  BY <1>1, <1>2, <1>3, <1>4, <1>5 DEF Serve

LEMMA SessionNext == [PipelineNext]_pipelineVars => [Next]_vars
<1>1. UNCHANGED pipelineVars => UNCHANGED vars
  BY DEF pipelineVars
<1> QED
  BY <1>1, ArriveStep, ServeStep DEF PipelineNext

\* The theorems of Session carry over, whatever requests are on their way.
LEMMA PipelineSession == PipelineSpec => Spec
<1>1. PipelineInit => Init
  BY DEF PipelineInit
<1> QED
  BY <1>1, SessionNext, PTL DEF PipelineSpec, Spec

(***************************************************************************)
(* Whatever requests are on their way, a session is one of an account that *)
(* exists, and ends: within a lifetime, and not before the token it admits.*)
(***************************************************************************)
THEOREM PipelineSessionBacked == PipelineSpec => []SessionBacked
BY PipelineSession, SessionIsBacked, PTL

(***************************************************************************)
(* Nor does a promotion come undone, or a token claim more than the        *)
(* database says, while middleware and handlers read the claims.           *)
(***************************************************************************)
THEOREM PipelinePromotionSticks == PipelineSpec => []PromotionSticks
BY PipelineSession, SessionPromotionSticks, PTL

(***************************************************************************)
(* A user whose refreshes neither overlapped nor failed half-way can rotate*)
(* every token that Auth would let through.                                *)
(***************************************************************************)
THEOREM PipelineUndisturbedRefreshable == PipelineSpec => []UndisturbedRefreshable
BY PipelineSession, SessionUndisturbedRefreshable, PTL

(***************************************************************************)
(* A session that has ended stays ended under all of it: no request is what*)
(* lets its bearer in again.                                               *)
(***************************************************************************)
THEOREM PipelineGoneStaysGone == PipelineSpec => GoneStaysGone
BY PipelineSession, SessionGoneStaysGone, PTL

(***************************************************************************)
(* Authenticated requests are no step of accounts at all: with them in      *)
(* flight, sessions and tokens still keep what Membership promises.         *)
(***************************************************************************)
THEOREM PipelineImplementsMembership == PipelineSpec => ImplementsMembership
BY PipelineSession, SessionImplementsMembership, PTL
=============================================================================
