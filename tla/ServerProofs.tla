---------------------------- MODULE ServerProofs ----------------------------
(***************************************************************************)
(* Proofs about Server, for every set of requests and environments and all  *)
(* capacities of the hub's channels.  The steps of the process are steps of *)
(* the hub or leave it alone, so what HubProofs proves of the hub is handed *)
(* on to the process.                                                       *)
(***************************************************************************)
EXTENDS Server, HubProofs

LEMMA MainStep == Main => Cancel \/ UNCHANGED vars
BY DEF Main, LoadConfig, openDB, openRedis, Open, Go, GoHub, GoListen, Notify, SelectError,
   SelectSignal, HubCancel, Shutdown, ShutdownDone, ShutdownWait, ShutdownTimeout, Exit

LEMMA HubNext == ServerNext => [Next]_vars
<1> SUFFICES ASSUME ServerNext PROVE [Next]_vars
  OBVIOUS
<1>1. CASE Main
  BY <1>1, MainStep DEF Next
<1>2. CASE Signal \/ Listen
  BY <1>2 DEF Signal, Listen
<1>3. ASSUME NEW r \in Requests, Accept(r) \/ Respond(r)
      PROVE  UNCHANGED vars
  BY <1>3 DEF Accept, Respond
<1>4. ASSUME NEW m \in Msgs, CreatePost(m)
      PROVE  Next
  BY <1>4 DEF CreatePost, Next
<1>5. ASSUME NEW c \in Conns, Upgrade(c)
      PROVE  Next
  BY <1>5 DEF Upgrade, Next
<1>6. CASE HubRun(Run)
  BY <1>6 DEF HubRun, HubStep, Next
<1>7. ASSUME NEW c \in Conns, HubStep(Register(c) \/ Start(c) \/ PeerLost(c) \/ Pump(c))
      PROVE  Next
  BY <1>7 DEF HubStep, Next
<1> QED
  BY <1>1, <1>2, <1>3, <1>4, <1>5, <1>6, <1>7 DEF ServerNext

\* The theorems of Hub carry over, from the start of the process to its end.
LEMMA ServerHub == ServerSpec => Spec
<1>1. ServerInit => Init
  BY DEF ServerInit
<1>2. [ServerNext]_serverVars => [Next]_vars
  BY HubNext DEF serverVars
<1> QED
  BY <1>1, <1>2, PTL DEF ServerSpec, Spec

(***************************************************************************)
(* No shutdown and no late request makes the hub panic.                     *)
(***************************************************************************)
THEOREM ServerNeverPanics == ServerSpec => []NeverPanics
BY ServerHub, HubNeverPanics, PTL

(***************************************************************************)
(* Nor does any of them break the stream of a client.                       *)
(***************************************************************************)
THEOREM ServerStreamContiguous == ServerSpec => []StreamContiguous
BY ServerHub, HubStreamContiguous, PTL

(***************************************************************************)
(* To its subscribers the process is a FeedStream from its start to its    *)
(* end: one order of payloads, and each member gets an unbroken stretch.   *)
(***************************************************************************)
THEOREM ServerImplementsFeedStream == ServerSpec => ImplementsFeedStream
BY ServerHub, HubImplementsFeedStream, PTL

(***************************************************************************)
(* However run came to cancel the hub, once Run has returned no socket is  *)
(* open but those of clients still on their way into the hub.              *)
(***************************************************************************)
THEOREM ServerStoppedClean == ServerSpec => []StoppedClean
BY ServerHub, HubStoppedClean, PTL
-----------------------------------------------------------------------------
\* The variables of Server by themselves.
MainTypeOK ==
  /\ main \in {"load", "openDB", "openRedis", "goHub", "goListen", "notify", "select",
               "hubCancel", "close", "poll", "wait", "return", "exited"}
  /\ status \in {"none", "ok", "error", "killed"}
  /\ status = "none" <=> main \notin {"return", "exited"}
  /\ listener \in {"none", "starting", "serving", "failed", "closed"}
  /\ signals \in BOOLEAN
  /\ inShutdown \in BOOLEAN
  /\ request \in [Requests -> {"none", "active", "hijacked", "answered"}]

\* The order of a shutdown: hubCancel, the listener, the requests.
Order ==
  /\ main \in {"close", "poll", "wait"} => ctxDone
  /\ main \in {"poll", "wait"} => inShutdown
  /\ inShutdown => listener # "serving"
  /\ status = "ok" => inShutdown /\ ctxDone /\ Active = {}

MainInv == MainTypeOK /\ Order

LEMMA MainInitInv == ServerInit => MainInv
<1> SUFFICES ASSUME ServerInit PROVE MainInv
  OBVIOUS
<1>1. /\ main = "load" /\ status = "none" /\ listener = "none"
      /\ signals = FALSE /\ inShutdown = FALSE
      /\ request = [r \in Requests |-> "none"]
  BY DEF ServerInit
<1>2. MainTypeOK
  BY <1>1 DEF MainTypeOK
<1>3. Order
  BY <1>1 DEF Order
<1> QED
  BY <1>2, <1>3 DEF MainInv

LEMMA DoneStays == ASSUME ctxDone, [Next]_vars PROVE ctxDone'
BY DEF Next, vars, Run, Cancel, Broadcast, Connect, Register, Start, PeerLost, Pump,
   ReadError, Unregister, TakeMessage, WriteMessage, WriteError, SendClosed, PingError,
   RunRegister, RunUnregister, RunBroadcast, RunFanoutEnd, RunDone, RunQuit, RunSend, RunDrain

LEMMA MainNextInv == MainInv /\ [ServerNext]_serverVars => MainInv'
<1> SUFFICES ASSUME MainInv, [ServerNext]_serverVars PROVE MainInv'
  OBVIOUS
<1>1. [Next]_vars
  BY HubNext DEF serverVars
<1>2. ctxDone => ctxDone'
  BY <1>1, DoneStays
<1>3. CASE Main
  <2>1. request' = request /\ Active' = Active
    BY <1>3
       DEF Main, LoadConfig, openDB, openRedis, Open, Go, GoHub, GoListen, Notify, SelectError,
           SelectSignal, HubCancel, Shutdown, ShutdownDone, ShutdownWait, ShutdownTimeout,
           Exit, Active
  <2>2. CASE LoadConfig \/ openDB \/ openRedis \/ GoHub \/ GoListen \/ Notify
    BY <1>2, <2>1, <2>2
       DEF LoadConfig, openDB, openRedis, Open, Go, GoHub, GoListen, Notify, Returns,
           MainInv, MainTypeOK, Order
  <2>3. CASE SelectError \/ SelectSignal
    BY <1>2, <2>1, <2>3 DEF SelectError, SelectSignal, Go, Returns, MainInv, MainTypeOK, Order
  <2>4. CASE HubCancel
    BY <2>1, <2>4 DEF HubCancel, Cancel, MainInv, MainTypeOK, Order
  <2>5. CASE Shutdown
    BY <1>2, <2>1, <2>5 DEF Shutdown, CloseListener, Go, MainInv, MainTypeOK, Order
  <2>6. CASE ShutdownDone
    BY <1>2, <2>1, <2>6 DEF ShutdownDone, Returns, MainInv, MainTypeOK, Order
  <2>7. CASE ShutdownWait \/ ShutdownTimeout \/ Exit
    BY <1>2, <2>1, <2>7
       DEF ShutdownWait, ShutdownTimeout, Expired, Exit, Go, Returns, MainInv, MainTypeOK, Order
  <2> QED
    BY <1>3, <2>2, <2>3, <2>4, <2>5, <2>6, <2>7 DEF Main
<1>4. CASE Signal \/ Listen
  <2>1. request' = request /\ Active' = Active
    BY <1>4 DEF Signal, Listen, Active
  <2>2. CASE Signal
    BY <1>2, <2>1, <2>2 DEF Signal, Alive, MainInv, MainTypeOK, Order
  <2>3. CASE Listen
    BY <1>2, <2>1, <2>3 DEF Listen, Listens, Alive, MainInv, MainTypeOK, Order
  <2> QED
    BY <1>4, <2>2, <2>3
<1>5. CASE UNCHANGED mainVars
  BY <1>2, <1>5 DEF mainVars, MainInv, MainTypeOK, Order, Active
<1>6. ASSUME NEW r \in Requests, Accept(r)
      PROVE  MainInv'
  BY <1>2, <1>6 DEF Accept, Handled, Alive, MainInv, MainTypeOK, Order, Active
<1>7. ASSUME NEW r \in Requests, request[r] = "active",
             NEW state \in {"active", "hijacked", "answered"}, Handled(r, state)
      PROVE  MainInv'
  BY <1>2, <1>7 DEF Handled, Alive, MainInv, MainTypeOK, Order, Active
<1>8. \A r \in Requests : Respond(r) => MainInv'
  BY <1>7 DEF Respond
<1>9. \A m \in Msgs : CreatePost(m) => MainInv'
  BY <1>7 DEF CreatePost, Requests
<1>10. \A c \in Conns : Upgrade(c) => MainInv'
  BY <1>7 DEF Upgrade, Requests
<1>11. HubRun(Run) => UNCHANGED mainVars
  BY DEF HubRun, HubStep
<1>12. \A c \in Conns :
         HubStep(Register(c) \/ Start(c) \/ PeerLost(c) \/ Pump(c)) => UNCHANGED mainVars
  BY DEF HubStep
<1> QED
  BY <1>3, <1>4, <1>5, <1>6, <1>8, <1>9, <1>10, <1>11, <1>12 DEF ServerNext, serverVars

(***************************************************************************)
(* Where run stands and how it ends fit together, and a shutdown goes in    *)
(* order: the inductive invariant of the process.                           *)
(***************************************************************************)
THEOREM ServerInv == ServerSpec => []MainInv
BY MainInitInv, MainNextInv, PTL DEF ServerSpec

(***************************************************************************)
(* The variables of the process keep their types, and so do the hub's.      *)
(***************************************************************************)
THEOREM ServerTypes == ServerSpec => []ServerTypeOK
<1>1. TypeOK /\ MainInv => ServerTypeOK
  BY DEF MainInv, MainTypeOK, ServerTypeOK
<1> QED
  BY <1>1, ServerInv, ServerHub, HubTypeOK, PTL

(***************************************************************************)
(* A process that ends with status 0 has answered every request it had.     *)
(***************************************************************************)
THEOREM ServerCleanExit == ServerSpec => []CleanExit
<1>1. MainInv => CleanExit
  BY DEF MainInv, Order, CleanExit
<1> QED
  BY <1>1, ServerInv, PTL
=============================================================================
