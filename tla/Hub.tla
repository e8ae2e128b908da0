-------------------------------- MODULE Hub --------------------------------
(***************************************************************************)
(* The live feed: the goroutine of internal/hub/hub.go (Run), the pumps of  *)
(* internal/hub/client.go (one reader and one writer per websocket), the    *)
(* request handler that opens a socket (internal/handler/ws.go) and the     *)
(* calls to Hub.Broadcast made when a post is created.                      *)
(*                                                                          *)
(* A channel is a sequence with a capacity; a blocked channel operation is  *)
(* a disabled action; a select takes any ready case.  close(c.send) and the *)
(* c.conn.Close() that follows it are one step: no goroutine can tell.      *)
(***************************************************************************)
EXTENDS Integers, Sequences, FiniteSets

CONSTANTS
  Conns,     \* websocket connections, each opened at most once
  Msgs,      \* payloads of the posts created, each broadcast at most once
  SendCap,   \* capacity of Client.send
  RegCap,    \* capacity of Hub.register
  UnregCap,  \* capacity of Hub.unregister
  BcastCap   \* capacity of Hub.broadcast

ASSUME CapAssumption ==
  /\ SendCap \in Nat \ {0}
  /\ RegCap \in Nat \ {0}
  /\ UnregCap \in Nat \ {0}
  /\ BcastCap \in Nat \ {0}

VARIABLES
  ctxDone,     \* the hub's context is cancelled (hubCancel in main.go)
  hub,         \* where Run stands: "select", "fanout", "drain" or "stopped"
  todo,        \* the clients the current "for c := range h.clients" has left
  clients,     \* Hub.clients
  register,    \* Hub.register
  unregister,  \* Hub.unregister
  broadcast,   \* Hub.broadcast
  quit,        \* Hub.quit is closed
  send,        \* Client.send
  closes,      \* how often Client.send has been closed (Go panics at two)
  conn,        \* the socket: "none", "open", "lost" (the peer) or "closed"
  feed,        \* the ws handler: "idle", "register", "start" or "served"
  reader,      \* readPump: "none", "reading", "unregister" or "done"
  writer,      \* writePump: "none", "select", "writing" or "done"
  message,     \* the payload writePump holds, a sequence of at most one
  created,     \* the payloads handed to Broadcast so far
  log,         \* history: the payloads Run has fanned out, in order
  joined,      \* history: Len(log) when the client entered Hub.clients
  delivered    \* history: the payloads written to the socket, in order

hubVars == <<hub, todo, clients, quit>>
chanVars == <<register, unregister, broadcast>>
pumpVars == <<feed, reader, writer, message>>
histVars == <<created, log, joined, delivered>>
vars == <<ctxDone, hubVars, chanVars, send, closes, conn, pumpVars, histVars>>

Elems(s) == {s[i] : i \in 1..Len(s)}

Init ==
  /\ ctxDone = FALSE
  /\ hub = "select"
  /\ todo = {}
  /\ clients = {}
  /\ register = <<>>
  /\ unregister = <<>>
  /\ broadcast = <<>>
  /\ quit = FALSE
  /\ send = [c \in Conns |-> <<>>]
  /\ closes = [c \in Conns |-> 0]
  /\ conn = [c \in Conns |-> "none"]
  /\ feed = [c \in Conns |-> "idle"]
  /\ reader = [c \in Conns |-> "none"]
  /\ writer = [c \in Conns |-> "none"]
  /\ message = [c \in Conns |-> <<>>]
  /\ created = {}
  /\ log = <<>>
  /\ joined = [c \in Conns |-> 0]
  /\ delivered = [c \in Conns |-> <<>>]
-----------------------------------------------------------------------------
(* The handler of GET /ws/feed.                                            *)

\* The upgrade succeeds and NewClient makes the send channel.
Connect(c) ==
  /\ feed[c] = "idle"
  /\ feed' = [feed EXCEPT ![c] = "register"]
  /\ conn' = [conn EXCEPT ![c] = "open"]
  /\ UNCHANGED <<ctxDone, hubVars, chanVars, send, closes, reader, writer,
                 message, histVars>>

Register(c) ==
  /\ feed[c] = "register"
  /\ feed' = [feed EXCEPT ![c] = "start"]
  /\ \/ /\ quit
        /\ conn' = [conn EXCEPT ![c] = "closed"]
        /\ UNCHANGED register
     \/ /\ Len(register) < RegCap
        /\ register' = Append(register, c)
        /\ UNCHANGED conn
  /\ UNCHANGED <<ctxDone, hubVars, unregister, broadcast, send, closes,
                 reader, writer, message, histVars>>

Start(c) ==
  /\ feed[c] = "start"
  /\ feed' = [feed EXCEPT ![c] = "served"]
  /\ reader' = [reader EXCEPT ![c] = "reading"]
  /\ writer' = [writer EXCEPT ![c] = "select"]
  /\ UNCHANGED <<ctxDone, hubVars, chanVars, send, closes, conn, message,
                 histVars>>

\* The peer disappears; the server finds out on a later read or write.
PeerLost(c) ==
  /\ conn[c] = "open"
  /\ conn' = [conn EXCEPT ![c] = "lost"]
  /\ UNCHANGED <<ctxDone, hubVars, chanVars, send, closes, pumpVars, histVars>>
-----------------------------------------------------------------------------
(* The pumps of a client.                                                  *)

\* ReadMessage fails: a close frame, an oversized frame, a closed socket, or
\* no pong within pongWait.  The deferred Unregister comes next.
ReadError(c) ==
  /\ reader[c] = "reading"
  /\ reader' = [reader EXCEPT ![c] = "unregister"]
  /\ UNCHANGED <<ctxDone, hubVars, chanVars, send, closes, conn, feed, writer,
                 message, histVars>>

\* Mutant: a default instead of the case for quit.
EscapeWhenFull == Len(unregister) = UnregCap

\* The case of Unregister's select that does not reach the hub.
Escape == quit

Unregister(c) ==
  /\ reader[c] = "unregister"
  /\ reader' = [reader EXCEPT ![c] = "done"]
  /\ \/ /\ Escape
        /\ UNCHANGED unregister
     \/ /\ Len(unregister) < UnregCap
        /\ unregister' = Append(unregister, c)
  /\ UNCHANGED <<ctxDone, hubVars, register, broadcast, send, closes, conn,
                 feed, writer, message, histVars>>

TakeMessage(c) ==
  /\ writer[c] = "select"
  /\ send[c] # <<>>
  /\ writer' = [writer EXCEPT ![c] = "writing"]
  /\ message' = [message EXCEPT ![c] = <<Head(send[c])>>]
  /\ send' = [send EXCEPT ![c] = Tail(@)]
  /\ UNCHANGED <<ctxDone, hubVars, chanVars, closes, conn, feed, reader,
                 histVars>>

\* The kernel takes the frame; it may do so after the peer is gone.
WriteMessage(c) ==
  /\ writer[c] = "writing"
  /\ conn[c] # "closed"
  /\ writer' = [writer EXCEPT ![c] = "select"]
  /\ message' = [message EXCEPT ![c] = <<>>]
  /\ delivered' = [delivered EXCEPT ![c] = @ \o message[c]]
  /\ UNCHANGED <<ctxDone, hubVars, chanVars, send, closes, conn, feed, reader,
                 created, log, joined>>

\* A write fails or misses its deadline; writePump returns and leaves the
\* socket open.
WriteError(c) ==
  /\ writer[c] = "writing"
  /\ writer' = [writer EXCEPT ![c] = "done"]
  /\ UNCHANGED <<ctxDone, hubVars, chanVars, send, closes, conn, feed, reader,
                 message, histVars>>

\* The send channel is closed and empty.
SendClosed(c) ==
  /\ writer[c] = "select"
  /\ send[c] = <<>>
  /\ closes[c] > 0
  /\ writer' = [writer EXCEPT ![c] = "done"]
  /\ UNCHANGED <<ctxDone, hubVars, chanVars, send, closes, conn, feed, reader,
                 message, histVars>>

\* The ticker fires and the ping cannot be written.  (One that is written
\* changes nothing.)
PingError(c) ==
  /\ writer[c] = "select"
  /\ writer' = [writer EXCEPT ![c] = "done"]
  /\ UNCHANGED <<ctxDone, hubVars, chanVars, send, closes, conn, feed, reader,
                 message, histVars>>
-----------------------------------------------------------------------------
(* Hub.Broadcast, called by the request that created a post.               *)

Room == Len(broadcast) < BcastCap

Broadcast(m) ==
  /\ m \notin created
  /\ created' = created \cup {m}
  /\ \/ /\ quit \/ Len(broadcast) = BcastCap
        /\ UNCHANGED broadcast
     \/ /\ Room
        /\ broadcast' = Append(broadcast, m)
  /\ UNCHANGED <<ctxDone, hubVars, register, unregister, send, closes, conn,
                 pumpVars, log, joined, delivered>>
-----------------------------------------------------------------------------
(* The goroutine of Hub.Run.                                               *)

\* Mutant: the socket of the client is left open.
HangUpNot(c) == UNCHANGED conn

Forget(c) == clients' = clients \ {c}
HangUp(c) == conn' = [conn EXCEPT ![c] = "closed"]

\* Take a client out of the map and close its channel and its socket.
Evict(c) ==
  /\ Forget(c)
  /\ closes' = [closes EXCEPT ![c] = @ + 1]
  /\ HangUp(c)

\* Mutants: the client is not looked up in the map first; it is kept.
RemoveAlways(c) == Evict(c)
RemoveNot(c) == UNCHANGED <<clients, closes, conn>>

\* Hub.remove: nothing happens to a client that is not in the map.
Remove(c) ==
  \/ c \in clients /\ Evict(c)
  \/ c \notin clients /\ UNCHANGED <<clients, closes, conn>>

RunRegister ==
  /\ hub = "select"
  /\ register # <<>>
  /\ register' = Tail(register)
  /\ clients' = clients \cup {Head(register)}
  /\ joined' = [joined EXCEPT ![Head(register)] = Len(log)]
  /\ UNCHANGED <<ctxDone, hub, todo, quit, unregister, broadcast, send, closes,
                 conn, pumpVars, created, log, delivered>>

RunUnregister ==
  /\ hub = "select"
  /\ unregister # <<>>
  /\ unregister' = Tail(unregister)
  /\ Remove(Head(unregister))
  /\ UNCHANGED <<ctxDone, hub, todo, quit, register, broadcast, send, pumpVars,
                 histVars>>

RunBroadcast ==
  /\ hub = "select"
  /\ broadcast # <<>>
  /\ broadcast' = Tail(broadcast)
  /\ log' = Append(log, Head(broadcast))
  /\ hub' = "fanout"
  /\ todo' = clients
  /\ UNCHANGED <<ctxDone, clients, quit, register, unregister, send, closes,
                 conn, pumpVars, created, joined, delivered>>

\* Mutant: no default, the send waits for room.
OverflowsNever(c) == FALSE

\* The default of the send in the fan-out loop.
Overflows(c) == Len(send[c]) = SendCap

\* One round of the fan-out loop: a client whose buffer is full is removed.
RunSend(c) ==
  /\ hub = "fanout"
  /\ c \in todo
  /\ todo' = todo \ {c}
  /\ \/ /\ Len(send[c]) < SendCap
        /\ send' = [send EXCEPT ![c] = Append(@, log[Len(log)])]
        /\ UNCHANGED <<clients, closes, conn>>
     \/ /\ Overflows(c)
        /\ Remove(c)
        /\ UNCHANGED send
  /\ UNCHANGED <<ctxDone, hub, quit, chanVars, pumpVars, histVars>>

RunFanoutEnd ==
  /\ hub = "fanout"
  /\ todo = {}
  /\ hub' = "select"
  /\ UNCHANGED <<ctxDone, todo, clients, quit, chanVars, send, closes, conn,
                 pumpVars, histVars>>

\* hubCancel() in main.go.
Cancel ==
  /\ ~ctxDone
  /\ ctxDone' = TRUE
  /\ UNCHANGED <<hubVars, chanVars, send, closes, conn, pumpVars, histVars>>

RunDone ==
  /\ hub = "select"
  /\ ctxDone
  /\ hub' = "drain"
  /\ todo' = clients
  /\ UNCHANGED <<ctxDone, clients, quit, chanVars, send, closes, conn, pumpVars,
                 histVars>>

RunDrain(c) ==
  /\ hub = "drain"
  /\ c \in todo
  /\ todo' = todo \ {c}
  /\ Evict(c)
  /\ UNCHANGED <<ctxDone, hub, quit, chanVars, send, pumpVars, histVars>>

\* Mutant: Run returns without it.
CloseQuitNot == UNCHANGED quit

CloseQuit == quit' = TRUE

RunQuit ==
  /\ hub = "drain"
  /\ todo = {}
  /\ CloseQuit
  /\ hub' = "stopped"
  /\ UNCHANGED <<ctxDone, todo, clients, chanVars, send, closes, conn, pumpVars,
                 histVars>>
-----------------------------------------------------------------------------
Pump(c) ==
  \/ ReadError(c) \/ Unregister(c) \/ TakeMessage(c) \/ WriteMessage(c)
  \/ WriteError(c) \/ SendClosed(c) \/ PingError(c)

Run ==
  \/ RunRegister \/ RunUnregister \/ RunBroadcast \/ RunFanoutEnd
  \/ RunDone \/ RunQuit
  \/ \E c \in Conns : RunSend(c) \/ RunDrain(c)

\* What Run does without waiting.
RunLoops ==
  \/ RunFanoutEnd \/ RunQuit
  \/ \E c \in Conns : RunSend(c) \/ RunDrain(c)

Next ==
  \/ Run
  \/ Cancel
  \/ \E m \in Msgs : Broadcast(m)
  \/ \E c \in Conns : Connect(c) \/ Register(c) \/ Start(c) \/ PeerLost(c) \/ Pump(c)

Spec == Init /\ [][Next]_vars

(***************************************************************************)
(* Fairness.  Run is a goroutine that always proceeds when it can, and a    *)
(* Go select picks among its ready cases at random, so a case that is ready *)
(* again and again is taken: SF per case.  Nothing is assumed of clients.   *)
(***************************************************************************)
HubFairness ==
  /\ SF_vars(RunRegister) /\ SF_vars(RunUnregister) /\ SF_vars(RunBroadcast)
  /\ SF_vars(RunDone)
  /\ WF_vars(RunLoops)

\* No pong can come back, so the read deadline (or the closed socket) ends
\* the read.
ReadDeadline(c) ==
  /\ conn[c] # "open" \/ writer[c] = "done"
  /\ ReadError(c)

(***************************************************************************)
(* Fairness of the pumps: goroutines proceed, blocked senders are served in *)
(* order, every write ends by writeWait, and the ping of a closed socket    *)
(* fails.                                                                   *)
(***************************************************************************)
PumpFairness ==
  \A c \in Conns :
    /\ WF_vars(Start(c) \/ ReadDeadline(c))
    /\ SF_vars(Unregister(c))
    /\ SF_vars(TakeMessage(c))
    /\ WF_vars(WriteMessage(c) \/ WriteError(c) \/ SendClosed(c))
    /\ SF_vars(conn[c] = "closed" /\ PingError(c))

FairSpec == Spec /\ HubFairness /\ PumpFairness
-----------------------------------------------------------------------------
TypeOK ==
  /\ ctxDone \in BOOLEAN
  /\ hub \in {"select", "fanout", "drain", "stopped"}
  /\ todo \in SUBSET Conns
  /\ clients \in SUBSET Conns
  /\ register \in Seq(Conns) /\ Len(register) <= RegCap
  /\ unregister \in Seq(Conns) /\ Len(unregister) <= UnregCap
  /\ broadcast \in Seq(Msgs) /\ Len(broadcast) <= BcastCap
  /\ quit \in BOOLEAN
  /\ send \in [Conns -> Seq(Msgs)]
  /\ \A c \in Conns : Len(send[c]) <= SendCap
  /\ closes \in [Conns -> Nat]
  /\ conn \in [Conns -> {"none", "open", "lost", "closed"}]
  /\ feed \in [Conns -> {"idle", "register", "start", "served"}]
  /\ reader \in [Conns -> {"none", "reading", "unregister", "done"}]
  /\ writer \in [Conns -> {"none", "select", "writing", "done"}]
  /\ message \in [Conns -> Seq(Msgs)]
  /\ \A c \in Conns : Len(message[c]) <= 1
  /\ created \in SUBSET Msgs
  /\ log \in Seq(Msgs)
  /\ joined \in [Conns -> Nat]
  /\ delivered \in [Conns -> Seq(Msgs)]

(***************************************************************************)
(* Run never panics: no send channel is closed twice, and no client that   *)
(* Run may still send to (every member of the map, and every client its    *)
(* loops have left) has a closed channel.  Unregister requests arrive at   *)
(* any time, also for clients the hub has already removed.                 *)
(***************************************************************************)
NeverPanics ==
  /\ \A c \in Conns : closes[c] <= 1
  /\ \A c \in clients \cup todo : closes[c] = 0

\* What a client has been sent, is being sent and will be sent.
Stream(c) == delivered[c] \o message[c] \o send[c]

\* How many payloads the hub has fanned out to c: all since it joined, but
\* for the one the fan-out loop has still to offer it.
Offered(c) == Len(log) - joined[c] - (IF hub = "fanout" /\ c \in todo THEN 1 ELSE 0)

(***************************************************************************)
(* A client sees the feed from the moment it was registered without a gap, *)
(* a repetition or a reordering: what it got, holds and has buffered is a  *)
(* piece of the log that starts where it joined, and while it is in the    *)
(* map the piece reaches the end of the log.                               *)
(***************************************************************************)
StreamContiguous ==
  \A c \in Conns :
    /\ joined[c] + Len(Stream(c)) <= Len(log)
    /\ \A i \in 1..Len(Stream(c)) : Stream(c)[i] = log[joined[c] + i]
    /\ c \in clients => Len(Stream(c)) = Offered(c)

Lag(c) == Len(log) - joined[c] - Len(delivered[c])

(***************************************************************************)
(* No client in the map, not even one whose pumps have ended before it was *)
(* registered, falls behind the feed by more than its buffer, the payload  *)
(* in its writer's hand and the one being fanned out.                      *)
(***************************************************************************)
BoundedLag == \A c \in clients : Lag(c) <= SendCap + 2

(***************************************************************************)
(* Once Run has returned, every socket is closed but those whose client is *)
(* still on its way into the hub: Run neither empties the register channel *)
(* nor stops Register from filling it.                                     *)
(***************************************************************************)
StoppedClean ==
  hub = "stopped" =>
    \A c \in Conns :
      conn[c] \in {"open", "lost"} => feed[c] = "register" \/ c \in Elems(register)

(***************************************************************************)
(* A slow or dead client does not hold up the feed: every payload accepted *)
(* by Broadcast is fanned out, or the hub stops.                           *)
(***************************************************************************)
EveryPayloadFannedOut ==
  \A m \in Msgs : m \in Elems(broadcast) ~> (m \in Elems(log) \/ hub = "stopped")

\* Cancelling the context stops the hub, whatever its clients do.
ShutdownCompletes == ctxDone ~> quit

Released(c) == reader[c] = "done" /\ writer[c] = "done" /\ conn[c] = "closed"

(***************************************************************************)
(* The goroutines and the socket of a registered client whose peer is lost  *)
(* are released, and it is taken out of the map; and after Run has returned *)
(* no pump stays blocked on the hub: all of them end, except those of a     *)
(* client left in register.                                                 *)
(***************************************************************************)
ClientsReleased ==
  \A c \in Conns :
    (\/ c \in clients /\ conn[c] = "lost" /\ reader[c] # "done"
     \/ quit /\ feed[c] = "served" /\ c \notin Elems(register))
      ~> (c \notin clients /\ Released(c))
-----------------------------------------------------------------------------
Status(c) ==
  IF c \in clients THEN "live" ELSE IF closes[c] > 0 THEN "gone" ELSE "idle"

Feed == INSTANCE FeedStream WITH
  Subscribers <- Conns, Payloads <- Msgs, MaxLag <- SendCap + 2,
  status <- [c \in Conns |-> Status(c)], start <- joined, got <- delivered

(***************************************************************************)
(* The hub, its channels and the pumps implement the feed FeedStream       *)
(* promises: a client that is in the map is a live subscriber, one whose   *)
(* channel was closed is gone, and what it received is what was written.   *)
(***************************************************************************)
ImplementsFeedStream == Feed!Spec
=============================================================================
