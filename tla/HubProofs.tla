----------------------------- MODULE HubProofs -----------------------------
(***************************************************************************)
(* Proofs about Hub: the types, an inductive invariant, the safety          *)
(* properties of the live feed, and the refinement of FeedStream.           *)
(***************************************************************************)
EXTENDS Hub, SequenceTheorems, TLAPS

USE CapAssumption DEF CapAssumption

LEMMA ElemsSeq ==
  ASSUME NEW S, NEW s \in Seq(S)
  PROVE  Elems(s) \in SUBSET S
BY ElementOfSeq DEF Elems

\* What a send on a channel with room, and a receive from one that is not
\* empty, do to a channel of capacity k.
LEMMA ChanSend ==
  ASSUME NEW S, NEW s \in Seq(S), NEW e \in S, NEW k \in Nat, Len(s) < k
  PROVE  /\ Append(s, e) \in Seq(S)
         /\ Len(Append(s, e)) <= k
BY AppendProperties, LenProperties

LEMMA ChanReceive ==
  ASSUME NEW S, NEW s \in Seq(S), s # <<>>, NEW k \in Nat, Len(s) <= k
  PROVE  /\ Head(s) \in S
         /\ Tail(s) \in Seq(S)
         /\ Len(Tail(s)) <= k
BY HeadTailProperties, LenProperties

LEMMA TypeInit == Init => TypeOK
<1> SUFFICES ASSUME Init PROVE TypeOK
  OBVIOUS
<1>1. /\ Len(register) <= RegCap
      /\ Len(unregister) <= UnregCap
      /\ Len(broadcast) <= BcastCap
      /\ \A c \in Conns : Len(send[c]) <= SendCap /\ Len(message[c]) <= 1
  BY DEF Init
<1>2. /\ send \in [Conns -> Seq(Msgs)]
      /\ message \in [Conns -> Seq(Msgs)]
      /\ delivered \in [Conns -> Seq(Msgs)]
      /\ log \in Seq(Msgs)
  BY DEF Init
<1>3. /\ closes \in [Conns -> Nat]
      /\ conn \in [Conns -> {"none", "open", "lost", "closed"}]
      /\ joined \in [Conns -> Nat]
  BY DEF Init
<1>4. /\ feed \in [Conns -> {"idle", "register", "start", "served"}]
      /\ reader \in [Conns -> {"none", "reading", "unregister", "done"}]
      /\ writer \in [Conns -> {"none", "select", "writing", "done"}]
  BY DEF Init
<1>5. register \in Seq(Conns) /\ unregister \in Seq(Conns) /\ broadcast \in Seq(Msgs)
  BY DEF Init
<1>6. /\ ctxDone \in BOOLEAN /\ quit \in BOOLEAN
      /\ hub \in {"select", "fanout", "drain", "stopped"}
      /\ todo \in SUBSET Conns /\ clients \in SUBSET Conns
      /\ created \in SUBSET Msgs
  BY DEF Init
<1>7. QED
  BY <1>1, <1>2, <1>3, <1>4, <1>5, <1>6 DEF TypeOK

\* Each kind of step keeps the types.
LEMMA TypeHandler ==
  ASSUME TypeOK, NEW c \in Conns,
         Connect(c) \/ Register(c) \/ Start(c) \/ PeerLost(c)
  PROVE  TypeOK'
<1>1. CASE Connect(c)
  BY <1>1 DEF TypeOK, Connect, hubVars, chanVars, pumpVars, histVars
<1>2. CASE Register(c)
  <2>1. register' \in Seq(Conns) /\ Len(register') <= RegCap
    <3>1. CASE UNCHANGED register
      BY <3>1 DEF TypeOK
    <3>2. CASE Len(register) < RegCap /\ register' = Append(register, c)
      BY <3>2, ChanSend DEF TypeOK
    <3>3. QED
      BY <1>2, <3>1, <3>2 DEF Register
  <2>2. QED
    BY <1>2, <2>1 DEF TypeOK, Register, hubVars, chanVars, pumpVars, histVars
<1>3. CASE Start(c)
  BY <1>3 DEF TypeOK, Start, hubVars, chanVars, pumpVars, histVars
<1>4. CASE PeerLost(c)
  BY <1>4 DEF TypeOK, PeerLost, hubVars, chanVars, pumpVars, histVars
<1>5. QED
  BY <1>1, <1>2, <1>3, <1>4

LEMMA TypePump ==
  ASSUME TypeOK, NEW c \in Conns, Pump(c)
  PROVE  TypeOK'
<1> USE DEF TypeOK, hubVars, chanVars, pumpVars, histVars
<1>1. CASE ReadError(c)
  BY <1>1 DEF ReadError
<1>2. CASE Unregister(c)
  <2>1. unregister' \in Seq(Conns) /\ Len(unregister') <= UnregCap
    <3>1. CASE UNCHANGED unregister
      BY <3>1
    <3>2. CASE Len(unregister) < UnregCap /\ unregister' = Append(unregister, c)
      BY <3>2, ChanSend
    <3>3. QED
      BY <1>2, <3>1, <3>2 DEF Unregister, Escape
  <2>2. QED
    BY <1>2, <2>1 DEF Unregister, Escape
<1>3. CASE TakeMessage(c)
  <2>1. send[c] \in Seq(Msgs) /\ send[c] # <<>> /\ Len(send[c]) <= SendCap
    BY <1>3 DEF TakeMessage
  <2>2. /\ Head(send[c]) \in Msgs /\ Tail(send[c]) \in Seq(Msgs)
        /\ Len(Tail(send[c])) <= SendCap
    BY <2>1, HeadTailProperties, LenProperties
  <2>3. <<Head(send[c])>> \in Seq(Msgs) /\ Len(<<Head(send[c])>>) = 1
    BY <2>2
  <2>4. send' \in [Conns -> Seq(Msgs)] /\ \A d \in Conns : Len(send'[d]) <= SendCap
    BY <1>3, <2>2 DEF TakeMessage
  <2>5. message' \in [Conns -> Seq(Msgs)] /\ \A d \in Conns : Len(message'[d]) <= 1
    BY <1>3, <2>3 DEF TakeMessage
  <2> QED
    BY <1>3, <2>4, <2>5 DEF TakeMessage
<1>4. CASE WriteMessage(c)
  <2>1. delivered[c] \o message[c] \in Seq(Msgs)
    BY ConcatProperties
  <2>2. delivered' \in [Conns -> Seq(Msgs)]
    BY <1>4, <2>1 DEF WriteMessage
  <2>3. message' \in [Conns -> Seq(Msgs)] /\ \A d \in Conns : Len(message'[d]) <= 1
    BY <1>4 DEF WriteMessage
  <2> QED
    BY <1>4, <2>2, <2>3 DEF WriteMessage
<1>5. CASE WriteError(c)
  BY <1>5 DEF WriteError
<1>6. CASE SendClosed(c)
  BY <1>6 DEF SendClosed
<1>7. CASE PingError(c)
  BY <1>7 DEF PingError
<1>8. QED
  BY <1>1, <1>2, <1>3, <1>4, <1>5, <1>6, <1>7 DEF Pump

LEMMA EvictType ==
  ASSUME NEW c \in Conns, Evict(c),
         clients \in SUBSET Conns,
         closes \in [Conns -> Nat],
         conn \in [Conns -> {"none", "open", "lost", "closed"}]
  PROVE  /\ clients' \in SUBSET Conns
         /\ closes' \in [Conns -> Nat]
         /\ conn' \in [Conns -> {"none", "open", "lost", "closed"}]
<1>1. clients' \in SUBSET Conns
  BY DEF Evict, Forget, HangUp
<1>2. closes' \in [Conns -> Nat]
  BY DEF Evict, Forget, HangUp
<1>3. conn' \in [Conns -> {"none", "open", "lost", "closed"}]
  BY DEF Evict, Forget, HangUp
<1>4. QED
  BY <1>1, <1>2, <1>3

FanoutHasPayload == hub = "fanout" => log # <<>>

LEMMA TypeRun ==
  ASSUME TypeOK, FanoutHasPayload, Run
  PROVE  TypeOK'
<1> USE DEF TypeOK, hubVars, chanVars, pumpVars, histVars
<1>1. CASE RunRegister
  <2>1. /\ register' \in Seq(Conns) /\ Len(register') <= RegCap
        /\ Head(register) \in Conns
    BY <1>1, ChanReceive DEF RunRegister
  <2>2. Len(log) \in Nat
    OBVIOUS
  <2>3. QED
    BY <1>1, <2>1, <2>2 DEF RunRegister
<1>2. CASE RunUnregister
  <2>1. /\ unregister' \in Seq(Conns) /\ Len(unregister') <= UnregCap
        /\ Head(unregister) \in Conns
    BY <1>2, ChanReceive DEF RunUnregister
  <2>2. CASE Evict(Head(unregister))
    <3>1. /\ clients' \in SUBSET Conns
          /\ closes' \in [Conns -> Nat]
          /\ conn' \in [Conns -> {"none", "open", "lost", "closed"}]
      BY <2>1, <2>2, EvictType
    <3>2. QED
      BY <1>2, <2>1, <3>1 DEF RunUnregister
  <2>3. CASE UNCHANGED <<clients, closes, conn>>
    BY <1>2, <2>1, <2>3 DEF RunUnregister
  <2>4. QED
    BY <1>2, <2>2, <2>3 DEF RunUnregister, Remove
<1>3. CASE RunBroadcast
  BY <1>3, HeadTailProperties DEF RunBroadcast
<1>4. CASE RunFanoutEnd
  BY <1>4 DEF RunFanoutEnd
<1>5. CASE RunDone
  BY <1>5 DEF RunDone
<1>6. CASE RunQuit
  BY <1>6 DEF RunQuit, CloseQuit
<1>7. ASSUME NEW c \in Conns, RunSend(c) PROVE TypeOK'
  <2>1. CASE Len(send[c]) = SendCap /\ Remove(c) /\ UNCHANGED send
    <3>1. /\ clients' \in SUBSET Conns
          /\ closes' \in [Conns -> Nat]
          /\ conn' \in [Conns -> {"none", "open", "lost", "closed"}]
      BY <2>1, EvictType DEF Remove
    <3>2. QED
      BY <1>7, <2>1, <3>1 DEF RunSend, Overflows
  <2>2. CASE /\ Len(send[c]) < SendCap
             /\ send' = [send EXCEPT ![c] = Append(@, log[Len(log)])]
             /\ UNCHANGED <<clients, closes, conn>>
    <3>1. Len(log) \in 1..Len(log)
      BY <1>7, EmptySeq, LenProperties DEF RunSend, Overflows, FanoutHasPayload
    <3>2. log[Len(log)] \in Msgs
      BY <3>1, ElementOfSeq
    <3>3. /\ Append(send[c], log[Len(log)]) \in Seq(Msgs)
          /\ Len(Append(send[c], log[Len(log)])) <= SendCap
      BY <2>2, <3>2, ChanSend
    <3>4. send' \in [Conns -> Seq(Msgs)] /\ \A d \in Conns : Len(send'[d]) <= SendCap
      BY <2>2, <3>3
    <3>5. QED
      BY <1>7, <2>2, <3>4 DEF RunSend, Overflows
  <2>3. QED
    BY <1>7, <2>1, <2>2 DEF RunSend, Overflows
<1>8. ASSUME NEW c \in Conns, RunDrain(c) PROVE TypeOK'
  <2>1. clients' \in SUBSET Conns /\ closes' \in [Conns -> Nat] /\ todo' \in SUBSET Conns
    BY <1>8 DEF RunDrain, Evict, Forget, HangUp
  <2>2. conn' \in [Conns -> {"none", "open", "lost", "closed"}]
    BY <1>8 DEF RunDrain, Evict, Forget, HangUp
  <2> QED
    BY <1>8, <2>1, <2>2 DEF RunDrain
<1>9. QED
  BY <1>1, <1>2, <1>3, <1>4, <1>5, <1>6, <1>7, <1>8 DEF Run

LEMMA TypeOther ==
  ASSUME TypeOK, Cancel \/ (\E m \in Msgs : Broadcast(m)) \/ UNCHANGED vars
  PROVE  TypeOK'
<1> USE DEF TypeOK, hubVars, chanVars, pumpVars, histVars
<1>1. CASE Cancel
  BY <1>1 DEF Cancel
<1>2. ASSUME NEW m \in Msgs, Broadcast(m) PROVE TypeOK'
  <2>1. broadcast' \in Seq(Msgs) /\ Len(broadcast') <= BcastCap
    <3>1. CASE UNCHANGED broadcast
      BY <3>1
    <3>2. CASE Len(broadcast) < BcastCap /\ broadcast' = Append(broadcast, m)
      BY <3>2, ChanSend
    <3>3. QED
      BY <1>2, <3>1, <3>2 DEF Broadcast, Room
  <2>2. QED
    BY <1>2, <2>1 DEF Broadcast, Room
<1>3. CASE UNCHANGED vars
  BY <1>3 DEF vars
<1>4. QED
  BY <1>1, <1>2, <1>3
-----------------------------------------------------------------------------
(* Sequences without repetitions.                                          *)

Distinct(s) == \A i, j \in 1..Len(s) : s[i] = s[j] => i = j

LEMMA AppendElems ==
  ASSUME NEW S, NEW s \in Seq(S), NEW e \in S
  PROVE  /\ Elems(Append(s, e)) = Elems(s) \cup {e}
         /\ Distinct(s) /\ e \notin Elems(s) => Distinct(Append(s, e))
<1> DEFINE t == Append(s, e)
<1>1. /\ Len(t) = Len(s) + 1
      /\ Len(s) \in Nat
      /\ \A i \in 1..Len(s) : t[i] = s[i]
      /\ t[Len(s) + 1] = e
  BY AppendProperties, LenProperties
<1> HIDE DEF t
<1>2. Elems(t) = Elems(s) \cup {e}
  BY <1>1 DEF Elems
<1>3. Distinct(s) /\ e \notin Elems(s) => Distinct(t)
  BY <1>1 DEF Elems, Distinct
<1>4. QED
  BY <1>2, <1>3 DEF t

LEMMA TailElems ==
  ASSUME NEW S, NEW s \in Seq(S), s # <<>>
  PROVE  /\ Elems(s) = Elems(Tail(s)) \cup {Head(s)}
         /\ Distinct(s) => Distinct(Tail(s)) /\ Head(s) \notin Elems(Tail(s))
<1> DEFINE t == Tail(s)
           h == Head(s)
<1>1. /\ Len(t) = Len(s) - 1
      /\ Len(s) \in Nat \ {0}
      /\ \A i \in 1..Len(t) : t[i] = s[i + 1]
      /\ h = s[1]
  BY HeadTailProperties, EmptySeq, LenProperties
<1> HIDE DEF t, h
<1>2. Elems(s) = Elems(t) \cup {h}
  <2>1. ASSUME NEW i \in 1..Len(s), i # 1
        PROVE  i - 1 \in 1..Len(t) /\ s[i] = t[i - 1]
    <3>1. i - 1 \in 1..Len(t) /\ (i - 1) + 1 = i
      BY <1>1, <2>1
    <3>2. QED
      BY <1>1, <3>1
  <2>2. \A i \in 1..Len(t) : i + 1 \in 1..Len(s)
    BY <1>1
  <2>3. QED
    BY <1>1, <2>1, <2>2 DEF Elems
<1>3. ASSUME Distinct(s)
      PROVE  Distinct(t) /\ h \notin Elems(t)
  <2>1. \A i \in 1..Len(t) : i + 1 \in 1..Len(s) /\ i + 1 # 1
    BY <1>1
  <2>2. ASSUME NEW i \in 1..Len(t), NEW j \in 1..Len(t), t[i] = t[j]
        PROVE  i = j
    <3>1. s[i + 1] = s[j + 1]
      BY <1>1, <2>2
    <3>2. i + 1 = j + 1
      BY <1>3, <2>1, <3>1 DEF Distinct
    <3> QED
      BY <3>2
  <2>3. ASSUME NEW i \in 1..Len(t), t[i] = h
        PROVE  FALSE
    <3>1. s[i + 1] = s[1] /\ 1 \in 1..Len(s)
      BY <1>1, <2>3
    <3> QED
      BY <1>3, <2>1, <3>1 DEF Distinct
  <2> QED
    BY <2>2, <2>3 DEF Distinct, Elems
<1>4. QED
  BY <1>2, <1>3 DEF t, h
-----------------------------------------------------------------------------
(***************************************************************************)
(* The life of a client.  It is new until its handler has enqueued it, then *)
(* in the register channel, then in the map, then gone; a handler that      *)
(* finds quit closed makes it gone at once.                                 *)
(***************************************************************************)
Life(c) ==
  /\ c \in Elems(register) => c \notin clients /\ closes[c] = 0
  /\ c \in clients => closes[c] = 0
  /\ closes[c] <= 1
  /\ closes[c] > 0 => conn[c] = "closed"
  /\ c \in Elems(register) \cup clients \/ closes[c] > 0 => feed[c] \in {"start", "served"}
  /\ feed[c] = "idle" => conn[c] = "none"
  /\ conn[c] \in {"open", "lost"} /\ feed[c] \in {"start", "served"} =>
       c \in Elems(register) \cup clients

\* Nothing is in a client's stream before it is in the map, and writePump
\* holds a payload exactly from taking it to writing it.
Idle(c) ==
  /\ writer[c] # "none" => feed[c] = "served"
  /\ writer[c] = "writing" => message[c] # <<>>
  /\ writer[c] \in {"none", "select"} => message[c] = <<>>
  /\ c \notin clients /\ closes[c] = 0 =>
       send[c] = <<>> /\ message[c] = <<>> /\ delivered[c] = <<>>

Loops ==
  /\ todo \subseteq clients
  /\ hub = "select" => todo = {}
  /\ FanoutHasPayload
  /\ hub = "drain" => todo = clients
  /\ hub = "stopped" => clients = {}

Structure ==
  /\ TypeOK
  /\ Loops
  /\ Distinct(register)
  /\ \A c \in Conns : Life(c) /\ Idle(c)
\* The part of TypeOK that the steps below need.
Maps ==
  /\ closes \in [Conns -> Nat]
  /\ conn \in [Conns -> {"none", "open", "lost", "closed"}]
  /\ feed \in [Conns -> {"idle", "register", "start", "served"}]
  /\ writer \in [Conns -> {"none", "select", "writing", "done"}]
  /\ send \in [Conns -> Seq(Msgs)]
  /\ message \in [Conns -> Seq(Msgs)]
  /\ joined \in [Conns -> Nat]
  /\ delivered \in [Conns -> Seq(Msgs)]

LEMMA TypeMaps == TypeOK => Maps
BY DEF TypeOK, Maps

LEMMA StructureInit == Init => Structure
<1> SUFFICES ASSUME Init PROVE Structure
  OBVIOUS
<1>1. TypeOK
  BY TypeInit
<1>2. Loops
  BY DEF Init, Loops, FanoutHasPayload
<1>3. Len(register) = 0
  BY EmptySeq DEF Init
<1>4. Distinct(register) /\ Elems(register) = {}
  BY <1>3 DEF Distinct, Elems
<1>5. ASSUME NEW c \in Conns PROVE Life(c) /\ Idle(c)
  BY <1>4 DEF Init, Life, Idle
<1>6. QED
  BY <1>1, <1>2, <1>4, <1>5 DEF Structure

LEMMA StructureHandler ==
  ASSUME Structure, NEW c \in Conns,
         Connect(c) \/ Register(c) \/ Start(c) \/ PeerLost(c)
  PROVE  Structure'
<1>1. TypeOK' /\ TypeOK /\ Maps
  BY TypeHandler, TypeMaps DEF Structure
<1>2. Loops'
  BY DEF Structure, Loops, FanoutHasPayload, Connect, Register, Start, PeerLost,
         hubVars, histVars
<1>3. Life(c) /\ Idle(c) /\ closes[c] \in Nat
  BY <1>1 DEF Structure, TypeOK
<1>4. CASE Connect(c) \/ Start(c) \/ PeerLost(c)
  <2>1. Distinct(register)' /\ Elems(register)' = Elems(register)
    BY <1>4 DEF Structure, Connect, Start, PeerLost, chanVars, Elems, Distinct
  <2>2. UNCHANGED <<clients, register, closes>>
    BY <1>4 DEF Connect, Start, PeerLost, hubVars, chanVars
  <2>3. ASSUME NEW d \in Conns PROVE Life(d)'
    <3>1. Life(d)
      BY DEF Structure
    <3>2. d # c => conn'[d] = conn[d] /\ feed'[d] = feed[d]
      BY <1>1, <1>4 DEF Maps, Connect, Start, PeerLost, pumpVars
    <3>3. CASE d # c
      BY <2>1, <2>2, <3>1, <3>2, <3>3 DEF Life
    <3>4. CASE d = c /\ Connect(c)
      BY <1>1, <1>3, <2>1, <2>2, <3>4 DEF Maps, Life, Connect
    <3>5. CASE d = c /\ Start(c)
      BY <1>1, <1>3, <2>1, <2>2, <3>5 DEF Maps, Life, Start
    <3>6. CASE d = c /\ PeerLost(c)
      BY <1>1, <1>3, <2>1, <2>2, <3>6 DEF Maps, Life, PeerLost, pumpVars
    <3>7. QED
      BY <1>4, <3>3, <3>4, <3>5, <3>6
  <2>4. ASSUME NEW d \in Conns PROVE Idle(d)'
    <3>1. Idle(d)
      BY DEF Structure
    <3>2. UNCHANGED <<send, message, delivered>>
      BY <1>4 DEF Connect, Start, PeerLost, pumpVars, histVars
    <3>3. CASE Connect(c)
      BY <1>1, <2>2, <3>1, <3>2, <3>3 DEF Maps, Idle, Connect
    <3>4. CASE Start(c)
      BY <1>1, <1>3, <2>2, <3>1, <3>2, <3>4 DEF Maps, Idle, Start
    <3>5. CASE PeerLost(c)
      BY <2>2, <3>1, <3>2, <3>5 DEF Idle, PeerLost, pumpVars
    <3>6. QED
      BY <1>4, <3>3, <3>4, <3>5
  <2>5. QED
    BY <1>1, <1>2, <2>1, <2>3, <2>4 DEF Structure
<1>5. CASE Register(c)
  <2>1. \/ /\ UNCHANGED register /\ conn' = [conn EXCEPT ![c] = "closed"]
        \/ /\ UNCHANGED conn /\ register' = Append(register, c)
    BY <1>5 DEF Register
  <2>2. c \notin Elems(register) \cup clients /\ closes[c] = 0
    BY <1>3, <1>5 DEF Life, Register
  <2>3. /\ Distinct(register)'
        /\ \/ Elems(register)' = Elems(register) /\ conn' = [conn EXCEPT ![c] = "closed"]
           \/ Elems(register)' = Elems(register) \cup {c} /\ UNCHANGED conn
    <3>1. CASE UNCHANGED register /\ conn' = [conn EXCEPT ![c] = "closed"]
      BY <3>1 DEF Structure, Distinct, Elems
    <3>2. CASE UNCHANGED conn /\ register' = Append(register, c)
      <4>1. register \in Seq(Conns) /\ Distinct(register)
        BY <1>1 DEF Structure, TypeOK
      <4>2. QED
        BY <2>2, <3>2, <4>1, AppendElems
    <3>3. QED
      BY <2>1, <3>1, <3>2
  <2>4. /\ UNCHANGED <<clients, closes, send, message, delivered, writer>>
        /\ feed' = [feed EXCEPT ![c] = "start"] /\ feed[c] = "register"
    BY <1>5 DEF Register, hubVars, histVars
  <2>5. ASSUME NEW d \in Conns PROVE Life(d)'
    <3>1. Life(d)
      BY DEF Structure
    <3>2. CASE d # c
      BY <1>1, <2>3, <2>4, <3>1, <3>2 DEF Maps, Life
    <3>3. CASE d = c
      BY <1>1, <1>3, <2>2, <2>3, <2>4, <3>3 DEF Maps, Life
    <3>4. QED
      BY <3>2, <3>3
  <2>6. ASSUME NEW d \in Conns PROVE Idle(d)'
    <3>1. Idle(d)
      BY DEF Structure
    <3>2. QED
      BY <2>4, <3>1 DEF Idle
  <2>7. QED
    BY <1>1, <1>2, <2>3, <2>5, <2>6 DEF Structure
<1>6. QED
  BY <1>4, <1>5

LEMMA StructurePump ==
  ASSUME Structure, NEW c \in Conns, Pump(c)
  PROVE  Structure'
<1> USE DEF hubVars, chanVars, pumpVars, histVars
<1>1. TypeOK' /\ TypeOK /\ Maps
  BY TypePump, TypeMaps DEF Structure
<1>2. UNCHANGED <<hub, todo, clients, register, closes, conn, feed, log>>
  BY DEF Pump, ReadError, Unregister, Escape, TakeMessage, WriteMessage, WriteError,
         SendClosed, PingError
<1>3. Loops' /\ Distinct(register)' /\ Elems(register)' = Elems(register)
  BY <1>2 DEF Structure, Loops, FanoutHasPayload, Distinct, Elems
<1>4. ASSUME NEW d \in Conns PROVE Life(d)'
  BY <1>2, <1>3 DEF Structure, Life
<1>5. ASSUME NEW d \in Conns PROVE Idle(d)'
  <2>1. Idle(d) /\ Life(d)
    BY DEF Structure
  <2>2. CASE ReadError(c) \/ Unregister(c) \/ WriteError(c) \/ SendClosed(c) \/ PingError(c)
    <3>1. /\ UNCHANGED <<send, message, delivered>>
          /\ UNCHANGED writer \/ (writer[c] # "none" /\ writer' = [writer EXCEPT ![c] = "done"])
      BY <2>2 DEF ReadError, Unregister, Escape, WriteError, SendClosed, PingError
    <3>2. QED
      BY <1>1, <1>2, <2>1, <3>1 DEF Maps, Idle
  <2>3. CASE TakeMessage(c)
    <3>1. <<Head(send[c])>> # <<>>
      BY EmptySeq
    <3>2. QED
      BY <1>1, <1>2, <2>1, <2>3, <3>1 DEF Maps, Idle, TakeMessage
  <2>4. CASE WriteMessage(c)
    <3>1. Idle(c) /\ Life(c)
      BY DEF Structure
    <3>2. c \in clients
      BY <1>1, <2>4, <3>1 DEF Maps, Idle, Life, WriteMessage
    <3>3. QED
      BY <1>1, <1>2, <2>1, <2>4, <3>2 DEF Maps, Idle, WriteMessage
  <2>5. QED
    BY <2>2, <2>3, <2>4 DEF Pump
<1>6. QED
  BY <1>1, <1>3, <1>4, <1>5 DEF Structure
LEMMA StructureOther ==
  ASSUME Structure, Cancel \/ (\E m \in Msgs : Broadcast(m)) \/ UNCHANGED vars
  PROVE  Structure'
<1>1. TypeOK'
  BY TypeOther DEF Structure
<1>2. UNCHANGED <<hubVars, register, send, closes, conn, pumpVars, log, joined, delivered>>
  BY DEF Cancel, Broadcast, Room, vars, hubVars, chanVars, pumpVars, histVars
<1>3. Loops' /\ Distinct(register)' /\ Elems(register)' = Elems(register)
  BY <1>2 DEF Structure, Loops, FanoutHasPayload, Distinct, Elems, hubVars
<1>4. ASSUME NEW d \in Conns PROVE Life(d)' /\ Idle(d)'
  <2>1. Life(d) /\ Idle(d)
    BY DEF Structure
  <2>2. QED
    BY <1>2, <1>3, <2>1 DEF Life, Idle, hubVars, pumpVars
<1>5. QED
  BY <1>1, <1>3, <1>4 DEF Structure

\* Evicting a member of the map ends its life.
LEMMA LifeEvict ==
  ASSUME Structure, NEW c \in Conns, c \in clients, Evict(c),
         UNCHANGED <<register, feed, send, writer, message, delivered>>,
         NEW d \in Conns
  PROVE  Life(d)' /\ Idle(d)'
<1>1. Maps
  BY TypeMaps DEF Structure
<1>2. Life(d) /\ Idle(d) /\ Life(c) /\ Idle(c)
  BY DEF Structure
<1>3. Elems(register)' = Elems(register)
  BY DEF Elems
<1>4. d # c => conn'[d] = conn[d] /\ closes'[d] = closes[d] /\ (d \in clients' <=> d \in clients)
  BY <1>1 DEF Evict, Forget, HangUp, Maps
<1>5. conn'[c] = "closed" /\ closes'[c] = 1 /\ c \notin clients'
  BY <1>1, <1>2 DEF Evict, Forget, HangUp, Maps, Life
<1>6. CASE d # c
  BY <1>2, <1>3, <1>4, <1>6 DEF Life, Idle
<1>7. CASE d = c
  BY <1>2, <1>3, <1>5, <1>7 DEF Life, Idle
<1>8. QED
  BY <1>6, <1>7

LEMMA StructureRun ==
  ASSUME Structure, Run
  PROVE  Structure'
<1> USE DEF hubVars, chanVars, pumpVars, histVars
<1>1. TypeOK' /\ TypeOK /\ Maps /\ Loops
  BY TypeRun, TypeMaps DEF Structure, Loops
<1>2. CASE RunRegister
  <2> DEFINE h == Head(register)
  <2>1. register \in Seq(Conns) /\ register # <<>> /\ Distinct(register)
    BY <1>1, <1>2 DEF Structure, TypeOK, RunRegister
  <2>2. /\ h \in Conns
        /\ Elems(register) = Elems(register)' \cup {h}
        /\ Distinct(register)' /\ h \notin Elems(register)'
    <3>1. Elems(Tail(register)) = Elems(register)' /\ Distinct(Tail(register)) = Distinct(register)'
      BY <1>2 DEF RunRegister, Elems, Distinct
    <3>2. QED
      BY <2>1, <3>1, TailElems, HeadTailProperties
  <2>3. /\ clients' = clients \cup {h}
        /\ UNCHANGED <<hub, todo, closes, conn, feed, send, writer, message, log, delivered>>
        /\ hub = "select"
    BY <1>2 DEF RunRegister
  <2> HIDE DEF h
  <2>4. Loops'
    BY <1>1, <2>3 DEF Loops, FanoutHasPayload
  <2>5. ASSUME NEW d \in Conns PROVE Life(d)' /\ Idle(d)'
    <3>1. Life(d) /\ Idle(d)
      BY DEF Structure
    <3>2. QED
      BY <2>2, <2>3, <3>1 DEF Life, Idle
  <2>6. QED
    BY <1>1, <2>2, <2>4, <2>5 DEF Structure
<1>3. CASE RunUnregister
  <2> DEFINE h == Head(unregister)
  <2>1. h \in Conns
    BY <1>1, <1>3, HeadTailProperties DEF TypeOK, RunUnregister
  <2>2. /\ UNCHANGED <<hub, todo, register, feed, send, writer, message, log, delivered>>
        /\ hub = "select" /\ Remove(h)
    BY <1>3 DEF RunUnregister
  <2> HIDE DEF h
  <2>3. Loops'
    BY <1>1, <2>2 DEF Loops, FanoutHasPayload, Remove, Evict, Forget, HangUp
  <2>4. Distinct(register)' /\ Elems(register)' = Elems(register)
    BY <2>2 DEF Structure, Distinct, Elems
  <2>5. ASSUME NEW d \in Conns PROVE Life(d)' /\ Idle(d)'
    <3>1. CASE h \in clients /\ Evict(h)
      BY <2>1, <2>2, <3>1, LifeEvict
    <3>2. CASE UNCHANGED <<clients, closes, conn>>
      <4>1. Life(d) /\ Idle(d)
        BY DEF Structure
      <4>2. QED
        BY <2>2, <2>4, <3>2, <4>1 DEF Life, Idle
    <3>3. QED
      BY <2>2, <3>1, <3>2 DEF Remove
  <2>6. QED
    BY <1>1, <2>3, <2>4, <2>5 DEF Structure
<1>4. CASE RunBroadcast \/ RunFanoutEnd \/ RunDone \/ RunQuit
  <2>1. /\ UNCHANGED <<register, clients, closes, conn, feed, send, writer, message, delivered>>
    BY <1>4 DEF RunBroadcast, RunFanoutEnd, RunDone, RunQuit, CloseQuit
  <2>2. Loops'
    <3>1. CASE RunBroadcast
      <4>1. log' # <<>>
        <5>1. log \in Seq(Msgs) /\ broadcast \in Seq(Msgs)
          BY <1>1 DEF TypeOK
        <5>2. Head(broadcast) \in Msgs
          BY <3>1, <5>1, HeadTailProperties DEF RunBroadcast
        <5>3. QED
          BY <3>1, <5>1, <5>2, AppendProperties DEF RunBroadcast
      <4>2. QED
        BY <3>1, <4>1 DEF Loops, FanoutHasPayload, RunBroadcast
    <3>2. CASE RunFanoutEnd \/ RunDone \/ RunQuit
      BY <1>1, <3>2 DEF Loops, FanoutHasPayload, RunFanoutEnd, RunDone, RunQuit, CloseQuit
    <3>3. QED
      BY <1>4, <3>1, <3>2
  <2>3. Distinct(register)' /\ Elems(register)' = Elems(register)
    BY <2>1 DEF Structure, Distinct, Elems
  <2>4. ASSUME NEW d \in Conns PROVE Life(d)' /\ Idle(d)'
    <3>1. Life(d) /\ Idle(d)
      BY DEF Structure
    <3>2. QED
      BY <2>1, <2>3, <3>1 DEF Life, Idle
  <2>5. QED
    BY <1>1, <2>2, <2>3, <2>4 DEF Structure
<1>5. ASSUME NEW c \in Conns, RunSend(c) \/ RunDrain(c) PROVE Structure'
  <2>1. /\ UNCHANGED <<hub, register, feed, writer, message, log, delivered>>
        /\ c \in todo /\ todo' = todo \ {c}
    BY <1>5 DEF RunSend, Overflows, RunDrain
  <2>2. c \in clients
    BY <1>1, <2>1 DEF Loops
  <2>3. Distinct(register)' /\ Elems(register)' = Elems(register)
    BY <2>1 DEF Structure, Distinct, Elems
  <2>4. CASE Evict(c) /\ UNCHANGED send
    <3>1. Loops'
      BY <1>1, <1>5, <2>1, <2>4 DEF Loops, FanoutHasPayload, RunSend, Overflows, RunDrain, Evict, Forget, HangUp
    <3>2. ASSUME NEW d \in Conns PROVE Life(d)' /\ Idle(d)'
      BY <2>1, <2>2, <2>4, LifeEvict
    <3>3. QED
      BY <1>1, <2>3, <3>1, <3>2 DEF Structure
  <2>5. CASE /\ hub = "fanout"
             /\ send' = [send EXCEPT ![c] = Append(@, log[Len(log)])]
             /\ UNCHANGED <<clients, closes, conn>>
    <3>1. Loops'
      BY <1>1, <2>1, <2>5 DEF Loops, FanoutHasPayload
    <3>2. ASSUME NEW d \in Conns PROVE Life(d)' /\ Idle(d)'
      <4>1. Life(d) /\ Idle(d)
        BY DEF Structure
      <4>2. d # c => send'[d] = send[d]
        BY <1>1, <2>5 DEF Maps
      <4>3. QED
        BY <2>1, <2>2, <2>3, <2>5, <4>1, <4>2 DEF Life, Idle
    <3>3. QED
      BY <1>1, <2>3, <3>1, <3>2 DEF Structure
  <2>6. QED
    BY <1>5, <2>2, <2>4, <2>5 DEF RunSend, Overflows, RunDrain, Remove
<1>6. QED
  BY <1>2, <1>3, <1>4, <1>5 DEF Run

\* The types and the structure hold throughout.
THEOREM HubStructure == Spec => []Structure
<1>1. Structure /\ [Next]_vars => Structure'
  BY StructureHandler, StructurePump, StructureOther, StructureRun DEF Next
<1>2. QED
  BY StructureInit, <1>1, PTL DEF Spec

\* Every variable keeps its type and every channel its capacity.
THEOREM HubTypeOK == Spec => []TypeOK
<1>1. Structure => TypeOK
  BY DEF Structure
<1>2. QED
  BY HubStructure, <1>1, PTL

\* Run neither closes a send channel twice nor sends to a closed one.
THEOREM HubNeverPanics == Spec => []NeverPanics
<1>1. Structure => NeverPanics
  BY DEF Structure, Loops, Life, NeverPanics, TypeOK
<1>2. QED
  BY HubStructure, <1>1, PTL

\* When Run has returned, only clients on their way in have an open socket.
THEOREM HubStoppedClean == Spec => []StoppedClean
<1>1. Structure => StoppedClean
  <2> SUFFICES ASSUME Structure, hub = "stopped", NEW c \in Conns,
                      conn[c] \in {"open", "lost"}
               PROVE  feed[c] = "register" \/ c \in Elems(register)
    BY DEF StoppedClean
  <2>1. Life(c) /\ clients = {} /\ Maps
    BY TypeMaps DEF Structure, Loops
  <2>2. QED
    BY <2>1 DEF Life, Maps
<1>2. QED
  BY HubStructure, <1>1, PTL
-----------------------------------------------------------------------------
\* The sequence s is what follows position k of the sequence l.
Piece(s, l, k) ==
  /\ k + Len(s) <= Len(l)
  /\ \A i \in 1..Len(s) : s[i] = l[k + i]

\* A piece stays one when the log grows, and grows with it by the newest
\* element when it reached the end but for that.
LEMMA PieceLogGrows ==
  ASSUME NEW S, NEW l \in Seq(S), NEW s \in Seq(S), NEW e \in S, NEW k \in Nat,
         Piece(s, l, k)
  PROVE  Piece(s, Append(l, e), k)
<1>1. /\ Len(Append(l, e)) = Len(l) + 1
      /\ \A i \in 1..Len(l) : Append(l, e)[i] = l[i]
      /\ Len(l) \in Nat /\ Len(s) \in Nat
  BY AppendProperties, LenProperties
<1>2. ASSUME NEW i \in 1..Len(s) PROVE s[i] = Append(l, e)[k + i]
  <2>1. k + i \in 1..Len(l)
    BY <1>1, <1>2 DEF Piece
  <2>2. QED
    BY <1>1, <2>1 DEF Piece
<1>3. QED
  BY <1>1, <1>2 DEF Piece

LEMMA PieceGrows ==
  ASSUME NEW S, NEW l \in Seq(S), NEW s \in Seq(S), NEW k \in Nat,
         Piece(s, l, k), k + Len(s) + 1 = Len(l)
  PROVE  /\ l[Len(l)] \in S
         /\ Piece(Append(s, l[Len(l)]), l, k)
<1>1. Len(l) \in Nat /\ Len(s) \in Nat
  BY LenProperties
<1>2. Len(l) \in 1..Len(l)
  BY <1>1
<1>3. l[Len(l)] \in S
  BY <1>2, ElementOfSeq
<1> DEFINE t == Append(s, l[Len(l)])
<1>4. /\ Len(t) = Len(s) + 1
      /\ \A i \in 1..Len(s) : t[i] = s[i]
      /\ t[Len(s) + 1] = l[Len(l)]
  BY <1>3, AppendProperties
<1> HIDE DEF t
<1>5. ASSUME NEW i \in 1..Len(t) PROVE t[i] = l[k + i]
  <2>1. CASE i \in 1..Len(s)
    BY <1>4, <2>1 DEF Piece
  <2>2. CASE i = Len(s) + 1
    <3>1. k + i = Len(l)
      BY <1>1, <2>2
    <3>2. QED
      BY <1>4, <2>2, <3>1
  <2>3. QED
    BY <1>1, <1>4, <1>5, <2>1, <2>2
<1>6. Piece(t, l, k)
  BY <1>1, <1>4, <1>5 DEF Piece
<1>7. QED
  BY <1>3, <1>6 DEF t

LEMMA HeadThenTail ==
  ASSUME NEW S, NEW s \in Seq(S), s # <<>>
  PROVE  <<Head(s)>> \o Tail(s) = s
<1> DEFINE h == <<Head(s)>>
           t == Tail(s)
<1>1. /\ h \in Seq(S) /\ Len(h) = 1 /\ h[1] = s[1]
      /\ t \in Seq(S) /\ Len(t) = Len(s) - 1
      /\ Len(s) \in Nat \ {0}
      /\ \A i \in 1..Len(t) : t[i] = s[i + 1]
  <2>1. Head(s) \in S /\ t \in Seq(S) /\ Len(t) = Len(s) - 1
    BY HeadTailProperties
  <2>2. \A i \in 1..Len(t) : t[i] = s[i + 1]
    BY HeadTailProperties
  <2>3. Len(s) \in Nat \ {0}
    BY EmptySeq
  <2>4. h \in Seq(S) /\ Len(h) = 1 /\ h[1] = Head(s)
    BY <2>1
  <2>5. Head(s) = s[1]
    OBVIOUS
  <2>6. QED
    BY <2>1, <2>2, <2>3, <2>4, <2>5
<1> HIDE DEF h, t
<1>2. /\ h \o t \in Seq(S)
      /\ Len(h \o t) = Len(s)
      /\ \A i \in 1..Len(s) : (h \o t)[i] = IF i <= 1 THEN h[i] ELSE t[i - 1]
  <2>1. /\ h \o t \in Seq(S)
        /\ Len(h \o t) = Len(h) + Len(t)
        /\ \A i \in 1..Len(h) + Len(t) :
             (h \o t)[i] = IF i <= Len(h) THEN h[i] ELSE t[i - Len(h)]
    BY <1>1, ConcatProperties
  <2>2. Len(h) + Len(t) = Len(s)
    BY <1>1
  <2>3. QED
    BY <1>1, <2>1, <2>2
<1>3. ASSUME NEW i \in 1..Len(s) PROVE (h \o t)[i] = s[i]
  <2>1. CASE i = 1
    BY <1>1, <1>2, <2>1
  <2>2. CASE i # 1
    <3>1. i - 1 \in 1..Len(t) /\ (i - 1) + 1 = i /\ ~(i <= 1)
      BY <1>1, <1>3, <2>2
    <3>2. QED
      BY <1>1, <1>2, <1>3, <3>1
  <2>3. QED
    BY <2>1, <2>2
<1>4. h \o t = s
  BY <1>2, <1>3, SeqEqual
<1>5. QED
  BY <1>4 DEF h, t

\* Moving the head of s to the end of what precedes s changes nothing.
LEMMA MoveHead ==
  ASSUME NEW S, NEW d \in Seq(S), NEW s \in Seq(S), s # <<>>
  PROVE  (d \o <<Head(s)>>) \o Tail(s) = (d \o <<>>) \o s
<1> DEFINE h == <<Head(s)>>
           t == Tail(s)
<1>1. h \in Seq(S) /\ t \in Seq(S)
  BY HeadTailProperties
<1>2. h \o t = s
  BY HeadThenTail
<1> HIDE DEF h, t
<1>3. (d \o h) \o t = d \o (h \o t)
  BY ONLY <1>1, d \in Seq(S), ConcatAssociative
<1>4. d \o <<>> = d
  BY ConcatEmptySeq
<1>5. (d \o h) \o t = (d \o <<>>) \o s
  BY <1>2, <1>3, <1>4
<1>6. QED
  BY <1>5 DEF h, t

LEMMA AppendToLast ==
  ASSUME NEW S, NEW d \in Seq(S), NEW s \in Seq(S), NEW x \in S
  PROVE  d \o Append(s, x) = Append(d \o s, x)
<1> DEFINE y == <<x>>
<1>1. y \in Seq(S)
  OBVIOUS
<1>2. Append(s, x) = s \o y /\ d \o s \in Seq(S)
  BY AppendIsConcat, ConcatProperties
<1>3. Append(d \o s, x) = (d \o s) \o y
  BY <1>2, AppendIsConcat
<1> HIDE DEF y
<1>4. (d \o s) \o y = d \o (s \o y)
  BY ONLY <1>1, d \in Seq(S), s \in Seq(S), ConcatAssociative
<1>5. QED
  BY <1>2, <1>3, <1>4
-----------------------------------------------------------------------------
\* A client's conjunct of StreamContiguous.
Segment(c) ==
  /\ Piece(Stream(c), log, joined[c])
  /\ c \in clients => Len(Stream(c)) = Offered(c)

StreamInv == Structure /\ \A c \in Conns : Segment(c)

LEMMA StreamType ==
  ASSUME TypeOK, NEW c \in Conns
  PROVE  /\ delivered[c] \in Seq(Msgs) /\ message[c] \in Seq(Msgs)
         /\ send[c] \in Seq(Msgs) /\ Stream(c) \in Seq(Msgs)
         /\ log \in Seq(Msgs) /\ Len(log) \in Nat /\ Len(Stream(c)) \in Nat
         /\ joined[c] \in Nat
<1>1. /\ delivered[c] \in Seq(Msgs) /\ message[c] \in Seq(Msgs)
      /\ send[c] \in Seq(Msgs) /\ log \in Seq(Msgs) /\ joined[c] \in Nat
  BY DEF TypeOK
<1>2. Stream(c) \in Seq(Msgs)
  BY <1>1, ConcatProperties DEF Stream
<1>3. QED
  BY <1>1, <1>2, LenProperties

LEMMA StreamInit == Init => StreamInv
<1> SUFFICES ASSUME Init, NEW c \in Conns PROVE Segment(c)
  BY StructureInit DEF StreamInv
<1>1. Stream(c) = <<>>
  <2>1. Stream(c) = (<<>> \o <<>>) \o <<>>
    BY DEF Init, Stream
  <2>2. QED
    BY <2>1, ConcatEmptySeq, EmptySeq
<1>2. Len(Stream(c)) = 0 /\ Len(log) = 0
  BY <1>1, EmptySeq DEF Init
<1>3. QED
  BY <1>2 DEF Init, Segment, Piece

\* A step that changes nothing of a client's stream, log and membership.
LEMMA SegmentUnchanged ==
  ASSUME NEW c \in Conns, Segment(c),
         UNCHANGED log, joined'[c] = joined[c], Stream(c)' = Stream(c),
         c \in clients' => c \in clients /\ Offered(c)' = Offered(c)
  PROVE  Segment(c)'
BY DEF Segment, Piece

\* The pumps move payloads along the stream without changing it.
LEMMA StreamPump ==
  ASSUME StreamInv, NEW c \in Conns, Pump(c), NEW d \in Conns
  PROVE  Segment(d)'
<1>1. TypeOK /\ Maps /\ Idle(d) /\ Segment(d)
  BY TypeMaps DEF StreamInv, Structure
<1>2. UNCHANGED <<log, joined, clients, hub, todo>>
  BY DEF Pump, ReadError, Unregister, Escape, TakeMessage, WriteMessage, WriteError,
         SendClosed, PingError, hubVars, histVars
<1>3. Offered(d)' = Offered(d)
  BY <1>2 DEF Offered
<1>4. Stream(d)' = Stream(d)
  <2>0. CASE ReadError(c) \/ Unregister(c) \/ WriteError(c) \/ SendClosed(c) \/ PingError(c)
    BY <2>0 DEF ReadError, Unregister, Escape, WriteError, SendClosed, PingError, Stream, histVars
  <2>1. CASE TakeMessage(c) /\ d = c
    <3>1. /\ message[d] = <<>> /\ send[d] # <<>> /\ delivered'[d] = delivered[d]
          /\ message'[d] = <<Head(send[d])>> /\ send'[d] = Tail(send[d])
      BY <1>1, <2>1 DEF Maps, Idle, TakeMessage, histVars
    <3>2. delivered[d] \in Seq(Msgs) /\ send[d] \in Seq(Msgs)
      BY <1>1 DEF Maps
    <3>3. (delivered[d] \o <<Head(send[d])>>) \o Tail(send[d]) = (delivered[d] \o <<>>) \o send[d]
      BY <3>1, <3>2, MoveHead
    <3>4. QED
      BY <3>1, <3>3 DEF Stream
  <2>2. CASE WriteMessage(c) /\ d = c
    <3>1. /\ delivered'[d] = delivered[d] \o message[d] /\ message'[d] = <<>>
          /\ send'[d] = send[d]
      BY <1>1, <2>2 DEF Maps, WriteMessage
    <3>2. delivered[d] \o message[d] \in Seq(Msgs)
      BY <1>1, ConcatProperties DEF Maps
    <3>3. QED
      BY <3>1, <3>2, ConcatEmptySeq DEF Stream
  <2>3. CASE d # c
    <3>1. CASE TakeMessage(c)
      BY <1>1, <2>3, <3>1 DEF Maps, TakeMessage, Stream, histVars
    <3>2. CASE WriteMessage(c)
      BY <1>1, <2>3, <3>2 DEF Maps, WriteMessage, Stream
    <3>3. QED
      BY <2>0, <3>1, <3>2 DEF Pump
  <2>4. QED
    BY <2>0, <2>1, <2>2, <2>3 DEF Pump
<1>5. QED
  BY <1>1, <1>2, <1>3, <1>4, SegmentUnchanged
LEMMA StreamRest ==
  ASSUME StreamInv, NEW d \in Conns,
         \/ Cancel \/ (\E m \in Msgs : Broadcast(m)) \/ UNCHANGED vars
         \/ \E c \in Conns : Connect(c) \/ Register(c) \/ Start(c) \/ PeerLost(c)
  PROVE  Segment(d)'
<1>1. UNCHANGED <<hub, todo, clients, log, joined, send, message, delivered>>
  BY DEF Cancel, Broadcast, Room, Connect, Register, Start, PeerLost, vars, hubVars,
     pumpVars, histVars
<1>2. Stream(d)' = Stream(d) /\ Offered(d)' = Offered(d)
  BY <1>1 DEF Stream, Offered
<1>3. QED
  BY <1>1, <1>2, SegmentUnchanged DEF StreamInv

LEMMA StreamRun ==
  ASSUME StreamInv, Run, NEW d \in Conns
  PROVE  Segment(d)'
<1> USE DEF hubVars, chanVars, pumpVars, histVars
<1>1. /\ TypeOK /\ Maps /\ Loops /\ Life(d) /\ Idle(d) /\ Segment(d)
  BY TypeMaps DEF StreamInv, Structure
<1>2. /\ Stream(d) \in Seq(Msgs) /\ log \in Seq(Msgs) /\ Len(log) \in Nat
      /\ joined[d] \in Nat /\ Len(Stream(d)) \in Nat
  BY <1>1, StreamType
<1>3. CASE RunRegister
  <2> DEFINE h == Head(register)
  <2>1. /\ register \in Seq(Conns) /\ register # <<>> /\ hub = "select"
        /\ clients' = clients \cup {h} /\ joined' = [joined EXCEPT ![h] = Len(log)]
        /\ UNCHANGED <<hub, todo, log, send, message, delivered>>
    BY <1>1, <1>3 DEF RunRegister, TypeOK
  <2>2. h \in Conns /\ h \in Elems(register)
    BY <2>1, TailElems, HeadTailProperties
  <2> HIDE DEF h
  <2>3. Stream(d)' = Stream(d)
    BY <2>1 DEF Stream
  <2>4. CASE d = h
    <3>1. /\ send[d] = <<>> /\ message[d] = <<>> /\ delivered[d] = <<>>
      BY <1>1, <2>2, <2>4 DEF Life, Idle
    <3>2. Stream(d) = <<>>
      <4>1. Stream(d) = (<<>> \o <<>>) \o <<>>
        BY <3>1 DEF Stream
      <4>2. QED
        BY <4>1, ConcatEmptySeq, EmptySeq
    <3>3. Len(Stream(d)') = 0 /\ joined'[d] = Len(log) /\ d \notin todo
      BY <1>1, <2>1, <2>3, <2>4, <3>2, EmptySeq DEF Maps, Loops
    <3>4. QED
      BY <1>2, <2>1, <3>3 DEF Segment, Piece, Offered
  <2>5. CASE d # h
    <3>1. joined'[d] = joined[d] /\ (d \in clients' <=> d \in clients)
      BY <1>1, <2>1, <2>5 DEF Maps
    <3>2. Offered(d)' = Offered(d)
      BY <2>1, <3>1 DEF Offered
    <3>3. QED
      BY <1>1, <2>1, <2>3, <3>1, <3>2, SegmentUnchanged
  <2>6. QED
    BY <2>4, <2>5
<1>4. CASE RunBroadcast
  <2> DEFINE e == Head(broadcast)
  <2>1. /\ e \in Msgs /\ hub = "select" /\ hub' = "fanout"
        /\ log' = Append(log, e) /\ todo' = clients
        /\ UNCHANGED <<clients, joined, send, message, delivered>>
    BY <1>1, <1>4, HeadTailProperties DEF RunBroadcast, TypeOK
  <2> HIDE DEF e
  <2>2. Stream(d)' = Stream(d)
    BY <2>1 DEF Stream
  <2>3. Piece(Stream(d), log', joined[d])
    BY <1>1, <1>2, <2>1, PieceLogGrows DEF Segment
  <2>4. Len(log') = Len(log) + 1
    BY <1>2, <2>1, AppendProperties
  <2>5. d \in clients => Offered(d)' = Offered(d)
    BY <1>1, <1>2, <2>1, <2>4 DEF Offered, Loops
  <2>6. QED
    BY <1>1, <2>1, <2>2, <2>3, <2>5 DEF Segment
<1>5. CASE RunUnregister \/ RunFanoutEnd \/ RunDone \/ RunQuit
  <2>1. /\ UNCHANGED <<log, joined, send, message, delivered>>
        /\ clients' \subseteq clients
        /\ hub = "fanout" => todo = {}
        /\ hub' # "fanout"
    BY <1>5 DEF RunUnregister, RunFanoutEnd, RunDone, RunQuit, CloseQuit, Remove, Evict, Forget, HangUp
  <2>2. Stream(d)' = Stream(d) /\ Offered(d)' = Offered(d)
    BY <2>1 DEF Stream, Offered
  <2>3. QED
    BY <1>1, <2>1, <2>2, SegmentUnchanged
<1>6. ASSUME NEW c \in Conns, RunSend(c) \/ RunDrain(c) PROVE Segment(d)'
  <2>1. /\ UNCHANGED <<hub, log, joined, message, delivered>>
        /\ c \in todo /\ todo' = todo \ {c} /\ c \in clients
    BY <1>1, <1>6 DEF RunSend, Overflows, RunDrain, Loops
  <2>2. CASE Evict(c) /\ UNCHANGED send
    <3>1. Stream(d)' = Stream(d)
      BY <2>1, <2>2 DEF Stream
    <3>2. d \in clients' => d \in clients /\ d # c
      BY <2>2 DEF Evict, Forget, HangUp
    <3>3. d # c => Offered(d)' = Offered(d)
      BY <2>1 DEF Offered
    <3>4. QED
      BY <1>1, <2>1, <3>1, <3>2, <3>3, SegmentUnchanged
  <2>3. CASE /\ hub = "fanout"
             /\ send' = [send EXCEPT ![c] = Append(@, log[Len(log)])]
             /\ UNCHANGED <<clients, closes, conn>>
    <3>1. CASE d # c
      <4>1. Stream(d)' = Stream(d) /\ Offered(d)' = Offered(d)
        BY <1>1, <2>1, <2>3, <3>1 DEF Stream, Offered, Maps
      <4>2. QED
        BY <1>1, <2>1, <2>3, <4>1, SegmentUnchanged
    <3>2. CASE d = c
      <4>1. /\ Offered(d) = Len(log) - joined[d] - 1
            /\ Offered(d)' = Len(log) - joined[d]
        BY <1>2, <2>1, <2>3, <3>2 DEF Offered
      <4>2. /\ Piece(Stream(d), log, joined[d])
            /\ joined[d] + Len(Stream(d)) + 1 = Len(log)
        BY <1>1, <1>2, <2>1, <3>2, <4>1 DEF Segment
      <4>3. /\ log[Len(log)] \in Msgs
            /\ Piece(Append(Stream(d), log[Len(log)]), log, joined[d])
        BY <1>2, <4>2, PieceGrows
      <4>4. Stream(d)' = Append(Stream(d), log[Len(log)])
        <5> DEFINE x == log[Len(log)]
        <5>1. /\ send'[d] = Append(send[d], x) /\ x \in Msgs
              /\ delivered'[d] = delivered[d] /\ message'[d] = message[d]
          BY <1>1, <2>1, <2>3, <3>2, <4>3 DEF Maps
        <5>2. send[d] \in Seq(Msgs) /\ delivered[d] \o message[d] \in Seq(Msgs)
          BY <1>1, ConcatProperties DEF Maps
        <5> DEFINE p == delivered[d] \o message[d]
        <5>3. Stream(d) = p \o send[d] /\ Stream(d)' = p \o Append(send[d], x)
          BY <5>1 DEF Stream
        <5>4. p \in Seq(Msgs) /\ send[d] \in Seq(Msgs) /\ x \in Msgs
          BY <5>1, <5>2
        <5> HIDE DEF x, p
        <5>5. p \o Append(send[d], x) = Append(p \o send[d], x)
          BY ONLY <5>4, AppendToLast
        <5>6. QED
          BY <5>3, <5>5 DEF x
      <4>5. Len(Stream(d)') = Len(Stream(d)) + 1
        BY <1>2, <4>3, <4>4, AppendProperties
      <4>6. QED
        BY <1>2, <2>1, <4>1, <4>2, <4>3, <4>4, <4>5 DEF Segment
    <3>3. QED
      BY <3>1, <3>2
  <2>4. QED
    BY <1>6, <2>1, <2>2, <2>3 DEF RunSend, Overflows, RunDrain, Remove
<1>7. QED
  BY <1>3, <1>4, <1>5, <1>6 DEF Run

LEMMA StreamNext == StreamInv /\ [Next]_vars => StreamInv'
<1> SUFFICES ASSUME StreamInv, [Next]_vars PROVE StreamInv'
  OBVIOUS
<1>1. Structure'
  BY StructureHandler, StructurePump, StructureOther, StructureRun DEF Next, StreamInv
<1>2. ASSUME NEW d \in Conns PROVE Segment(d)'
  BY StreamPump, StreamRest, StreamRun DEF Next
<1>3. QED
  BY <1>1, <1>2 DEF StreamInv

(***************************************************************************)
(* In every reachable state what the hub has sent to a client is a piece   *)
(* of the log of Run's broadcasts that starts where the client joined.     *)
(***************************************************************************)
THEOREM HubStream == Spec => []StreamInv
BY StreamInit, StreamNext, PTL DEF Spec

\* The feed of every client has no gap, repetition or reordering.
THEOREM HubStreamContiguous == Spec => []StreamContiguous
<1>1. StreamInv => StreamContiguous
  BY DEF StreamInv, StreamContiguous, Segment, Piece
<1>2. QED
  BY HubStream, <1>1, PTL

LEMMA LagSum ==
  ASSUME NEW L \in Nat, NEW j \in Nat, NEW d \in Nat, NEW m \in Nat, NEW s \in Nat,
         NEW k \in Nat, NEW t \in Nat, m <= 1, s <= k,
         t = d + m + s, t = L - j \/ t = L - j - 1
  PROVE  L - j - d <= k + 2
OBVIOUS

LEMMA StreamLen ==
  ASSUME TypeOK, NEW c \in Conns
  PROVE  Len(Stream(c)) = Len(delivered[c]) + Len(message[c]) + Len(send[c])
<1>1. /\ delivered[c] \o message[c] \in Seq(Msgs)
      /\ Len(delivered[c] \o message[c]) = Len(delivered[c]) + Len(message[c])
  BY StreamType, ConcatProperties
<1>2. QED
  BY <1>1, StreamType, ConcatProperties DEF Stream

LEMMA LagBound == StreamInv => BoundedLag
<1> SUFFICES ASSUME StreamInv, NEW c \in clients PROVE Lag(c) <= SendCap + 2
  BY DEF BoundedLag
<1> DEFINE L == Len(log)
           j == joined[c]
           d == Len(delivered[c])
           m == Len(message[c])
           s == Len(send[c])
           t == Len(Stream(c))
<1>1. TypeOK /\ c \in Conns
  BY DEF StreamInv, Structure, TypeOK
<1>2. /\ m <= 1 /\ s <= SendCap
      /\ m \in Nat /\ s \in Nat /\ d \in Nat /\ j \in Nat /\ L \in Nat /\ t \in Nat
  BY <1>1, StreamType, LenProperties DEF TypeOK
<1>3. t = d + m + s
  BY <1>1, StreamLen
<1>4. t = Offered(c)
  BY <1>1 DEF StreamInv, Segment
<1>5. t = L - j \/ t = L - j - 1
  BY <1>2, <1>4 DEF Offered
<1>6. Lag(c) = L - j - d
  BY DEF Lag
<1> HIDE DEF L, j, d, m, s, t
<1>7. SendCap \in Nat
  OBVIOUS
<1>8. L - j - d <= SendCap + 2
  BY <1>2, <1>3, <1>5, <1>7, LagSum
<1>9. QED
  BY <1>6, <1>8

\* Between two fan-outs the lag is one less.
LEMMA LagAtRest ==
  ASSUME StreamInv, hub = "select", NEW c \in Conns, c \in clients
  PROVE  Lag(c) <= SendCap + 1
<1> DEFINE d == Len(delivered[c])
           m == Len(message[c])
           s == Len(send[c])
<1>1. TypeOK
  BY DEF StreamInv, Structure
<1>2. /\ m <= 1 /\ s <= SendCap /\ SendCap \in Nat
      /\ m \in Nat /\ s \in Nat /\ d \in Nat /\ joined[c] \in Nat /\ Len(log) \in Nat
  BY <1>1, StreamType, LenProperties DEF TypeOK
<1>3. Len(Stream(c)) = d + m + s
  BY <1>1, StreamLen
<1>4. Len(Stream(c)) = Len(log) - joined[c]
  BY <1>2 DEF StreamInv, Structure, Loops, Segment, Offered
<1>5. Lag(c) = Len(log) - joined[c] - d
  BY DEF Lag
<1> HIDE DEF d, m, s
<1>6. QED
  BY <1>2, <1>3, <1>4, <1>5

\* No client in the map falls further behind than its buffer allows.
THEOREM HubBoundedLag == Spec => []BoundedLag
BY HubStream, LagBound, PTL
-----------------------------------------------------------------------------
(* The refinement of FeedStream.                                           *)

\* No payload is fanned out twice: every one is in the log, in the broadcast
\* channel or nowhere, and there once.
Once ==
  /\ Distinct(log) /\ Distinct(broadcast)
  /\ Elems(log) \cup Elems(broadcast) \subseteq created
  /\ Elems(log) \cap Elems(broadcast) = {}

FeedInv == StreamInv /\ Once

LEMMA FeedInit == Init => FeedInv
<1> SUFFICES ASSUME Init PROVE Once
  BY StreamInit DEF FeedInv
<1>1. Len(log) = 0 /\ Len(broadcast) = 0
  BY EmptySeq DEF Init
<1>2. QED
  BY <1>1 DEF Once, Distinct, Elems

LEMMA OnceUnchanged ==
  ASSUME Once, UNCHANGED <<log, broadcast>>, created \subseteq created'
  PROVE  Once'
<1>1. /\ Distinct(log)' = Distinct(log) /\ Distinct(broadcast)' = Distinct(broadcast)
      /\ Elems(log)' = Elems(log) /\ Elems(broadcast)' = Elems(broadcast)
  BY DEF Distinct, Elems
<1>2. QED
  BY <1>1 DEF Once

LEMMA FeedNext == FeedInv /\ [Next]_vars => FeedInv'
<1> SUFFICES ASSUME FeedInv, [Next]_vars PROVE Once'
  BY StreamNext DEF FeedInv
<1> USE DEF FeedInv, hubVars, chanVars, pumpVars, histVars
<1>1. TypeOK /\ Once
  BY DEF StreamInv, Structure
<1>2. log \in Seq(Msgs) /\ broadcast \in Seq(Msgs)
  BY <1>1 DEF TypeOK
<1>3. CASE RunBroadcast
  <2> DEFINE e == Head(broadcast)
             rest == Tail(broadcast)
  <2>1. broadcast # <<>> /\ log' = Append(log, e) /\ broadcast' = rest /\ created' = created
    BY <1>3 DEF RunBroadcast
  <2>2. /\ e \in Msgs /\ Elems(broadcast) = Elems(rest) \cup {e}
        /\ Distinct(rest) /\ e \notin Elems(rest)
    BY <1>1, <1>2, <2>1, HeadTailProperties, TailElems DEF Once
  <2>3. /\ Elems(Append(log, e)) = Elems(log) \cup {e}
        /\ Distinct(Append(log, e))
    BY <1>1, <1>2, <2>2, AppendElems DEF Once
  <2> HIDE DEF e, rest
  <2>4. Elems(log') = Elems(Append(log, e)) /\ Elems(broadcast') = Elems(rest)
    BY <2>1
  <2>5. Once' = /\ Distinct(log') /\ Distinct(broadcast')
                /\ Elems(log') \cup Elems(broadcast') \subseteq created'
                /\ Elems(log') \cap Elems(broadcast') = {}
    BY DEF Once, Distinct, Elems
  <2>6. QED
    BY <1>1, <2>1, <2>2, <2>3, <2>4, <2>5 DEF Once
<1>4. ASSUME NEW m \in Msgs, Broadcast(m) PROVE Once'
  <2>1. m \notin created /\ created' = created \cup {m} /\ log' = log
    BY <1>4 DEF Broadcast, Room
  <2>2. CASE UNCHANGED broadcast
    BY <1>1, <2>1, <2>2, OnceUnchanged
  <2>3. CASE broadcast' = Append(broadcast, m)
    <3>1. m \notin Elems(broadcast) /\ m \notin Elems(log)
      BY <1>1, <2>1 DEF Once
    <3>2. /\ Elems(Append(broadcast, m)) = Elems(broadcast) \cup {m}
          /\ Distinct(Append(broadcast, m))
      BY <1>1, <1>2, <3>1, AppendElems DEF Once
    <3>3. Once' = /\ Distinct(log') /\ Distinct(broadcast')
                  /\ Elems(log') \cup Elems(broadcast') \subseteq created'
                  /\ Elems(log') \cap Elems(broadcast') = {}
      BY DEF Once, Distinct, Elems
    <3>4. QED
      BY <1>1, <2>1, <2>3, <3>1, <3>2, <3>3 DEF Once
  <2>4. QED
    BY <1>4, <2>2, <2>3 DEF Broadcast, Room
<1>5. CASE Cancel \/ UNCHANGED vars
  BY <1>1, <1>5, OnceUnchanged DEF Cancel, vars
<1>6. ASSUME NEW c \in Conns, Connect(c) \/ Register(c) \/ Start(c) \/ PeerLost(c) \/ Pump(c)
      PROVE  Once'
  BY <1>1, <1>6, OnceUnchanged DEF Connect, Register, Start, PeerLost, Pump, ReadError,
     Unregister, Escape, TakeMessage, WriteMessage, WriteError, SendClosed, PingError
<1>7. CASE RunRegister \/ RunUnregister \/ RunFanoutEnd \/ RunDone \/ RunQuit
  BY <1>1, <1>7, OnceUnchanged DEF RunRegister, RunUnregister, RunFanoutEnd, RunDone, RunQuit, CloseQuit
<1>8. ASSUME NEW c \in Conns, RunSend(c) \/ RunDrain(c) PROVE Once'
  BY <1>1, <1>8, OnceUnchanged DEF RunSend, Overflows, RunDrain
<1>9. QED
  BY <1>3, <1>4, <1>5, <1>6, <1>7, <1>8 DEF Next, Run

\* The mapped variables, and a step that changes none of them.
Statuses == [c \in Conns |-> Status(c)]

LEMMA FeedStutter ==
  ASSUME UNCHANGED <<clients, closes, log, joined, delivered>>
  PROVE  UNCHANGED Feed!vars
BY DEF Feed!vars, Status

\* A client taken out of the map leaves the feed.
LEMMA FeedLeave ==
  ASSUME Structure, NEW c \in Conns, c \in clients, Evict(c),
         UNCHANGED <<log, joined, delivered>>
  PROVE  Feed!Leave(c)
<1>1. Maps /\ closes[c] = 0
  BY TypeMaps DEF Structure, Life
<1>2. ASSUME NEW d \in Conns
      PROVE  Status(d)' = IF d = c THEN "gone" ELSE Status(d)
  BY <1>1 DEF Evict, Forget, HangUp, Maps, Status
<1>3. Statuses' = [Statuses EXCEPT ![c] = "gone"]
  BY <1>2 DEF Statuses
<1>4. Statuses[c] = "live"
  BY DEF Statuses, Status
<1>5. QED
  BY <1>3, <1>4 DEF Feed!Leave, Statuses
\* A client that enters the map joins the feed.
LEMMA FeedJoin ==
  ASSUME FeedInv, RunRegister
  PROVE  \E c \in Conns : Feed!Join(c)
<1> DEFINE h == Head(register)
<1>1. TypeOK /\ Maps /\ register \in Seq(Conns) /\ register # <<>>
  BY TypeMaps DEF FeedInv, StreamInv, Structure, TypeOK, RunRegister
<1>2. h \in Conns /\ h \in Elems(register)
  BY <1>1, TailElems, HeadTailProperties
<1>3. /\ clients' = clients \cup {h} /\ joined' = [joined EXCEPT ![h] = Len(log)]
      /\ UNCHANGED <<closes, log, delivered>>
  BY DEF RunRegister
<1> HIDE DEF h
<1>4. h \notin clients /\ closes[h] = 0
  BY <1>2 DEF FeedInv, StreamInv, Structure, Life
<1>5. Statuses' = [Statuses EXCEPT ![h] = "live"]
  BY <1>3 DEF Statuses, Status
<1>6. Statuses[h] = "idle"
  BY <1>2, <1>4 DEF Statuses, Status
<1>7. Feed!Join(h)
  BY <1>3, <1>5, <1>6 DEF Feed!Join, Statuses
<1>8. QED
  BY <1>2, <1>7

\* A payload taken from the broadcast channel is published; every client in
\* the map has room for it in its lag.
LEMMA FeedPublish ==
  ASSUME FeedInv, RunBroadcast
  PROVE  \E m \in Msgs : Feed!Publish(m)
<1> DEFINE e == Head(broadcast)
<1>1. /\ TypeOK /\ Once /\ Loops /\ broadcast \in Seq(Msgs) /\ broadcast # <<>>
      /\ hub = "select" /\ log' = Append(log, e)
      /\ UNCHANGED <<clients, closes, joined, delivered>>
  BY DEF FeedInv, StreamInv, Structure, TypeOK, RunBroadcast
<1>2. e \in Msgs /\ e \in Elems(broadcast)
  BY <1>1, TailElems, HeadTailProperties
<1> HIDE DEF e
<1>3. \A i \in 1..Len(log) : log[i] # e
  BY <1>1, <1>2 DEF Once, Elems
<1>4. ASSUME NEW c \in Conns, Statuses[c] = "live" PROVE Lag(c) < SendCap + 2
  <2>1. c \in clients
    BY <1>4 DEF Statuses, Status
  <2>2. Lag(c) <= SendCap + 1
    BY <1>1, <2>1, LagAtRest DEF FeedInv
  <2>3. Lag(c) \in Int
    BY <1>1, StreamType, LenProperties DEF Lag
  <2>4. QED
    BY <2>2, <2>3
<1>5. Statuses' = Statuses
  BY <1>1 DEF Statuses, Status
<1>6. Feed!Publish(e)
  BY <1>1, <1>3, <1>4, <1>5 DEF Feed!Publish, Feed!Behind, Statuses, Lag
<1>7. QED
  BY <1>2, <1>6

\* The payload in hand comes next in the stream.
LEMMA NextInStream ==
  ASSUME NEW S, NEW d \in Seq(S), NEW m \in Seq(S), NEW s \in Seq(S), Len(m) = 1
  PROVE  /\ Len(d) + 1 \in 1..Len((d \o m) \o s)
         /\ ((d \o m) \o s)[Len(d) + 1] = m[1]
         /\ d \o m = Append(d, m[1])
<1> DEFINE p == d \o m
           q == p \o s
           n == Len(d) + 1
<1>1. Len(d) \in Nat /\ Len(s) \in Nat
  BY LenProperties
<1>2. /\ p \in Seq(S) /\ Len(p) = Len(d) + Len(m)
      /\ \A i \in 1..Len(d) + Len(m) : p[i] = IF i <= Len(d) THEN d[i] ELSE m[i - Len(d)]
  BY ConcatProperties
<1>3. m[1] \in S
  <2>1. 1 \in 1..Len(m)
    OBVIOUS
  <2>2. QED
    BY <2>1, ElementOfSeq
<1>4. m = <<m[1]>>
  OBVIOUS
<1>5. d \o m = Append(d, m[1])
  BY <1>3, <1>4, AppendIsConcat
<1> HIDE DEF p
<1>6. /\ Len(q) = Len(p) + Len(s)
      /\ \A i \in 1..Len(p) + Len(s) : q[i] = IF i <= Len(p) THEN p[i] ELSE s[i - Len(p)]
  <2>1. p \in Seq(S)
    BY <1>2
  <2> QED
    BY <2>1, ConcatProperties
<1> HIDE DEF q
<1>7. /\ n \in 1..Len(d) + Len(m) /\ ~(n <= Len(d)) /\ n - Len(d) = 1
      /\ n \in 1..Len(p) + Len(s) /\ n <= Len(p)
  BY <1>1, <1>2
<1> HIDE DEF n
<1>8. p[n] = m[1] /\ q[n] = p[n]
  BY <1>2, <1>6, <1>7
<1>9. n \in 1..Len(q)
  BY <1>6, <1>7
<1>10. QED
  BY <1>5, <1>8, <1>9 DEF n, p, q

\* A payload written to the socket is the next one its subscriber receives.
LEMMA FeedReceive ==
  ASSUME FeedInv, NEW c \in Conns, WriteMessage(c)
  PROVE  Feed!Receive(c)
<1>1. TypeOK /\ Maps /\ Segment(c) /\ Idle(c) /\ Life(c)
  BY TypeMaps DEF FeedInv, StreamInv, Structure
<1>2. /\ UNCHANGED <<clients, closes, log, joined>>
      /\ delivered' = [delivered EXCEPT ![c] = @ \o message[c]]
      /\ conn[c] # "closed" /\ writer[c] = "writing"
  BY DEF WriteMessage, hubVars
<1>3. c \in clients /\ message[c] # <<>>
  BY <1>1, <1>2 DEF Maps, Idle, Life
<1>4. Len(message[c]) = 1
  <2>1. Len(message[c]) <= 1 /\ message[c] \in Seq(Msgs)
    BY <1>1 DEF TypeOK
  <2> DEFINE k == Len(message[c])
  <2>2. k \in Nat \ {0}
    BY <1>3, <2>1, EmptySeq
  <2>3. k <= 1
    BY <2>1
  <2> HIDE DEF k
  <2>4. k = 1
    BY <2>2, <2>3
  <2>5. QED
    BY <2>4 DEF k
<1> DEFINE n == Len(delivered[c]) + 1
           j == joined[c]
           L == Len(log)
           t == Stream(c)
<1>5. /\ n \in 1..Len(t) /\ t[n] = message[c][1]
      /\ delivered[c] \o message[c] = Append(delivered[c], message[c][1])
  <2>1. delivered[c] \in Seq(Msgs) /\ message[c] \in Seq(Msgs) /\ send[c] \in Seq(Msgs)
    BY <1>1 DEF Maps
  <2> DEFINE d == delivered[c]
             m == message[c]
             s == send[c]
  <2>2. d \in Seq(Msgs) /\ m \in Seq(Msgs) /\ s \in Seq(Msgs) /\ Len(m) = 1
    BY <1>4, <2>1
  <2> HIDE DEF d, m, s
  <2>3. /\ Len(d) + 1 \in 1..Len((d \o m) \o s)
        /\ ((d \o m) \o s)[Len(d) + 1] = m[1]
        /\ d \o m = Append(d, m[1])
    BY ONLY <2>2, NextInStream
  <2>4. QED
    BY <2>3 DEF d, m, s, Stream
<1>6. j \in Nat /\ Len(delivered[c]) \in Nat /\ L \in Nat /\ Len(t) \in Nat
  BY <1>1, StreamType, LenProperties
<1>7. j + Len(t) <= L /\ \A i \in 1..Len(t) : t[i] = log[j + i]
  BY <1>1 DEF Segment, Piece
<1>8. log[j + n] = message[c][1]
  BY <1>5, <1>7
<1>9. Feed!Behind(c) = L - j - Len(delivered[c])
  BY DEF Feed!Behind
<1>10. Feed!Behind(c) > 0 /\ j + n = j + Len(delivered[c]) + 1
  <2> DEFINE d == Len(delivered[c])
             k == Len(t)
  <2>1. n \in 1..k /\ n = d + 1 /\ d \in Nat /\ j \in Nat /\ L \in Nat /\ k \in Nat
    BY <1>5, <1>6
  <2>2. j + k <= L /\ Feed!Behind(c) = L - j - d
    BY <1>7, <1>9
  <2> HIDE DEF n, d, k, j, L
  <2>3. Feed!Behind(c) > 0 /\ j + n = j + d + 1
    BY <2>1, <2>2
  <2>4. QED
    BY <2>3 DEF d
<1>11. delivered' = [delivered EXCEPT ![c] = Append(@, log[joined[c] + Len(@) + 1])]
  BY <1>2, <1>5, <1>8, <1>10
<1>12. Statuses' = Statuses /\ Statuses[c] = "live"
  BY <1>2, <1>3 DEF Statuses, Status
<1>13. QED
  BY <1>2, <1>10, <1>11, <1>12 DEF Feed!Receive, Statuses

\* The hub implements the feed: each of its steps is a step of FeedStream, or
\* changes nothing a subscriber can see.
THEOREM HubImplementsFeedStream == Spec => ImplementsFeedStream
<1>1. Init => Feed!Init
  BY DEF Init, Feed!Init, Status
<1>2. FeedInv /\ [Next]_vars => [Feed!Next]_(Feed!vars)
  <2> SUFFICES ASSUME FeedInv, [Next]_vars PROVE Feed!Next \/ UNCHANGED Feed!vars
    OBVIOUS
  <2> USE DEF hubVars, chanVars, pumpVars, histVars
  <2>1. CASE RunRegister
    BY <2>1, FeedJoin DEF Feed!Next
  <2>2. CASE RunBroadcast
    BY <2>2, FeedPublish DEF Feed!Next
  <2>3. ASSUME NEW c \in Conns, WriteMessage(c) PROVE Feed!Next
    BY <2>3, FeedReceive DEF Feed!Next
  <2>4. CASE RunUnregister
    <3>1. Head(unregister) \in Conns
      BY <2>4, HeadTailProperties DEF FeedInv, StreamInv, Structure, TypeOK, RunUnregister
    <3>2. CASE Head(unregister) \in clients /\ Evict(Head(unregister))
      BY <2>4, <3>1, <3>2, FeedLeave DEF FeedInv, StreamInv, RunUnregister, Feed!Next
    <3>3. CASE UNCHANGED <<clients, closes, conn>>
      BY <2>4, <3>3, FeedStutter DEF RunUnregister
    <3>4. QED
      BY <2>4, <3>2, <3>3 DEF RunUnregister, Remove
  <2>5. ASSUME NEW c \in Conns, RunSend(c) \/ RunDrain(c)
        PROVE  Feed!Next \/ UNCHANGED Feed!vars
    <3>1. c \in clients
      BY <2>5 DEF FeedInv, StreamInv, Structure, Loops, RunSend, Overflows, RunDrain
    <3>2. CASE Evict(c)
      BY <2>5, <3>1, <3>2, FeedLeave DEF FeedInv, StreamInv, RunSend, Overflows, RunDrain, Feed!Next
    <3>3. CASE UNCHANGED <<clients, closes, conn>>
      BY <2>5, <3>3, FeedStutter DEF RunSend, Overflows, RunDrain
    <3>4. QED
      BY <2>5, <3>1, <3>2, <3>3 DEF RunSend, Overflows, RunDrain, Remove
  <2>6. CASE RunFanoutEnd \/ RunDone \/ RunQuit
    BY <2>6, FeedStutter DEF RunFanoutEnd, RunDone, RunQuit, CloseQuit
  <2>7. CASE Cancel \/ (\E m \in Msgs : Broadcast(m)) \/ UNCHANGED vars
    BY <2>7, FeedStutter DEF Cancel, Broadcast, Room, vars
  <2>8. ASSUME NEW c \in Conns,
               \/ Connect(c) \/ Register(c) \/ Start(c) \/ PeerLost(c) \/ ReadError(c)
               \/ Unregister(c) \/ TakeMessage(c) \/ WriteError(c) \/ SendClosed(c)
               \/ PingError(c)
        PROVE  UNCHANGED Feed!vars
    BY <2>8, FeedStutter DEF Connect, Register, Start, PeerLost, ReadError, Unregister, Escape,
       TakeMessage, WriteError, SendClosed, PingError
  <2>9. QED
    BY <2>1, <2>2, <2>3, <2>4, <2>5, <2>6, <2>7, <2>8 DEF Next, Run, Pump
<1>3. QED
  BY <1>1, <1>2, FeedInit, FeedNext, PTL DEF Spec, ImplementsFeedStream, Feed!Spec
=============================================================================
