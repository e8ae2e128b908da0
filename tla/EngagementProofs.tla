-------------------------- MODULE EngagementProofs --------------------------
(***************************************************************************)
(* Proofs about Engagement, for every set of posts, users and requests,    *)
(* with and without failures.                                              *)
(***************************************************************************)
EXTENDS Engagement, FiniteSetTheorems, TLAPS

USE EngagementAssumption DEF EngagementAssumption

(* The inductive invariant.                                                *)

\* A request has its post and its user; a reply that is counted has its row,
\* and what has written a row keeps its post.
Ongoing(s) ==
  call[s].pc # "idle" =>
    /\ call[s].post \in Posts /\ call[s].user \in Users
    /\ call[s].kind \in Kinds \cup {"reply"}
    /\ call[s].pc \in {"count", "commit"} /\ call[s].kind = "reply" => call[s].wrote = "created"
    /\ call[s].pc \in {"read", "create", "flip", "score"} => call[s].kind # "reply"
    /\ call[s].wrote # "nothing" => posts[call[s].post] # "deleted"

IInv ==
  /\ TypeOK
  /\ \A s \in Slots : Ongoing(s)
  /\ ReplyCountExact
  /\ NoOrphans

LEMMA IdleType == Idle \in Call
BY DEF Idle, Request, Call

LEMMA InitIInv == Init => IInv
<1> SUFFICES ASSUME Init PROVE IInv
  OBVIOUS
<1>1. TypeOK
  <2>1. call \in [Slots -> Call]
    BY IdleType DEF Init
  <2> QED
    BY <2>1 DEF Init, TypeOK, Kinds
<1>2. \A s \in Slots : Ongoing(s)
  BY DEF Init, Ongoing, Idle, Request
<1>3. ReplyCountExact /\ NoOrphans
  BY DEF Init, ReplyCountExact, NoOrphans
<1> QED
  BY <1>1, <1>2, <1>3 DEF IInv
-----------------------------------------------------------------------------
(* A statement changes the request of one slot.                            *)

LEMMA SlotFrame ==
  ASSUME IInv, NEW s \in Slots, UNCHANGED <<rows, first>>,
         crossed' \in SUBSET (Posts \X Users),
         call' \in [Slots -> Call], \A t \in Slots \ {s} : call'[t] = call[t],
         Ongoing(s)'
  PROVE  IInv'
<1> USE DEF IInv, rows
<1>1. TypeOK'
  BY DEF TypeOK
<1>2. ASSUME NEW t \in Slots PROVE Ongoing(t)'
  <2>1. CASE t = s
    BY <2>1
  <2>2. CASE t # s
    <3>1. call'[t] = call[t] /\ posts' = posts
      BY <2>2
    <3> QED
      BY <3>1 DEF Ongoing
  <2> QED
    BY <2>1, <2>2
<1>3. ReplyCountExact' /\ NoOrphans'
  BY DEF ReplyCountExact, NoOrphans
<1> QED
  BY <1>1, <1>2, <1>3

LEMMA ToIdle ==
  ASSUME IInv, NEW s \in Slots, UNCHANGED <<rows, hist>>, call' = [call EXCEPT ![s] = Idle]
  PROVE  IInv'
<1>1. /\ call' \in [Slots -> Call] /\ call'[s] = Idle
      /\ \A t \in Slots \ {s} : call'[t] = call[t]
  BY IdleType DEF IInv, TypeOK
<1>2. Ongoing(s)'
  BY <1>1 DEF Ongoing, Idle, Request
<1>3. crossed' \in SUBSET (Posts \X Users) /\ UNCHANGED first
  BY DEF hist, IInv, TypeOK
<1> QED
  BY <1>1, <1>2, <1>3, SlotFrame

\* A request that goes on to its next statement.
LEMMA GoesOn ==
  ASSUME IInv, NEW s \in Slots, UNCHANGED <<rows, hist>>, call[s].pc # "idle",
         call' \in [Slots -> Call], \A t \in Slots \ {s} : call'[t] = call[t],
         call'[s].post = call[s].post, call'[s].user = call[s].user,
         call'[s].kind = call[s].kind,
         call'[s].pc \in {"count", "commit"} /\ call[s].kind = "reply" =>
           call'[s].wrote = "created",
         call'[s].pc \in {"read", "create", "flip", "score"} => call[s].kind # "reply",
         call'[s].wrote # "nothing" => posts[call[s].post] # "deleted"
  PROVE  IInv'
<1>1. Ongoing(s) /\ posts' = posts
  BY DEF IInv, rows
<1>2. Ongoing(s)'
  BY <1>1 DEF Ongoing
<1>3. crossed' \in SUBSET (Posts \X Users) /\ UNCHANGED first
  BY DEF hist, IInv, TypeOK
<1> QED
  BY <1>2, <1>3, SlotFrame

LEMMA BeginIInv ==
  ASSUME IInv, NEW s \in Slots, NEW p \in Posts, NEW u \in Users,
         NEW pc \in {"reply", "read"}, NEW kind \in Kinds \cup {"reply"},
         pc = "read" => kind # "reply",
         call' = [call EXCEPT ![s] = Request(pc, p, u, kind)],
         UNCHANGED <<rows, first>>, crossed' \in SUBSET (Posts \X Users)
  PROVE  IInv'
<1> DEFINE c == Request(pc, p, u, kind)
<1>1. /\ c \in Call /\ c.pc = pc /\ c.wrote = "nothing"
      /\ c.post = p /\ c.user = u /\ c.kind = kind
  BY DEF Call, Request
<1> HIDE DEF c
<1>2. call' = [call EXCEPT ![s] = c]
  BY DEF c
<1>3. /\ call' \in [Slots -> Call] /\ call'[s] = c
      /\ \A t \in Slots \ {s} : call'[t] = call[t]
  BY <1>1, <1>2 DEF IInv, TypeOK
<1>4. Ongoing(s)'
  BY <1>1, <1>3 DEF Ongoing, Kinds
<1> QED
  BY <1>3, <1>4, SlotFrame

LEMMA ReplyBeginIInv ==
  ASSUME IInv, NEW s \in Slots, NEW p \in Posts, NEW u \in Users, ReplyBegin(s, p, u)
  PROVE  IInv'
<1>1. crossed' \in SUBSET (Posts \X Users) /\ UNCHANGED <<rows, first>>
  BY DEF ReplyBegin, hist, IInv, TypeOK
<1> QED
  BY <1>1, BeginIInv DEF ReplyBegin

LEMMA ReactBeginIInv ==
  ASSUME IInv, NEW s \in Slots, NEW p \in Posts, NEW u \in Users, NEW kind \in Kinds,
         ReactBegin(s, p, u, kind)
  PROVE  IInv'
<1>1. crossed' \in SUBSET (Posts \X Users) /\ UNCHANGED <<rows, first>>
  <2>1. crossed' \subseteq crossed \cup {<<p, u>>} /\ UNCHANGED <<rows, first>>
    BY DEF ReactBegin
  <2> QED
    BY <2>1 DEF IInv, TypeOK
<1> QED
  BY <1>1, BeginIInv DEF ReactBegin, Kinds

LEMMA ReplyIInv ==
  ASSUME IInv, NEW s \in Slots, ReplyInsert(s) \/ ReplyCount(s)
  PROVE  IInv'
<1>1. UNCHANGED <<rows, hist>> /\ call \in [Slots -> Call] /\ Ongoing(s)
  BY DEF ReplyInsert, ReplyCount, IInv, TypeOK
<1>2. CASE call' = [call EXCEPT ![s] = Idle]
  BY <1>1, <1>2, ToIdle
<1>3. ASSUME call[s].pc = "reply", posts[call[s].post] # "deleted",
             call' = [call EXCEPT ![s].pc = "count", ![s].wrote = "created"]
      PROVE  IInv'
  <2>1. /\ call' \in [Slots -> Call] /\ \A t \in Slots \ {s} : call'[t] = call[t]
        /\ call'[s].post = call[s].post /\ call'[s].user = call[s].user
        /\ call'[s].kind = call[s].kind /\ call'[s].wrote = "created"
        /\ call'[s].pc = "count"
    <3> DEFINE c == [call[s] EXCEPT !.pc = "count", !.wrote = "created"]
    <3>1. call[s] \in Call
      BY <1>1
    <3>2. c \in Call /\ c.post = call[s].post /\ c.user = call[s].user /\ c.kind = call[s].kind
          /\ c.wrote = "created" /\ c.pc = "count"
      BY <3>1, Zenon DEF Call
    <3>3. call' = [call EXCEPT ![s] = c]
      BY <1>1, <1>3
    <3> HIDE DEF c
    <3> QED
      BY <1>1, <3>2, <3>3
  <2> QED
    BY <1>1, <1>3, <2>1, GoesOn
<1>4. CASE ReplyCount(s)
  <2>1. /\ call[s].pc = "count" /\ call' = [call EXCEPT ![s].pc = "commit"]
    BY <1>4 DEF ReplyCount
  <2>2. /\ call' \in [Slots -> Call] /\ \A t \in Slots \ {s} : call'[t] = call[t]
        /\ call'[s].post = call[s].post /\ call'[s].user = call[s].user
        /\ call'[s].kind = call[s].kind /\ call'[s].wrote = call[s].wrote
    BY <1>1, <2>1 DEF Call
  <2> QED
    BY <1>1, <2>1, <2>2, GoesOn DEF Ongoing
<1> QED
  BY <1>2, <1>3, <1>4 DEF ReplyInsert

LEMMA ReadIInv ==
  ASSUME IInv, NEW s \in Slots, ReactRead(s)
  PROVE  IInv'
<1>1. /\ UNCHANGED <<rows, hist>> /\ call \in [Slots -> Call] /\ Ongoing(s)
      /\ call[s].pc = "read"
  BY DEF ReactRead, IInv, TypeOK
<1>2. PICK n \in {"create", "flip", "commit"}, d \in Int :
        call' = [call EXCEPT ![s].pc = n, ![s].delta = d]
  <2>1. call[s].delta \in Int /\ \A k, l : reactionValue(k) - reactionValue(l) \in Int
    BY <1>1 DEF Call, reactionValue
  <2>2. ASSUME NEW n \in {"create", "commit"}, call' = [call EXCEPT ![s].pc = n]
        PROVE  call' = [call EXCEPT ![s].pc = n, ![s].delta = call[s].delta]
    BY <1>1, <2>2 DEF Call
  <2> QED
    BY <2>1, <2>2 DEF ReactRead
<1>3. /\ call' \in [Slots -> Call] /\ \A t \in Slots \ {s} : call'[t] = call[t]
      /\ call'[s].post = call[s].post /\ call'[s].user = call[s].user
      /\ call'[s].kind = call[s].kind /\ call'[s].wrote = call[s].wrote
  <2> DEFINE c == [call[s] EXCEPT !.pc = n, !.delta = d]
  <2>1. call[s] \in Call
    BY <1>1
  <2>2. c \in Call /\ c.post = call[s].post /\ c.user = call[s].user /\ c.kind = call[s].kind
        /\ c.wrote = call[s].wrote
    BY <2>1, Zenon DEF Call
  <2>3. call' = [call EXCEPT ![s] = c]
    BY <1>1, <1>2
  <2> HIDE DEF c
  <2> QED
    BY <1>1, <2>2, <2>3
<1> QED
  BY <1>1, <1>3, GoesOn DEF Ongoing

LEMMA CreateIInv ==
  ASSUME IInv, NEW s \in Slots, ReactCreate(s)
  PROVE  IInv'
<1>1. /\ UNCHANGED <<rows, hist>> /\ call \in [Slots -> Call] /\ Ongoing(s)
      /\ call[s].pc = "create"
  BY DEF ReactCreate, IInv, TypeOK
<1>2. CASE call' = [call EXCEPT ![s] = Idle]
  BY <1>1, <1>2, ToIdle
<1>3. ASSUME NEW n \in {"score", "commit"}, NEW w \in {"created", "nothing"}, NEW d \in Int,
             posts[call[s].post] # "deleted",
             call' = [call EXCEPT ![s].pc = n, ![s].wrote = w, ![s].delta = d]
      PROVE  IInv'
  <2>1. /\ call' \in [Slots -> Call] /\ \A t \in Slots \ {s} : call'[t] = call[t]
        /\ call'[s].post = call[s].post /\ call'[s].user = call[s].user
        /\ call'[s].kind = call[s].kind
    <3> DEFINE c == [call[s] EXCEPT !.pc = n, !.wrote = w, !.delta = d]
    <3>1. call[s] \in Call
      BY <1>1
    <3>2. c \in Call /\ c.post = call[s].post /\ c.user = call[s].user /\ c.kind = call[s].kind
      BY <3>1, Zenon DEF Call
    <3>3. call' = [call EXCEPT ![s] = c]
      BY <1>1, <1>3
    <3> HIDE DEF c
    <3> QED
      BY <1>1, <3>2, <3>3
  <2> QED
    BY <1>1, <1>3, <2>1, GoesOn DEF Ongoing
<1> DEFINE n == IF HandleRowsAffected > 0 THEN "score" ELSE "commit"
           w == IF reactions[call[s].post][call[s].user] = "none" THEN "created" ELSE "nothing"
           d == IF HandleRowsAffected > 0 THEN reactionValue(call[s].kind) ELSE 0
<1>4. n \in {"score", "commit"} /\ w \in {"created", "nothing"} /\ d \in Int
  BY DEF reactionValue
<1>5. \/ call' = [call EXCEPT ![s] = Idle]
      \/ /\ posts[call[s].post] # "deleted"
         /\ call' = [call EXCEPT ![s].pc = n, ![s].wrote = w, ![s].delta = d]
  BY DEF ReactCreate
<1> HIDE DEF n, w, d
<1> QED
  BY <1>2, <1>3, <1>4, <1>5

LEMMA FlipIInv ==
  ASSUME IInv, NEW s \in Slots, ReactFlip(s) \/ ReactScore(s)
  PROVE  IInv'
<1>1. /\ UNCHANGED <<rows, hist>> /\ call \in [Slots -> Call] /\ Ongoing(s)
      /\ call[s].pc \in {"flip", "score"}
  BY DEF ReactFlip, ReactScore, IInv, TypeOK
<1>2. CASE ReactFlip(s)
  <2> DEFINE w == IF reactions[call[s].post][call[s].user] = "none" THEN "nothing" ELSE "updated"
  <2>1. call' = [call EXCEPT ![s].pc = "score", ![s].wrote = w]
    BY <1>2 DEF ReactFlip
  <2>2. w # "nothing" => posts[call[s].post] # "deleted"
    BY <1>1 DEF IInv, NoOrphans, Ongoing
  <2>3. w \in {"nothing", "updated"}
    OBVIOUS
  <2> HIDE DEF w
  <2>4. /\ call' \in [Slots -> Call] /\ \A t \in Slots \ {s} : call'[t] = call[t]
        /\ call'[s].post = call[s].post /\ call'[s].user = call[s].user
        /\ call'[s].kind = call[s].kind /\ call'[s].wrote = w
    <3> DEFINE c == [call[s] EXCEPT !.pc = "score", !.wrote = w]
    <3>1. call[s] \in Call
      BY <1>1
    <3>2. c \in Call /\ c.post = call[s].post /\ c.user = call[s].user /\ c.kind = call[s].kind
          /\ c.wrote = w
      BY <3>1, <2>3, Zenon DEF Call
    <3>3. call' = [call EXCEPT ![s] = c]
      BY <1>1, <2>1
    <3> HIDE DEF c
    <3> QED
      BY <1>1, <3>2, <3>3
  <2> QED
    BY <1>1, <2>2, <2>4, GoesOn DEF Ongoing
<1>3. CASE ReactScore(s)
  <2>1. call' = [call EXCEPT ![s].pc = "commit"]
    BY <1>3 DEF ReactScore
  <2>2. /\ call' \in [Slots -> Call] /\ \A t \in Slots \ {s} : call'[t] = call[t]
        /\ call'[s].post = call[s].post /\ call'[s].user = call[s].user
        /\ call'[s].kind = call[s].kind /\ call'[s].wrote = call[s].wrote
    BY <1>1, <2>1 DEF Call
  <2> QED
    BY <1>1, <2>2, GoesOn DEF Ongoing
<1> QED
  BY <1>2, <1>3
-----------------------------------------------------------------------------
(* Steps that change the tables.                                           *)

\* Which requests are under way, and their posts, do not change.
LEMMA OngoingFrame ==
  ASSUME IInv, NEW s \in Slots, call'[s] = call[s], posts' = posts
  PROVE  Ongoing(s)'
BY DEF IInv, Ongoing

LEMMA CommitIInv ==
  ASSUME IInv, NEW s \in Slots, Commit(s)
  PROVE  IInv'
<1> USE DEF IInv
<1>1. /\ call[s].pc = "commit" /\ call' = [call EXCEPT ![s] = Idle]
      /\ CommitReply(s) \/ CommitReaction(s)
      /\ UNCHANGED <<posts, crossed>>
  BY DEF Commit
<1>2. /\ call' \in [Slots -> Call] /\ call'[s] = Idle
      /\ \A t \in Slots \ {s} : call'[t] = call[t]
  BY <1>1, IdleType DEF TypeOK
<1>3. \A t \in Slots : Ongoing(t)'
  <2>1. Ongoing(s)'
    BY <1>2 DEF Ongoing, Idle, Request
  <2> QED
    BY <1>1, <1>2, <2>1, OngoingFrame
<1> PICK p \in Posts, u \in Users, kind \in Kinds \cup {"reply"} :
      p = call[s].post /\ u = call[s].user /\ kind = call[s].kind
  BY <1>1 DEF Ongoing
<1>4. call[s].delta \in Int /\ (call[s].wrote # "nothing" => posts[p] # "deleted")
  BY <1>1 DEF Ongoing, TypeOK, Call
<1>5. CASE CommitReply(s)
  <2>1. /\ replies' = [replies EXCEPT ![p] = @ + 1]
        /\ replyCount' = [replyCount EXCEPT ![p] = @ + 1]
        /\ UNCHANGED <<reactions, score, first>>
    BY <1>5 DEF CommitReply
  <2>2. posts[p] # "deleted"
    BY <1>1, <1>4, <1>5 DEF Ongoing, CommitReply
  <2>3. TypeOK'
    BY <1>1, <1>2, <2>1 DEF TypeOK
  <2>4. ReplyCountExact' /\ NoOrphans'
    BY <1>1, <2>1, <2>2 DEF TypeOK, ReplyCountExact, NoOrphans
  <2> QED
    BY <1>3, <2>3, <2>4
<1>6. CASE CommitReaction(s)
  <2>1. /\ kind \in Kinds /\ UNCHANGED <<replies, replyCount>>
        /\ score' = IF posts[p] = "deleted" THEN score
                    ELSE [score EXCEPT ![p] = @ + call[s].delta]
        /\ \/ UNCHANGED reactions
           \/ call[s].wrote # "nothing" /\ reactions' = [reactions EXCEPT ![p][u] = kind]
        /\ \/ UNCHANGED first
           \/ first' = [first EXCEPT ![p][u] = kind]
    BY <1>6 DEF CommitReaction
  <2>2. score' \in [Posts -> Int]
    BY <1>4, <2>1 DEF TypeOK
  <2>3. /\ reactions' \in [Posts -> [Users -> Kinds \cup {"none"}]]
        /\ first' \in [Posts -> [Users -> Kinds \cup {"none"}]]
        /\ \A q \in Posts : q # p => reactions'[q] = reactions[q]
    <3>1. \A q \in Posts : /\ reactions[q] \in [Users -> Kinds \cup {"none"}]
                           /\ first[q] \in [Users -> Kinds \cup {"none"}]
      BY DEF TypeOK
    <3>2. /\ [reactions[p] EXCEPT ![u] = kind] \in [Users -> Kinds \cup {"none"}]
          /\ [first[p] EXCEPT ![u] = kind] \in [Users -> Kinds \cup {"none"}]
      BY <2>1, <3>1
    <3>3. /\ \/ reactions' = reactions
             \/ reactions' = [reactions EXCEPT ![p] = [reactions[p] EXCEPT ![u] = kind]]
          /\ \/ first' = first
             \/ first' = [first EXCEPT ![p] = [first[p] EXCEPT ![u] = kind]]
      BY <2>1
    <3>4. /\ reactions' \in [Posts -> [Users -> Kinds \cup {"none"}]]
          /\ \A q \in Posts : q # p => reactions'[q] = reactions[q]
      <4>1. reactions \in [Posts -> [Users -> Kinds \cup {"none"}]]
        BY DEF TypeOK
      <4> QED
        BY <3>2, <3>3, <4>1
    <3>5. first' \in [Posts -> [Users -> Kinds \cup {"none"}]]
      <4>1. first \in [Posts -> [Users -> Kinds \cup {"none"}]]
        BY DEF TypeOK
      <4> QED
        BY <3>2, <3>3, <4>1
    <3> QED
      BY <3>4, <3>5
  <2>4. TypeOK'
    BY <1>1, <1>2, <2>1, <2>2, <2>3 DEF TypeOK
  <2>5. ReplyCountExact'
    BY <2>1 DEF ReplyCountExact
  <2>6. NoOrphans'
    BY <1>1, <1>4, <2>1, <2>3 DEF NoOrphans
  <2> QED
    BY <1>3, <2>4, <2>5, <2>6
<1> QED
  BY <1>1, <1>5, <1>6

LEMMA DeleteIInv ==
  ASSUME IInv, NEW p \in Posts, DeleteByAuthor(p)
  PROVE  IInv'
<1> USE DEF IInv
<1>1. /\ \A s \in Slots : ~Pins(s, p)
      /\ posts' = [posts EXCEPT ![p] = "deleted"]
      /\ replies' = [replies EXCEPT ![p] = 0] /\ replyCount' = [replyCount EXCEPT ![p] = 0]
      /\ reactions' = [reactions EXCEPT ![p] = [u \in Users |-> "none"]]
      /\ score' = [score EXCEPT ![p] = 0]
      /\ UNCHANGED <<call, first, crossed>>
  BY DEF DeleteByAuthor, hist
<1>2. TypeOK'
  BY <1>1 DEF TypeOK
<1>3. ASSUME NEW s \in Slots PROVE Ongoing(s)'
  BY <1>1 DEF TypeOK, Ongoing, Pins
<1>4. ReplyCountExact' /\ NoOrphans'
  BY <1>1 DEF TypeOK, ReplyCountExact, NoOrphans
<1> QED
  BY <1>2, <1>3, <1>4

LEMMA HideIInv ==
  ASSUME IInv, NEW p \in Posts, SetHidden(p)
  PROVE  IInv'
<1> USE DEF IInv
<1>1. /\ posts[p] # "deleted" /\ posts' = [posts EXCEPT ![p] = "hidden"]
      /\ UNCHANGED <<replies, replyCount, reactions, score, call, first, crossed>>
  BY DEF SetHidden, hist
<1>2. TypeOK'
  BY <1>1 DEF TypeOK
<1>3. ASSUME NEW s \in Slots PROVE Ongoing(s)'
  BY <1>1 DEF TypeOK, Ongoing
<1>4. ReplyCountExact' /\ NoOrphans'
  BY <1>1 DEF TypeOK, ReplyCountExact, NoOrphans
<1> QED
  BY <1>2, <1>3, <1>4

LEMMA NextIInv == IInv /\ [Next]_vars => IInv'
<1> SUFFICES ASSUME IInv, [Next]_vars PROVE IInv'
  OBVIOUS
<1>1. CASE UNCHANGED vars
  BY <1>1 DEF vars, rows, hist, IInv, TypeOK, Ongoing, ReplyCountExact, NoOrphans
<1>2. ASSUME NEW s \in Slots, NEW p \in Posts, NEW u \in Users, ReplyBegin(s, p, u) PROVE IInv'
  BY <1>2, ReplyBeginIInv
<1>3. ASSUME NEW s \in Slots, NEW p \in Posts, NEW u \in Users, NEW kind \in Kinds,
             ReactBegin(s, p, u, kind)
      PROVE  IInv'
  BY <1>3, ReactBeginIInv
<1>4. ASSUME NEW s \in Slots, ReplyInsert(s) \/ ReplyCount(s) PROVE IInv'
  BY <1>4, ReplyIInv
<1>5. ASSUME NEW s \in Slots, ReactRead(s) PROVE IInv'
  BY <1>5, ReadIInv
<1>6. ASSUME NEW s \in Slots, ReactCreate(s) PROVE IInv'
  BY <1>6, CreateIInv
<1>7. ASSUME NEW s \in Slots, ReactFlip(s) \/ ReactScore(s) PROVE IInv'
  BY <1>7, FlipIInv
<1>8. ASSUME NEW s \in Slots, Commit(s) PROVE IInv'
  BY <1>8, CommitIInv
<1>9. ASSUME NEW s \in Slots, Fail(s) PROVE IInv'
  BY <1>9, ToIdle DEF Fail
<1>10. ASSUME NEW p \in Posts, DeleteByAuthor(p) PROVE IInv'
  BY <1>10, DeleteIInv
<1>11. ASSUME NEW p \in Posts, SetHidden(p) PROVE IInv'
  BY <1>11, HideIInv
<1> QED
  BY <1>1, <1>2, <1>3, <1>4, <1>5, <1>6, <1>7, <1>8, <1>9, <1>10, <1>11 DEF Next
-----------------------------------------------------------------------------
(***************************************************************************)
(* The inductive invariant of replies and reactions: what a request has    *)
(* written at each of its statements, and the post it keeps.               *)
(***************************************************************************)
THEOREM EngagementInv == Spec => []IInv
<1> QED
  BY InitIInv, NextIInv, PTL DEF Spec

(***************************************************************************)
(* The tables and the requests of Post keep their types.                   *)
(***************************************************************************)
THEOREM EngagementTypeOK == Spec => []TypeOK
<1>1. IInv => TypeOK
  BY DEF IInv
<1> QED
  BY <1>1, EngagementInv, PTL

(***************************************************************************)
(* reply_count of CreateReply is the number of rows in replies.            *)
(***************************************************************************)
THEOREM EngagementReplyCountExact == Spec => []ReplyCountExact
<1>1. IInv => ReplyCountExact
  BY DEF IInv
<1> QED
  BY <1>1, EngagementInv, PTL

(***************************************************************************)
(* No row of a reply or a reaction outlives its post.                      *)
(***************************************************************************)
THEOREM EngagementNoOrphans == Spec => []NoOrphans
<1>1. IInv => NoOrphans
  BY DEF IInv
<1> QED
  BY <1>1, EngagementInv, PTL
-----------------------------------------------------------------------------
(***************************************************************************)
(* The score. A user whose requests have not overlapped has at most one of *)
(* them under way, so that what it has read of the user's row is still     *)
(* what it will find, and what it adds to the score is what the row gains. *)
(***************************************************************************)

\* Who has a row of a kind, the rows when one of them is set, and the worth of
\* a row.
Having(f, kind) == {u \in Users : f[u] = kind}

Put(f, u, kind) == [f EXCEPT ![u] = kind]

One(kind, k) == IF kind = k THEN 1 ELSE 0

Value(kind) == IF kind = "none" THEN 0 ELSE reactionValue(kind)

LEMMA HavingFinite ==
  ASSUME NEW f, NEW kind
  PROVE  IsFiniteSet(Having(f, kind)) /\ Cardinality(Having(f, kind)) \in Nat
<1>1. Having(f, kind) \in SUBSET Users
  BY DEF Having
<1> QED
  BY <1>1, FS_Subset, FS_CardinalityType

\* One user's row takes a kind: that kind has the user, no other has.
LEMMA HavingMove ==
  ASSUME NEW f \in [Users -> Kinds \cup {"none"}], NEW u \in Users,
         NEW kind \in Kinds, NEW k \in Kinds
  PROVE  Cardinality(Having(Put(f, u, kind), k)) =
           Cardinality(Having(f, k)) + One(kind, k) - One(f[u], k)
<1> DEFINE H == Having(f, k)
           G == Having(Put(f, u, kind), k)
<1>1. IsFiniteSet(H) /\ Cardinality(H) \in Nat /\ (u \in H <=> f[u] = k)
  <2>1. u \in H <=> f[u] = k
    BY DEF Having
  <2> QED
    BY <2>1, HavingFinite
<1>2. CASE kind = k
  <2>1. G = H \cup {u}
    BY <1>2 DEF Having, Put
  <2> HIDE DEF G, H
  <2>2. Cardinality(G) = IF u \in H THEN Cardinality(H) ELSE Cardinality(H) + 1
    BY <1>1, <2>1, FS_AddElement
  <2>3. Cardinality(G) = Cardinality(H) + One(kind, k) - One(f[u], k)
    BY <1>1, <1>2, <2>2 DEF One
  <2> QED
    BY <2>3 DEF G, H
<1>3. CASE kind # k
  <2>1. G = H \ {u}
    BY <1>3 DEF Having, Put
  <2> HIDE DEF G, H
  <2>2. Cardinality(G) = IF u \in H THEN Cardinality(H) - 1 ELSE Cardinality(H)
    BY <1>1, <2>1, FS_RemoveElement
  <2>3. Cardinality(G) = Cardinality(H) + One(kind, k) - One(f[u], k)
    BY <1>1, <1>3, <2>2 DEF One
  <2> QED
    BY <2>3 DEF G, H
<1> QED
  BY <1>2, <1>3

LEMMA TallyType ==
  ASSUME NEW f
  PROVE  Tally(f) \in Int
<1>1. Tally(f) = Cardinality(Having(f, "upvote")) - Cardinality(Having(f, "downvote"))
  BY DEF Tally, Having
<1>2. \A k : Cardinality(Having(f, k)) \in Nat
  BY HavingFinite
<1> QED
  BY <1>1, <1>2

\* A change of one row changes the tally by the difference of the values.
LEMMA TallyMove ==
  ASSUME NEW f \in [Users -> Kinds \cup {"none"}], NEW u \in Users, NEW kind \in Kinds
  PROVE  Tally([f EXCEPT ![u] = kind]) = Tally(f) + Value(kind) - Value(f[u])
<1> DEFINE g == Put(f, u, kind)
           N(h, k) == Cardinality(Having(h, k))
<1>1. Tally(f) = N(f, "upvote") - N(f, "downvote") /\ Tally(g) = N(g, "upvote") - N(g, "downvote")
  BY DEF Tally, Having
<1>2. \A k \in Kinds : N(g, k) = N(f, k) + One(kind, k) - One(f[u], k)
  BY HavingMove
<1>3. \A k \in Kinds : N(f, k) \in Nat
  BY HavingFinite
<1>4. f[u] \in Kinds \cup {"none"}
  OBVIOUS
<1> HIDE DEF g, N
<1>5. Tally(g) = Tally(f) + Value(kind) - Value(f[u])
  BY <1>1, <1>2, <1>3, <1>4 DEF Kinds, One, Value, reactionValue
<1> QED
  BY <1>5 DEF g, Put

LEMMA TallyNone == Tally([u \in Users |-> "none"]) = 0
<1> DEFINE f == [u \in Users |-> "none"]
<1>1. {u \in Users : f[u] = "upvote"} = {} /\ {u \in Users : f[u] = "downvote"} = {}
  OBVIOUS
<1> QED
  BY <1>1, FS_EmptySet DEF Tally
-----------------------------------------------------------------------------
\* A user without a row for a post that is kept has never had one.
FirstHasRow ==
  \A p \in Posts, u \in Users :
    posts[p] # "deleted" /\ reactions[p][u] = "none" => first[p][u] = "none"

\* A request that reacts is at a statement of React.
Reacts(s) ==
  call[s].kind \in Kinds => call[s].pc \in {"read", "create", "flip", "score", "commit"}

\* The request in slot s reacts, alone for its user and its post.
Lonely(s) == call[s].kind \in Kinds /\ <<call[s].post, call[s].user>> \notin crossed

Alone(s) ==
  Lonely(s) => \A t \in Slots \ {s} :
    ~(call[t].kind \in Kinds /\ call[t].post = call[s].post /\ call[t].user = call[s].user)

\* It changes the row from another kind, and the score by the difference.
Changes(s) ==
  LET row == reactions[call[s].post][call[s].user]
  IN  /\ row \in Kinds \ {call[s].kind}
      /\ call[s].delta = Value(call[s].kind) - Value(row)

\* What it has written and what it will add, at each of its statements.
Steady(s) ==
  LET c == call[s]
      row == reactions[c.post][c.user]
  IN  Lonely(s) /\ posts[c.post] # "deleted" =>
        /\ c.pc = "create" \/ c.wrote = "created" => row = "none"
        /\ c.pc \in {"read", "create", "flip"} => c.wrote = "nothing"
        /\ c.pc = "score" => c.wrote = "updated"
        /\ IF c.pc = "flip" \/ c.wrote = "updated" THEN Changes(s) ELSE c.delta = 0

FlipInv ==
  /\ FirstHasRow
  /\ \A s \in Slots : Reacts(s) /\ Alone(s) /\ Steady(s)
  /\ ScoreFollowsFlips

LEMMA InitFlipInv == Init => FlipInv
<1> SUFFICES ASSUME Init PROVE FlipInv
  OBVIOUS
<1>1. FirstHasRow
  BY DEF Init, FirstHasRow
<1>2. ASSUME NEW s \in Slots PROVE Reacts(s) /\ Alone(s) /\ Steady(s)
  BY DEF Init, Reacts, Alone, Steady, Lonely, Idle, Request, Kinds
<1>3. ScoreFollowsFlips
  BY TallyNone DEF Init, ScoreFollowsFlips
<1> QED
  BY <1>1, <1>2, <1>3 DEF FlipInv

\* A statement changes the request of one slot, which goes on or ends.
LEMMA SlotFlip ==
  ASSUME FlipInv, NEW s \in Slots, UNCHANGED <<posts, reactions, score, hist>>,
         \A t \in Slots \ {s} : call'[t] = call[t],
         \/ call'[s] = Idle
         \/ /\ call'[s].kind = call[s].kind /\ call'[s].post = call[s].post
            /\ call'[s].user = call[s].user
            /\ call[s].kind \in Kinds => Reacts(s)' /\ Steady(s)'
  PROVE  FlipInv'
<1>1. /\ posts' = posts /\ reactions' = reactions /\ score' = score
      /\ first' = first /\ crossed' = crossed
  BY DEF hist
<1>2. FirstHasRow' /\ ScoreFollowsFlips'
  BY <1>1 DEF FlipInv, FirstHasRow, ScoreFollowsFlips, Tally
<1>3. Idle.kind \notin Kinds
  BY DEF Idle, Request, Kinds
<1>4. ASSUME NEW t \in Slots PROVE Alone(t)'
  BY <1>1, <1>3 DEF FlipInv, Alone, Lonely
<1>5. ASSUME NEW t \in Slots PROVE Reacts(t)' /\ Steady(t)'
  <2>1. CASE t = s
    BY <1>3, <2>1 DEF Reacts, Steady, Lonely
  <2>2. CASE t # s
    <3>1. call'[t] = call[t] /\ Reacts(t) /\ Steady(t)
      BY <2>2 DEF FlipInv
    <3> QED
      BY <1>1, <3>1 DEF Reacts, Steady, Lonely, Changes
  <2> QED
    BY <2>1, <2>2
<1> QED
  BY <1>2, <1>4, <1>5 DEF FlipInv

\* The request in slot s goes on to statement n.
Moves(s, n, w, d) ==
  /\ \A t \in Slots \ {s} : call'[t] = call[t]
  /\ call'[s].post = call[s].post /\ call'[s].user = call[s].user /\ call'[s].kind = call[s].kind
  /\ call'[s].pc = n /\ call'[s].wrote = w /\ call'[s].delta = d

LEMMA MovesForm ==
  ASSUME call \in [Slots -> Call], NEW s \in Slots, NEW n, NEW w, NEW d,
         call' = [call EXCEPT ![s].pc = n, ![s].wrote = w, ![s].delta = d]
  PROVE  Moves(s, n, w, d)
<1> DEFINE c == [call[s] EXCEPT !.pc = n, !.wrote = w, !.delta = d]
<1>1. /\ c.post = call[s].post /\ c.user = call[s].user /\ c.kind = call[s].kind
      /\ c.pc = n /\ c.wrote = w /\ c.delta = d
  <2>1. call[s] \in Call
    OBVIOUS
  <2> QED
    BY <2>1, Zenon DEF Call
<1>2. call' = [call EXCEPT ![s] = c]
  OBVIOUS
<1> HIDE DEF c
<1> QED
  BY <1>1, <1>2 DEF Moves

LEMMA MovesForms ==
  ASSUME call \in [Slots -> Call], NEW s \in Slots
  PROVE  /\ \A n : call' = [call EXCEPT ![s].pc = n] =>
                     Moves(s, n, call[s].wrote, call[s].delta)
         /\ \A n, w : call' = [call EXCEPT ![s].pc = n, ![s].wrote = w] =>
                        Moves(s, n, w, call[s].delta)
         /\ \A n, d : call' = [call EXCEPT ![s].pc = n, ![s].delta = d] =>
                        Moves(s, n, call[s].wrote, d)
<1> DEFINE Form(n, w, d) == call' = [call EXCEPT ![s].pc = n, ![s].wrote = w, ![s].delta = d]
<1>1. ASSUME NEW n, call' = [call EXCEPT ![s].pc = n]
      PROVE  Form(n, call[s].wrote, call[s].delta)
  BY <1>1 DEF Call
<1>2. ASSUME NEW n, NEW w, call' = [call EXCEPT ![s].pc = n, ![s].wrote = w]
      PROVE  Form(n, w, call[s].delta)
  BY <1>2 DEF Call
<1>3. ASSUME NEW n, NEW d, call' = [call EXCEPT ![s].pc = n, ![s].delta = d]
      PROVE  Form(n, call[s].wrote, d)
  BY <1>3 DEF Call
<1>4. \A n, w, d : Form(n, w, d) => Moves(s, n, w, d)
  BY MovesForm
<1> HIDE DEF Form
<1> QED
  BY <1>1, <1>2, <1>3, <1>4

LEMMA EndFlip ==
  ASSUME IInv, FlipInv, NEW s \in Slots, UNCHANGED <<posts, reactions, score, hist>>,
         call' = [call EXCEPT ![s] = Idle]
  PROVE  FlipInv'
<1>1. call'[s] = Idle /\ \A t \in Slots \ {s} : call'[t] = call[t]
  BY DEF IInv, TypeOK
<1> QED
  BY <1>1, SlotFlip

LEMMA MoveFlip ==
  ASSUME IInv, FlipInv, NEW s \in Slots, UNCHANGED <<rows, hist>>,
         NEW n, NEW w, NEW d, Moves(s, n, w, d),
         call[s].kind \in Kinds =>
           n \in {"read", "create", "flip", "score", "commit"} /\ Steady(s)'
  PROVE  FlipInv'
<1>1. call[s].kind \in Kinds => Reacts(s)' /\ Steady(s)'
  BY DEF Moves, Reacts
<1>2. UNCHANGED <<posts, reactions, score, hist>>
  BY DEF rows
<1> QED
  BY <1>1, <1>2, SlotFlip DEF Moves

\* A reply does not react.
LEMMA ReplyFlip ==
  ASSUME IInv, FlipInv, NEW s \in Slots, ReplyInsert(s) \/ ReplyCount(s)
  PROVE  FlipInv'
<1>1. /\ UNCHANGED <<rows, hist>> /\ UNCHANGED <<posts, reactions, score, hist>>
      /\ call \in [Slots -> Call] /\ call[s].kind \notin Kinds
  BY DEF ReplyInsert, ReplyCount, rows, IInv, TypeOK, FlipInv, Reacts
<1>2. \/ Moves(s, "commit", call[s].wrote, call[s].delta)
      \/ Moves(s, "count", "created", call[s].delta)
      \/ call' = [call EXCEPT ![s] = Idle]
  BY <1>1, MovesForms DEF ReplyInsert, ReplyCount
<1> QED
  BY <1>1, <1>2, EndFlip, MoveFlip

\* Who begins to react while his last request is under way has crossed it.
LEMMA BeginFlip ==
  ASSUME IInv, FlipInv, NEW s \in Slots, NEW p \in Posts, NEW u \in Users,
         \/ ReplyBegin(s, p, u)
         \/ \E kind \in Kinds : ReactBegin(s, p, u, kind)
  PROVE  FlipInv'
<1>1. /\ posts' = posts /\ reactions' = reactions /\ score' = score /\ first' = first
      /\ crossed \subseteq crossed'
  BY DEF ReplyBegin, ReactBegin, rows, hist
<1>2. FirstHasRow'
  BY <1>1 DEF FlipInv, FirstHasRow
<1>3. ScoreFollowsFlips'
  <2> SUFFICES ASSUME NEW q \in Posts, posts[q] # "deleted",
                      \A v \in Users : <<q, v>> \notin crossed
               PROVE  (score[q] = Tally(reactions[q]) - Tally(first[q]))'
    BY <1>1 DEF ScoreFollowsFlips
  <2>1. score[q] = Tally(reactions[q]) - Tally(first[q])
    BY DEF FlipInv, ScoreFollowsFlips
  <2> QED
    BY <1>1, <2>1 DEF Tally
<1>4. PICK pc \in {"reply", "read"}, kind \in Kinds \cup {"reply"} :
        /\ call' = [call EXCEPT ![s] = Request(pc, p, u, kind)]
        /\ pc = "read" <=> kind \in Kinds
        /\ kind \in Kinds /\ Reacting(p, u) => <<p, u>> \in crossed'
  BY DEF ReplyBegin, ReactBegin, Kinds
<1>5. /\ \A t \in Slots \ {s} : call'[t] = call[t]
      /\ call'[s].post = p /\ call'[s].user = u /\ call'[s].kind = kind
      /\ call'[s].pc = pc /\ call'[s].wrote = "nothing" /\ call'[s].delta = 0
  BY <1>4 DEF IInv, TypeOK, Request
<1>6. ASSUME NEW t \in Slots PROVE Alone(t)'
  <2>1. CASE t = s
    BY <1>4, <1>5, <2>1 DEF Alone, Lonely, Reacting
  <2>2. CASE t # s
    <3> SUFFICES ASSUME Lonely(t)', NEW r \in Slots \ {t}, call'[r].kind \in Kinds,
                        call'[r].post = call'[t].post, call'[r].user = call'[t].user
                 PROVE  FALSE
      BY DEF Alone
    <3>1. call'[t] = call[t] /\ Lonely(t) /\ Alone(t)
      BY <1>1, <1>5, <2>2 DEF Lonely, FlipInv
    <3>2. r = s
      BY <1>5, <3>1 DEF Alone
    <3>3. Reacting(p, u) /\ kind \in Kinds
      BY <1>5, <3>1, <3>2 DEF Reacting, Lonely
    <3> QED
      BY <1>4, <1>5, <3>1, <3>2, <3>3 DEF Lonely
  <2> QED
    BY <2>1, <2>2
<1>7. ASSUME NEW t \in Slots PROVE Reacts(t)' /\ Steady(t)'
  <2>1. CASE t = s
    BY <1>4, <1>5, <2>1 DEF Reacts, Steady, Lonely
  <2>2. CASE t # s
    <3>1. call'[t] = call[t] /\ Reacts(t) /\ Steady(t)
      BY <1>5, <2>2 DEF FlipInv
    <3> QED
      BY <1>1, <3>1 DEF Reacts, Steady, Lonely, Changes
  <2> QED
    BY <2>1, <2>2
<1> QED
  BY <1>2, <1>3, <1>6, <1>7 DEF FlipInv

LEMMA ReadFlip ==
  ASSUME IInv, FlipInv, NEW s \in Slots, ReactRead(s)
  PROVE  FlipInv'
<1> DEFINE row == reactions[call[s].post][call[s].user]
<1>1. /\ UNCHANGED <<rows, hist>> /\ call \in [Slots -> Call] /\ Steady(s)
      /\ call[s].pc = "read"
  BY DEF ReactRead, IInv, TypeOK, FlipInv
<1>2. \/ row = "none" /\ Moves(s, "create", call[s].wrote, call[s].delta)
      \/ /\ row \in Kinds \ {call[s].kind}
         /\ Moves(s, "flip", call[s].wrote,
                  reactionValue(call[s].kind) - reactionValue(row))
      \/ Moves(s, "commit", call[s].wrote, call[s].delta)
  BY <1>1, MovesForms DEF ReactRead
<1>3. Steady(s)'
  BY <1>1, <1>2 DEF Steady, Lonely, Changes, Value, Moves, rows, hist, Kinds
<1> QED
  BY <1>1, <1>2, <1>3, MoveFlip

LEMMA CreateFlip ==
  ASSUME IInv, FlipInv, NEW s \in Slots, ReactCreate(s)
  PROVE  FlipInv'
<1> DEFINE w == IF reactions[call[s].post][call[s].user] = "none" THEN "created" ELSE "nothing"
<1>1. /\ UNCHANGED <<rows, hist>> /\ call \in [Slots -> Call] /\ Steady(s)
      /\ call[s].pc = "create"
  BY DEF ReactCreate, IInv, TypeOK, FlipInv
<1>2. \/ call' = [call EXCEPT ![s] = Idle]
      \/ Moves(s, "commit", w, 0)
  <2>1. ~(HandleRowsAffected > 0)
    BY DEF HandleRowsAffected
  <2>2. \/ call' = [call EXCEPT ![s] = Idle]
        \/ call' = [call EXCEPT ![s].pc = "commit", ![s].wrote = w, ![s].delta = 0]
    BY <2>1 DEF ReactCreate
  <2> HIDE DEF w
  <2> QED
    BY <1>1, <2>2, MovesForm
<1>3. ASSUME Moves(s, "commit", w, 0) PROVE Steady(s)'
  BY <1>1, <1>3 DEF Steady, Lonely, Moves, rows, hist
<1>4. UNCHANGED <<posts, reactions, score, hist>>
  BY <1>1 DEF rows
<1> HIDE DEF w
<1> QED
  BY <1>1, <1>2, <1>3, <1>4, EndFlip, MoveFlip

LEMMA FlipFlip ==
  ASSUME IInv, FlipInv, NEW s \in Slots, ReactFlip(s)
  PROVE  FlipInv'
<1> DEFINE w == IF reactions[call[s].post][call[s].user] = "none" THEN "nothing" ELSE "updated"
<1>1. /\ UNCHANGED <<rows, hist>> /\ call \in [Slots -> Call] /\ Steady(s)
      /\ call[s].pc = "flip"
  BY DEF ReactFlip, IInv, TypeOK, FlipInv
<1>2. Moves(s, "score", w, call[s].delta)
  <2>1. call' = [call EXCEPT ![s].pc = "score", ![s].wrote = w]
    BY DEF ReactFlip
  <2> HIDE DEF w
  <2> QED
    BY <1>1, <2>1, MovesForms
<1>3. Steady(s)'
  BY <1>1, <1>2 DEF Steady, Lonely, Changes, Moves, rows, hist, Kinds
<1> HIDE DEF w
<1> QED
  BY <1>1, <1>2, <1>3, MoveFlip

LEMMA ScoreFlip ==
  ASSUME IInv, FlipInv, NEW s \in Slots, ReactScore(s)
  PROVE  FlipInv'
<1>1. /\ UNCHANGED <<rows, hist>> /\ call \in [Slots -> Call] /\ Steady(s)
      /\ call[s].pc = "score"
  BY DEF ReactScore, IInv, TypeOK, FlipInv
<1>2. Moves(s, "commit", call[s].wrote, call[s].delta)
  BY <1>1, MovesForms DEF ReactScore
<1>3. Steady(s)'
  BY <1>1, <1>2 DEF Steady, Lonely, Changes, Moves, rows, hist
<1> QED
  BY <1>1, <1>2, <1>3, MoveFlip

LEMMA CommitFlip ==
  ASSUME IInv, FlipInv, NEW s \in Slots, Commit(s)
  PROVE  FlipInv'
<1>1. /\ call[s].pc = "commit" /\ call' = [call EXCEPT ![s] = Idle]
      /\ CommitReply(s) \/ CommitReaction(s)
      /\ posts' = posts /\ crossed' = crossed /\ Ongoing(s)
  BY DEF Commit, IInv
<1>2. CASE CommitReply(s)
  <2>1. UNCHANGED <<posts, reactions, score, hist>>
    BY <1>1, <1>2 DEF CommitReply, hist
  <2> QED
    BY <1>1, <2>1, EndFlip
<1>3. CASE CommitReaction(s)
  <2> PICK p \in Posts, u \in Users, k \in Kinds :
        p = call[s].post /\ u = call[s].user /\ k = call[s].kind
    BY <1>1, <1>3 DEF Ongoing, CommitReaction
  <2> DEFINE w == call[s].wrote
             d == call[s].delta
             Written(f) == [f EXCEPT ![p] = [f[p] EXCEPT ![u] = k]]
  <2>1. /\ call'[s] = Idle /\ \A t \in Slots \ {s} : call'[t] = call[t]
        /\ Idle.kind \notin Kinds /\ k # "none"
    BY <1>1 DEF IInv, TypeOK, Idle, Request, Kinds
  <2>2. /\ reactions \in [Posts -> [Users -> Kinds \cup {"none"}]]
        /\ first \in [Posts -> [Users -> Kinds \cup {"none"}]]
        /\ score \in [Posts -> Int] /\ d \in Int
    BY DEF IInv, TypeOK, Call
  <2>3. /\ score' = IF posts[p] = "deleted" THEN score ELSE [score EXCEPT ![p] = @ + d]
        /\ \/ w = "nothing" /\ reactions' = reactions /\ first' = first
           \/ w = "updated" /\ reactions' = Written(reactions) /\ first' = first
           \/ w = "created" /\ reactions' = Written(reactions) /\ first' = Written(first)
    BY <1>3 DEF CommitReaction
  <2> HIDE DEF w, d
  <2>4. /\ \A q \in Posts, v \in Users : q # p \/ v # u =>
             reactions'[q][v] = reactions[q][v] /\ first'[q][v] = first[q][v]
        /\ \A q \in Posts : q # p => /\ reactions'[q] = reactions[q] /\ first'[q] = first[q]
                                     /\ score'[q] = score[q]
        /\ w # "nothing" => reactions'[p] = [reactions[p] EXCEPT ![u] = k]
        /\ w = "created" => first'[p] = [first[p] EXCEPT ![u] = k]
        /\ w # "created" => first'[p] = first[p]
        /\ w = "nothing" => reactions'[p] = reactions[p]
    BY <2>2, <2>3
  <2>5. FirstHasRow'
    <3> SUFFICES ASSUME NEW q \in Posts, NEW v \in Users, posts[q] # "deleted",
                        reactions'[q][v] = "none"
                 PROVE  first'[q][v] = "none"
      BY <1>1 DEF FirstHasRow
    <3>1. CASE q # p \/ v # u
      BY <2>4, <3>1 DEF FlipInv, FirstHasRow
    <3>2. CASE q = p /\ v = u
      <4>1. w = "nothing"
        BY <2>1, <2>2, <2>4, <3>2
      <4> QED
        BY <2>3, <4>1 DEF FlipInv, FirstHasRow
    <3> QED
      BY <3>1, <3>2
  <2>6. ASSUME NEW t \in Slots PROVE Reacts(t)' /\ Alone(t)'
    BY <1>1, <2>1 DEF FlipInv, Reacts, Alone, Lonely
  <2>7. ASSUME NEW t \in Slots PROVE Steady(t)'
    <3>1. CASE t = s
      BY <2>1, <3>1 DEF Steady, Lonely
    <3>2. CASE t # s
      <4> SUFFICES ASSUME Lonely(t)
                   PROVE  Steady(t)'
        BY <1>1, <2>1, <3>2 DEF Steady, Lonely
      <4>1. call'[t] = call[t] /\ Steady(t)
        BY <2>1, <3>2 DEF FlipInv
      <4>2. call[t].post \in Posts /\ call[t].user \in Users
        BY DEF FlipInv, Reacts, Lonely, IInv, Ongoing
      <4>3. call[t].post # p \/ call[t].user # u
        BY <3>2 DEF FlipInv, Alone
      <4>4. reactions'[call[t].post][call[t].user] = reactions[call[t].post][call[t].user]
        BY <2>4, <4>2, <4>3
      <4> QED
        BY <1>1, <4>1, <4>4 DEF Steady, Lonely, Changes
    <3> QED
      BY <3>1, <3>2
  <2>8. ScoreFollowsFlips'
    <3> SUFFICES ASSUME NEW q \in Posts, posts[q] # "deleted",
                        \A v \in Users : <<q, v>> \notin crossed
                 PROVE  score'[q] = Tally(reactions'[q]) - Tally(first'[q])
      BY <1>1 DEF ScoreFollowsFlips, Tally
    <3>1. score[q] = Tally(reactions[q]) - Tally(first[q])
      BY DEF FlipInv, ScoreFollowsFlips
    <3>2. CASE q # p
      BY <2>4, <3>1, <3>2
    <3>3. CASE q = p
      <4>1. /\ score'[p] = score[p] + d
            /\ w = "nothing" => d = 0
            /\ w = "updated" => d = Value(k) - Value(reactions[p][u])
            /\ w = "created" => d = 0 /\ reactions[p][u] = "none" /\ first[p][u] = "none"
        <5>1. Lonely(s) /\ Steady(s) /\ FirstHasRow
          BY <3>3 DEF FlipInv, Lonely
        <5> QED
          BY <1>1, <2>2, <2>3, <3>3, <5>1 DEF Steady, Changes, FirstHasRow, w, d
      <4>2. /\ Tally(reactions[p]) \in Int /\ Tally(first[p]) \in Int
            /\ Tally([reactions[p] EXCEPT ![u] = k])
                 = Tally(reactions[p]) + Value(k) - Value(reactions[p][u])
            /\ Tally([first[p] EXCEPT ![u] = k])
                 = Tally(first[p]) + Value(k) - Value(first[p][u])
        BY <2>2, TallyType, TallyMove
      <4>3. /\ Value(k) \in Int /\ Value(reactions[p][u]) \in Int
            /\ Value("none") = 0 /\ score[p] \in Int
        BY <2>2 DEF Value, reactionValue
      <4>4. w \in {"nothing", "updated", "created"}
        BY <2>3
      <4> DEFINE tr == Tally(reactions[p])
                 tf == Tally(first[p])
                 gain == Value(k) - Value(reactions[p][u])
      <4>5. /\ Tally(reactions'[p]) = IF w = "nothing" THEN tr ELSE tr + gain
            /\ Tally(first'[p]) = IF w = "created" THEN tf + gain ELSE tf
        <5>1. w # "nothing" => Tally(reactions'[p]) = tr + gain
          BY <2>4, <4>2, <4>3
        <5>2. w = "created" => Tally(first'[p]) = tf + gain
          BY <2>4, <4>1, <4>2, <4>3
        <5> QED
          BY <2>4, <5>1, <5>2
      <4>6. /\ score'[p] = score[p] + d /\ score[p] = tr - tf
            /\ tr \in Int /\ tf \in Int /\ gain \in Int /\ score[p] \in Int
            /\ d = IF w = "updated" THEN gain ELSE 0
        BY <3>1, <3>3, <4>1, <4>2, <4>3, <4>4
      <4> HIDE DEF tr, tf, gain
      <4>7. score'[p] = Tally(reactions'[p]) - Tally(first'[p])
        BY <4>4, <4>5, <4>6
      <4> QED
        BY <3>3, <4>7
    <3> QED
      BY <3>2, <3>3
  <2> QED
    BY <2>5, <2>6, <2>7, <2>8 DEF FlipInv
<1> QED
  BY <1>1, <1>2, <1>3

\* A post is deleted with its rows, or hidden.
LEMMA PostFlip ==
  ASSUME IInv, FlipInv, NEW p \in Posts, DeleteByAuthor(p) \/ SetHidden(p)
  PROVE  FlipInv'
<1>1. /\ call' = call /\ first' = first /\ crossed' = crossed
      /\ posts'[p] # "deleted" => /\ posts[p] # "deleted" /\ reactions' = reactions
                                  /\ score' = score
      /\ \A q \in Posts : q # p => /\ posts'[q] = posts[q] /\ reactions'[q] = reactions[q]
                                   /\ score'[q] = score[q]
  BY DEF DeleteByAuthor, SetHidden, hist, IInv, TypeOK
<1>2. FirstHasRow'
  BY <1>1 DEF FlipInv, FirstHasRow
<1>3. ScoreFollowsFlips'
  <2> SUFFICES ASSUME NEW q \in Posts, posts'[q] # "deleted",
                      \A u \in Users : <<q, u>> \notin crossed
               PROVE  score'[q] = Tally(reactions'[q]) - Tally(first'[q])
    BY <1>1 DEF ScoreFollowsFlips, Tally
  <2>1. /\ posts[q] # "deleted" /\ reactions'[q] = reactions[q] /\ first'[q] = first[q]
        /\ score'[q] = score[q]
    BY <1>1
  <2>2. score[q] = Tally(reactions[q]) - Tally(first[q])
    BY <2>1 DEF FlipInv, ScoreFollowsFlips
  <2> QED
    BY <2>1, <2>2
<1>4. ASSUME NEW s \in Slots PROVE Reacts(s)' /\ Alone(s)'
  BY <1>1 DEF FlipInv, Reacts, Alone, Lonely
<1>5. ASSUME NEW s \in Slots PROVE Steady(s)'
  <2> SUFFICES ASSUME Lonely(s), posts'[call[s].post] # "deleted"
               PROVE  Steady(s)'
    BY <1>1 DEF Steady, Lonely
  <2>1. call[s].post \in Posts /\ Steady(s)
    BY DEF FlipInv, Reacts, Lonely, IInv, Ongoing
  <2>2. /\ posts[call[s].post] # "deleted"
        /\ reactions'[call[s].post] = reactions[call[s].post]
    BY <1>1, <2>1
  <2> QED
    BY <1>1, <2>1, <2>2 DEF Steady, Lonely, Changes
<1> QED
  BY <1>2, <1>3, <1>4, <1>5 DEF FlipInv

LEMMA NextFlipInv == IInv /\ FlipInv /\ [Next]_vars => FlipInv'
<1> SUFFICES ASSUME IInv, FlipInv, [Next]_vars PROVE FlipInv'
  OBVIOUS
<1>1. CASE UNCHANGED vars
  <2>1. /\ posts' = posts /\ reactions' = reactions /\ score' = score /\ call' = call
        /\ first' = first /\ crossed' = crossed
    BY <1>1 DEF vars, rows, hist
  <2> QED
    BY <2>1 DEF FlipInv, FirstHasRow, Reacts, Alone, Steady, Lonely, Changes,
                ScoreFollowsFlips, Tally
<1>2. ASSUME NEW s \in Slots, NEW p \in Posts, NEW u \in Users,
             ReplyBegin(s, p, u) \/ \E kind \in Kinds : ReactBegin(s, p, u, kind)
      PROVE  FlipInv'
  BY <1>2, BeginFlip
<1>3. ASSUME NEW s \in Slots, ReplyInsert(s) \/ ReplyCount(s) PROVE FlipInv'
  BY <1>3, ReplyFlip
<1>4. ASSUME NEW s \in Slots, ReactRead(s) PROVE FlipInv'
  BY <1>4, ReadFlip
<1>5. ASSUME NEW s \in Slots, ReactCreate(s) PROVE FlipInv'
  BY <1>5, CreateFlip
<1>6. ASSUME NEW s \in Slots, ReactFlip(s) PROVE FlipInv'
  BY <1>6, FlipFlip
<1>7. ASSUME NEW s \in Slots, ReactScore(s) PROVE FlipInv'
  BY <1>7, ScoreFlip
<1>8. ASSUME NEW s \in Slots, Commit(s) PROVE FlipInv'
  BY <1>8, CommitFlip
<1>9. ASSUME NEW s \in Slots, Fail(s) PROVE FlipInv'
  <2>1. UNCHANGED <<posts, reactions, score, hist>> /\ call' = [call EXCEPT ![s] = Idle]
    BY <1>9 DEF Fail, rows
  <2> QED
    BY <2>1, EndFlip
<1>10. ASSUME NEW p \in Posts, DeleteByAuthor(p) \/ SetHidden(p) PROVE FlipInv'
  BY <1>10, PostFlip
<1> QED
  BY <1>1, <1>2, <1>3, <1>4, <1>5, <1>6, <1>7, <1>8, <1>9, <1>10 DEF Next

(***************************************************************************)
(* The score of a post moves by changes of mind alone and loses none: it   *)
(* is what its reactions add up to less what the first ones did, for any   *)
(* number of users and requests, unless two requests of one user overlap.  *)
(***************************************************************************)
THEOREM EngagementScoreFollowsFlips == Spec => []ScoreFollowsFlips
<1>1. FlipInv => ScoreFollowsFlips
  BY DEF FlipInv
<1> QED
  BY <1>1, InitFlipInv, NextFlipInv, EngagementInv, PTL DEF Spec
=============================================================================
