----------------------------- MODULE Engagement -----------------------------
(***************************************************************************)
(* Replies and reactions: CreateReply and React of internal/service/post.go *)
(* over the transactions of internal/repository/post.go, with the counters  *)
(* posts.reply_count and posts.score that are kept beside the rows.         *)
(*                                                                          *)
(* PostgreSQL runs at READ COMMITTED: a statement sees what has been        *)
(* committed, an UPDATE that waited for a row sees its newest version, and  *)
(* what a transaction has written shows to others when it commits.          *)
(***************************************************************************)
EXTENDS Integers, FiniteSets

CONSTANTS
  Posts, Users,
  Slots,       \* requests that may be in flight at once
  MaxReplies,  \* bound: requests to reply stop at this many rows of a post
  MaxScore,    \* bound: requests to react stop beyond this score
  Faults,      \* whether statements may fail
  None

ASSUME EngagementAssumption ==
  /\ IsFiniteSet(Users) /\ IsFiniteSet(Slots)
  /\ MaxReplies \in Nat /\ MaxScore \in Nat
  /\ Faults \in BOOLEAN
  /\ None \notin Posts \cup Users

VARIABLES
  posts,      \* a post: "visible", "hidden" or "deleted"
  replies,    \* the number of rows of a post in replies
  replyCount, \* posts.reply_count
  reactions,  \* the row of a post and a user in reactions: "none" or its kind
  score,      \* posts.score
  call,       \* the request in a slot and its transaction
  first,      \* history: the kind of a user's first reaction to a post
  crossed     \* history: posts and users with requests to react that overlapped

rows == <<posts, replies, replyCount, reactions, score>>
hist == <<first, crossed>>
vars == <<rows, call, hist>>

Kinds == {"upvote", "downvote"}

Call == [pc : {"idle", "reply", "count", "read", "create", "flip", "score", "commit"},
         post : Posts \cup {None}, user : Users \cup {None},
         kind : Kinds \cup {"reply", "none"},
         wrote : {"nothing", "created", "updated"}, delta : Int]

Request(pc, p, u, kind) ==
  [pc |-> pc, post |-> p, user |-> u, kind |-> kind, wrote |-> "nothing", delta |-> 0]

Idle == Request("idle", None, None, "none")

Init ==
  /\ posts = [p \in Posts |-> "visible"]
  /\ replies = [p \in Posts |-> 0]
  /\ replyCount = [p \in Posts |-> 0]
  /\ reactions = [p \in Posts |-> [u \in Users |-> "none"]]
  /\ score = [p \in Posts |-> 0]
  /\ call = [s \in Slots |-> Idle]
  /\ first = [p \in Posts |-> [u \in Users |-> "none"]]
  /\ crossed = {}

reactionValue(kind) == IF kind = "upvote" THEN 1 ELSE -1

\* The transaction in slot s reacts to p for u and has written the row.
HoldsReaction(s, p, u) ==
  call[s].wrote # "nothing" /\ call[s].kind # "reply" /\ call[s].post = p /\ call[s].user = u

\* It has updated a counter of p.
HoldsPost(s, p) ==
  /\ call[s].pc = "commit" /\ call[s].post = p
  /\ call[s].kind = "reply" \/ call[s].delta # 0

\* It keeps p, or a row that would go with p, from being deleted.
Pins(s, p) == call[s].post = p /\ (call[s].wrote # "nothing" \/ HoldsPost(s, p))

Reacting(p, u) == \E s \in Slots :
  call[s].kind \in Kinds /\ call[s].post = p /\ call[s].user = u
-----------------------------------------------------------------------------
(* Post.CreateReply.                                                       *)

\* posts.GetByID finds a visible post.
ReplyBegin(s, p, u) ==
  /\ call[s].pc = "idle"
  /\ posts[p] = "visible"
  /\ replies[p] < MaxReplies
  /\ call' = [call EXCEPT ![s] = Request("reply", p, u, "reply")]
  /\ UNCHANGED <<rows, hist>>

\* The INSERT, against the foreign key.
ReplyInsert(s) ==
  /\ call[s].pc = "reply"
  /\ \/ /\ posts[call[s].post] # "deleted"
        /\ call' = [call EXCEPT ![s].pc = "count", ![s].wrote = "created"]
     \/ /\ posts[call[s].post] = "deleted"
        /\ call' = [call EXCEPT ![s] = Idle]
  /\ UNCHANGED <<rows, hist>>

\* Mutant: the UPDATE runs outside the transaction.
ReplyCountNow(s) ==
  /\ call[s].pc = "count"
  /\ replyCount' = [replyCount EXCEPT ![call[s].post] = @ + 1]
  /\ call' = [call EXCEPT ![s].pc = "commit"]
  /\ UNCHANGED <<posts, replies, reactions, score, hist>>

\* UPDATE posts SET reply_count = reply_count + 1.
ReplyCount(s) ==
  /\ call[s].pc = "count"
  /\ \A t \in Slots : ~HoldsPost(t, call[s].post)
  /\ call' = [call EXCEPT ![s].pc = "commit"]
  /\ UNCHANGED <<rows, hist>>
-----------------------------------------------------------------------------
(* Post.React.                                                             *)

\* posts.GetByID finds a visible post.
ReactBegin(s, p, u, kind) ==
  /\ call[s].pc = "idle"
  /\ posts[p] = "visible"
  /\ score[p] \in -MaxScore..MaxScore
  /\ call' = [call EXCEPT ![s] = Request("read", p, u, kind)]
  /\ crossed' = IF Reacting(p, u) THEN crossed \cup {<<p, u>>} ELSE crossed
  /\ UNCHANGED <<rows, first>>

\* Mutant: a reaction of the same kind is taken for a change of kind.
ReactReadFlip(s) ==
  LET existing == reactions[call[s].post][call[s].user]
  IN  /\ call[s].pc = "read"
      /\ call' = IF existing = "none" THEN [call EXCEPT ![s].pc = "create"]
                 ELSE [call EXCEPT ![s].pc = "flip",
                         ![s].delta = reactionValue(call[s].kind) * 2]
      /\ UNCHANGED <<rows, hist>>

\* First(&existing), and the branch that follows from it.
ReactRead(s) ==
  LET existing == reactions[call[s].post][call[s].user]
      kind == call[s].kind
  IN  /\ call[s].pc = "read"
      /\ \/ /\ existing = "none"
            /\ call' = [call EXCEPT ![s].pc = "create"]
         \/ /\ existing \in Kinds \ {kind}
            /\ call' = [call EXCEPT ![s].pc = "flip",
                 ![s].delta = reactionValue(kind) - reactionValue(existing)]
         \/ /\ existing = kind
            /\ call' = [call EXCEPT ![s].pc = "commit"]
      /\ UNCHANGED <<rows, hist>>

\* tx.RowsAffected: Create counts in the handle it returns, so the one of the
\* transaction stays at zero.
HandleRowsAffected == 0

\* INSERT ... ON CONFLICT DO NOTHING, against the foreign key.
ReactCreate(s) ==
  LET p == call[s].post
      u == call[s].user
  IN  /\ call[s].pc = "create"
      /\ \A t \in Slots : ~HoldsReaction(t, p, u)
      /\ \/ /\ posts[p] # "deleted"
            /\ call' = [call EXCEPT
                 ![s].pc = IF HandleRowsAffected > 0 THEN "score" ELSE "commit",
                 ![s].wrote = IF reactions[p][u] = "none" THEN "created" ELSE "nothing",
                 ![s].delta = IF HandleRowsAffected > 0 THEN reactionValue(call[s].kind) ELSE 0]
         \/ /\ posts[p] = "deleted"
            /\ call' = [call EXCEPT ![s] = Idle]
      /\ UNCHANGED <<rows, hist>>

\* UPDATE reactions SET kind; the number of rows it found is not looked at.
ReactFlip(s) ==
  LET p == call[s].post
      u == call[s].user
  IN  /\ call[s].pc = "flip"
      /\ \A t \in Slots : ~HoldsReaction(t, p, u)
      /\ call' = [call EXCEPT ![s].pc = "score",
           ![s].wrote = IF reactions[p][u] = "none" THEN "nothing" ELSE "updated"]
      /\ UNCHANGED <<rows, hist>>

\* UPDATE posts SET score = score + delta.
ReactScore(s) ==
  /\ call[s].pc = "score"
  /\ \A t \in Slots : ~HoldsPost(t, call[s].post)
  /\ call' = [call EXCEPT ![s].pc = "commit"]
  /\ UNCHANGED <<rows, hist>>
-----------------------------------------------------------------------------
(* The end of a transaction.                                               *)

\* Mutant: reply_count - 1.
CommitReplyMinus(s) ==
  LET p == call[s].post
  IN  /\ call[s].kind = "reply"
      /\ replies' = [replies EXCEPT ![p] = @ + 1]
      /\ replyCount' = [replyCount EXCEPT ![p] = @ - 1]
      /\ UNCHANGED <<reactions, score, first>>

CommitReply(s) ==
  LET p == call[s].post
  IN  /\ call[s].kind = "reply"
      /\ replies' = [replies EXCEPT ![p] = @ + 1]
      /\ replyCount' = [replyCount EXCEPT ![p] = @ + 1]
      /\ UNCHANGED <<reactions, score, first>>

\* A post that is gone has no row left to update.
CommitReaction(s) ==
  LET p == call[s].post
      u == call[s].user
  IN  /\ call[s].kind # "reply"
      /\ score' = IF posts[p] = "deleted" THEN score
                  ELSE [score EXCEPT ![p] = @ + call[s].delta]
      /\ \/ /\ call[s].wrote = "nothing"
            /\ UNCHANGED <<reactions, first>>
         \/ /\ call[s].wrote = "updated"
            /\ reactions' = [reactions EXCEPT ![p][u] = call[s].kind]
            /\ UNCHANGED first
         \/ /\ call[s].wrote = "created"
            /\ reactions' = [reactions EXCEPT ![p][u] = call[s].kind]
            /\ first' = [first EXCEPT ![p][u] = call[s].kind]
      /\ UNCHANGED <<replies, replyCount>>

Commit(s) ==
  /\ call[s].pc = "commit"
  /\ CommitReply(s) \/ CommitReaction(s)
  /\ call' = [call EXCEPT ![s] = Idle]
  /\ UNCHANGED <<posts, crossed>>

\* A statement fails, and the transaction is rolled back.
Fail(s) ==
  /\ Faults
  /\ call[s].pc # "idle"
  /\ call' = [call EXCEPT ![s] = Idle]
  /\ UNCHANGED <<rows, hist>>
-----------------------------------------------------------------------------
(* What other requests do to a post.                                       *)

\* Mutant: the tables have no foreign keys, nothing waits or goes along.
DeleteAlone(p) ==
  /\ posts[p] = "visible"
  /\ posts' = [posts EXCEPT ![p] = "deleted"]
  /\ UNCHANGED <<replies, replyCount, reactions, score, call, hist>>

\* DeleteByAuthor, and the rows that go with the post.
DeleteByAuthor(p) ==
  /\ posts[p] # "deleted"
  /\ \A s \in Slots : ~Pins(s, p)
  /\ posts' = [posts EXCEPT ![p] = "deleted"]
  /\ replies' = [replies EXCEPT ![p] = 0]
  /\ replyCount' = [replyCount EXCEPT ![p] = 0]
  /\ reactions' = [reactions EXCEPT ![p] = [u \in Users |-> "none"]]
  /\ score' = [score EXCEPT ![p] = 0]
  /\ UNCHANGED <<call, hist>>

\* SetHidden, by a moderator or by the report that reached the threshold.
SetHidden(p) ==
  /\ posts[p] # "deleted"
  /\ \A s \in Slots : ~HoldsPost(s, p)
  /\ posts' = [posts EXCEPT ![p] = "hidden"]
  /\ UNCHANGED <<replies, replyCount, reactions, score, call, hist>>

Next ==
  \/ \E s \in Slots :
       \/ \E p \in Posts, u \in Users :
            \/ ReplyBegin(s, p, u)
            \/ \E kind \in Kinds : ReactBegin(s, p, u, kind)
       \/ ReplyInsert(s) \/ ReplyCount(s)
       \/ ReactRead(s) \/ ReactCreate(s) \/ ReactFlip(s) \/ ReactScore(s)
       \/ Commit(s) \/ Fail(s)
  \/ \E p \in Posts : DeleteByAuthor(p) \/ SetHidden(p)

Spec == Init /\ [][Next]_vars
-----------------------------------------------------------------------------
TypeOK ==
  /\ posts \in [Posts -> {"visible", "hidden", "deleted"}]
  /\ replies \in [Posts -> Nat] /\ replyCount \in [Posts -> Nat]
  /\ reactions \in [Posts -> [Users -> Kinds \cup {"none"}]]
  /\ score \in [Posts -> Int]
  /\ call \in [Slots -> Call]
  /\ first \in [Posts -> [Users -> Kinds \cup {"none"}]]
  /\ crossed \in SUBSET (Posts \X Users)

(***************************************************************************)
(* reply_count is the number of replies, however many requests count at    *)
(* once and wherever they fail.                                            *)
(***************************************************************************)
ReplyCountExact == \A p \in Posts : replyCount[p] = replies[p]

(***************************************************************************)
(* No reply and no reaction outlives its post, though a request checks the *)
(* post long before it writes its row.                                     *)
(***************************************************************************)
NoOrphans ==
  \A p \in Posts : posts[p] = "deleted" =>
    replies[p] = 0 /\ \A u \in Users : reactions[p][u] = "none"

\* What the rows in f add up to.
Tally(f) == Cardinality({u \in Users : f[u] = "upvote"})
          - Cardinality({u \in Users : f[u] = "downvote"})

(***************************************************************************)
(* The score moves by changes of mind alone, and loses none of them to a   *)
(* concurrent one of another user: it is the sum of the reactions less the *)
(* sum of the first ones, unless requests of one user have overlapped.     *)
(***************************************************************************)
ScoreFollowsFlips ==
  \A p \in Posts :
    posts[p] # "deleted" /\ (\A u \in Users : <<p, u>> \notin crossed) =>
      score[p] = Tally(reactions[p]) - Tally(first[p])

(***************************************************************************)
(* An upvote raises the score of a post, a downvote lowers it: the score   *)
(* is the sum of the reactions, if no requests of one user overlapped.     *)
(***************************************************************************)
ScoreCountsReactions ==
  \A p \in Posts :
    posts[p] # "deleted" /\ (\A u \in Users : <<p, u>> \notin crossed) =>
      score[p] = Tally(reactions[p])
=============================================================================
