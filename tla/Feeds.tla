-------------------------------- MODULE Feeds --------------------------------
(***************************************************************************)
(* The two feeds: a client that pages through the latest posts with the    *)
(* cursor of internal/repository/feed.go, and the trending pages that      *)
(* internal/service/feed.go keeps in Redis for a minute, over a table of   *)
(* posts that come and go.                                                 *)
(***************************************************************************)
EXTENDS Integers, FiniteSets, FiniteSetsExt

CONSTANTS
  Posts,         \* ids, in their order
  Times,         \* values of created_at
  Slots,         \* calls of Trending that may run at once
  Limits,        \* limits that clients ask for
  DefaultLimit,  \* 20
  MaxLimit,      \* 100
  TTL,           \* 60 seconds, in ticks
  None

ASSUME FeedsAssumption ==
  /\ Posts \subseteq Int /\ IsFiniteSet(Posts)
  /\ Times \subseteq Int
  /\ Limits \subseteq Int
  /\ MaxLimit \in Nat \ {0} /\ DefaultLimit \in 1..MaxLimit
  /\ TTL \in Nat \ {0}
  /\ None \notin Times

VARIABLES
  posts,     \* a post: "absent", "visible" or "gone", that is hidden or deleted
  created,   \* posts.created_at
  cache,     \* the key of a limit in Redis: its page, and the time it has left
  call,      \* the calls of Trending
  cursor,    \* the cursor the paging client was given last
  ended,     \* it was given an empty page
  seen,      \* history: the posts on its pages
  owed,      \* history: posts visible since its first page, and on none so far
  twice,     \* history: a post came on two of its pages
  age        \* history: the time since a post was visible or in the hands of a call

table == <<posts, created>>
walk == <<cursor, ended, seen, owed, twice>>
vars == <<table, cache, call, walk, age>>

Keys == 1..MaxLimit

Idle == [pc |-> "idle", key |-> DefaultLimit, page |-> {}]

Init ==
  /\ posts = [p \in Posts |-> "absent"]
  /\ created = [p \in Posts |-> None]
  /\ cache = [k \in Keys |-> [page |-> {}, left |-> 0]]
  /\ call = [s \in Slots |-> Idle]
  /\ cursor = None
  /\ ended = FALSE
  /\ seen = {}
  /\ owed = {}
  /\ twice = FALSE
  /\ age = [p \in Posts |-> 0]

\* Mutant: the condition is missing.
VisibleAny == {p \in Posts : posts[p] # "absent"}

\* Rows with is_hidden = false.
Visible == {p \in Posts : posts[p] = "visible"}

Clamp(limit) ==
  IF limit <= 0 THEN DefaultLimit ELSE IF limit > MaxLimit THEN MaxLimit ELSE limit
-----------------------------------------------------------------------------
(* The posts.                                                              *)

\* created_at is taken before the INSERT, so rows appear in any order of it.
Create(p, t) ==
  /\ posts[p] = "absent"
  /\ posts' = [posts EXCEPT ![p] = "visible"]
  /\ created' = [created EXCEPT ![p] = t]
  /\ UNCHANGED <<cache, call, walk, age>>

\* SetHidden or DeleteByAuthor.
Withdraw(p) ==
  /\ posts[p] = "visible"
  /\ posts' = [posts EXCEPT ![p] = "gone"]
  /\ owed' = owed \ {p}
  /\ UNCHANGED <<created, cache, call, cursor, ended, seen, twice, age>>
-----------------------------------------------------------------------------
(* Latest.                                                                 *)

\* Mutant: the condition includes the cursor.
BelowOrAt == {p \in Visible : cursor = None \/ created[p] <= cursor}

\* created_at < cursor.
Below == {p \in Visible : cursor = None \/ created[p] < cursor}

\* ORDER BY created_at DESC, id DESC.
Before(p, q) == created[p] > created[q] \/ (created[p] = created[q] /\ p > q)

\* Mutant: rows in no order.
TopAny(n, S) == {p \in S : Cardinality({q \in S : q > p}) < n}

\* LIMIT n.
Top(n, S) == {p \in S : Cardinality({q \in S : Before(q, p)}) < n}

\* The cursor is the time of the last row.  PostgreSQL keeps microseconds, and
\* neither Truncate nor the text that the client sends back loses any.
Latest(limit) ==
  LET page == Top(Clamp(limit), Below)
  IN  /\ ~ended
      /\ \/ /\ Below = {}
            /\ ended' = TRUE
            /\ UNCHANGED cursor
         \/ \E last \in page :
            /\ \A p \in page : ~Before(last, p)
            /\ cursor' = created[last]
            /\ UNCHANGED ended
      /\ seen' = seen \cup page
      /\ twice' = (twice \/ page \cap seen # {})
      /\ owed' = (IF cursor = None THEN Visible ELSE owed) \ page
      /\ UNCHANGED <<table, cache, call, age>>
-----------------------------------------------------------------------------
(* Trending.                                                               *)

\* Mutant: a hit renews the key.
TrendingHitRenews(s, limit) ==
  /\ call[s].pc = "idle"
  /\ cache[Clamp(limit)].left > 0
  /\ cache' = [cache EXCEPT ![Clamp(limit)].left = TTL]
  /\ UNCHANGED <<table, call, walk, age>>

\* The key is there.
TrendingHit(s, limit) ==
  /\ call[s].pc = "idle"
  /\ cache[Clamp(limit)].left > 0
  /\ UNCHANGED vars

TrendingMiss(s, limit) ==
  /\ call[s].pc = "idle"
  /\ cache[Clamp(limit)].left = 0
  /\ call' = [call EXCEPT ![s] = [pc |-> "query", key |-> Clamp(limit), page |-> {}]]
  /\ UNCHANGED <<table, cache, walk, age>>

\* The scores put any of the visible posts first.
TrendingQuery(s) ==
  /\ call[s].pc = "query"
  /\ \E page \in SUBSET Visible :
       /\ Cardinality(page) = Min({call[s].key, Cardinality(Visible)})
       /\ call' = [call EXCEPT ![s] = [pc |-> "store", key |-> call[s].key, page |-> page]]
  /\ UNCHANGED <<table, cache, walk, age>>

Store(k, page) == [cache EXCEPT ![k] = [page |-> page, left |-> TTL]]

\* The Set, whose error is ignored.
TrendingStore(s) ==
  /\ call[s].pc = "store"
  /\ cache' \in {cache, Store(call[s].key, call[s].page)}
  /\ call' = [call EXCEPT ![s] = Idle]
  /\ UNCHANGED <<table, walk, age>>

\* The Get or the query fails.
TrendingFail(s) ==
  /\ call[s].pc = "query"
  /\ call' = [call EXCEPT ![s] = Idle]
  /\ UNCHANGED <<table, cache, walk, age>>

Carried(p) == \E s \in Slots : call[s].pc = "store" /\ p \in call[s].page

\* Time passes, and keys expire.
Tick ==
  /\ cache' = [k \in Keys |-> [page |-> cache[k].page,
                                left |-> IF cache[k].left = 0 THEN 0 ELSE cache[k].left - 1]]
  /\ age' = [p \in Posts |-> IF posts[p] # "gone" \/ Carried(p) THEN 0
                             ELSE IF age[p] = TTL THEN TTL ELSE age[p] + 1]
  /\ UNCHANGED <<table, call, walk>>

Next ==
  \/ \E p \in Posts : Withdraw(p) \/ \E t \in Times : Create(p, t)
  \/ \E limit \in Limits :
       \/ Latest(limit)
       \/ \E s \in Slots : TrendingHit(s, limit) \/ TrendingMiss(s, limit)
  \/ \E s \in Slots : TrendingQuery(s) \/ TrendingStore(s) \/ TrendingFail(s)
  \/ Tick

\* Time passes, and a statement ends.
Fairness ==
  /\ WF_vars(Tick)
  /\ \A s \in Slots : WF_vars(TrendingQuery(s) \/ TrendingFail(s)) /\ WF_vars(TrendingStore(s))

Spec == Init /\ [][Next]_vars /\ Fairness
-----------------------------------------------------------------------------
TypeOK ==
  /\ posts \in [Posts -> {"absent", "visible", "gone"}]
  /\ created \in [Posts -> Times \cup {None}]
  /\ cache \in [Keys -> [page : SUBSET Posts, left : 0..TTL]]
  /\ call \in [Slots -> [pc : {"idle", "query", "store"}, key : Keys, page : SUBSET Posts]]
  /\ cursor \in Times \cup {None}
  /\ ended \in BOOLEAN /\ twice \in BOOLEAN
  /\ seen \in SUBSET Posts /\ owed \in SUBSET Posts
  /\ age \in [Posts -> 0..TTL]

(***************************************************************************)
(* A client that follows the cursor gets no post twice, whatever is        *)
(* created, hidden or deleted between its pages.                           *)
(***************************************************************************)
NeverTwice == ~twice

(***************************************************************************)
(* A client that has reached the end of the latest feed has been given     *)
(* every post that was visible all the while, except where it shares its   *)
(* created_at with one it was given: the cursor cannot tell them apart.    *)
(***************************************************************************)
MissesOnlyTies ==
  ended => \A p \in owed : \E q \in seen : created[q] = created[p]

Shown(p) == \E k \in Keys : cache[k].left > 0 /\ p \in cache[k].page

(***************************************************************************)
(* A hidden or deleted post is on no cached page once the lifetime of a    *)
(* key has passed since it was withdrawn and since the last call that had  *)
(* read it before stored its page.                                         *)
(***************************************************************************)
WithdrawnWithinTTL == \A p \in Posts : age[p] = TTL => ~Shown(p)

\* It is withdrawn, and neither a cached page nor a call has it.
Faded(p) == posts[p] = "gone" /\ ~Shown(p) /\ ~Carried(p)

(***************************************************************************)
(* Once a withdrawn post is on no cached page and in the hands of no call, *)
(* no request for the trending feed brings it back, not even a call that   *)
(* has found the cache empty before that and is yet to query.              *)
(***************************************************************************)
FadedStaysFaded == [][\A p \in Posts : Faded(p) => Faded(p)']_vars

(***************************************************************************)
(* A hidden or deleted post leaves the trending feed for good, however     *)
(* often the feed is asked for.                                            *)
(***************************************************************************)
WithdrawnFades == \A p \in Posts : posts[p] = "gone" ~> [](~Shown(p))
=============================================================================
