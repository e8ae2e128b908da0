----------------------------- MODULE FeedProofs -----------------------------
(***************************************************************************)
(* Proofs about Feeds, for every set of posts, times, calls and limits and *)
(* every lifetime of a key.                                                *)
(***************************************************************************)
EXTENDS Feeds, FiniteSetTheorems, TLAPS

USE FeedsAssumption DEF FeedsAssumption

(* The inductive invariant.                                                *)

\* Rows have a created_at.
Dated == \A p \in Posts : posts[p] # "absent" => created[p] \in Times

\* The cursor has passed what is on the client's pages, and it has yet to
\* reach what is owed to it, or has passed it by at a tie.
Passed == \A p \in seen : posts[p] # "absent" /\ cursor \in Times /\ created[p] >= cursor

Ahead(p) == cursor \in Times /\ ~ended /\ created[p] < cursor

Tied(p) == \E q \in seen : created[q] = created[p]

Reachable == \A p \in owed : posts[p] = "visible" /\ (Ahead(p) \/ Tied(p))

\* The younger the page of a key, the younger the withdrawal of its posts.
Fading ==
  /\ \A p \in Posts : posts[p] # "gone" \/ Carried(p) => age[p] = 0
  /\ \A k \in Keys : cache[k].left > 0 =>
       \A p \in cache[k].page : cache[k].left + age[p] <= TTL

IInv == TypeOK /\ Dated /\ Passed /\ Reachable /\ NeverTwice /\ Fading

LEMMA ClampKey ==
  ASSUME NEW limit \in Limits
  PROVE  Clamp(limit) \in Keys
BY DEF Clamp, Keys

LEMMA InitIInv == Init => IInv
<1> SUFFICES ASSUME Init PROVE IInv
  OBVIOUS
<1>1. DefaultLimit \in Keys
  BY DEF Keys
<1>2. TypeOK
  <2>1. call \in [Slots -> [pc : {"idle", "query", "store"}, key : Keys, page : SUBSET Posts]]
    BY <1>1 DEF Init, Idle
  <2>2. cache \in [Keys -> [page : SUBSET Posts, left : 0..TTL]]
    BY DEF Init
  <2>3. posts \in [Posts -> {"absent", "visible", "gone"}] /\ created \in [Posts -> Times \cup {None}]
    BY DEF Init
  <2>4. age \in [Posts -> 0..TTL]
    BY DEF Init
  <2> QED
    BY <2>1, <2>2, <2>3, <2>4 DEF Init, TypeOK
<1>3. Dated /\ Passed /\ Reachable /\ NeverTwice
  BY DEF Init, Dated, Passed, Reachable, NeverTwice
<1>4. Fading
  BY DEF Init, Fading, Carried, Idle
<1> QED
  BY <1>2, <1>3, <1>4 DEF IInv
-----------------------------------------------------------------------------
(* The page of a client.                                                   *)

\* A post that LIMIT left out comes after the last one of the page.
LEMMA LeftOut ==
  ASSUME TypeOK, Dated, NEW n \in Nat, NEW last \in Top(n, Below), NEW p \in Below \ Top(n, Below)
  PROVE  created[p] <= created[last]
<1> DEFINE above(r) == {q \in Below : Before(q, r)}
<1>1. Below \subseteq Posts /\ \A q \in Below : created[q] \in Int
  BY DEF Below, Visible, Dated
<1>2. IsFiniteSet(above(last)) /\ IsFiniteSet(above(p))
  <2>1. above(last) \in SUBSET Posts /\ above(p) \in SUBSET Posts
    BY <1>1
  <2> QED
    BY <2>1, FS_Subset
<1>3. Cardinality(above(last)) < n /\ ~(Cardinality(above(p)) < n)
  BY DEF Top
<1>4. Cardinality(above(last)) \in Nat /\ Cardinality(above(p)) \in Nat
  BY <1>2, FS_CardinalityType
<1>5. SUFFICES ASSUME created[p] > created[last] PROVE FALSE
  <2>1. last \in Below
    BY DEF Top
  <2> QED
    BY <1>1, <1>5, <2>1
<1>6. above(p) \subseteq above(last)
  <2>1. last \in Below
    BY DEF Top
  <2>2. ASSUME NEW q \in Below, Before(q, p) PROVE Before(q, last)
    BY <1>1, <1>5, <2>1, <2>2 DEF Before
  <2> QED
    BY <2>2
<1>7. Cardinality(above(p)) <= Cardinality(above(last))
  BY <1>2, <1>6, FS_Subset
<1> QED
  BY <1>3, <1>4, <1>7

LEMMA LatestIInv ==
  ASSUME IInv, NEW limit \in Limits, Latest(limit)
  PROVE  IInv'
<1> DEFINE page == Top(Clamp(limit), Below)
<1> USE DEF IInv
<1>1. page \subseteq Below /\ Below \subseteq Posts /\ Clamp(limit) \in Nat
  BY ClampKey DEF Top, Below, Visible, Keys
<1>2. \A p \in Below : /\ posts[p] = "visible" /\ created[p] \in Times /\ created[p] \in Int
                       /\ cursor = None \/ created[p] < cursor
  BY DEF Below, Visible, Dated
<1>3. /\ ~ended /\ seen' = seen \cup page /\ twice' = (twice \/ page \cap seen # {})
      /\ owed' = (IF cursor = None THEN Visible ELSE owed) \ page
      /\ UNCHANGED <<posts, created, cache, call, age>>
  BY DEF Latest, table
<1>4. Dated' /\ Fading'
  BY <1>3 DEF Dated, Fading, Carried
<1>5. NeverTwice'
  <2>1. ASSUME NEW p \in page, p \in seen PROVE FALSE
    <3>1. created[p] \in Int /\ (cursor = None \/ created[p] < cursor)
      BY <1>1, <1>2
    <3>2. cursor \in Times /\ created[p] >= cursor
      BY <2>1 DEF Passed
    <3>3. cursor # None /\ cursor \in Int
      BY <3>2
    <3> QED
      BY <3>1, <3>2, <3>3
  <2> QED
    BY <1>3, <2>1 DEF NeverTwice
<1>6. \A p \in owed' : p \in Posts /\ posts[p] = "visible" /\ p \notin page
                       /\ (p \in Below \/ Tied(p))
  <2> SUFFICES ASSUME NEW p \in owed'
               PROVE  p \in Posts /\ posts[p] = "visible" /\ p \notin page
                      /\ (p \in Below \/ Tied(p))
    OBVIOUS
  <2>1. CASE cursor = None
    BY <1>3, <2>1 DEF Below, Visible
  <2>2. CASE cursor # None
    <3>1. p \in owed /\ p \notin page /\ p \in Posts
      BY <1>3, <2>2 DEF TypeOK
    <3> QED
      BY <3>1 DEF Reachable, Ahead, Below, Visible
  <2> QED
    BY <2>1, <2>2
<1>7. CASE Below = {} /\ ended' = TRUE /\ UNCHANGED cursor
  <2>1. page = {}
    BY <1>1, <1>7
  <2>2. seen' = seen
    BY <1>3, <2>1
  <2>3. TypeOK'
    <3>1. owed' \in SUBSET Posts
      BY <1>6
    <3> QED
      BY <1>3, <1>7, <2>2, <3>1 DEF TypeOK
  <2>4. Passed'
    BY <1>3, <1>7, <2>2 DEF Passed
  <2>5. Reachable'
    BY <1>3, <1>6, <1>7, <2>2 DEF Reachable, Tied
  <2> QED
    BY <1>4, <1>5, <2>3, <2>4, <2>5
<1>8. ASSUME NEW last \in page, \A p \in page : ~Before(last, p),
             cursor' = created[last], UNCHANGED ended
      PROVE  IInv'
  <2>1. cursor' \in Times /\ cursor' \in Int /\ (cursor = None \/ cursor' < cursor)
    BY <1>1, <1>2, <1>8
  <2>2. TypeOK'
    <3>1. owed' \in SUBSET Posts /\ seen' \in SUBSET Posts
      BY <1>1, <1>3, <1>6 DEF TypeOK
    <3> QED
      BY <1>3, <1>8, <2>1, <3>1 DEF TypeOK
  <2>3. ASSUME NEW p \in page PROVE created[p] >= cursor'
    <3>1. created[p] \in Int /\ created[last] \in Int
      BY <1>1, <1>2
    <3>2. ~(created[last] > created[p])
      BY <1>8 DEF Before
    <3> QED
      BY <1>8, <3>1, <3>2
  <2>4. Passed'
    <3>1. ASSUME NEW p \in seen PROVE posts[p] # "absent" /\ created[p] >= cursor'
      <4>1. p \in Posts /\ posts[p] # "absent" /\ cursor \in Times /\ created[p] >= cursor
        BY DEF Passed, TypeOK
      <4>2. created[p] \in Int
        BY <4>1 DEF Dated
      <4> QED
        BY <2>1, <4>1, <4>2
    <3> QED
      BY <1>1, <1>2, <1>3, <2>1, <2>3, <3>1 DEF Passed
  <2>5. Reachable'
    <3> SUFFICES ASSUME NEW p \in owed' PROVE posts[p] = "visible" /\ (Ahead(p)' \/ Tied(p)')
      BY <1>3 DEF Reachable
    <3>1. CASE Tied(p)
      BY <1>3, <1>6, <3>1 DEF Tied
    <3>2. CASE p \in Below
      <4>1. created[p] <= created[last] /\ created[p] \in Int /\ created[last] \in Int
        BY <1>1, <1>2, <1>6, <3>2, LeftOut
      <4>2. created[p] < cursor' \/ created[p] = created[last]
        BY <1>8, <4>1
      <4>3. last \in seen'
        BY <1>3
      <4> QED
        BY <1>3, <1>6, <1>8, <2>1, <4>2, <4>3 DEF Ahead, Tied
    <3> QED
      BY <1>6, <3>1, <3>2
  <2> QED
    BY <1>4, <1>5, <2>2, <2>4, <2>5
<1> QED
  BY <1>7, <1>8 DEF Latest
-----------------------------------------------------------------------------
(* The other steps.                                                        *)

\* What keeps the client's side of the invariant.
LEMMA WalkFrame ==
  ASSUME IInv, UNCHANGED <<posts, created, walk>>
  PROVE  Dated' /\ Passed' /\ Reachable' /\ NeverTwice'
BY DEF IInv, walk, Dated, Passed, Reachable, Ahead, Tied, NeverTwice

LEMMA CreateIInv ==
  ASSUME IInv, NEW p \in Posts, NEW t \in Times, Create(p, t)
  PROVE  IInv'
<1> USE DEF IInv
<1>1. /\ posts[p] = "absent" /\ posts' = [posts EXCEPT ![p] = "visible"]
      /\ created' = [created EXCEPT ![p] = t]
      /\ UNCHANGED <<cache, call, walk, age>>
  BY DEF Create
<1>2. TypeOK'
  BY <1>1 DEF TypeOK, walk
<1>3. Dated' /\ NeverTwice'
  BY <1>1 DEF TypeOK, Dated, NeverTwice, walk
<1>4. p \notin seen /\ p \notin owed
  BY <1>1 DEF Passed, Reachable
<1>5. \A q \in Posts : q # p => posts'[q] = posts[q] /\ created'[q] = created[q]
  BY <1>1 DEF TypeOK
<1>6. Passed' /\ Reachable'
  <2>1. seen \subseteq Posts /\ owed \subseteq Posts
    BY DEF TypeOK
  <2> QED
    BY <1>1, <1>4, <1>5, <2>1 DEF Passed, Reachable, Ahead, Tied, walk
<1>7. Fading'
  BY <1>1, <1>5 DEF Fading, Carried
<1> QED
  BY <1>2, <1>3, <1>6, <1>7

LEMMA WithdrawIInv ==
  ASSUME IInv, NEW p \in Posts, Withdraw(p)
  PROVE  IInv'
<1> USE DEF IInv
<1>1. /\ posts[p] = "visible" /\ posts' = [posts EXCEPT ![p] = "gone"] /\ owed' = owed \ {p}
      /\ UNCHANGED <<created, cache, call, cursor, ended, seen, twice, age>>
  BY DEF Withdraw
<1>2. TypeOK'
  BY <1>1 DEF TypeOK
<1>3. \A q \in Posts : /\ posts'[q] # "absent" <=> posts[q] # "absent"
                       /\ q # p => posts'[q] = posts[q]
                       /\ posts'[q] # "gone" => posts[q] # "gone"
  BY <1>1 DEF TypeOK
<1>4. seen \subseteq Posts /\ owed \subseteq Posts
  BY DEF TypeOK
<1>5. Dated' /\ Passed' /\ NeverTwice'
  BY <1>1, <1>3, <1>4 DEF Dated, Passed, NeverTwice
<1>6. Reachable'
  BY <1>1, <1>3, <1>4 DEF Reachable, Ahead, Tied
<1>7. Fading'
  BY <1>1, <1>3 DEF Fading, Carried
<1> QED
  BY <1>2, <1>5, <1>6, <1>7

LEMMA TrendingIInv ==
  ASSUME IInv, NEW s \in Slots,
         \/ \E limit \in Limits : TrendingMiss(s, limit)
         \/ TrendingQuery(s) \/ TrendingFail(s)
  PROVE  IInv'
<1> USE DEF IInv
<1>1. UNCHANGED <<posts, created, cache, walk, age>>
  BY DEF TrendingMiss, TrendingQuery, TrendingFail, table
<1>2. /\ call' \in [Slots -> [pc : {"idle", "query", "store"}, key : Keys, page : SUBSET Posts]]
      /\ \A t \in Slots : call'[t].pc = "store" =>
           call'[t] = call[t] \/ call'[t].page \subseteq Visible
  <2>1. ASSUME NEW limit \in Limits, TrendingMiss(s, limit)
        PROVE  /\ call' \in [Slots -> [pc : {"idle", "query", "store"}, key : Keys, page : SUBSET Posts]]
               /\ \A t \in Slots : call'[t].pc = "store" => call'[t] = call[t]
    BY <2>1, ClampKey DEF TrendingMiss, TypeOK
  <2>2. CASE TrendingQuery(s)
    <3>1. PICK page \in SUBSET Visible :
            call' = [call EXCEPT ![s] = [pc |-> "store", key |-> call[s].key, page |-> page]]
      BY <2>2 DEF TrendingQuery
    <3>2. page \in SUBSET Posts
      BY <3>1 DEF Visible
    <3>3. call[s].key \in Keys
      BY DEF TypeOK
    <3> QED
      BY <3>1, <3>2, <3>3 DEF TypeOK
  <2>3. CASE TrendingFail(s)
    <3>1. DefaultLimit \in Keys
      BY DEF Keys
    <3> QED
      BY <2>3, <3>1 DEF TrendingFail, TypeOK, Idle
  <2> QED
    BY <2>1, <2>2, <2>3
<1>3. TypeOK'
  BY <1>1, <1>2 DEF TypeOK, walk
<1>4. \A p \in Posts : Carried(p)' => Carried(p) \/ posts[p] = "visible"
  BY <1>2 DEF Carried, Visible
<1>5. Fading'
  BY <1>1, <1>4 DEF Fading
<1> QED
  BY <1>1, <1>3, <1>5, WalkFrame

LEMMA StoreIInv ==
  ASSUME IInv, NEW s \in Slots, TrendingStore(s)
  PROVE  IInv'
<1> USE DEF IInv
<1>1. /\ call[s].pc = "store" /\ cache' \in {cache, Store(call[s].key, call[s].page)}
      /\ call' = [call EXCEPT ![s] = Idle] /\ UNCHANGED <<posts, created, walk, age>>
  BY DEF TrendingStore, table
<1>2. call[s].key \in Keys /\ call[s].page \in SUBSET Posts
  BY DEF TypeOK
<1>3. TypeOK'
  <2>1. DefaultLimit \in Keys
    BY DEF Keys
  <2>2. cache' \in [Keys -> [page : SUBSET Posts, left : 0..TTL]]
    BY <1>1, <1>2 DEF TypeOK, Store
  <2> QED
    BY <1>1, <2>1, <2>2 DEF TypeOK, Idle, walk
<1>4. \A p \in Posts : Carried(p)' => Carried(p)
  BY <1>1 DEF Carried, Idle, TypeOK
<1>5. \A p \in call[s].page : age[p] = 0
  BY <1>1, <1>2 DEF Fading, Carried
<1>6. \A k \in Keys : \/ cache'[k] = cache[k]
                      \/ cache'[k].left = TTL /\ cache'[k].page = call[s].page
  BY <1>1, <1>2 DEF Store, TypeOK
<1>7. Fading'
  <2>1. \A p \in Posts : posts'[p] # "gone" \/ Carried(p)' => age'[p] = 0
    BY <1>1, <1>4 DEF Fading
  <2>2. ASSUME NEW k \in Keys, cache'[k].left > 0, NEW p \in cache'[k].page
        PROVE  cache'[k].left + age'[p] <= TTL
    BY <1>1, <1>5, <1>6, <2>2 DEF Fading
  <2> QED
    BY <2>1, <2>2 DEF Fading
<1> QED
  BY <1>1, <1>3, <1>7, WalkFrame

LEMMA TickIInv ==
  ASSUME IInv, Tick
  PROVE  IInv'
<1> USE DEF IInv
<1>1. /\ cache' = [k \in Keys |-> [page |-> cache[k].page,
                                    left |-> IF cache[k].left = 0 THEN 0 ELSE cache[k].left - 1]]
      /\ age' = [p \in Posts |-> IF posts[p] # "gone" \/ Carried(p) THEN 0
                                 ELSE IF age[p] = TTL THEN TTL ELSE age[p] + 1]
      /\ UNCHANGED <<posts, created, call, walk>>
  BY DEF Tick, table
<1>2. ASSUME NEW k \in Keys
      PROVE  /\ cache[k].page \in SUBSET Posts /\ cache[k].left \in 0..TTL
             /\ cache'[k].page = cache[k].page
             /\ cache'[k].left = IF cache[k].left = 0 THEN 0 ELSE cache[k].left - 1
  <2>1. cache[k] \in [page : SUBSET Posts, left : 0..TTL]
    BY DEF TypeOK
  <2>2. cache'[k] = [page |-> cache[k].page,
                     left |-> IF cache[k].left = 0 THEN 0 ELSE cache[k].left - 1]
    BY <1>1
  <2> QED
    BY <2>1, <2>2
<1>3. ASSUME NEW p \in Posts
      PROVE  age[p] \in 0..TTL /\ age'[p] \in 0..TTL /\ age'[p] <= age[p] + 1
  <2>1. age[p] \in 0..TTL
    BY DEF TypeOK
  <2>2. \/ age'[p] = 0
        \/ age[p] = TTL /\ age'[p] = TTL
        \/ age[p] # TTL /\ age'[p] = age[p] + 1
    BY <1>1
  <2> QED
    BY <2>1, <2>2
<1>4. TypeOK'
  <2>1. cache' \in [Keys -> [page : SUBSET Posts, left : 0..TTL]]
    <3>1. ASSUME NEW k \in Keys
          PROVE  (IF cache[k].left = 0 THEN 0 ELSE cache[k].left - 1) \in 0..TTL
      BY <1>2
    <3> QED
      BY <1>1, <1>2, <3>1
  <2>2. age' \in [Posts -> 0..TTL]
    BY <1>1, <1>3
  <2> QED
    BY <1>1, <2>1, <2>2 DEF TypeOK, walk
<1>5. \A p \in Posts : Carried(p)' <=> Carried(p)
  BY <1>1 DEF Carried
<1>6. Fading'
  <2>1. \A p \in Posts : posts'[p] # "gone" \/ Carried(p)' => age'[p] = 0
    BY <1>1, <1>5
  <2>2. ASSUME NEW k \in Keys, cache'[k].left > 0, NEW p \in cache'[k].page
        PROVE  cache'[k].left + age'[p] <= TTL
    <3>1. cache[k].left \in Nat /\ cache[k].left > 0 /\ p \in cache[k].page /\ p \in Posts
          /\ cache'[k].left = cache[k].left - 1
      BY <1>2, <2>2
    <3>2. cache[k].left + age[p] <= TTL
      BY <3>1 DEF Fading
    <3>3. age[p] \in Int /\ age'[p] \in Int /\ age'[p] <= age[p] + 1
      BY <1>3, <3>1
    <3> QED
      BY <3>1, <3>2, <3>3
  <2> QED
    BY <2>1, <2>2 DEF Fading
<1> QED
  BY <1>1, <1>4, <1>6, WalkFrame

LEMMA NextIInv == IInv /\ [Next]_vars => IInv'
<1> SUFFICES ASSUME IInv, [Next]_vars PROVE IInv'
  OBVIOUS
<1>1. CASE UNCHANGED vars
  BY <1>1 DEF vars, table, walk, IInv, TypeOK, Dated, Passed, Reachable, Ahead, Tied,
     NeverTwice, Fading, Carried
<1>2. ASSUME NEW p \in Posts, Withdraw(p) PROVE IInv'
  BY <1>2, WithdrawIInv
<1>3. ASSUME NEW p \in Posts, NEW t \in Times, Create(p, t) PROVE IInv'
  BY <1>3, CreateIInv
<1>4. ASSUME NEW limit \in Limits, Latest(limit) PROVE IInv'
  BY <1>4, LatestIInv
<1>5. ASSUME NEW limit \in Limits, NEW s \in Slots, TrendingHit(s, limit) PROVE IInv'
  BY <1>1, <1>5 DEF TrendingHit
<1>6. ASSUME NEW limit \in Limits, NEW s \in Slots, TrendingMiss(s, limit) PROVE IInv'
  BY <1>6, TrendingIInv
<1>7. ASSUME NEW s \in Slots, TrendingQuery(s) \/ TrendingFail(s) PROVE IInv'
  BY <1>7, TrendingIInv
<1>8. ASSUME NEW s \in Slots, TrendingStore(s) PROVE IInv'
  BY <1>8, StoreIInv
<1>9. CASE Tick
  BY <1>9, TickIInv
<1> QED
  BY <1>1, <1>2, <1>3, <1>4, <1>5, <1>6, <1>7, <1>8, <1>9 DEF Next
-----------------------------------------------------------------------------
(***************************************************************************)
(* The inductive invariant of the feeds: where the cursor stands to what   *)
(* the client was given and is owed, and the age of what is cached.        *)
(***************************************************************************)
THEOREM FeedsInv == Spec => []IInv
<1> QED
  BY InitIInv, NextIInv, PTL DEF Spec

(***************************************************************************)
(* The table, the cache and the calls of Trending keep their types.        *)
(***************************************************************************)
THEOREM FeedsTypeOK == Spec => []TypeOK
<1>1. IInv => TypeOK
  BY DEF IInv
<1> QED
  BY <1>1, FeedsInv, PTL

(***************************************************************************)
(* A client that follows the cursor of Latest gets no post twice.          *)
(***************************************************************************)
THEOREM FeedsNeverTwice == Spec => []NeverTwice
<1>1. IInv => NeverTwice
  BY DEF IInv
<1> QED
  BY <1>1, FeedsInv, PTL

(***************************************************************************)
(* A client that has reached the end of the latest feed has missed nothing *)
(* but posts that share their created_at with one it was given.            *)
(***************************************************************************)
THEOREM FeedsMissesOnlyTies == Spec => []MissesOnlyTies
<1>1. IInv => MissesOnlyTies
  BY DEF IInv, Reachable, Ahead, Tied, MissesOnlyTies
<1> QED
  BY <1>1, FeedsInv, PTL

(***************************************************************************)
(* The cache of the trending feed forgets a withdrawn post within the      *)
(* lifetime of a key, counted from the last call that had read it.         *)
(***************************************************************************)
THEOREM FeedsWithdrawnWithinTTL == Spec => []WithdrawnWithinTTL
<1>1. IInv => WithdrawnWithinTTL
  <2> SUFFICES ASSUME IInv, NEW p \in Posts, age[p] = TTL, NEW k \in Keys,
                      cache[k].left > 0, p \in cache[k].page
               PROVE  FALSE
    BY DEF WithdrawnWithinTTL, Shown
  <2>1. cache[k].left \in Nat /\ cache[k].left + age[p] <= TTL
    BY DEF IInv, Fading, TypeOK
  <2> QED
    BY <2>1
<1> QED
  BY <1>1, FeedsInv, PTL

LEMMA FadedNext ==
  ASSUME IInv, [Next]_vars, NEW p \in Posts, Faded(p)
  PROVE  Faded(p)'
<1> USE DEF IInv
<1>1. CASE UNCHANGED vars
  BY <1>1 DEF vars, table, Faded, Shown, Carried
<1>2. ASSUME NEW q \in Posts, Withdraw(q) \/ \E t \in Times : Create(q, t)
      PROVE  Faded(p)'
  <2>1. posts'[p] = "gone" /\ UNCHANGED <<cache, call>>
    BY <1>2 DEF Withdraw, Create, Faded, TypeOK
  <2> QED
    BY <2>1 DEF Faded, Shown, Carried
<1>3. ASSUME NEW limit \in Limits, Latest(limit) PROVE Faded(p)'
  BY <1>3 DEF Latest, table, Faded, Shown, Carried
<1>4. ASSUME NEW limit \in Limits, NEW s \in Slots, TrendingHit(s, limit) PROVE Faded(p)'
  BY <1>1, <1>4 DEF TrendingHit
<1>5. ASSUME NEW limit \in Limits, NEW s \in Slots, TrendingMiss(s, limit) PROVE Faded(p)'
  <2>1. Carried(p)' => Carried(p)
    BY <1>5 DEF TrendingMiss, Carried, TypeOK
  <2> QED
    BY <1>5, <2>1 DEF TrendingMiss, table, Faded, Shown
<1>6. ASSUME NEW s \in Slots, TrendingQuery(s) PROVE Faded(p)'
  <2>1. p \notin Visible
    BY DEF Faded, Visible
  <2>2. Carried(p)' => Carried(p)
    BY <1>6, <2>1 DEF TrendingQuery, Carried, TypeOK
  <2> QED
    BY <1>6, <2>2 DEF TrendingQuery, table, Faded, Shown
<1>7. ASSUME NEW s \in Slots, TrendingFail(s) PROVE Faded(p)'
  <2>1. Carried(p)' => Carried(p)
    BY <1>7 DEF TrendingFail, Idle, Carried, TypeOK
  <2> QED
    BY <1>7, <2>1 DEF TrendingFail, table, Faded, Shown
<1>8. ASSUME NEW s \in Slots, TrendingStore(s) PROVE Faded(p)'
  <2>1. p \notin call[s].page /\ call[s].key \in Keys
    BY <1>8 DEF TrendingStore, Faded, Carried, TypeOK
  <2>2. Carried(p)' => Carried(p)
    BY <1>8 DEF TrendingStore, Idle, Carried, TypeOK
  <2>3. \A k \in Keys : cache'[k] = cache[k] \/ cache'[k].page = call[s].page
    BY <1>8, <2>1 DEF TrendingStore, Store, TypeOK
  <2>4. Shown(p)' => Shown(p)
    BY <2>1, <2>3 DEF Shown
  <2> QED
    BY <1>8, <2>2, <2>4 DEF TrendingStore, table, Faded
<1>9. CASE Tick
  <2>1. \A k \in Keys : cache'[k].page = cache[k].page /\ (cache'[k].left > 0 => cache[k].left > 0)
    <3> SUFFICES ASSUME NEW k \in Keys
                 PROVE  cache'[k].page = cache[k].page /\ (cache'[k].left > 0 => cache[k].left > 0)
      OBVIOUS
    <3>1. cache[k].left \in Nat
      BY DEF TypeOK
    <3>2. cache'[k] = [page |-> cache[k].page,
                       left |-> IF cache[k].left = 0 THEN 0 ELSE cache[k].left - 1]
      BY <1>9 DEF Tick
    <3> QED
      BY <3>1, <3>2
  <2>2. Shown(p)' => Shown(p)
    BY <2>1 DEF Shown
  <2> QED
    BY <1>9, <2>2 DEF Tick, table, Faded, Carried
<1> QED
  BY <1>1, <1>2, <1>3, <1>4, <1>5, <1>6, <1>7, <1>8, <1>9 DEF Next

(***************************************************************************)
(* A withdrawn post that neither the cache nor a call of Trending has any  *)
(* longer is never shown again: the half of WithdrawnFades that is safety. *)
(***************************************************************************)
THEOREM FeedsFadedStaysFaded == Spec => FadedStaysFaded
<1>1. IInv /\ [Next]_vars => [\A p \in Posts : Faded(p) => Faded(p)']_vars
  BY FadedNext
<1> QED
  BY <1>1, FeedsInv, PTL DEF Spec, FadedStaysFaded
=============================================================================
