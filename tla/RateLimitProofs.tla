-------------------------- MODULE RateLimitProofs --------------------------
(***************************************************************************)
(* Proofs about RateLimit, for every set of checks and subjects, every      *)
(* limit, window and grace.  The argument is about what a set forgets: the  *)
(* entry of a hit leaves it because a check with a clock a window ahead     *)
(* trims it, because another check has read the same nanosecond, or because *)
(* the key expires; after none of the three does a hit count in a window,   *)
(* so the hits that count inject into the set that was counted.             *)
(***************************************************************************)
EXTENDS RateLimit, FiniteSetTheorems, FunctionTheorems, TLAPS

USE RateLimitAssumption, NoneAssumption

\* What a check puts into the set.
Slot(x) == [member |-> check[x].member, score |-> check[x].milli]

CheckOK(c) ==
  /\ c.pc = "exec" => c.key \in Keys /\ c.member \in Member /\ ~c.hit
  /\ c.pc \in {"idle", "member"} => ~c.hit
  /\ c.pc = "member" => c.key \in Keys
  /\ c.pc # "idle" => c.milli <= now
  /\ c.pc \in {"admitted", "refused"} => c.hit
  /\ c.hit =>
       /\ c.key \in Keys
       /\ c.member \in Member
       /\ c.pc \in {"admitted", "refused", "error"}
       /\ c.milli <= c.at
       /\ c.at <= now

\* Nothing is in a set that no hit has put there.
Owned(k) == \A e \in zset[k] : \E y \in Hits(k) : e = Slot(y)

\* A key outlives its hits by the window and the grace.
Outlives(k) == \A x \in Hits(k) : expire[k] >= check[x].at + Window + Grace

\* Why the entry of a hit may be missing.
Overtaken(x, k) == \E y \in Hits(k) : check[x].milli <= check[y].milli - Window
Expired(x) == check[x].at + Window + Grace <= now

Kept(k) ==
  \A x \in Hits(k) :
    Lone(x) => Slot(x) \in zset[k] \/ Overtaken(x, k) \/ Expired(x)

\* The sets of the two properties.
Counted(k) == {x \in Current(k) : check[x].pc = "admitted" /\ Lone(x) /\ Prompt(x)}
Busy(x) == {y \in Hits(check[x].key) :
              /\ check[y].at <= check[x].at
              /\ check[y].milli > check[x].milli - Window}

\* EveryWindowBound for all ends of a window, those to come included.
WindowsBound ==
  \A k \in Keys : \A d \in 0..Window, e \in Nat : Cardinality(Within(k, d, e)) <= Limit(k)

\* The inductive invariant.
RLInv ==
  /\ TypeOK
  /\ \A x \in Checks : CheckOK(check[x])
  /\ \A k \in Keys : Owned(k) /\ Outlives(k) /\ Kept(k)
  /\ WindowBound
  /\ WindowsBound
  /\ RefusedOnlyWhenBusy

LEMMA LimitInt == \A k \in Keys : Limit(k) \in Int /\ Limit(k) >= 1
BY DEF Keys, Scopes, Limit, GeneralLimit, PostCreateLimit

LEMMA SubsetOfChecks ==
  ASSUME NEW S \in SUBSET Checks
  PROVE  /\ IsFiniteSet(S)
         /\ Cardinality(S) \in Nat
         /\ \A T \in SUBSET S : Cardinality(T) \in Nat /\ Cardinality(T) <= Cardinality(S)
<1>1. \A T \in SUBSET Checks : IsFiniteSet(T) /\ Cardinality(T) \in Nat
  BY FS_Subset, FS_CardinalityType
<1>2. \A T \in SUBSET S : Cardinality(T) <= Cardinality(S)
  BY <1>1, FS_Subset
<1> QED
  BY <1>1, <1>2

LEMMA RLInit == Init => RLInv
<1> SUFFICES ASSUME Init PROVE RLInv
  OBVIOUS
<1>1. TypeOK
  BY DEF Init, TypeOK, Check
<1>2. \A x \in Checks : CheckOK(check[x])
  BY DEF Init, CheckOK
<1>3. \A k \in Keys : Hits(k) = {} /\ zset[k] = {}
  BY DEF Init, Hits
<1>4. \A k \in Keys : Owned(k) /\ Outlives(k) /\ Kept(k)
  BY <1>3 DEF Owned, Outlives, Kept
<1>5. WindowBound
  <2> SUFFICES ASSUME NEW k \in Keys PROVE Cardinality(Counted(k)) <= Limit(k)
    BY DEF WindowBound, Counted
  <2>1. Counted(k) = {}
    BY <1>3 DEF Counted, Current
  <2> QED
    BY <2>1, LimitInt, FS_EmptySet
<1>6. WindowsBound
  <2> SUFFICES ASSUME NEW k \in Keys, NEW d \in 0..Window, NEW e \in Nat
               PROVE  Cardinality(Within(k, d, e)) <= Limit(k)
    BY DEF WindowsBound
  <2>1. Within(k, d, e) = {}
    BY <1>3 DEF Within
  <2> QED
    BY <2>1, LimitInt, FS_EmptySet
<1>7. RefusedOnlyWhenBusy
  BY DEF Init, RefusedOnlyWhenBusy
<1> QED
  BY <1>1, <1>2, <1>4, <1>5, <1>6, <1>7 DEF RLInv
-----------------------------------------------------------------------------
\* A step that touches no set and no hit: time passes, a check reads a clock,
\* or its transaction is lost.
Quiet ==
  /\ now <= now'
  /\ zset' = zset /\ expire' = expire
  /\ \A x \in Checks :
       /\ check'[x].hit = check[x].hit
       /\ check[x].hit \/ check'[x].pc \in {"admitted", "refused"} => check'[x] = check[x]

\* A step whose transaction takes effect.
Effect(z) ==
  /\ check[z].pc = "exec"
  /\ now' = now
  /\ Store(z)
  /\ \A x \in Checks \ {z} : check'[x] = check[x]
  /\ check'[z].hit /\ check'[z].at = now
  /\ check'[z].key = check[z].key
  /\ check'[z].milli = check[z].milli
  /\ check'[z].member = check[z].member
  /\ check'[z].pc \in {"admitted", "refused", "error"}
  /\ check'[z].pc = "refused" => Cardinality(After(z)) > Limit(check[z].key)
  /\ check'[z].pc = "admitted" => ~(Cardinality(After(z)) > Limit(check[z].key))

\* A store keeps the types.
LEMMA StoreTypes ==
  ASSUME TypeOK, NEW z \in Checks, CheckOK(check[z]), check[z].pc = "exec", Store(z)
  PROVE  zset' \in [Keys -> SUBSET Entry] /\ expire' \in [Keys -> Nat]
<1>1. check[z] \in Check /\ check[z].key \in Keys /\ check[z].member \in Member
  BY DEF TypeOK, CheckOK
<1>2. [member |-> check[z].member, score |-> check[z].milli] \in Entry
  BY <1>1 DEF Check, Entry
<1>3. Live(check[z].key) \subseteq Entry
  BY <1>1 DEF Live, TypeOK
<1>4. After(z) \subseteq Entry
  BY <1>2, <1>3 DEF After, Add, Trim
<1>5. Expiry \in Nat
  BY DEF Expiry, TypeOK
<1> QED
  BY <1>1, <1>4, <1>5 DEF Store, TypeOK

\* Every step of Next is one of the two, and keeps the types and CheckOK.
LEMMA Steps ==
  ASSUME RLInv, [Next]_vars
  PROVE  /\ TypeOK'
         /\ \A x \in Checks : CheckOK(check[x])'
         /\ Quiet \/ \E z \in Checks : Effect(z)
<1> USE DEF RLInv
<1>1. CASE UNCHANGED vars
  BY <1>1 DEF vars, TypeOK, CheckOK, Quiet
<1>2. CASE Tick
  <2>1. now' \in Nat /\ now' = now + 1 /\ UNCHANGED <<zset, expire, check>>
    BY <1>2 DEF Tick, TypeOK
  <2>2. TypeOK'
    BY <2>1 DEF TypeOK
  <2>3. ASSUME NEW x \in Checks PROVE CheckOK(check[x])'
    <3>1. check[x] \in Check /\ CheckOK(check[x]) /\ check'[x] = check[x] /\ now \in Nat
      BY <2>1 DEF TypeOK
    <3> QED
      BY <2>1, <3>1 DEF CheckOK, Check
  <2>4. Quiet
    BY <2>1 DEF Quiet, TypeOK
  <2> QED
    BY <2>2, <2>3, <2>4
<1>3. ASSUME NEW x \in Checks, NEW k \in Keys, Begin(x, k) PROVE
        TypeOK' /\ (\A y \in Checks : CheckOK(check[y])') /\ Quiet
  <2>1. /\ check[x] \in Check /\ check[x].pc = "idle" /\ ~check[x].hit
        /\ UNCHANGED <<now, zset, expire>> /\ now \in Nat
    BY <1>3 DEF Begin, TypeOK, CheckOK
  <2>2. check' = [check EXCEPT ![x] = [check[x] EXCEPT !.pc = "member", !.key = k, !.milli = now]]
    BY <1>3 DEF Begin, TypeOK
  <2>3. [check[x] EXCEPT !.pc = "member", !.key = k, !.milli = now] \in Check
    BY <2>1 DEF Check
  <2>4. TypeOK'
    BY <2>1, <2>2, <2>3 DEF TypeOK
  <2>5. /\ check'[x].pc = "member" /\ check'[x].key = k /\ check'[x].milli = now
        /\ check'[x].hit = check[x].hit
        /\ \A y \in Checks \ {x} : check'[y] = check[y]
    BY <2>1, <2>2 DEF Check, TypeOK
  <2>6. \A y \in Checks : CheckOK(check[y])'
    BY <2>1, <2>5 DEF CheckOK
  <2>7. Quiet
    BY <2>1, <2>5 DEF Quiet
  <2> QED
    BY <2>4, <2>6, <2>7
<1>4. ASSUME NEW x \in Checks, ReadMember(x) PROVE
        TypeOK' /\ (\A y \in Checks : CheckOK(check[y])') /\ Quiet
  <2>1. /\ check[x] \in Check /\ check[x].pc = "member" /\ ~check[x].hit
        /\ check[x].key \in Keys /\ check[x].milli <= now
        /\ UNCHANGED <<now, zset, expire>> /\ now \in Nat
    BY <1>4 DEF ReadMember, TypeOK, CheckOK
  <2>2. PICK p \in Parts : check' = [check EXCEPT ![x] =
          [check[x] EXCEPT !.pc = "exec", !.member = [milli |-> now, part |-> p]]]
    BY <1>4 DEF ReadMember, TypeOK
  <2>3. [milli |-> now, part |-> p] \in Member
    BY <2>1 DEF Member
  <2>4. [check[x] EXCEPT !.pc = "exec", !.member = [milli |-> now, part |-> p]] \in Check
    BY <2>1, <2>3 DEF Check
  <2>5. TypeOK'
    BY <2>1, <2>2, <2>4 DEF TypeOK
  <2>6. /\ check'[x].pc = "exec" /\ check'[x].key = check[x].key
        /\ check'[x].milli = check[x].milli
        /\ check'[x].member \in Member
        /\ check'[x].hit = check[x].hit
        /\ \A y \in Checks \ {x} : check'[y] = check[y]
    BY <2>1, <2>2, <2>3 DEF Check, TypeOK
  <2>7. \A y \in Checks : CheckOK(check[y])'
    BY <2>1, <2>6 DEF CheckOK
  <2>8. Quiet
    BY <2>1, <2>6 DEF Quiet
  <2> QED
    BY <2>5, <2>7, <2>8
<1>5. ASSUME NEW x \in Checks, NEW v \in {"admitted", "refused", "error"},
             check[x].pc = "exec", Store(x), now' = now,
             check' = [check EXCEPT ![x] = [check[x] EXCEPT !.pc = v, !.hit = TRUE, !.at = now]],
             v = "refused" => Cardinality(After(x)) > Limit(check[x].key),
             v = "admitted" => ~(Cardinality(After(x)) > Limit(check[x].key))
      PROVE  TypeOK' /\ (\A y \in Checks : CheckOK(check[y])') /\ Effect(x)
  <2>1. /\ check[x] \in Check /\ CheckOK(check[x])
        /\ check[x].key \in Keys /\ check[x].member \in Member
        /\ check[x].milli <= now /\ now \in Nat
    BY <1>5 DEF TypeOK, CheckOK
  <2>2. [check[x] EXCEPT !.pc = v, !.hit = TRUE, !.at = now] \in Check
    BY <2>1 DEF Check
  <2>3. TypeOK'
    BY <1>5, <2>1, <2>2, StoreTypes DEF TypeOK
  <2>4. /\ check'[x].pc = v /\ check'[x].hit /\ check'[x].at = now
        /\ check'[x].key = check[x].key /\ check'[x].milli = check[x].milli
        /\ check'[x].member = check[x].member
        /\ \A y \in Checks \ {x} : check'[y] = check[y]
    BY <1>5, <2>1 DEF Check, TypeOK
  <2>5. \A y \in Checks : CheckOK(check[y])'
    BY <1>5, <2>1, <2>4 DEF CheckOK
  <2>6. Effect(x)
    BY <1>5, <2>4 DEF Effect
  <2> QED
    BY <2>3, <2>5, <2>6
<1>6. ASSUME NEW x \in Checks, Exec(x) PROVE
        TypeOK' /\ (\A y \in Checks : CheckOK(check[y])') /\ Effect(x)
  <2> DEFINE v == IF Cardinality(After(x)) > Limit(check[x].key)
                  THEN "refused" ELSE "admitted"
  <2>1. check' = [check EXCEPT ![x] = [check[x] EXCEPT !.pc = v, !.hit = TRUE, !.at = now]]
    BY <1>6 DEF Exec, TypeOK, Check
  <2>2. /\ v \in {"admitted", "refused", "error"}
        /\ v = "refused" => Cardinality(After(x)) > Limit(check[x].key)
        /\ v = "admitted" => ~(Cardinality(After(x)) > Limit(check[x].key))
    OBVIOUS
  <2>3. check[x].pc = "exec" /\ Store(x) /\ now' = now
    BY <1>6 DEF Exec
  <2> HIDE DEF v
  <2> QED
    BY <1>5, <2>1, <2>2, <2>3
<1>7. ASSUME NEW x \in Checks, ExecError(x) PROVE
        TypeOK' /\ (\A y \in Checks : CheckOK(check[y])') /\ (Quiet \/ Effect(x))
  <2>1. check[x].pc = "exec" /\ now' = now /\ check[x] \in Check
    BY <1>7 DEF ExecError, TypeOK
  <2>2. CASE Store(x) /\ check' = [check EXCEPT ![x].pc = "error", ![x].hit = TRUE, ![x].at = now]
    <3>1. check' = [check EXCEPT ![x] = [check[x] EXCEPT !.pc = "error", !.hit = TRUE, !.at = now]]
      BY <2>2 DEF TypeOK, Check
    <3> QED
      BY <1>5, <2>1, <2>2, <3>1
  <2>3. CASE check' = [check EXCEPT ![x].pc = "error"] /\ UNCHANGED <<zset, expire>>
    <3>1. /\ check'[x].pc = "error" /\ check'[x].hit = check[x].hit
          /\ \A y \in Checks \ {x} : check'[y] = check[y]
      BY <2>1, <2>3 DEF Check, TypeOK
    <3>2. check' \in [Checks -> Check]
      BY <2>1, <2>3 DEF Check, TypeOK
    <3>3. ~check[x].hit
      BY <2>1 DEF CheckOK
    <3> QED
      BY <2>1, <2>3, <3>1, <3>2, <3>3 DEF TypeOK, CheckOK, Quiet
  <2> QED
    BY <1>7, <2>2, <2>3 DEF ExecError
<1> QED
  BY <1>1, <1>2, <1>3, <1>4, <1>6, <1>7 DEF Next
-----------------------------------------------------------------------------
\* Everything RLInv says about sets, bounds and refusals.
Promises ==
  /\ \A k \in Keys : Owned(k) /\ Outlives(k) /\ Kept(k)
  /\ WindowBound
  /\ WindowsBound
  /\ RefusedOnlyWhenBusy

LEMMA QuietPromises ==
  ASSUME RLInv, TypeOK', Quiet
  PROVE  Promises'
<1> USE DEF RLInv
<1>1. \A k \in Keys : Hits(k)' = Hits(k)
  BY DEF Quiet, Hits
<1>2. \A k \in Keys : \A x \in Hits(k) : check'[x] = check[x] /\ x \in Checks /\ check[x].key = k
  BY DEF Quiet, Hits
<1>3. \A k \in Keys : \A x \in Hits(k) : Lone(x)' <=> Lone(x)
  BY <1>1, <1>2 DEF Lone
<1>4. \A k \in Keys : Owned(k)'
  BY <1>1, <1>2 DEF Quiet, Owned, Slot
<1>5. \A k \in Keys : Outlives(k)'
  BY <1>1, <1>2 DEF Quiet, Outlives
<1>6. ASSUME NEW k \in Keys, NEW x \in Hits(k), Lone(x)
      PROVE  (Slot(x) \in zset[k] \/ Overtaken(x, k) \/ Expired(x))'
  <2>1. Slot(x) \in zset[k] \/ Overtaken(x, k) \/ Expired(x)
    BY <1>6 DEF Kept
  <2>2. Slot(x) \in zset[k] => (Slot(x) \in zset[k])'
    BY <1>2 DEF Slot, Quiet
  <2>3. Overtaken(x, k) => Overtaken(x, k)'
    BY <1>1, <1>2 DEF Overtaken
  <2>4. check[x].at \in Nat /\ now \in Nat /\ now' \in Nat /\ now <= now' /\ check'[x] = check[x]
    BY <1>2 DEF TypeOK, Check, Quiet
  <2>5. Expired(x) => Expired(x)'
    BY <2>4 DEF Expired
  <2> QED
    BY <2>1, <2>2, <2>3, <2>5
<1>7. \A k \in Keys : Kept(k)'
  BY <1>1, <1>3, <1>6 DEF Kept
<1>8. WindowBound'
  <2> SUFFICES ASSUME NEW k \in Keys PROVE Cardinality(Counted(k)') <= Limit(k)
    BY DEF WindowBound, Counted
  <2>1. Current(k)' = Current(k)
    BY <1>1, <1>2 DEF Current
  <2>2. \A x \in Current(k) : Prompt(x)' <=> Prompt(x)
    BY <1>2 DEF Prompt, Current
  <2>3. Counted(k)' = Counted(k)
    BY <1>2, <1>3, <2>1, <2>2 DEF Counted, Current
  <2> QED
    BY <2>3 DEF WindowBound, Counted
<1>9. RefusedOnlyWhenBusy'
  <2> SUFFICES ASSUME NEW x \in Checks, check'[x].pc = "refused"
               PROVE  Cardinality(Busy(x)') > Limit(check'[x].key)
    BY DEF RefusedOnlyWhenBusy, Busy
  <2>1. check'[x] = check[x]
    BY DEF Quiet
  <2>2. check[x].key \in Keys
    BY <2>1 DEF CheckOK
  <2>3. Busy(x)' = Busy(x)
    BY <1>1, <1>2, <2>1, <2>2 DEF Busy
  <2> QED
    BY <2>1, <2>3 DEF RefusedOnlyWhenBusy, Busy
<1>10. WindowsBound'
  <2> SUFFICES ASSUME NEW k \in Keys, NEW d \in 0..Window, NEW e \in Nat
               PROVE  Cardinality(Within(k, d, e)') <= Limit(k)
    BY DEF WindowsBound
  <2>1. Within(k, d, e)' = Within(k, d, e)
    BY <1>1, <1>2, <1>3 DEF Within
  <2> QED
    BY <2>1 DEF WindowsBound
<1> QED
  BY <1>4, <1>5, <1>7, <1>8, <1>9, <1>10 DEF Promises

\* What an effect does to the hits.
LEMMA EffectHits ==
  ASSUME RLInv, TypeOK', NEW z \in Checks, Effect(z)
  PROVE  LET k == check[z].key
         IN  /\ k \in Keys
             /\ z \notin Hits(k)
             /\ Hits(k)' = Hits(k) \cup {z}
             /\ \A j \in Keys \ {k} : Hits(j)' = Hits(j) /\ z \notin Hits(j)
             /\ \A x \in Checks : x # z => check'[x] = check[x] /\ Slot(x)' = Slot(x)
             /\ Slot(z)' = Slot(z)
             /\ \A x \in Hits(k) : Lone(x)' => Lone(x) /\ check[x].member # check[z].member
             /\ \A j \in Keys \ {k} : \A x \in Hits(j) : Lone(x)' <=> Lone(x)
             /\ zset'[k] = After(z) /\ expire'[k] = Expiry
             /\ \A j \in Keys \ {k} : zset'[j] = zset[j] /\ expire'[j] = expire[j]
<1> DEFINE k == check[z].key
<1> USE DEF RLInv
<1>1. k \in Keys /\ ~check[z].hit
  BY DEF Effect, CheckOK
<1>2. /\ \A x \in Checks : x # z => check'[x] = check[x]
      /\ check'[z].hit /\ check'[z].key = k
      /\ check'[z].member = check[z].member /\ check'[z].milli = check[z].milli
  BY DEF Effect
<1>3. /\ z \notin Hits(k) /\ Hits(k)' = Hits(k) \cup {z}
      /\ \A j \in Keys \ {k} : Hits(j)' = Hits(j) /\ z \notin Hits(j)
  BY <1>1, <1>2 DEF Hits
<1>4. /\ \A x \in Checks : x # z => Slot(x)' = Slot(x)
      /\ Slot(z)' = Slot(z)
  BY <1>2 DEF Slot
<1>5. \A x \in Hits(k) : x \in Checks /\ x # z /\ check[x].key = k
  BY <1>3 DEF Hits
<1>6. \A x \in Hits(k) : Lone(x)' => Lone(x) /\ check[x].member # check[z].member
  BY <1>2, <1>3, <1>5 DEF Lone
<1>7. ASSUME NEW j \in Keys \ {k}, NEW x \in Hits(j) PROVE Lone(x)' <=> Lone(x)
  <2>1. x \in Checks /\ x # z /\ check[x].key = j /\ check'[x] = check[x]
    BY <1>2, <1>3 DEF Hits
  <2>2. \A y \in Hits(j) : check'[y] = check[y]
    BY <1>2, <1>3 DEF Hits
  <2> QED
    BY <1>3, <2>1, <2>2 DEF Lone
<1>8. /\ zset'[k] = After(z) /\ expire'[k] = Expiry
      /\ \A j \in Keys \ {k} : zset'[j] = zset[j] /\ expire'[j] = expire[j]
  BY <1>1 DEF Effect, Store, TypeOK
<1> QED
  BY <1>1, <1>2, <1>3, <1>4, <1>6, <1>7, <1>8

\* What the transaction counted came from hits that are busy for it.
LEMMA AfterFromBusy ==
  ASSUME RLInv, TypeOK', NEW z \in Checks, Effect(z)
  PROVE  /\ \A e \in After(z) : \E y \in Busy(z)' : e = Slot(y)
         /\ IsFiniteSet(After(z))
         /\ Cardinality(After(z)) \in Nat
         /\ Cardinality(After(z)) <= Cardinality(Busy(z)')
<1> DEFINE k == check[z].key
           B == Busy(z)'
           A == After(z)
<1> USE DEF RLInv
<1>1. /\ k \in Keys /\ z \notin Hits(k)
      /\ Hits(k)' = Hits(k) \cup {z}
      /\ \A x \in Checks : x # z => check'[x] = check[x]
  BY EffectHits
<1>2. /\ check'[z].key = k /\ check'[z].milli = check[z].milli
      /\ check'[z].at = now /\ check[z].milli \in Nat /\ now \in Nat
  BY DEF Effect, TypeOK, Check
<1>3. z \in B
  BY <1>1, <1>2 DEF Busy
<1>4. ASSUME NEW e \in A PROVE \E y \in B : e = Slot(y)
  <2>1. CASE e = Slot(z)
    BY <1>3, <2>1
  <2>2. CASE e # Slot(z)
    <3>1. e \in zset[k] /\ e.score > check[z].milli - Window
      BY <2>2 DEF After, Add, Trim, Live, Slot
    <3>2. PICK y \in Hits(k) : e = Slot(y)
      BY <1>1, <3>1 DEF Owned
    <3>3. y \in Checks /\ y # z /\ check[y].hit /\ check'[y] = check[y]
      BY <1>1 DEF Hits
    <3>4. check[y].milli = e.score
      BY <3>2 DEF Slot
    <3>5. check[y].at <= now
      BY <3>3 DEF CheckOK
    <3>6. y \in B
      BY <1>1, <1>2, <3>1, <3>3, <3>4, <3>5 DEF Busy
    <3> QED
      BY <3>2, <3>6
  <2> QED
    BY <2>1, <2>2
<1> DEFINE g == [e \in A |-> CHOOSE y \in B : e = Slot(y)]
<1> HIDE DEF A, B
<1>5. \A e \in A : g[e] \in B /\ e = Slot(g[e])
  BY <1>4
<1>6. g \in [A -> B]
  BY <1>5
<1> HIDE DEF g
<1>7. \A a, b \in A : g[a] = g[b] => a = b
  BY <1>5
<1>8. g \in Injection(A, B)
  BY <1>6, <1>7, Fun_IsInj
<1>9. B \subseteq Checks
  BY DEF B, Busy, Hits
<1>10. IsFiniteSet(B)
  BY <1>9, SubsetOfChecks
<1>11. IsFiniteSet(A) /\ Cardinality(A) <= Cardinality(B)
  BY <1>8, <1>10, FS_Injection
<1> QED
  BY <1>4, <1>11, FS_CardinalityType DEF A, B

LEMMA EffectRefusals ==
  ASSUME RLInv, TypeOK', NEW z \in Checks, Effect(z)
  PROVE  RefusedOnlyWhenBusy'
<1> USE DEF RLInv
<1> SUFFICES ASSUME NEW x \in Checks, check'[x].pc = "refused"
             PROVE  Cardinality(Busy(x)') > Limit(check'[x].key)
  BY DEF RefusedOnlyWhenBusy, Busy
<1>1. Busy(x)' \in SUBSET Checks
  BY DEF Busy, Hits
<1>2. Cardinality(Busy(x)') \in Nat
  BY <1>1, SubsetOfChecks
<1>3. CASE x = z
  <2>1. /\ Cardinality(After(z)) > Limit(check[z].key)
        /\ check'[z].key = check[z].key
        /\ check[z].key \in Keys
    BY <1>3, EffectHits DEF Effect
  <2> QED
    BY <1>2, <1>3, <2>1, AfterFromBusy, LimitInt
<1>4. CASE x # z
  <2>1. check'[x] = check[x]
    BY <1>4, EffectHits
  <2>2. check[x].key \in Keys
    BY <2>1 DEF CheckOK
  <2>3. Busy(x) \subseteq Busy(x)'
    <3> SUFFICES ASSUME NEW y \in Busy(x) PROVE y \in Busy(x)'
      OBVIOUS
    <3>1. y \in Hits(check[x].key)
      BY DEF Busy
    <3>2. y # z /\ y \in Checks /\ y \in Hits(check[x].key)'
      BY <2>2, <3>1, EffectHits DEF Hits
    <3>3. check'[y] = check[y]
      BY <3>2, EffectHits
    <3> QED
      BY <2>1, <3>2, <3>3 DEF Busy
  <2>4. Cardinality(Busy(x)) <= Cardinality(Busy(x)') /\ Cardinality(Busy(x)) \in Nat
    BY <1>1, <2>3, SubsetOfChecks
  <2>5. Cardinality(Busy(x)) > Limit(check[x].key)
    BY <2>1 DEF RefusedOnlyWhenBusy, Busy
  <2> QED
    BY <1>2, <2>1, <2>2, <2>4, <2>5, LimitInt
<1> QED
  BY <1>3, <1>4

LEMMA EffectSets ==
  ASSUME RLInv, TypeOK', NEW z \in Checks, Effect(z), NEW j \in Keys
  PROVE  Owned(j)' /\ Outlives(j)' /\ Kept(j)'
<1> DEFINE k == check[z].key
<1> USE DEF RLInv
<1>1. /\ k \in Keys /\ z \in Checks /\ now' = now /\ now \in Nat
      /\ check'[z].at = now /\ check'[z].milli = check[z].milli /\ check[z].milli \in Nat
  BY EffectHits DEF Effect, TypeOK, Check
<1>2. CASE j # k
  <2>1. /\ Hits(j)' = Hits(j) /\ zset'[j] = zset[j] /\ expire'[j] = expire[j]
        /\ \A x \in Hits(j) : Lone(x)' <=> Lone(x)
    BY <1>2, EffectHits
  <2>2. \A x \in Hits(j) : x \in Checks /\ check'[x] = check[x] /\ Slot(x)' = Slot(x)
    BY <1>2, EffectHits DEF Hits
  <2>3. Owned(j)' /\ Outlives(j)'
    BY <2>1, <2>2 DEF Owned, Outlives
  <2>4. \A x \in Hits(j) : /\ Overtaken(x, j)' <=> Overtaken(x, j)
                           /\ Expired(x)' <=> Expired(x)
    BY <1>1, <2>1, <2>2 DEF Overtaken, Expired
  <2>5. Kept(j)'
    BY <2>1, <2>2, <2>4 DEF Kept
  <2> QED
    BY <2>3, <2>5
<1>3. CASE j = k
  <2>1. /\ z \notin Hits(j) /\ Hits(j)' = Hits(j) \cup {z}
        /\ \A x \in Checks : x # z => check'[x] = check[x] /\ Slot(x)' = Slot(x)
        /\ Slot(z)' = Slot(z)
        /\ zset'[j] = After(z) /\ expire'[j] = Expiry
    BY <1>3, EffectHits DEF Effect
  <2>2. \A x \in Hits(j) : x \in Checks /\ x # z
    BY <2>1 DEF Hits
  <2>3. Owned(j)'
    <3> SUFFICES ASSUME NEW e \in After(z) PROVE \E y \in Hits(j)' : e = Slot(y)'
      BY <2>1 DEF Owned
    <3>1. PICK y \in Busy(z)' : e = Slot(y)
      BY AfterFromBusy
    <3>2. check'[z].key = j
      BY <1>3 DEF Effect
    <3>3. y \in Hits(j)'
      BY <3>1, <3>2 DEF Busy
    <3> QED
      BY <2>1, <2>2, <3>1, <3>3
  <2>4. Outlives(j)'
    <3>1. \A x \in Hits(j) : check[x].at <= now /\ check[x].at \in Nat
      BY <2>2 DEF TypeOK, Check, CheckOK, Hits
    <3>2. \A x \in Hits(j)' : check'[x].at <= now /\ check'[x].at \in Nat
      BY <1>1, <2>1, <2>2, <3>1
    <3> QED
      BY <1>1, <2>1, <3>2 DEF Outlives, Expiry
  <2>5. Kept(j)'
    <3> SUFFICES ASSUME NEW x \in Hits(j)', Lone(x)'
                 PROVE  (Slot(x) \in zset[j] \/ Overtaken(x, j) \/ Expired(x))'
      BY DEF Kept
    <3>1. CASE x = z
      BY <1>3, <2>1, <3>1 DEF After, Add, Slot
    <3>2. CASE x # z
      <4>1. x \in Hits(j) /\ x \in Checks /\ check'[x] = check[x] /\ Slot(x)' = Slot(x)
        BY <2>1, <2>2, <3>2
      <4>2. Lone(x) /\ check[x].member # check[z].member
        BY <1>3, <4>1, EffectHits
      <4>3. Slot(x) \in zset[j] \/ Overtaken(x, j) \/ Expired(x)
        BY <1>1, <4>1, <4>2 DEF Kept
      <4>4. CASE Overtaken(x, j)
        BY <2>1, <2>2, <4>1, <4>4 DEF Overtaken
      <4>5. CASE Expired(x)
        BY <1>1, <4>1, <4>5 DEF Expired
      <4>6. CASE Slot(x) \in zset[j] /\ ~Expired(x) /\ ~Overtaken(x, j)'
        <5>1. now < expire[j]
          <6>1. expire[j] >= check[x].at + Window + Grace
            BY <1>1, <4>1 DEF Outlives
          <6>2. check[x].at \in Nat /\ expire[j] \in Nat
            BY <1>1, <4>1 DEF TypeOK, Check
          <6> QED
            BY <1>1, <4>6, <6>1, <6>2 DEF Expired
        <5>2. check[x].milli > check[z].milli - Window
          <6>1. check[x].milli \in Nat
            BY <4>1 DEF TypeOK, Check
          <6>2. ~(check[x].milli <= check[z].milli - Window)
            BY <1>1, <2>1, <4>1, <4>6 DEF Overtaken
          <6> QED
            BY <1>1, <6>1, <6>2
        <5>3. Slot(x) \in After(z)
          BY <1>3, <4>2, <4>6, <5>1, <5>2 DEF After, Add, Trim, Live, Slot
        <5> QED
          BY <2>1, <4>1, <5>3
      <4> QED
        BY <4>1, <4>3, <4>4, <4>5, <4>6
    <3> QED
      BY <3>1, <3>2
  <2> QED
    BY <2>3, <2>4, <2>5
<1> QED
  BY <1>2, <1>3

\* An earlier hit that nothing has made the set forget is still in it when z
\* has trimmed it.
LEMMA Retained ==
  ASSUME RLInv, TypeOK', NEW z \in Checks, Effect(z),
         NEW x \in Hits(check[z].key), Lone(x)',
         check[x].milli > check[z].milli - Window,
         ~Overtaken(x, check[z].key), ~Expired(x)
  PROVE  Slot(x) \in After(z)
<1> DEFINE k == check[z].key
<1> USE DEF RLInv
<1>1. k \in Keys /\ x \in Checks /\ now \in Nat /\ check[x].at \in Nat
  BY EffectHits DEF Hits, TypeOK, Check
<1>2. Lone(x) /\ check[x].member # check[z].member
  BY EffectHits
<1>3. Slot(x) \in zset[k]
  BY <1>1, <1>2 DEF Kept
<1>4. now < expire[k]
  <2>1. expire[k] >= check[x].at + Window + Grace
    BY <1>1 DEF Outlives
  <2>2. expire[k] \in Nat
    BY <1>1 DEF TypeOK
  <2> QED
    BY <1>1, <2>1, <2>2 DEF Expired
<1> QED
  BY <1>2, <1>3, <1>4 DEF After, Add, Trim, Live, Slot

\* Hits whose nanoseconds differ, and that are all in the set z has counted,
\* are within the limit if z is admitted.
LEMMA CountedWithin ==
  ASSUME RLInv, TypeOK', NEW z \in Checks, Effect(z), check'[z].pc = "admitted",
         NEW k \in Keys, k = check[z].key, NEW S \in SUBSET (Hits(k)'),
         \A x \in S : Lone(x)' /\ Slot(x) \in After(z)
  PROVE  Cardinality(S) <= Limit(k)
<1> DEFINE A == After(z)
           g == [x \in S |-> Slot(x)]
<1>1. \A x \in S : x \in Checks /\ check'[x].key = k
  BY DEF Hits
<1>2. \A a, b \in S : Slot(a) = Slot(b) => a = b
  <2> SUFFICES ASSUME NEW a \in S, NEW b \in S, Slot(a) = Slot(b) PROVE a = b
    OBVIOUS
  <2>1. check[a].member = check[b].member
    BY DEF Slot
  <2>2. check'[a].member = check[a].member /\ check'[b].member = check[b].member
    BY <1>1 DEF Effect
  <2> QED
    BY <1>1, <2>1, <2>2 DEF Lone
<1> HIDE DEF A
<1>3. \A x \in S : g[x] = Slot(x) /\ g[x] \in A
  BY DEF A
<1>4. g \in [S -> A]
  BY <1>3
<1>5. \A a, b \in S : g[a] = g[b] => a = b
  BY <1>2, <1>3
<1> HIDE DEF g
<1>6. g \in Injection(S, A)
  BY <1>4, <1>5, Fun_IsInj
<1>7. IsFiniteSet(A) /\ Cardinality(A) \in Nat
  BY AfterFromBusy DEF A
<1>8. Cardinality(S) <= Cardinality(A)
  BY <1>6, <1>7, FS_Injection
<1>9. ~(Cardinality(A) > Limit(k))
  BY DEF Effect, A
<1>10. Cardinality(S) \in Nat
  BY <1>1, SubsetOfChecks
<1> QED
  BY <1>1, <1>7, <1>8, <1>9, <1>10, LimitInt

\* If z joins what counts, all of it is in the set that z counted.
LEMMA EffectWindow ==
  ASSUME RLInv, TypeOK', NEW z \in Checks, Effect(z), NEW j \in Keys
  PROVE  Cardinality(Counted(j)') <= Limit(j)
<1> USE DEF RLInv
<1>1. /\ check[z].key \in Keys /\ now' = now /\ now \in Nat
      /\ check'[z].at = now /\ check'[z].milli = check[z].milli /\ check[z].milli \in Nat
      /\ check'[z].key = check[z].key
  BY EffectHits DEF Effect, TypeOK, Check
<1>2. Cardinality(Counted(j)) <= Limit(j)
  BY DEF WindowBound, Counted
<1>3. /\ Counted(j) \in SUBSET Checks /\ Counted(j)' \in SUBSET Checks
      /\ z \notin Counted(j)
      /\ Counted(j)' \subseteq Hits(j)'
  BY DEF Counted, Current, Hits, Effect
<1>4. ASSUME NEW x \in Counted(j)', x # z PROVE x \in Counted(j)
  <2>1. x \in Checks /\ x \in Hits(j) /\ check'[x] = check[x] /\ Hits(j) \subseteq Hits(j)'
    BY <1>1, <1>3, <1>4, EffectHits DEF Hits
  <2>2. Lone(x)
    BY <1>1, <1>4, <2>1, EffectHits DEF Counted
  <2>3. \A y \in Hits(j) : check'[y] = check[y]
    BY EffectHits DEF Hits, Effect
  <2>4. x \in Current(j)
    BY <1>4, <2>1, <2>3 DEF Counted, Current
  <2> QED
    BY <1>4, <2>1, <2>2, <2>4 DEF Counted, Prompt
<1>5. CASE z \notin Counted(j)'
  <2>1. Counted(j)' \in SUBSET Counted(j)
    BY <1>4, <1>5
  <2>2. /\ Cardinality(Counted(j)') <= Cardinality(Counted(j))
        /\ Cardinality(Counted(j)') \in Nat /\ Cardinality(Counted(j)) \in Nat
    BY <1>3, <2>1, SubsetOfChecks
  <2> QED
    BY <1>2, <2>2, LimitInt
<1>6. CASE z \in Counted(j)'
  <2> DEFINE S == Counted(j)'
  <2>1. /\ j = check[z].key
        /\ check'[z].pc = "admitted"
        /\ now <= check[z].milli + Grace
        /\ \A y \in Hits(j)' : check[z].milli > check'[y].milli - Window
    BY <1>1, <1>6 DEF Counted, Current, Hits, Prompt
  <2>2. Slot(z) \in After(z)
    BY DEF After, Add, Slot
  <2>3. ASSUME NEW x \in S, x # z PROVE Slot(x) \in After(z)
    <3>1. /\ x \in Checks /\ x \in Hits(j) /\ check'[x] = check[x] /\ z \in Hits(j)'
          /\ Hits(j) \subseteq Hits(j)' /\ \A y \in Hits(j) : check'[y] = check[y]
      BY <1>1, <1>3, <1>6, <2>1, <2>3, EffectHits DEF Hits
    <3>2. /\ check[x].milli > check[z].milli - Window
          /\ \A y \in Hits(j) : check[x].milli > check[y].milli - Window
      BY <1>1, <3>1 DEF Counted, Current
    <3>3. /\ check[x].milli \in Nat /\ check[x].at \in Nat /\ check[x].milli <= check[x].at
          /\ \A y \in Hits(j) : check[y].milli \in Nat
      BY <3>1 DEF TypeOK, Check, CheckOK, Hits
    <3>4. ~Overtaken(x, j) /\ ~Expired(x)
      BY <1>1, <2>1, <3>2, <3>3 DEF Overtaken, Expired
    <3> QED
      BY <2>1, <3>1, <3>2, <3>4, Retained DEF Counted
  <2> QED
    BY <1>3, <2>1, <2>2, <2>3, CountedWithin DEF Counted
<1> QED
  BY <1>5, <1>6

\* The same for a window laid anywhere: a clock that overtakes one of its hits
\* is ahead of z's by no more than z was late.
LEMMA EffectWindows ==
  ASSUME RLInv, TypeOK', NEW z \in Checks, Effect(z), NEW j \in Keys,
         NEW d \in 0..Window, NEW e \in Nat
  PROVE  Cardinality(Within(j, d, e)') <= Limit(j)
<1> USE DEF RLInv
<1> DEFINE S == Within(j, d, e)'
<1>1. /\ check[z].key \in Keys /\ now' = now /\ now \in Nat /\ d \in Nat /\ d <= Window
      /\ check'[z].at = now /\ check'[z].milli = check[z].milli /\ check[z].milli \in Nat
      /\ check'[z].key = check[z].key
  BY EffectHits DEF Effect, TypeOK, Check
<1>2. /\ Within(j, d, e) \in SUBSET Checks /\ S \in SUBSET Checks
      /\ z \notin Within(j, d, e) /\ S \subseteq Hits(j)'
  BY DEF Within, Hits, Effect
<1>3. ASSUME NEW x \in S, x # z
      PROVE  /\ x \in Checks /\ x \in Hits(j) /\ check'[x] = check[x]
             /\ Lone(x) /\ x \in Within(j, d, e)
  <2>1. x \in Checks /\ x \in Hits(j) /\ check'[x] = check[x]
    BY <1>1, <1>2, <1>3, EffectHits DEF Hits
  <2>2. Lone(x)
    BY <1>1, <1>3, <2>1, EffectHits DEF Within
  <2> QED
    BY <1>3, <2>1, <2>2 DEF Within
<1>4. CASE z \notin S
  <2>1. S \in SUBSET Within(j, d, e)
    BY <1>3, <1>4
  <2>2. /\ Cardinality(S) <= Cardinality(Within(j, d, e))
        /\ Cardinality(S) \in Nat /\ Cardinality(Within(j, d, e)) \in Nat
    BY <1>2, <2>1, SubsetOfChecks
  <2>3. Cardinality(Within(j, d, e)) <= Limit(j)
    BY DEF WindowsBound
  <2> QED
    BY <2>2, <2>3, LimitInt
<1>5. CASE z \in S
  <2>1. /\ j = check[z].key
        /\ check'[z].pc = "admitted"
        /\ now <= check[z].milli + d
        /\ check[z].milli <= e
    BY <1>1, <1>5 DEF Within, Hits
  <2>2. Slot(z) \in After(z)
    BY DEF After, Add, Slot
  <2>3. ASSUME NEW x \in S, x # z PROVE Slot(x) \in After(z)
    <3>1. /\ x \in Hits(j) /\ check[x].milli > e - Window + d
          /\ check[x].milli \in Nat /\ check[x].at \in Nat /\ check[x].milli <= check[x].at
      BY <1>3, <2>3 DEF Within, TypeOK, Check, CheckOK, Hits
    <3>2. \A y \in Hits(j) : check[y].milli \in Nat /\ check[y].milli <= now
      BY <1>1 DEF TypeOK, Check, CheckOK, Hits
    <3>3. /\ check[x].milli > check[z].milli - Window
          /\ check[x].milli > now - Window
      BY <1>1, <2>1, <3>1
    <3>4. ~Overtaken(x, j) /\ ~Expired(x)
      BY <1>1, <3>1, <3>2, <3>3 DEF Overtaken, Expired
    <3> QED
      BY <2>1, <2>3, <3>1, <3>3, <3>4, Retained DEF Within
  <2> QED
    BY <1>2, <2>1, <2>2, <2>3, CountedWithin DEF Within
<1> QED
  BY <1>4, <1>5
-----------------------------------------------------------------------------
LEMMA RLStep == RLInv /\ [Next]_vars => RLInv'
<1> SUFFICES ASSUME RLInv, [Next]_vars PROVE RLInv'
  OBVIOUS
<1>1. TypeOK' /\ \A x \in Checks : CheckOK(check[x])'
  BY Steps
<1>2. Promises'
  <2>1. CASE Quiet
    BY <1>1, <2>1, QuietPromises
  <2>2. ASSUME NEW z \in Checks, Effect(z) PROVE Promises'
    <3>1. WindowBound'
      <4> SUFFICES ASSUME NEW j \in Keys PROVE Cardinality(Counted(j)') <= Limit(j)
        BY DEF WindowBound, Counted
      <4> QED
        BY <1>1, <2>2, EffectWindow
    <3>2. WindowsBound'
      <4> SUFFICES ASSUME NEW j \in Keys, NEW d \in 0..Window, NEW e \in Nat
                   PROVE  Cardinality(Within(j, d, e)') <= Limit(j)
        BY DEF WindowsBound
      <4> QED
        BY <1>1, <2>2, EffectWindows
    <3> QED
      BY <1>1, <2>2, <3>1, <3>2, EffectSets, EffectRefusals DEF Promises
  <2> QED
    BY <2>1, <2>2, Steps
<1> QED
  BY <1>1, <1>2 DEF RLInv, Promises

THEOREM RateLimitInvariant == Spec => []RLInv
<1> QED
  BY RLInit, RLStep, PTL DEF Spec

(***************************************************************************)
(* The sorted sets and the checks keep their types.                         *)
(***************************************************************************)
THEOREM RateLimitTypes == Spec => []TypeOK
<1>1. RLInv => TypeOK
  BY DEF RLInv
<1> QED
  BY <1>1, RateLimitInvariant, PTL

(***************************************************************************)
(* The handler of ratelimit.go admits no more than the limit in a window,   *)
(* for any number of concurrent requests and any limit, window and grace.   *)
(***************************************************************************)
THEOREM RateLimitWindowBound == Spec => []WindowBound
<1>1. RLInv => WindowBound
  BY DEF RLInv
<1> QED
  BY <1>1, RateLimitInvariant, PTL

(***************************************************************************)
(* Nor does it in a window laid anywhere else, among checks that reach      *)
(* Redis at once; checks that take up to d shorten that window by d.        *)
(***************************************************************************)
THEOREM RateLimitEveryWindow == Spec => []EveryWindowBound
<1>1. RLInv => EveryWindowBound
  <2> SUFFICES ASSUME RLInv, NEW k \in Keys, NEW d \in 0..Window, NEW e \in 0..now
               PROVE  Cardinality(Within(k, d, e)) <= Limit(k)
    BY DEF EveryWindowBound
  <2>1. e \in Nat
    BY DEF RLInv, TypeOK
  <2> QED
    BY <2>1 DEF RLInv, WindowsBound
<1> QED
  BY <1>1, RateLimitInvariant, PTL

(***************************************************************************)
(* Whoever it refuses had more than the limit within a window of its clock. *)
(***************************************************************************)
THEOREM RateLimitRefusals == Spec => []RefusedOnlyWhenBusy
<1>1. RLInv => RefusedOnlyWhenBusy
  BY DEF RLInv
<1> QED
  BY <1>1, RateLimitInvariant, PTL
=============================================================================
