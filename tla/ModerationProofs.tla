-------------------------- MODULE ModerationProofs --------------------------
(***************************************************************************)
(* Proofs about Moderation, for every set of posts, reporters, concurrent   *)
(* calls and moderators and every threshold, with and without failures.     *)
(***************************************************************************)
EXTENDS Moderation, FiniteSetTheorems, TLAPS

USE ModerationAssumption DEF ModerationAssumption

(* The inductive invariant.                                                *)

\* A row in flight is new and alone, its post cannot go away, and a call
\* that hides has counted enough rows.
Ongoing(s) ==
  /\ create[s].pc # "idle" => create[s].post \in Posts /\ create[s].reporter \in Reporters
  /\ Inserted(s) => /\ posts[create[s].post] # "deleted"
                    /\ reports[create[s].post][create[s].reporter] = "none"
  /\ create[s].hides => create[s].pc = "commit"
  /\ create[s].pc = "count" => Threshold > 0
  /\ create[s].pc = "hide" \/ create[s].hides =>
       Threshold > 0 /\ Cardinality(Reported(create[s].post)) + 1 >= Threshold

Apart(s, t) ==
  Inserted(s) /\ Inserted(t) =>
    create[s].post # create[t].post \/ create[s].reporter # create[t].reporter

Transactions ==
  /\ \A s \in Slots : Ongoing(s)
  /\ \A s, t \in Slots : s # t => Apart(s, t)

\* What a moderator's call has done so far.
Decided(a) ==
  /\ act[a].post \in Posts /\ act[a].reporter \in Reporters /\ act[a].action \in Actions
  /\ \/ posts[act[a].post] = "deleted"
     \/ reports[act[a].post][act[a].reporter] # "none"
  /\ act[a].pc \in {"author", "revoke"} => act[a].action = "ban"
  /\ act[a].pc = "hide" => act[a].action \in {"hide", "ban"}
  /\ act[a].pc = "resolve" /\ act[a].action \in {"hide", "ban"} =>
       posts[act[a].post] \in {"hidden", "deleted"}
  /\ act[a].pc = "revoke" =>
       \/ posts[act[a].post] = "deleted"
       \/ reports[act[a].post][act[a].reporter] = "ban"

Decisions == \A a \in Admins : act[a].pc # "idle" => Decided(a)

\* The reports of a deleted post have gone with it.
Cascaded ==
  \A p \in Posts, r \in Reporters : posts[p] = "deleted" => reports[p][r] = "none"

IInv ==
  /\ TypeOK
  /\ Transactions
  /\ Decisions
  /\ Cascaded
  /\ ResolvedIsHidden
  /\ HiddenForCause
  /\ RevokedIsBanned

LEMMA InitIInv == Init => IInv
<1> SUFFICES ASSUME Init PROVE IInv
  OBVIOUS
<1>1. TypeOK
  BY DEF Init, TypeOK, CreateCall, ActCall, NoCreate, NoAct
<1>2. Transactions /\ Decisions
  BY DEF Init, Transactions, Ongoing, Apart, Decisions, Inserted, NoCreate, NoAct
<1>3. Cascaded /\ ResolvedIsHidden /\ HiddenForCause /\ RevokedIsBanned
  BY DEF Init, Cascaded, ResolvedIsHidden, HiddenForCause, RevokedIsBanned
<1> QED
  BY <1>1, <1>2, <1>3 DEF IInv
-----------------------------------------------------------------------------
LEMMA ReportedCount ==
  ASSUME NEW p \in Posts
  PROVE  /\ IsFiniteSet(Reported(p)) /\ Cardinality(Reported(p)) \in Nat
         /\ IsFiniteSet(Reported(p)') /\ Cardinality(Reported(p)') \in Nat
<1>1. Reported(p) \in SUBSET Reporters /\ Reported(p)' \in SUBSET Reporters
  BY DEF Reported
<1> QED
  BY <1>1, FS_Subset, FS_CardinalityType

\* Rows of a post that is not deleted stay, so its count does not fall.
LEMMA ReportedGrows ==
  ASSUME NEW p \in Posts,
         \A r \in Reporters : reports[p][r] # "none" => reports'[p][r] # "none"
  PROVE  /\ Reported(p) \subseteq Reported(p)'
         /\ Cardinality(Reported(p)) <= Cardinality(Reported(p)')
<1>1. Reported(p) \subseteq Reported(p)'
  BY DEF Reported
<1> QED
  BY <1>1, ReportedCount, FS_Subset

LEMMA ReportedAdds ==
  ASSUME NEW p \in Posts, NEW r \in Reporters, reports[p][r] = "none",
         reports'[p][r] # "none",
         \A q \in Reporters \ {r} : reports'[p][q] = reports[p][q]
  PROVE  Cardinality(Reported(p)') = Cardinality(Reported(p)) + 1
<1>1. Reported(p)' = Reported(p) \cup {r} /\ r \notin Reported(p)
  BY DEF Reported
<1> QED
  BY <1>1, ReportedCount, FS_AddElement

LEMMA SetReport ==
  ASSUME TypeOK, NEW p \in Posts, NEW r \in Reporters, NEW x \in {"open"} \cup Actions,
         reports' = [reports EXCEPT ![p][r] = x]
  PROVE  /\ reports' \in [Posts -> [Reporters -> {"none", "open"} \cup Actions]]
         /\ reports'[p][r] = x
         /\ \A q \in Posts, t \in Reporters : q # p \/ t # r => reports'[q][t] = reports[q][t]
BY DEF TypeOK

LEMMA IdleType ==
  /\ NoCreate \in CreateCall /\ NoCreate.pc = "idle" /\ NoCreate.hides = FALSE
  /\ NoAct \in ActCall /\ NoAct.pc = "idle"
BY DEF NoCreate, NoAct, CreateCall, ActCall
-----------------------------------------------------------------------------
(* What the steps have in common.                                          *)

LEMMA TransactionsFrame ==
  ASSUME IInv, create' \in [Slots -> CreateCall],
         \A s \in Slots :
           create'[s] = create[s] \/ (create'[s].pc = "idle" /\ ~create'[s].hides),
         \A s \in Slots : Inserted(s) /\ create'[s] = create[s] =>
           /\ posts'[create[s].post] # "deleted"
           /\ reports'[create[s].post][create[s].reporter] = "none"
           /\ \A q \in Reporters : reports[create[s].post][q] # "none" =>
                                   reports'[create[s].post][q] # "none"
  PROVE  Transactions'
<1>1. ASSUME NEW s \in Slots
      PROVE  /\ Inserted(s)' => create'[s] = create[s] /\ Inserted(s)
             /\ Ongoing(s)
             /\ create[s].hides \in BOOLEAN
  BY DEF Inserted, IInv, Transactions, TypeOK, CreateCall
<1>2. ASSUME NEW s \in Slots
      PROVE  Ongoing(s)'
  <2>1. CASE create'[s] = create[s] /\ ~Inserted(s)
    BY <1>1, <2>1 DEF Ongoing, Inserted
  <2>2. CASE create'[s] = create[s] /\ Inserted(s)
    <3>0. /\ create[s].post \in Posts /\ create[s].reporter \in Reporters
          /\ posts'[create[s].post] # "deleted"
          /\ reports'[create[s].post][create[s].reporter] = "none"
      BY <1>1, <2>2 DEF Ongoing, Inserted
    <3> PICK p \in Posts : p = create[s].post
      BY <3>0
    <3>1. \A q \in Reporters : reports[p][q] # "none" => reports'[p][q] # "none"
      BY <2>2
    <3>2. Cardinality(Reported(p)) <= Cardinality(Reported(p)')
      BY <3>1, ReportedGrows
    <3>3. Cardinality(Reported(p)) \in Nat /\ Cardinality(Reported(p)') \in Nat
      BY ReportedCount
    <3>4. Reported(create[s].post)' = Reported(p)'
      BY <2>2 DEF Reported
    <3>5. create[s].pc = "hide" \/ create[s].hides =>
            Threshold > 0 /\ Cardinality(Reported(p)) + 1 >= Threshold
      BY <1>1 DEF Ongoing
    <3>6. create[s].pc = "hide" \/ create[s].hides =>
            Threshold > 0 /\ Cardinality(Reported(p)') + 1 >= Threshold
      BY <3>2, <3>3, <3>5
    <3>7. Ongoing(s)
      BY <1>1
    <3> QED
      BY <2>2, <3>0, <3>4, <3>6, <3>7 DEF Ongoing
  <2>3. CASE create'[s].pc = "idle" /\ ~create'[s].hides
    BY <2>3 DEF Ongoing, Inserted
  <2> QED
    BY <2>1, <2>2, <2>3
<1>3. ASSUME NEW s \in Slots, NEW t \in Slots, s # t
      PROVE  Apart(s, t)'
  <2>1. Apart(s, t)
    BY <1>3 DEF IInv, Transactions
  <2> QED
    BY <2>1, <1>1 DEF Apart
<1> QED
  BY <1>2, <1>3 DEF Transactions

\* Posts are deleted for good and never shown again, decisions stand.
Forward ==
  /\ \A p \in Posts : posts[p] = "deleted" => posts'[p] = "deleted"
  /\ \A p \in Posts : posts[p] = "hidden" => posts'[p] \in {"hidden", "deleted"}
  /\ \A p \in Posts, r \in Reporters :
       /\ reports[p][r] # "none" => reports'[p][r] # "none" \/ posts'[p] = "deleted"
       /\ reports[p][r] \in Actions =>
            reports'[p][r] = reports[p][r] \/ posts'[p] = "deleted"

LEMMA DecisionsFrame ==
  ASSUME IInv, Forward,
         \A b \in Admins : act'[b] = act[b] \/ act'[b].pc = "idle" \/ Decided(b)'
  PROVE  Decisions'
<1>1. ASSUME NEW b \in Admins, act'[b].pc # "idle"
      PROVE  Decided(b)'
  <2>1. CASE act'[b] = act[b]
    <3> DEFINE p == act[b].post
               r == act[b].reporter
    <3>1. Decided(b)
      BY <1>1, <2>1 DEF IInv, Decisions
    <3>2. p \in Posts /\ r \in Reporters
      BY <3>1 DEF Decided
    <3>3. /\ posts[p] = "deleted" \/ reports[p][r] # "none" =>
               posts'[p] = "deleted" \/ reports'[p][r] # "none"
          /\ posts[p] \in {"hidden", "deleted"} => posts'[p] \in {"hidden", "deleted"}
          /\ posts[p] = "deleted" \/ reports[p][r] = "ban" =>
               posts'[p] = "deleted" \/ reports'[p][r] = "ban"
      BY <3>2 DEF Forward, Actions
    <3> QED
      BY <2>1, <3>1, <3>3 DEF Decided
  <2> QED
    BY <1>1, <2>1
<1> QED
  BY <1>1 DEF Decisions

LEMMA RevokedFrame ==
  ASSUME IInv, Forward, revoked' = revoked
  PROVE  RevokedIsBanned'
<1>1. \A m \in revoked : m[1] \in Posts /\ m[2] \in Reporters
  BY DEF IInv, TypeOK
<1> QED
  BY <1>1 DEF IInv, RevokedIsBanned, Forward, Actions

LEMMA Still ==
  ASSUME UNCHANGED <<posts, reports>>
  PROVE  /\ Forward
         /\ IInv /\ UNCHANGED hist =>
              (Cascaded /\ ResolvedIsHidden /\ HiddenForCause /\ RevokedIsBanned)'
BY DEF Forward, IInv, Cascaded, ResolvedIsHidden, HiddenForCause, RevokedIsBanned,
       Reported, hist

\* A step of a call of Create that leaves the tables alone.
LEMMA CreateOnly ==
  ASSUME IInv, NEW s \in Slots, UNCHANGED <<posts, reports, act, delete, hist>>,
         create' \in [Slots -> CreateCall],
         \A t \in Slots \ {s} : create'[t] = create[t] /\ Apart(s, t)' /\ Apart(t, s)',
         Ongoing(s)'
  PROVE  IInv'
<1>1. ASSUME NEW t \in Slots
      PROVE  Ongoing(t)'
  <2>1. CASE t # s
    <3>1. Ongoing(t) /\ create'[t] = create[t]
      BY <2>1 DEF IInv, Transactions
    <3> QED
      BY <3>1 DEF Ongoing, Inserted, Reported
  <2> QED
    BY <2>1
<1>2. ASSUME NEW t \in Slots, NEW w \in Slots, t # w
      PROVE  Apart(t, w)'
  <2>1. CASE t # s /\ w # s
    <3>1. Apart(t, w) /\ create'[t] = create[t] /\ create'[w] = create[w]
      BY <1>2, <2>1 DEF IInv, Transactions
    <3> QED
      BY <3>1 DEF Apart, Inserted
  <2>2. CASE t = s
    BY <1>2, <2>2
  <2>3. CASE w = s
    BY <1>2, <2>3
  <2> QED
    BY <2>1, <2>2, <2>3
<1>3. Transactions'
  BY <1>1, <1>2 DEF Transactions
<1>4. Decisions'
  BY Still, DecisionsFrame
<1>5. TypeOK'
  BY DEF IInv, TypeOK, hist
<1> QED
  BY <1>3, <1>4, <1>5, Still DEF IInv

\* Nothing but a call of Act changes, and it has done what it says.
LEMMA ActOnly ==
  ASSUME IInv, NEW a \in Admins, UNCHANGED <<posts, reports, create, delete, hist>>,
         act' \in [Admins -> ActCall], \A b \in Admins \ {a} : act'[b] = act[b],
         act'[a].pc = "idle" \/ Decided(a)'
  PROVE  IInv'
<1>1. Decisions'
  BY Still, DecisionsFrame
<1>2. Transactions'
  BY DEF IInv, Transactions, Ongoing, Apart, Inserted, Reported
<1>3. TypeOK'
  BY DEF IInv, TypeOK, hist
<1> QED
  BY <1>1, <1>2, <1>3, Still DEF IInv

\* A hidden post that keeps its reports is hidden for the same cause.
LEMMA CauseStays ==
  ASSUME IInv, NEW p \in Posts, posts[p] = "hidden", moderated \subseteq moderated',
         \A r \in Reporters : reports[p][r] # "none" => reports'[p][r] # "none"
  PROVE  /\ Reported(p)' # {}
         /\ p \in moderated' \/ (Threshold > 0 /\ Cardinality(Reported(p)') >= Threshold)
<1>1. /\ Reported(p) \subseteq Reported(p)'
      /\ Cardinality(Reported(p)) <= Cardinality(Reported(p)')
  BY ReportedGrows
<1>2. /\ Reported(p) # {}
      /\ p \in moderated \/ (Threshold > 0 /\ Cardinality(Reported(p)) >= Threshold)
  BY DEF IInv, HiddenForCause
<1> QED
  BY <1>1, <1>2, ReportedCount
-----------------------------------------------------------------------------
(* The statements of Create.                                               *)

LEMMA CreateBeginIInv ==
  ASSUME IInv, NEW s \in Slots, NEW p \in Posts, NEW r \in Reporters, CreateBegin(s, p, r)
  PROVE  IInv'
<1> DEFINE call == [pc |-> "insert", post |-> p, reporter |-> r, hides |-> FALSE]
<1>1. call \in CreateCall
  BY DEF CreateCall
<1>2. /\ create' = [create EXCEPT ![s] = call]
      /\ UNCHANGED <<posts, reports, act, delete, hist>>
  BY DEF CreateBegin
<1>3. create' \in [Slots -> CreateCall] /\ create'[s] = call
  BY <1>1, <1>2 DEF IInv, TypeOK
<1>4. \A t \in Slots \ {s} : create'[t] = create[t]
  BY <1>2 DEF IInv, TypeOK
<1>5. ~Inserted(s)' /\ Ongoing(s)'
  BY <1>3 DEF Inserted, Ongoing
<1>6. \A t \in Slots : Apart(s, t)' /\ Apart(t, s)'
  BY <1>5 DEF Apart
<1> HIDE DEF call
<1> QED
  BY <1>2, <1>3, <1>4, <1>5, <1>6, CreateOnly

LEMMA CreateEnds ==
  ASSUME IInv, NEW s \in Slots, create' = [create EXCEPT ![s] = NoCreate],
         UNCHANGED <<posts, reports, act, delete, hist>>
  PROVE  IInv'
<1>1. create' \in [Slots -> CreateCall] /\ create'[s] = NoCreate
  BY IdleType DEF IInv, TypeOK
<1>2. \A t \in Slots \ {s} : create'[t] = create[t]
  BY DEF IInv, TypeOK
<1>3. ~Inserted(s)' /\ Ongoing(s)'
  BY <1>1, IdleType DEF Inserted, Ongoing
<1>4. \A t \in Slots : Apart(s, t)' /\ Apart(t, s)'
  BY <1>3 DEF Apart
<1> QED
  BY <1>1, <1>2, <1>3, <1>4, CreateOnly

\* A call that goes on to a statement inside its transaction.
LEMMA CreateGoesOn ==
  ASSUME IInv, NEW s \in Slots, NEW n \in {"count", "hide", "commit"}, NEW h \in BOOLEAN,
         create' = [create EXCEPT ![s].pc = n, ![s].hides = h],
         UNCHANGED <<posts, reports, act, delete, hist>>,
         create[s].pc # "idle",
         posts[create[s].post] # "deleted",
         reports[create[s].post][create[s].reporter] = "none",
         h => n = "commit",
         n = "count" => Threshold > 0,
         n = "hide" \/ h => Threshold > 0 /\ Cardinality(Reported(create[s].post)) + 1 >= Threshold,
         \A t \in Slots \ {s} : Inserted(t) =>
           create[s].post # create[t].post \/ create[s].reporter # create[t].reporter
  PROVE  IInv'
<1>1. create \in [Slots -> CreateCall] /\ Ongoing(s)
  BY DEF IInv, TypeOK, Transactions
<1>2. /\ create' \in [Slots -> CreateCall]
      /\ create'[s].pc = n /\ create'[s].hides = h
      /\ create'[s].post = create[s].post /\ create'[s].reporter = create[s].reporter
      /\ \A t \in Slots \ {s} : create'[t] = create[t]
  <2>1. [create[s] EXCEPT !.pc = n, !.hides = h] \in CreateCall
    BY <1>1 DEF CreateCall
  <2>2. create' = [create EXCEPT ![s] = [create[s] EXCEPT !.pc = n, !.hides = h]]
    OBVIOUS
  <2>3. create'[s] = [create[s] EXCEPT !.pc = n, !.hides = h]
    BY <1>1, <2>2
  <2>4. create' \in [Slots -> CreateCall]
        /\ \A t \in Slots \ {s} : create'[t] = create[t]
    BY <1>1, <2>1, <2>2
  <2> QED
    BY <1>1, <2>3, <2>4 DEF CreateCall
<1>3. Reported(create[s].post)' = Reported(create[s].post)
  BY <1>2 DEF Reported
<1>4. Ongoing(s)'
  BY <1>1, <1>2, <1>3 DEF Ongoing
<1>5. \A t \in Slots \ {s} : Apart(s, t)' /\ Apart(t, s)'
  BY <1>2 DEF Apart, Inserted
<1> QED
  BY <1>2, <1>4, <1>5, CreateOnly

\* What holds of a call inside its transaction.
LEMMA CreateInside ==
  ASSUME IInv, NEW s \in Slots, Inserted(s)
  PROVE  /\ create[s].post \in Posts /\ create[s].reporter \in Reporters
         /\ posts[create[s].post] # "deleted"
         /\ reports[create[s].post][create[s].reporter] = "none"
         /\ create[s].pc # "idle" /\ create[s].hides \in BOOLEAN
         /\ create[s].hides => create[s].pc = "commit"
         /\ create[s].pc = "hide" \/ create[s].hides =>
              Threshold > 0 /\ Cardinality(Reported(create[s].post)) + 1 >= Threshold
         /\ \A t \in Slots \ {s} : Inserted(t) =>
              create[s].post # create[t].post \/ create[s].reporter # create[t].reporter
<1>1. Ongoing(s) /\ \A t \in Slots \ {s} : Apart(s, t)
  BY DEF IInv, Transactions
<1>2. create[s].hides \in BOOLEAN
  BY DEF IInv, TypeOK, CreateCall
<1>3. create[s].pc # "idle"
  BY DEF Inserted
<1> QED
  BY <1>1, <1>2, <1>3 DEF Ongoing, Apart

LEMMA CreateInsertIInv ==
  ASSUME IInv, NEW s \in Slots, CreateInsert(s)
  PROVE  IInv'
<1>1. UNCHANGED <<posts, reports, act, delete, hist>> /\ create[s].pc = "insert"
  BY DEF CreateInsert
<1>2. CASE create' = [create EXCEPT ![s] = NoCreate]
  BY <1>1, <1>2, CreateEnds
<1>3. CASE ~(create' = [create EXCEPT ![s] = NoCreate])
  <2> DEFINE n == IF Threshold = 0 THEN "commit" ELSE "count"
  <2>1. /\ create' = [create EXCEPT ![s].pc = n]
        /\ posts[create[s].post] # "deleted"
        /\ reports[create[s].post][create[s].reporter] = "none"
        /\ \A t \in Slots : Inserted(t) =>
             create[s].post # create[t].post \/ create[s].reporter # create[t].reporter
    BY <1>3 DEF CreateInsert
  <2>2. create \in [Slots -> CreateCall] /\ create[s].hides = FALSE
    BY <1>1 DEF IInv, Transactions, Ongoing, TypeOK, CreateCall
  <2>3. n \in {"count", "hide", "commit"} /\ n # "hide" /\ (n = "count" => Threshold > 0)
    OBVIOUS
  <2> HIDE DEF n
  <2>4. create' = [create EXCEPT ![s].pc = n, ![s].hides = FALSE]
    BY <2>1, <2>2 DEF CreateCall
  <2> QED
    BY <1>1, <2>1, <2>2, <2>3, <2>4, CreateGoesOn
<1> QED
  BY <1>2, <1>3

LEMMA CreateCountIInv ==
  ASSUME IInv, NEW s \in Slots, CreateCount(s)
  PROVE  IInv'
<1> DEFINE n == IF Reached(create[s].post) THEN "hide" ELSE "commit"
<1>1. /\ create[s].pc = "count" /\ create' = [create EXCEPT ![s].pc = n]
      /\ UNCHANGED <<posts, reports, act, delete, hist>>
  BY DEF CreateCount
<1>2. Inserted(s) /\ create \in [Slots -> CreateCall] /\ create[s].hides = FALSE
  BY <1>1 DEF IInv, Transactions, Ongoing, TypeOK, CreateCall, Inserted
<1>3. Threshold > 0
  BY <1>1 DEF IInv, Transactions, Ongoing
<1>4. /\ n \in {"count", "hide", "commit"} /\ n # "count"
      /\ n = "hide" => Cardinality(Reported(create[s].post)) + 1 >= Threshold
  BY DEF Reached
<1> HIDE DEF n
<1>5. create' = [create EXCEPT ![s].pc = n, ![s].hides = FALSE]
  BY <1>1, <1>2 DEF CreateCall
<1>6. /\ posts[create[s].post] # "deleted"
      /\ reports[create[s].post][create[s].reporter] = "none"
      /\ \A t \in Slots \ {s} : Inserted(t) =>
           create[s].post # create[t].post \/ create[s].reporter # create[t].reporter
  BY <1>2, CreateInside
<1> QED
  BY <1>1, <1>3, <1>4, <1>5, <1>6, CreateGoesOn

LEMMA CreateHideIInv ==
  ASSUME IInv, NEW s \in Slots, CreateHide(s)
  PROVE  IInv'
<1>1. /\ create[s].pc = "hide" /\ create' = [create EXCEPT ![s].pc = "commit", ![s].hides = TRUE]
      /\ UNCHANGED <<posts, reports, act, delete, hist>>
  BY DEF CreateHide
<1>2. Inserted(s)
  BY <1>1 DEF Inserted
<1> QED
  BY <1>1, <1>2, CreateInside, CreateGoesOn

LEMMA CreateCommitIInv ==
  ASSUME IInv, NEW s \in Slots, CreateCommit(s)
  PROVE  IInv'
<1>0. Inserted(s) /\ create \in [Slots -> CreateCall] /\ TypeOK
  BY DEF CreateCommit, Inserted, IInv, TypeOK
<1>1. /\ create[s].post \in Posts /\ create[s].reporter \in Reporters
      /\ posts[create[s].post] # "deleted"
      /\ reports[create[s].post][create[s].reporter] = "none"
      /\ create[s].hides \in BOOLEAN
      /\ create[s].hides =>
           Threshold > 0 /\ Cardinality(Reported(create[s].post)) + 1 >= Threshold
      /\ \A t \in Slots \ {s} : Inserted(t) =>
           create[s].post # create[t].post \/ create[s].reporter # create[t].reporter
  BY <1>0, CreateInside
<1> PICK p \in Posts, r \in Reporters : p = create[s].post /\ r = create[s].reporter
  BY <1>1
<1> PICK h \in BOOLEAN : h = create[s].hides
  BY <1>1
<1>2. /\ posts[p] # "deleted" /\ reports[p][r] = "none"
      /\ h => Threshold > 0 /\ Cardinality(Reported(p)) + 1 >= Threshold
      /\ \A t \in Slots \ {s} : Inserted(t) => p # create[t].post \/ r # create[t].reporter
  BY <1>1
<1>3. /\ reports' = [reports EXCEPT ![p][r] = "open"]
      /\ posts' = IF h THEN [posts EXCEPT ![p] = "hidden"] ELSE posts
      /\ create' = [create EXCEPT ![s] = NoCreate]
      /\ UNCHANGED <<act, delete, hist>>
  BY DEF CreateCommit
<1>4. /\ reports' \in [Posts -> [Reporters -> {"none", "open"} \cup Actions]]
      /\ reports'[p][r] = "open"
      /\ \A q \in Posts, t \in Reporters : q # p \/ t # r => reports'[q][t] = reports[q][t]
  BY <1>0, <1>3 DEF TypeOK
<1>5. /\ posts' \in [Posts -> {"visible", "hidden", "deleted"}]
      /\ h => posts'[p] = "hidden"
      /\ ~h => posts'[p] = posts[p]
      /\ \A q \in Posts \ {p} : posts'[q] = posts[q]
  BY <1>0, <1>3 DEF TypeOK
<1>6. /\ create' \in [Slots -> CreateCall] /\ create'[s] = NoCreate
      /\ \A t \in Slots \ {s} : create'[t] = create[t]
  BY <1>0, <1>3, IdleType
<1>7. TypeOK'
  BY <1>0, <1>3, <1>4, <1>5, <1>6 DEF TypeOK, hist
<1>8. Forward
  BY <1>2, <1>4, <1>5 DEF Forward, Actions
<1>9. Transactions'
  <2>1. \A t \in Slots : Inserted(t) /\ create'[t] = create[t] => t # s
    BY <1>0, <1>6, IdleType DEF Inserted
  <2>2. ASSUME NEW t \in Slots, Inserted(t), t # s
        PROVE  /\ posts'[create[t].post] # "deleted"
               /\ reports'[create[t].post][create[t].reporter] = "none"
               /\ \A q \in Reporters : reports[create[t].post][q] # "none" =>
                                       reports'[create[t].post][q] # "none"
    <3>1. /\ create[t].post \in Posts /\ create[t].reporter \in Reporters
          /\ posts[create[t].post] # "deleted"
          /\ reports[create[t].post][create[t].reporter] = "none"
      BY <2>2, CreateInside
    <3>2. p # create[t].post \/ r # create[t].reporter
      BY <2>2, <1>2
    <3> QED
      BY <3>1, <3>2, <1>4, <1>5
  <2>3. \A t \in Slots : create'[t] = create[t] \/ (create'[t].pc = "idle" /\ ~create'[t].hides)
    BY <1>6, IdleType
  <2> QED
    BY <1>6, <2>1, <2>2, <2>3, TransactionsFrame
<1>10. Decisions'
  BY <1>3, <1>8, DecisionsFrame
<1>11. Cascaded' /\ ResolvedIsHidden'
  BY <1>1, <1>2, <1>4, <1>5 DEF IInv, Cascaded, ResolvedIsHidden
<1>12. HiddenForCause'
  <2> SUFFICES ASSUME NEW q \in Posts, posts'[q] = "hidden"
               PROVE  /\ Reported(q)' # {}
                      /\ \/ q \in moderated'
                         \/ Threshold > 0 /\ Cardinality(Reported(q)') >= Threshold
    BY DEF HiddenForCause
  <2>1. CASE posts[q] = "hidden"
    BY <2>1, <1>2, <1>3, <1>4, CauseStays DEF hist
  <2>2. CASE posts[q] # "hidden"
    <3>1. q = p /\ h
      BY <2>2, <1>5
    <3>2. Cardinality(Reported(p)') = Cardinality(Reported(p)) + 1
      BY <1>2, <1>4, ReportedAdds
    <3>3. r \in Reported(p)'
      BY <1>4 DEF Reported
    <3> QED
      BY <3>1, <3>2, <3>3, <1>2, ReportedCount
  <2> QED
    BY <2>1, <2>2
<1>13. RevokedIsBanned'
  BY <1>3, <1>8, RevokedFrame DEF hist
<1> QED
  BY <1>7, <1>9, <1>10, <1>11, <1>12, <1>13 DEF IInv
-----------------------------------------------------------------------------
(* The statements of Act.                                                  *)

LEMMA ActBeginIInv ==
  ASSUME IInv, NEW a \in Admins, NEW p \in Posts, NEW r \in Reporters, NEW x \in Actions,
         ActBegin(a, p, r, x)
  PROVE  IInv'
<1> DEFINE call == [pc |-> CASE x = "ban" -> "author"
                             [] x = "hide" -> "hide"
                             [] x = "dismiss" -> "resolve",
                    post |-> p, reporter |-> r, action |-> x]
<1>1. /\ act' = [act EXCEPT ![a] = call] /\ reports[p][r] = "open"
      /\ UNCHANGED <<posts, reports, create, delete, hist>>
  BY DEF ActBegin
<1>2. /\ call \in ActCall /\ call.post = p /\ call.reporter = r /\ call.action = x
      /\ \/ call.pc = "author" /\ x = "ban"
         \/ call.pc = "hide" /\ x = "hide"
         \/ call.pc = "resolve" /\ x = "dismiss"
  BY DEF ActCall, Actions
<1> HIDE DEF call
<1>3. act' \in [Admins -> ActCall] /\ act'[a] = call /\ \A b \in Admins \ {a} : act'[b] = act[b]
  BY <1>1, <1>2 DEF IInv, TypeOK
<1>4. Decided(a)'
  BY <1>1, <1>2, <1>3 DEF Decided
<1> QED
  BY <1>1, <1>3, <1>4, ActOnly

LEMMA ActEnds ==
  ASSUME IInv, NEW a \in Admins, act' = [act EXCEPT ![a] = NoAct]
  PROVE  /\ act' \in [Admins -> ActCall] /\ act'[a].pc = "idle"
         /\ \A b \in Admins \ {a} : act'[b] = act[b]
         /\ UNCHANGED <<posts, reports, create, delete, hist>> => IInv'
<1>1. /\ act' \in [Admins -> ActCall] /\ act'[a].pc = "idle"
      /\ \A b \in Admins \ {a} : act'[b] = act[b]
  BY IdleType DEF IInv, TypeOK
<1> QED
  BY <1>1, ActOnly

LEMMA ActGoesOn ==
  ASSUME IInv, NEW a \in Admins, NEW n \in {"hide", "resolve", "revoke"},
         act' = [act EXCEPT ![a].pc = n]
  PROVE  /\ act' \in [Admins -> ActCall] /\ act'[a].pc = n
         /\ act'[a].post = act[a].post /\ act'[a].reporter = act[a].reporter
         /\ act'[a].action = act[a].action
         /\ \A b \in Admins \ {a} : act'[b] = act[b]
<1>1. act \in [Admins -> ActCall]
  BY DEF IInv, TypeOK
<1>2. act'[a] = [act[a] EXCEPT !.pc = n] /\ act[a] \in ActCall
  BY <1>1
<1>3. [act[a] EXCEPT !.pc = n] \in ActCall
  BY <1>2 DEF ActCall
<1>4. act' \in [Admins -> ActCall] /\ \A b \in Admins \ {a} : act'[b] = act[b]
  BY <1>1, <1>2, <1>3
<1> QED
  BY <1>2, <1>4 DEF ActCall

LEMMA ActAuthorIInv ==
  ASSUME IInv, NEW a \in Admins, ActAuthor(a)
  PROVE  IInv'
<1>1. act[a].pc = "author" /\ UNCHANGED <<posts, reports, create, delete, hist>>
  BY DEF ActAuthor
<1>2. CASE act' = [act EXCEPT ![a] = NoAct]
  BY <1>1, <1>2, ActEnds
<1>3. CASE act' = [act EXCEPT ![a].pc = "hide"]
  <2>1. /\ act' \in [Admins -> ActCall] /\ act'[a].pc = "hide"
        /\ act'[a].post = act[a].post /\ act'[a].reporter = act[a].reporter
        /\ act'[a].action = act[a].action
        /\ \A b \in Admins \ {a} : act'[b] = act[b]
    BY <1>3, ActGoesOn
  <2>2. Decided(a)
    BY <1>1 DEF IInv, Decisions
  <2>3. Decided(a)'
    BY <1>1, <2>1, <2>2 DEF Decided
  <2> QED
    BY <1>1, <2>1, <2>3, ActOnly
<1> QED
  BY <1>2, <1>3 DEF ActAuthor

\* The UPDATE of the post, whether Act goes on or its call ends with a failure.
LEMMA HideStep ==
  ASSUME IInv, NEW a \in Admins, act[a].pc = "hide", posts[act[a].post] # "deleted",
         SetHidden(act[a].post), UNCHANGED <<reports, create, delete, revoked, spared>>,
         \/ act' = [act EXCEPT ![a].pc = "resolve"]
         \/ act' = [act EXCEPT ![a] = NoAct]
  PROVE  IInv'
<1>1. Decided(a)
  BY DEF IInv, Decisions
<1> PICK p \in Posts, r \in Reporters : p = act[a].post /\ r = act[a].reporter
  BY <1>1 DEF Decided
<1>2. posts[p] # "deleted" /\ reports[p][r] # "none"
  BY <1>1 DEF Decided
<1>3. /\ posts' \in [Posts -> {"visible", "hidden", "deleted"}] /\ posts'[p] = "hidden"
      /\ \A q \in Posts \ {p} : posts'[q] = posts[q]
      /\ moderated' = moderated \cup {p}
  BY DEF SetHidden, IInv, TypeOK
<1>4. /\ act' \in [Admins -> ActCall] /\ \A b \in Admins \ {a} : act'[b] = act[b]
      /\ act'[a].pc = "idle" \/ Decided(a)'
  <2>1. CASE act' = [act EXCEPT ![a] = NoAct]
    BY <2>1, ActEnds
  <2>2. CASE act' = [act EXCEPT ![a].pc = "resolve"]
    <3>1. /\ act' \in [Admins -> ActCall] /\ act'[a].pc = "resolve"
          /\ act'[a].post = act[a].post /\ act'[a].reporter = act[a].reporter
          /\ act'[a].action = act[a].action
          /\ \A b \in Admins \ {a} : act'[b] = act[b]
      BY <2>2, ActGoesOn
    <3>2. Decided(a)'
      BY <3>1, <1>1, <1>2, <1>3 DEF Decided
    <3> QED
      BY <3>1, <3>2
  <2> QED
    BY <2>1, <2>2
<1>5. TypeOK'
  BY <1>3, <1>4 DEF IInv, TypeOK
<1>6. Forward
  BY <1>2, <1>3 DEF Forward
<1>7. Transactions'
  <2>1. \A s \in Slots : Inserted(s) => posts'[create[s].post] # "deleted"
    BY <1>3, CreateInside
  <2>2. \A s \in Slots : Inserted(s) => reports[create[s].post][create[s].reporter] = "none"
    BY CreateInside
  <2>3. create' \in [Slots -> CreateCall]
    BY DEF IInv, TypeOK
  <2> QED
    BY <2>1, <2>2, <2>3, TransactionsFrame
<1>8. Decisions'
  BY <1>4, <1>6, DecisionsFrame
<1>9. Cascaded' /\ ResolvedIsHidden'
  BY <1>2, <1>3 DEF IInv, Cascaded, ResolvedIsHidden
<1>10. HiddenForCause'
  <2> SUFFICES ASSUME NEW q \in Posts, posts'[q] = "hidden"
               PROVE  /\ Reported(q)' # {}
                      /\ \/ q \in moderated'
                         \/ Threshold > 0 /\ Cardinality(Reported(q)') >= Threshold
    BY DEF HiddenForCause
  <2>1. CASE q = p
    <3>1. r \in Reported(p)'
      BY <1>2 DEF Reported
    <3> QED
      BY <2>1, <3>1, <1>3
  <2>2. CASE q # p
    <3>1. posts[q] = "hidden"
      BY <2>2, <1>3
    <3> QED
      BY <3>1, <1>3, CauseStays
  <2> QED
    BY <2>1, <2>2
<1>11. RevokedIsBanned'
  BY <1>6, RevokedFrame
<1> QED
  BY <1>5, <1>7, <1>8, <1>9, <1>10, <1>11 DEF IInv

\* The UPDATE of the report, likewise.
LEMMA ResolveStep ==
  ASSUME IInv, NEW a \in Admins, act[a].pc = "resolve",
         Resolvable(act[a].post, act[a].reporter), Resolve(a),
         UNCHANGED <<posts, create, delete, moderated, revoked>>,
         spared' \in SUBSET (Posts \X Reporters),
         \/ act' = [act EXCEPT ![a].pc = "revoke"] /\ act[a].action = "ban"
         \/ act' = [act EXCEPT ![a] = NoAct]
  PROVE  IInv'
<1>1. Decided(a)
  BY DEF IInv, Decisions
<1> PICK p \in Posts, r \in Reporters, x \in Actions :
       p = act[a].post /\ r = act[a].reporter /\ x = act[a].action
  BY <1>1 DEF Decided
<1>2. /\ reports[p][r] = "open" /\ posts[p] # "deleted"
      /\ x \in {"hide", "ban"} => posts[p] = "hidden"
  BY <1>1 DEF Decided, Resolvable, IInv, Cascaded
<1>3. /\ reports' \in [Posts -> [Reporters -> {"none", "open"} \cup Actions]]
      /\ reports'[p][r] = x
      /\ \A q \in Posts, t \in Reporters : q # p \/ t # r => reports'[q][t] = reports[q][t]
  BY DEF Resolve, IInv, TypeOK
<1>4. /\ act' \in [Admins -> ActCall] /\ \A b \in Admins \ {a} : act'[b] = act[b]
      /\ act'[a].pc = "idle" \/ Decided(a)'
  <2>1. CASE act' = [act EXCEPT ![a] = NoAct]
    BY <2>1, ActEnds
  <2>2. CASE act' = [act EXCEPT ![a].pc = "revoke"] /\ x = "ban"
    <3>1. /\ act' \in [Admins -> ActCall] /\ act'[a].pc = "revoke"
          /\ act'[a].post = act[a].post /\ act'[a].reporter = act[a].reporter
          /\ act'[a].action = act[a].action
          /\ \A b \in Admins \ {a} : act'[b] = act[b]
      BY <2>2, ActGoesOn
    <3>2. Decided(a)'
      BY <3>1, <2>2, <1>1, <1>2, <1>3 DEF Decided
    <3> QED
      BY <3>1, <3>2
  <2> QED
    BY <2>1, <2>2
<1>5. TypeOK'
  BY <1>3, <1>4 DEF IInv, TypeOK
<1>6. /\ Forward
      /\ \A q \in Posts, t \in Reporters : reports[q][t] # "none" => reports'[q][t] # "none"
  BY <1>2, <1>3 DEF Forward, Actions
<1>7. Transactions'
  <2>1. ASSUME NEW s \in Slots, Inserted(s)
        PROVE  /\ create[s].post \in Posts
               /\ posts'[create[s].post] # "deleted"
               /\ reports'[create[s].post][create[s].reporter] = "none"
    BY <2>1, <1>2, <1>3, CreateInside
  <2>2. create' \in [Slots -> CreateCall]
    BY DEF IInv, TypeOK
  <2> QED
    BY <2>1, <2>2, <1>6, TransactionsFrame
<1>8. Decisions'
  BY <1>4, <1>6, DecisionsFrame
<1>9. Cascaded' /\ ResolvedIsHidden'
  BY <1>2, <1>3 DEF IInv, Cascaded, ResolvedIsHidden
<1>10. HiddenForCause'
  BY <1>6, CauseStays DEF HiddenForCause
<1>11. RevokedIsBanned'
  BY <1>6, RevokedFrame
<1> QED
  BY <1>5, <1>7, <1>8, <1>9, <1>10, <1>11 DEF IInv

LEMMA ActHideIInv ==
  ASSUME IInv, NEW a \in Admins, ActHide(a)
  PROVE  IInv'
<1>1. CASE posts[act[a].post] # "deleted"
  BY <1>1, HideStep DEF ActHide
<1>2. CASE posts[act[a].post] = "deleted"
  BY <1>2, ActEnds DEF ActHide, hist
<1> QED
  BY <1>1, <1>2

LEMMA ActResolveIInv ==
  ASSUME IInv, NEW a \in Admins, ActResolve(a)
  PROVE  IInv'
<1>1. CASE Resolvable(act[a].post, act[a].reporter)
  <2>1. /\ act[a].pc = "resolve" /\ Resolve(a) /\ UNCHANGED <<posts, create, delete, hist>>
        /\ act' = IF act[a].action = "ban" THEN [act EXCEPT ![a].pc = "revoke"]
                  ELSE [act EXCEPT ![a] = NoAct]
    BY <1>1 DEF ActResolve
  <2>2. \/ act' = [act EXCEPT ![a].pc = "revoke"] /\ act[a].action = "ban"
        \/ act' = [act EXCEPT ![a] = NoAct]
    BY <2>1
  <2>3. UNCHANGED <<moderated, revoked>> /\ spared' \in SUBSET (Posts \X Reporters)
    BY <2>1 DEF hist, IInv, TypeOK
  <2> QED
    BY <1>1, <2>1, <2>2, <2>3, ResolveStep
<1>2. CASE ~Resolvable(act[a].post, act[a].reporter)
  BY <1>2, ActEnds DEF ActResolve
<1> QED
  BY <1>1, <1>2

\* The report of a call that is running is a pair of the model.
LEMMA ReportType ==
  ASSUME IInv, NEW a \in Admins, act[a].pc # "idle"
  PROVE  Report(a) \in Posts \X Reporters
<1>1. act[a].post \in Posts /\ act[a].reporter \in Reporters
  BY DEF IInv, Decisions, Decided
<1> QED
  BY <1>1 DEF Report

LEMMA ActRevokeIInv ==
  ASSUME IInv, NEW a \in Admins, ActRevoke(a)
  PROVE  IInv'
<1>1. /\ act[a].pc = "revoke" /\ act' = [act EXCEPT ![a] = NoAct]
      /\ UNCHANGED <<posts, reports, create, delete, moderated>>
      /\ \/ revoked' = revoked \cup {Report(a)} /\ UNCHANGED spared
         \/ spared' = spared \cup {Report(a)} /\ UNCHANGED revoked
  BY DEF ActRevoke
<1>2. Decided(a) /\ Report(a) \in Posts \X Reporters
  BY <1>1, ReportType DEF IInv, Decisions
<1>3. /\ act' \in [Admins -> ActCall] /\ act'[a].pc = "idle"
      /\ \A b \in Admins \ {a} : act'[b] = act[b]
  BY <1>1, ActEnds
<1>4. TypeOK'
  BY <1>1, <1>2, <1>3 DEF IInv, TypeOK
<1>5. RevokedIsBanned'
  <2>1. posts[Report(a)[1]] = "deleted" \/ reports[Report(a)[1]][Report(a)[2]] = "ban"
    BY <1>1, <1>2 DEF Decided, Report
  <2>2. revoked' \subseteq revoked \cup {Report(a)}
    BY <1>1
  <2> QED
    BY <1>1, <2>1, <2>2 DEF IInv, RevokedIsBanned
<1>6. Decisions'
  BY <1>1, <1>3, Still, DecisionsFrame
<1>7. Transactions' /\ Cascaded' /\ ResolvedIsHidden'
  BY <1>1 DEF IInv, Transactions, Ongoing, Apart, Inserted, Reported, Cascaded,
              ResolvedIsHidden
<1>8. HiddenForCause'
  BY <1>1 DEF IInv, HiddenForCause, Reported
<1> QED
  BY <1>4, <1>5, <1>6, <1>7, <1>8 DEF IInv

LEMMA ActFailIInv ==
  ASSUME IInv, NEW a \in Admins, ActFail(a)
  PROVE  IInv'
<1>1. act' = [act EXCEPT ![a] = NoAct] /\ UNCHANGED <<create, delete, revoked>>
  BY DEF ActFail
<1>2. CASE UNCHANGED <<posts, reports, moderated, spared>>
  BY <1>1, <1>2, ActEnds DEF hist
<1>3. CASE /\ act[a].pc = "hide" /\ posts[act[a].post] # "deleted"
           /\ SetHidden(act[a].post) /\ UNCHANGED <<reports, spared>>
  BY <1>1, <1>3, HideStep
<1>4. CASE /\ act[a].pc = "resolve" /\ Resolvable(act[a].post, act[a].reporter)
           /\ spared' = IF act[a].action = "ban" THEN spared \cup {Report(a)} ELSE spared
           /\ Resolve(a) /\ UNCHANGED <<posts, moderated>>
  <2>1. spared' \in SUBSET (Posts \X Reporters)
    BY <1>4, ReportType DEF IInv, TypeOK
  <2> QED
    BY <1>1, <1>4, <2>1, ResolveStep
<1> QED
  BY <1>2, <1>3, <1>4 DEF ActFail
-----------------------------------------------------------------------------
(* Deletion by the author.                                                 *)

LEMMA DeleteFlag ==
  ASSUME IInv, NEW p \in Posts, NEW b \in BOOLEAN, delete' = [delete EXCEPT ![p] = b],
         UNCHANGED <<posts, reports, create, act, hist>>
  PROVE  IInv'
<1>1. TypeOK'
  BY DEF IInv, TypeOK, hist
<1>2. Transactions' /\ Decisions'
  BY DEF IInv, Transactions, Ongoing, Apart, Inserted, Reported, Decisions, Decided
<1> QED
  BY <1>1, <1>2, Still DEF IInv

LEMMA DeleteByAuthorIInv ==
  ASSUME IInv, NEW p \in Posts, DeleteByAuthor(p)
  PROVE  IInv'
<1>1. /\ posts' = [posts EXCEPT ![p] = "deleted"]
      /\ reports' = [reports EXCEPT ![p] = [r \in Reporters |-> "none"]]
      /\ delete' = [delete EXCEPT ![p] = FALSE]
      /\ UNCHANGED <<create, act, hist>>
      /\ \A s \in Slots : Inserted(s) => create[s].post # p
  BY DEF DeleteByAuthor
<1>2. /\ posts' \in [Posts -> {"visible", "hidden", "deleted"}] /\ posts'[p] = "deleted"
      /\ \A q \in Posts \ {p} : posts'[q] = posts[q]
  BY <1>1 DEF IInv, TypeOK
<1>3. /\ reports' \in [Posts -> [Reporters -> {"none", "open"} \cup Actions]]
      /\ \A r \in Reporters : reports'[p][r] = "none"
      /\ \A q \in Posts \ {p} : reports'[q] = reports[q]
  BY <1>1 DEF IInv, TypeOK
<1>4. TypeOK'
  BY <1>1, <1>2, <1>3 DEF IInv, TypeOK, hist
<1>5. Forward
  BY <1>2, <1>3 DEF Forward
<1>6. Transactions'
  <2>1. ASSUME NEW s \in Slots, Inserted(s)
        PROVE  /\ posts'[create[s].post] # "deleted"
               /\ reports'[create[s].post] = reports[create[s].post]
               /\ reports[create[s].post][create[s].reporter] = "none"
    BY <2>1, <1>1, <1>2, <1>3, CreateInside
  <2>2. create' = create /\ create' \in [Slots -> CreateCall]
    BY <1>1 DEF IInv, TypeOK
  <2> QED
    BY <2>1, <2>2, TransactionsFrame
<1>7. Decisions'
  BY <1>1, <1>5, DecisionsFrame
<1>8. Cascaded' /\ ResolvedIsHidden'
  BY <1>2, <1>3 DEF IInv, Cascaded, ResolvedIsHidden
<1>9. HiddenForCause'
  <2>1. \A q \in Posts : posts'[q] = "hidden" =>
          posts[q] = "hidden" /\ reports'[q] = reports[q]
    BY <1>2, <1>3
  <2> QED
    BY <2>1, <1>1 DEF IInv, HiddenForCause, Reported, hist
<1>10. RevokedIsBanned'
  BY <1>1, <1>5, RevokedFrame DEF hist
<1> QED
  BY <1>4, <1>6, <1>7, <1>8, <1>9, <1>10 DEF IInv
-----------------------------------------------------------------------------
LEMMA NextIInv == IInv /\ [Next]_vars => IInv'
<1> SUFFICES ASSUME IInv, [Next]_vars PROVE IInv'
  OBVIOUS
<1>1. ASSUME NEW s \in Slots, NEW p \in Posts, NEW r \in Reporters, CreateBegin(s, p, r)
      PROVE  IInv'
  BY <1>1, CreateBeginIInv
<1>2. ASSUME NEW s \in Slots, CreateInsert(s) \/ CreateCount(s) \/ CreateHide(s)
      PROVE  IInv'
  BY <1>2, CreateInsertIInv, CreateCountIInv, CreateHideIInv
<1>3. ASSUME NEW s \in Slots, CreateCommit(s)
      PROVE  IInv'
  BY <1>3, CreateCommitIInv
<1>4. ASSUME NEW s \in Slots, CreateFail(s)
      PROVE  IInv'
  BY <1>4, CreateEnds DEF CreateFail
<1>5. ASSUME NEW a \in Admins, NEW p \in Posts, NEW r \in Reporters, NEW x \in Actions,
             ActBegin(a, p, r, x)
      PROVE  IInv'
  BY <1>5, ActBeginIInv
<1>6. ASSUME NEW a \in Admins, ActAuthor(a) \/ ActHide(a) \/ ActResolve(a)
      PROVE  IInv'
  BY <1>6, ActAuthorIInv, ActHideIInv, ActResolveIInv
<1>7. ASSUME NEW a \in Admins, ActRevoke(a) \/ ActFail(a)
      PROVE  IInv'
  BY <1>7, ActRevokeIInv, ActFailIInv
<1>8. ASSUME NEW p \in Posts, DeleteBegin(p) \/ DeleteFail(p)
      PROVE  IInv'
  <2>1. PICK b \in BOOLEAN : /\ delete' = [delete EXCEPT ![p] = b]
                             /\ UNCHANGED <<posts, reports, create, act, hist>>
    BY <1>8 DEF DeleteBegin, DeleteFail
  <2> QED
    BY <2>1, DeleteFlag
<1>9. ASSUME NEW p \in Posts, DeleteByAuthor(p)
      PROVE  IInv'
  BY <1>9, DeleteByAuthorIInv
<1>10. CASE UNCHANGED vars
  <2>1. TypeOK'
    BY <1>10 DEF vars, hist, IInv, TypeOK
  <2>2. Transactions'
    BY <1>10 DEF vars, IInv, Transactions, Ongoing, Apart, Inserted, Reported
  <2>3. Decisions'
    BY <1>10 DEF vars, IInv, Decisions, Decided
  <2>4. (Cascaded /\ ResolvedIsHidden /\ HiddenForCause /\ RevokedIsBanned)'
    BY <1>10, Still DEF vars
  <2> QED
    BY <2>1, <2>2, <2>3, <2>4 DEF IInv
<1> QED
  BY <1>1, <1>2, <1>3, <1>4, <1>5, <1>6, <1>7, <1>8, <1>9, <1>10 DEF Next

(***************************************************************************)
(* The inductive invariant: the rows in flight are new and apart, a call of *)
(* Act that has hidden a post finds it hidden or gone, and the four         *)
(* invariants that follow.                                                  *)
(***************************************************************************)
THEOREM ModerationInv == Spec => []IInv
BY InitIInv, NextIInv, PTL DEF Spec

(***************************************************************************)
(* The tables and the calls in flight keep their types.                     *)
(***************************************************************************)
THEOREM ModerationTypeOK == Spec => []TypeOK
<1>1. IInv => TypeOK
  BY DEF IInv
<1> QED
  BY <1>1, ModerationInv, PTL

(***************************************************************************)
(* A report resolved with hide or ban is one of a hidden post, whichever    *)
(* statements of Act failed and whoever acted beside it.                    *)
(***************************************************************************)
THEOREM ModerationResolvedIsHidden == Spec => []ResolvedIsHidden
<1>1. IInv => ResolvedIsHidden
  BY DEF IInv
<1> QED
  BY <1>1, ModerationInv, PTL

(***************************************************************************)
(* A hidden post has the reports that hid it.                               *)
(***************************************************************************)
THEOREM ModerationHiddenForCause == Spec => []HiddenForCause
<1>1. IInv => HiddenForCause
  BY DEF IInv
<1> QED
  BY <1>1, ModerationInv, PTL

(***************************************************************************)
(* No session is deleted without the very report on record as a ban.        *)
(***************************************************************************)
THEOREM ModerationRevokedIsBanned == Spec => []RevokedIsBanned
<1>1. IInv => RevokedIsBanned
  BY DEF IInv
<1> QED
  BY <1>1, ModerationInv, PTL

(* The other way round.  A report turns into a ban in the UPDATE alone,     *)
(* which leaves the call at the Del, or is the call's last statement.       *)

\* A call that neither decides its report nor was about to delete the key.
LEMMA RevokesFrame ==
  ASSUME BanRevokes, revoked \subseteq revoked', spared \subseteq spared',
         \A p \in Posts, r \in Reporters : reports'[p][r] = "ban" => reports[p][r] = "ban",
         \A a \in Admins : act[a].pc = "revoke" =>
           act'[a] = act[a] \/ Report(a) \in revoked' \cup spared'
  PROVE  BanRevokes'
<1> SUFFICES ASSUME NEW p \in Posts, NEW r \in Reporters, reports'[p][r] = "ban"
             PROVE  \/ <<p, r>> \in revoked' \cup spared'
                    \/ \E a \in Admins : act'[a].pc = "revoke" /\ Report(a)' = <<p, r>>
  BY DEF BanRevokes
<1>1. \/ <<p, r>> \in revoked \cup spared
      \/ \E a \in Admins : act[a].pc = "revoke" /\ Report(a) = <<p, r>>
  BY DEF BanRevokes
<1>2. ASSUME NEW a \in Admins, act'[a] = act[a]
      PROVE  Report(a)' = Report(a)
  BY <1>2 DEF Report
<1> QED
  BY <1>1, <1>2

\* A step of one call of Act that was not about to delete the key.
LEMMA RevokesAct ==
  ASSUME IInv, BanRevokes, NEW a \in Admins, act[a].pc # "revoke", UNCHANGED revoked,
         \A b \in Admins \ {a} : act'[b] = act[b],
         \/ UNCHANGED <<reports, spared>>
         \/ /\ Resolve(a)
            /\ \/ act[a].action # "ban" /\ UNCHANGED spared
               \/ act'[a] = [act[a] EXCEPT !.pc = "revoke"] /\ UNCHANGED spared
               \/ spared' = spared \cup {Report(a)}
  PROVE  BanRevokes'
<1>1. CASE UNCHANGED reports
  BY <1>1, RevokesFrame
<1>2. CASE /\ Resolve(a)
           /\ \/ act[a].action # "ban" /\ UNCHANGED spared
              \/ act'[a] = [act[a] EXCEPT !.pc = "revoke"] /\ UNCHANGED spared
              \/ spared' = spared \cup {Report(a)}
  <2>1. \A p \in Posts, r \in Reporters : reports'[p][r] = "ban" =>
          \/ reports[p][r] = "ban"
          \/ <<p, r>> = Report(a) /\ act[a].action = "ban"
    BY <1>2 DEF Resolve, Report, IInv, TypeOK
  <2>2. CASE act[a].action # "ban" /\ UNCHANGED spared
    BY <2>1, <2>2, RevokesFrame
  <2>3. CASE act'[a] = [act[a] EXCEPT !.pc = "revoke"] /\ UNCHANGED spared
    <3>1. act'[a].pc = "revoke" /\ Report(a)' = Report(a)
      BY <2>3 DEF Report, IInv, TypeOK, ActCall
    <3>2. \A b \in Admins : act[b].pc = "revoke" =>
            act'[b].pc = "revoke" /\ Report(b)' = Report(b)
      BY DEF Report
    <3>3. ASSUME NEW p \in Posts, NEW r \in Reporters, reports'[p][r] = "ban"
          PROVE  \/ <<p, r>> \in revoked' \cup spared'
                 \/ \E b \in Admins : act'[b].pc = "revoke" /\ Report(b)' = <<p, r>>
      <4>1. CASE reports[p][r] = "ban"
        BY <4>1, <2>3, <3>2 DEF BanRevokes
      <4>2. CASE <<p, r>> = Report(a)
        BY <4>2, <3>1
      <4> QED
        BY <4>1, <4>2, <3>3, <2>1
    <3> QED
      BY <3>3 DEF BanRevokes
  <2>4. CASE spared' = spared \cup {Report(a)}
    <3>1. \A b \in Admins : act[b].pc = "revoke" =>
            act'[b].pc = "revoke" /\ Report(b)' = Report(b)
      BY DEF Report
    <3> QED
      BY <2>1, <2>4, <3>1 DEF BanRevokes
  <2> QED
    BY <1>2, <2>2, <2>3, <2>4
<1> QED
  BY <1>1, <1>2

LEMMA NextRevokes == IInv /\ BanRevokes /\ [Next]_vars => BanRevokes'
<1> SUFFICES ASSUME IInv, BanRevokes, [Next]_vars PROVE BanRevokes'
  OBVIOUS
<1>0. TypeOK
  BY DEF IInv
<1>1. ASSUME UNCHANGED <<reports, act, hist>>
      PROVE  BanRevokes'
  BY <1>1, RevokesFrame DEF hist
<1>2. ASSUME NEW s \in Slots, CreateCommit(s)
      PROVE  BanRevokes'
  <2>1. \A p \in Posts, r \in Reporters : reports'[p][r] = "ban" => reports[p][r] = "ban"
    BY <1>0, <1>2 DEF CreateCommit, TypeOK
  <2> QED
    BY <1>2, <2>1, RevokesFrame DEF CreateCommit, hist
<1>3. ASSUME NEW a \in Admins, NEW p \in Posts, NEW r \in Reporters, NEW x \in Actions,
             ActBegin(a, p, r, x)
      PROVE  BanRevokes'
  <2>1. \A b \in Admins \ {a} : act'[b] = act[b]
    BY <1>0, <1>3 DEF ActBegin, TypeOK
  <2> QED
    BY <1>3, <2>1, RevokesAct DEF ActBegin, hist
<1>4. ASSUME NEW a \in Admins, ActAuthor(a) \/ ActHide(a) \/ ActResolve(a) \/ ActFail(a)
      PROVE  BanRevokes'
  <2>1. /\ \A b \in Admins \ {a} : act'[b] = act[b]
        /\ act[a].pc # "revoke" /\ UNCHANGED revoked
    BY <1>0, <1>4 DEF ActAuthor, ActHide, ActResolve, ActFail, SetHidden, TypeOK, hist
  <2>2. \/ UNCHANGED <<reports, spared>>
        \/ /\ Resolve(a)
           /\ \/ act[a].action # "ban" /\ UNCHANGED spared
              \/ act' = [act EXCEPT ![a].pc = "revoke"] /\ UNCHANGED spared
              \/ spared' = spared \cup {Report(a)}
    BY <1>4 DEF ActAuthor, ActHide, ActResolve, ActFail, hist
  <2>3. act' = [act EXCEPT ![a].pc = "revoke"] =>
          act'[a] = [act[a] EXCEPT !.pc = "revoke"]
    BY <1>0 DEF TypeOK
  <2> QED
    BY <2>1, <2>2, <2>3, RevokesAct
<1>5. ASSUME NEW a \in Admins, ActRevoke(a)
      PROVE  BanRevokes'
  <2>1. \A b \in Admins \ {a} : act'[b] = act[b]
    BY <1>0, <1>5 DEF ActRevoke, TypeOK
  <2> QED
    BY <1>5, <2>1, RevokesFrame DEF ActRevoke
<1>6. ASSUME NEW p \in Posts, DeleteByAuthor(p)
      PROVE  BanRevokes'
  <2>1. \A q \in Posts, r \in Reporters : reports'[q][r] = "ban" => reports[q][r] = "ban"
    BY <1>0, <1>6 DEF DeleteByAuthor, TypeOK
  <2> QED
    BY <1>6, <2>1, RevokesFrame DEF DeleteByAuthor, hist
<1>7. ASSUME \/ \E s \in Slots :
                  \/ \E p \in Posts, r \in Reporters : CreateBegin(s, p, r)
                  \/ CreateInsert(s) \/ CreateCount(s) \/ CreateHide(s) \/ CreateFail(s)
             \/ \E p \in Posts : DeleteBegin(p) \/ DeleteFail(p)
             \/ UNCHANGED vars
      PROVE  UNCHANGED <<reports, act, hist>>
  BY <1>7 DEF CreateBegin, CreateInsert, CreateCount, CreateHide, CreateFail,
              DeleteBegin, DeleteFail, vars
<1> QED
  BY <1>1, <1>2, <1>3, <1>4, <1>5, <1>6, <1>7 DEF Next

(***************************************************************************)
(* Every ban on record has deleted its author's session key or is about to, *)
(* save where the UPDATE's answer was lost or the Del failed.               *)
(***************************************************************************)
THEOREM ModerationBanRevokes == Spec => []BanRevokes
<1>1. Init => BanRevokes
  BY DEF Init, BanRevokes
<1> QED
  BY <1>1, NextRevokes, ModerationInv, PTL DEF Spec

(***************************************************************************)
(* A decision on a report is never changed, only deleted with its post.     *)
(***************************************************************************)
THEOREM ModerationDecisionStands == Spec => DecisionStands
<1> DEFINE Stands == \A p \in Posts, r \in Reporters :
                       reports[p][r] \in Actions =>
                         reports'[p][r] = reports[p][r] \/ posts'[p] = "deleted"
<1>1. IInv /\ [Next]_vars => [Stands]_vars
  <2> SUFFICES ASSUME IInv, Next, NEW p \in Posts, NEW r \in Reporters,
                      reports[p][r] \in Actions
               PROVE  reports'[p][r] = reports[p][r] \/ posts'[p] = "deleted"
    OBVIOUS
  <2>1. TypeOK /\ Transactions /\ Decisions
    BY DEF IInv
  <2>2. CASE UNCHANGED reports
    BY <2>2
  <2>3. ASSUME NEW s \in Slots, CreateCommit(s)
        PROVE  reports'[p][r] = reports[p][r]
    <3>1. Inserted(s)
      BY <2>3 DEF CreateCommit, Inserted
    <3>2. reports[create[s].post][create[s].reporter] = "none"
      BY <3>1, CreateInside
    <3>3. create[s].post # p \/ create[s].reporter # r
      BY <3>2 DEF Actions
    <3> QED
      BY <2>1, <2>3, <3>3 DEF CreateCommit, TypeOK
  <2>4. ASSUME NEW a \in Admins, Resolve(a), Resolvable(act[a].post, act[a].reporter)
        PROVE  reports'[p][r] = reports[p][r]
    <3>1. act[a].post # p \/ act[a].reporter # r
      BY <2>4 DEF Actions, Resolvable
    <3> QED
      BY <2>1, <2>4, <3>1 DEF Resolve, TypeOK
  <2>5. ASSUME NEW q \in Posts, DeleteByAuthor(q)
        PROVE  reports'[p][r] = reports[p][r] \/ posts'[p] = "deleted"
    BY <2>1, <2>5 DEF DeleteByAuthor, TypeOK
  <2>6. ASSUME NEW s \in Slots,
               \/ \E q \in Posts, t \in Reporters : CreateBegin(s, q, t)
               \/ CreateInsert(s) \/ CreateCount(s) \/ CreateHide(s)
               \/ CreateCommit(s) \/ CreateFail(s)
        PROVE  CreateCommit(s) \/ UNCHANGED reports
    BY <2>6 DEF CreateBegin, CreateInsert, CreateCount, CreateHide, CreateFail
  <2>7. ASSUME NEW a \in Admins,
               \/ \E q \in Posts, t \in Reporters, x \in Actions : ActBegin(a, q, t, x)
               \/ ActAuthor(a) \/ ActHide(a) \/ ActResolve(a) \/ ActRevoke(a) \/ ActFail(a)
        PROVE  \/ Resolve(a) /\ Resolvable(act[a].post, act[a].reporter)
               \/ UNCHANGED reports
    BY <2>7 DEF ActBegin, ActAuthor, ActHide, ActResolve, ActRevoke, ActFail
  <2>8. ASSUME NEW q \in Posts, DeleteBegin(q) \/ DeleteFail(q)
        PROVE  UNCHANGED reports
    BY <2>8 DEF DeleteBegin, DeleteFail
  <2> QED
    BY <2>2, <2>3, <2>4, <2>5, <2>6, <2>7, <2>8 DEF Next
<1> QED
  BY <1>1, ModerationInv, PTL DEF Spec, DecisionStands
-----------------------------------------------------------------------------
(* How late auto-hiding comes.  A call that counted too few rows may commit *)
(* after others did; while the post is visible, what such calls may still   *)
(* add is part of the bound.                                                *)

Pending(p) ==
  {s \in Slots : create[s].pc = "commit" /\ ~create[s].hides /\ create[s].post = p}

Slack(p) ==
  posts[p] = "visible" =>
    Cardinality(Reported(p)) + Cardinality(Pending(p)) <= Threshold - 2 + Cardinality(Slots)

SlackInv == Threshold > 0 => \A p \in Posts : Slack(p)

LEMMA PendingCount ==
  ASSUME NEW p \in Posts
  PROVE  /\ IsFiniteSet(Pending(p)) /\ Cardinality(Pending(p)) \in Nat
         /\ IsFiniteSet(Pending(p)') /\ Cardinality(Pending(p)') \in Nat
         /\ Cardinality(Pending(p)') <= Cardinality(Slots)
         /\ Cardinality(Slots) \in Nat /\ Cardinality(Slots) > 0
<1>1. Pending(p) \subseteq Slots /\ Pending(p)' \subseteq Slots
  BY DEF Pending
<1>2. /\ IsFiniteSet(Pending(p)) /\ IsFiniteSet(Pending(p)')
      /\ Cardinality(Pending(p)') <= Cardinality(Slots)
  BY <1>1, FS_Subset
<1>3. Cardinality(Slots) # 0
  BY FS_EmptySet
<1> QED
  BY <1>2, <1>3, FS_CardinalityType

LEMMA InitSlack == Init => SlackInv
<1> SUFFICES ASSUME Init, Threshold > 0, NEW p \in Posts PROVE Slack(p)
  BY DEF SlackInv
<1>1. Reported(p) = {} /\ Pending(p) = {}
  BY DEF Init, Reported, Pending, NoCreate
<1>2. Cardinality(Reported(p)) = 0 /\ Cardinality(Pending(p)) = 0
  BY <1>1, FS_EmptySet
<1> QED
  BY <1>2, PendingCount DEF Slack

LEMMA SlackFrame ==
  ASSUME SlackInv, Threshold > 0, NEW p \in Posts,
         posts'[p] = "visible" => posts[p] = "visible",
         Reported(p)' \subseteq Reported(p), Pending(p)' \subseteq Pending(p)
  PROVE  Slack(p)'
<1>1. /\ Cardinality(Reported(p)') <= Cardinality(Reported(p))
      /\ Cardinality(Pending(p)') <= Cardinality(Pending(p))
  BY ReportedCount, PendingCount, FS_Subset
<1>2. Slack(p)
  BY DEF SlackInv
<1> QED
  BY <1>1, <1>2, ReportedCount, PendingCount DEF Slack

\* A step that changes one call of Create, and adds nobody to the pending.
LEMMA SlackCreate ==
  ASSUME IInv, SlackInv, Threshold > 0, NEW s \in Slots, NEW p \in Posts,
         UNCHANGED <<posts, reports>>,
         \A t \in Slots \ {s} : create'[t] = create[t],
         create'[s].pc = "commit" => create'[s].hides
  PROVE  Slack(p)'
<1>1. Pending(p)' \subseteq Pending(p)
  BY DEF Pending
<1>2. Reported(p)' = Reported(p)
  BY DEF Reported
<1> QED
  BY <1>1, <1>2, SlackFrame

LEMMA SlackCount ==
  ASSUME IInv, SlackInv, Threshold > 0, NEW s \in Slots, NEW p \in Posts, CreateCount(s)
  PROVE  Slack(p)'
<1>1. /\ create[s].pc = "count" /\ create \in [Slots -> CreateCall]
      /\ UNCHANGED <<posts, reports>>
      /\ create' = [create EXCEPT ![s].pc =
                      IF Reached(create[s].post) THEN "hide" ELSE "commit"]
  BY DEF CreateCount, IInv, TypeOK
<1>2. Reported(p)' = Reported(p)
  BY <1>1 DEF Reported
<1>3. CASE Reached(create[s].post) \/ create[s].post # p
  <2>1. Pending(p)' \subseteq Pending(p)
    BY <1>1, <1>3 DEF Pending, CreateCall
  <2> QED
    BY <2>1, <1>1, <1>2, SlackFrame
<1>4. CASE ~Reached(create[s].post) /\ create[s].post = p
  <2>1. ~(Cardinality(Reported(p)) + 1 >= Threshold)
    BY <1>4 DEF Reached
  <2>2. Cardinality(Reported(p)') <= Threshold - 2
    BY <2>1, <1>2, ReportedCount
  <2> QED
    BY <2>2, ReportedCount, PendingCount DEF Slack
<1> QED
  BY <1>3, <1>4

LEMMA SlackCommit ==
  ASSUME IInv, SlackInv, Threshold > 0, NEW s \in Slots, NEW p \in Posts, CreateCommit(s)
  PROVE  Slack(p)'
<1>1. /\ create[s].pc = "commit" /\ create \in [Slots -> CreateCall] /\ TypeOK
      /\ reports' = [reports EXCEPT ![create[s].post][create[s].reporter] = "open"]
      /\ posts' = IF create[s].hides THEN [posts EXCEPT ![create[s].post] = "hidden"] ELSE posts
      /\ create' = [create EXCEPT ![s] = NoCreate]
  BY DEF CreateCommit, IInv, TypeOK
<1>2. Inserted(s)
  BY <1>1 DEF Inserted
<1> PICK q \in Posts, r \in Reporters : q = create[s].post /\ r = create[s].reporter
  BY <1>2, CreateInside
<1>3. reports[q][r] = "none" /\ create[s].hides \in BOOLEAN
  BY <1>2, CreateInside
<1>4. Pending(p)' = Pending(p) \ {s}
  BY <1>1, IdleType DEF Pending
<1>5. CASE q # p
  <2>1. reports'[p] = reports[p] /\ posts'[p] = posts[p]
    BY <1>1, <1>5 DEF TypeOK
  <2> QED
    BY <2>1, <1>4, SlackFrame DEF Reported
<1>6. CASE q = p /\ create[s].hides
  <2>1. posts'[p] = "hidden"
    BY <1>1, <1>6 DEF TypeOK
  <2> QED
    BY <2>1 DEF Slack
<1>7. CASE q = p /\ ~create[s].hides
  <2>1. /\ reports'[q][r] = "open" /\ posts' = posts
        /\ \A t \in Reporters \ {r} : reports'[q][t] = reports[q][t]
    BY <1>1, <1>7 DEF TypeOK
  <2>2. Cardinality(Reported(p)') = Cardinality(Reported(p)) + 1
    BY <2>1, <1>3, <1>7, ReportedAdds
  <2>3. s \in Pending(p)
    BY <1>1, <1>7 DEF Pending
  <2>4. Cardinality(Pending(p)') = Cardinality(Pending(p)) - 1
    BY <2>3, <1>4, PendingCount, FS_RemoveElement
  <2>5. Slack(p)
    BY DEF SlackInv
  <2> QED
    BY <2>1, <2>2, <2>4, <2>5, ReportedCount, PendingCount DEF Slack
<1> QED
  BY <1>3, <1>5, <1>6, <1>7

\* No step of Act or Delete shows a post or adds to its reports.
LEMMA SlackOther ==
  ASSUME IInv, SlackInv, Threshold > 0, NEW p \in Posts, UNCHANGED create,
         posts'[p] = "visible" => posts[p] = "visible",
         \A r \in Reporters : reports[p][r] = "none" => reports'[p][r] = "none"
  PROVE  Slack(p)'
<1>1. Reported(p)' \subseteq Reported(p) /\ Pending(p)' = Pending(p)
  BY DEF Reported, Pending
<1> QED
  BY <1>1, SlackFrame

LEMMA NextSlack == IInv /\ SlackInv /\ [Next]_vars => SlackInv'
<1> SUFFICES ASSUME IInv, SlackInv, [Next]_vars, Threshold > 0, NEW p \in Posts
             PROVE  Slack(p)'
  BY DEF SlackInv
<1>0. TypeOK
  BY DEF IInv
<1>1. ASSUME NEW s \in Slots, NEW q \in Posts, NEW r \in Reporters, CreateBegin(s, q, r)
      PROVE  Slack(p)'
  <2>1. create'[s].pc = "insert" /\ \A t \in Slots \ {s} : create'[t] = create[t]
    BY <1>0, <1>1 DEF CreateBegin, TypeOK
  <2> QED
    BY <2>1, <1>1, SlackCreate DEF CreateBegin
<1>2. ASSUME NEW s \in Slots, CreateInsert(s)
      PROVE  Slack(p)'
  <2>1. create'[s].pc # "commit" /\ \A t \in Slots \ {s} : create'[t] = create[t]
    BY <1>0, <1>2, IdleType DEF CreateInsert, TypeOK, CreateCall
  <2> QED
    BY <2>1, <1>2, SlackCreate DEF CreateInsert
<1>3. ASSUME NEW s \in Slots, CreateHide(s)
      PROVE  Slack(p)'
  <2>1. create'[s].hides /\ \A t \in Slots \ {s} : create'[t] = create[t]
    BY <1>0, <1>3 DEF CreateHide, TypeOK, CreateCall
  <2> QED
    BY <2>1, <1>3, SlackCreate DEF CreateHide
<1>4. ASSUME NEW s \in Slots, CreateFail(s)
      PROVE  Slack(p)'
  <2>1. create'[s].pc # "commit" /\ \A t \in Slots \ {s} : create'[t] = create[t]
    BY <1>0, <1>4, IdleType DEF CreateFail, TypeOK
  <2> QED
    BY <2>1, <1>4, SlackCreate DEF CreateFail
<1>5. ASSUME NEW s \in Slots, CreateCount(s) \/ CreateCommit(s)
      PROVE  Slack(p)'
  BY <1>5, SlackCount, SlackCommit
<1>6. ASSUME NEW a \in Admins, NEW q \in Posts, NEW r \in Reporters, NEW x \in Actions,
             ActBegin(a, q, r, x)
      PROVE  Slack(p)'
  BY <1>6, SlackOther DEF ActBegin
<1>7. ASSUME NEW a \in Admins, UNCHANGED reports, UNCHANGED create,
             UNCHANGED posts \/ SetHidden(act[a].post)
      PROVE  Slack(p)'
  <2>1. posts'[p] = "visible" => posts[p] = "visible"
    BY <1>0, <1>7 DEF SetHidden, TypeOK
  <2> QED
    BY <2>1, <1>7, SlackOther
<1>8. ASSUME NEW a \in Admins, Resolve(a), Resolvable(act[a].post, act[a].reporter),
             UNCHANGED <<posts, create>>
      PROVE  Slack(p)'
  <2>1. \A r \in Reporters : reports[p][r] = "none" => reports'[p][r] = "none"
    BY <1>0, <1>8 DEF Resolve, Resolvable, TypeOK
  <2> QED
    BY <2>1, <1>8, SlackOther
<1>9. ASSUME NEW a \in Admins,
             ActAuthor(a) \/ ActHide(a) \/ ActResolve(a) \/ ActRevoke(a) \/ ActFail(a)
      PROVE  Slack(p)'
  <2>1. UNCHANGED create
    BY <1>9 DEF ActAuthor, ActHide, ActResolve, ActRevoke, ActFail
  <2>2. \/ UNCHANGED reports /\ (UNCHANGED posts \/ SetHidden(act[a].post))
        \/ /\ Resolve(a) /\ Resolvable(act[a].post, act[a].reporter)
           /\ UNCHANGED posts
    BY <1>9 DEF ActAuthor, ActHide, ActResolve, ActRevoke, ActFail
  <2> QED
    BY <2>1, <2>2, <1>7, <1>8
<1>10. ASSUME NEW q \in Posts, DeleteBegin(q) \/ DeleteFail(q) \/ DeleteByAuthor(q)
       PROVE  Slack(p)'
  <2>1. /\ posts'[p] = "visible" => posts[p] = "visible"
        /\ \A r \in Reporters : reports[p][r] = "none" => reports'[p][r] = "none"
        /\ UNCHANGED create
    BY <1>0, <1>10 DEF DeleteBegin, DeleteFail, DeleteByAuthor, TypeOK
  <2> QED
    BY <2>1, SlackOther
<1>11. CASE UNCHANGED vars
  BY <1>11, SlackOther DEF vars
<1> QED
  BY <1>1, <1>2, <1>3, <1>4, <1>5, <1>6, <1>9, <1>10, <1>11 DEF Next

(***************************************************************************)
(* Auto-hiding is late by at most the calls of Create in flight beside the  *)
(* one that counts, whatever the threshold and whoever fails.               *)
(***************************************************************************)
THEOREM ModerationAutoHideWithinSlack == Spec => []AutoHideWithinSlack
<1>1. IInv /\ SlackInv => AutoHideWithinSlack
  <2> SUFFICES ASSUME IInv, SlackInv, Threshold > 0, NEW p \in Posts,
                      Cardinality(Reported(p)) >= Threshold + Cardinality(Slots) - 1
               PROVE  posts[p] = "hidden"
    BY DEF AutoHideWithinSlack
  <2>1. posts[p] # "visible"
    BY ReportedCount, PendingCount DEF SlackInv, Slack
  <2>2. CASE posts[p] = "deleted"
    <3>1. Reported(p) = {}
      BY <2>2 DEF IInv, Cascaded, Reported
    <3>2. Cardinality(Reported(p)) = 0
      BY <3>1, FS_EmptySet
    <3> QED
      BY <3>2, PendingCount
  <2>3. posts[p] \in {"visible", "hidden", "deleted"}
    BY DEF IInv, TypeOK
  <2> QED
    BY <2>1, <2>2, <2>3
<1> QED
  BY <1>1, InitSlack, NextSlack, ModerationInv, PTL DEF Spec
-----------------------------------------------------------------------------
(* The casebook: which of its steps each statement takes.                   *)

LEMMA InitCases == Init => Cases!Init
BY DEF Init, Cases!Init, SignedOut

\* The Cardinality of the instance and of this module are one function.
LEMMA WithThisCount ==
  ASSUME NEW p
  PROVE  Cases!WithThis(p) = Cardinality(Reported(p)) + 1
BY DEF Cases!WithThis, Reported, Cases!Cardinality, Cardinality

LEMMA SignedOutStays == UNCHANGED revoked => UNCHANGED SignedOut
BY DEF SignedOut

LEMMA CommitFiles ==
  ASSUME IInv, NEW s \in Slots, CreateCommit(s), AutoHideWithinSlack'
  PROVE  \E p \in Posts, r \in Reporters : Cases!File(p, r)
<1>1. Inserted(s) /\ TypeOK
  BY DEF CreateCommit, Inserted, IInv
<1> PICK p \in Posts, r \in Reporters, h \in BOOLEAN :
       p = create[s].post /\ r = create[s].reporter /\ h = create[s].hides
  BY <1>1, CreateInside
<1>2. /\ posts[p] # "deleted" /\ reports[p][r] = "none"
      /\ h => Threshold > 0 /\ Cardinality(Reported(p)) + 1 >= Threshold
  BY <1>1, CreateInside
<1>3. /\ reports' = [reports EXCEPT ![p][r] = "open"]
      /\ posts' = IF h THEN [posts EXCEPT ![p] = "hidden"] ELSE posts
      /\ UNCHANGED <<moderated, revoked>>
  BY DEF CreateCommit, hist
<1>4. Cases!WithThis(p) = Cardinality(Reported(p)) + 1
  BY WithThisCount
<1>5. Cardinality(Reported(p)') = Cardinality(Reported(p)) + 1
  <2>1. reports'[p][r] = "open" /\ \A t \in Reporters \ {r} : reports'[p][t] = reports[p][t]
    BY <1>1, <1>3 DEF TypeOK
  <2> QED
    BY <1>2, <2>1, ReportedAdds
<1>6. ~h => \/ Threshold = 0 \/ posts[p] = "hidden"
            \/ Cases!WithThis(p) < Threshold + (Cardinality(Slots) - 1)
  <2> SUFFICES ASSUME ~h, Threshold # 0, posts[p] # "hidden"
               PROVE  Cases!WithThis(p) < Threshold + (Cardinality(Slots) - 1)
    OBVIOUS
  <2>1. posts'[p] # "hidden" /\ Threshold > 0
    BY <1>3
  <2>2. ~(Cardinality(Reported(p)') >= Threshold + Cardinality(Slots) - 1)
    BY <2>1 DEF AutoHideWithinSlack
  <2> QED
    BY <1>4, <1>5, <2>2, ReportedCount, PendingCount
<1>7. Cases!File(p, r)
  BY <1>2, <1>3, <1>4, <1>6, SignedOutStays DEF Cases!File
<1> QED
  BY <1>7

\* The UPDATE of a post by Act.
LEMMA HideHides ==
  ASSUME IInv, NEW a \in Admins, act[a].pc = "hide", posts[act[a].post] # "deleted",
         SetHidden(act[a].post), UNCHANGED <<reports, revoked>>
  PROVE  \E p \in Posts : Cases!Hide(p)
<1>1. Decided(a)
  BY DEF IInv, Decisions
<1>2. Cases!Hide(act[a].post)
  BY <1>1, SignedOutStays DEF Cases!Hide, SetHidden, Decided
<1> QED
  BY <1>1, <1>2 DEF Decided

\* The UPDATE of a report: a call that hides has hidden the post before.
LEMMA ResolveDecides ==
  ASSUME IInv, NEW a \in Admins, act[a].pc = "resolve",
         Resolvable(act[a].post, act[a].reporter), Resolve(a),
         UNCHANGED <<posts, moderated, revoked>>
  PROVE  \E p \in Posts, r \in Reporters, x \in Actions : Cases!Decide(p, r, x)
<1>1. Decided(a)
  BY DEF IInv, Decisions
<1> PICK p \in Posts, r \in Reporters, x \in Actions :
       p = act[a].post /\ r = act[a].reporter /\ x = act[a].action
  BY <1>1 DEF Decided
<1>2. /\ reports[p][r] = "open" /\ posts[p] # "deleted"
      /\ x # "dismiss" => posts[p] = "hidden"
  BY <1>1 DEF Decided, Resolvable, IInv, Cascaded, Actions
<1>3. Cases!Decide(p, r, x)
  BY <1>2, SignedOutStays DEF Cases!Decide, Resolve
<1> QED
  BY <1>3

LEMMA NextCases == IInv /\ AutoHideWithinSlack' /\ [Next]_vars => [Cases!Next]_(Cases!vars)
<1> SUFFICES ASSUME IInv, AutoHideWithinSlack', [Next]_vars
             PROVE  Cases!Next \/ UNCHANGED Cases!vars
  OBVIOUS
<1>0. UNCHANGED revoked => UNCHANGED SignedOut
  BY SignedOutStays
<1> USE <1>0 DEF Cases!vars, hist
<1>1. ASSUME NEW s \in Slots,
             \/ \E p \in Posts, r \in Reporters : CreateBegin(s, p, r)
             \/ CreateInsert(s) \/ CreateCount(s) \/ CreateHide(s) \/ CreateFail(s)
      PROVE  UNCHANGED Cases!vars
  BY <1>1 DEF CreateBegin, CreateInsert, CreateCount, CreateHide, CreateFail
<1>2. ASSUME NEW s \in Slots, CreateCommit(s)
      PROVE  Cases!Next
  BY <1>2, CommitFiles DEF Cases!Next
<1>3. ASSUME NEW a \in Admins,
             \/ \E p \in Posts, r \in Reporters, x \in Actions : ActBegin(a, p, r, x)
             \/ ActAuthor(a)
      PROVE  UNCHANGED Cases!vars
  BY <1>3 DEF ActBegin, ActAuthor
<1>4. ASSUME NEW a \in Admins, ActHide(a) \/ ActResolve(a) \/ ActFail(a)
      PROVE  Cases!Next \/ UNCHANGED Cases!vars
  <2>1. \/ UNCHANGED Cases!vars
        \/ /\ act[a].pc = "hide" /\ posts[act[a].post] # "deleted"
           /\ SetHidden(act[a].post) /\ UNCHANGED <<reports, revoked>>
        \/ /\ act[a].pc = "resolve" /\ Resolvable(act[a].post, act[a].reporter)
           /\ Resolve(a) /\ UNCHANGED <<posts, moderated, revoked>>
    BY <1>4 DEF ActHide, ActResolve, ActFail
  <2>2. ASSUME act[a].pc = "hide", posts[act[a].post] # "deleted",
               SetHidden(act[a].post), UNCHANGED <<reports, revoked>>
        PROVE  Cases!Next
    BY <2>2, HideHides DEF Cases!Next
  <2>3. ASSUME act[a].pc = "resolve", Resolvable(act[a].post, act[a].reporter),
               Resolve(a), UNCHANGED <<posts, moderated, revoked>>
        PROVE  Cases!Next
    BY <2>3, ResolveDecides DEF Cases!Next, Actions
  <2> QED
    BY <2>1, <2>2, <2>3
<1>5. ASSUME NEW a \in Admins, ActRevoke(a)
      PROVE  Cases!Next \/ UNCHANGED Cases!vars
  <2>1. /\ act[a].pc = "revoke" /\ UNCHANGED <<posts, reports, moderated>>
        /\ revoked' = revoked \cup {Report(a)} \/ UNCHANGED revoked
    BY <1>5 DEF ActRevoke
  <2>2. Decided(a)
    BY <2>1 DEF IInv, Decisions
  <2>3. ASSUME revoked' = revoked \cup {Report(a)}
        PROVE  Cases!SignOut(act[a].post)
    <3>1. Report(a)[1] = act[a].post
      BY DEF Report
    <3>2. SignedOut' = SignedOut \cup {act[a].post}
      BY <2>3, <3>1 DEF SignedOut
    <3> QED
      BY <2>1, <2>2, <3>2 DEF Cases!SignOut, Decided
  <2>4. UNCHANGED revoked => UNCHANGED Cases!vars
    BY <2>1
  <2>5. act[a].post \in Posts
    BY <2>2 DEF Decided
  <2> QED
    BY <2>1, <2>3, <2>4, <2>5 DEF Cases!Next
<1>6. ASSUME NEW p \in Posts, DeleteBegin(p) \/ DeleteFail(p)
      PROVE  UNCHANGED Cases!vars
  BY <1>6 DEF DeleteBegin, DeleteFail
<1>7. ASSUME NEW p \in Posts, DeleteByAuthor(p)
      PROVE  Cases!Next
  <2>1. Cases!Delete(p)
    BY <1>7 DEF DeleteByAuthor, Cases!Delete
  <2> QED
    BY <2>1 DEF Cases!Next
<1>8. CASE UNCHANGED vars
  BY <1>8 DEF vars
<1> QED
  BY <1>1, <1>2, <1>3, <1>4, <1>5, <1>6, <1>7, <1>8 DEF Next

(***************************************************************************)
(* The statements of Create, Act and Delete keep the casebook: each takes   *)
(* one of its steps or none, for every threshold and every number of calls, *)
(* whatever fails.                                                          *)
(***************************************************************************)
THEOREM ModerationImplementsCasebook == Spec => ImplementsCasebook
<1>1. Spec => []IInv /\ []AutoHideWithinSlack
  BY ModerationInv, ModerationAutoHideWithinSlack, PTL
<1> QED
  BY <1>1, InitCases, NextCases, PTL DEF Spec, ImplementsCasebook, Cases!Spec
=============================================================================
