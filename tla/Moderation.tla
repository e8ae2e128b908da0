----------------------------- MODULE Moderation -----------------------------
(***************************************************************************)
(* Reports on posts and what comes of them: Create and Act of               *)
(* internal/service/report.go over internal/repository/report.go, Delete of *)
(* internal/service/post.go, and the tables posts and reports.              *)
(*                                                                          *)
(* PostgreSQL runs at READ COMMITTED.  A statement outside a transaction,   *)
(* and a statement of the transaction in Create, is one step; the row a     *)
(* transaction has inserted and the post it has hidden show to others when  *)
(* it commits.  A statement waits for the locks of other transactions: an   *)
(* INSERT for the same (post, reporter), a DELETE for every transaction     *)
(* that refers to the post, an UPDATE of the post for another UPDATE of it. *)
(***************************************************************************)
EXTENDS Integers, FiniteSets

CONSTANTS
  Posts,      \* posts that have been created
  Reporters,  \* users who may report them
  Slots,      \* calls of Report.Create that may be in flight at once
  Admins,     \* calls of Report.Act that may be in flight at once
  Threshold,  \* Moderation.AutoHideThreshold; 0 switches auto-hiding off
  Faults,     \* whether statements may fail
  None

ASSUME ModerationAssumption ==
  /\ Threshold \in Nat
  /\ IsFiniteSet(Reporters) /\ IsFiniteSet(Slots) /\ Slots # {}
  /\ Faults \in BOOLEAN
  /\ None \notin Posts \cup Reporters

VARIABLES
  posts,    \* a post: "visible", "hidden" or "deleted"
  reports,  \* the row of a post and a reporter: "none", "open" or its action
  create,   \* the Report.Create call in a slot
  act,      \* the Report.Act call in a slot
  delete,   \* whether the author's Post.Delete has checked the post
  moderated, \* history: posts that Act has hidden
  revoked,  \* history: reports for which Act has deleted the author's session key
  spared    \* history: reports whose ban is on record and whose Act failed before

hist == <<moderated, revoked, spared>>
vars == <<posts, reports, create, act, delete, hist>>

Actions == {"dismiss", "hide", "ban"}

CreateCall == [pc : {"idle", "insert", "count", "hide", "commit"},
               post : Posts \cup {None}, reporter : Reporters \cup {None},
               hides : BOOLEAN]
ActCall == [pc : {"idle", "author", "hide", "resolve", "revoke"},
            post : Posts \cup {None}, reporter : Reporters \cup {None},
            action : Actions \cup {None}]

NoCreate == [pc |-> "idle", post |-> None, reporter |-> None, hides |-> FALSE]
NoAct == [pc |-> "idle", post |-> None, reporter |-> None, action |-> None]

Init ==
  /\ posts = [p \in Posts |-> "visible"]
  /\ reports = [p \in Posts |-> [r \in Reporters |-> "none"]]
  /\ create = [s \in Slots |-> NoCreate]
  /\ act = [a \in Admins |-> NoAct]
  /\ delete = [p \in Posts |-> FALSE]
  /\ moderated = {}
  /\ revoked = {} /\ spared = {}

Reported(p) == {r \in Reporters : reports[p][r] # "none"}

\* The report a call of Act decides.
Report(a) == <<act[a].post, act[a].reporter>>

\* The transaction in slot s has inserted its row, and not ended.
Inserted(s) == create[s].pc \in {"count", "hide", "commit"}

\* It holds the row lock an UPDATE of the post takes.
HidesPost(s, p) == Inserted(s) /\ create[s].post = p /\ create[s].hides
-----------------------------------------------------------------------------
(* Report.Create.                                                          *)

\* posts.GetByID finds a visible post; a call that does not ends here.
CreateBegin(s, p, r) ==
  /\ create[s].pc = "idle"
  /\ posts[p] = "visible"
  /\ create' = [create EXCEPT ![s] =
       [pc |-> "insert", post |-> p, reporter |-> r, hides |-> FALSE]]
  /\ UNCHANGED <<posts, reports, act, delete, hist>>

\* The INSERT, against the unique and the foreign key.
CreateInsert(s) ==
  LET p == create[s].post
      r == create[s].reporter
  IN  /\ create[s].pc = "insert"
      /\ \A t \in Slots : Inserted(t) => <<create[t].post, create[t].reporter>> # <<p, r>>
      /\ \/ /\ posts[p] # "deleted" /\ reports[p][r] = "none"
            /\ create' = [create EXCEPT ![s].pc = IF Threshold = 0 THEN "commit" ELSE "count"]
         \/ /\ posts[p] = "deleted" \/ reports[p][r] # "none"
            /\ create' = [create EXCEPT ![s] = NoCreate]
      /\ UNCHANGED <<posts, reports, act, delete, hist>>

\* Mutant: off by one.
ReachedLate(p) == Cardinality(Reported(p)) >= Threshold

Reached(p) == Cardinality(Reported(p)) + 1 >= Threshold

\* The COUNT sees what has been committed, and the row just inserted.
CreateCount(s) ==
  /\ create[s].pc = "count"
  /\ create' = [create EXCEPT ![s].pc =
       IF Reached(create[s].post) THEN "hide" ELSE "commit"]
  /\ UNCHANGED <<posts, reports, act, delete, hist>>

\* Mutant: the UPDATE runs outside the transaction.
CreateHideNow(s) ==
  /\ create[s].pc = "hide"
  /\ create' = [create EXCEPT ![s].pc = "commit"]
  /\ posts' = [posts EXCEPT ![create[s].post] = "hidden"]
  /\ UNCHANGED <<reports, act, delete, hist>>

CreateHide(s) ==
  /\ create[s].pc = "hide"
  /\ \A t \in Slots : ~HidesPost(t, create[s].post)
  /\ create' = [create EXCEPT ![s].pc = "commit", ![s].hides = TRUE]
  /\ UNCHANGED <<posts, reports, act, delete, hist>>

CreateCommit(s) ==
  LET p == create[s].post
  IN  /\ create[s].pc = "commit"
      /\ reports' = [reports EXCEPT ![p][create[s].reporter] = "open"]
      /\ posts' = IF create[s].hides THEN [posts EXCEPT ![p] = "hidden"] ELSE posts
      /\ create' = [create EXCEPT ![s] = NoCreate]
      /\ UNCHANGED <<act, delete, hist>>

\* A statement fails, and the transaction is rolled back.
CreateFail(s) ==
  /\ Faults
  /\ create[s].pc # "idle"
  /\ create' = [create EXCEPT ![s] = NoCreate]
  /\ UNCHANGED <<posts, reports, act, delete, hist>>
-----------------------------------------------------------------------------
(* Report.Act.                                                             *)

\* reports.GetByID finds an open report.
ActBegin(a, p, r, action) ==
  /\ act[a].pc = "idle"
  /\ reports[p][r] = "open"
  /\ act' = [act EXCEPT ![a] =
       [pc |-> CASE action = "ban" -> "author"
                 [] action = "hide" -> "hide"
                 [] action = "dismiss" -> "resolve",
        post |-> p, reporter |-> r, action |-> action]]
  /\ UNCHANGED <<posts, reports, create, delete, hist>>

\* Mutant: the session is deleted as soon as the author is known.
ActAuthorRevoke(a) ==
  /\ act[a].pc = "author"
  /\ posts[act[a].post] # "deleted"
  /\ act' = [act EXCEPT ![a].pc = "hide"]
  /\ revoked' = revoked \cup {Report(a)}
  /\ UNCHANGED <<posts, reports, create, delete, moderated, spared>>

\* reports.GetPostAuthorID.
ActAuthor(a) ==
  /\ act[a].pc = "author"
  /\ \/ /\ posts[act[a].post] # "deleted"
        /\ act' = [act EXCEPT ![a].pc = "hide"]
     \/ /\ posts[act[a].post] = "deleted"
        /\ act' = [act EXCEPT ![a] = NoAct]
  /\ UNCHANGED <<posts, reports, create, delete, hist>>

\* Mutant: the column is set to false.
SetHiddenFalse(p) ==
  /\ posts' = [posts EXCEPT ![p] = "visible"]
  /\ moderated' = moderated \cup {p}

SetHidden(p) ==
  /\ posts' = [posts EXCEPT ![p] = "hidden"]
  /\ moderated' = moderated \cup {p}

ActHide(a) ==
  LET p == act[a].post
  IN  /\ act[a].pc = "hide"
      /\ \A s \in Slots : ~HidesPost(s, p)
      /\ \/ /\ posts[p] # "deleted"
            /\ SetHidden(p)
            /\ act' = [act EXCEPT ![a].pc = "resolve"]
         \/ /\ posts[p] = "deleted"
            /\ act' = [act EXCEPT ![a] = NoAct]
            /\ UNCHANGED <<posts, moderated>>
      /\ UNCHANGED <<reports, create, delete, revoked, spared>>

\* Mutant: the status is not part of the condition.
ResolvableAny(p, r) == reports[p][r] # "none"

\* reports.Resolve: UPDATE ... WHERE id = ? AND status = 'open'.
Resolvable(p, r) == reports[p][r] = "open"

Resolve(a) ==
  reports' = [reports EXCEPT ![act[a].post][act[a].reporter] = act[a].action]

\* Mutant: a ban ends with the UPDATE like the other decisions.
ActResolveEnds(a) ==
  /\ act[a].pc = "resolve"
  /\ \/ Resolvable(act[a].post, act[a].reporter) /\ Resolve(a)
     \/ ~Resolvable(act[a].post, act[a].reporter) /\ UNCHANGED reports
  /\ act' = [act EXCEPT ![a] = NoAct]
  /\ UNCHANGED <<posts, create, delete, hist>>

ActResolve(a) ==
  /\ act[a].pc = "resolve"
  /\ \/ /\ Resolvable(act[a].post, act[a].reporter)
        /\ Resolve(a)
        /\ act' = IF act[a].action = "ban" THEN [act EXCEPT ![a].pc = "revoke"]
                  ELSE [act EXCEPT ![a] = NoAct]
     \/ /\ ~Resolvable(act[a].post, act[a].reporter)
        /\ act' = [act EXCEPT ![a] = NoAct]
        /\ UNCHANGED reports
  /\ UNCHANGED <<posts, create, delete, hist>>

\* The Del of the author's session key, whose error is ignored.
ActRevoke(a) ==
  /\ act[a].pc = "revoke"
  /\ \/ revoked' = revoked \cup {Report(a)} /\ UNCHANGED spared
     \/ Faults /\ spared' = spared \cup {Report(a)} /\ UNCHANGED revoked
  /\ act' = [act EXCEPT ![a] = NoAct]
  /\ UNCHANGED <<posts, reports, create, delete, moderated>>

\* A statement fails before or after it took effect.
ActFail(a) ==
  LET p == act[a].post
      r == act[a].reporter
  IN  /\ Faults
      /\ \/ /\ act[a].pc \in {"author", "hide", "resolve"}
            /\ UNCHANGED <<posts, reports, moderated, spared>>
         \/ /\ act[a].pc = "hide" /\ posts[p] # "deleted"
            /\ \A s \in Slots : ~HidesPost(s, p)
            /\ SetHidden(p)
            /\ UNCHANGED <<reports, spared>>
         \/ /\ act[a].pc = "resolve" /\ Resolvable(p, r)
            /\ Resolve(a)
            /\ spared' = IF act[a].action = "ban" THEN spared \cup {Report(a)} ELSE spared
            /\ UNCHANGED <<posts, moderated>>
      /\ act' = [act EXCEPT ![a] = NoAct]
      /\ UNCHANGED <<create, delete, revoked>>
-----------------------------------------------------------------------------
(* Post.Delete by the author.                                              *)

DeleteBegin(p) ==
  /\ ~delete[p]
  /\ posts[p] = "visible"
  /\ delete' = [delete EXCEPT ![p] = TRUE]
  /\ UNCHANGED <<posts, reports, create, act, hist>>

\* posts.DeleteByAuthor; the reports of the post go with it.
DeleteByAuthor(p) ==
  /\ delete[p]
  /\ \A s \in Slots : Inserted(s) => create[s].post # p
  /\ posts' = [posts EXCEPT ![p] = "deleted"]
  /\ reports' = [reports EXCEPT ![p] = [r \in Reporters |-> "none"]]
  /\ delete' = [delete EXCEPT ![p] = FALSE]
  /\ UNCHANGED <<create, act, hist>>

DeleteFail(p) ==
  /\ Faults
  /\ delete[p]
  /\ delete' = [delete EXCEPT ![p] = FALSE]
  /\ UNCHANGED <<posts, reports, create, act, hist>>
-----------------------------------------------------------------------------
Next ==
  \/ \E s \in Slots :
       \/ \E p \in Posts, r \in Reporters : CreateBegin(s, p, r)
       \/ CreateInsert(s) \/ CreateCount(s) \/ CreateHide(s)
       \/ CreateCommit(s) \/ CreateFail(s)
  \/ \E a \in Admins :
       \/ \E p \in Posts, r \in Reporters, x \in Actions : ActBegin(a, p, r, x)
       \/ ActAuthor(a) \/ ActHide(a) \/ ActResolve(a) \/ ActRevoke(a) \/ ActFail(a)
  \/ \E p \in Posts : DeleteBegin(p) \/ DeleteByAuthor(p) \/ DeleteFail(p)

Spec == Init /\ [][Next]_vars
-----------------------------------------------------------------------------
TypeOK ==
  /\ posts \in [Posts -> {"visible", "hidden", "deleted"}]
  /\ reports \in [Posts -> [Reporters -> {"none", "open"} \cup Actions]]
  /\ create \in [Slots -> CreateCall]
  /\ act \in [Admins -> ActCall]
  /\ delete \in [Posts -> BOOLEAN]
  /\ moderated \in SUBSET Posts
  /\ revoked \in SUBSET (Posts \X Reporters)
  /\ spared \in SUBSET (Posts \X Reporters)

(***************************************************************************)
(* A moderator's decision stands: of the calls of Act that found the report *)
(* open one decides it, and none changes the decision; only the deletion of *)
(* the post removes it.                                                     *)
(***************************************************************************)
DecisionStands ==
  [][\A p \in Posts, r \in Reporters :
       reports[p][r] \in Actions =>
         reports'[p][r] = reports[p][r] \/ posts'[p] = "deleted"]_vars

(***************************************************************************)
(* A report resolved with hide or ban is one of a post that is hidden, at  *)
(* whatever statement of Act a failure struck.                             *)
(***************************************************************************)
ResolvedIsHidden ==
  \A p \in Posts, r \in Reporters :
    reports[p][r] \in {"hide", "ban"} => posts[p] = "hidden"

(***************************************************************************)
(* A post is hidden for a reason on record: a moderator who held an open   *)
(* report hid it, or it has as many reports as the threshold asks for; the *)
(* row that tips the count and the hiding are committed together.          *)
(***************************************************************************)
HiddenForCause ==
  \A p \in Posts : posts[p] = "hidden" =>
    /\ Reported(p) # {}
    /\ p \in moderated \/ (Threshold > 0 /\ Cardinality(Reported(p)) >= Threshold)

(***************************************************************************)
(* An author's session is deleted only for a report that was itself        *)
(* resolved with ban (and may since have gone with its post): the ban that *)
(* loses against another decision leaves the session alone.                *)
(***************************************************************************)
RevokedIsBanned ==
  \A m \in revoked : posts[m[1]] = "deleted" \/ reports[m[1]][m[2]] = "ban"

(***************************************************************************)
(* A ban on record has deleted the author's session key, or a call is      *)
(* about to.  What it leaves out is what Act gives up: the UPDATE that     *)
(* took effect and whose answer was lost, and the Del that failed, which   *)
(* Act ignores; no later call makes up for either, the report is decided.  *)
(***************************************************************************)
BanRevokes ==
  \A p \in Posts, r \in Reporters : reports[p][r] = "ban" =>
    \/ <<p, r>> \in revoked \cup spared
    \/ \E a \in Admins : act[a].pc = "revoke" /\ Report(a) = <<p, r>>

(***************************************************************************)
(* Auto-hiding comes late by at most the calls that were in flight at once *)
(* beside the one that counts: none of them sees the rows of the others.   *)
(***************************************************************************)
AutoHideWithinSlack ==
  Threshold > 0 =>
    \A p \in Posts :
      Cardinality(Reported(p)) >= Threshold + Cardinality(Slots) - 1 => posts[p] = "hidden"

\* The posts for which the author has been signed out.
SignedOut == {m[1] : m \in revoked}

Cases == INSTANCE Casebook WITH
  signedOut <- SignedOut, MaxLate <- Cardinality(Slots) - 1

(***************************************************************************)
(* The statements of Create, Act and Delete, however they interleave and    *)
(* wherever they fail, keep the casebook of module Casebook: what others    *)
(* see of posts, reports and sessions moves by its steps alone.             *)
(***************************************************************************)
ImplementsCasebook == Cases!Spec
=============================================================================
