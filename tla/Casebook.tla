------------------------------ MODULE Casebook ------------------------------
(***************************************************************************)
(* What moderation promises of a post and the reports on it, as if every    *)
(* request were one step: a reporter files one report on a post, the one    *)
(* that reaches the threshold hides it, up to MaxLate may come in between; *)
(* moderators hide a post some report is on, and decide a report once,      *)
(* against a post when it is hidden; an author is signed out for a ban on   *)
(* record; a post goes with its reports, and nothing shows it again.        *)
(***************************************************************************)
EXTENDS Integers, FiniteSets

CONSTANTS Posts, Reporters, Threshold, MaxLate

VARIABLES
  posts,     \* a post: "visible", "hidden" or "deleted"
  reports,   \* the report of a reporter on a post: "none", "open" or its decision
  moderated, \* posts that a moderator has hidden
  signedOut  \* posts for which the author has been signed out

vars == <<posts, reports, moderated, signedOut>>

Init ==
  /\ posts = [p \in Posts |-> "visible"]
  /\ reports = [p \in Posts |-> [r \in Reporters |-> "none"]]
  /\ moderated = {} /\ signedOut = {}

\* How many reports are on p with the one that is filed.
WithThis(p) == Cardinality({r \in Reporters : reports[p][r] # "none"}) + 1

File(p, r) ==
  /\ posts[p] # "deleted"
  /\ reports[p][r] = "none"
  /\ reports' = [reports EXCEPT ![p][r] = "open"]
  /\ \/ /\ Threshold > 0 /\ WithThis(p) >= Threshold
        /\ posts' = [posts EXCEPT ![p] = "hidden"]
     \/ /\ Threshold = 0 \/ posts[p] = "hidden" \/ WithThis(p) < Threshold + MaxLate
        /\ UNCHANGED posts
  /\ UNCHANGED <<moderated, signedOut>>

Hide(p) ==
  /\ posts[p] # "deleted"
  /\ \E r \in Reporters : reports[p][r] # "none"
  /\ posts' = [posts EXCEPT ![p] = "hidden"]
  /\ moderated' = moderated \cup {p}
  /\ UNCHANGED <<reports, signedOut>>

Decide(p, r, decision) ==
  /\ reports[p][r] = "open"
  /\ decision # "dismiss" => posts[p] = "hidden"
  /\ reports' = [reports EXCEPT ![p][r] = decision]
  /\ UNCHANGED <<posts, moderated, signedOut>>

SignOut(p) ==
  /\ posts[p] = "deleted" \/ \E r \in Reporters : reports[p][r] = "ban"
  /\ signedOut' = signedOut \cup {p}
  /\ UNCHANGED <<posts, reports, moderated>>

Delete(p) ==
  /\ posts' = [posts EXCEPT ![p] = "deleted"]
  /\ reports' = [reports EXCEPT ![p] = [r \in Reporters |-> "none"]]
  /\ UNCHANGED <<moderated, signedOut>>

Next == \E p \in Posts :
  \/ Hide(p) \/ SignOut(p) \/ Delete(p)
  \/ \E r \in Reporters :
       File(p, r) \/ \E decision \in {"dismiss", "hide", "ban"} : Decide(p, r, decision)

Spec == Init /\ [][Next]_vars
=============================================================================
