----------------------------- MODULE Membership -----------------------------
(***************************************************************************)
(* What accounts promise, as if every request were one step: whoever joins *)
(* does so under a name of their own and keeps it; the cards that are      *)
(* handed out say no more of their holder than the roster does; and a      *)
(* holder who is no longer inside gets in again only by a renewal begun    *)
(* while inside.                                                           *)
(***************************************************************************)
CONSTANTS Users, Names

VARIABLES
  roster,      \* pairs of a member and their name
  moderators,  \* members who moderate
  cards,       \* what has been handed out: holder, name, and whether they moderate
  inside,      \* members whose session is open
  renewing     \* members with a renewal under way

vars == <<roster, moderators, cards, inside, renewing>>

Init == roster = {} /\ moderators = {} /\ cards = {} /\ inside = {} /\ renewing = {}

Join(u, n) ==
  /\ \A m \in roster : m[1] # u /\ m[2] # n
  /\ roster' = roster \cup {<<u, n>>}
  /\ UNCHANGED <<moderators, cards, inside, renewing>>

Appoint(u) ==
  /\ \E n \in Names : <<u, n>> \in roster
  /\ moderators' = moderators \cup {u}
  /\ UNCHANGED <<roster, cards, inside, renewing>>

\* The session of u opens, and u may be handed a card.
Open(u) ==
  /\ inside' = inside \cup {u}
  /\ \E n \in Names, a \in BOOLEAN :
       /\ <<u, n>> \in roster /\ (a => u \in moderators)
       /\ cards' \in {cards, cards \cup {[user |-> u, name |-> n, admin |-> a]}}

Enter(u) ==
  /\ \A c \in cards : c.user # u
  /\ Open(u)
  /\ UNCHANGED <<roster, moderators, renewing>>

\* Bans, and sessions that run out together.
Leave(S) ==
  /\ inside' = inside \ S
  /\ UNCHANGED <<roster, moderators, cards, renewing>>

Renew(u) ==
  /\ u \in inside
  /\ \E c \in cards : c.user = u
  /\ renewing' = renewing \cup {u}
  /\ UNCHANGED <<roster, moderators, cards, inside>>

\* A renewal of u ends, with success or without; there may be others.
Renewed(u) ==
  /\ u \in renewing
  /\ renewing' \in {renewing, renewing \ {u}}
  /\ Open(u) \/ UNCHANGED <<cards, inside>>
  /\ UNCHANGED <<roster, moderators>>

Next ==
  \/ \E u \in Users :
       \/ Appoint(u) \/ Enter(u) \/ Renew(u) \/ Renewed(u)
       \/ \E n \in Names : Join(u, n)
  \/ \E S \in SUBSET Users : Leave(S)

Spec == Init /\ [][Next]_vars
=============================================================================
