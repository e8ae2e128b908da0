----------------------------- MODULE FeedStream -----------------------------
(***************************************************************************)
(* What the live feed promises its subscribers: one order of payloads for   *)
(* all of them, from which each receives, while it is a member, the stretch *)
(* that starts where it joined; a member never lags by more than MaxLag     *)
(* payloads, a member that left receives nothing more, and none comes back. *)
(***************************************************************************)
EXTENDS Integers, Sequences

CONSTANTS Subscribers, Payloads, MaxLag

VARIABLES
  log,     \* the payloads published, in order
  status,  \* of a subscriber: "idle", "live" or "gone"
  start,   \* Len(log) when the subscriber joined
  got      \* what the subscriber has received, in order

vars == <<log, status, start, got>>

Init ==
  /\ log = <<>>
  /\ status = [s \in Subscribers |-> "idle"]
  /\ start = [s \in Subscribers |-> 0]
  /\ got = [s \in Subscribers |-> <<>>]

Behind(s) == Len(log) - start[s] - Len(got[s])

Publish(p) ==
  /\ \A i \in 1..Len(log) : log[i] # p
  /\ \A s \in Subscribers : status[s] = "live" => Behind(s) < MaxLag
  /\ log' = Append(log, p)
  /\ UNCHANGED <<status, start, got>>

Join(s) ==
  /\ status[s] = "idle"
  /\ status' = [status EXCEPT ![s] = "live"]
  /\ start' = [start EXCEPT ![s] = Len(log)]
  /\ UNCHANGED <<log, got>>

Receive(s) ==
  /\ status[s] = "live"
  /\ Behind(s) > 0
  /\ got' = [got EXCEPT ![s] = Append(@, log[start[s] + Len(@) + 1])]
  /\ UNCHANGED <<log, status, start>>

Leave(s) ==
  /\ status[s] = "live"
  /\ status' = [status EXCEPT ![s] = "gone"]
  /\ UNCHANGED <<log, start, got>>

Next ==
  \/ \E p \in Payloads : Publish(p)
  \/ \E s \in Subscribers : Join(s) \/ Receive(s) \/ Leave(s)

Spec == Init /\ [][Next]_vars
=============================================================================
