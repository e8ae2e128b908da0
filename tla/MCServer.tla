------------------------------ MODULE MCServer ------------------------------
(* Server for TLC: a good environment, and ones in which one of three       *)
(* variables, a text, a text that may be empty and a duration, is spoilt.   *)
EXTENDS Server, TLC

Good ==
  [v \in Texts \cup Ints \cup Durations \cup {"MODERATION_AUTO_HIDE_THRESHOLD"} |-> "good"]

Spoilt ==
  {Good} \cup {[Good EXCEPT ![v] = x] : v \in {"SERVER_PORT", "DB_PASSWORD", "JWT_TTL"},
                                        x \in Values}
=============================================================================
