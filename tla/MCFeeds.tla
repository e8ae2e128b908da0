------------------------------ MODULE MCFeeds -------------------------------
(* Feeds for TLC: ids, times and limits are numbers, so no set is symmetric. *)
EXTENDS Feeds
=============================================================================
