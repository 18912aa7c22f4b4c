---------------------------- MODULE MCWatchlist -----------------------------
(* The requests are interchangeable; the runs check safety properties only. *)
EXTENDS Watchlist, TLC

Requests == Permutations(Ops)
=============================================================================
