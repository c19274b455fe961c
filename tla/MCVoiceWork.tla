---------------------------- MODULE MCVoiceWork ----------------------------
(* A session of a few turns, all of which may be in progress at once, and the
   drafts of two customers, one of which has two. *)
EXTENDS VoiceWork, TLC

CONSTANTS d1, d2, d3

TwoOfACustomer == (d1 :> {d1, d2}) @@ (d2 :> {d1, d2}) @@ (d3 :> {d3})

TurnSymmetry == Permutations(Sessions) \cup Permutations(VoiceTurns)
=============================================================================
