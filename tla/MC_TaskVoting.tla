--------------------------- MODULE MC_TaskVoting ---------------------------
(* Three voters, two items and sets of at most two voters, so that a set  *)
(* fills up and a third voter is refused while a counted voter retries.   *)
(* No definition names a particular voter: the voters are symmetric.     *)
EXTENDS TaskVoting, TLC

MC_Symmetry == Permutations(Who)
=============================================================================
