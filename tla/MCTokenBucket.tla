---------------------------- MODULE MCTokenBucket ----------------------------
(* Instances of TokenBucket for TLC. *)
EXTENDS TokenBucket, TLC

\* Callers of check() run the same code.
CallerSymmetry == Permutations(Callers)

=============================================================================
