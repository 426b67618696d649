---------------------------- MODULE MCOnboarding ----------------------------
(* Two people. *)
EXTENDS Onboarding, TLC
CONSTANTS ann, bob, r1, r2
Symmetry == Permutations(Emails) \cup Permutations(Requests)
=============================================================================
