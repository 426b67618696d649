----------------------------- MODULE MCSessions -----------------------------
(* One user in one or two companies.                                       *)
EXTENDS Sessions, TLC
CONSTANTS c1, c2, r1, r2, s1, s2
Symmetry == Permutations(Companies) \cup Permutations(Requests)
            \cup Permutations(Slots)
=============================================================================
