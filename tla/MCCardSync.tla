----------------------------- MODULE MCCardSync -----------------------------
(* Two customers of one company, who may come to share an address; two
   addresses and two cards. *)
EXTENDS CardSync, TLC
CONSTANTS ann, bob, one, a1, a2, k1, k2, r1, r2
CompanyOfEach == ann :> one @@ bob :> one
Symmetry == Permutations(MapleradCards) \cup Permutations(Runs)
               \cup Permutations(Addresses)
=============================================================================
