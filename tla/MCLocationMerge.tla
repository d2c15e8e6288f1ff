-------------------------- MODULE MCLocationMerge --------------------------
(* Instances of LocationMerge for TLC: two rows of one product and a row   *)
(* of another table.                                                       *)
EXTENDS LocationMerge, TLC

CONSTANTS p1, p2, k1, w1

MCProductOf == (p1 :> w1) @@ (p2 :> w1) @@ (k1 :> NoProduct)
\* At first every hotel has a region, two of them the same one; one of the two
\* has the product row p1 and the hotel group; p2 is elsewhere or missing.
MCInit ==
  /\ Init
  /\ \A l \in Locs : \E g \in Regions : <<l, g>> \in single
  /\ {m[2] : m \in single} = Regions
  /\ \E m, n \in single : m # n /\ m[2] = n[2] /\ m[1] = at[p1]
  /\ {m[1] : m \in multi} = {at[p1]} /\ at[p2] # at[p1]
MCSpec == MCInit /\ [][Next]_vars

MergeSymmetry == Permutations(Locs) \cup Permutations(Regions)
=============================================================================
