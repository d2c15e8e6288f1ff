---------------------------- MODULE MCBulkMerge ----------------------------
(* Instances of BulkMerge for TLC: a cluster of three hotels, two rows of  *)
(* one product and a row of another table.                                 *)
EXTENDS BulkMerge, TLC

CONSTANTS ha, hb, hc, p1, p2, k1, w1

MCPairs == {<<ha, hb>>, <<ha, hc>>}
MCProductOf == (p1 :> w1) @@ (p2 :> w1) @@ (k1 :> NoProduct)

\* At first two hotels have a region, and a defunct one the hotel group and the
\* row of the other table.
MCInit ==
  /\ Init
  /\ Cardinality(single) = 2
  /\ at[k1] \in {hb, hc} /\ multi = {at[k1]} \X Groups
MCSpec == MCInit /\ [][Next]_vars

MCSymmetry == Permutations({p1, p2}) \cup Permutations(Regions)
                \cup Permutations({hb, hc}) \cup Permutations(Appliers)
=============================================================================
