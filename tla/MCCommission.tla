---------------------------- MODULE MCCommission ----------------------------
(* Instances of Commission for TLC. *)
EXTENDS Commission, TLC

CONSTANTS f1, f2, f3

MCAmount == f1 :> 33 @@ f2 :> 25 @@ f3 :> -25
MCDay    == f1 :> 2 @@ f2 :> 1 @@ f3 :> 2

Open == 90
Low  == {[floor |-> 0, ceil |-> 20, rate |-> 1], [floor |-> 20, ceil |-> 40, rate |-> 2],
         [floor |-> 40, ceil |-> Open, rate |-> 5]}
High == {[floor |-> 0, ceil |-> Open, rate |-> 3]}
Gaps == {[floor |-> 10, ceil |-> 20, rate |-> 1], [floor |-> 30, ceil |-> Open, rate |-> 2]}

\* No tiers yet, one version, and a second one from the second day on.
MCHistories ==
  {{}, {[from |-> 0, tiers |-> Low]}, {[from |-> 0, tiers |-> Gaps]},
   {[from |-> 1, tiers |-> Low], [from |-> 2, tiers |-> High]}}

JobSymmetry == Permutations(Jobs)
=============================================================================
