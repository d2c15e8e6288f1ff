------------------------- MODULE MCKioskAssignments -------------------------
(* Instances of KioskAssignments for TLC.                                  *)
EXTENDS KioskAssignments, TLC

\* Which location an archive or a merge carries in its request means nothing.
KioskSymmetry == Permutations(Kiosk) \cup Permutations(Location)
                   \cup Permutations(Writer)
=============================================================================
