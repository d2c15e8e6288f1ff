----------------------------- MODULE MCSalesEtl -----------------------------
(* Instances of SalesEtl for TLC. *)
EXTENDS SalesEtl, TLC

CONSTANTS r1, r2, c1, c2, p1

\* Two runs in one server process, sharing its pool.
OneProcOf  == (r1 :> p1) @@ (r2 :> p1)
OnePool    == (c1 :> p1) @@ (c2 :> p1)
\* A single run in one process.
SoloProcOf == (r1 :> p1)

ImportSymmetry == Permutations(ImportIds)
=============================================================================
