---------------------------- MODULE MCSendEmail ----------------------------
(* Instances of SendEmail for TLC: two digests of one hash and a mail      *)
(* without a hash.                                                         *)
EXTENDS SendEmail

CONSTANTS d1, d2, m1, k1

MCKeyOf(e) == IF e \in {d1, d2} THEN k1 ELSE NoKey
=============================================================================
