---------------------------- MODULE MCPocAlerts ----------------------------
(* Instances of PocAlerts for TLC, with one run at a time. *)
EXTENDS PocAlerts, TLC

\* Only load-config reads the POCs, and emit-poc-emails the accounts; only
\* diff-state and write-state read the clock.  What changes at other times may as
\* well change right before these.
MCNext ==
  /\ Next
  /\ <<poc, users>>' # <<poc, users>> => \E r \in Runs : pc[r] \in {"load", "emit"}
  /\ now' # now => \E r \in Runs : pc[r] \in {"diff", "write"}
MCSpec == Init /\ [][MCNext]_vars

HotelSymmetry == Permutations(Hotels)
=============================================================================
