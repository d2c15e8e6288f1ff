--------------------------- MODULE MCPocAlertMail ---------------------------
(* Instances of PocAlertMail for TLC. *)
EXTENDS PocAlertMail
=============================================================================
