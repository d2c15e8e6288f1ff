---------------------------- MODULE IngestLedger ----------------------------
(***************************************************************************)
(* What the sales ingestion promises, whatever runs, retries and crashes   *)
(* do: a ledger of ingested contents that only grows, in which no content  *)
(* appears twice.                                                          *)
(***************************************************************************)
CONSTANTS ImportIds, Files

VARIABLE ledger  \* the set of <<import, contents>> whose rows are visible

Init == ledger = {}

Ingest(i, f) ==
  /\ \A e \in ledger : e[1] # i /\ e[2] # f
  /\ ledger' = ledger \cup {<<i, f>>}

Next == \E i \in ImportIds, f \in Files : Ingest(i, f)

Spec == Init /\ [][Next]_ledger
=============================================================================
