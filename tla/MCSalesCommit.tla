--------------------------- MODULE MCSalesCommit ---------------------------
(* Instances of SalesCommit for TLC. *)
EXTENDS SalesCommit

CONSTANTS i1, i2, l1, l2

MCSales == 1..4
MCImportOf == <<i1, i2, i1, i1>>

Line(ref, amount, date, foreign, loc) ==
  [ref |-> ref, amount |-> amount, date |-> date, foreign |-> foreign, loc |-> loc]

\* Sales and refunds of two amounts, most of one reference.
MCLines ==
  <<Line(1, 11, 0, FALSE, l1), Line(1, 25, 1, TRUE, l2), Line(2, 25, 1, FALSE, l1),
    Line(1, -11, 1, FALSE, l2), Line(1, -25, 2, TRUE, l1)>>
MCRowData == Range(MCLines)

\* The rows of an import in one order only, a refund among them all; at first
\* the rate of day 0 is known.
MCInit ==
  /\ Init
  /\ \E n \in [Sales -> DOMAIN MCLines] :
       /\ row = [s \in Sales |-> MCLines[n[s]]]
       /\ \A s, t \in Sales : ImportOf[s] = ImportOf[t] /\ s < t => n[s] <= n[t]
  /\ \E s \in Sales : IsRefund(s)
  /\ rates[0] = 12 /\ rates[1] = NoRate /\ rates[2] = NoRate
MCSpec == MCInit /\ [][Next]_vars
=============================================================================
