----------------------------- MODULE Commission -----------------------------
(***************************************************************************)
(* The commission ledger of one location product and month:                *)
(* lib/commission/engine.ts and processor.ts.  An import computes the      *)
(* commission of the fee rows it has committed, outside its transaction    *)
(* and on a best effort; an admin may have a month recalculated.           *)
(*                                                                         *)
(* What an entry owes depends on the month's revenue before it, read from  *)
(* sales_records while other imports and recalculations run.  Amounts are  *)
(* in pence and rates in parts of Whole; every bracket's part of a         *)
(* commission is rounded to the penny.                                     *)
(***************************************************************************)
EXTENDS Integers, FiniteSets, Functions

CONSTANTS
  Fees,       \* booking fee rows (9991) that may be imported for the month
  Amount,     \* net_amount_gbp of each, negative for a refund
  Day,        \* transaction_date of each
  Histories,  \* commission_tiers: sets of [from, tiers]
  Infinity,   \* the ceiling of a bracket without maxRevenue
  Whole,      \* a rate is so many parts of it
  ChunkSize,  \* rows of one INSERT: 500 in the code
  Jobs,       \* calculations that may run at a time
  MaxCalcs,   \* bound on the calculations started
  MaxEdits    \* bound on the changes of the tiers

\* The revenue of a set of fee rows.
Revenue(fees) == SumFunctionOnSet(Amount, fees)

Gross == SumFunction([f \in Fees |-> IF Amount[f] > 0 THEN Amount[f] ELSE 0])

ASSUME FeeAssumption ==
  /\ IsFiniteSet(Fees) /\ Amount \in [Fees -> Int] /\ Day \in [Fees -> Nat]
  /\ Infinity \in Nat /\ Gross < Infinity /\ Whole \in Nat \ {0}
  /\ ChunkSize \in Nat \ {0} /\ MaxCalcs \in Nat /\ MaxEdits \in Nat

ASSUME HistoryAssumption ==
  \A h \in Histories : \A v \in h :
    /\ v.from \in Nat /\ IsFiniteSet(v.tiers)
    /\ \A w \in h : v.from = w.from => v = w
    /\ \A t \in v.tiers : t.floor \in Nat /\ t.ceil \in Nat /\ t.rate \in Nat

VARIABLES
  sold,     \* fee rows in sales_records
  history,  \* location_products.commission_tiers
  ledger,   \* commission_ledger
  job,      \* the calculations under way
  calcs,    \* history: calculations started
  edits,    \* history: changes of the tiers
  orderly   \* history: only imports so far, each alone and without a failure

ledgerVars == <<sold, history, ledger, job, calcs, edits, orderly>>

-----------------------------------------------------------------------------
(* engine.ts.                                                              *)

\* getActiveTierConfig: the latest version in force on a day, if there is one.
Active(h, day) ==
  {v \in h : v.from <= day /\ \A w \in h : w.from <= day => w.from <= v.from}

Tiers(h, day) == (CHOOSE v \in Active(h, day) : TRUE).tiers

\* Math.round(revenueInTier * rate * 100) / 100: to the penny, halves up.
Pence(x) == (2 * x + Whole) \div (2 * Whole)

\* One bracket of calculateWaterfallCommission takes its part of what is left.
Pour_FromFloor(acc, t) ==
  LET part == IF acc.left < t.ceil - t.floor THEN acc.left ELSE t.ceil - t.floor
  IN  IF acc.left <= 0 \/ acc.cursor >= t.ceil \/ part <= 0 THEN acc
      ELSE [left |-> acc.left - part, cursor |-> t.floor + part,
            owed |-> acc.owed + Pence(part * t.rate)]
Pour(acc, t) ==
  LET start == IF acc.cursor > t.floor THEN acc.cursor ELSE t.floor
      part  == IF acc.left < t.ceil - start THEN acc.left ELSE t.ceil - start
  IN  IF acc.left <= 0 \/ acc.cursor >= t.ceil \/ part <= 0 THEN acc
      ELSE [left |-> acc.left - part, cursor |-> start + part,
            owed |-> acc.owed + Pence(part * t.rate)]

Highest(tiers) == CHOOSE t \in tiers : \A s \in tiers : s.floor <= t.floor

\* The brackets in the order of their floors, the highest one last.
Waterfall(amount, before, tiers) ==
  LET poured[T \in SUBSET tiers] ==
        IF T = {} THEN [left |-> amount, cursor |-> before, owed |-> 0]
        ELSE Pour(poured[T \ {Highest(T)}], Highest(T))
  IN  poured[tiers].owed

-----------------------------------------------------------------------------
(* The ledger.  of is 0, or the calculation whose entry a reversal undoes;  *)
(* base stands for tierBreakdown, which tells where in the brackets the     *)
(* amount lies.                                                            *)

Entry == [fee : Fees, calc : 1..MaxCalcs, of : 0..MaxCalcs, base : Int, owed : Int]

Entries(c) == {e \in ledger : e.calc = c /\ e.of = 0}

Reversed_Again(e, c) == [e EXCEPT !.calc = c, !.of = e.calc]
Reversed(e, c) == [e EXCEPT !.calc = c, !.of = e.calc, !.owed = -e.owed]

\* order is the one the rows were calculated in, todo their entries that are not
\* inserted yet.
NoJob == [phase |-> "idle", recalc |-> FALSE, calc |-> 0, ids |-> {},
          order |-> [f \in {} |-> 0], todo |-> {}, undo |-> {}, alone |-> TRUE]

TypeOK ==
  /\ sold \subseteq Fees /\ history \in Histories
  /\ ledger \subseteq Entry
  /\ \A e \in ledger : IF e.of = 0 THEN e.owed >= 0 ELSE e.owed <= 0 /\ e.of < e.calc
  /\ \A j \in Jobs :
       /\ job[j].phase \in {"idle", "list", "calculate", "insert", "commit"}
       /\ job[j].ids \subseteq sold /\ job[j].todo \subseteq Entry
       /\ job[j].undo \subseteq Entry
  /\ calcs \in 0..MaxCalcs /\ edits \in 0..MaxEdits /\ orderly \in BOOLEAN

LedgerInit ==
  /\ sold = {} /\ ledger = {}
  /\ history \in Histories
  /\ job = [j \in Jobs |-> NoJob]
  /\ calcs = 0 /\ edits = 0
  /\ orderly = TRUE

-----------------------------------------------------------------------------
(* processor.ts.                                                           *)

Quiet == \A j \in Jobs : job[j].phase = "idle"

\* A calculation starts, and shares the ledger with those under way.
Begin(j, start) ==
  /\ job[j].phase = "idle"
  /\ calcs < MaxCalcs /\ calcs' = calcs + 1
  /\ job' = [k \in Jobs |->
               IF k = j THEN [start EXCEPT !.calc = calcs + 1, !.alone = Quiet]
               ELSE [job[k] EXCEPT !.alone = @ /\ job[k].phase = "idle"]]

\* An import has committed fee rows; now their commission is calculated.
Import(j, fees) ==
  /\ Begin(j, [NoJob EXCEPT !.phase = "calculate", !.ids = fees])
  /\ sold' = sold \cup fees
  /\ orderly' = (orderly /\ Quiet)
  /\ UNCHANGED <<history, ledger, edits>>

\* recalculateCommissions reverses every entry of the month, those reversed
\* before too.  The reversals are written in a transaction.
Recalculate(j) ==
  /\ Begin(j, [NoJob EXCEPT !.phase = "list", !.recalc = TRUE,
                 !.undo = {Reversed(e, calcs + 1) : e \in {d \in ledger : d.of = 0}}])
  /\ orderly' = FALSE
  /\ UNCHANGED <<sold, history, ledger, edits>>

\* The rows to calculate: all of the month, with entries or without.
MonthRecords_WithEntries == {e.fee : e \in ledger}
MonthRecords == sold

ListMonth(j) ==
  /\ job[j].phase = "list"
  /\ job' = [job EXCEPT ![j].ids = MonthRecords,
               ![j].phase = IF MonthRecords = {} THEN "commit" ELSE "calculate"]
  /\ UNCHANGED <<sold, history, ledger, calcs, edits, orderly>>

\* The revenue of the month without the rows to calculate.
Cumulative_WithBatch(ids) == Revenue(sold)
Cumulative(ids) == Revenue(sold \ ids)

\* The rows in the order of their days.
DayOrders(ids) ==
  {order \in Bijection(ids, 1..Cardinality(ids)) :
     \A f, g \in ids : order[f] < order[g] => Day[f] <= Day[g]}

\* Each row starts where the one before it ended.  A row that no version of the
\* tiers is in force for gets no entry, and the revenue goes on past it.
Base(ids, order, f) == Cumulative(ids) + Revenue({g \in ids : order[g] < order[f]})

Rows(ids, order, c) ==
  {[fee |-> f, calc |-> c, of |-> 0, base |-> Base(ids, order, f),
    owed |-> Waterfall(Amount[f], Base(ids, order, f), Tiers(history, Day[f]))] :
     f \in {g \in ids : Active(history, Day[g]) # {}}}

\* Reads the rows, the tiers and the revenue before them.
Calculate(j) ==
  /\ job[j].phase = "calculate"
  /\ \E order \in DayOrders(job[j].ids) :
       job' = [job EXCEPT ![j].phase = "insert", ![j].order = order,
                 ![j].todo = Rows(job[j].ids, order, job[j].calc)]
  /\ UNCHANGED <<sold, history, ledger, calcs, edits, orderly>>

NextEntries(j) ==
  {e \in job[j].todo :
     Cardinality({d \in job[j].todo : job[j].order[d.fee] < job[j].order[e.fee]})
       < ChunkSize}

\* The entries go through the pool and not the transaction of a recalculation:
\* every chunk is there at once and for good.
InsertEntries(j) ==
  /\ job[j].phase = "insert" /\ job[j].todo # {}
  /\ ledger' = ledger \cup NextEntries(j)
  /\ job' = [job EXCEPT ![j].todo = @ \ NextEntries(j)]
  /\ UNCHANGED <<sold, history, calcs, edits, orderly>>

Inserted(j) ==
  /\ job[j].phase = "insert" /\ job[j].todo = {}
  /\ job' = IF job[j].recalc THEN [job EXCEPT ![j].phase = "commit"]
            ELSE [job EXCEPT ![j] = NoJob]
  /\ UNCHANGED <<sold, history, ledger, calcs, edits, orderly>>

\* The transaction of a recalculation commits its reversals.
Commit(j) ==
  /\ job[j].phase = "commit"
  /\ ledger' = ledger \cup job[j].undo
  /\ job' = [job EXCEPT ![j] = NoJob]
  /\ UNCHANGED <<sold, history, calcs, edits, orderly>>

\* A statement fails or the server dies.  An import only logs it, and a
\* transaction takes its reversals back.
Fail(j) ==
  /\ job[j].phase # "idle"
  /\ job' = [job EXCEPT ![j] = NoJob]
  /\ orderly' = FALSE
  /\ UNCHANGED <<sold, history, ledger, calcs, edits>>

\* updateLocationProduct: other tiers, and nothing is recalculated.
EditTiers(h) ==
  /\ h # history /\ edits < MaxEdits
  /\ history' = h
  /\ edits' = edits + 1
  /\ job' = [j \in Jobs |-> [job[j] EXCEPT !.alone = @ /\ job[j].phase = "idle"]]
  /\ orderly' = FALSE
  /\ UNCHANGED <<sold, ledger, calcs>>

LedgerNext ==
  \/ \E j \in Jobs :
       \/ \E fees \in (SUBSET (Fees \ sold)) \ {{}} : Import(j, fees)
       \/ Recalculate(j) \/ ListMonth(j) \/ Calculate(j) \/ InsertEntries(j)
       \/ Inserted(j) \/ Commit(j) \/ Fail(j)
  \/ \E h \in Histories : EditTiers(h)

LedgerSpec == LedgerInit /\ [][LedgerNext]_ledgerVars

-----------------------------------------------------------------------------
(* Properties.                                                             *)

\* The part of a revenue that lies in a bracket.
Within(revenue, t) ==
  IF revenue <= t.floor THEN 0
  ELSE (IF revenue < t.ceil THEN revenue ELSE t.ceil) - t.floor

\* What a revenue owes by definition: each bracket's rate on its part of it, in
\* parts of a penny.
Owed(revenue, tiers) ==
  SumFunction([t \in tiers |-> t.rate * Within(revenue, t)])

\* What is due when a revenue grows: what that makes it owe in each bracket, to
\* the penny.
Due(from, to, tiers) ==
  SumFunction([t \in tiers |-> Pence(t.rate * (Within(to, t) - Within(from, t)))])

\* Brackets from 0 on without a gap, as the dialog proposes them; the server
\* takes any.
Contiguous(tiers) ==
  /\ \A t \in tiers : t.floor < t.ceil
  /\ \A t \in tiers : t.floor = 0 \/ \E s \in tiers : s.ceil = t.floor
  /\ \A s, t \in tiers : s # t => s.ceil <= t.floor \/ t.ceil <= s.floor

Net(entries) == SumFunction([e \in entries |-> e.owed])

\* fetchCommissionSummary adds up the entries that are no reversals.
Summary == Net({e \in ledger : e.of = 0})

\* A row's entry owes the difference that its amount makes to what the month
\* owes, to the penny in each bracket and however many it spans; a refund owes
\* nothing.
EntriesAreMarginal ==
  \A j \in Jobs : \A e \in job[j].todo :
    job[j].alone /\ e.base >= 0 /\ Contiguous(Tiers(history, Day[e.fee])) =>
      e.owed = IF Amount[e.fee] <= 0 THEN 0
               ELSE Due(e.base, e.base + Amount[e.fee], Tiers(history, Day[e.fee]))

\* Half a penny for every row and bracket is all that rounding may add or take.
Fair(paid, fees, tiers) ==
  LET off == Whole * paid - Owed(Revenue(fees), tiers)
      most == Cardinality(fees) * (Cardinality(tiers) * Whole)
  IN  2 * off <= most /\ 2 * (-off) <= most

\* The summary of a month whose imports came one after the other is what its
\* revenue owes, up to the rounding of the rows, in whatever order they came and
\* however the rows were divided among them, as long as one version of the tiers
\* applies and nothing was refunded.
SplitNeutral ==
  orderly /\ Quiet /\ sold # {} =>
    LET tiers == Tiers(history, Day[CHOOSE f \in sold : TRUE])
    IN  /\ \A f \in sold : Amount[f] >= 0 /\ Active(history, Day[f]) # {}
        /\ \A f, g \in sold : Active(history, Day[f]) = Active(history, Day[g])
        /\ Contiguous(tiers)
        => Fair(Summary, sold, tiers)

\* The revenue that comes before a row when the month is replayed by day: of the
\* rows of the same day any may come first.
Preceding(f) ==
  {Revenue({g \in sold : Day[g] < Day[f]} \cup same) :
     same \in SUBSET {g \in sold \ {f} : Day[g] = Day[f]}}

\* A recalculation that nothing else ran beside writes an entry for every row of
\* the month that tiers are in force for, as if the month had been imported in
\* order and at once, whatever imports had failed or overlapped before it; and
\* the first one leaves these as the month's net commission.
RecalcRepairs ==
  [][\A j \in Jobs : job[j].alone /\ Commit(j) =>
       LET mine == Entries(job[j].calc) IN
       /\ {e.fee : e \in mine} = {f \in sold : Active(history, Day[f]) # {}}
       /\ \A e \in mine :
            /\ e.base \in Preceding(e.fee)
            /\ \A d \in mine : d.fee = e.fee => d = e
       /\ (\A e \in ledger : e.of = 0) => Net(ledger') = Net(mine)]_ledgerVars
=============================================================================
