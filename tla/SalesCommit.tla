---------------------------- MODULE SalesCommit ----------------------------
(***************************************************************************)
(* The rows of a sales import on their way from import_stagings to         *)
(* sales_records (_commitImportForActor): refunds are matched with their   *)
(* originals (lib/sales/reversal-matcher.ts), amounts are converted, and   *)
(* the rows are inserted in chunks of one transaction.                     *)
(*                                                                         *)
(* SalesEtl has the life of an import around this.  Here an import is      *)
(* committed at most once, by whoever staged it, next to other imports,    *)
(* merges of locations and the daily fetch of the rates, all of which the  *)
(* statements of the transaction see as soon as they are committed.        *)
(***************************************************************************)
EXTENDS FxRates, Integers, FiniteSets, Functions

CONSTANTS
  Sales,     \* ids of the rows: a number each, for the comparisons of uuids
  ImportOf,  \* the import of a row
  RowData,   \* what a row may say: [ref, amount, date, foreign, loc]
  Regions, Locs,
  Idle, NoRecord, NoSale, NoLoc,
  Unit,      \* what the rates are rates of, in pounds
  Chunk,     \* rows of an INSERT: 1000 in the code
  MaxMerges  \* bound on the merges of locations

Imports == {ImportOf[s] : s \in Sales}
RowsOf(i) == {s \in Sales : ImportOf[s] = i}

\* A row of sales_records: of the conversion it has the amount in pounds alone.
Record ==
  [loc : Locs, processedAt : Locs \cup {NoLoc}, original : Sales \cup {NoSale},
   partial : BOOLEAN, gbp : Int]

ASSUME SalesAssumption ==
  /\ Sales \subseteq Nat /\ IsFiniteSet(Sales)
  /\ Chunk \in Nat \ {0} /\ Unit \in Nat \ {0}
  /\ \A d \in RowData :
       d.amount \in Int \ {0} /\ d.date \in Days /\ d.foreign \in BOOLEAN /\ d.loc \in Locs

ASSUME NothingAssumption ==
  NoSale \notin Sales /\ NoLoc \notin Locs /\ NoRecord \notin Record
    /\ NoRate \notin Days

VARIABLES
  row,     \* what the staged rows say, their locations resolved
  region,  \* the region of an import
  status,  \* sales_imports.status
  commit,  \* commit[i]: the commit under way, with its matches and the rows
           \* it has inserted so far
  record,  \* sales_records, as far as committed
  merges,  \* bound
  crossed  \* history: imports a merge of locations came across

salesVars == <<row, region, status, commit, record, merges, crossed>>
vars == <<fxVars, salesVars>>

Init ==
  /\ FxInit
  /\ row \in [Sales -> RowData]
  /\ region \in [Imports -> Regions]
  /\ status = [i \in Imports |-> "staging"]
  /\ commit = [i \in Imports |-> Idle]
  /\ record = [s \in Sales |-> NoRecord]
  /\ merges = 0
  /\ crossed = {}

-----------------------------------------------------------------------------
(* reversal-matcher.ts.  A matching maps refunds to originals.             *)

IsRefund(s) == row[s].amount < 0
Size(s) == IF IsRefund(s) THEN -row[s].amount ELSE row[s].amount

\* The latest of the candidates, the lower id among those of one day.
Later_Earliest(o, p) ==
  row[o].date < row[p].date \/ (row[o].date = row[p].date /\ o < p)
Later(o, p) == row[o].date > row[p].date \/ (row[o].date = row[p].date /\ o < p)
Best(candidates) ==
  CHOOSE o \in candidates : \A p \in candidates \ {o} : Later(o, p)

\* One refund after the other takes the best original that is left for it.
Match(refunds, fitting, order) ==
  LET took[f \in refunds] ==
        LET earlier == {g \in refunds : order[g] < order[f]}
            left == fitting[f] \ {took[g] : g \in earlier}
        IN  IF left = {} THEN NoSale ELSE Best(left)
  IN  [f \in {g \in refunds : took[g] # NoSale} |-> took[f]]

\* In the batch the amounts are equal, across batches the original's may be
\* the larger one.
FitsInBatch(f, o) == row[f].ref = row[o].ref /\ Size(f) = Size(o)
FitsAcross(f, o) == row[f].ref = row[o].ref /\ Size(f) <= Size(o)

InBatch(i, order) ==
  Match({s \in RowsOf(i) : IsRefund(s)},
        [f \in RowsOf(i) |->
           {o \in RowsOf(i) : ~IsRefund(o) /\ FitsInBatch(f, o)}],
        order)

\* Committed rows of the region the batch left refunds for.
Committed == {s \in Sales : record[s] # NoRecord}
Candidates(i) ==
  {s \in Committed : region[ImportOf[s]] = region[i] /\ ~IsRefund(s)}

Across(i, inBatch, order) ==
  Match({s \in RowsOf(i) : IsRefund(s) /\ s \notin DOMAIN inBatch},
        [f \in RowsOf(i) |-> {o \in Candidates(i) : FitsAcross(f, o)}],
        order)

-----------------------------------------------------------------------------
(* _commitImportForActor.                                                  *)

\* The staged rows in any order, the candidates as they are committed: a match
\* keeps the location its original has now.
BeginCommit(i) ==
  /\ status[i] = "staging" /\ commit[i] = Idle
  /\ \E order \in Bijection(RowsOf(i), 1..Cardinality(RowsOf(i))) :
       LET inBatch == InBatch(i, order)
           across == Across(i, inBatch, order)
       IN  commit' = [commit EXCEPT ![i] =
             [order |-> order,
              original |-> [f \in DOMAIN inBatch \cup DOMAIN across |->
                              IF f \in DOMAIN inBatch THEN inBatch[f] ELSE across[f]],
              at |-> [f \in DOMAIN inBatch \cup DOMAIN across |->
                        IF f \in DOMAIN inBatch THEN row[inBatch[f]].loc
                        ELSE record[across[f]].loc],
              inserted |-> [s \in {} |-> NoRecord]]]
  /\ UNCHANGED <<fxVars, row, region, status, record, merges, crossed>>

\* The quotient to the nearest penny, halves away from zero (toFixed(2)).
InPounds(amount, rate) ==
  LET size == IF amount < 0 THEN -amount ELSE amount
      nearest == (2 * size * Unit + rate) \div (2 * rate)
  IN  IF amount < 0 THEN -nearest ELSE nearest

\* Pounds stay as they are, other amounts take the rate of their date.
Gbp(s) ==
  IF row[s].foreign
    THEN InPounds(row[s].amount, rates[RateDay(rates, row[s].date)])
    ELSE row[s].amount

Convertible(s) ==
  row[s].foreign =>
    /\ RateDay(rates, row[s].date) # NoRate
    /\ row[s].date - RateDay(rates, row[s].date) <= Limit

\* A row as it is inserted: a matched refund goes to its original's location.
NewRecord(i, s) ==
  LET c == commit[i]
      matched == s \in DOMAIN c.original
  IN [loc |-> IF matched THEN c.at[s] ELSE row[s].loc,
      processedAt |-> IF matched THEN row[s].loc ELSE NoLoc,
      original |-> IF matched THEN c.original[s] ELSE NoSale,
      partial |-> matched /\ Size(s) < Size(c.original[s]),
      gbp |-> Gbp(s)]

\* The order of the INSERTs: originals first, for the foreign key of a refund is
\* checked at once.
Before_AsStaged(order, s, t) == order[s] < order[t]
Before(order, s, t) ==
  IF IsRefund(s) = IsRefund(t) THEN order[s] < order[t] ELSE IsRefund(t)

\* One chunk: the rates of its rows, then the INSERT.
RowsLeft(i) == RowsOf(i) \ DOMAIN commit[i].inserted

NextChunk(i) ==
  {s \in RowsLeft(i) :
     Cardinality({t \in RowsLeft(i) : Before(commit[i].order, t, s)}) < Chunk}

InsertChunk(i) ==
  /\ commit[i] # Idle
  /\ RowsLeft(i) # {}
  /\ \A s \in NextChunk(i) : Convertible(s)
  /\ commit' = [commit EXCEPT ![i].inserted =
       [s \in DOMAIN @ \cup NextChunk(i) |->
          IF s \in DOMAIN @ THEN @[s] ELSE NewRecord(i, s)]]
  /\ UNCHANGED <<fxVars, row, region, status, record, merges, crossed>>

EndCommit(i) ==
  /\ commit[i] # Idle
  /\ RowsLeft(i) = {}
  /\ record' = [s \in Sales |-> IF s \in RowsOf(i) THEN commit[i].inserted[s]
                                ELSE record[s]]
  /\ status' = [status EXCEPT ![i] = "committed"]
  /\ commit' = [commit EXCEPT ![i] = Idle]
  /\ UNCHANGED <<fxVars, row, region, merges, crossed>>

\* A rate that is missing or stale, or an error of the database: all chunks are
\* rolled back.  After a crash the status stays at staging with nobody left to
\* commit the import, which is the same here.
FailCommit(i) ==
  /\ commit[i] # Idle
  /\ status' = [status EXCEPT ![i] = "failed"]
  /\ commit' = [commit EXCEPT ![i] = Idle]
  /\ UNCHANGED <<fxVars, row, region, record, merges, crossed>>

\* A merge of d into c moves committed rows, not staged ones nor matches.
MergeLocations(c, d) ==
  LET moved(l) == IF l = d THEN c ELSE l IN
  /\ c # d
  /\ merges < MaxMerges /\ merges' = merges + 1
  /\ record' = [s \in Sales |->
       IF record[s] = NoRecord THEN NoRecord
       ELSE [record[s] EXCEPT !.loc = moved(@), !.processedAt = moved(@)]]
  /\ crossed' = crossed \cup {i \in Imports : commit[i] # Idle}
  /\ UNCHANGED <<fxVars, row, region, status, commit>>

CommitStep(i) ==
  BeginCommit(i) \/ InsertChunk(i) \/ EndCommit(i) \/ FailCommit(i)

Next ==
  \/ \E i \in Imports : CommitStep(i)
  \/ \E c, d \in Locs : MergeLocations(c, d)
  \/ FxNext /\ UNCHANGED salesVars

Spec == Init /\ [][Next]_vars

-----------------------------------------------------------------------------
(* Properties.                                                             *)

\* The rows a statement of import i sees: its own and the committed ones.
Seen(i) ==
  [s \in Committed \cup DOMAIN commit[i].inserted |->
     IF s \in Committed THEN record[s] ELSE commit[i].inserted[s]]

\* In every state of a commit, chunk after chunk, and in the table: the
\* original of a refund is there when the foreign key is checked, is a sale of
\* the same reference and region and not smaller, belongs to one refund of an
\* import, and the refund is where its original is, also after merges, unless
\* one came between the match and the insert.
RefundsFindOriginals ==
  \A i \in Imports :
    LET seen == IF commit[i] = Idle THEN [s \in Committed |-> record[s]] ELSE Seen(i)
        refunds == {s \in DOMAIN seen : seen[s].original # NoSale}
    IN  \A s \in refunds :
          LET o == seen[s].original IN
          /\ o \in DOMAIN seen /\ IsRefund(s) /\ ~IsRefund(o)
          /\ row[o].ref = row[s].ref /\ Size(s) <= Size(o)
          /\ seen[s].partial <=> Size(s) < Size(o)
          /\ region[ImportOf[o]] = region[ImportOf[s]]
          /\ \A t \in refunds :
               ImportOf[t] = ImportOf[s] /\ seen[t].original = o => t = s
          /\ ImportOf[s] \notin crossed => seen[s].loc = seen[o].loc

MoreRecent(o, p) ==
  row[o].date > row[p].date \/ (row[o].date = row[p].date /\ o < p)

\* No better original was left aside, whatever the order of the rows and of the
\* candidates: one of the batch of the same amount, or else a committed one
\* that is large enough, that no refund has taken is less recent than the one
\* a refund has, and an orphan is one nothing was left for.
NoBetterOriginalLeft ==
  [][\A i \in Imports : commit[i] = Idle /\ commit'[i] # Idle =>
       LET got == commit'[i].original
           own == {s \in RowsOf(i) : ~IsRefund(s)} \ Range(got)
           old == Candidates(i) \ Range(got)
           better(f, o) == f \notin DOMAIN got \/ MoreRecent(o, got[f])
       IN  \A f \in {s \in RowsOf(i) : IsRefund(s)} :
             /\ \A o \in own : FitsInBatch(f, o) =>
                  f \in DOMAIN got /\ got[f] \in RowsOf(i) /\ ~better(f, o)
             /\ (f \notin DOMAIN got \/ got[f] \notin RowsOf(i)) =>
                  \A o \in old : FitsAcross(f, o) => ~better(f, o)]_vars

\* Every committed foreign amount is the conversion, to the penny, by a rate that
\* is in the table, of a day up to the sale's and within the limit, although rates
\* arrive late, more than once, and between the chunks of a commit.  It need not
\* be the rate a look-up finds later: one of a nearer day may have come since.
ConversionsStand ==
  \A s \in Committed :
    IF row[s].foreign
      THEN \E d \in Days :
             /\ rates[d] # NoRate /\ d <= row[s].date /\ row[s].date - d <= Limit
             /\ record[s].gbp = InPounds(row[s].amount, rates[d])
      ELSE record[s].gbp = row[s].amount
=============================================================================
