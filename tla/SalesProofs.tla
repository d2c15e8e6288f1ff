---------------------------- MODULE SalesProofs -----------------------------
(***************************************************************************)
(* Proofs about what becomes of the rows of a sales import: the commit of  *)
(* an import with the rates it converts with (SalesCommit, FxRates), and   *)
(* the commission calculated of the rows afterwards (Commission), for any  *)
(* imports, rows, rates, days, tiers, jobs and sizes of chunk.             *)
(*                                                                         *)
(* The modules share no state; each has its own invariant: Inv for the     *)
(* commits, LedgerInv for the ledger.                                      *)
(***************************************************************************)
EXTENDS SalesCommit, Commission, FiniteSetTheorems, WellFoundedInduction, TLAPS

-----------------------------------------------------------------------------
(* Numbers and choices.                                                    *)

\* A set of numbers has a least one.
LEMMA LeastOf ==
  ASSUME NEW N \in SUBSET Nat, N # {}
  PROVE  \E n \in N : \A m \in N : n <= m
<1>1. PICK n \in N : \A m \in N : <<m, n>> \notin OpToRel(<, Nat)
  BY NatLessThanWellFounded, WFMin
<1>2. \A m \in N : ~(m < n)
  BY <1>1 DEF OpToRel
<1>. QED  BY <1>2

\* A set of numbers that ends somewhere has a greatest one.
LEMMA GreatestOf ==
  ASSUME NEW N \in SUBSET Nat, N # {}, NEW b \in Nat, \A n \in N : n <= b
  PROVE  \E n \in N : \A m \in N : m <= n
<1> DEFINE M == {k \in Nat : \E n \in N : k + n = b}
<1>1. PICK n \in N : TRUE
  OBVIOUS
<1>2. b - n \in M
  BY <1>1
<1>3. PICK k \in M : \A j \in M : k <= j
  BY <1>2, LeastOf
<1>4. PICK m \in N : k + m = b
  BY <1>3
<1>5. \A j \in N : b - j \in M
  OBVIOUS
<1>6. k \in Nat /\ \A j \in N : k <= b - j
  BY <1>3, <1>5
<1>. HIDE DEF M
<1>7. \A j \in N : j <= m
  BY <1>4, <1>6
<1>. QED  BY <1>7

-----------------------------------------------------------------------------
(* The matcher: what a matching says of its refunds.                       *)

\* What is left of the originals that fit a refund when its turn comes.
Left(took, refunds, fitting, order, f) ==
  fitting[f] \ {took[g] : g \in {h \in refunds : order[h] < order[f]}}

Taken(left) == IF left = {} THEN NoSale ELSE Best(left)

\* The refunds before a position have taken what is best.
TookBefore(took, n, refunds, fitting, order) ==
  took = [f \in {g \in refunds : order[g] < n} |->
            Taken(Left(took, refunds, fitting, order, f))]

\* The refund at the next position has its turn.
LEMMA TakeNext ==
  ASSUME NEW refunds, NEW fitting, NEW order, \A f \in refunds : order[f] \in Nat,
         NEW n \in Nat,
         NEW t, TookBefore(t, n, refunds, fitting, order)
  PROVE  \E u : TookBefore(u, n + 1, refunds, fitting, order)
<1> DEFINE u == [f \in {g \in refunds : order[g] < n + 1} |->
                   IF order[f] < n THEN t[f]
                   ELSE Taken(Left(t, refunds, fitting, order, f))]
<1>1. ASSUME NEW f \in refunds, order[f] < n + 1
      PROVE  Left(u, refunds, fitting, order, f) = Left(t, refunds, fitting, order, f)
  <2>1. \A g \in {h \in refunds : order[h] < order[f]} : u[g] = t[g]
    BY <1>1
  <2>. QED  BY <2>1 DEF Left
<1>2. \A f \in refunds : order[f] < n =>
        t[f] = Taken(Left(t, refunds, fitting, order, f))
  BY DEF TookBefore
<1>3. \A f \in refunds : order[f] < n + 1 =>
        u[f] = Taken(Left(u, refunds, fitting, order, f))
  BY <1>1, <1>2
<1>4. u = [f \in {g \in refunds : order[g] < n + 1} |-> u[f]]
  OBVIOUS
<1>. HIDE DEF u
<1>5. TookBefore(u, n + 1, refunds, fitting, order)
  BY <1>3, <1>4 DEF TookBefore
<1>. QED  BY <1>5

\* Every refund has its turn.
LEMMA TakeAll ==
  ASSUME NEW refunds, NEW fitting, NEW order, \A f \in refunds : order[f] \in Nat,
         NEW n \in Nat
  PROVE  \E t : TookBefore(t, n, refunds, fitting, order)
<1> DEFINE Bad == {k \in Nat : ~ \E t : TookBefore(t, k, refunds, fitting, order)}
<1>. SUFFICES ASSUME Bad # {} PROVE FALSE
  OBVIOUS
<1>1. PICK k \in Bad : \A m \in Bad : k <= m
  BY LeastOf
<1>2. k # 0
  <2> DEFINE t == [f \in {g \in refunds : order[g] < 0} |->
                     Taken(Left(<<>>, refunds, fitting, order, f))]
  <2>1. {g \in refunds : order[g] < 0} = {}
    OBVIOUS
  <2>2. t = [f \in {g \in refunds : order[g] < 0} |->
                     Taken(Left(t, refunds, fitting, order, f))]
    BY <2>1
  <2>. HIDE DEF t
  <2>3. TookBefore(t, 0, refunds, fitting, order)
    BY <2>2 DEF TookBefore
  <2>. QED  BY <2>3, <1>1
<1>3. k - 1 \in Nat /\ k - 1 \notin Bad
  BY <1>1, <1>2
<1>4. PICK t : TookBefore(t, k - 1, refunds, fitting, order)
  BY <1>3
<1>5. \E u : TookBefore(u, (k - 1) + 1, refunds, fitting, order)
  BY <1>3, <1>4, TakeNext
<1>6. (k - 1) + 1 = k
  OBVIOUS
<1>. QED  BY <1>1, <1>5, <1>6

\* The matching is what the refunds have taken when all had their turn.
LEMMA MatchIs ==
  ASSUME NEW refunds, NEW fitting, NEW order, NEW N \in Nat,
         \A f \in refunds : order[f] \in 1..N,
         NEW m, m = Match(refunds, fitting, order)
  PROVE  \E t : /\ \A f \in refunds :
                     t[f] = Taken(Left(t, refunds, fitting, order, f))
                /\ \A f : f \in DOMAIN m <=> f \in refunds /\ t[f] # NoSale
                /\ \A f \in DOMAIN m : m[f] = t[f]
<1> DEFINE E(t) == t = [f \in refunds |-> Taken(Left(t, refunds, fitting, order, f))]
           took == CHOOSE t : E(t)
<1>1. \E t : E(t)
  <2>1. (\A f \in refunds : order[f] \in Nat) /\ N + 1 \in Nat
    OBVIOUS
  <2>2. PICK t : TookBefore(t, N + 1, refunds, fitting, order)
    BY <2>1, TakeAll
  <2>3. {g \in refunds : order[g] < N + 1} = refunds
    OBVIOUS
  <2>4. E(t)
    BY <2>2, <2>3 DEF TookBefore
  <2>. QED  BY <2>4
<1>2. E(took)
  BY <1>1
<1>3. m = [f \in {g \in refunds : took[g] # NoSale} |-> took[f]]
  BY DEF Match, Left, Taken
<1>. HIDE DEF took
<1>4. \A f \in refunds : took[f] = Taken(Left(took, refunds, fitting, order, f))
  BY <1>2
<1>. QED  BY <1>3, <1>4

\* The rows say what rows may say.
RowsTyped == row \in [Sales -> RowData]

\* Of some sales one is the best: the latest, the lowest id of its day.
LEMMA BestIs ==
  ASSUME RowsTyped, NEW left \in SUBSET Sales, left # {}
  PROVE  /\ Best(left) \in left
         /\ \A p \in left : p # Best(left) => Later(Best(left), p)
<1> USE SalesAssumption, FxAssumption
<1>1. \A s \in Sales : row[s].date \in Nat /\ row[s].date <= LastDay
  BY DEF RowsTyped, Days
<1> DEFINE dates == {row[s].date : s \in left}
<1>2. dates \in SUBSET Nat /\ dates # {} /\ \A d \in dates : d <= LastDay
  BY <1>1
<1>3. PICK d \in dates : \A e \in dates : e <= d
  BY <1>2, GreatestOf
<1> DEFINE last == {s \in left : row[s].date = d}
<1>4. last \in SUBSET Nat /\ last # {}
  BY <1>3
<1>5. PICK o \in last : \A p \in last : o <= p
  BY <1>4, LeastOf
<1>6. ASSUME NEW p \in left, p # o PROVE Later(o, p)
  <2>1. row[p].date <= row[o].date /\ row[p].date \in Nat /\ row[o].date \in Nat
    BY <1>1, <1>3
  <2>2. row[p].date = row[o].date => o <= p
    BY <1>5, <1>6
  <2>. QED  BY <2>1, <2>2, <1>6 DEF Later
<1>7. o \in left
  OBVIOUS
<1>8. \E q \in left : \A p \in left \ {q} : Later(q, p)
  BY <1>6, <1>7
<1>. QED  BY <1>8 DEF Best

\* The refunds have different places among the first n.
HavePlaces(refunds, order, n) ==
  /\ n \in Nat
  /\ \A f \in refunds : order[f] \in 1..n
  /\ \A f, g \in refunds : order[f] = order[g] => f = g

\* What a matching says: a refund has what fits it, an original has one refund,
\* and no refund has less than the best of the originals nobody has.
Matching(m, refunds, fitting) ==
  /\ DOMAIN m \subseteq refunds
  /\ \A f \in DOMAIN m : m[f] \in fitting[f]
  /\ \A f, g \in DOMAIN m : m[f] = m[g] => f = g
  /\ \A f \in refunds : \A o \in fitting[f] :
       (\A g \in DOMAIN m : m[g] # o) => f \in DOMAIN m /\ Later(m[f], o)

\* A matching gives a refund what fits it, an original to one refund only, and
\* no refund less than the best of those that nobody has.
LEMMA MatchFacts ==
  ASSUME RowsTyped, NEW refunds, NEW fitting,
         \A f \in refunds : fitting[f] \subseteq Sales,
         NEW order, NEW N, HavePlaces(refunds, order, N),
         NEW m, m = Match(refunds, fitting, order)
  PROVE  Matching(m, refunds, fitting)
<1>1. PICK t : /\ \A f \in refunds :
                    t[f] = Taken(Left(t, refunds, fitting, order, f))
               /\ \A f : f \in DOMAIN m <=> f \in refunds /\ t[f] # NoSale
               /\ \A f \in DOMAIN m : m[f] = t[f]
  BY MatchIs DEF HavePlaces
<1>2. DOMAIN m = {g \in refunds : t[g] # NoSale} /\ \A f \in DOMAIN m : m[f] = t[f]
  BY <1>1
<1>3. \A f \in refunds : Left(t, refunds, fitting, order, f) \in SUBSET Sales
  BY DEF Left
<1>4. ASSUME NEW f \in refunds, Left(t, refunds, fitting, order, f) # {}
      PROVE  /\ t[f] \in Left(t, refunds, fitting, order, f)
             /\ t[f] # NoSale
             /\ \A p \in Left(t, refunds, fitting, order, f) :
                  p # t[f] => Later(t[f], p)
  <2>1. t[f] = Best(Left(t, refunds, fitting, order, f))
    BY <1>1, <1>4 DEF Taken
  <2>. QED  BY <2>1, <1>3, <1>4, BestIs, NothingAssumption
<1>5. ASSUME NEW f \in refunds, t[f] # NoSale
      PROVE  t[f] \in Left(t, refunds, fitting, order, f)
  BY <1>1, <1>4, <1>5 DEF Taken
<1>6. \A f \in DOMAIN m : m[f] \in fitting[f]
  BY <1>2, <1>5 DEF Left
<1>7. \A f, g \in DOMAIN m : order[f] < order[g] => m[f] # m[g]
  BY <1>2, <1>5 DEF Left
<1>8. ASSUME NEW f \in DOMAIN m, NEW g \in DOMAIN m, m[f] = m[g] PROVE f = g
  <2>1. ~(order[f] < order[g]) /\ ~(order[g] < order[f])
    BY <1>7, <1>8
  <2>2. order[f] \in 1..N /\ order[g] \in 1..N
    BY <1>2 DEF HavePlaces
  <2>. QED  BY <2>1, <2>2, <1>2 DEF HavePlaces
<1>9. ASSUME NEW f \in refunds, NEW o \in fitting[f], \A g \in DOMAIN m : m[g] # o
      PROVE  f \in DOMAIN m /\ Later(m[f], o)
  <2>1. o # NoSale
    BY NothingAssumption
  <2>2. \A g \in refunds : t[g] # o
    BY <1>2, <1>9, <2>1
  <2>3. o \in Left(t, refunds, fitting, order, f)
    BY <2>2 DEF Left
  <2>. QED  BY <1>2, <1>4, <2>2, <2>3
<1>. QED  BY <1>2, <1>6, <1>8, <1>9 DEF Matching

-----------------------------------------------------------------------------
(* The inductive invariant of the commits.                                 *)

Orders(i) == Bijection(RowsOf(i), 1..Cardinality(RowsOf(i)))

\* Types of the tables; a commit under way has an order, matches and rows.
Types ==
  /\ RowsTyped
  /\ rates \in [Days -> Values \cup {NoRate}]
  /\ fetch \in [day : Nat, got : Values \cup {NoRate}]
  /\ status \in [Imports -> {"staging", "committed", "failed"}]
  /\ record \in [Sales -> Record \cup {NoRecord}]
  /\ DOMAIN commit = Imports

CommitTyped(i) ==
  LET c == commit[i] IN
  /\ DOMAIN c = {"order", "original", "at", "inserted"}
  /\ c.order \in Orders(i)
  /\ DOMAIN c.original \subseteq RowsOf(i) /\ DOMAIN c.at = DOMAIN c.original
  /\ \A f \in DOMAIN c.at : c.at[f] \in Locs
  /\ DOMAIN c.inserted \subseteq RowsOf(i)
  /\ \A s \in DOMAIN c.inserted : c.inserted[s] \in Record

\* A row is converted with a rate that is there, and not too old for it.
Converted(s, gbp) ==
  IF row[s].foreign
    THEN \E d \in Days :
           /\ rates[d] # NoRate /\ d <= row[s].date /\ row[s].date - d <= Limit
           /\ gbp = InPounds(row[s].amount, rates[d])
    ELSE gbp = row[s].amount

\* The original of a refund fits it.
Fits(s, o) ==
  /\ o \in Sales /\ IsRefund(s) /\ ~IsRefund(o)
  /\ row[o].ref = row[s].ref /\ Size(s) <= Size(o)
  /\ region[ImportOf[o]] = region[ImportOf[s]]

\* The matches of a commit: originals of the import or committed before, one
\* refund each, where they were found unless a merge came in between.
MatchesFit(i) ==
  LET c == commit[i] IN
  /\ \A f \in DOMAIN c.original :
       /\ Fits(f, c.original[f])
       /\ c.original[f] \in RowsOf(i) \/ record[c.original[f]] # NoRecord
       /\ i \notin crossed =>
            c.at[f] = IF c.original[f] \in RowsOf(i) THEN row[c.original[f]].loc
                      ELSE record[c.original[f]].loc
  /\ \A f, g \in DOMAIN c.original : c.original[f] = c.original[g] => f = g

\* The rows inserted so far: no row before one that comes before it, each with
\* what the matches and the rates say.
InsertedFits(i) ==
  LET c == commit[i] IN
  /\ \A s \in DOMAIN c.inserted, t \in RowsOf(i) :
       Before(c.order, t, s) => t \in DOMAIN c.inserted
  /\ \A s \in DOMAIN c.inserted :
       LET r == c.inserted[s]
           matched == s \in DOMAIN c.original
       IN  /\ r.original = IF matched THEN c.original[s] ELSE NoSale
           /\ r.loc = IF matched THEN c.at[s] ELSE row[s].loc
           /\ r.partial <=> matched /\ Size(s) < Size(c.original[s])
           /\ Converted(s, r.gbp)

CommitFits(i) == CommitTyped(i) /\ MatchesFit(i) /\ InsertedFits(i)

\* What is committed.
RecordFits(s) ==
  LET r == record[s]
      o == r.original
  IN  /\ Converted(s, r.gbp)
      /\ o # NoSale =>
           /\ Fits(s, o) /\ record[o] # NoRecord
           /\ r.partial <=> Size(s) < Size(o)
           /\ ImportOf[s] \notin crossed => r.loc = record[o].loc
           /\ \A t \in Sales :
                record[t] # NoRecord /\ record[t].original = o
                  /\ ImportOf[t] = ImportOf[s] => t = s

\* Rows of an import are committed with it, and nothing is left of its commit.
Orderly ==
  /\ \A s \in Sales : record[s] # NoRecord => status[ImportOf[s]] = "committed"
  /\ \A i \in Imports : commit[i] # Idle => status[i] = "staging"

Inv ==
  /\ Types /\ Orderly
  /\ \A i \in Imports : commit[i] # Idle => CommitFits(i)
  /\ \A s \in Sales : record[s] # NoRecord => RecordFits(s)

-----------------------------------------------------------------------------
(* The steps of the commits.                                               *)

LEMMA InvInit == Init => Inv
<1> SUFFICES ASSUME Init PROVE Inv
  OBVIOUS
<1>1. Types
  BY FxAssumption DEF Init, FxInit, NotFetching, Types, RowsTyped
<1>2. Orderly /\ \A i \in Imports : commit[i] = Idle
  BY DEF Init, Orderly
<1>. QED  BY <1>1, <1>2 DEF Init, Inv

\* What the rows and the rates say stays: rows never change, and a rate that is
\* there is not replaced.
Stays ==
  /\ UNCHANGED <<row, region>>
  /\ rates' \in [Days -> Values \cup {NoRate}]
  /\ \A d \in Days : rates[d] # NoRate => rates'[d] = rates[d]

\* Every step leaves the rates of the days that have one as they are.
LEMMA RatesStay ==
  ASSUME Types, FxNext, UNCHANGED <<row, region>>
  PROVE  Stays /\ fetch' \in [day : Nat, got : Values \cup {NoRate}]
<1> USE FxAssumption
<1>1. CASE StoreRates
  <2>1. UNCHANGED fetch
    BY <1>1 DEF StoreRates
  <2>2. \/ rates' = rates
        \/ /\ rates[fetch.day] = NoRate
           /\ rates' = [rates EXCEPT ![fetch.day] = fetch.got]
    BY <1>1 DEF StoreRates, Upserted
  <2>. QED  BY <2>1, <2>2 DEF Types, Stays
<1>2. CASE EndFetch
  BY <1>2 DEF EndFetch, NotFetching, Types, Stays
<1>3. ASSUME NEW d \in Days, NEW v \in Values \cup {NoRate}, FetchRates(d, v)
      PROVE  Stays /\ fetch' \in [day : Nat, got : Values \cup {NoRate}]
  BY <1>3 DEF FetchRates, Days, Types, Stays
<1>. QED  BY <1>1, <1>2, <1>3 DEF FxNext

\* A commit that a step leaves alone keeps what is said of it.
LEMMA CommitKept ==
  ASSUME Inv, Stays, NEW i \in Imports, commit[i] # Idle, UNCHANGED commit[i],
         crossed \subseteq crossed',
         \A s \in Sales : record[s] # NoRecord =>
           /\ record'[s] # NoRecord
           /\ i \notin crossed' => record'[s].loc = record[s].loc
  PROVE  CommitFits(i)'
<1>1. CommitTyped(i) /\ MatchesFit(i) /\ InsertedFits(i)
  BY DEF Inv, CommitFits
<1>2. CommitTyped(i)'
  BY <1>1 DEF CommitTyped, Orders
<1>3. MatchesFit(i)'
  BY <1>1 DEF MatchesFit, Fits, Stays, IsRefund, Size
<1>4. InsertedFits(i)'
  BY <1>1 DEF InsertedFits, Converted, Stays, IsRefund, Size, Before
<1>. QED  BY <1>2, <1>3, <1>4 DEF CommitFits

\* What is committed stays as it is while only rates arrive.
LEMMA RecordKept ==
  ASSUME Inv, Stays, UNCHANGED <<record, crossed>>,
         NEW s \in Sales, record[s] # NoRecord
  PROVE  RecordFits(s)'
<1>1. RecordFits(s)
  BY DEF Inv
<1>. QED  BY <1>1 DEF RecordFits, Converted, Fits, Stays, IsRefund, Size

\* The carry-forward look-up finds a day that has a rate, up to the date.
LEMMA RateIsFound ==
  ASSUME Types, NEW s \in Sales, Convertible(s)
  PROVE  Converted(s, Gbp(s))
<1> USE FxAssumption, SalesAssumption
<1>1. CASE ~row[s].foreign
  BY <1>1 DEF Converted, Gbp
<1>2. CASE row[s].foreign
  <2> DEFINE known == {d \in Days : d <= row[s].date /\ rates[d] # NoRate}
             day == RateDay(rates, row[s].date)
  <2>1. day # NoRate /\ row[s].date - day <= Limit
    BY <1>2 DEF Convertible
  <2>2. known # {}
    BY <2>1 DEF RateDay
  <2>3. known \in SUBSET Nat /\ \A d \in known : d <= LastDay
    BY DEF Days
  <2>4. \E d \in known : \A e \in known : e <= d
    <3>. HIDE DEF known
    <3>. QED  BY <2>2, <2>3, GreatestOf
  <2>5. day = CHOOSE d \in known : \A e \in known : e <= d
    BY <2>2 DEF RateDay
  <2>6. day \in known
    BY <2>4, <2>5
  <2>7. Gbp(s) = InPounds(row[s].amount, rates[day])
    BY <1>2 DEF Gbp
  <2>. HIDE DEF day
  <2>. QED  BY <1>2, <2>1, <2>6, <2>7 DEF Converted
<1>. QED  BY <1>1, <1>2

\* Rounded quotients are numbers, and so is what is stored.
LEMMA PoundsType ==
  ASSUME NEW amount \in Int, NEW rate \in Nat \ {0}
  PROVE  InPounds(amount, rate) \in Int
<1> DEFINE size == IF amount < 0 THEN -amount ELSE amount
           n == 2 * size * Unit + rate
           nearest == n \div (2 * rate)
<1>1. 2 * rate \in Nat /\ 2 * rate > 0
  OBVIOUS
<1>2. n \in Int
  <2>1. size * Unit \in Int
    BY SalesAssumption
  <2>. QED  BY SalesAssumption, <2>1
<1>. HIDE DEF n
<1>3. nearest \in Int
  <2>. PICK d \in Nat : d = 2 * rate /\ d > 0
    BY <1>1
  <2>. QED  BY <1>2
<1>. QED  BY <1>3 DEF InPounds, n

LEMMA GbpType ==
  ASSUME Types, NEW s \in Sales, Convertible(s)
  PROVE  Gbp(s) \in Int
<1>1. row[s].amount \in Int
  BY SalesAssumption DEF Types, RowsTyped
<1>2. CASE ~row[s].foreign
  BY <1>1, <1>2 DEF Gbp
<1>3. CASE row[s].foreign
  <2>1. PICK d \in Days : rates[d] # NoRate /\ Gbp(s) = InPounds(row[s].amount, rates[d])
    BY <1>3, RateIsFound DEF Converted
  <2>2. rates[d] \in Nat \ {0}
    BY <2>1, FxAssumption DEF Types
  <2>. QED  BY <1>1, <2>1, <2>2, PoundsType
<1>. QED  BY <1>2, <1>3

LEMMA ImportsOf == \A s \in Sales : ImportOf[s] \in Imports /\ s \in RowsOf(ImportOf[s])
  BY DEF Imports, RowsOf

\* A commit fails: its rows are as if it had never begun.
LEMMA FailStep ==
  ASSUME Inv, NEW i \in Imports, FailCommit(i)
  PROVE  Inv'
<1>1. /\ commit[i] # Idle
      /\ status' = [status EXCEPT ![i] = "failed"]
      /\ commit' = [commit EXCEPT ![i] = Idle]
      /\ UNCHANGED <<fxVars, row, region, record, merges, crossed>>
  BY DEF FailCommit
<1>2. Stays
  BY <1>1 DEF Inv, Types, Stays, fxVars
<1>3. Types'
  BY <1>1 DEF Inv, Types, RowsTyped, fxVars
<1>4. \A k \in Imports : k # i => commit'[k] = commit[k] /\ status'[k] = status[k]
  BY <1>1 DEF Inv, Types
<1>5. commit'[i] = Idle
  BY <1>1 DEF Inv, Types
<1>6. status[i] = "staging"
  BY <1>1 DEF Inv, Orderly
<1>7. Orderly'
  BY <1>1, <1>4, <1>5, <1>6, ImportsOf DEF Inv, Orderly
<1>8. ASSUME NEW k \in Imports, commit'[k] # Idle PROVE CommitFits(k)'
  BY <1>1, <1>2, <1>4, <1>5, <1>8, CommitKept
<1>9. ASSUME NEW s \in Sales, record'[s] # NoRecord PROVE RecordFits(s)'
  BY <1>1, <1>2, <1>9, RecordKept
<1>. QED  BY <1>3, <1>7, <1>8, <1>9 DEF Inv

\* Rates arrive, while commits are under way.
LEMMA FxStep ==
  ASSUME Inv, FxNext, UNCHANGED salesVars
  PROVE  Inv'
<1>1. UNCHANGED <<row, region, status, commit, record, merges, crossed>>
  BY DEF salesVars
<1>2. Stays /\ fetch' \in [day : Nat, got : Values \cup {NoRate}]
  BY <1>1, RatesStay DEF Inv
<1>3. Types' /\ Orderly'
  BY <1>1, <1>2 DEF Inv, Types, RowsTyped, Stays, Orderly
<1>4. ASSUME NEW k \in Imports, commit'[k] # Idle PROVE CommitFits(k)'
  BY <1>1, <1>2, <1>4, CommitKept
<1>5. ASSUME NEW s \in Sales, record'[s] # NoRecord PROVE RecordFits(s)'
  BY <1>1, <1>2, <1>5, RecordKept
<1>. QED  BY <1>3, <1>4, <1>5 DEF Inv

\* A merge moves all committed rows of a location, originals and refunds alike.
LEMMA MergeStep ==
  ASSUME Inv, NEW c \in Locs, NEW d \in Locs, MergeLocations(c, d)
  PROVE  Inv'
<1> DEFINE moved(l) == IF l = d THEN c ELSE l
<1>1. /\ record' = [s \in Sales |->
            IF record[s] = NoRecord THEN NoRecord
            ELSE [record[s] EXCEPT !.loc = moved(@), !.processedAt = moved(@)]]
      /\ crossed' = crossed \cup {i \in Imports : commit[i] # Idle}
      /\ UNCHANGED <<fxVars, row, region, status, commit>>
  BY DEF MergeLocations
<1>2. Stays
  BY <1>1 DEF Inv, Types, Stays, fxVars
<1>3. ASSUME NEW s \in Sales, record[s] # NoRecord
      PROVE  /\ record'[s] \in Record
             /\ record'[s] # NoRecord
             /\ record'[s].loc = moved(record[s].loc)
             /\ record'[s].original = record[s].original
             /\ record'[s].partial = record[s].partial
             /\ record'[s].gbp = record[s].gbp
  <2>1. record[s] \in Record
    BY <1>3 DEF Inv, Types
  <2>2. record'[s] = [record[s] EXCEPT !.loc = moved(@), !.processedAt = moved(@)]
    BY <1>1, <1>3
  <2>. QED  BY <2>1, <2>2, NothingAssumption DEF Record
<1>4. \A s \in Sales : record[s] = NoRecord => record'[s] = NoRecord
  BY <1>1
<1>5. Types'
  <2>1. record' \in [Sales -> Record \cup {NoRecord}]
    <3>1. \A s \in Sales : record'[s] \in Record \cup {NoRecord}
      BY <1>3, <1>4
    <3>2. record' = [s \in Sales |-> record'[s]]
      BY <1>1
    <3>. QED  BY <3>1, <3>2
  <2>. QED  BY <1>1, <2>1 DEF Inv, Types, RowsTyped, fxVars
<1>6. Orderly'
  BY <1>1, <1>4 DEF Inv, Orderly
<1>. HIDE DEF moved
<1>7. ASSUME NEW k \in Imports, commit'[k] # Idle PROVE CommitFits(k)'
  BY <1>1, <1>2, <1>3, <1>7, CommitKept
<1>8. ASSUME NEW s \in Sales, record'[s] # NoRecord PROVE RecordFits(s)'
  <2>1. record[s] # NoRecord /\ RecordFits(s)
    BY <1>4, <1>8 DEF Inv
  <2>2. Converted(s, record[s].gbp)'
    BY <1>2, <1>3, <2>1 DEF RecordFits, Converted, Stays
  <2>3. CASE record'[s].original = NoSale
    BY <2>2, <2>3 DEF RecordFits
  <2>4. CASE record'[s].original # NoSale
    <3>1. record[s].original # NoSale /\ record'[s].original = record[s].original
      BY <1>3, <2>1, <2>4
    <3>. PICK o : o = record[s].original
      OBVIOUS
    <3>2. /\ Fits(s, o) /\ record[o] # NoRecord
          /\ record[s].partial <=> Size(s) < Size(o)
          /\ ImportOf[s] \notin crossed => record[s].loc = record[o].loc
      BY <2>1, <3>1 DEF RecordFits
    <3>3. o \in Sales /\ Fits(s, o)'
      BY <1>2, <3>2 DEF Fits, Stays, IsRefund, Size
    <3>4. record'[o] # NoRecord /\ (ImportOf[s] \notin crossed' => record'[s].loc = record'[o].loc)
      <4>1. record'[o] # NoRecord /\ record'[o].loc = moved(record[o].loc)
        BY <1>3, <3>2, <3>3
      <4>2. crossed \subseteq crossed'
        BY <1>1
      <4>. QED  BY <1>3, <2>1, <3>2, <4>1, <4>2
    <3>5. record'[s].partial <=> (Size(s) < Size(o))'
      <4>1. (Size(s) < Size(o))' <=> Size(s) < Size(o)
        BY <1>2 DEF Stays, Size, IsRefund
      <4>2. record'[s].partial = record[s].partial
        BY <1>3, <2>1
      <4>. QED  BY <3>2, <4>1, <4>2
    <3>6. ASSUME NEW t \in Sales, record'[t] # NoRecord, record'[t].original = o,
                 ImportOf[t] = ImportOf[s]
          PROVE  t = s
      BY <1>3, <1>4, <2>1, <3>1, <3>6 DEF RecordFits
    <3>. QED  BY <2>2, <3>1, <3>3, <3>4, <3>5, <3>6 DEF RecordFits
  <2>. QED  BY <2>3, <2>4
<1>. QED  BY <1>5, <1>6, <1>7, <1>8 DEF Inv

\* The order of the INSERTs is transitive: originals, then refunds.
LEMMA BeforeTransitive ==
  ASSUME RowsTyped, NEW i \in Imports, NEW order \in Orders(i),
         NEW s \in RowsOf(i), NEW t \in RowsOf(i), NEW u \in RowsOf(i),
         Before(order, u, t), Before(order, t, s)
  PROVE  Before(order, u, s)
<1>1. order[s] \in Nat /\ order[t] \in Nat /\ order[u] \in Nat
  <2>1. order \in [RowsOf(i) -> 1..Cardinality(RowsOf(i))]
    BY DEF Orders, Bijection, Injection
  <2>. QED  BY <2>1
<1>. QED  BY <1>1 DEF Before, IsRefund

\* A chunk takes no row without the rows that come before it.
LEMMA ChunkIsFirst ==
  ASSUME RowsTyped, NEW i \in Imports, CommitTyped(i),
         NEW s \in NextChunk(i), NEW t \in RowsLeft(i),
         Before(commit[i].order, t, s)
  PROVE  t \in NextChunk(i)
<1> USE SalesAssumption
<1> DEFINE F(x) == {u \in RowsLeft(i) : Before(commit[i].order, u, x)}
<1>1. RowsLeft(i) \subseteq RowsOf(i) /\ RowsOf(i) \subseteq Sales
  BY DEF RowsLeft, RowsOf
<1>2. s \in RowsLeft(i) /\ Cardinality(F(s)) < Chunk
  BY DEF NextChunk
<1>3. F(t) \subseteq F(s)
  BY <1>1, <1>2, BeforeTransitive DEF CommitTyped
<1>4. F(s) \in SUBSET Sales
  BY <1>1
<1>. HIDE DEF F
<1>5. IsFiniteSet(F(s)) /\ IsFiniteSet(F(t)) /\ Cardinality(F(t)) <= Cardinality(F(s))
  BY <1>3, <1>4, FS_Subset
<1>6. Cardinality(F(s)) \in Nat /\ Cardinality(F(t)) \in Nat
  BY <1>5, FS_CardinalityType
<1>7. Cardinality(F(t)) < Chunk
  BY <1>2, <1>5, <1>6
<1>. QED  BY <1>7 DEF NextChunk, F

\* What is inserted for a row is a record, and says what the match and the
\* rates say.
LEMMA NewRecordIs ==
  ASSUME Types, NEW i \in Imports, CommitTyped(i), MatchesFit(i),
         NEW s \in RowsOf(i), Convertible(s)
  PROVE  LET c == commit[i]
             r == NewRecord(i, s)
             matched == s \in DOMAIN c.original
         IN  /\ r \in Record
             /\ r.original = IF matched THEN c.original[s] ELSE NoSale
             /\ r.loc = IF matched THEN c.at[s] ELSE row[s].loc
             /\ r.partial <=> matched /\ Size(s) < Size(c.original[s])
             /\ Converted(s, r.gbp)
<1> DEFINE c == commit[i]
           matched == s \in DOMAIN c.original
           loc == IF matched THEN c.at[s] ELSE row[s].loc
           processedAt == IF matched THEN row[s].loc ELSE NoLoc
           original == IF matched THEN c.original[s] ELSE NoSale
           partial == matched /\ Size(s) < Size(c.original[s])
           gbp == Gbp(s)
<1>1. s \in Sales
  BY DEF RowsOf
<1>2. row[s].loc \in Locs
  BY <1>1, SalesAssumption DEF Types, RowsTyped
<1>3. loc \in Locs /\ processedAt \in Locs \cup {NoLoc}
  BY <1>2 DEF CommitTyped
<1>4. original \in Sales \cup {NoSale}
  BY DEF MatchesFit, Fits
<1>5. partial \in BOOLEAN
  OBVIOUS
<1>6. gbp \in Int /\ Converted(s, gbp)
  BY <1>1, RateIsFound, GbpType
<1>7. NewRecord(i, s) = [loc |-> loc, processedAt |-> processedAt,
                         original |-> original, partial |-> partial, gbp |-> gbp]
  BY DEF NewRecord
<1>. HIDE DEF c, matched, loc, processedAt, original, partial, gbp
<1>8. /\ NewRecord(i, s) \in Record
      /\ NewRecord(i, s).loc = loc /\ NewRecord(i, s).original = original
      /\ NewRecord(i, s).gbp = gbp
  BY <1>3, <1>4, <1>5, <1>6, <1>7 DEF Record
<1>9. NewRecord(i, s).partial = partial
  BY <1>7
<1>. QED  BY <1>6, <1>8, <1>9 DEF c, matched, loc, original, partial

\* One chunk more: originals are in before the refunds that name them.
LEMMA InsertStep ==
  ASSUME Inv, NEW i \in Imports, InsertChunk(i)
  PROVE  Inv'
<1> DEFINE c == commit[i]
           chunk == NextChunk(i)
           ins == [s \in DOMAIN c.inserted \cup chunk |->
                     IF s \in DOMAIN c.inserted THEN c.inserted[s] ELSE NewRecord(i, s)]
<1>1. /\ c # Idle
      /\ \A s \in chunk : Convertible(s)
      /\ commit' = [commit EXCEPT ![i].inserted = ins]
      /\ UNCHANGED <<fxVars, row, region, status, record, merges, crossed>>
  BY DEF InsertChunk
<1>2. CommitTyped(i) /\ MatchesFit(i) /\ InsertedFits(i) /\ Types
  BY <1>1 DEF Inv, CommitFits
<1>3. chunk \subseteq RowsOf(i)
  BY DEF NextChunk, RowsLeft
<1>4. /\ DOMAIN ins = DOMAIN c.inserted \cup chunk
      /\ \A s \in DOMAIN c.inserted : ins[s] = c.inserted[s]
      /\ \A s \in chunk : s \notin DOMAIN c.inserted /\ ins[s] = NewRecord(i, s)
  BY DEF NextChunk, RowsLeft
<1>. HIDE DEF ins, chunk
<1>5. commit'[i] = [c EXCEPT !.inserted = ins] /\ DOMAIN commit' = Imports
  BY <1>1, <1>2 DEF Types
<1>6. /\ DOMAIN commit'[i] = {"order", "original", "at", "inserted"}
      /\ commit'[i].order = c.order /\ commit'[i].original = c.original
      /\ commit'[i].at = c.at /\ commit'[i].inserted = ins
  BY <1>2, <1>5 DEF CommitTyped
<1>7. \A k \in Imports : k # i => commit'[k] = commit[k]
  BY <1>1, <1>2 DEF Types
<1>8. Stays
  BY <1>1, <1>2 DEF Types, Stays, fxVars
<1>9. Types' /\ Orderly'
  <2>1. Types'
    BY <1>1, <1>2, <1>5 DEF Types, RowsTyped, fxVars
  <2>2. Orderly'
    BY <1>1, <1>7 DEF Inv, Orderly
  <2>. QED  BY <2>1, <2>2
<1>10. \A s \in chunk :
         /\ ins[s] \in Record
         /\ ins[s].original = IF s \in DOMAIN c.original THEN c.original[s] ELSE NoSale
         /\ ins[s].loc = IF s \in DOMAIN c.original THEN c.at[s] ELSE row[s].loc
         /\ ins[s].partial <=> s \in DOMAIN c.original /\ Size(s) < Size(c.original[s])
         /\ Converted(s, ins[s].gbp)
  BY <1>1, <1>2, <1>3, <1>4, NewRecordIs
<1>11. CommitTyped(i)'
  BY <1>2, <1>3, <1>4, <1>6, <1>10 DEF CommitTyped, Orders
<1>12. MatchesFit(i)'
  BY <1>1, <1>2, <1>6 DEF MatchesFit, Fits, IsRefund, Size
<1>13. InsertedFits(i)'
  <2>1. ASSUME NEW s \in DOMAIN ins, NEW t \in RowsOf(i), Before(c.order, t, s)
        PROVE  t \in DOMAIN ins
    <3>1. CASE s \in DOMAIN c.inserted
      BY <1>2, <1>4, <2>1, <3>1 DEF InsertedFits
    <3>2. CASE s \in chunk
      <4>1. t \in DOMAIN c.inserted \/ t \in RowsLeft(i)
        BY DEF RowsLeft
      <4>. QED  BY <1>2, <1>4, <2>1, <3>2, <4>1, ChunkIsFirst DEF Types, chunk
    <3>. QED  BY <1>4, <3>1, <3>2
  <2>2. ASSUME NEW s \in DOMAIN ins
        PROVE  /\ ins[s].original = IF s \in DOMAIN c.original THEN c.original[s] ELSE NoSale
               /\ ins[s].loc = IF s \in DOMAIN c.original THEN c.at[s] ELSE row[s].loc
               /\ ins[s].partial <=> s \in DOMAIN c.original /\ Size(s) < Size(c.original[s])
               /\ Converted(s, ins[s].gbp)
    <3>1. CASE s \in chunk
      BY <1>10, <3>1
    <3>2. CASE s \in DOMAIN c.inserted
      BY <1>2, <1>4, <3>2 DEF InsertedFits
    <3>. QED  BY <1>4, <3>1, <3>2
  <2>. QED  BY <1>1, <1>6, <2>1, <2>2
            DEF InsertedFits, Before, IsRefund, Size, Converted, fxVars
<1>14. ASSUME NEW k \in Imports, commit'[k] # Idle PROVE CommitFits(k)'
  <2>1. CASE k = i
    BY <1>11, <1>12, <1>13, <2>1 DEF CommitFits
  <2>2. CASE k # i
    BY <1>1, <1>7, <1>8, <1>14, <2>2, CommitKept
  <2>. QED  BY <2>1, <2>2
<1>15. ASSUME NEW s \in Sales, record'[s] # NoRecord PROVE RecordFits(s)'
  BY <1>1, <1>8, <1>15, RecordKept
<1>. QED  BY <1>9, <1>14, <1>15 DEF Inv

\* A commit ends: all its rows are there at once, next to what was.
LEMMA EndStep ==
  ASSUME Inv, NEW i \in Imports, EndCommit(i)
  PROVE  Inv'
<1> DEFINE c == commit[i]
<1>1. /\ c # Idle /\ RowsLeft(i) = {}
      /\ record' = [s \in Sales |-> IF s \in RowsOf(i) THEN c.inserted[s] ELSE record[s]]
      /\ status' = [status EXCEPT ![i] = "committed"]
      /\ commit' = [commit EXCEPT ![i] = Idle]
      /\ UNCHANGED <<fxVars, row, region, merges, crossed>>
  BY DEF EndCommit
<1>2. CommitTyped(i) /\ MatchesFit(i) /\ InsertedFits(i) /\ Types
  BY <1>1 DEF Inv, CommitFits
<1>3. DOMAIN c.inserted = RowsOf(i) /\ RowsOf(i) \subseteq Sales
  BY <1>1, <1>2 DEF RowsLeft, CommitTyped, RowsOf
<1>4. \A s \in RowsOf(i) :
        /\ record'[s] = c.inserted[s] /\ record'[s] \in Record
        /\ record'[s] # NoRecord /\ record[s] = NoRecord /\ ImportOf[s] = i
  <2>1. \A s \in RowsOf(i) : record[s] = NoRecord /\ ImportOf[s] = i
    BY <1>1, <1>3 DEF Inv, Orderly, RowsOf
  <2>. QED  BY <1>1, <1>2, <1>3, <2>1, NothingAssumption DEF CommitTyped
<1>5. \A s \in Sales : s \notin RowsOf(i) => record'[s] = record[s] /\ ImportOf[s] # i
  BY <1>1 DEF RowsOf
<1>6. Stays
  BY <1>1, <1>2 DEF Types, Stays, fxVars
<1>7. /\ \A k \in Imports : k # i => commit'[k] = commit[k] /\ status'[k] = status[k]
      /\ commit'[i] = Idle /\ status'[i] = "committed"
  BY <1>1, <1>2 DEF Types
<1>8. Types'
  <2>1. record' \in [Sales -> Record \cup {NoRecord}]
    <3>1. \A s \in Sales : record'[s] \in Record \cup {NoRecord}
      BY <1>2, <1>4, <1>5 DEF Types
    <3>2. record' = [s \in Sales |-> record'[s]]
      BY <1>1
    <3>. QED  BY <3>1, <3>2
  <2>. QED  BY <1>1, <1>2, <2>1 DEF Types, RowsTyped, fxVars
<1>9. Orderly'
  BY <1>4, <1>5, <1>7, ImportsOf DEF Inv, Orderly
<1>10. ASSUME NEW k \in Imports, commit'[k] # Idle PROVE CommitFits(k)'
  <2>1. \A s \in Sales : record[s] # NoRecord => record'[s] = record[s]
    BY <1>4, <1>5
  <2>. QED  BY <1>1, <1>6, <1>7, <1>10, <2>1, CommitKept
<1>11. ASSUME NEW s \in RowsOf(i) PROVE RecordFits(s)'
  <2>. PICK r : r = c.inserted[s]
    OBVIOUS
  <2>1. /\ r.original = IF s \in DOMAIN c.original THEN c.original[s] ELSE NoSale
        /\ r.loc = IF s \in DOMAIN c.original THEN c.at[s] ELSE row[s].loc
        /\ r.partial <=> s \in DOMAIN c.original /\ Size(s) < Size(c.original[s])
        /\ Converted(s, r.gbp)
    BY <1>2, <1>3 DEF InsertedFits
  <2>2. record'[s] = r /\ Converted(s, r.gbp)'
    BY <1>4, <1>6, <2>1 DEF Converted, Stays
  <2>3. CASE r.original = NoSale
    BY <2>2, <2>3 DEF RecordFits
  <2>4. CASE r.original # NoSale
    <3>. PICK o : o = r.original
      OBVIOUS
    <3>1. s \in DOMAIN c.original /\ o = c.original[s] /\ r.loc = c.at[s]
      BY <2>1, <2>4
    <3>2. Fits(s, o) /\ (r.partial <=> Size(s) < Size(o))
      BY <1>2, <2>1, <3>1 DEF MatchesFit
    <3>3. Fits(s, o)' /\ (r.partial <=> (Size(s) < Size(o))')
      BY <1>6, <3>2 DEF Fits, Stays, IsRefund, Size
    <3>4. /\ record'[o] # NoRecord
          /\ i \notin crossed => r.loc = record'[o].loc
      <4>1. CASE o \in RowsOf(i)
        <5>1. o \notin DOMAIN c.original
          BY <1>2, <3>2 DEF MatchesFit, Fits
        <5>2. record'[o].loc = row[o].loc
          BY <1>2, <1>3, <1>4, <4>1, <5>1 DEF InsertedFits
        <5>. QED  BY <1>2, <1>4, <3>1, <4>1, <5>2 DEF MatchesFit
      <4>2. CASE o \notin RowsOf(i)
        <5>1. record[o] # NoRecord /\ o \in Sales
          BY <1>2, <3>1, <3>2, <4>2 DEF MatchesFit, Fits
        <5>. QED  BY <1>2, <1>5, <3>1, <4>2, <5>1 DEF MatchesFit
      <4>. QED  BY <4>1, <4>2
    <3>5. ASSUME NEW t \in Sales, record'[t].original = o, ImportOf[t] = ImportOf[s]
          PROVE  t = s
      <4>1. t \in RowsOf(i)
        BY <1>4, <3>5 DEF RowsOf
      <4>2. c.inserted[t].original = o
        BY <1>4, <3>5, <4>1
      <4>3. t \in DOMAIN c.original /\ c.original[t] = o
        BY <1>2, <1>3, <2>4, <4>1, <4>2 DEF InsertedFits
      <4>. QED  BY <1>2, <3>1, <4>3 DEF MatchesFit
    <3>6. ImportOf[s] = i /\ UNCHANGED crossed
      BY <1>1, <1>4
    <3>. QED  BY <2>2, <2>4, <3>3, <3>4, <3>5, <3>6 DEF RecordFits
  <2>. QED  BY <2>3, <2>4
<1>12. ASSUME NEW s \in Sales, s \notin RowsOf(i), record'[s] # NoRecord
       PROVE  RecordFits(s)'
  <2>1. record'[s] = record[s] /\ RecordFits(s) /\ ImportOf[s] # i
    BY <1>5, <1>12 DEF Inv
  <2>. PICK r : r = record[s]
    OBVIOUS
  <2>2. Converted(s, r.gbp)'
    BY <1>6, <2>1 DEF RecordFits, Converted, Stays
  <2>3. CASE r.original = NoSale
    BY <2>1, <2>2, <2>3 DEF RecordFits
  <2>4. CASE r.original # NoSale
    <3>. PICK o : o = r.original
      OBVIOUS
    <3>1. /\ Fits(s, o) /\ record[o] # NoRecord
          /\ r.partial <=> Size(s) < Size(o)
          /\ ImportOf[s] \notin crossed => r.loc = record[o].loc
      BY <2>1, <2>4 DEF RecordFits
    <3>2. Fits(s, o)' /\ (r.partial <=> (Size(s) < Size(o))')
      BY <1>6, <3>1 DEF Fits, Stays, IsRefund, Size
    <3>3. record'[o] = record[o]
      BY <1>4, <1>5, <3>1 DEF Fits
    <3>4. ASSUME NEW t \in Sales, record'[t] # NoRecord, record'[t].original = o,
                 ImportOf[t] = ImportOf[s]
          PROVE  t = s
      <4>1. record'[t] = record[t]
        BY <1>4, <1>5, <2>1, <3>4
      <4>. QED  BY <2>1, <2>4, <3>4, <4>1 DEF RecordFits
    <3>. QED  BY <1>1, <2>1, <2>2, <2>4, <3>1, <3>2, <3>3, <3>4 DEF RecordFits
  <2>. QED  BY <2>3, <2>4
<1>. QED  BY <1>8, <1>9, <1>10, <1>11, <1>12 DEF Inv

Refunds(i) == {s \in RowsOf(i) : IsRefund(s)}

\* What the match in the batch gives.
LEMMA InBatchFacts ==
  ASSUME Types, NEW i \in Imports, NEW order \in Orders(i),
         NEW m, m = InBatch(i, order)
  PROVE  /\ DOMAIN m \subseteq Refunds(i)
         /\ \A f \in DOMAIN m : /\ m[f] \in RowsOf(i) /\ ~IsRefund(m[f])
                                /\ FitsInBatch(f, m[f])
         /\ \A f, g \in DOMAIN m : m[f] = m[g] => f = g
         /\ \A f \in Refunds(i) : \A o \in RowsOf(i) \ Refunds(i) :
              FitsInBatch(f, o) /\ (\A g \in DOMAIN m : m[g] # o) =>
                f \in DOMAIN m /\ Later(m[f], o)
<1> DEFINE N == Cardinality(RowsOf(i))
           fitting == [f \in RowsOf(i) |->
                         {o \in RowsOf(i) : ~IsRefund(o) /\ FitsInBatch(f, o)}]
<1>1. IsFiniteSet(RowsOf(i)) /\ RowsOf(i) \subseteq Sales
  BY SalesAssumption, FS_Subset DEF RowsOf
<1>2. N \in Nat
  BY <1>1, FS_CardinalityType
<1>3. \A f \in Refunds(i) : fitting[f] = {o \in RowsOf(i) : ~IsRefund(o) /\ FitsInBatch(f, o)}
  BY DEF Refunds
<1>4. m = Match(Refunds(i), fitting, order)
  BY DEF InBatch, Refunds
<1>. HIDE DEF fitting, N
<1>5. HavePlaces(Refunds(i), order, N)
  BY <1>2 DEF Orders, Bijection, Injection, IsInjective, Refunds, N, HavePlaces
<1>6. \A f \in Refunds(i) : fitting[f] \subseteq Sales
  BY <1>1, <1>3
<1>7. Matching(m, Refunds(i), fitting)
  <2>. PICK all, fit, n : all = Refunds(i) /\ fit = fitting /\ n = N
    OBVIOUS
  <2>1. RowsTyped /\ m = Match(all, fit, order)
    BY <1>4 DEF Types
  <2>2. HavePlaces(all, order, n) /\ \A f \in all : fit[f] \subseteq Sales
    BY <1>5, <1>6
  <2>3. Matching(m, all, fit)
    BY <2>1, <2>2, MatchFacts
  <2>. QED  BY <2>3
<1>. QED  BY <1>3, <1>7 DEF Refunds, Matching

\* What the match with committed rows gives the refunds the batch left over.
LEMMA AcrossFacts ==
  ASSUME Types, NEW i \in Imports, NEW order \in Orders(i), NEW inBatch,
         NEW m, m = Across(i, inBatch, order)
  PROVE  /\ DOMAIN m \subseteq Refunds(i) \ DOMAIN inBatch
         /\ \A f \in DOMAIN m : m[f] \in Candidates(i) /\ FitsAcross(f, m[f])
         /\ \A f, g \in DOMAIN m : m[f] = m[g] => f = g
         /\ \A f \in Refunds(i) \ DOMAIN inBatch : \A o \in Candidates(i) :
              FitsAcross(f, o) /\ (\A g \in DOMAIN m : m[g] # o) =>
                f \in DOMAIN m /\ Later(m[f], o)
<1> DEFINE N == Cardinality(RowsOf(i))
           left == Refunds(i) \ DOMAIN inBatch
           fitting == [f \in RowsOf(i) |-> {o \in Candidates(i) : FitsAcross(f, o)}]
<1>1. IsFiniteSet(RowsOf(i)) /\ Candidates(i) \subseteq Sales
  BY SalesAssumption, FS_Subset DEF RowsOf, Candidates, Committed
<1>2. N \in Nat
  BY <1>1, FS_CardinalityType
<1>3. \A f \in left : fitting[f] = {o \in Candidates(i) : FitsAcross(f, o)}
  BY DEF Refunds
<1>4. m = Match(left, fitting, order)
  <2>1. left = {s \in RowsOf(i) : IsRefund(s) /\ s \notin DOMAIN inBatch}
    BY DEF Refunds
  <2>. QED  BY <2>1 DEF Across
<1>. HIDE DEF fitting, N
<1>5. HavePlaces(left, order, N)
  BY <1>2 DEF Orders, Bijection, Injection, IsInjective, Refunds, N, HavePlaces
<1>6. \A f \in left : fitting[f] \subseteq Sales
  BY <1>1, <1>3
<1>. HIDE DEF left
<1>7. Matching(m, left, fitting)
  <2>. PICK all, fit, n : all = left /\ fit = fitting /\ n = N
    OBVIOUS
  <2>1. RowsTyped /\ m = Match(all, fit, order)
    BY <1>4 DEF Types
  <2>2. HavePlaces(all, order, n) /\ \A f \in all : fit[f] \subseteq Sales
    BY <1>5, <1>6
  <2>3. Matching(m, all, fit)
    BY <2>1, <2>2, MatchFacts
  <2>. QED  BY <2>3
<1>. QED  BY <1>3, <1>7 DEF left, Matching

\* How a commit begins.
Begun(i, c, order, inBatch, across) ==
  /\ DOMAIN c = {"order", "original", "at", "inserted"}
  /\ order \in Orders(i) /\ c.order = order
  /\ inBatch = InBatch(i, order) /\ across = Across(i, inBatch, order)
  /\ DOMAIN c.original = DOMAIN inBatch \cup DOMAIN across
  /\ DOMAIN c.at = DOMAIN inBatch \cup DOMAIN across
  /\ \A f \in DOMAIN inBatch :
       c.original[f] = inBatch[f] /\ c.at[f] = row[inBatch[f]].loc
  /\ \A f \in DOMAIN across : f \notin DOMAIN inBatch =>
       c.original[f] = across[f] /\ c.at[f] = record[across[f]].loc
  /\ DOMAIN c.inserted = {}

\* What the begin of a commit leaves.
LEMMA BeginsSo ==
  ASSUME Types, NEW i \in Imports, BeginCommit(i)
  PROVE  \E order, inBatch, across, c :
           Begun(i, c, order, inBatch, across) /\ commit' = [commit EXCEPT ![i] = c]
<1>1. PICK order \in Orders(i) :
        LET inBatch == InBatch(i, order)
            across == Across(i, inBatch, order)
        IN  commit' = [commit EXCEPT ![i] =
              [order |-> order,
               original |-> [f \in DOMAIN inBatch \cup DOMAIN across |->
                               IF f \in DOMAIN inBatch THEN inBatch[f] ELSE across[f]],
               at |-> [f \in DOMAIN inBatch \cup DOMAIN across |->
                         IF f \in DOMAIN inBatch THEN row[inBatch[f]].loc
                         ELSE record[across[f]].loc],
               inserted |-> [s \in {} |-> NoRecord]]]
  BY DEF BeginCommit, Orders
<1>2. PICK inBatch, across :
        inBatch = InBatch(i, order) /\ across = Across(i, inBatch, order)
  OBVIOUS
<1> DEFINE original == [f \in DOMAIN inBatch \cup DOMAIN across |->
                          IF f \in DOMAIN inBatch THEN inBatch[f] ELSE across[f]]
           at == [f \in DOMAIN inBatch \cup DOMAIN across |->
                    IF f \in DOMAIN inBatch THEN row[inBatch[f]].loc
                    ELSE record[across[f]].loc]
           inserted == [s \in {} |-> NoRecord]
           c == [order |-> order, original |-> original, at |-> at, inserted |-> inserted]
<1>3. commit' = [commit EXCEPT ![i] = c]
  BY <1>1, <1>2
<1>4. /\ DOMAIN original = DOMAIN inBatch \cup DOMAIN across
      /\ DOMAIN at = DOMAIN inBatch \cup DOMAIN across
      /\ \A f \in DOMAIN inBatch :
           original[f] = inBatch[f] /\ at[f] = row[inBatch[f]].loc
      /\ \A f \in DOMAIN across : f \notin DOMAIN inBatch =>
           original[f] = across[f] /\ at[f] = record[across[f]].loc
      /\ DOMAIN inserted = {}
  OBVIOUS
<1>. HIDE DEF original, at, inserted
<1>5. Begun(i, c, order, inBatch, across)
  BY <1>2, <1>4 DEF Begun
<1>. HIDE DEF c
<1>. QED  BY <1>3, <1>5

\* A commit begins with matches that fit: in the batch by the same amount, with
\* committed rows by one that is large enough, in the same region.
LEMMA BeginStep ==
  ASSUME Inv, NEW i \in Imports, BeginCommit(i)
  PROVE  Inv'
<1>1. /\ status[i] = "staging" /\ commit[i] = Idle
      /\ UNCHANGED <<fxVars, row, region, status, record, merges, crossed>>
  BY DEF BeginCommit
<1>2. Types /\ Orderly
  BY DEF Inv
<1>3. PICK order, inBatch, across, c :
        Begun(i, c, order, inBatch, across) /\ commit' = [commit EXCEPT ![i] = c]
  BY <1>2, BeginsSo
<1>4. /\ DOMAIN c = {"order", "original", "at", "inserted"}
      /\ order \in Orders(i) /\ c.order = order
      /\ DOMAIN c.original = DOMAIN inBatch \cup DOMAIN across
      /\ DOMAIN c.at = DOMAIN inBatch \cup DOMAIN across
      /\ \A f \in DOMAIN inBatch :
           c.original[f] = inBatch[f] /\ c.at[f] = row[inBatch[f]].loc
      /\ \A f \in DOMAIN across : f \notin DOMAIN inBatch =>
           c.original[f] = across[f] /\ c.at[f] = record[across[f]].loc
      /\ DOMAIN c.inserted = {}
  BY <1>3 DEF Begun
<1>5. /\ DOMAIN inBatch \subseteq Refunds(i)
      /\ \A f \in DOMAIN inBatch :
           inBatch[f] \in RowsOf(i) /\ ~IsRefund(inBatch[f]) /\ FitsInBatch(f, inBatch[f])
      /\ \A f, g \in DOMAIN inBatch : inBatch[f] = inBatch[g] => f = g
  BY <1>2, <1>3, <1>4, InBatchFacts DEF Begun
<1>6. /\ DOMAIN across \subseteq Refunds(i) \ DOMAIN inBatch
      /\ \A f \in DOMAIN across :
           across[f] \in Candidates(i) /\ FitsAcross(f, across[f])
      /\ \A f, g \in DOMAIN across : across[f] = across[g] => f = g
  BY <1>2, <1>3, <1>4, AcrossFacts DEF Begun
<1>7. \A s \in Sales : row[s].loc \in Locs /\ row[s].amount \in Int
  BY <1>2, SalesAssumption DEF Types, RowsTyped
<1>8. ASSUME NEW f \in DOMAIN inBatch
      PROVE  /\ Fits(f, c.original[f]) /\ c.original[f] \in RowsOf(i)
             /\ c.at[f] \in Locs /\ c.at[f] = row[c.original[f]].loc
  <2>. PICK o : o = inBatch[f]
    OBVIOUS
  <2>1. o \in RowsOf(i) /\ ~IsRefund(o) /\ FitsInBatch(f, o) /\ f \in Refunds(i)
    BY <1>5
  <2>2. f \in Sales /\ o \in Sales /\ ImportOf[f] = i /\ ImportOf[o] = i /\ IsRefund(f)
    BY <2>1 DEF Refunds, RowsOf
  <2>3. Size(f) <= Size(o) /\ row[o].ref = row[f].ref
    BY <1>7, <2>1, <2>2 DEF FitsInBatch, Size
  <2>4. Fits(f, o)
    BY <2>1, <2>2, <2>3 DEF Fits
  <2>. QED  BY <1>4, <1>7, <2>1, <2>2, <2>4
<1>9. ASSUME NEW f \in DOMAIN across
      PROVE  /\ Fits(f, c.original[f]) /\ c.original[f] \notin RowsOf(i)
             /\ record[c.original[f]] # NoRecord
             /\ c.at[f] \in Locs /\ c.at[f] = record[c.original[f]].loc
  <2>. PICK o : o = across[f]
    OBVIOUS
  <2>1. o \in Candidates(i) /\ FitsAcross(f, o) /\ f \in Refunds(i) /\ f \notin DOMAIN inBatch
    BY <1>6
  <2>2. /\ o \in Sales /\ record[o] # NoRecord /\ ~IsRefund(o)
        /\ region[ImportOf[o]] = region[i]
    BY <2>1 DEF Candidates, Committed
  <2>3. ImportOf[f] = i /\ IsRefund(f)
    BY <2>1 DEF Refunds, RowsOf
  <2>4. Fits(f, o)
    BY <2>1, <2>2, <2>3 DEF Fits, FitsAcross
  <2>5. o \notin RowsOf(i)
    BY <1>1, <1>2, <2>2 DEF Orderly, RowsOf
  <2>6. record[o].loc \in Locs
    BY <1>2, <2>2 DEF Types, Record
  <2>. QED  BY <1>4, <2>1, <2>2, <2>4, <2>5, <2>6
<1>10. ASSUME NEW f \in DOMAIN c.original, NEW g \in DOMAIN c.original,
              c.original[f] = c.original[g]
       PROVE  f = g
  <2>1. CASE f \in DOMAIN inBatch /\ g \in DOMAIN inBatch
    BY <1>4, <1>5, <1>10, <2>1
  <2>2. CASE f \in DOMAIN across /\ g \in DOMAIN across
    BY <1>4, <1>6, <1>10, <2>2
  <2>3. CASE f \in DOMAIN inBatch /\ g \in DOMAIN across
    BY <1>8, <1>9, <1>10, <2>3
  <2>4. CASE f \in DOMAIN across /\ g \in DOMAIN inBatch
    BY <1>8, <1>9, <1>10, <2>4
  <2>. QED  BY <1>4, <2>1, <2>2, <2>3, <2>4
<1>11. Stays
  BY <1>1, <1>2 DEF Types, Stays, fxVars
<1>12. /\ commit'[i] = c /\ DOMAIN commit' = Imports
       /\ \A k \in Imports : k # i => commit'[k] = commit[k]
  BY <1>2, <1>3 DEF Types
<1>13. Types' /\ Orderly'
  BY <1>1, <1>2, <1>12 DEF Types, RowsTyped, Orderly, fxVars
<1>14. CommitTyped(i)'
  <2>1. DOMAIN c.original \subseteq RowsOf(i)
    BY <1>4, <1>5, <1>6 DEF Refunds
  <2>2. \A f \in DOMAIN c.at : c.at[f] \in Locs
    BY <1>4, <1>8, <1>9
  <2>. QED  BY <1>4, <1>12, <2>1, <2>2 DEF CommitTyped, Orders
<1>15. MatchesFit(i)'
  <2>1. ASSUME NEW f \in DOMAIN c.original
        PROVE  /\ Fits(f, c.original[f])'
               /\ c.original[f] \in RowsOf(i) \/ record[c.original[f]] # NoRecord
               /\ c.at[f] = IF c.original[f] \in RowsOf(i) THEN row[c.original[f]].loc
                            ELSE record[c.original[f]].loc
    <3>. PICK o : o = c.original[f]
      OBVIOUS
    <3>1. f \in DOMAIN inBatch \/ f \in DOMAIN across
      BY <1>4
    <3>2. Fits(f, o)
      BY <1>8, <1>9, <3>1
    <3>3. Fits(f, o)'
      BY <1>11, <3>2 DEF Fits, Stays, IsRefund, Size
    <3>. QED  BY <1>8, <1>9, <3>1, <3>3
  <2>. QED  BY <1>1, <1>10, <1>12, <2>1 DEF MatchesFit
<1>16. InsertedFits(i)'
  BY <1>4, <1>12 DEF InsertedFits
<1>17. ASSUME NEW k \in Imports, commit'[k] # Idle PROVE CommitFits(k)'
  <2>1. CASE k = i
    BY <1>14, <1>15, <1>16, <2>1 DEF CommitFits
  <2>2. CASE k # i
    BY <1>1, <1>11, <1>12, <1>17, <2>2, CommitKept
  <2>. QED  BY <2>1, <2>2
<1>18. ASSUME NEW s \in Sales, record'[s] # NoRecord PROVE RecordFits(s)'
  BY <1>1, <1>11, <1>18, RecordKept
<1>. QED  BY <1>13, <1>17, <1>18 DEF Inv

\* Every step keeps the invariant.
LEMMA InvStep == Inv /\ [Next]_vars => Inv'
<1> SUFFICES ASSUME Inv, [Next]_vars PROVE Inv'
  OBVIOUS
<1>1. ASSUME NEW i \in Imports, CommitStep(i) PROVE Inv'
  BY <1>1, BeginStep, InsertStep, EndStep, FailStep DEF CommitStep
<1>2. ASSUME NEW c \in Locs, NEW d \in Locs, MergeLocations(c, d) PROVE Inv'
  BY <1>2, MergeStep
<1>3. ASSUME FxNext, UNCHANGED salesVars PROVE Inv'
  BY <1>3, FxStep
<1>4. CASE UNCHANGED vars
  <2>1. UNCHANGED <<fxVars, row, region, status, commit, record, merges, crossed>>
    BY <1>4 DEF vars, salesVars
  <2>2. Stays /\ Types' /\ Orderly'
    BY <2>1 DEF Inv, Types, RowsTyped, Orderly, Stays, fxVars
  <2>3. ASSUME NEW k \in Imports, commit'[k] # Idle PROVE CommitFits(k)'
    BY <2>1, <2>2, <2>3, CommitKept
  <2>4. ASSUME NEW s \in Sales, record'[s] # NoRecord PROVE RecordFits(s)'
    BY <2>1, <2>2, <2>4, RecordKept
  <2>. QED  BY <2>2, <2>3, <2>4 DEF Inv
<1>. QED  BY <1>1, <1>2, <1>3, <1>4 DEF Next

LEMMA Invariance == Spec => []Inv
  BY InvInit, InvStep, PTL DEF Spec

-----------------------------------------------------------------------------
(* What the commits promise.                                               *)

\* A committed row is what some rate of the table makes of its amount.
LEMMA InvConversions == Inv => ConversionsStand
<1> SUFFICES ASSUME Inv, NEW s \in Committed
             PROVE  Converted(s, record[s].gbp)
  BY DEF ConversionsStand, Converted
<1>. QED  BY DEF Inv, Committed, RecordFits

\* What a row that is seen says of the original it names.
NamesWell(seen, s) ==
  LET o == seen[s].original IN
  /\ o \in DOMAIN seen /\ IsRefund(s) /\ ~IsRefund(o)
  /\ row[o].ref = row[s].ref /\ Size(s) <= Size(o)
  /\ seen[s].partial <=> Size(s) < Size(o)
  /\ region[ImportOf[o]] = region[ImportOf[s]]
  /\ \A t \in {u \in DOMAIN seen : seen[u].original # NoSale} :
       ImportOf[t] = ImportOf[s] /\ seen[t].original = o => t = s
  /\ ImportOf[s] \notin crossed => seen[s].loc = seen[o].loc

\* While an import is committed: its rows and the committed ones, which name
\* each other through nothing but the matches.
LEMMA SeenNameWell ==
  ASSUME Inv, NEW i \in Imports, commit[i] # Idle,
         NEW s \in DOMAIN Seen(i), Seen(i)[s].original # NoSale
  PROVE  NamesWell(Seen(i), s)
<1>. PICK seen : seen = Seen(i)
  OBVIOUS
<1>. PICK c : c = commit[i]
  OBVIOUS
<1>. PICK o : o = seen[s].original
  OBVIOUS
<1>1. CommitTyped(i) /\ MatchesFit(i) /\ InsertedFits(i) /\ status[i] = "staging"
  BY DEF Inv, CommitFits, Orderly
<1>2. \A t \in DOMAIN c.inserted : t \in Sales /\ ImportOf[t] = i /\ t \notin Committed
  BY <1>1 DEF CommitTyped, RowsOf, Committed, Inv, Orderly
<1>3. /\ \A t : t \in DOMAIN seen <=> t \in Committed \/ t \in DOMAIN c.inserted
      /\ \A t \in Committed : seen[t] = record[t]
      /\ \A t \in DOMAIN c.inserted : seen[t] = c.inserted[t]
  BY <1>2 DEF Seen
<1>4. \A t \in Committed : t \in Sales /\ RecordFits(t) /\ ImportOf[t] # i
  BY <1>1, ImportsOf DEF Inv, Committed, Orderly
<1>5. CASE s \in Committed
  <2>1. o = record[s].original /\ o # NoSale
    BY <1>3, <1>5
  <2>2. /\ Fits(s, o) /\ record[o] # NoRecord
        /\ record[s].partial <=> Size(s) < Size(o)
        /\ ImportOf[s] \notin crossed => record[s].loc = record[o].loc
    BY <1>4, <1>5, <2>1 DEF RecordFits
  <2>3. o \in Committed
    BY <2>2 DEF Fits, Committed
  <2>4. ASSUME NEW t \in DOMAIN seen, ImportOf[t] = ImportOf[s], seen[t].original = o
        PROVE  t = s
    <3>1. t \in Committed
      BY <1>2, <1>3, <1>4, <1>5, <2>4
    <3>2. t \in Sales /\ record[t] # NoRecord /\ record[t].original = o
      BY <1>3, <2>4, <3>1 DEF Committed
    <3>. QED  BY <1>4, <1>5, <2>1, <2>4, <3>2 DEF RecordFits
  <2>5. seen[s].partial <=> Size(s) < Size(o)
    BY <1>3, <1>5, <2>2
  <2>. QED  BY <1>3, <1>5, <2>2, <2>3, <2>4, <2>5 DEF NamesWell, Fits
<1>6. CASE s \in DOMAIN c.inserted
  <2>1. /\ s \in DOMAIN c.original /\ o = c.original[s] /\ seen[s].loc = c.at[s]
        /\ seen[s].partial <=> Size(s) < Size(o)
    BY <1>1, <1>3, <1>6 DEF InsertedFits
  <2>2. /\ Fits(s, o) /\ (o \in RowsOf(i) \/ record[o] # NoRecord)
        /\ i \notin crossed => c.at[s] = IF o \in RowsOf(i) THEN row[o].loc
                                         ELSE record[o].loc
    BY <1>1, <2>1 DEF MatchesFit
  <2>3. ASSUME o \in RowsOf(i)
        PROVE  o \in DOMAIN c.inserted /\ seen[o].loc = row[o].loc
    <3>1. Before(c.order, o, s)
      BY <2>2 DEF Fits, Before, IsRefund
    <3>2. o \in DOMAIN c.inserted
      BY <1>1, <1>6, <2>3, <3>1 DEF InsertedFits
    <3>3. o \notin DOMAIN c.original
      BY <1>1, <2>2 DEF MatchesFit, Fits
    <3>. QED  BY <1>1, <1>3, <3>2, <3>3 DEF InsertedFits
  <2>4. ASSUME o \notin RowsOf(i)
        PROVE  o \in Committed /\ seen[o].loc = record[o].loc
    BY <1>3, <2>2, <2>4 DEF Fits, Committed
  <2>5. o \in DOMAIN seen /\ (i \notin crossed => seen[s].loc = seen[o].loc)
    BY <1>3, <2>1, <2>2, <2>3, <2>4
  <2>6. ASSUME NEW t \in DOMAIN seen, ImportOf[t] = ImportOf[s],
               seen[t].original = o, o # NoSale
        PROVE  t = s
    <3>1. t \in DOMAIN c.inserted
      BY <1>2, <1>3, <1>4, <1>6, <2>6
    <3>2. t \in DOMAIN c.original /\ c.original[t] = o
      BY <1>1, <1>3, <2>6, <3>1 DEF InsertedFits
    <3>. QED  BY <1>1, <2>1, <3>2 DEF MatchesFit
  <2>7. ImportOf[s] = i
    BY <1>2, <1>6
  <2>. QED  BY <2>1, <2>2, <2>5, <2>6, <2>7 DEF NamesWell, Fits
<1>. QED  BY <1>3, <1>5, <1>6

LEMMA InvRefunds == Inv => RefundsFindOriginals
<1> SUFFICES ASSUME Inv PROVE RefundsFindOriginals
  OBVIOUS
<1>1. ASSUME NEW s \in Committed, record[s].original # NoSale
      PROVE  NamesWell([t \in Committed |-> record[t]], s)
  <2>. PICK o : o = record[s].original
    OBVIOUS
  <2>1. s \in Sales /\ record[s] # NoRecord /\ RecordFits(s)
    BY DEF Inv, Committed
  <2>2. /\ Fits(s, o) /\ record[o] # NoRecord
        /\ record[s].partial <=> Size(s) < Size(o)
        /\ ImportOf[s] \notin crossed => record[s].loc = record[o].loc
    BY <1>1, <2>1 DEF RecordFits
  <2>3. o \in Committed
    BY <2>2 DEF Fits, Committed
  <2>4. ASSUME NEW t \in Committed, ImportOf[t] = ImportOf[s], record[t].original = o
        PROVE  t = s
    BY <1>1, <2>1, <2>4 DEF RecordFits, Committed
  <2>. QED  BY <2>2, <2>3, <2>4 DEF NamesWell, Fits
<1>2. ASSUME NEW i \in Imports,
             NEW seen, seen = IF commit[i] = Idle THEN [s \in Committed |-> record[s]]
                              ELSE Seen(i),
             NEW s \in DOMAIN seen, seen[s].original # NoSale
      PROVE  NamesWell(seen, s)
  BY <1>1, <1>2, SeenNameWell
<1>. QED  BY <1>2 DEF RefundsFindOriginals, NamesWell

\* Only the begin of a commit gives an import one.
LEMMA OnlyBegins ==
  ASSUME Inv, [Next]_vars, NEW i \in Imports, commit[i] = Idle, commit'[i] # Idle
  PROVE  BeginCommit(i)
<1>1. DOMAIN commit = Imports
  BY DEF Inv, Types
<1>2. ASSUME NEW k \in Imports, CommitStep(k) PROVE BeginCommit(i)
  <2>1. CASE k = i
    BY <1>2, <2>1 DEF CommitStep, InsertChunk, EndCommit, FailCommit
  <2>2. CASE k # i
    BY <1>1, <1>2, <2>2 DEF CommitStep, BeginCommit, InsertChunk, EndCommit, FailCommit
  <2>. QED  BY <2>1, <2>2
<1>3. UNCHANGED commit => FALSE
  OBVIOUS
<1>4. ASSUME NEW c \in Locs, NEW d \in Locs, MergeLocations(c, d) PROVE FALSE
  BY <1>3, <1>4 DEF MergeLocations
<1>. QED  BY <1>2, <1>3, <1>4 DEF Next, vars, salesVars

\* What a commit begins with leaves no better original aside.
LEMMA BeginsWithTheBest ==
  ASSUME Inv, NEW i \in Imports, BeginCommit(i),
         NEW got, got = commit'[i].original,
         NEW f \in RowsOf(i), IsRefund(f)
  PROVE  /\ \A o \in RowsOf(i) :
              ~IsRefund(o) /\ o \notin Range(got) /\ FitsInBatch(f, o) =>
                f \in DOMAIN got /\ got[f] \in RowsOf(i) /\ ~MoreRecent(o, got[f])
         /\ f \notin DOMAIN got \/ got[f] \notin RowsOf(i) =>
              \A o \in Candidates(i) :
                o \notin Range(got) /\ FitsAcross(f, o) =>
                  f \in DOMAIN got /\ ~MoreRecent(o, got[f])
<1>1. Types /\ f \in Refunds(i)
  BY DEF Inv, Refunds
<1>2. PICK order, inBatch, across, c :
        Begun(i, c, order, inBatch, across) /\ commit' = [commit EXCEPT ![i] = c]
  BY <1>1, BeginsSo
<1>3. got = c.original
  BY <1>1, <1>2 DEF Types
<1>4. /\ order \in Orders(i)
      /\ inBatch = InBatch(i, order) /\ across = Across(i, inBatch, order)
      /\ DOMAIN got = DOMAIN inBatch \cup DOMAIN across
      /\ \A g \in DOMAIN inBatch : got[g] = inBatch[g]
      /\ \A g \in DOMAIN across : g \notin DOMAIN inBatch => got[g] = across[g]
  BY <1>2, <1>3 DEF Begun
<1>5. /\ \A g \in DOMAIN inBatch : inBatch[g] \in RowsOf(i)
      /\ \A o \in RowsOf(i) \ Refunds(i) :
           FitsInBatch(f, o) /\ (\A g \in DOMAIN inBatch : inBatch[g] # o) =>
             f \in DOMAIN inBatch /\ Later(inBatch[f], o)
  BY <1>1, <1>4, InBatchFacts
<1>6. /\ \A g \in DOMAIN across : g \notin DOMAIN inBatch /\ across[g] \in Candidates(i)
      /\ f \notin DOMAIN inBatch =>
           \A o \in Candidates(i) :
             FitsAcross(f, o) /\ (\A g \in DOMAIN across : across[g] # o) =>
               f \in DOMAIN across /\ Later(across[f], o)
  BY <1>1, <1>4, AcrossFacts
<1>7. \A o : o \notin Range(got) => \A g \in DOMAIN got : got[g] # o
  BY DEF Range
<1>8. \A o, p \in Sales : Later(p, o) => ~MoreRecent(o, p)
  <2>1. \A o \in Sales : o \in Nat /\ row[o].date \in Nat
    BY <1>1, SalesAssumption, FxAssumption DEF Types, RowsTyped, Days
  <2>. QED  BY <2>1 DEF Later, MoreRecent
<1>9. RowsOf(i) \subseteq Sales /\ Candidates(i) \subseteq Sales
  BY DEF RowsOf, Candidates, Committed
<1>10. ASSUME NEW o \in RowsOf(i), ~IsRefund(o), o \notin Range(got), FitsInBatch(f, o)
       PROVE  f \in DOMAIN got /\ got[f] \in RowsOf(i) /\ ~MoreRecent(o, got[f])
  <2>1. f \in DOMAIN inBatch /\ Later(inBatch[f], o)
    BY <1>4, <1>5, <1>7, <1>10 DEF Refunds
  <2>. QED  BY <1>4, <1>5, <1>8, <1>9, <2>1
<1>11. ASSUME f \notin DOMAIN got \/ got[f] \notin RowsOf(i),
              NEW o \in Candidates(i), o \notin Range(got), FitsAcross(f, o)
       PROVE  f \in DOMAIN got /\ ~MoreRecent(o, got[f])
  <2>1. f \notin DOMAIN inBatch
    BY <1>4, <1>5, <1>11
  <2>2. f \in DOMAIN across /\ Later(across[f], o)
    BY <1>4, <1>6, <1>7, <1>11, <2>1
  <2>. QED  BY <1>4, <1>6, <1>8, <1>9, <2>1, <2>2
<1>. QED  BY <1>10, <1>11

\* Chunk after chunk, and next to merges, rates that arrive and other imports:
\* the original of a refund is there when its foreign key is checked, fits it,
\* and belongs to one refund of an import (matchReversals, the originals-first
\* INSERTs of _commitImportForActor).
THEOREM OriginalsAreFound == Spec => []RefundsFindOriginals
  BY Invariance, InvRefunds, PTL

\* A committed amount is, to the penny, the conversion by a rate exchange_rates
\* still has for a day up to the sale's and within the limit, for rates are inserted
\* ON CONFLICT DO NOTHING and looked up by the latest day (getRateForDate); a rate
\* of a nearer day that comes later does not change it.
THEOREM AmountsStand == Spec => []ConversionsStand
  BY Invariance, InvConversions, PTL

\* Refund by refund the matcher takes the best that is left, and that leaves none
\* with less than the best of the originals nobody took, whatever the order of
\* the staged rows.
THEOREM BestOriginalsTaken == Spec => NoBetterOriginalLeft
<1> DEFINE BestTaken(i) ==
      LET got == commit'[i].original
          own == {s \in RowsOf(i) : ~IsRefund(s)} \ Range(got)
          old == Candidates(i) \ Range(got)
          better(f, o) == f \notin DOMAIN got \/ MoreRecent(o, got[f])
      IN  \A f \in {s \in RowsOf(i) : IsRefund(s)} :
            /\ \A o \in own : FitsInBatch(f, o) =>
                 f \in DOMAIN got /\ got[f] \in RowsOf(i) /\ ~better(f, o)
            /\ (f \notin DOMAIN got \/ got[f] \notin RowsOf(i)) =>
                 \A o \in old : FitsAcross(f, o) => ~better(f, o)
<1>1. ASSUME Inv, [Next]_vars, NEW i \in Imports, commit[i] = Idle, commit'[i] # Idle
      PROVE  BestTaken(i)
  <2>1. BeginCommit(i)
    BY <1>1, OnlyBegins
  <2>. QED  BY <1>1, <2>1, BeginsWithTheBest
<1>2. Inv /\ [Next]_vars =>
        [\A i \in Imports : commit[i] = Idle /\ commit'[i] # Idle => BestTaken(i)]_vars
  BY <1>1
<1>. QED  BY <1>2, Invariance, PTL DEF Spec, NoBetterOriginalLeft

-----------------------------------------------------------------------------
(* The ledger.  Induction.                                                 *)

\* A set that has 0 and with a number the next has all numbers.
LEMMA AllNumbers ==
  ASSUME NEW S, 0 \in S, \A n \in Nat : n \in S => n + 1 \in S
  PROVE  \A n \in Nat : n \in S
<1> DEFINE Bad == Nat \ S
<1>. SUFFICES ASSUME Bad # {} PROVE FALSE
  OBVIOUS
<1>1. PICK n \in Bad : \A m \in Bad : n <= m
  BY LeastOf
<1>2. n # 0 /\ n - 1 \in Nat
  OBVIOUS
<1>3. n - 1 \notin Bad
  BY <1>1, <1>2
<1>4. (n - 1) + 1 = n
  OBVIOUS
<1>. QED  BY <1>2, <1>3, <1>4

\* A set with n + 1 elements has n without one of them.
LEMMA OneLess ==
  ASSUME NEW T, IsFiniteSet(T), NEW n \in Nat, Cardinality(T) = n + 1
  PROVE  T # {} /\ \A x \in T : IsFiniteSet(T \ {x}) /\ Cardinality(T \ {x}) = n
<1>1. T # {}
  BY FS_EmptySet
<1>2. ASSUME NEW x \in T PROVE IsFiniteSet(T \ {x}) /\ Cardinality(T \ {x}) = n
  <2>1. IsFiniteSet(T \ {x}) /\ Cardinality(T \ {x}) = Cardinality(T) - 1
    BY FS_RemoveElement
  <2>. QED  BY <2>1
<1>. QED  BY <1>1, <1>2

\* A family of the subsets of a finite set has them all if it has the empty one
\* and every other whenever it has those with an element less.
LEMMA AllSubsets ==
  ASSUME NEW S, IsFiniteSet(S), NEW F, {} \in F,
         \A T \in SUBSET S : T # {} /\ (\A x \in T : T \ {x} \in F) => T \in F
  PROVE  \A T \in SUBSET S : T \in F
<1> DEFINE N == {n \in Nat : \A T \in SUBSET S : Cardinality(T) = n => T \in F}
<1>1. \A T \in SUBSET S : IsFiniteSet(T) /\ Cardinality(T) \in Nat
  BY FS_Subset, FS_CardinalityType
<1>2. 0 \in N
  BY <1>1, FS_EmptySet
<1>3. ASSUME NEW n \in Nat, n \in N PROVE n + 1 \in N
  <2>1. ASSUME NEW T \in SUBSET S, Cardinality(T) = n + 1 PROVE T \in F
    <3>1. T # {} /\ \A x \in T : Cardinality(T \ {x}) = n
      BY <1>1, <2>1, OneLess
    <3>2. \A x \in T : T \ {x} \in F
      BY <1>3, <3>1
    <3>. QED  BY <3>1, <3>2
  <2>. QED  BY <2>1
<1>. HIDE DEF N
<1>4. \A n \in Nat : n \in N
  BY <1>2, <1>3, AllNumbers
<1>. QED  BY <1>1, <1>4 DEF N

-----------------------------------------------------------------------------
(* Sums over finite sets.                                                  *)

Some(T) == CHOOSE x \in T : TRUE

\* The sums of the subsets of a set with at most n elements.
Small(S, n) == {T \in SUBSET S : Cardinality(T) <= n}
SmallSums(g, f, S, n) ==
  g = [T \in Small(S, n) |-> IF T = {} THEN 0 ELSE f[Some(T)] + g[T \ {Some(T)}]]

\* The sums of all its subsets.
Sums(g, f, S) ==
  g = [T \in SUBSET S |-> IF T = {} THEN 0 ELSE f[Some(T)] + g[T \ {Some(T)}]]

\* A small set is smaller without one of its elements.
LEMMA SmallerIsSmall ==
  ASSUME NEW S, IsFiniteSet(S), NEW n \in Nat, NEW T \in Small(S, n + 1), NEW x \in T
  PROVE  T \ {x} \in Small(S, n)
<1>1. IsFiniteSet(T) /\ Cardinality(T) \in Nat /\ Cardinality(T) <= n + 1
  BY FS_Subset, FS_CardinalityType DEF Small
<1>2. Cardinality(T \ {x}) = Cardinality(T) - 1
  BY <1>1, FS_RemoveElement
<1>. QED  BY <1>1, <1>2 DEF Small

\* There are sums of the sets of any size.
LEMMA SmallSumsExist ==
  ASSUME NEW S, IsFiniteSet(S), NEW f
  PROVE  \A n \in Nat : \E g : SmallSums(g, f, S, n)
<1> DEFINE N == {n \in Nat : \E g : SmallSums(g, f, S, n)}
<1>1. 0 \in N
  <2>1. \A T \in Small(S, 0) : T = {}
    BY FS_Subset, FS_CardinalityType, FS_EmptySet DEF Small
  <2> DEFINE g == [T \in Small(S, 0) |-> 0]
  <2>2. SmallSums(g, f, S, 0)
    BY <2>1 DEF SmallSums
  <2>. QED  BY <2>2
<1>2. ASSUME NEW n \in Nat, n \in N PROVE n + 1 \in N
  <2>1. PICK g : SmallSums(g, f, S, n)
    BY <1>2
  <2> DEFINE h == [T \in Small(S, n + 1) |->
                     IF T = {} THEN 0 ELSE f[Some(T)] + g[T \ {Some(T)}]]
  <2>2. \A T \in Small(S, n) : T \in Small(S, n + 1)
    BY FS_Subset, FS_CardinalityType DEF Small
  <2>3. \A T \in Small(S, n) : h[T] = g[T]
    BY <2>1, <2>2 DEF SmallSums
  <2>4. \A T \in Small(S, n + 1) : T # {} => h[T \ {Some(T)}] = g[T \ {Some(T)}]
    <3>1. \A T \in Small(S, n + 1) : T # {} => Some(T) \in T
      BY DEF Some
    <3>. HIDE DEF h
    <3>. QED  BY <2>3, <3>1, SmallerIsSmall
  <2>5. h = [T \in Small(S, n + 1) |->
               IF T = {} THEN 0 ELSE f[Some(T)] + h[T \ {Some(T)}]]
    BY <2>4
  <2>. HIDE DEF h
  <2>6. SmallSums(h, f, S, n + 1)
    BY <2>5 DEF SmallSums
  <2>. QED  BY <2>6
<1>. HIDE DEF N
<1>3. \A n \in Nat : n \in N
  BY <1>1, <1>2, AllNumbers
<1>. QED  BY <1>3 DEF N

\* The sum over a finite set takes one of its elements first.
LEMMA SumIs ==
  ASSUME NEW S, IsFiniteSet(S), NEW f
  PROVE  \E g : Sums(g, f, S) /\ SumFunctionOnSet(f, S) = g[S]
<1>1. Cardinality(S) \in Nat
  BY FS_CardinalityType
<1>2. Small(S, Cardinality(S)) = SUBSET S
  BY FS_Subset DEF Small
<1>3. PICK g : SmallSums(g, f, S, Cardinality(S))
  BY <1>1, SmallSumsExist
<1>4. Sums(g, f, S)
  BY <1>2, <1>3 DEF Sums, SmallSums
<1>5. SumFunctionOnSet(f, S) = (CHOOSE h : Sums(h, f, S))[S]
  BY DEF SumFunctionOnSet, FoldFunctionOnSet, MapThenFoldSet, Sums, Some
<1>. QED  BY <1>4, <1>5

\* A sum depends on the values at the elements, and on nothing else.
LEMMA SumsAgree ==
  ASSUME NEW S, NEW R, NEW f, NEW e, NEW g, NEW h, Sums(g, f, S), Sums(h, e, R),
         NEW T, T \in SUBSET S, T \in SUBSET R, IsFiniteSet(T),
         \A x \in T : f[x] = e[x]
  PROVE  g[T] = h[T]
<1> DEFINE F == {U \in SUBSET T : g[U] = h[U]}
<1>1. {} \in F
  BY DEF Sums
<1>2. ASSUME NEW U \in SUBSET T, U # {}, \A x \in U : U \ {x} \in F PROVE U \in F
  <2>1. Some(U) \in U
    BY <1>2 DEF Some
  <2>2. g[U \ {Some(U)}] = h[U \ {Some(U)}]
    BY <1>2, <2>1
  <2>3. g[U] = f[Some(U)] + g[U \ {Some(U)}] /\ h[U] = e[Some(U)] + h[U \ {Some(U)}]
    BY <1>2 DEF Sums
  <2>. QED  BY <2>1, <2>2, <2>3
<1>. HIDE DEF F
<1>3. \A U \in SUBSET T : U # {} /\ (\A x \in U : U \ {x} \in F) => U \in F
  BY <1>2
<1>4. \A U \in SUBSET T : U \in F
  BY <1>1, <1>3, AllSubsets
<1>. QED  BY <1>4 DEF F

\* Sums depend on what the summands are and nothing else.
LEMMA SumSame ==
  ASSUME NEW S, IsFiniteSet(S), NEW f, NEW e, \A x \in S : f[x] = e[x]
  PROVE  SumFunctionOnSet(f, S) = SumFunctionOnSet(e, S)
<1>1. PICK g : Sums(g, f, S) /\ SumFunctionOnSet(f, S) = g[S]
  BY SumIs
<1>2. PICK h : Sums(h, e, S) /\ SumFunctionOnSet(e, S) = h[S]
  BY SumIs
<1>. QED  BY <1>1, <1>2, SumsAgree

\* Nothing adds up to zero.
LEMMA SumOfNone ==
  ASSUME NEW f
  PROVE  SumFunctionOnSet(f, {}) = 0
<1>1. PICK g : Sums(g, f, {}) /\ SumFunctionOnSet(f, {}) = g[{}]
  BY SumIs, FS_EmptySet
<1>. QED  BY <1>1 DEF Sums

\* One element first.
LEMMA SumFirst ==
  ASSUME NEW S, IsFiniteSet(S), S # {}, NEW f
  PROVE  SumFunctionOnSet(f, S) = f[Some(S)] + SumFunctionOnSet(f, S \ {Some(S)})
<1> DEFINE R == S \ {Some(S)}
<1>1. PICK g : Sums(g, f, S) /\ SumFunctionOnSet(f, S) = g[S]
  BY SumIs
<1>2. IsFiniteSet(R) /\ R \in SUBSET S
  BY FS_Subset
<1>3. PICK h : Sums(h, f, R) /\ SumFunctionOnSet(f, R) = h[R]
  BY <1>2, SumIs
<1>4. g[R] = h[R]
  BY <1>1, <1>2, <1>3, SumsAgree
<1>5. g[S] = f[Some(S)] + g[R]
  BY <1>1 DEF Sums
<1>. QED  BY <1>1, <1>3, <1>4, <1>5

\* Integers add up to an integer.
LEMMA SumIsInt ==
  ASSUME NEW S, IsFiniteSet(S), NEW f, \A x \in S : f[x] \in Int
  PROVE  SumFunctionOnSet(f, S) \in Int
<1> DEFINE F == {T \in SUBSET S : SumFunctionOnSet(f, T) \in Int}
<1>1. {} \in F
  BY SumOfNone
<1>2. ASSUME NEW T \in SUBSET S, T # {}, \A x \in T : T \ {x} \in F PROVE T \in F
  <2>1. IsFiniteSet(T)
    BY FS_Subset
  <2>2. Some(T) \in T
    BY <1>2 DEF Some
  <2>3. SumFunctionOnSet(f, T \ {Some(T)}) \in Int
    BY <1>2, <2>2
  <2>4. SumFunctionOnSet(f, T) = f[Some(T)] + SumFunctionOnSet(f, T \ {Some(T)})
    BY <1>2, <2>1, SumFirst
  <2>5. f[Some(T)] \in Int
    BY <2>2
  <2>. QED  BY <2>3, <2>4, <2>5
<1>. HIDE DEF F
<1>3. \A T \in SUBSET S : T # {} /\ (\A x \in T : T \ {x} \in F) => T \in F
  BY <1>2
<1>4. \A T \in SUBSET S : T \in F
  BY <1>1, <1>3, AllSubsets
<1>. QED  BY <1>4 DEF F

\* Any element may be taken out.
LEMMA SumWithout ==
  ASSUME NEW S, IsFiniteSet(S), NEW f, \A x \in S : f[x] \in Int, NEW y \in S
  PROVE  SumFunctionOnSet(f, S) = f[y] + SumFunctionOnSet(f, S \ {y})
<1> DEFINE Sum(T) == SumFunctionOnSet(f, T)
           F == {T \in SUBSET S : \A z \in T : Sum(T) = f[z] + Sum(T \ {z})}
<1>1. \A T \in SUBSET S : IsFiniteSet(T) /\ Sum(T) \in Int
  BY FS_Subset, SumIsInt
<1>2. {} \in F
  OBVIOUS
<1>3. ASSUME NEW T \in SUBSET S, T # {}, \A x \in T : T \ {x} \in F PROVE T \in F
  <2> SUFFICES ASSUME NEW z \in T PROVE Sum(T) = f[z] + Sum(T \ {z})
    OBVIOUS
  <2>1. PICK x \in T : x = Some(T)
    BY DEF Some
  <2>2. Sum(T) = f[x] + Sum(T \ {x})
    BY <1>1, <2>1, SumFirst
  <2>3. CASE z = x
    BY <2>2, <2>3
  <2>4. CASE z # x
    <3> DEFINE rest == Sum((T \ {x}) \ {z})
    <3>1. Sum(T \ {x}) = f[z] + rest
      BY <1>3, <2>4
    <3>2. Sum(T \ {z}) = f[x] + Sum((T \ {z}) \ {x})
      BY <1>3, <2>4
    <3>3. (T \ {x}) \ {z} = (T \ {z}) \ {x}
      OBVIOUS
    <3>4. Sum(T) = f[x] + (f[z] + rest) /\ Sum(T \ {z}) = f[x] + rest
      BY <2>2, <3>1, <3>2, <3>3
    <3>5. rest \in Int
      BY <1>1
    <3>6. f[x] \in Int /\ f[z] \in Int
      OBVIOUS
    <3>. HIDE DEF Sum, rest
    <3>. QED  BY <3>4, <3>5, <3>6
  <2>. QED  BY <2>3, <2>4
<1>. HIDE DEF F
<1>4. \A T \in SUBSET S : T # {} /\ (\A x \in T : T \ {x} \in F) => T \in F
  BY <1>3
<1>5. \A T \in SUBSET S : T \in F
  BY <1>2, <1>4, AllSubsets
<1>. QED  BY <1>5 DEF F

\* Disjoint sets add up.
LEMMA SumOfBoth ==
  ASSUME NEW S, IsFiniteSet(S), NEW T, IsFiniteSet(T), S \cap T = {},
         NEW f, \A x \in S \cup T : f[x] \in Int
  PROVE  SumFunctionOnSet(f, S \cup T) = SumFunctionOnSet(f, S) + SumFunctionOnSet(f, T)
<1> DEFINE Sum(U) == SumFunctionOnSet(f, U)
           F == {U \in SUBSET T : Sum(S \cup U) = Sum(S) + Sum(U)}
<1>1. IsFiniteSet(S \cup T)
  BY FS_Union
<1>2. \A U \in SUBSET (S \cup T) : IsFiniteSet(U) /\ Sum(U) \in Int
  BY <1>1, FS_Subset, SumIsInt
<1>3. {} \in F
  <2>1. Sum({}) = 0 /\ S \cup {} = S /\ Sum(S) \in Int
    BY <1>2, SumOfNone
  <2>. HIDE DEF Sum
  <2>. QED  BY <2>1
<1>4. ASSUME NEW U \in SUBSET T, U # {}, NEW x \in U, U \ {x} \in F PROVE U \in F
  <2>1. Sum(U) = f[x] + Sum(U \ {x})
    BY <1>2, SumWithout
  <2>2. Sum(S \cup U) = f[x] + Sum((S \cup U) \ {x})
    BY <1>2, SumWithout
  <2>3. (S \cup U) \ {x} = S \cup (U \ {x})
    OBVIOUS
  <2>4. Sum(S \cup (U \ {x})) = Sum(S) + Sum(U \ {x})
    BY <1>4
  <2>5. f[x] \in Int /\ Sum(S) \in Int /\ Sum(U \ {x}) \in Int
    BY <1>2
  <2> DEFINE rest == Sum(U \ {x})
             mine == Sum(S)
  <2>6. Sum(U) = f[x] + rest /\ Sum(S \cup U) = f[x] + (mine + rest)
    BY <2>1, <2>2, <2>3, <2>4
  <2>7. rest \in Int /\ mine \in Int
    BY <2>5
  <2>8. (mine + (f[x] + rest)) = f[x] + (mine + rest)
    <3>. HIDE DEF rest, mine
    <3>. QED  BY <2>5, <2>7
  <2>9. Sum(S \cup U) = Sum(S) + Sum(U)
    BY <2>6, <2>8
  <2>. QED  BY <2>9
<1>. HIDE DEF F, Sum
<1>5. \A U \in SUBSET T : U # {} /\ (\A x \in U : U \ {x} \in F) => U \in F
  BY <1>4
<1>6. \A U \in SUBSET T : U \in F
  BY <1>3, <1>5, AllSubsets
<1>7. T \in F
  BY <1>6
<1>. QED  BY <1>7 DEF F, Sum
-----------------------------------------------------------------------------
(* The engine.                                                             *)

TierSet(tiers) ==
  IsFiniteSet(tiers) /\ \A t \in tiers : t.floor \in Nat /\ t.ceil \in Nat /\ t.rate \in Nat

\* A quotient is as near as an integer below it can be.
LEMMA QuotientIs ==
  ASSUME NEW y \in Nat, NEW d \in Nat \ {0}
  PROVE  /\ y \div d \in Nat
         /\ d * (y \div d) <= y /\ y < d * (y \div d) + d
<1>1. y \div d \in Nat
  OBVIOUS
<1>2. y = d * (y \div d) + (y % d) /\ 0 <= y % d /\ y % d < d
  OBVIOUS
<1>. QED  BY <1>1, <1>2

\* Rounding moves an amount by half a penny at most.
LEMMA PenceIs ==
  ASSUME NEW x \in Nat
  PROVE  /\ Pence(x) \in Nat /\ Pence(0) = 0
         /\ 2 * (Whole * Pence(x) - x) <= Whole /\ 2 * (x - Whole * Pence(x)) <= Whole
<1>1. PICK u \in Nat \ {0} : u = Whole
  BY FeeAssumption
<1>2. PICK y \in Nat : y = 2 * x + u
  OBVIOUS
<1>3. PICK d \in Nat \ {0} : d = 2 * u
  OBVIOUS
<1>4. PICK q \in Nat : q = y \div d /\ d * q <= y /\ y < d * q + d
  BY QuotientIs
<1>5. Pence(x) = q
  BY <1>1, <1>2, <1>3, <1>4 DEF Pence
<1>6. d * q = 2 * (u * q) /\ u * q \in Nat
  BY <1>3
<1>7. 2 * (u * q - x) <= u /\ 2 * (x - u * q) <= u
  BY <1>2, <1>3, <1>4, <1>6
<1>8. Pence(0) = 0
  <2>1. PICK r \in Nat : r = u \div d /\ d * r <= u /\ u < d * r + d
    BY QuotientIs
  <2>2. r = 0
    <3>1. CASE r # 0
      <4>1. d * r >= d
        BY <2>1, <3>1
      <4>. QED  BY <1>3, <2>1, <4>1
    <3>. QED  BY <3>1
  <2>3. Pence(0) = u \div d
    BY <1>1, <1>3 DEF Pence
  <2>. QED  BY <2>1, <2>2, <2>3
<1>. QED  BY <1>1, <1>5, <1>7, <1>8

\* Of finitely many brackets one has the highest floor.
LEMMA HighestIs ==
  ASSUME NEW tiers, TierSet(tiers), tiers # {}
  PROVE  Highest(tiers) \in tiers /\ \A s \in tiers : s.floor <= Highest(tiers).floor
<1> DEFINE F == {T \in SUBSET tiers : T # {} => \E t \in T : \A s \in T : s.floor <= t.floor}
<1>1. ASSUME NEW T \in SUBSET tiers, NEW x \in T, T \ {x} \in F PROVE T \in F
  <2>1. CASE T \ {x} = {}
    BY <2>1 DEF TierSet
  <2>2. CASE T \ {x} # {}
    <3>1. PICK t \in T \ {x} : \A s \in T \ {x} : s.floor <= t.floor
      BY <1>1, <2>2
    <3>2. x.floor \in Nat /\ \A s \in T : s.floor \in Nat
      BY DEF TierSet
    <3>3. CASE x.floor <= t.floor
      BY <3>1, <3>3
    <3>4. CASE ~(x.floor <= t.floor)
      <4>1. \A s \in T : s.floor <= x.floor
        BY <3>1, <3>2, <3>4
      <4>. QED  BY <4>1
    <3>. QED  BY <3>3, <3>4
  <2>. QED  BY <2>1, <2>2
<1>2. {} \in F
  OBVIOUS
<1>. HIDE DEF F
<1>3. \A T \in SUBSET tiers : T # {} /\ (\A x \in T : T \ {x} \in F) => T \in F
  BY <1>1
<1>4. \A T \in SUBSET tiers : T \in F
  BY <1>2, <1>3, AllSubsets DEF TierSet
<1>5. \E t \in tiers : \A s \in tiers : s.floor <= t.floor
  BY <1>4 DEF F
<1>. QED  BY <1>5 DEF Highest

\* So has every part of them.
LEMMA HighestOfSome ==
  ASSUME NEW tiers, TierSet(tiers), NEW T \in SUBSET tiers, T # {}
  PROVE  Highest(T) \in T /\ \A s \in T : s.floor <= Highest(T).floor
<1>1. TierSet(T)
  BY FS_Subset DEF TierSet
<1>. QED  BY <1>1, HighestIs

Start(amount, before) == [left |-> amount, cursor |-> before, owed |-> 0]

\* What has been poured into some of the brackets.
SmallPours(p, start, tiers, n) ==
  p = [T \in Small(tiers, n) |->
         IF T = {} THEN start ELSE Pour(p[T \ {Highest(T)}], Highest(T))]
Pours(p, start, tiers) ==
  p = [T \in SUBSET tiers |->
         IF T = {} THEN start ELSE Pour(p[T \ {Highest(T)}], Highest(T))]

\* The recursion over the brackets has a solution for the parts of any size.
LEMMA SmallPoursExist ==
  ASSUME NEW tiers, TierSet(tiers), NEW start
  PROVE  \A n \in Nat : \E p : SmallPours(p, start, tiers, n)
<1> DEFINE N == {n \in Nat : \E p : SmallPours(p, start, tiers, n)}
<1>0. IsFiniteSet(tiers)
  BY DEF TierSet
<1>1. 0 \in N
  <2>1. \A T \in Small(tiers, 0) : T = {}
    BY <1>0, FS_Subset, FS_CardinalityType, FS_EmptySet DEF Small
  <2> DEFINE p == [T \in Small(tiers, 0) |-> start]
  <2>2. SmallPours(p, start, tiers, 0)
    BY <2>1 DEF SmallPours
  <2>. QED  BY <2>2
<1>2. ASSUME NEW n \in Nat, n \in N PROVE n + 1 \in N
  <2>1. PICK p : SmallPours(p, start, tiers, n)
    BY <1>2
  <2> DEFINE q == [T \in Small(tiers, n + 1) |->
                     IF T = {} THEN start ELSE Pour(p[T \ {Highest(T)}], Highest(T))]
  <2>2. \A T \in Small(tiers, n) : T \in Small(tiers, n + 1)
    BY <1>0, FS_Subset, FS_CardinalityType DEF Small
  <2>3. \A T \in Small(tiers, n) : q[T] = p[T]
    BY <2>1, <2>2 DEF SmallPours
  <2>4. \A T \in Small(tiers, n + 1) : T # {} => q[T \ {Highest(T)}] = p[T \ {Highest(T)}]
    <3>1. \A T \in Small(tiers, n + 1) : T # {} => Highest(T) \in T
      BY HighestOfSome DEF Small
    <3>. HIDE DEF q
    <3>. QED  BY <1>0, <2>3, <3>1, SmallerIsSmall
  <2>5. q = [T \in Small(tiers, n + 1) |->
               IF T = {} THEN start ELSE Pour(q[T \ {Highest(T)}], Highest(T))]
    BY <2>4
  <2>. HIDE DEF q
  <2>6. SmallPours(q, start, tiers, n + 1)
    BY <2>5 DEF SmallPours
  <2>. QED  BY <2>6
<1>. HIDE DEF N
<1>3. \A n \in Nat : n \in N
  BY <1>1, <1>2, AllNumbers
<1>. QED  BY <1>3 DEF N

\* The engine pours an amount bracket by bracket, the highest one last.
LEMMA WaterfallIs ==
  ASSUME NEW tiers, TierSet(tiers), NEW amount, NEW before
  PROVE  \E p : /\ Pours(p, Start(amount, before), tiers)
                /\ Waterfall(amount, before, tiers) = p[tiers].owed
<1> DEFINE start == Start(amount, before)
<1>1. IsFiniteSet(tiers) /\ Cardinality(tiers) \in Nat
  BY FS_CardinalityType DEF TierSet
<1>2. Small(tiers, Cardinality(tiers)) = SUBSET tiers
  BY <1>1, FS_Subset DEF Small
<1>3. PICK p : SmallPours(p, start, tiers, Cardinality(tiers))
  BY <1>1, SmallPoursExist
<1>4. Pours(p, start, tiers)
  BY <1>2, <1>3 DEF Pours, SmallPours
<1>5. Waterfall(amount, before, tiers) = (CHOOSE q : Pours(q, start, tiers))[tiers].owed
  BY DEF Waterfall, Pours, Start
<1>6. PICK q : q = CHOOSE r : Pours(r, start, tiers)
  OBVIOUS
<1>7. Pours(q, start, tiers)
  BY <1>4, <1>6
<1>. QED  BY <1>5, <1>6, <1>7

\* Nothing that is poured is owed to the hotel's detriment.
LEMMA WaterfallTyped ==
  ASSUME NEW tiers, TierSet(tiers), NEW amount \in Int, NEW before \in Int
  PROVE  /\ Waterfall(amount, before, tiers) \in Nat
         /\ amount <= 0 => Waterfall(amount, before, tiers) = 0
<1> DEFINE start == Start(amount, before)
           Acc == [left : Int, cursor : Int, owed : Nat]
<1>1. PICK p : Pours(p, start, tiers) /\ Waterfall(amount, before, tiers) = p[tiers].owed
  BY WaterfallIs
<1> DEFINE F == {T \in SUBSET tiers : p[T] \in Acc /\ (amount <= 0 => p[T] = start)}
<1>2. {} \in F
  BY <1>1 DEF Pours, Start
<1>3. ASSUME NEW acc \in Acc, NEW t \in tiers PROVE Pour(acc, t) \in Acc
  <2>1. t.floor \in Nat /\ t.ceil \in Nat /\ t.rate \in Nat
    BY DEF TierSet
  <2>2. \A x \in Nat : Pence(x * t.rate) \in Nat
    <3>1. \A x \in Nat : x * t.rate \in Nat
      BY <2>1
    <3>. QED  BY <3>1, PenceIs
  <2>. QED  BY <2>1, <2>2 DEF Pour
<1>4. \A t \in tiers : amount <= 0 => Pour(start, t) = start
  BY DEF Pour, Start
<1>5. ASSUME NEW T \in SUBSET tiers, T # {}, \A x \in T : T \ {x} \in F PROVE T \in F
  <2>1. p[T] = Pour(p[T \ {Highest(T)}], Highest(T)) /\ Highest(T) \in T
    BY <1>1, <1>5, HighestOfSome DEF Pours
  <2>2. T \ {Highest(T)} \in F
    BY <1>5, <2>1
  <2>. HIDE DEF start, Acc
  <2>. QED  BY <1>3, <1>4, <2>1, <2>2
<1>. HIDE DEF F
<1>6. \A T \in SUBSET tiers : T # {} /\ (\A x \in T : T \ {x} \in F) => T \in F
  BY <1>5
<1>7. tiers \in F
  BY <1>2, <1>6, AllSubsets DEF TierSet
<1>. QED  BY <1>1, <1>7 DEF F, Start

-----------------------------------------------------------------------------
(* What is owed by definition, and what the engine pays.                   *)

\* The part of a revenue in a bracket is an integer, and none without revenue.
LEMMA WithinIs ==
  ASSUME NEW tiers, TierSet(tiers), NEW t \in tiers, NEW x \in Int
  PROVE  /\ Within(x, t) \in Int /\ t.rate * Within(x, t) \in Int
         /\ x <= 0 => Within(x, t) = 0 /\ t.rate * Within(x, t) = 0
<1>1. t.floor \in Nat /\ t.ceil \in Nat /\ t.rate \in Nat
  BY DEF TierSet
<1>2. Within(x, t) \in Int /\ (x <= 0 => Within(x, t) = 0)
  BY <1>1 DEF Within
<1>. QED  BY <1>1, <1>2

\* What is owed is an integer.
LEMMA OwedIs ==
  ASSUME NEW tiers, TierSet(tiers), NEW x \in Int
  PROVE  Owed(x, tiers) \in Int /\ Owed(x, {}) = 0
<1> DEFINE w == [t \in tiers |-> t.rate * Within(x, t)]
<1>1. Owed(x, tiers) = SumFunctionOnSet(w, tiers)
  BY DEF Owed, SumFunction
<1>2. \A t \in tiers : w[t] \in Int
  BY WithinIs
<1>. HIDE DEF w
<1>3. Owed(x, tiers) \in Int
  BY <1>1, <1>2, SumIsInt DEF TierSet
<1>4. Owed(x, {}) = 0
  BY SumOfNone DEF Owed, SumFunction
<1>. QED  BY <1>3, <1>4

\* Any bracket can be taken out of what is owed.
LEMMA OwedWithout ==
  ASSUME NEW tiers, TierSet(tiers), NEW x \in Int, NEW h \in tiers
  PROVE  Owed(x, tiers) = h.rate * Within(x, h) + Owed(x, tiers \ {h})
<1> DEFINE w == [t \in tiers |-> t.rate * Within(x, t)]
           v == [t \in tiers \ {h} |-> t.rate * Within(x, t)]
<1>1. Owed(x, tiers) = SumFunctionOnSet(w, tiers)
  BY DEF Owed, SumFunction
<1>2. Owed(x, tiers \ {h}) = SumFunctionOnSet(v, tiers \ {h})
  BY DEF Owed, SumFunction
<1>3. \A t \in tiers : w[t] \in Int
  BY WithinIs
<1>4. \A t \in tiers \ {h} : w[t] = v[t]
  OBVIOUS
<1>5. w[h] = h.rate * Within(x, h)
  OBVIOUS
<1>6. IsFiniteSet(tiers) /\ IsFiniteSet(tiers \ {h})
  BY FS_Subset DEF TierSet
<1>. HIDE DEF w, v
<1>7. SumFunctionOnSet(w, tiers \ {h}) = SumFunctionOnSet(v, tiers \ {h})
  BY <1>4, <1>6, SumSame
<1>8. SumFunctionOnSet(w, tiers) = w[h] + SumFunctionOnSet(w, tiers \ {h})
  BY <1>3, <1>6, SumWithout
<1>. QED  BY <1>1, <1>2, <1>5, <1>7, <1>8

\* No revenue owes nothing.
LEMMA OwedOfNothing ==
  ASSUME NEW tiers, TierSet(tiers), NEW x \in Int, x <= 0
  PROVE  Owed(x, tiers) = 0
<1> DEFINE F == {T \in SUBSET tiers : Owed(x, T) = 0}
<1>1. {} \in F
  BY OwedIs
<1>2. ASSUME NEW T \in SUBSET tiers, T # {}, \A h \in T : T \ {h} \in F PROVE T \in F
  <2>1. PICK h \in T : TRUE
    BY <1>2
  <2>2. TierSet(T)
    BY FS_Subset DEF TierSet
  <2>3. Owed(x, T) = h.rate * Within(x, h) + Owed(x, T \ {h})
    BY <2>2, OwedWithout
  <2>4. h.rate * Within(x, h) = 0 /\ Owed(x, T \ {h}) = 0
    BY <1>2, <2>2, WithinIs
  <2>. QED  BY <2>3, <2>4
<1>. HIDE DEF F
<1>3. \A T \in SUBSET tiers : T # {} /\ (\A h \in T : T \ {h} \in F) => T \in F
  BY <1>2
<1>4. tiers \in F
  BY <1>1, <1>3, AllSubsets DEF TierSet
<1>. QED  BY <1>4 DEF F

\* What falls due in a bracket when a revenue grows from b to m.
Grows(b, m, t) == t.rate * (Within(m, t) - Within(b, t))

LEMMA GrowsIs ==
  ASSUME NEW tiers, TierSet(tiers), Contiguous(tiers), NEW t \in tiers,
         NEW b \in Int, NEW m \in Int, b <= m
  PROVE  /\ Grows(b, m, t) \in Nat /\ Pence(Grows(b, m, t)) \in Nat
         /\ Grows(b, m, t) = t.rate * Within(m, t) - t.rate * Within(b, t)
<1>1. t.floor \in Nat /\ t.ceil \in Nat /\ t.rate \in Nat
  BY DEF TierSet
<1>2. t.floor < t.ceil
  BY DEF Contiguous
<1>3. Within(m, t) \in Nat /\ Within(b, t) \in Nat /\ Within(b, t) <= Within(m, t)
  BY <1>1, <1>2 DEF Within
<1>4. ASSUME NEW r \in Nat, NEW x \in Nat, NEW y \in Nat, y <= x
      PROVE  r * (x - y) \in Nat /\ r * (x - y) = r * x - r * y
  <2>1. PICK z \in Nat : z = x - y
    BY <1>4
  <2>2. r * z \in Nat
    OBVIOUS
  <2>. QED  BY <2>1, <2>2
<1>5. Grows(b, m, t) \in Nat /\ Grows(b, m, t) = t.rate * Within(m, t) - t.rate * Within(b, t)
  BY <1>1, <1>3, <1>4 DEF Grows
<1>. QED  BY <1>5, PenceIs

\* What is due is an integer, and nothing without brackets.
LEMMA DueIs ==
  ASSUME NEW tiers, TierSet(tiers), Contiguous(tiers),
         NEW b \in Int, NEW m \in Int, b <= m,
         NEW T \in SUBSET tiers
  PROVE  /\ Due(b, m, T) \in Int /\ Due(b, m, {}) = 0
         /\ \A h \in T : Due(b, m, T) = Pence(Grows(b, m, h)) + Due(b, m, T \ {h})
<1> DEFINE w == [t \in T |-> Pence(t.rate * (Within(m, t) - Within(b, t)))]
<1>1. IsFiniteSet(T) /\ TierSet(T)
  BY FS_Subset DEF TierSet
<1>2. \A t \in T : w[t] \in Int /\ w[t] = Pence(Grows(b, m, t))
  BY GrowsIs DEF Grows
<1>3. Due(b, m, T) = SumFunctionOnSet(w, T)
  BY DEF Due, SumFunction
<1>4. Due(b, m, {}) = 0
  BY SumOfNone DEF Due, SumFunction
<1>5. ASSUME NEW h \in T PROVE Due(b, m, T) = Pence(Grows(b, m, h)) + Due(b, m, T \ {h})
  <2> DEFINE v == [t \in T \ {h} |-> Pence(t.rate * (Within(m, t) - Within(b, t)))]
  <2>1. Due(b, m, T \ {h}) = SumFunctionOnSet(v, T \ {h})
    BY DEF Due, SumFunction
  <2>2. \A t \in T \ {h} : w[t] = v[t]
    OBVIOUS
  <2>3. IsFiniteSet(T \ {h})
    BY <1>1, FS_Subset
  <2>. HIDE DEF w, v
  <2>4. SumFunctionOnSet(w, T \ {h}) = SumFunctionOnSet(v, T \ {h})
    BY <2>2, <2>3, SumSame
  <2>5. SumFunctionOnSet(w, T) = w[h] + SumFunctionOnSet(w, T \ {h})
    BY <1>1, <1>2, SumWithout
  <2>. QED  BY <1>2, <1>3, <2>1, <2>4, <2>5
<1>. HIDE DEF w
<1>6. Due(b, m, T) \in Int
  BY <1>1, <1>2, <1>3, SumIsInt
<1>. QED  BY <1>4, <1>5, <1>6

\* An amount in pence is as close as that to one in parts of a penny.
Close(paid, owed, most) ==
  2 * (Whole * paid - owed) <= most /\ 2 * (owed - Whole * paid) <= most

\* What is close adds up to what is close.
LEMMA CloseSum ==
  ASSUME NEW p \in Int, NEW q \in Int, NEW x \in Int, NEW y \in Int,
         NEW k \in Int, NEW l \in Int, Close(p, x, k), Close(q, y, l)
  PROVE  Close(p + q, x + y, k + l)
<1>1. PICK u \in Nat : u = Whole
  BY FeeAssumption
<1>2. u * (p + q) = u * p + u * q /\ u * p \in Int /\ u * q \in Int
  OBVIOUS
<1>. QED  BY <1>1, <1>2 DEF Close

LEMMA CloseNone == Close(0, 0, 0)
  BY FeeAssumption DEF Close

\* What is due is what falls due by definition, up to the rounding.
LEMMA DueIsClose ==
  ASSUME NEW tiers, TierSet(tiers), Contiguous(tiers),
         NEW b \in Int, NEW m \in Int, b <= m
  PROVE  Close(Due(b, m, tiers), Owed(m, tiers) - Owed(b, tiers), Cardinality(tiers) * Whole)
<1> DEFINE F == {T \in SUBSET tiers :
                   Close(Due(b, m, T), Owed(m, T) - Owed(b, T), Cardinality(T) * Whole)}
<1>1. {} \in F
  <2>1. Due(b, m, {}) = 0 /\ Owed(m, {}) = 0 /\ Owed(b, {}) = 0 /\ Cardinality({}) = 0
    BY DueIs, OwedIs, FS_EmptySet
  <2>2. 0 * Whole = 0
    BY FeeAssumption
  <2>. QED  BY <2>1, <2>2, CloseNone
<1>2. ASSUME NEW T \in SUBSET tiers, T # {}, \A x \in T : T \ {x} \in F PROVE T \in F
  <2>1. PICK h \in T : TRUE
    BY <1>2
  <2>2. PICK S \in SUBSET tiers : S = T \ {h}
    OBVIOUS
  <2>3. TierSet(T) /\ TierSet(S)
    BY FS_Subset DEF TierSet
  <2>4. /\ Owed(m, T) = h.rate * Within(m, h) + Owed(m, S)
        /\ Owed(b, T) = h.rate * Within(b, h) + Owed(b, S)
        /\ Owed(m, S) \in Int /\ Owed(b, S) \in Int
    BY <2>2, <2>3, OwedWithout, OwedIs
  <2>5. PICK g \in Nat : /\ g = Grows(b, m, h)
                         /\ g = h.rate * Within(m, h) - h.rate * Within(b, h)
    BY GrowsIs
  <2>6. h.rate * Within(m, h) \in Int /\ h.rate * Within(b, h) \in Int
    BY WithinIs
  <2>7. Owed(m, T) - Owed(b, T) = g + (Owed(m, S) - Owed(b, S))
    BY <2>4, <2>5, <2>6
  <2>8. /\ Due(b, m, T) = Pence(g) + Due(b, m, S)
        /\ Due(b, m, S) \in Int
    <3>1. Due(b, m, T) = Pence(Grows(b, m, h)) + Due(b, m, T \ {h})
      BY DueIs
    <3>2. Due(b, m, S) \in Int
      BY DueIs
    <3>. QED  BY <2>2, <2>5, <3>1, <3>2
  <2>9. PICK n \in Nat : n = Cardinality(S) /\ Cardinality(T) = n + 1
    <3>1. IsFiniteSet(T) /\ IsFiniteSet(S) /\ Cardinality(T) \in Nat /\ Cardinality(S) \in Nat
      BY <2>3, FS_CardinalityType DEF TierSet
    <3>2. Cardinality(S) = Cardinality(T) - 1
      BY <2>2, <3>1, FS_RemoveElement
    <3>. QED  BY <3>1, <3>2
  <2>10. PICK u \in Nat : u = Whole
    BY FeeAssumption
  <2>11. (n + 1) * u = u + n * u /\ n * u \in Nat
    OBVIOUS
  <2>12. Close(Pence(g), g, u) /\ Pence(g) \in Int
    <3>1. /\ Pence(g) \in Nat
          /\ 2 * (Whole * Pence(g) - g) <= Whole /\ 2 * (g - Whole * Pence(g)) <= Whole
      BY PenceIs
    <3>2. Close(Pence(g), g, Whole)
      BY <3>1 DEF Close
    <3>. QED  BY <2>10, <3>1, <3>2
  <2>13. Close(Due(b, m, S), Owed(m, S) - Owed(b, S), n * u)
    BY <1>2, <2>2, <2>9, <2>10
  <2>14. PICK o \in Int : o = Owed(m, S) - Owed(b, S)
    BY <2>4
  <2>15. Close(Pence(g) + Due(b, m, S), g + o, u + n * u)
    BY <2>8, <2>11, <2>12, <2>13, <2>14, CloseSum
  <2>. QED  BY <2>7, <2>8, <2>9, <2>10, <2>11, <2>14, <2>15
<1>. HIDE DEF F
<1>3. \A T \in SUBSET tiers : T # {} /\ (\A x \in T : T \ {x} \in F) => T \in F
  BY <1>2
<1>4. tiers \in F
  BY <1>1, <1>3, AllSubsets DEF TierSet
<1>. QED  BY <1>4 DEF F

\* How far a revenue that goes from b to m has got in the brackets up to top.
Reach(b, m, top) == IF top <= b THEN b ELSE IF m < top THEN m ELSE top

\* A bracket takes what lies in it.
LEMMA PourTakesItsPart ==
  ASSUME NEW b \in Nat, NEW m \in Nat, b < m, NEW o \in Int,
         NEW t, t.floor \in Nat, t.ceil \in Nat, t.rate \in Nat, t.floor < t.ceil,
         NEW acc, acc = [left |-> m - Reach(b, m, t.floor),
                         cursor |-> Reach(b, m, t.floor), owed |-> o]
  PROVE  Pour(acc, t) =
           [left |-> m - Reach(b, m, t.ceil), cursor |-> Reach(b, m, t.ceil),
            owed |-> o + Pence(t.rate * (Within(m, t) - Within(b, t)))]
<1> DEFINE floor == t.floor
           ceil == t.ceil
           rate == t.rate
           from == Reach(b, m, floor)
           to == Reach(b, m, ceil)
           start == IF from > floor THEN from ELSE floor
           part == IF m - from < ceil - start THEN m - from ELSE ceil - start
           skips == m - from <= 0 \/ from >= ceil \/ part <= 0
<1>1. acc.left = m - from /\ acc.cursor = from /\ acc.owed = o
  OBVIOUS
<1>2. Pour(acc, t) = IF skips THEN acc
                     ELSE [left |-> acc.left - part, cursor |-> start + part,
                           owed |-> acc.owed + Pence(part * rate)]
  BY <1>1 DEF Pour
<1>3. from \in Int /\ to \in Int /\ start \in Int /\ part \in Int
  BY DEF Reach
<1>4. Within(m, t) \in Int /\ Within(b, t) \in Int
  BY DEF Within
<1>5. CASE skips
  <2>1. from = to /\ Within(m, t) = Within(b, t)
    BY <1>5 DEF Reach, Within
  <2>2. rate * (Within(m, t) - Within(b, t)) = 0
    BY <1>4, <2>1
  <2>3. o + Pence(rate * (Within(m, t) - Within(b, t))) = o
    BY <2>2, PenceIs
  <2>. QED  BY <1>2, <1>5, <2>1, <2>3
<1>6. CASE ~skips
  <2>1. start + part = to /\ (m - from) - part = m - to
    BY <1>6 DEF Reach
  <2>2. part = Within(m, t) - Within(b, t)
    BY <1>6 DEF Reach, Within
  <2>. HIDE DEF part, from, to, start, skips
  <2>3. part * rate = rate * (Within(m, t) - Within(b, t))
    <3>1. \A x \in Int : x * rate = rate * x
      OBVIOUS
    <3>. QED  BY <1>4, <2>2, <3>1
  <2>4. Pour(acc, t) = [left |-> acc.left - part, cursor |-> start + part,
                        owed |-> acc.owed + Pence(part * rate)]
    BY <1>2, <1>6
  <2>. QED  BY <1>1, <2>1, <2>3, <2>4 DEF from, to
<1>. QED  BY <1>5, <1>6

Top(T) == IF T = {} THEN 0 ELSE Highest(T).ceil

\* All brackets below one that is there are there too.
Closed(T, tiers) == \A t \in T : \A s \in tiers : s.floor < t.floor => s \in T

\* The brackets under the highest one end where it begins.
LEMMA HighestFollows ==
  ASSUME NEW tiers, TierSet(tiers), Contiguous(tiers),
         NEW T \in SUBSET tiers, T # {}, Closed(T, tiers), NEW h, h = Highest(T)
  PROVE  Closed(T \ {h}, tiers) /\ Top(T \ {h}) = h.floor
<1>1. h \in T /\ \A s \in T : s.floor <= h.floor
  BY HighestOfSome
<1>2. \A t \in tiers : t.floor \in Nat /\ t.ceil \in Nat /\ t.floor < t.ceil
  BY DEF TierSet, Contiguous
<1>3. ASSUME NEW t \in T \ {h}, NEW s \in tiers, s.floor < t.floor
      PROVE  s \in T \ {h}
  <2>1. s \in T
    BY <1>3 DEF Closed
  <2>2. t.floor <= h.floor
    BY <1>1
  <2>3. s.floor # h.floor
    BY <1>1, <1>2, <1>3, <2>2
  <2>. QED  BY <2>1, <2>3
<1>4. Closed(T \ {h}, tiers)
  BY <1>3 DEF Closed
<1>5. \A s \in tiers : s.ceil = h.floor => s \in T \ {h}
  <2>1. ASSUME NEW s \in tiers, s.ceil = h.floor PROVE s \in T \ {h}
    <3>1. s.floor < h.floor
      BY <1>2, <2>1
    <3>. QED  BY <1>1, <1>2, <3>1 DEF Closed
  <2>. QED  BY <2>1
<1>6. CASE T \ {h} = {}
  <2>1. ~ \E s \in tiers : s.ceil = h.floor
    BY <1>5, <1>6
  <2>2. h.floor = 0
    BY <1>1, <2>1 DEF Contiguous
  <2>. QED  BY <1>4, <1>6, <2>2 DEF Top
<1>7. CASE T \ {h} # {}
  <2>1. PICK k : k = Highest(T \ {h})
    OBVIOUS
  <2>2. k \in T \ {h} /\ \A s \in T \ {h} : s.floor <= k.floor
    BY <1>7, <2>1, HighestOfSome
  <2>3. k.ceil <= h.floor \/ h.ceil <= k.floor
    BY <1>1, <2>2 DEF Contiguous
  <2>4. k.floor <= h.floor /\ h.floor < h.ceil
    BY <1>1, <1>2, <2>2
  <2>5. /\ k.floor \in Nat /\ k.ceil \in Nat /\ k.floor < k.ceil
        /\ h.floor \in Nat /\ h.ceil \in Nat
    BY <1>1, <1>2, <2>2
  <2>6. k.ceil <= h.floor /\ h.floor # 0
    BY <2>3, <2>4, <2>5
  <2>7. PICK s \in tiers : s.ceil = h.floor
    BY <1>1, <2>6 DEF Contiguous
  <2>8. s \in T \ {h} /\ s.floor <= k.floor
    BY <1>5, <2>2, <2>7
  <2>9. s # k => s.ceil <= k.floor \/ k.ceil <= s.floor
    BY <2>2, <2>8 DEF Contiguous
  <2>10. s.floor \in Nat /\ s.ceil \in Nat
    BY <1>2
  <2>11. s = k
    BY <2>5, <2>6, <2>7, <2>8, <2>9, <2>10
  <2>. QED  BY <1>4, <1>7, <2>1, <2>7, <2>11 DEF Top
<1>. QED  BY <1>6, <1>7

\* What the engine pays for an amount that comes after a revenue is what the
\* amount makes due.
LEMMA WaterfallIsMarginal ==
  ASSUME NEW tiers, TierSet(tiers), Contiguous(tiers),
         NEW b \in Nat, NEW amount \in Int, amount > 0
  PROVE  Waterfall(amount, b, tiers) = Due(b, b + amount, tiers)
<1> DEFINE m == b + amount
           start == Start(amount, b)
           Poured(T) == [left |-> m - Reach(b, m, Top(T)), cursor |-> Reach(b, m, Top(T)),
                         owed |-> Due(b, m, T)]
<1>1. m \in Nat /\ b < m /\ b \in Int
  OBVIOUS
<1>2. PICK p : Pours(p, start, tiers) /\ Waterfall(amount, b, tiers) = p[tiers].owed
  BY WaterfallIs
<1> DEFINE F == {T \in SUBSET tiers : Closed(T, tiers) => p[T] = Poured(T)}
<1>3. {} \in F
  <2>1. Reach(b, m, Top({})) = b
    BY DEF Reach, Top
  <2>2. Due(b, m, {}) = 0
    BY <1>1, DueIs
  <2>3. p[{}] = start
    BY <1>2 DEF Pours
  <2>. QED  BY <2>1, <2>2, <2>3 DEF Start
<1>4. ASSUME NEW T \in SUBSET tiers, T # {}, \A x \in T : T \ {x} \in F PROVE T \in F
  <2> SUFFICES ASSUME Closed(T, tiers) PROVE p[T] = Poured(T)
    OBVIOUS
  <2>1. PICK h : h = Highest(T)
    OBVIOUS
  <2> DEFINE S == T \ {h}
  <2>2. h \in T /\ h \in tiers /\ S \in SUBSET tiers
    BY <1>4, <2>1, HighestOfSome
  <2>3. Closed(S, tiers) /\ Top(S) = h.floor
    BY <1>4, <2>1, HighestFollows
  <2>4. p[T] = Pour(p[S], h)
    BY <1>2, <1>4, <2>1 DEF Pours
  <2>5. p[S] = Poured(S)
    BY <1>4, <2>2, <2>3
  <2>6. /\ Due(b, m, T) = Pence(Grows(b, m, h)) + Due(b, m, S)
        /\ Due(b, m, S) \in Int /\ Pence(Grows(b, m, h)) \in Int
    BY <1>1, <2>2, DueIs, GrowsIs
  <2>7. h.floor \in Nat /\ h.ceil \in Nat /\ h.rate \in Nat /\ h.floor < h.ceil
    BY <1>1, <2>2 DEF TierSet, Contiguous
  <2>10. Top(T) = h.ceil
    BY <1>4, <2>1 DEF Top
  <2>11. PICK o \in Int : o = Due(b, m, S)
    BY <2>6
  <2>. HIDE DEF m, S
  <2>12. p[S] = [left |-> m - Reach(b, m, h.floor), cursor |-> Reach(b, m, h.floor),
                 owed |-> o]
    BY <2>3, <2>5, <2>11
  <2>13. Pour(p[S], h) =
           [left |-> m - Reach(b, m, h.ceil), cursor |-> Reach(b, m, h.ceil),
            owed |-> o + Pence(Grows(b, m, h))]
    BY <1>1, <2>7, <2>12, PourTakesItsPart DEF Grows
  <2>14. o + Pence(Grows(b, m, h)) = Due(b, m, T)
    BY <2>6, <2>11
  <2>. QED  BY <2>4, <2>10, <2>13, <2>14
<1>. HIDE DEF F
<1>5. \A T \in SUBSET tiers : T # {} /\ (\A x \in T : T \ {x} \in F) => T \in F
  BY <1>4
<1>6. tiers \in F
  BY <1>3, <1>5, AllSubsets DEF TierSet
<1>7. Closed(tiers, tiers)
  BY DEF Closed
<1>. QED  BY <1>2, <1>6, <1>7 DEF F

-----------------------------------------------------------------------------
(* Revenues, and nets of entries.                                          *)

LEMMA RevenueIs ==
  ASSUME NEW fees \in SUBSET Fees
  PROVE  IsFiniteSet(fees) /\ Revenue(fees) \in Int /\ Revenue({}) = 0
<1>1. IsFiniteSet(fees) /\ \A f \in fees : Amount[f] \in Int
  BY FeeAssumption, FS_Subset
<1>. QED  BY <1>1, SumIsInt, SumOfNone DEF Revenue

\* Revenues of different rows add up.
LEMMA RevenueOfBoth ==
  ASSUME NEW A \in SUBSET Fees, NEW B \in SUBSET Fees, A \cap B = {}
  PROVE  Revenue(A \cup B) = Revenue(A) + Revenue(B)
<1>1. \A f \in A \cup B : Amount[f] \in Int
  BY FeeAssumption
<1>. QED  BY <1>1, RevenueIs, SumOfBoth DEF Revenue

\* A row more adds its amount.
LEMMA RevenueWith ==
  ASSUME NEW A \in SUBSET Fees, NEW f \in Fees \ A
  PROVE  Revenue(A \cup {f}) = Revenue(A) + Amount[f]
<1> DEFINE B == A \cup {f}
<1>1. IsFiniteSet(B) /\ \A g \in B : Amount[g] \in Int
  BY FeeAssumption, FS_Subset
<1>2. f \in B /\ B \ {f} = A
  OBVIOUS
<1>. HIDE DEF B
<1>3. SumFunctionOnSet(Amount, B) = Amount[f] + SumFunctionOnSet(Amount, B \ {f})
  BY <1>1, <1>2, SumWithout
<1>4. Revenue(B) = Amount[f] + Revenue(A)
  BY <1>2, <1>3 DEF Revenue
<1>5. Revenue(A) \in Int /\ Amount[f] \in Int
  BY RevenueIs, FeeAssumption
<1>. QED  BY <1>4, <1>5 DEF B

LEMMA RevenueIsNat ==
  ASSUME NEW fees \in SUBSET Fees, \A f \in fees : Amount[f] >= 0
  PROVE  Revenue(fees) \in Nat
<1> DEFINE F == {A \in SUBSET fees : Revenue(A) \in Nat}
<1>1. {} \in F
  BY RevenueIs
<1>2. ASSUME NEW A \in SUBSET fees, A # {}, \A f \in A : A \ {f} \in F PROVE A \in F
  <2>1. PICK f \in A : TRUE
    BY <1>2
  <2>2. Revenue((A \ {f}) \cup {f}) = Revenue(A \ {f}) + Amount[f]
    BY RevenueWith
  <2>3. (A \ {f}) \cup {f} = A
    OBVIOUS
  <2>4. PICK r \in Nat : r = Revenue(A \ {f})
    BY <1>2
  <2>5. PICK a \in Nat : a = Amount[f]
    BY FeeAssumption
  <2>6. Revenue(A) = r + a
    BY <2>2, <2>3, <2>4, <2>5
  <2>. QED  BY <2>6
<1>. HIDE DEF F
<1>3. \A A \in SUBSET fees : A # {} /\ (\A f \in A : A \ {f} \in F) => A \in F
  BY <1>2
<1>4. fees \in F
  BY <1>1, <1>3, AllSubsets, RevenueIs
<1>. QED  BY <1>4 DEF F

Owing(entries) == IsFiniteSet(entries) /\ \A e \in entries : e.owed \in Int

LEMMA NetIs ==
  ASSUME NEW E, Owing(E)
  PROVE  Net(E) \in Int /\ Net({}) = 0
<1> DEFINE w == [e \in E |-> e.owed]
<1>1. Net(E) = SumFunctionOnSet(w, E)
  BY DEF Net, SumFunction
<1>2. \A e \in E : w[e] \in Int
  BY DEF Owing
<1>. HIDE DEF w
<1>3. Net(E) \in Int
  BY <1>1, <1>2, SumIsInt DEF Owing
<1>4. Net({}) = 0
  BY SumOfNone DEF Net, SumFunction
<1>. QED  BY <1>3, <1>4

\* Nets of different entries add up.
LEMMA NetOfBoth ==
  ASSUME NEW D, NEW E, Owing(D), Owing(E), D \cap E = {}
  PROVE  Owing(D \cup E) /\ Net(D \cup E) = Net(D) + Net(E)
<1> DEFINE w == [e \in D \cup E |-> e.owed]
           u == [e \in D |-> e.owed]
           v == [e \in E |-> e.owed]
<1>1. Owing(D \cup E)
  BY FS_Union DEF Owing
<1>2. /\ Net(D \cup E) = SumFunctionOnSet(w, D \cup E)
      /\ Net(D) = SumFunctionOnSet(u, D) /\ Net(E) = SumFunctionOnSet(v, E)
  BY DEF Net, SumFunction
<1>3. /\ \A e \in D \cup E : w[e] \in Int
      /\ \A e \in D : w[e] = u[e]
      /\ \A e \in E : w[e] = v[e]
  BY DEF Owing
<1>. HIDE DEF w, u, v
<1>4. SumFunctionOnSet(w, D) = SumFunctionOnSet(u, D)
  BY <1>3, SumSame DEF Owing
<1>5. SumFunctionOnSet(w, E) = SumFunctionOnSet(v, E)
  BY <1>3, SumSame DEF Owing
<1>6. SumFunctionOnSet(w, D \cup E) = SumFunctionOnSet(w, D) + SumFunctionOnSet(w, E)
  BY <1>3, SumOfBoth DEF Owing
<1>. QED  BY <1>1, <1>2, <1>4, <1>5, <1>6

LEMMA NetOfOne ==
  ASSUME NEW e, e.owed \in Int
  PROVE  Owing({e}) /\ Net({e}) = e.owed
<1> DEFINE w == [d \in {e} |-> d.owed]
<1>1. Owing({e})
  BY FS_Singleton DEF Owing
<1>2. Net({e}) = SumFunctionOnSet(w, {e})
  BY DEF Net, SumFunction
<1>3. w[e] = e.owed /\ {e} \ {e} = {} /\ \A x \in {e} : w[x] \in Int
  OBVIOUS
<1>. HIDE DEF w
<1>4. SumFunctionOnSet(w, {e}) = w[e] + SumFunctionOnSet(w, {e} \ {e})
  BY <1>1, <1>3, SumWithout DEF Owing
<1>5. SumFunctionOnSet(w, {e} \ {e}) = 0
  BY <1>3, SumOfNone
<1>6. w[e] + 0 = w[e]
  BY <1>3
<1>7. Net({e}) = w[e]
  BY <1>2, <1>4, <1>5, <1>6
<1>. QED  BY <1>1, <1>3, <1>7

\* An entry more adds what it owes.
LEMMA NetWithOne ==
  ASSUME NEW D, Owing(D), NEW e, e.owed \in Int, D \cap {e} = {}
  PROVE  Owing(D \cup {e}) /\ Net(D \cup {e}) = Net(D) + e.owed
<1>1. Owing({e}) /\ Net({e}) = e.owed
  BY NetOfOne
<1>2. Owing(D \cup {e}) /\ Net(D \cup {e}) = Net(D) + Net({e})
  BY <1>1, NetOfBoth
<1>. QED  BY <1>1, <1>2

LEMMA OwingSome ==
  ASSUME NEW E, Owing(E), NEW D \in SUBSET E
  PROVE  Owing(D)
BY FS_Subset DEF Owing

-----------------------------------------------------------------------------
(* The versions of the tiers, and the rows of a calculation.               *)

\* The tiers in force are finitely many brackets.
LEMMA TiersAreSets ==
  ASSUME NEW h \in Histories, NEW day, Active(h, day) # {}
  PROVE  TierSet(Tiers(h, day))
<1>1. (CHOOSE v \in Active(h, day) : TRUE) \in Active(h, day)
  OBVIOUS
<1>2. \A v \in h : TierSet(v.tiers)
  BY HistoryAssumption DEF TierSet
<1>. QED  BY <1>1, <1>2 DEF Tiers, Active

\* What a calculation of these rows in this order writes.
Calculated(E, ids, order, c) ==
  /\ \A f \in ids : order[f] \in 1..Cardinality(ids)
  /\ \A f, g \in ids : order[f] = order[g] => f = g
  /\ \A n \in 1..Cardinality(ids) : \E f \in ids : order[f] = n
  /\ \A f, g \in ids : order[f] < order[g] => Day[f] <= Day[g]
  /\ \A f \in ids : Base(ids, order, f) \in Int
  /\ \A e \in E :
       /\ e \in Entry
       /\ e.fee \in ids /\ e.calc = c /\ e.of = 0 /\ e.owed \in Nat
       /\ e.base = Base(ids, order, e.fee)
       /\ Active(history, Day[e.fee]) # {}
       /\ e.owed = Waterfall(Amount[e.fee], e.base, Tiers(history, Day[e.fee]))
  /\ \A d, e \in E : d.fee = e.fee => d = e
  /\ \A f \in ids : Active(history, Day[f]) # {} => \E e \in E : e.fee = f
  /\ IsFiniteSet(E)

\* The entries a calculation writes are the ones of its rows.
LEMMA RowsAre ==
  ASSUME sold \in SUBSET Fees, history \in Histories, NEW ids \in SUBSET sold,
         NEW order \in DayOrders(ids), NEW c \in 1..MaxCalcs,
         NEW E, E = Rows(ids, order, c)
  PROVE  Calculated(E, ids, order, c)
<1>1. order \in Bijection(ids, 1..Cardinality(ids))
  BY DEF DayOrders
<1>2. /\ \A f \in ids : order[f] \in 1..Cardinality(ids)
      /\ \A f, g \in ids : order[f] = order[g] => f = g
      /\ \A n \in 1..Cardinality(ids) : \E f \in ids : order[f] = n
  BY <1>1 DEF Bijection, Injection, Surjection, IsInjective
<1>3. \A f, g \in ids : order[f] < order[g] => Day[f] <= Day[g]
  BY DEF DayOrders
<1>4. ASSUME NEW f \in ids PROVE Base(ids, order, f) \in Int
  <2>1. {g \in ids : order[g] < order[f]} \in SUBSET Fees /\ sold \ ids \in SUBSET Fees
    OBVIOUS
  <2>2. Revenue({g \in ids : order[g] < order[f]}) \in Int /\ Revenue(sold \ ids) \in Int
    BY <2>1, RevenueIs
  <2>. QED  BY <2>2 DEF Base, Cumulative
<1> DEFINE entry(f) ==
      [fee |-> f, calc |-> c, of |-> 0, base |-> Base(ids, order, f),
       owed |-> Waterfall(Amount[f], Base(ids, order, f), Tiers(history, Day[f]))]
<1>5. E = {entry(f) : f \in {g \in ids : Active(history, Day[g]) # {}}}
  BY DEF Rows
<1>6. ASSUME NEW f \in ids, Active(history, Day[f]) # {}
      PROVE  Waterfall(Amount[f], Base(ids, order, f), Tiers(history, Day[f])) \in Nat
  BY <1>4, <1>6, TiersAreSets, WaterfallTyped, FeeAssumption
<1>7. ASSUME NEW e \in E
      PROVE  /\ e \in Entry
             /\ e.fee \in ids /\ e.calc = c /\ e.of = 0 /\ e.owed \in Nat
             /\ e.base = Base(ids, order, e.fee)
             /\ Active(history, Day[e.fee]) # {}
             /\ e.owed = Waterfall(Amount[e.fee], e.base, Tiers(history, Day[e.fee]))
             /\ e = entry(e.fee)
  <2>1. PICK f \in ids : Active(history, Day[f]) # {} /\ e = entry(f)
    BY <1>5
  <2>2. /\ e.fee = f /\ e.calc = c /\ e.of = 0 /\ e.base = Base(ids, order, f)
        /\ e.owed = Waterfall(Amount[f], Base(ids, order, f), Tiers(history, Day[f]))
    BY <2>1
  <2>3. e.owed \in Nat /\ e.base \in Int
    BY <1>4, <1>6, <2>1, <2>2
  <2>4. 0 \in 0..MaxCalcs /\ f \in Fees
    BY FeeAssumption
  <2>5. e = [fee |-> e.fee, calc |-> e.calc, of |-> e.of, base |-> e.base, owed |-> e.owed]
    BY <2>1, <2>2
  <2>6. e.owed \in Int
    BY <2>3
  <2>7. e \in Entry
    BY <2>2, <2>3, <2>4, <2>5, <2>6 DEF Entry
  <2>. QED  BY <2>1, <2>2, <2>3, <2>7
<1>8. \A d, e \in E : d.fee = e.fee => d = e
  <2>. HIDE DEF entry
  <2>. QED  BY <1>7
<1>9. ASSUME NEW f \in ids, Active(history, Day[f]) # {} PROVE \E e \in E : e.fee = f
  <2>1. entry(f).fee = f
    OBVIOUS
  <2>2. entry(f) \in E
    BY <1>5, <1>9
  <2>. HIDE DEF entry
  <2>. QED  BY <2>1, <2>2
<1>10. IsFiniteSet(E)
  <2> DEFINE w == [e \in E |-> e.fee]
  <2>. HIDE DEF entry
  <2>1. w \in [E -> ids]
    BY <1>7
  <2>2. w \in Injection(E, ids)
    BY <1>8, <2>1 DEF Injection, IsInjective
  <2>3. IsFiniteSet(ids)
    BY RevenueIs
  <2>. QED  BY <2>2, <2>3, FS_Injection
<1>. HIDE DEF entry
<1>. QED  BY <1>2, <1>3, <1>4, <1>7, <1>8, <1>9, <1>10 DEF Calculated

-----------------------------------------------------------------------------
(* What calculations and reversals add up to.                              *)

\* One version of the tiers applies to all rows, and nothing was refunded.
Uniform(fees, tiers) ==
  /\ TierSet(tiers) /\ Contiguous(tiers)
  /\ \A f \in fees :
       Amount[f] >= 0 /\ Active(history, Day[f]) # {} /\ Tiers(history, Day[f]) = tiers

\* For a row that is no refund the engine pays the difference it makes, up to
\* the rounding in the brackets.
LEMMA PaidIsClose ==
  ASSUME NEW tiers, TierSet(tiers), Contiguous(tiers), NEW b \in Nat, NEW amount \in Nat
  PROVE  Close(Waterfall(amount, b, tiers), Owed(b + amount, tiers) - Owed(b, tiers),
               Cardinality(tiers) * Whole)
<1>1. CASE amount = 0
  <2>1. Waterfall(amount, b, tiers) = 0
    BY <1>1, WaterfallTyped
  <2>2. b + amount = b /\ Owed(b, tiers) \in Int
    BY <1>1, OwedIs
  <2>3. PICK k \in Nat : k = Cardinality(tiers) * Whole
    BY FS_CardinalityType, FeeAssumption DEF TierSet
  <2>4. Close(0, 0, k)
    <3>1. Whole * 0 = 0
      BY FeeAssumption
    <3>. QED  BY <2>3, <3>1 DEF Close
  <2>. QED  BY <2>1, <2>2, <2>3, <2>4
<1>2. CASE amount # 0
  BY <1>2, WaterfallIsMarginal, DueIsClose
<1>. QED  BY <1>1, <1>2

\* However the rows of a calculation are ordered, their entries add up to what
\* they make the month owe, up to the rounding of each.
LEMMA RowsTelescope ==
  ASSUME sold \in SUBSET Fees, NEW ids \in SUBSET sold, NEW order, NEW c,
         NEW E, Calculated(E, ids, order, c), NEW tiers, Uniform(sold, tiers)
  PROVE  /\ Owing(E)
         /\ Close(Net(E), Owed(Revenue(sold), tiers) - Owed(Revenue(sold \ ids), tiers),
                  Cardinality(ids) * (Cardinality(tiers) * Whole))
<1> DEFINE b == Revenue(sold \ ids)
           last == Cardinality(ids)
           Up(n) == {f \in ids : order[f] <= n}
           Paid(n) == {e \in E : order[e.fee] <= n}
           Adds(n) == Close(Net(Paid(n)), Owed(b + Revenue(Up(n)), tiers) - Owed(b, tiers),
                             n * (Cardinality(tiers) * Whole))
           N == {n \in Nat : n <= last => Adds(n)}
<1>1. /\ \A f \in ids : order[f] \in 1..last
      /\ \A f, g \in ids : order[f] = order[g] => f = g
      /\ \A n \in 1..last : \E f \in ids : order[f] = n
  BY DEF Calculated
<1>2. \A e \in E : e.fee \in ids /\ e.owed \in Int
  BY DEF Calculated
<1>3. Owing(E) /\ \A n : Owing(Paid(n))
  <2>1. Owing(E)
    BY <1>2 DEF Owing, Calculated
  <2>. QED  BY <2>1, OwingSome
<1>4. TierSet(tiers) /\ Contiguous(tiers)
  BY DEF Uniform
<1>5. \A fees \in SUBSET sold : Revenue(fees) \in Nat
  BY RevenueIsNat DEF Uniform
<1>6. b \in Nat /\ last \in Nat /\ \A n : Revenue(Up(n)) \in Nat
  BY <1>5, RevenueIs, FS_CardinalityType
<1>7. 0 \in N
  <2>1. Up(0) = {} /\ Paid(0) = {}
    BY <1>1, <1>2
  <2>2. Net({}) = 0 /\ Revenue({}) = 0
    BY <1>3, NetIs, RevenueIs
  <2>3. Owed(b + 0, tiers) - Owed(b, tiers) = 0
    <3>1. b + 0 = b /\ Owed(b, tiers) \in Int
      BY <1>4, <1>6, OwedIs
    <3>. QED  BY <3>1
  <2>4. PICK k \in Nat : k = Cardinality(tiers) * Whole
    BY <1>4, FS_CardinalityType, FeeAssumption DEF TierSet
  <2>5. 0 * k = 0
    OBVIOUS
  <2>. HIDE DEF b, Up, Paid, last
  <2>. QED  BY <2>1, <2>2, <2>3, <2>4, <2>5, CloseNone
<1>8. ASSUME NEW n \in Nat, n \in N, n + 1 <= last
      PROVE  Adds(n + 1)
  <2>1. PICK f \in ids : order[f] = n + 1
    BY <1>1, <1>6, <1>8
  <2>2. f \notin Up(n) /\ f \in Fees /\ Up(n) \in SUBSET Fees
    BY <2>1
  <2>3. \A g \in ids : order[g] <= n + 1 <=> order[g] <= n \/ g = f
    BY <1>1, <2>1
  <2>4. Up(n + 1) = Up(n) \cup {f}
    BY <2>3
  <2>5. Revenue(Up(n + 1)) = Revenue(Up(n)) + Amount[f]
    BY <2>2, <2>4, RevenueWith
  <2>6. /\ Active(history, Day[f]) # {} /\ Tiers(history, Day[f]) = tiers
        /\ Amount[f] \in Nat
    BY FeeAssumption DEF Uniform
  <2>7. PICK e \in E : e.fee = f
    BY <2>6 DEF Calculated
  <2>8. \A d \in E : d.fee = f => d = e
    BY <2>7 DEF Calculated
  <2>9. Paid(n + 1) = Paid(n) \cup {e}
    BY <1>2, <2>3, <2>7, <2>8
  <2>10. Paid(n) \cap {e} = {}
    BY <2>1, <2>7
  <2>11. Base(ids, order, f) = b + Revenue(Up(n))
    <3>1. {g \in ids : order[g] < order[f]} = Up(n)
      BY <1>1, <2>1
    <3>. QED  BY <3>1 DEF Base, Cumulative
  <2>12. e.owed = Waterfall(Amount[f], b + Revenue(Up(n)), tiers)
    <3>1. /\ e.owed = Waterfall(Amount[e.fee], e.base, Tiers(history, Day[e.fee]))
          /\ e.base = Base(ids, order, e.fee)
      BY DEF Calculated
    <3>. QED  BY <2>6, <2>7, <2>11, <3>1
  <2>13. PICK before \in Nat : before = b + Revenue(Up(n))
    <3>1. Revenue(Up(n)) \in Nat
      BY <1>6
    <3>. HIDE DEF b, Up
    <3>. QED  BY <1>6, <3>1
  <2>14. Close(e.owed, Owed(before + Amount[f], tiers) - Owed(before, tiers),
               Cardinality(tiers) * Whole)
    BY <1>4, <2>6, <2>12, <2>13, PaidIsClose
  <2>15. before + Amount[f] = b + Revenue(Up(n + 1))
    BY <1>6, <2>5, <2>6, <2>13
  <2>16. Net(Paid(n + 1)) = Net(Paid(n)) + e.owed
    <3>1. Owing(Paid(n)) /\ e.owed \in Int
      BY <1>2, <1>3
    <3>. HIDE DEF Paid
    <3>. QED  BY <2>9, <2>10, <3>1, NetWithOne
  <2>17. Close(Net(Paid(n)), Owed(before, tiers) - Owed(b, tiers),
               n * (Cardinality(tiers) * Whole))
    <3>1. n <= last => Adds(n)
      BY <1>8
    <3>2. n <= last
      BY <1>6, <1>8
    <3>. HIDE DEF b, Up, Paid, last
    <3>. QED  BY <2>13, <3>1, <3>2
  <2>18. /\ Owed(before, tiers) \in Int /\ Owed(b, tiers) \in Int
         /\ Owed(b + Revenue(Up(n + 1)), tiers) \in Int
    <3>1. Revenue(Up(n + 1)) \in Nat
      BY <1>6
    <3>. HIDE DEF b, Up
    <3>2. b + Revenue(Up(n + 1)) \in Int /\ before \in Int /\ b \in Int
      BY <1>6, <3>1
    <3>. QED  BY <1>4, <3>2, OwedIs
  <2>19. PICK k \in Nat : k = Cardinality(tiers) * Whole
    BY <1>4, FS_CardinalityType, FeeAssumption DEF TierSet
  <2>20. PICK x \in Int : x = Owed(before, tiers) - Owed(b, tiers)
    BY <2>18
  <2>21. PICK after \in Int : after = Owed(b + Revenue(Up(n + 1)), tiers)
    BY <2>18
  <2>22. PICK y \in Int : y = after - Owed(before, tiers)
    BY <2>18
  <2>23. PICK paid \in Int : paid = Net(Paid(n))
    BY <1>3, NetIs
  <2>24. e.owed \in Int
    BY <1>2
  <2>25. (n + 1) * k = n * k + k /\ n * k \in Int
    OBVIOUS
  <2>. HIDE DEF b, Up, Paid, last
  <2>26. x + y = after - Owed(b, tiers)
    BY <2>18, <2>20, <2>22
  <2>27. Close(paid, x, n * k)
    BY <2>17, <2>19, <2>20, <2>23
  <2>29. Close(e.owed, y, k)
    <3>1. Owed(before + Amount[f], tiers) = after
      BY <2>15, <2>21
    <3>2. Owed(before + Amount[f], tiers) - Owed(before, tiers) = y
      BY <2>22, <3>1
    <3>. QED  BY <2>14, <2>19, <3>2
  <2>28. PICK owed \in Int : owed = e.owed
    BY <2>24
  <2>30. PICK most \in Int : most = n * k
    BY <2>25
  <2>31. Close(paid + owed, x + y, most + k)
    <3>1. Close(paid, x, most) /\ Close(owed, y, k)
      BY <2>27, <2>28, <2>29, <2>30
    <3>2. k \in Int
      BY <2>19
    <3>. QED  BY <3>1, <3>2, CloseSum
  <2>32. Adds(n + 1)
    <3>1. Close(Net(Paid(n + 1)), Owed(b + Revenue(Up(n + 1)), tiers) - Owed(b, tiers),
                (n + 1) * k)
      BY <2>16, <2>21, <2>23, <2>25, <2>26, <2>28, <2>30, <2>31
    <3>. QED  BY <2>19, <3>1
  <2>. QED  BY <2>32
<1>9. last \in N
  <2>. HIDE DEF b, last, Up, Paid, Adds
  <2>1. ASSUME NEW n \in Nat, n \in N PROVE n + 1 \in N
    <3>1. CASE n + 1 <= last
      <4>1. Adds(n + 1)
        BY <1>8, <2>1, <3>1
      <4>. QED  BY <4>1
    <3>. QED  BY <3>1
  <2>. HIDE DEF N
  <2>. QED  BY <1>6, <1>7, <2>1, AllNumbers
<1>10. Paid(last) = E /\ Up(last) = ids
  BY <1>1, <1>2, <1>6
<1>11. Revenue(sold) = b + Revenue(ids)
  <2>1. sold = (sold \ ids) \cup ids /\ (sold \ ids) \cap ids = {}
    OBVIOUS
  <2>2. sold \ ids \in SUBSET Fees /\ ids \in SUBSET Fees
    OBVIOUS
  <2>. QED  BY <2>1, <2>2, RevenueOfBoth
<1>12. Adds(last)
  <2>. HIDE DEF b, last, Up, Paid, Adds
  <2>. QED  BY <1>6, <1>9
<1>. QED  BY <1>3, <1>10, <1>11, <1>12

\* What was fair before some rows, with what is close to what they add, is fair.
LEMMA FairSum ==
  ASSUME sold \in SUBSET Fees, NEW ids \in SUBSET sold, NEW tiers, TierSet(tiers),
         NEW D, Owing(D), NEW E, Owing(E), Fair(Net(D), sold \ ids, tiers),
         Close(Net(E), Owed(Revenue(sold), tiers) - Owed(Revenue(sold \ ids), tiers),
               Cardinality(ids) * (Cardinality(tiers) * Whole))
  PROVE  Fair(Net(D) + Net(E), sold, tiers)
<1>1. PICK k \in Nat : k = Cardinality(tiers) * Whole
  BY FS_CardinalityType, FeeAssumption DEF TierSet
<1>2. PICK x \in Int, y \in Int : /\ x = Owed(Revenue(sold), tiers)
                                 /\ y = Owed(Revenue(sold \ ids), tiers)
  <2>1. sold \in SUBSET Fees /\ sold \ ids \in SUBSET Fees
    OBVIOUS
  <2>. QED  BY <2>1, RevenueIs, OwedIs
<1>3. PICK n \in Nat, m \in Nat : /\ n = Cardinality(sold \ ids) /\ m = Cardinality(ids)
                                 /\ Cardinality(sold) = n + m
  <2>1. IsFiniteSet(sold) /\ IsFiniteSet(ids) /\ IsFiniteSet(sold \ ids)
    BY RevenueIs
  <2>2. Cardinality(sold) = Cardinality(sold \ ids) + Cardinality(ids)
    <3>1. (sold \ ids) \cap ids = {} /\ (sold \ ids) \cup ids = sold
      OBVIOUS
    <3>2. /\ Cardinality((sold \ ids) \cup ids) = Cardinality(sold \ ids) + Cardinality(ids)
                                                  - Cardinality((sold \ ids) \cap ids)
          /\ Cardinality({}) = 0
      BY <2>1, FS_Union, FS_EmptySet
    <3>3. Cardinality(sold \ ids) \in Nat /\ Cardinality(ids) \in Nat
      BY <2>1, FS_CardinalityType
    <3>4. PICK n \in Nat, m \in Nat : n = Cardinality(sold \ ids) /\ m = Cardinality(ids)
      BY <3>3
    <3>5. Cardinality(sold) = n + m - Cardinality({})
      BY <3>1, <3>2, <3>4
    <3>. QED  BY <3>2, <3>4, <3>5
  <2>. QED  BY <2>1, <2>2, FS_CardinalityType
<1>4. PICK p \in Int, q \in Int : p = Net(D) /\ q = Net(E)
  BY NetIs
<1>5. PICK u \in Nat : u = Whole
  BY FeeAssumption
<1>6. n * k \in Int /\ m * k \in Int /\ (n + m) * k = n * k + m * k
  OBVIOUS
<1>7. Close(p, y, n * k)
  <2>1. 2 * (u * p - y) <= n * k /\ 2 * (-(u * p - y)) <= n * k
    BY <1>1, <1>2, <1>3, <1>4, <1>5 DEF Fair
  <2>2. -(u * p - y) = y - u * p
    OBVIOUS
  <2>. QED  BY <1>5, <2>1, <2>2 DEF Close
<1>8. Close(q, x - y, m * k)
  BY <1>1, <1>2, <1>3, <1>4
<1>9. Close(p + q, y + (x - y), n * k + m * k)
  <2>1. x - y \in Int
    OBVIOUS
  <2>. QED  BY <1>6, <1>7, <1>8, <2>1, CloseSum
<1>10. y + (x - y) = x
  OBVIOUS
<1>11. Close(p + q, x, (n + m) * k)
  BY <1>6, <1>9, <1>10
<1>12. 2 * (u * (p + q) - x) <= (n + m) * k /\ 2 * (-(u * (p + q) - x)) <= (n + m) * k
  <2>1. -(u * (p + q) - x) = x - u * (p + q)
    OBVIOUS
  <2>. QED  BY <1>5, <1>11, <2>1 DEF Close
<1>. QED  BY <1>1, <1>2, <1>3, <1>4, <1>5, <1>12 DEF Fair

\* The reversals of some entries.
Undone(D, c) == {Reversed(e, c) : e \in D}

LEMMA ReversedIs ==
  ASSUME NEW e \in Entry, e.of = 0, e.owed >= 0, NEW c \in 1..MaxCalcs, e.calc < c
  PROVE  LET r == Reversed(e, c) IN
         /\ r \in Entry /\ r.calc = c /\ r.of = e.calc /\ r.of < r.calc
         /\ r.of # 0 /\ r.owed <= 0 /\ r.owed = 0 - e.owed
         /\ r.fee = e.fee /\ r.base = e.base
<1>1. e.calc \in 1..MaxCalcs /\ e.owed \in Int /\ MaxCalcs \in Nat
  BY FeeAssumption DEF Entry
<1>2. e.calc \in 0..MaxCalcs /\ -e.owed \in Int /\ -e.owed = 0 - e.owed /\ -e.owed <= 0
  BY <1>1
<1>3. Reversed(e, c) \in Entry
  BY <1>2 DEF Reversed, Entry
<1>4. LET r == Reversed(e, c) IN
        r.calc = c /\ r.of = e.calc /\ r.owed = -e.owed /\ r.fee = e.fee /\ r.base = e.base
  BY DEF Reversed, Entry
<1>. QED  BY <1>1, <1>2, <1>3, <1>4

\* The reversals of some entries cancel them.
LEMMA UndoneIs ==
  ASSUME NEW D \in SUBSET Entry, IsFiniteSet(D), NEW c \in 1..MaxCalcs,
         \A e \in D : e.of = 0 /\ e.owed >= 0 /\ e.calc < c
  PROVE  /\ Owing(D) /\ Owing(Undone(D, c)) /\ Net(Undone(D, c)) = 0 - Net(D)
         /\ \A r \in Undone(D, c) :
              r \in Entry /\ r.calc = c /\ r.of # 0 /\ r.of < r.calc /\ r.owed <= 0
<1>1. \A e \in D : Reversed(e, c) \in Entry /\ Reversed(e, c).owed = 0 - e.owed
  BY ReversedIs
<1>2. ASSUME NEW d \in D, NEW e \in D, Reversed(d, c) = Reversed(e, c) PROVE d = e
  <2>1. /\ Reversed(d, c).of = d.calc /\ Reversed(d, c).owed = 0 - d.owed
        /\ Reversed(d, c).fee = d.fee /\ Reversed(d, c).base = d.base
        /\ Reversed(e, c).of = e.calc /\ Reversed(e, c).owed = 0 - e.owed
        /\ Reversed(e, c).fee = e.fee /\ Reversed(e, c).base = e.base
    BY ReversedIs
  <2>2. /\ d.calc = e.calc /\ d.fee = e.fee /\ d.base = e.base
        /\ 0 - d.owed = 0 - e.owed
    BY <1>2, <2>1
  <2>3. d.owed \in Int /\ e.owed \in Int
    BY DEF Entry
  <2>4. d.owed = e.owed /\ d.of = e.of
    BY <2>2, <2>3
  <2>. QED  BY <2>2, <2>4 DEF Entry
<1> DEFINE F == {A \in SUBSET D :
                   Owing(Undone(A, c)) /\ Net(Undone(A, c)) = 0 - Net(A)}
<1>3. Owing(D)
  BY DEF Owing, Entry
<1>4. {} \in F
  <2>1. Undone({}, c) = {}
    BY DEF Undone
  <2>2. Owing({}) /\ Net({}) = 0
    BY <1>3, NetIs, OwingSome
  <2>. QED  BY <2>1, <2>2
<1>5. ASSUME NEW A \in SUBSET D, A # {}, \A x \in A : A \ {x} \in F PROVE A \in F
  <2>1. PICK x \in A : TRUE
    BY <1>5
  <2> DEFINE B == A \ {x}
             r == Reversed(x, c)
  <2>2. A = B \cup {x} /\ B \cap {x} = {}
    OBVIOUS
  <2>3. Undone(A, c) = Undone(B, c) \cup {r}
    BY <2>2 DEF Undone
  <2>4. Undone(B, c) \cap {r} = {}
    BY <1>2 DEF Undone
  <2>5. r.owed = 0 - x.owed /\ x.owed \in Int /\ r.owed \in Int
    BY <1>1 DEF Entry
  <2>6. B \in F
    BY <1>5
  <2>7. Owing(B)
    BY <1>3, OwingSome
  <2>. HIDE DEF B, r
  <2>8. Net(A) = Net(B) + x.owed
    BY <2>2, <2>5, <2>7, NetWithOne
  <2>9. Owing(Undone(A, c)) /\ Net(Undone(A, c)) = Net(Undone(B, c)) + r.owed
    BY <2>3, <2>4, <2>5, <2>6, NetWithOne DEF F
  <2>10. Net(Undone(B, c)) = 0 - Net(B) /\ Net(B) \in Int
    BY <2>6, <2>7, NetIs
  <2>11. Net(Undone(A, c)) = 0 - Net(A)
    BY <2>5, <2>8, <2>9, <2>10
  <2>. QED  BY <2>9, <2>11
<1>. HIDE DEF F
<1>6. \A A \in SUBSET D : A # {} /\ (\A x \in A : A \ {x} \in F) => A \in F
  BY <1>5
<1>7. D \in F
  BY <1>4, <1>6, AllSubsets
<1>8. \A r \in Undone(D, c) :
        r \in Entry /\ r.calc = c /\ r.of # 0 /\ r.of < r.calc /\ r.owed <= 0
  <2>1. ASSUME NEW r \in Undone(D, c)
        PROVE  r \in Entry /\ r.calc = c /\ r.of # 0 /\ r.of < r.calc /\ r.owed <= 0
    <3>1. PICK e \in D : r = Reversed(e, c)
      BY DEF Undone
    <3>. QED  BY <3>1, ReversedIs
  <2>. QED  BY <2>1
<1>. QED  BY <1>3, <1>7, <1>8 DEF F

-----------------------------------------------------------------------------
(* The inductive invariant of the ledger.                                  *)

AnyOrder == UNION {[fees -> Nat] : fees \in SUBSET Fees}

Job ==
  [phase : {"idle", "list", "calculate", "insert", "commit"}, recalc : BOOLEAN,
   calc : 0..MaxCalcs, ids : SUBSET Fees,
   order : AnyOrder, todo : SUBSET Entry, undo : SUBSET Entry, alone : BOOLEAN]

LedgerTypes ==
  /\ sold \in SUBSET Fees /\ history \in Histories
  /\ ledger \in SUBSET Entry /\ IsFiniteSet(ledger)
  /\ job \in [Jobs -> Job]
  /\ calcs \in 0..MaxCalcs /\ edits \in 0..MaxEdits /\ orderly \in BOOLEAN

Busy(j) == job[j].phase # "idle"

EntryFits(e) == IF e.of = 0 THEN e.owed >= 0 ELSE e.owed <= 0 /\ e.of < e.calc

LedgerFits == \A e \in ledger : EntryFits(e) /\ e.calc <= calcs

\* A calculation writes entries of its own, each once, and its reversals at the end.
JobFits(j) ==
  /\ job[j].ids \subseteq sold
  /\ job[j].calc <= calcs /\ (Busy(j) => job[j].calc # 0)
  /\ IsFiniteSet(job[j].todo) /\ (job[j].phase # "insert" => job[j].todo = {})
  /\ job[j].todo \cap ledger = {}
  /\ \A e \in job[j].todo : e.calc = job[j].calc /\ e.of = 0 /\ e.owed >= 0
  /\ IsFiniteSet(job[j].undo) /\ (~Busy(j) => job[j].undo = {})
  /\ \A e \in job[j].undo : e.calc = job[j].calc /\ e.of # 0 /\ EntryFits(e)
  /\ job[j].phase \in {"list", "commit"} => job[j].recalc
  /\ job[j].phase \in {"list", "calculate"} => \A e \in ledger : e.calc # job[j].calc

\* Calculations under way have different numbers, and one that is alone is.
Apart ==
  \A j, k \in Jobs : j # k /\ Busy(j) /\ Busy(k) =>
    job[j].calc # job[k].calc /\ ~job[j].alone

\* The entries to insert are what the engine pays by the tiers of now.
TodoPays(j) ==
  job[j].alone => \A e \in job[j].todo :
    /\ Active(history, Day[e.fee]) # {}
    /\ e.owed = Waterfall(Amount[e.fee], e.base, Tiers(history, Day[e.fee]))

Replayed(E) ==
  /\ {e.fee : e \in E} = {f \in sold : Active(history, Day[f]) # {}}
  /\ \A e \in E : e.base \in Preceding(e.fee) /\ \A d \in E : d.fee = e.fee => d = e

\* A recalculation that is alone has calculated the month of now, and reverses
\* what was there before it.
Repairs(j) ==
  job[j].recalc /\ job[j].alone /\ Busy(j) =>
    /\ job[j].phase = "calculate" => job[j].ids = sold
    /\ job[j].phase \in {"insert", "commit"} =>
         Replayed(Entries(job[j].calc) \cup job[j].todo)
    /\ job[j].undo = Undone({e \in ledger : e.of = 0 /\ e.calc # job[j].calc}, job[j].calc)

\* What is paid of a month to which one version of the tiers applies.
Balanced(tiers) ==
  /\ Quiet => Fair(Net(ledger), sold, tiers)
  /\ \A j \in Jobs :
       /\ job[j].phase = "calculate" => Fair(Net(ledger), sold \ job[j].ids, tiers)
       /\ job[j].phase = "insert" => Fair(Net(ledger) + Net(job[j].todo), sold, tiers)

\* Imports that came one after the other.
Splits ==
  orderly =>
    /\ \A e \in ledger : e.of = 0
    /\ \A j \in Jobs : Busy(j) => ~job[j].recalc /\ job[j].alone
    /\ \A v \in history : Uniform(sold, v.tiers) => Balanced(v.tiers)

LedgerInv ==
  /\ LedgerTypes /\ LedgerFits /\ Apart /\ Splits
  /\ \A j \in Jobs : JobFits(j) /\ TodoPays(j) /\ Repairs(j)

LEMMA JobIs ==
  ASSUME LedgerTypes, NEW j \in Jobs
  PROVE  /\ job[j] \in Job
         /\ job[j].phase \in {"idle", "list", "calculate", "insert", "commit"}
         /\ job[j].recalc \in BOOLEAN /\ job[j].calc \in 0..MaxCalcs
         /\ job[j].ids \in SUBSET Fees /\ job[j].alone \in BOOLEAN
         /\ job[j].todo \in SUBSET Entry /\ job[j].undo \in SUBSET Entry
BY DEF LedgerTypes, Job

\* What a calculation does as long as it is under way.
Acts(j, new) ==
  /\ Busy(j) /\ new \subseteq job[j].todo \cup job[j].undo
  /\ ledger' = ledger \cup new
  /\ job' \in [Jobs -> Job] /\ \A k \in Jobs \ {j} : job'[k] = job[k]
  /\ Busy(j)' => /\ job'[j].calc = job[j].calc /\ job'[j].recalc = job[j].recalc
                 /\ job'[j].alone = job[j].alone /\ job'[j].undo = job[j].undo
  /\ sold' = sold /\ history' = history /\ calcs' = calcs /\ edits' = edits
  /\ orderly' \in BOOLEAN

\* The others keep what they were.
Same(k) ==
  /\ job'[k].phase = job[k].phase /\ job'[k].recalc = job[k].recalc
  /\ job'[k].calc = job[k].calc /\ job'[k].ids = job[k].ids
  /\ job'[k].todo = job[k].todo /\ job'[k].undo = job[k].undo

\* A calculation stays fit while others write entries of their own.
LEMMA OtherFits ==
  ASSUME LedgerTypes, NEW k \in Jobs, JobFits(k), Same(k), sold \subseteq sold',
         calcs' \in Nat, calcs <= calcs', NEW new, ledger' = ledger \cup new,
         Busy(k) => \A e \in new : e.calc # job[k].calc
  PROVE  JobFits(k)'
<1>1. Busy(k)' <=> Busy(k)
  BY DEF Same, Busy
<1>2. job[k].calc \in Nat /\ calcs \in Nat
  BY JobIs, FeeAssumption DEF LedgerTypes
<1>3. job[k].todo \cap ledger' = {}
  <2>1. CASE Busy(k)
    BY <2>1 DEF JobFits
  <2>2. CASE ~Busy(k)
    BY <2>2 DEF JobFits, Busy
  <2>. QED  BY <2>1, <2>2
<1>4. /\ job[k].ids \subseteq sold' /\ job[k].calc <= calcs'
      /\ Busy(k) => job[k].calc # 0
  BY <1>2 DEF JobFits
<1>5. job[k].phase \in {"list", "calculate"} => \A e \in ledger' : e.calc # job[k].calc
  BY DEF JobFits, Busy
<1>6. \A e : EntryFits(e)' <=> EntryFits(e)
  BY DEF EntryFits
<1>. QED  BY <1>1, <1>3, <1>4, <1>5, <1>6 DEF JobFits, Same

\* What a calculation writes carries its number.
LEMMA NewEntries ==
  ASSUME LedgerInv, NEW j \in Jobs, NEW new, Acts(j, new)
  PROVE  \A e \in new : e \in Entry /\ e.calc = job[j].calc /\ EntryFits(e)
<1>1. JobFits(j) /\ LedgerTypes
  BY DEF LedgerInv
<1>2. \A e \in job[j].todo \cup job[j].undo :
        e \in Entry /\ e.calc = job[j].calc /\ EntryFits(e)
  BY <1>1, JobIs DEF JobFits, EntryFits
<1>. QED  BY <1>2 DEF Acts

\* What one calculation writes leaves the others as they were.
LEMMA ActsKeep ==
  ASSUME LedgerInv, NEW j \in Jobs, NEW new, Acts(j, new)
  PROVE  /\ LedgerTypes' /\ LedgerFits' /\ Apart'
         /\ \A k \in Jobs \ {j} : JobFits(k)' /\ TodoPays(k)' /\ Repairs(k)'
<1>1. JobFits(j) /\ LedgerTypes /\ LedgerFits /\ Apart
  BY DEF LedgerInv
<1>2. \A e \in new : e \in Entry /\ e.calc = job[j].calc /\ EntryFits(e)
  BY NewEntries
<1>3. IsFiniteSet(new)
  <2>1. IsFiniteSet(job[j].todo \cup job[j].undo)
    BY <1>1, FS_Union DEF JobFits
  <2>. QED  BY <2>1, FS_Subset DEF Acts
<1>4. LedgerTypes'
  BY <1>1, <1>2, <1>3, FS_Union DEF LedgerTypes, Acts
<1>5. LedgerFits'
  <2>1. \A e : EntryFits(e)' <=> EntryFits(e)
    BY DEF EntryFits
  <2>2. job[j].calc <= calcs
    BY <1>1 DEF JobFits
  <2>. QED  BY <1>1, <1>2, <2>1, <2>2 DEF LedgerFits, Acts
<1>6. \A k \in Jobs : Busy(k)' => Busy(k) /\ job'[k].calc = job[k].calc
                                  /\ job'[k].alone = job[k].alone
  BY DEF Acts, Busy
<1>7. Apart'
  BY <1>1, <1>6 DEF Apart
<1>8. ASSUME NEW k \in Jobs \ {j} PROVE JobFits(k)' /\ TodoPays(k)' /\ Repairs(k)'
  <2>1. job'[k] = job[k] /\ sold' = sold /\ history' = history /\ calcs' = calcs
        /\ ledger' = ledger \cup new /\ Busy(j)
    BY DEF Acts
  <2>2. Busy(k) => job[k].calc # job[j].calc /\ ~job[k].alone
    BY <1>1, <2>1 DEF Apart
  <2>3. JobFits(k) /\ TodoPays(k)
    BY DEF LedgerInv
  <2>4. calcs \in Nat
    BY <1>1, FeeAssumption DEF LedgerTypes
  <2>5. JobFits(k)'
    <3>1. Same(k) /\ sold \subseteq sold' /\ calcs' \in Nat /\ calcs <= calcs'
      BY <2>1, <2>4 DEF Same
    <3>2. Busy(k) => \A e \in new : e.calc # job[k].calc
      BY <1>2, <2>2
    <3>. QED  BY <1>1, <2>1, <2>3, <3>1, <3>2, OtherFits
  <2>6. TodoPays(k)'
    BY <2>1, <2>3 DEF TodoPays
  <2>7. Repairs(k)'
    BY <2>1, <2>2 DEF Repairs, Busy
  <2>. QED  BY <2>5, <2>6, <2>7
<1>. QED  BY <1>4, <1>5, <1>7, <1>8

LEMMA NoJobIs == NoJob \in Job
<1>1. [f \in {} |-> 0] \in [{} -> Nat] /\ {} \in SUBSET Fees
  OBVIOUS
<1>2. PICK none \in AnyOrder : none = [f \in {} |-> 0]
  BY <1>1 DEF AnyOrder
<1>3. 0 \in 0..MaxCalcs
  BY FeeAssumption
<1>. QED  BY <1>2, <1>3 DEF NoJob, Job

\* A calculation that is over leaves nothing to do.
LEMMA OverFits ==
  ASSUME LedgerInv, NEW j \in Jobs, job'[j] = NoJob, calcs' = calcs
  PROVE  JobFits(j)' /\ TodoPays(j)' /\ Repairs(j)' /\ ~Busy(j)'
<1>1. calcs \in Nat
  BY FeeAssumption DEF LedgerInv, LedgerTypes
<1>2. JobFits(j)' /\ ~Busy(j)'
  BY <1>1, FS_EmptySet DEF JobFits, NoJob, Busy
<1>3. TodoPays(j)' /\ Repairs(j)'
  BY DEF TodoPays, Repairs, NoJob
<1>. QED  BY <1>2, <1>3

LEMMA JobFailStep ==
  ASSUME LedgerInv, NEW j \in Jobs, Fail(j)
  PROVE  LedgerInv'
<1>1. LedgerTypes
  BY DEF LedgerInv
<1>2. job'[j] = NoJob /\ orderly' = FALSE /\ calcs' = calcs
  BY <1>1 DEF Fail, LedgerTypes
<1>3. ~Busy(j)'
  BY <1>2, OverFits
<1>4. Acts(j, {})
  BY <1>1, <1>2, <1>3, NoJobIs DEF Fail, LedgerTypes, Acts, Busy
<1>5. Splits'
  BY <1>2 DEF Splits
<1>. QED  BY <1>2, <1>4, <1>5, OverFits, ActsKeep DEF LedgerInv

\* The last chunk is in.
LEMMA InsertedStep ==
  ASSUME LedgerInv, NEW j \in Jobs, Inserted(j)
  PROVE  LedgerInv'
<1>1. LedgerTypes /\ JobFits(j) /\ TodoPays(j) /\ Repairs(j) /\ Apart /\ Splits
  BY DEF LedgerInv
<1>2. /\ job[j].phase = "insert" /\ job[j].todo = {}
      /\ UNCHANGED <<sold, history, ledger, calcs, edits, orderly>>
  BY DEF Inserted
<1>3. CASE job[j].recalc
  <2>1. job' = [job EXCEPT ![j].phase = "commit"]
    BY <1>3 DEF Inserted
  <2>2. /\ job' \in [Jobs -> Job] /\ \A k \in Jobs \ {j} : job'[k] = job[k]
    BY <1>1, <2>1 DEF LedgerTypes, Job
  <2>3. /\ job'[j].phase = "commit" /\ job'[j].recalc = job[j].recalc
        /\ job'[j].calc = job[j].calc /\ job'[j].ids = job[j].ids
        /\ job'[j].todo = job[j].todo /\ job'[j].undo = job[j].undo
        /\ job'[j].alone = job[j].alone
    BY <1>1, <2>1 DEF LedgerTypes, Job
  <2>4. Acts(j, {})
    BY <1>1, <1>2, <2>2, <2>3 DEF Acts, Busy, LedgerTypes
  <2>5. JobFits(j)'
    BY <1>1, <1>2, <1>3, <2>3 DEF JobFits, Busy, EntryFits
  <2>6. TodoPays(j)'
    BY <1>2, <2>3 DEF TodoPays
  <2>7. Repairs(j)'
    <3>1. Entries(job[j].calc)' = Entries(job[j].calc)
      BY <1>2, <2>3 DEF Entries
    <3>2. \A E : Replayed(E)' <=> Replayed(E)
      BY <1>2 DEF Replayed, Preceding
    <3>. QED  BY <1>1, <1>2, <2>3, <3>1, <3>2 DEF Repairs, Busy
  <2>8. Splits'
    BY <1>1, <1>2, <1>3 DEF Splits, Busy
  <2>. QED  BY <2>4, <2>5, <2>6, <2>7, <2>8, ActsKeep DEF LedgerInv
<1>4. CASE ~job[j].recalc
  <2>1. job' = [job EXCEPT ![j] = NoJob]
    BY <1>4 DEF Inserted
  <2>2. job'[j] = NoJob /\ \A k \in Jobs \ {j} : job'[k] = job[k]
    BY <1>1, <2>1 DEF LedgerTypes
  <2>3. ~Busy(j)'
    BY <1>2, <2>2, OverFits
  <2>4. Acts(j, {})
    BY <1>1, <1>2, <2>1, <2>2, <2>3, NoJobIs DEF Acts, Busy, LedgerTypes
  <2>5. Splits'
    <3> SUFFICES ASSUME orderly PROVE Splits'
      BY <1>2 DEF Splits
    <3>1. job[j].alone /\ \A k \in Jobs \ {j} : ~Busy(k)
      BY <1>1, <1>2 DEF Splits, Apart, Busy
    <3>2. \A k \in Jobs : ~Busy(k)'
      BY <2>2, <2>3, <3>1 DEF Busy
    <3>3. ASSUME NEW v \in history, Uniform(sold, v.tiers)
          PROVE  Fair(Net(ledger), sold, v.tiers)
      <4>1. Fair(Net(ledger) + Net({}), sold, v.tiers)
        BY <1>1, <1>2, <3>3 DEF Splits, Balanced
      <4>2. Owing(ledger)
        BY <1>1 DEF LedgerTypes, Owing, Entry
      <4>3. Net(ledger) + Net({}) = Net(ledger)
        BY <4>2, NetIs
      <4>. QED  BY <4>1, <4>3
    <3>4. \A v \in history : Uniform(sold, v.tiers)' <=> Uniform(sold, v.tiers)
      BY <1>2 DEF Uniform
    <3>5. \A v \in history' : Uniform(sold, v.tiers)' => Balanced(v.tiers)'
      BY <1>2, <3>2, <3>3, <3>4 DEF Balanced, Busy
    <3>. QED  BY <1>1, <1>2, <3>2, <3>5 DEF Splits
  <2>. QED  BY <1>2, <2>2, <2>4, <2>5, OverFits, ActsKeep DEF LedgerInv
<1>. QED  BY <1>3, <1>4

\* The rows of the month are those sold.
LEMMA ListStep ==
  ASSUME LedgerInv, NEW j \in Jobs, ListMonth(j)
  PROVE  LedgerInv'
<1>1. LedgerTypes /\ JobFits(j) /\ TodoPays(j) /\ Repairs(j) /\ Apart /\ Splits
  BY DEF LedgerInv
<1>2. /\ job[j].phase = "list"
      /\ UNCHANGED <<sold, history, ledger, calcs, edits, orderly>>
  BY DEF ListMonth
<1>3. /\ job' \in [Jobs -> Job] /\ \A k \in Jobs \ {j} : job'[k] = job[k]
      /\ job'[j].phase = IF sold = {} THEN "commit" ELSE "calculate"
      /\ job'[j].recalc = job[j].recalc /\ job'[j].alone = job[j].alone
      /\ job'[j].calc = job[j].calc /\ job'[j].ids = sold
      /\ job'[j].todo = job[j].todo /\ job'[j].undo = job[j].undo
  BY <1>1 DEF ListMonth, MonthRecords, LedgerTypes, Job
<1>4. Acts(j, {})
  BY <1>1, <1>2, <1>3 DEF Acts, Busy, LedgerTypes
<1>5. JobFits(j)'
  BY <1>1, <1>2, <1>3 DEF JobFits, Busy, EntryFits
<1>6. TodoPays(j)'
  BY <1>1, <1>2, <1>3 DEF TodoPays
<1>7. Repairs(j)'
  <2>1. sold = {} => Replayed(Entries(job[j].calc) \cup job[j].todo)
    <3>1. Entries(job[j].calc) = {} /\ job[j].todo = {}
      BY <1>1, <1>2 DEF JobFits, Entries
    <3>. QED  BY <3>1 DEF Replayed
  <2>2. Entries(job[j].calc)' = Entries(job[j].calc)
    BY <1>2, <1>3 DEF Entries
  <2>3. \A E : Replayed(E)' <=> Replayed(E)
    BY <1>2 DEF Replayed, Preceding
  <2>. QED  BY <1>1, <1>2, <1>3, <2>1, <2>2, <2>3 DEF Repairs, Busy
<1>8. Splits'
  BY <1>1, <1>2 DEF Splits, Busy, JobFits
<1>. QED  BY <1>4, <1>5, <1>6, <1>7, <1>8, ActsKeep DEF LedgerInv

\* The reversals of a recalculation come into the ledger.
LEMMA ReversalsStep ==
  ASSUME LedgerInv, NEW j \in Jobs, Commit(j)
  PROVE  LedgerInv'
<1>1. LedgerTypes /\ JobFits(j) /\ Splits
  BY DEF LedgerInv
<1>2. /\ job[j].phase = "commit" /\ job[j].recalc
      /\ ledger' = ledger \cup job[j].undo
      /\ UNCHANGED <<sold, history, calcs, edits, orderly>>
  BY <1>1 DEF Commit, JobFits
<1>3. job'[j] = NoJob /\ \A k \in Jobs \ {j} : job'[k] = job[k]
  BY <1>1 DEF Commit, LedgerTypes
<1>4. ~Busy(j)'
  BY <1>2, <1>3, OverFits
<1>5. Acts(j, job[j].undo)
  BY <1>1, <1>2, <1>3, <1>4, NoJobIs DEF Commit, Acts, Busy, LedgerTypes
<1>6. Splits'
  BY <1>1, <1>2 DEF Splits, Busy
<1>. QED  BY <1>2, <1>3, <1>5, <1>6, OverFits, ActsKeep DEF LedgerInv

LEMMA ChunkStep ==
  ASSUME LedgerInv, NEW j \in Jobs, InsertEntries(j)
  PROVE  LedgerInv'
<1>1. LedgerTypes /\ LedgerFits /\ JobFits(j) /\ TodoPays(j) /\ Repairs(j) /\ Apart /\ Splits
  BY DEF LedgerInv
<1>2. PICK new : new = NextEntries(j)
  OBVIOUS
<1>3. new \subseteq job[j].todo
  BY <1>2 DEF NextEntries
<1>4. /\ job[j].phase = "insert" /\ ledger' = ledger \cup new
      /\ UNCHANGED <<sold, history, calcs, edits, orderly>>
  BY <1>2 DEF InsertEntries
<1>5. /\ job' \in [Jobs -> Job] /\ \A k \in Jobs \ {j} : job'[k] = job[k]
      /\ job'[j].phase = "insert" /\ job'[j].ids = job[j].ids
      /\ job'[j].recalc = job[j].recalc /\ job'[j].alone = job[j].alone
      /\ job'[j].calc = job[j].calc
      /\ job'[j].todo = job[j].todo \ new /\ job'[j].undo = job[j].undo
  BY <1>1, <1>2, <1>4 DEF InsertEntries, LedgerTypes, Job
<1>6. Acts(j, new)
  BY <1>1, <1>3, <1>4, <1>5 DEF Acts, Busy, LedgerTypes
<1>7. JobFits(j)'
  <2>1. IsFiniteSet(job'[j].todo) /\ job'[j].todo \cap ledger' = {}
    BY <1>1, <1>4, <1>5, FS_Subset DEF JobFits
  <2>2. \A e \in job'[j].todo : e \in job[j].todo
    BY <1>5
  <2>. QED  BY <1>1, <1>4, <1>5, <2>1, <2>2 DEF JobFits, Busy, EntryFits
<1>8. TodoPays(j)'
  BY <1>1, <1>4, <1>5 DEF TodoPays
<1>9. \A e \in new : e.calc = job[j].calc /\ e.of = 0
  BY <1>1, <1>3 DEF JobFits
<1>10. Repairs(j)'
  <2>1. Entries(job[j].calc)' \cup job'[j].todo = Entries(job[j].calc) \cup job[j].todo
    BY <1>3, <1>4, <1>5, <1>9 DEF Entries
  <2>2. \A E : Replayed(E)' <=> Replayed(E)
    BY <1>4 DEF Replayed, Preceding
  <2>3. {e \in ledger : e.of = 0 /\ e.calc # job[j].calc}' =
          {e \in ledger : e.of = 0 /\ e.calc # job[j].calc}
    BY <1>4, <1>5, <1>9
  <2>4. Undone({e \in ledger : e.of = 0 /\ e.calc # job[j].calc}, job[j].calc)' =
          Undone({e \in ledger : e.of = 0 /\ e.calc # job[j].calc}, job[j].calc)
    BY <1>5, <2>3
  <2>5. job[j].recalc /\ job[j].alone /\ Busy(j) =>
          /\ Replayed(Entries(job[j].calc) \cup job[j].todo)
          /\ job[j].undo =
               Undone({e \in ledger : e.of = 0 /\ e.calc # job[j].calc}, job[j].calc)
    BY <1>1, <1>4 DEF Repairs
  <2>6. Busy(j) /\ Busy(j)'
    BY <1>4, <1>5 DEF Busy
  <2>7. Replayed(Entries(job[j].calc) \cup job[j].todo)' <=>
          Replayed(Entries(job[j].calc) \cup job[j].todo)
    BY <1>5, <2>1, <2>2
  <2>. QED  BY <1>5, <2>4, <2>5, <2>6, <2>7 DEF Repairs
<1>11. Splits'
  <2> SUFFICES ASSUME orderly PROVE Splits'
    BY <1>4 DEF Splits
  <2>1. job[j].alone /\ \A k \in Jobs \ {j} : ~Busy(k)
    BY <1>1, <1>4 DEF Splits, Apart, Busy
  <2>2. ~Quiet' /\ \A k \in Jobs \ {j} : ~Busy(k)'
    BY <1>5, <2>1 DEF Busy, Quiet
  <2>3. Owing(ledger) /\ Owing(job[j].todo) /\ Owing(new) /\ Owing(job[j].todo \ new)
    <3>1. Owing(ledger) /\ Owing(job[j].todo)
      BY <1>1, JobIs DEF LedgerTypes, JobFits, Owing, Entry
    <3>. QED  BY <1>3, <3>1, OwingSome
  <2>4. ledger \cap new = {} /\ new \cap (job[j].todo \ new) = {}
        /\ new \cup (job[j].todo \ new) = job[j].todo
    BY <1>1, <1>3 DEF JobFits
  <2>5. Net(ledger \cup new) = Net(ledger) + Net(new)
    BY <2>3, <2>4, NetOfBoth
  <2>6. Net(job[j].todo) = Net(new) + Net(job[j].todo \ new)
    BY <2>3, <2>4, NetOfBoth
  <2>7. Net(ledger) \in Int /\ Net(new) \in Int /\ Net(job[j].todo \ new) \in Int
    BY <2>3, NetIs
  <2>8. Net(ledger') + Net(job'[j].todo) = Net(ledger) + Net(job[j].todo)
    BY <1>4, <1>5, <2>5, <2>6, <2>7
  <2>9. ASSUME NEW v \in history, Uniform(sold, v.tiers)
        PROVE  Fair(Net(ledger') + Net(job'[j].todo), sold, v.tiers)
    BY <1>1, <1>4, <2>8, <2>9 DEF Splits, Balanced
  <2>10. \A v \in history : Uniform(sold, v.tiers)' <=> Uniform(sold, v.tiers)
    BY <1>4 DEF Uniform
  <2>11. ASSUME NEW v \in history', Uniform(sold, v.tiers)' PROVE Balanced(v.tiers)'
    <3>1. Fair(Net(ledger') + Net(job'[j].todo), sold, v.tiers)
      BY <1>4, <2>9, <2>10, <2>11
    <3>2. \A k \in Jobs : k # j => job'[k].phase = "idle"
      BY <2>2 DEF Busy
    <3>3. (Net(job[j].todo))' = Net(job'[j].todo) /\ Net(ledger)' = Net(ledger')
      BY DEF Net
    <3>4. (Fair(Net(ledger) + Net(job[j].todo), sold, v.tiers))'
      BY <1>4, <3>1, <3>3 DEF Fair, Owed, Revenue
    <3>. QED  BY <1>5, <2>2, <3>1, <3>2, <3>3, <3>4 DEF Balanced
  <2>12. \A e \in ledger' : e.of = 0
    BY <1>1, <1>4, <1>9 DEF Splits
  <2>13. \A k \in Jobs : Busy(k)' => ~job'[k].recalc /\ job'[k].alone
    BY <1>1, <1>4, <1>5, <2>2 DEF Splits, Busy
  <2>. QED  BY <2>11, <2>12, <2>13 DEF Splits
<1>. QED  BY <1>6, <1>7, <1>8, <1>10, <1>11, ActsKeep DEF LedgerInv

\* The rows of the whole month, calculated in some order of their days.
LEMMA MonthIsReplayed ==
  ASSUME sold \in SUBSET Fees, NEW order, NEW c, NEW E, Calculated(E, sold, order, c)
  PROVE  Replayed(E)
<1>1. {e.fee : e \in E} = {f \in sold : Active(history, Day[f]) # {}}
  <2>1. \A e \in E : e.fee \in sold /\ Active(history, Day[e.fee]) # {}
    BY DEF Calculated
  <2>2. \A f \in sold : Active(history, Day[f]) # {} => \E e \in E : e.fee = f
    BY DEF Calculated
  <2>. QED  BY <2>1, <2>2
<1>2. ASSUME NEW e \in E PROVE e.base \in Preceding(e.fee)
  <2>1. PICK f \in sold : f = e.fee
    BY DEF Calculated
  <2> DEFINE same == {g \in sold : Day[g] = Day[f] /\ order[g] < order[f]}
             earlier == {g \in sold : Day[g] < Day[f]}
  <2>2. \A g \in sold : order[g] \in Nat /\ Day[g] \in Nat
    BY FeeAssumption DEF Calculated
  <2>3. \A g \in sold : order[g] < order[f] => Day[g] <= Day[f]
    BY DEF Calculated
  <2>4. \A g \in sold : Day[g] < Day[f] => order[g] < order[f]
    <3>1. ASSUME NEW g \in sold, Day[g] < Day[f] PROVE order[g] < order[f]
      <4>1. ~(order[f] < order[g])
        BY <2>2, <3>1 DEF Calculated
      <4>2. order[f] # order[g]
        BY <2>2, <3>1 DEF Calculated
      <4>. QED  BY <2>2, <4>1, <4>2
    <3>. QED  BY <3>1
  <2>5. {g \in sold : order[g] < order[f]} = earlier \cup same
    BY <2>2, <2>3, <2>4
  <2>6. same \in SUBSET {g \in sold \ {f} : Day[g] = Day[f]}
    BY <2>2
  <2>7. earlier \cup same \in SUBSET Fees
    OBVIOUS
  <2>8. e.base = Revenue(earlier \cup same)
    <3>1. e.base = Base(sold, order, f)
      BY <2>1 DEF Calculated
    <3>2. sold \ sold = {} /\ Revenue({}) = 0 /\ Revenue(earlier \cup same) \in Int
      BY <2>7, RevenueIs
    <3>3. Base(sold, order, f) = 0 + Revenue(earlier \cup same)
      BY <2>5, <3>2 DEF Base, Cumulative
    <3>. HIDE DEF earlier, same
    <3>. QED  BY <3>1, <3>2, <3>3
  <2>. QED  BY <2>1, <2>6, <2>8 DEF Preceding
<1>3. \A d, e \in E : d.fee = e.fee => d = e
  BY DEF Calculated
<1>. QED  BY <1>1, <1>2, <1>3 DEF Replayed

LEMMA CalculateStep ==
  ASSUME LedgerInv, NEW j \in Jobs, Calculate(j)
  PROVE  LedgerInv'
<1>1. LedgerTypes /\ LedgerFits /\ JobFits(j) /\ Repairs(j) /\ Apart /\ Splits
  BY DEF LedgerInv
<1>2. PICK order \in DayOrders(job[j].ids) :
        job' = [job EXCEPT ![j].phase = "insert", ![j].order = order,
                  ![j].todo = Rows(job[j].ids, order, job[j].calc)]
  BY DEF Calculate
<1>3. PICK E : E = Rows(job[j].ids, order, job[j].calc)
  OBVIOUS
<1>4. PICK c \in 1..MaxCalcs : c = job[j].calc
  BY <1>1, JobIs, FeeAssumption DEF Calculate, JobFits, Busy
<1>5. PICK ids \in SUBSET sold : ids = job[j].ids
  BY <1>1 DEF JobFits
<1>6. Calculated(E, ids, order, c)
  BY <1>1, <1>3, <1>4, <1>5, RowsAre DEF LedgerTypes
<1>7. /\ job[j].phase = "calculate"
      /\ UNCHANGED <<sold, history, ledger, calcs, edits, orderly>>
  BY DEF Calculate
<1>8. order \in AnyOrder
  <2>1. order \in [ids -> 1..Cardinality(ids)]
    BY <1>5 DEF DayOrders, Bijection, Injection
  <2>2. order \in [ids -> Nat]
    BY <2>1
  <2>3. ids \in SUBSET Fees
    BY <1>1 DEF LedgerTypes
  <2>. QED  BY <2>2, <2>3 DEF AnyOrder
<1>9. E \in SUBSET Entry
  BY <1>6 DEF Calculated
<1>10. /\ job' \in [Jobs -> Job] /\ \A k \in Jobs \ {j} : job'[k] = job[k]
       /\ job'[j].phase = "insert" /\ job'[j].ids = job[j].ids
       /\ job'[j].recalc = job[j].recalc /\ job'[j].alone = job[j].alone
       /\ job'[j].calc = job[j].calc
       /\ job'[j].todo = E /\ job'[j].undo = job[j].undo
  <2>. PICK J : J = [job[j] EXCEPT !.phase = "insert", !.order = order, !.todo = E]
    OBVIOUS
  <2>1. job' = [job EXCEPT ![j] = J]
    BY <1>2, <1>3
  <2>2. job \in [Jobs -> Job] /\ job[j] \in Job
    BY <1>1 DEF LedgerTypes
  <2>3. J \in Job
    BY <1>8, <1>9, <2>2 DEF Job
  <2>4. /\ J.phase = "insert" /\ J.ids = job[j].ids /\ J.recalc = job[j].recalc
        /\ J.alone = job[j].alone /\ J.calc = job[j].calc
        /\ J.todo = E /\ J.undo = job[j].undo
    BY <2>2 DEF Job
  <2>. QED  BY <2>1, <2>2, <2>3, <2>4
<1>11. Acts(j, {})
  BY <1>1, <1>7, <1>10 DEF Acts, Busy, LedgerTypes
<1>12. \A e \in E : e.calc = c /\ e.of = 0 /\ e.owed \in Nat
  BY <1>6 DEF Calculated
<1>13. \A e \in ledger : e.calc # c
  BY <1>1, <1>4, <1>7 DEF JobFits
<1>14. JobFits(j)'
  <2>1. IsFiniteSet(E) /\ E \cap ledger = {}
    BY <1>6, <1>12, <1>13 DEF Calculated
  <2>. QED  BY <1>1, <1>4, <1>7, <1>10, <1>12, <2>1 DEF JobFits, Busy, EntryFits
<1>15. TodoPays(j)'
  BY <1>6, <1>7, <1>10 DEF TodoPays, Calculated
<1>16. Repairs(j)'
  <2>1. job[j].recalc /\ job[j].alone => ids = sold
    BY <1>1, <1>5, <1>7 DEF Repairs, Busy
  <2>2. Entries(c) = {}
    BY <1>13 DEF Entries
  <2>3. job[j].recalc /\ job[j].alone => Replayed(Entries(c) \cup E)
    BY <1>1, <1>6, <2>1, <2>2, MonthIsReplayed DEF LedgerTypes
  <2>4. (Entries(job[j].calc) \cup job[j].todo)' = Entries(c) \cup E
    BY <1>4, <1>7, <1>10 DEF Entries
  <2>5. \A D : Replayed(D)' <=> Replayed(D)
    BY <1>7 DEF Replayed, Preceding
  <2>6. Undone({e \in ledger : e.of = 0 /\ e.calc # job[j].calc}, job[j].calc)' =
          Undone({e \in ledger : e.of = 0 /\ e.calc # job[j].calc}, job[j].calc)
    BY <1>7, <1>10
  <2>7. job[j].recalc /\ job[j].alone =>
          job[j].undo = Undone({e \in ledger : e.of = 0 /\ e.calc # job[j].calc}, job[j].calc)
    BY <1>1, <1>7 DEF Repairs, Busy
  <2>. QED  BY <1>10, <2>3, <2>4, <2>5, <2>6, <2>7 DEF Repairs
<1>17. Splits'
  <2> SUFFICES ASSUME orderly PROVE Splits'
    BY <1>7 DEF Splits
  <2>1. job[j].alone /\ \A k \in Jobs \ {j} : ~Busy(k)
    BY <1>1, <1>7 DEF Splits, Apart, Busy
  <2>2. ~Quiet' /\ \A k \in Jobs \ {j} : ~Busy(k)'
    BY <1>10, <2>1 DEF Busy, Quiet
  <2>3. Owing(ledger)
    BY <1>1 DEF LedgerTypes, Owing, Entry
  <2>4. ASSUME NEW v \in history, Uniform(sold, v.tiers)
        PROVE  Fair(Net(ledger) + Net(E), sold, v.tiers)
    <3>1. Fair(Net(ledger), sold \ ids, v.tiers)
      BY <1>1, <1>5, <1>7, <2>4 DEF Splits, Balanced
    <3>2. /\ Owing(E)
          /\ Close(Net(E), Owed(Revenue(sold), v.tiers) - Owed(Revenue(sold \ ids), v.tiers),
                   Cardinality(ids) * (Cardinality(v.tiers) * Whole))
      BY <1>1, <1>6, <2>4, RowsTelescope DEF LedgerTypes
    <3>3. sold \in SUBSET Fees
      BY <1>1 DEF LedgerTypes
    <3>. QED  BY <2>3, <2>4, <3>1, <3>2, <3>3, FairSum DEF Uniform
  <2>5. \A v \in history : Uniform(sold, v.tiers)' <=> Uniform(sold, v.tiers)
    BY <1>7 DEF Uniform
  <2>6. ASSUME NEW v \in history', Uniform(sold, v.tiers)' PROVE Balanced(v.tiers)'
    <3>1. Fair(Net(ledger') + Net(job'[j].todo), sold, v.tiers)
      BY <1>7, <1>10, <2>4, <2>5, <2>6
    <3>2. \A k \in Jobs : k # j => job'[k].phase = "idle"
      BY <2>2 DEF Busy
    <3>3. (Net(job[j].todo))' = Net(job'[j].todo) /\ Net(ledger)' = Net(ledger')
      BY DEF Net
    <3>4. (Fair(Net(ledger) + Net(job[j].todo), sold, v.tiers))'
      BY <1>7, <3>1, <3>3 DEF Fair, Owed, Revenue
    <3>. QED  BY <1>10, <2>2, <3>1, <3>2, <3>3, <3>4 DEF Balanced
  <2>7. \A k \in Jobs : Busy(k)' => ~job'[k].recalc /\ job'[k].alone
    BY <1>1, <1>7, <1>10, <2>2 DEF Splits, Busy
  <2>. QED  BY <1>1, <1>7, <2>6, <2>7 DEF Splits
<1>. QED  BY <1>11, <1>14, <1>15, <1>16, <1>17, ActsKeep DEF LedgerInv

\* What begins is the newest, and with it nothing that is under way is alone.
Started(j, start) ==
  /\ ~Busy(j) /\ calcs' = calcs + 1 /\ calcs' \in 1..MaxCalcs
  /\ job' \in [Jobs -> Job]
  /\ job'[j].phase = start.phase /\ job'[j].recalc = start.recalc
  /\ job'[j].ids = start.ids /\ job'[j].todo = start.todo /\ job'[j].undo = start.undo
  /\ job'[j].calc = calcs + 1 /\ (job'[j].alone <=> Quiet)
  /\ \A k \in Jobs \ {j} : Same(k) /\ (job'[k].alone <=> job[k].alone /\ ~Busy(k))

\* What a calculation starts with, and what it makes of the others.
LEMMA StartsSo ==
  ASSUME LedgerTypes, NEW j \in Jobs, NEW start \in Job, Begin(j, start)
  PROVE  Started(j, start)
<1>1. calcs \in Nat /\ calcs < MaxCalcs /\ calcs' = calcs + 1 /\ MaxCalcs \in Nat
  BY FeeAssumption DEF LedgerTypes, Begin
<1>2. calcs + 1 \in 1..MaxCalcs /\ calcs + 1 \in 0..MaxCalcs
  BY <1>1
<1>3. PICK quiet \in BOOLEAN : quiet <=> Quiet
  OBVIOUS
<1> DEFINE mine == [start EXCEPT !.calc = calcs + 1, !.alone = quiet]
           other(k) == [job[k] EXCEPT !.alone = job[k].alone /\ ~Busy(k)]
<1>4. job' = [k \in Jobs |-> IF k = j THEN mine ELSE other(k)]
  <2>1. quiet = Quiet
    BY <1>3
  <2>. QED  BY <2>1 DEF Begin, Busy
<1>5. /\ mine \in Job /\ mine.phase = start.phase /\ mine.recalc = start.recalc
      /\ mine.ids = start.ids /\ mine.todo = start.todo /\ mine.undo = start.undo
      /\ mine.calc = calcs + 1 /\ mine.alone = quiet
  BY <1>2 DEF Job
<1>6. ASSUME NEW k \in Jobs
      PROVE  /\ other(k) \in Job /\ other(k).phase = job[k].phase
             /\ other(k).recalc = job[k].recalc /\ other(k).calc = job[k].calc
             /\ other(k).ids = job[k].ids /\ other(k).todo = job[k].todo
             /\ other(k).undo = job[k].undo
             /\ (other(k).alone <=> job[k].alone /\ ~Busy(k))
  <2>1. job[k] \in Job
    BY JobIs
  <2>2. PICK b \in BOOLEAN : b <=> (job[k].alone /\ ~Busy(k))
    OBVIOUS
  <2>3. other(k) = [job[k] EXCEPT !.alone = b]
    BY <2>2
  <2>. HIDE DEF other
  <2>. QED  BY <2>1, <2>2, <2>3 DEF Job
<1>. HIDE DEF mine, other
<1>7. job' \in [Jobs -> Job] /\ job'[j] = mine /\ \A k \in Jobs \ {j} : job'[k] = other(k)
  BY <1>4, <1>5, <1>6
<1>8. ~Busy(j)
  BY DEF Begin, Busy
<1>. QED  BY <1>1, <1>2, <1>3, <1>5, <1>6, <1>7, <1>8 DEF Started, Same

\* The rest of the ledger when a calculation begins.
LEMMA BeginKeeps ==
  ASSUME LedgerInv, NEW j \in Jobs, NEW start, Started(j, start), start.phase # "idle",
         sold \subseteq sold', sold' \in SUBSET Fees, history' = history,
         ledger' = ledger, edits' = edits, orderly' \in BOOLEAN
  PROVE  /\ LedgerTypes' /\ LedgerFits' /\ Apart'
         /\ \A k \in Jobs \ {j} : JobFits(k)' /\ TodoPays(k)' /\ Repairs(k)'
         /\ \A e \in ledger : e.calc < calcs + 1
<1>1. LedgerTypes /\ LedgerFits
  BY DEF LedgerInv
<1>2. calcs \in Nat /\ calcs' = calcs + 1 /\ calcs' \in 0..MaxCalcs
  BY <1>1, FeeAssumption DEF LedgerTypes, Started
<1>3. LedgerTypes'
  BY <1>1, <1>2 DEF LedgerTypes, Started
<1>4. \A e \in ledger : e.calc \in Nat /\ e.calc <= calcs /\ EntryFits(e)
  BY <1>1 DEF LedgerFits, LedgerTypes, Entry
<1>5. LedgerFits' /\ \A e \in ledger : e.calc < calcs + 1
  BY <1>2, <1>4 DEF LedgerFits, EntryFits
<1>6. \A k \in Jobs : JobFits(k) /\ TodoPays(k)
  BY DEF LedgerInv
<1>7. \A k \in Jobs \ {j} : Same(k) /\ (job'[k].alone <=> job[k].alone /\ ~Busy(k))
  BY DEF Started
<1>8. ASSUME NEW k \in Jobs \ {j} PROVE JobFits(k)' /\ TodoPays(k)' /\ Repairs(k)'
  <2>1. JobFits(k)'
    <3>1. ledger' = ledger \cup {} /\ \A e \in {} : e.calc # job[k].calc
      OBVIOUS
    <3>2. calcs' \in Nat /\ calcs <= calcs'
      BY <1>2
    <3>. QED  BY <1>1, <1>6, <1>7, <3>1, <3>2, OtherFits
  <2>2. Busy(k)' <=> Busy(k)
    BY <1>7 DEF Same, Busy
  <2>3. ~Busy(k) => job[k].todo = {}
    BY <1>6 DEF JobFits, Busy
  <2>4. TodoPays(k)'
    BY <1>7, <2>3 DEF TodoPays, Same
  <2>5. Repairs(k)'
    BY <1>7, <2>2 DEF Repairs
  <2>. QED  BY <2>1, <2>4, <2>5
<1>9. Apart'
  <2>1. ASSUME NEW k \in Jobs, NEW l \in Jobs, k # l, Busy(k)', Busy(l)'
        PROVE  job'[k].calc # job'[l].calc /\ ~job'[k].alone
    <3>1. \A m \in Jobs \ {j} : Busy(m)' => /\ Busy(m) /\ job'[m].calc = job[m].calc
                                            /\ ~job'[m].alone /\ job[m].calc <= calcs
      BY <1>6, <1>7 DEF Same, Busy, JobFits
    <3>2. job'[j].calc = calcs + 1
      BY DEF Started
    <3>3. \A m \in Jobs : job[m].calc \in Nat
      BY <1>1, JobIs
    <3>4. CASE k = j
      <4>1. Busy(l) /\ job'[l].calc = job[l].calc /\ job[l].calc <= calcs
        BY <2>1, <3>1, <3>4
      <4>2. ~Quiet
        BY <4>1 DEF Quiet, Busy
      <4>3. ~job'[j].alone
        BY <4>2 DEF Started
      <4>. QED  BY <1>2, <3>2, <3>3, <3>4, <4>1, <4>3
    <3>5. CASE l = j
      BY <1>2, <2>1, <3>1, <3>2, <3>3, <3>5
    <3>6. CASE k # j /\ l # j
      BY <2>1, <3>1, <3>6 DEF LedgerInv, Apart
    <3>. QED  BY <3>4, <3>5, <3>6
  <2>. QED  BY <2>1 DEF Apart
<1>. QED  BY <1>3, <1>5, <1>8, <1>9

LEMMA ImportStep ==
  ASSUME LedgerInv, NEW j \in Jobs, NEW fees \in SUBSET (Fees \ sold), fees # {},
         Import(j, fees)
  PROVE  LedgerInv'
<1>1. LedgerTypes /\ LedgerFits /\ Splits /\ JobFits(j)
  BY DEF LedgerInv
<1>2. PICK start : start = [NoJob EXCEPT !.phase = "calculate", !.ids = fees]
  OBVIOUS
<1>3. /\ start \in Job /\ start.phase = "calculate" /\ start.ids = fees
      /\ start.recalc = FALSE /\ start.todo = {} /\ start.undo = {}
  <2>1. fees \in SUBSET Fees
    OBVIOUS
  <2>2. start \in Job
    BY <1>2, <2>1, NoJobIs DEF Job
  <2>. QED  BY <1>2, <2>2 DEF NoJob
<1>4. Started(j, start)
  BY <1>1, <1>2, <1>3, StartsSo DEF Import
<1>5. /\ sold' = sold \cup fees /\ (orderly' <=> orderly /\ Quiet)
      /\ UNCHANGED <<history, ledger, edits>>
  BY DEF Import
<1>6. orderly' \in BOOLEAN /\ sold' \in SUBSET Fees /\ sold \subseteq sold'
  BY <1>1, <1>5 DEF Import, LedgerTypes
<1>7. /\ LedgerTypes' /\ LedgerFits' /\ Apart'
      /\ \A k \in Jobs \ {j} : JobFits(k)' /\ TodoPays(k)' /\ Repairs(k)'
      /\ \A e \in ledger : e.calc < calcs + 1
  BY <1>3, <1>4, <1>5, <1>6, BeginKeeps
<1>8. /\ job'[j].phase = "calculate" /\ job'[j].ids = fees
      /\ job'[j].recalc = FALSE /\ job'[j].todo = {} /\ job'[j].undo = {}
      /\ job'[j].calc = calcs + 1 /\ calcs' = calcs + 1 /\ (job'[j].alone <=> Quiet)
  BY <1>3, <1>4 DEF Started
<1>9. calcs \in Nat /\ \A e \in ledger : e.calc \in Nat
  BY <1>1, FeeAssumption DEF LedgerTypes, Entry
<1>10. JobFits(j)'
  BY <1>5, <1>7, <1>8, <1>9, FS_EmptySet DEF JobFits, Busy
<1>11. TodoPays(j)' /\ Repairs(j)'
  BY <1>8 DEF TodoPays, Repairs
<1>12. Splits'
  <2> SUFFICES ASSUME orderly, Quiet PROVE Splits'
    BY <1>5 DEF Splits
  <2>1. \A k \in Jobs \ {j} : job'[k].phase = "idle"
    BY <1>4 DEF Started, Same, Quiet
  <2>2. \A k \in Jobs : Busy(k)' => ~job'[k].recalc /\ job'[k].alone
    BY <1>8, <2>1 DEF Busy
  <2>3. ~Quiet'
    BY <1>8 DEF Quiet
  <2>4. ASSUME NEW v \in history, Uniform(sold, v.tiers)'
        PROVE  Balanced(v.tiers)'
    <3>1. Uniform(sold, v.tiers)
      BY <1>5, <2>4 DEF Uniform
    <3>2. Fair(Net(ledger), sold, v.tiers)
      BY <1>1, <3>1 DEF Splits, Balanced
    <3>3. sold' \ job'[j].ids = sold
      BY <1>5, <1>8
    <3>4. Net(ledger)' = Net(ledger)
      BY <1>5
    <3>5. (Fair(Net(ledger), sold \ job[j].ids, v.tiers))'
      BY <3>2, <3>3, <3>4 DEF Fair, Owed, Revenue
    <3>. QED  BY <1>8, <2>1, <2>3, <3>5 DEF Balanced
  <2>. QED  BY <1>1, <1>5, <2>2, <2>4 DEF Splits
<1>. QED  BY <1>7, <1>10, <1>11, <1>12 DEF LedgerInv

LEMMA RecalculateStep ==
  ASSUME LedgerInv, NEW j \in Jobs, Recalculate(j)
  PROVE  LedgerInv'
<1>1. LedgerTypes /\ LedgerFits /\ JobFits(j)
  BY DEF LedgerInv
<1>2. PICK D : D = {d \in ledger : d.of = 0}
  OBVIOUS
<1>3. PICK c : c = calcs + 1
  OBVIOUS
<1>4. c \in 1..MaxCalcs /\ calcs \in Nat
  <2>1. calcs < MaxCalcs
    BY DEF Recalculate, Begin
  <2>. QED  BY <1>1, <1>3, <2>1, FeeAssumption DEF LedgerTypes
<1>5. D \in SUBSET Entry /\ IsFiniteSet(D)
  BY <1>1, <1>2, FS_Subset DEF LedgerTypes
<1>6. \A e \in D : e.of = 0 /\ e.owed >= 0 /\ e.calc < c
  <2>1. \A e \in ledger : e.calc \in Nat /\ e.calc <= calcs
    BY <1>1 DEF LedgerFits, LedgerTypes, Entry
  <2>. QED  BY <1>1, <1>2, <1>3, <1>4, <2>1 DEF LedgerFits, EntryFits
<1>7. PICK U : U = Undone(D, c)
  OBVIOUS
<1>8. /\ IsFiniteSet(U)
      /\ \A r \in U : r \in Entry /\ r.calc = c /\ r.of # 0 /\ r.of < r.calc /\ r.owed <= 0
  BY <1>4, <1>5, <1>6, <1>7, UndoneIs DEF Owing
<1>9. PICK start : start = [NoJob EXCEPT !.phase = "list", !.recalc = TRUE, !.undo = U]
  OBVIOUS
<1>10. /\ start \in Job /\ start.phase = "list" /\ start.ids = {}
       /\ start.recalc = TRUE /\ start.todo = {} /\ start.undo = U
  <2>1. U \in SUBSET Entry
    BY <1>8
  <2>2. start \in Job
    BY <1>9, <2>1, NoJobIs DEF Job
  <2>. QED  BY <1>9, <2>2 DEF NoJob
<1>11. Started(j, start)
  <2>1. Begin(j, start)
    BY <1>2, <1>3, <1>7, <1>9 DEF Recalculate, Undone
  <2>. QED  BY <1>1, <1>10, <2>1, StartsSo
<1>12. orderly' = FALSE /\ UNCHANGED <<sold, history, ledger, edits>>
  BY DEF Recalculate
<1>13. /\ LedgerTypes' /\ LedgerFits' /\ Apart'
       /\ \A k \in Jobs \ {j} : JobFits(k)' /\ TodoPays(k)' /\ Repairs(k)'
       /\ \A e \in ledger : e.calc < calcs + 1
  BY <1>1, <1>10, <1>11, <1>12, BeginKeeps DEF LedgerTypes
<1>14. /\ job'[j].phase = "list" /\ job'[j].ids = {}
       /\ job'[j].recalc = TRUE /\ job'[j].todo = {} /\ job'[j].undo = U
       /\ job'[j].calc = c /\ calcs' = c
  BY <1>3, <1>10, <1>11 DEF Started
<1>15. \A e \in ledger : e.calc # c
  <2>1. \A e \in ledger : e.calc \in Nat
    BY <1>1 DEF LedgerTypes, Entry
  <2>. QED  BY <1>3, <1>4, <1>13, <2>1
<1>16. JobFits(j)'
  <2>1. \A r \in U : EntryFits(r)'
    BY <1>8 DEF EntryFits
  <2>. QED  BY <1>4, <1>8, <1>12, <1>14, <1>15, <2>1, FS_EmptySet DEF JobFits, Busy
<1>17. TodoPays(j)'
  BY <1>14 DEF TodoPays
<1>18. Repairs(j)'
  <2>1. {e \in ledger' : e.of = 0 /\ e.calc # job'[j].calc} = D
    BY <1>2, <1>12, <1>14, <1>15
  <2>. QED  BY <1>7, <1>14, <2>1 DEF Repairs
<1>19. Splits'
  BY <1>12 DEF Splits
<1>. QED  BY <1>13, <1>16, <1>17, <1>18, <1>19 DEF LedgerInv

\* Other tiers: what is under way is not alone any more.
LEMMA EditStep ==
  ASSUME LedgerInv, NEW h \in Histories, EditTiers(h)
  PROVE  LedgerInv'
<1>1. LedgerTypes /\ LedgerFits /\ Apart
  BY DEF LedgerInv
<1>2. /\ history' = h /\ orderly' = FALSE /\ edits' = edits + 1 /\ edits < MaxEdits
      /\ UNCHANGED <<sold, ledger, calcs>>
  BY DEF EditTiers
<1>3. edits' \in 0..MaxEdits
  BY <1>1, <1>2, FeeAssumption DEF LedgerTypes
<1> DEFINE other(k) == [job[k] EXCEPT !.alone = job[k].alone /\ ~Busy(k)]
<1>4. job' = [k \in Jobs |-> other(k)]
  BY DEF EditTiers, Busy
<1>5. ASSUME NEW k \in Jobs
      PROVE  /\ other(k) \in Job /\ other(k).phase = job[k].phase
             /\ other(k).recalc = job[k].recalc /\ other(k).calc = job[k].calc
             /\ other(k).ids = job[k].ids /\ other(k).todo = job[k].todo
             /\ other(k).undo = job[k].undo
             /\ (other(k).alone <=> job[k].alone /\ ~Busy(k))
  <2>1. job[k] \in Job
    BY <1>1, JobIs
  <2>2. PICK b \in BOOLEAN : b <=> (job[k].alone /\ ~Busy(k))
    OBVIOUS
  <2>3. other(k) = [job[k] EXCEPT !.alone = b]
    BY <2>2
  <2>. HIDE DEF other
  <2>. QED  BY <2>1, <2>2, <2>3 DEF Job
<1>. HIDE DEF other
<1>6. /\ job' \in [Jobs -> Job]
      /\ \A k \in Jobs : Same(k) /\ (job'[k].alone <=> job[k].alone /\ ~Busy(k))
  BY <1>4, <1>5 DEF Same
<1>7. LedgerTypes'
  BY <1>1, <1>2, <1>3, <1>6 DEF LedgerTypes
<1>8. LedgerFits'
  BY <1>1, <1>2 DEF LedgerFits, EntryFits
<1>9. Apart'
  BY <1>1, <1>6 DEF Apart, Same, Busy
<1>10. ASSUME NEW k \in Jobs PROVE JobFits(k)' /\ TodoPays(k)' /\ Repairs(k)'
  <2>1. JobFits(k)
    BY DEF LedgerInv
  <2>2. JobFits(k)'
    <3>1. ledger' = ledger \cup {} /\ \A e \in {} : e.calc # job[k].calc
      BY <1>2
    <3>2. calcs' \in Nat /\ calcs <= calcs' /\ sold \subseteq sold'
      BY <1>1, <1>2, FeeAssumption DEF LedgerTypes
    <3>. QED  BY <1>1, <1>6, <2>1, <3>1, <3>2, OtherFits
  <2>3. ~Busy(k) => job[k].todo = {}
    BY <2>1 DEF JobFits, Busy
  <2>4. TodoPays(k)'
    BY <1>6, <2>3 DEF TodoPays, Same
  <2>5. Repairs(k)'
    BY <1>6 DEF Repairs, Same, Busy
  <2>. QED  BY <2>2, <2>4, <2>5
<1>11. Splits'
  BY <1>2 DEF Splits
<1>. QED  BY <1>7, <1>8, <1>9, <1>10, <1>11 DEF LedgerInv

LEMMA LedgerInitInv == LedgerInit => LedgerInv
<1> SUFFICES ASSUME LedgerInit PROVE LedgerInv
  OBVIOUS
<1>1. LedgerTypes
  BY NoJobIs, FeeAssumption, FS_EmptySet DEF LedgerInit, LedgerTypes
<1>2. \A j \in Jobs : job[j] = NoJob
  BY DEF LedgerInit
<1>3. ASSUME NEW j \in Jobs
      PROVE  JobFits(j) /\ TodoPays(j) /\ Repairs(j) /\ ~Busy(j)
  <2>1. /\ job[j].phase = "idle" /\ job[j].recalc = FALSE /\ job[j].calc = 0
        /\ job[j].ids = {} /\ job[j].todo = {} /\ job[j].undo = {}
    BY <1>2 DEF NoJob
  <2>. QED  BY <2>1, FS_EmptySet DEF LedgerInit, JobFits, TodoPays, Repairs, Busy
<1>4. Splits
  <2>1. ASSUME NEW tiers, Uniform(sold, tiers) PROVE Balanced(tiers)
    <3>1. Owing({}) /\ Net({}) = 0
      BY FS_EmptySet, NetIs DEF Owing
    <3>2. Revenue({}) = 0 /\ Owed(0, tiers) = 0
      BY <2>1, RevenueIs, OwedOfNothing DEF Uniform
    <3>3. 0 * (Cardinality(tiers) * Whole) = 0 /\ Cardinality({}) = 0
      <4>1. PICK k \in Nat : k = Cardinality(tiers) * Whole
        BY <2>1, FS_CardinalityType, FeeAssumption DEF Uniform, TierSet
      <4>. QED  BY <4>1, FS_EmptySet
    <3>4. Fair(0, {}, tiers)
      BY <3>2, <3>3, FeeAssumption DEF Fair
    <3>. QED  BY <1>3, <3>1, <3>4 DEF LedgerInit, Balanced, Busy
  <2>. QED  BY <1>3, <2>1 DEF LedgerInit, Splits
<1>. QED  BY <1>1, <1>3, <1>4 DEF LedgerInv, LedgerFits, Apart, LedgerInit

LEMMA LedgerStutters ==
  ASSUME LedgerInv, UNCHANGED ledgerVars
  PROVE  LedgerInv'
<1> USE DEF ledgerVars
<1>1. LedgerTypes' /\ LedgerFits' /\ Apart'
  BY DEF LedgerInv, LedgerTypes, LedgerFits, EntryFits, Apart, Busy
<1>2. \A j \in Jobs : JobFits(j)' /\ TodoPays(j)'
  BY DEF LedgerInv, JobFits, TodoPays, EntryFits, Busy
<1>3. ASSUME NEW j \in Jobs PROVE Repairs(j)'
  <2>1. Repairs(j)
    BY DEF LedgerInv
  <2>2. /\ UNCHANGED job[j] /\ UNCHANGED Entries(job[j].calc)
        /\ UNCHANGED {e \in ledger : e.of = 0 /\ e.calc # job[j].calc}
        /\ UNCHANGED sold
    BY DEF Entries
  <2>3. \A E : Replayed(E)' <=> Replayed(E)
    BY DEF Replayed, Preceding
  <2>4. UNCHANGED Undone({e \in ledger : e.of = 0 /\ e.calc # job[j].calc}, job[j].calc)
    BY <2>2
  <2>5. (Entries(job[j].calc) \cup job[j].todo)' = Entries(job[j].calc) \cup job[j].todo
    BY <2>2
  <2>6. Replayed(Entries(job[j].calc) \cup job[j].todo)' <=>
          Replayed(Entries(job[j].calc) \cup job[j].todo)
    BY <2>3, <2>5
  <2>. QED  BY <2>1, <2>2, <2>4, <2>6 DEF Repairs, Busy
<1>4. Splits'
  BY DEF LedgerInv, Splits, Busy, Uniform, Balanced, Quiet
<1>5. \A j \in Jobs : JobFits(j)' /\ TodoPays(j)' /\ Repairs(j)'
  BY <1>2, <1>3
<1>. QED  BY <1>1, <1>4, <1>5 DEF LedgerInv

\* Every step keeps the invariant of the ledger.
LEMMA LedgerStep == LedgerInv /\ [LedgerNext]_ledgerVars => LedgerInv'
<1> SUFFICES ASSUME LedgerInv, [LedgerNext]_ledgerVars PROVE LedgerInv'
  OBVIOUS
<1>1. ASSUME NEW j \in Jobs, NEW fees \in (SUBSET (Fees \ sold)) \ {{}}, Import(j, fees)
      PROVE  LedgerInv'
  <2>1. fees \in SUBSET (Fees \ sold) /\ fees # {}
    OBVIOUS
  <2>. QED  BY <1>1, <2>1, ImportStep
<1>2. ASSUME NEW j \in Jobs,
             \/ Recalculate(j) \/ ListMonth(j) \/ Calculate(j) \/ InsertEntries(j)
             \/ Inserted(j) \/ Commit(j) \/ Fail(j)
      PROVE  LedgerInv'
  BY <1>2, RecalculateStep, ListStep, CalculateStep, ChunkStep, InsertedStep, ReversalsStep,
     JobFailStep
<1>3. ASSUME NEW h \in Histories, EditTiers(h) PROVE LedgerInv'
  BY <1>3, EditStep
<1>. QED  BY <1>1, <1>2, <1>3, LedgerStutters DEF LedgerNext

LEMMA LedgerInvariance == LedgerSpec => []LedgerInv
BY LedgerInitInv, LedgerStep, PTL DEF LedgerSpec

\* For any rows, versions of the tiers, jobs and chunk size: what an entry owes
\* is never negative, and what a reversal takes back is never positive and names
\* an older calculation (recalculateCommissions).
THEOREM LedgerKeepsSigns == LedgerSpec => []TypeOK
<1>1. LedgerInv => TypeOK
  BY JobIs DEF LedgerInv, LedgerTypes, LedgerFits, EntryFits, JobFits, TypeOK
<1>. QED  BY <1>1, LedgerInvariance, PTL

\* For any brackets without a gap: the engine pays for a row what the row makes
\* the month owe, to the penny in each bracket and however many it spans, and
\* nothing for a refund (calculateWaterfallCommission).
THEOREM EngineIsMarginal == LedgerSpec => []EntriesAreMarginal
<1>1. LedgerInv => EntriesAreMarginal
  <2> SUFFICES ASSUME LedgerInv, NEW j \in Jobs, NEW e \in job[j].todo,
                      job[j].alone, e.base >= 0,
                      NEW tiers, tiers = Tiers(history, Day[e.fee]), Contiguous(tiers)
               PROVE  e.owed = IF Amount[e.fee] <= 0 THEN 0
                               ELSE Due(e.base, e.base + Amount[e.fee], tiers)
    BY DEF EntriesAreMarginal
  <2>1. e \in Entry /\ history \in Histories
    BY JobIs DEF LedgerInv, LedgerTypes
  <2>2. Active(history, Day[e.fee]) # {} /\ e.owed = Waterfall(Amount[e.fee], e.base, tiers)
    BY DEF LedgerInv, TodoPays
  <2>3. TierSet(tiers)
    BY <2>1, <2>2, TiersAreSets
  <2>4. PICK amount \in Int : amount = Amount[e.fee]
    BY <2>1, FeeAssumption DEF Entry
  <2>5. PICK base \in Nat : base = e.base
    BY <2>1 DEF Entry
  <2>6. Waterfall(amount, base, tiers) =
          IF amount <= 0 THEN 0 ELSE Due(base, base + amount, tiers)
    <3>1. CASE amount <= 0
      <4>1. base \in Int /\ Waterfall(amount, base, tiers) = 0
        BY <2>3, <3>1, WaterfallTyped
      <4>. QED  BY <3>1, <4>1
    <3>2. CASE ~(amount <= 0)
      <4>1. amount > 0
        BY <3>2
      <4>. QED  BY <2>3, <3>2, <4>1, WaterfallIsMarginal
    <3>. QED  BY <3>1, <3>2
  <2>. QED  BY <2>2, <2>4, <2>5, <2>6
<1>. QED  BY <1>1, LedgerInvariance, PTL

\* For any number of imports, of any size, in any order: the commission of a
\* month is what its revenue owes, up to half a penny for each row and bracket.
THEOREM SplitsAreNeutral == LedgerSpec => []SplitNeutral
<1>1. LedgerInv => SplitNeutral
  <2> SUFFICES ASSUME LedgerInv, orderly, Quiet, sold # {},
                      NEW tiers, tiers = Tiers(history, Day[CHOOSE f \in sold : TRUE]),
                      \A f \in sold : Amount[f] >= 0 /\ Active(history, Day[f]) # {},
                      \A f, g \in sold : Active(history, Day[f]) = Active(history, Day[g]),
                      Contiguous(tiers)
               PROVE  Fair(Summary, sold, tiers)
    BY DEF SplitNeutral
  <2>1. PICK f \in sold : f = CHOOSE g \in sold : TRUE
    OBVIOUS
  <2>2. history \in Histories
    BY DEF LedgerInv, LedgerTypes
  <2>3. PICK v \in Active(history, Day[f]) : tiers = v.tiers
    BY <2>1 DEF Tiers
  <2>4. v \in history
    BY DEF Active
  <2>5. TierSet(tiers)
    BY <2>1, <2>2, TiersAreSets
  <2>6. \A g \in sold : Tiers(history, Day[g]) = tiers
    BY <2>1 DEF Tiers
  <2>7. Uniform(sold, v.tiers)
    BY <2>3, <2>5, <2>6 DEF Uniform
  <2>8. Fair(Net(ledger), sold, tiers)
    BY <2>3, <2>4, <2>7 DEF LedgerInv, Splits, Balanced
  <2>9. {e \in ledger : e.of = 0} = ledger
    BY DEF LedgerInv, Splits
  <2>. QED  BY <2>8, <2>9 DEF Summary
<1>. QED  BY <1>1, LedgerInvariance, PTL

\* A recalculation that was alone until it commits has replayed the month.
LEMMA CommitRepairs ==
  ASSUME LedgerInv, NEW j \in Jobs, job[j].alone, Commit(j)
  PROVE  /\ Replayed(Entries(job[j].calc))
         /\ (\A e \in ledger : e.of = 0) => Net(ledger') = Net(Entries(job[j].calc))
<1>1. LedgerTypes /\ LedgerFits /\ JobFits(j) /\ Repairs(j)
  BY DEF LedgerInv
<1>2. job[j].phase = "commit" /\ job[j].recalc /\ Busy(j) /\ job[j].todo = {}
  BY <1>1 DEF Commit, JobFits, Busy
<1>3. PICK c : c = job[j].calc
  OBVIOUS
<1> DEFINE mine == Entries(c)
           old == {e \in ledger : e.of = 0 /\ e.calc # c}
<1>4. Replayed(mine)
  <2>1. mine \cup job[j].todo = mine
    BY <1>2
  <2>. QED  BY <1>1, <1>2, <1>3, <2>1 DEF Repairs
<1>5. ASSUME \A e \in ledger : e.of = 0 PROVE Net(ledger') = Net(mine)
  <2>1. PICK U : U = Undone(old, c)
    OBVIOUS
  <2>2. c \in 1..MaxCalcs
    BY <1>1, <1>2, <1>3, JobIs, FeeAssumption DEF JobFits
  <2>3. U = job[j].undo
    BY <1>1, <1>2, <1>3, <2>1 DEF Repairs
  <2>4. old \in SUBSET Entry /\ IsFiniteSet(old) /\ mine \in SUBSET Entry
        /\ IsFiniteSet(mine)
    BY <1>1, FS_Subset DEF LedgerTypes, Entries
  <2>5. ASSUME NEW e \in old PROVE e.of = 0 /\ e.owed >= 0 /\ e.calc < c
    <3>1. e \in Entry /\ e.of = 0 /\ EntryFits(e)
      BY <1>1 DEF LedgerFits, LedgerTypes
    <3>2. Reversed(e, c) \in job[j].undo
      BY <2>1, <2>3 DEF Undone
    <3>3. Reversed(e, c).calc = c /\ Reversed(e, c).of = e.calc
      BY <3>1 DEF Reversed, Entry
    <3>4. Reversed(e, c).of # 0 /\ EntryFits(Reversed(e, c))
      BY <1>1, <3>2 DEF JobFits
    <3>. QED  BY <3>1, <3>3, <3>4 DEF EntryFits
  <2>6. /\ Owing(old) /\ Owing(U) /\ Net(U) = 0 - Net(old)
        /\ \A r \in U : r.of # 0
    <3>. HIDE DEF old
    <3>. QED  BY <2>1, <2>2, <2>4, <2>5, UndoneIs
  <2>7. Owing(mine)
    BY <2>4 DEF Owing, Entry
  <2>8. ledger = old \cup mine /\ old \cap mine = {}
    BY <1>5 DEF Entries
  <2>9. ledger \cap U = {}
    BY <1>5, <2>6
  <2>10. ledger' = ledger \cup U
    BY <1>3, <2>3 DEF Commit
  <2>. HIDE DEF old, mine
  <2>11. Owing(ledger) /\ Net(ledger) = Net(old) + Net(mine)
    BY <2>6, <2>7, <2>8, NetOfBoth
  <2>12. Net(ledger \cup U) = Net(ledger) + Net(U)
    BY <2>6, <2>9, <2>11, NetOfBoth
  <2>13. Net(old) \in Int /\ Net(mine) \in Int
    BY <2>6, <2>7, NetIs
  <2>. QED  BY <2>6, <2>10, <2>11, <2>12, <2>13
<1>. QED  BY <1>3, <1>4, <1>5

\* For any failures, overlaps and refunds before it: a recalculation that nothing
\* ran beside leaves the month as one replay of it in order would have, and the
\* first one makes that the net of the month (recalculateCommissions).
THEOREM RecalculationRepairs == LedgerSpec => RecalcRepairs
<1>1. ASSUME LedgerInv, NEW j \in Jobs, job[j].alone, Commit(j)
      PROVE  LET mine == Entries(job[j].calc) IN
             /\ {e.fee : e \in mine} = {f \in sold : Active(history, Day[f]) # {}}
             /\ \A e \in mine :
                  /\ e.base \in Preceding(e.fee)
                  /\ \A d \in mine : d.fee = e.fee => d = e
             /\ (\A e \in ledger : e.of = 0) => Net(ledger') = Net(mine)
  BY <1>1, CommitRepairs DEF Replayed
<1>2. LedgerInv /\ [LedgerNext]_ledgerVars =>
        [\A j \in Jobs : job[j].alone /\ Commit(j) =>
           LET mine == Entries(job[j].calc) IN
           /\ {e.fee : e \in mine} = {f \in sold : Active(history, Day[f]) # {}}
           /\ \A e \in mine :
                /\ e.base \in Preceding(e.fee)
                /\ \A d \in mine : d.fee = e.fee => d = e
           /\ (\A e \in ledger : e.of = 0) => Net(ledger') = Net(mine)]_ledgerVars
  BY <1>1
<1>. QED  BY <1>2, LedgerInvariance, PTL DEF LedgerSpec, RecalcRepairs
=============================================================================
