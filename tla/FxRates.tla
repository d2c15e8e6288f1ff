------------------------------ MODULE FxRates ------------------------------
(***************************************************************************)
(* exchange_rates for one foreign currency: the daily fetch                *)
(* (inngest/functions/fx-rates-fetch-daily.ts) and the carry-forward       *)
(* look-up (lib/fx/rate-lookup.ts).  The steps of the function are those   *)
(* Inngest memoises; a step whose value was lost is executed again.  A run *)
(* may ask for any day: the cron asks for its own, as late as its retries  *)
(* are, the script uat-trigger-fx-fetch.ts for those it is told.           *)
(***************************************************************************)
EXTENDS Naturals

CONSTANTS
  Values,   \* rates: units of the foreign currency for Unit pounds
  NoRate,   \* no row, a day without rates, a look-up without result
  LastDay,  \* bound on the days
  Limit,    \* staleDays up to which a rate may be used: 7 in the code
  MaxFetches \* bound on the runs

ASSUME FxAssumption == LastDay \in Nat /\ Limit \in Nat /\ MaxFetches \in Nat
                      /\ Values \subseteq Nat \ {0} /\ NoRate \notin Values

Days == 0..LastDay

VARIABLES
  rates,   \* rates[d]: rate_to_gbp of the day, or NoRate
  fetch,   \* the run under way: the day it asked for and what it got
  fetches  \* counter of the bound

fxVars == <<rates, fetch, fetches>>

NotFetching == [day |-> LastDay + 1, got |-> NoRate]

FxInit ==
  /\ rates \in [Days -> Values \cup {NoRate}]
  /\ fetch = NotFetching
  /\ fetches = 0

\* fetch-boe.  The Bank answers with nothing for a day it has not published yet
\* or never will; a failure leaves the run to a retry, or to an alert and no run.
FetchRates(d, v) ==
  /\ fetch = NotFetching
  /\ fetches < MaxFetches /\ fetches' = fetches + 1
  /\ fetch' = [day |-> d, got |-> v]
  /\ UNCHANGED rates

\* upsert-rates: ON CONFLICT DO NOTHING.  The step may be executed again.
Upserted_Overwrite(d, v) == IF v = NoRate THEN rates ELSE [rates EXCEPT ![d] = v]
Upserted(d, v) ==
  IF v = NoRate \/ rates[d] # NoRate THEN rates ELSE [rates EXCEPT ![d] = v]

StoreRates ==
  /\ fetch # NotFetching
  /\ rates' = Upserted(fetch.day, fetch.got)
  /\ UNCHANGED <<fetch, fetches>>

EndFetch ==
  /\ fetch # NotFetching
  /\ fetch' = NotFetching
  /\ UNCHANGED <<rates, fetches>>

FxNext ==
  \/ \E d \in Days, v \in Values \cup {NoRate} : FetchRates(d, v)
  \/ StoreRates \/ EndFetch

\* getRateForDate: the latest day with a rate, up to the date.
RateDay(table, date) ==
  LET known == {d \in Days : d <= date /\ table[d] # NoRate}
  IN  IF known = {} THEN NoRate
      ELSE CHOOSE d \in known : \A e \in known : e <= d
=============================================================================
