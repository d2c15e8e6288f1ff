----------------------------- MODULE PocAlerts -----------------------------
(***************************************************************************)
(* The Inngest function weekly-poc-alerts                                  *)
(* (inngest/functions/weekly-poc-alerts.ts) with decideAlert               *)
(* (lib/performance-alerts/classify-dispatch.ts) and groupByPoc            *)
(* (poc-batching.ts): hotels that fell into the bottom tier, or stayed in  *)
(* it for the cool-down period, are mailed to their point of contact.      *)
(*                                                                         *)
(* Steps are memoised and retried as in SendEmail, and a value that is     *)
(* memoised is JSON.  The runs of Runs may interleave between their steps; *)
(* a single run may be started again and again.  What load-config computes *)
(* from sales, stages, ages and silenced hotels is an arbitrary            *)
(* classification and ranking.                                             *)
(***************************************************************************)
EXTENDS Naturals, FiniteSets

CONSTANTS
  Hotels, Pocs, NoPoc,
  Runs,       \* function runs, cron or manual
  Cooldown,   \* CHRONIC_CAP_MS, in ticks
  WeekLen,    \* ticks in an ISO week
  Cap,        \* HOTEL_TRUNCATION_CAP
  MaxRetries, \* retries of a step: 3 in the code
  MaxNow,     \* bound on the clock
  MaxMails    \* bound on the digests of one POC

ASSUME HotelAssumption == NoPoc \notin Pocs /\ IsFiniteSet(Hotels)

ASSUME TimeAssumption ==
  /\ Cooldown \in Nat \ {0} /\ WeekLen \in Nat \ {0} /\ Cap \in Nat \ {0}
  /\ MaxRetries \in Nat /\ MaxNow \in Nat \ {0} /\ MaxMails \in Nat \ {0}

Never == 0

VARIABLES
  now,       \* the clock, in ticks
  users,     \* the POCs that have an account, and so an address
  poc,       \* locations.internal_poc_id
  state,     \* location_performance_alert_state
  pc, attempts,
  seen,      \* seen[r]: memoised classification of load-config
  alert,     \* alert[r]: hotels to alert, memoised by diff-state
  prior,     \* prior[r]: lastAlertedAt as diff-state read it
  stamp,     \* stamp[r]: the moment of write-state, and so its ISO week
  requested, \* email/send.requested events sent
  lastMail,  \* history: stamp of the last digest that named a hotel
  recovered  \* history: hotels seen above the bottom tier since then

runVars == <<pc, attempts, seen, alert, prior, stamp>>
history == <<lastMail, recovered>>
vars == <<now, users, poc, state, pc, attempts, seen, alert, prior, stamp, requested,
          lastMail, recovered>>

Week(t) == t \div WeekLen

\* The events: a digest for a POC in a week, the hotels it names and the number
\* of those it only counts; n tells repeated ones apart.
Digest == [poc : Pocs, week : 0..Week(MaxNow), hotels : (SUBSET Hotels) \ {{}},
           more : 0..Cardinality(Hotels), n : 1..MaxMails]

\* The hotels of the bottom tier in the order of their composite scores, the
\* worst first.
Rankings(bottom) ==
  {f \in [bottom -> 1..Cardinality(bottom)] :
     \A g, h \in bottom : f[g] = f[h] => g = h}

Row == [row : BOOLEAN, bottom : BOOLEAN, alerted : 0..MaxNow]

TypeOK ==
  /\ now \in 1..MaxNow
  /\ users \subseteq Pocs
  /\ poc \in [Hotels -> users \cup {NoPoc}]
  /\ state \in [Hotels -> Row]
  /\ pc \in [Runs -> {"idle", "load", "diff", "write", "emit", "report"}]
  /\ attempts \in [Runs -> 0..MaxRetries]
  /\ seen \in [Runs -> [elig : SUBSET Hotels, bottom : SUBSET Hotels,
                        rank : UNION {Rankings(bottom) : bottom \in SUBSET Hotels},
                        poc : [Hotels -> Pocs \cup {NoPoc}]]]
  /\ alert \in [Runs -> SUBSET Hotels]
  /\ prior \in [Runs -> [Hotels -> 0..MaxNow]]
  /\ stamp \in [Runs -> 0..MaxNow]
  /\ requested \subseteq Digest
  /\ lastMail \in [Hotels -> 0..MaxNow]
  /\ recovered \subseteq Hotels

\* A run that has classified nothing yet.
Unseen == [elig |-> {}, bottom |-> {}, rank |-> [h \in {} |-> 0],
           poc |-> [h \in Hotels |-> NoPoc]]

Init ==
  /\ now = 1
  /\ users = Pocs
  /\ poc \in [Hotels -> Pocs \cup {NoPoc}]
  /\ state = [h \in Hotels |-> [row |-> FALSE, bottom |-> FALSE, alerted |-> Never]]
  /\ pc = [r \in Runs |-> "idle"]
  /\ attempts = [r \in Runs |-> 0]
  /\ seen = [r \in Runs |-> Unseen]
  /\ alert = [r \in Runs |-> {}]
  /\ prior = [r \in Runs |-> [h \in Hotels |-> Never]]
  /\ stamp = [r \in Runs |-> 0]
  /\ requested = {}
  /\ lastMail = [h \in Hotels |-> Never]
  /\ recovered = {}

-----------------------------------------------------------------------------
(* Steps and their retries.                                                *)

Advance(r, to) ==
  /\ pc' = [pc EXCEPT ![r] = to]
  /\ attempts' = [attempts EXCEPT ![r] = 0]

Retry_Forever(r) == UNCHANGED <<pc, attempts>>
Retry_OnceMore(r) ==
  IF attempts[r] <= MaxRetries
    THEN attempts' = [attempts EXCEPT ![r] = @ + 1] /\ UNCHANGED pc
    ELSE Advance(r, "idle")
Retry(r) ==
  IF attempts[r] < MaxRetries
    THEN attempts' = [attempts EXCEPT ![r] = @ + 1] /\ UNCHANGED pc
    ELSE Advance(r, "idle")

\* A new run has no memoised values.
Trigger(r) ==
  /\ pc[r] = "idle"
  /\ Advance(r, "load")
  /\ seen' = [seen EXCEPT ![r] = Unseen]
  /\ alert' = [alert EXCEPT ![r] = {}]
  /\ prior' = [prior EXCEPT ![r] = [h \in Hotels |-> Never]]
  /\ stamp' = [stamp EXCEPT ![r] = 0]
  /\ UNCHANGED <<now, users, poc, state, requested, history>>

LoadConfig(r) ==
  /\ pc[r] = "load"
  /\ \/ /\ \E elig \in SUBSET Hotels : \E bottom \in SUBSET elig :
           \E rank \in Rankings(bottom) :
             seen' = [seen EXCEPT ![r] = [elig |-> elig, bottom |-> bottom,
                                          rank |-> rank, poc |-> poc]]
        /\ Advance(r, "diff")
     \/ Retry(r) /\ UNCHANGED seen
  /\ UNCHANGED <<now, users, poc, state, alert, prior, stamp, requested, history>>

-----------------------------------------------------------------------------
(* decideAlert: flip-in or chronic, as opposed to no-alert.                *)

Decide_EveryWeek(s, isBottom, t) == isBottom
Decide(s, isBottom, t) ==
  /\ isBottom
  /\ \/ ~s.row \/ ~s.bottom
     \/ s.alerted = Never
     \/ t - s.alerted >= Cooldown

\* A first run, on which no hotel has a row yet, alerts nobody.
FirstRun(elig) == elig # {} /\ \A h \in elig : ~state[h].row

DiffState(r) ==
  /\ pc[r] = "diff"
  /\ LET elig == seen[r].elig IN
     \/ /\ alert' = [alert EXCEPT ![r] =
             IF FirstRun(elig) THEN {}
             ELSE {h \in elig : Decide(state[h], h \in seen[r].bottom, now)}]
        /\ prior' = [prior EXCEPT ![r] = [h \in Hotels |-> state[h].alerted]]
        /\ Advance(r, "write")
     \/ Retry(r) /\ UNCHANGED <<alert, prior>>
  /\ UNCHANGED <<now, users, poc, state, seen, stamp, requested, history>>

\* The row an upsert leaves: the tier as classified, lastAlertedAt new for an
\* alert and otherwise as diff-state read it.
Upserted_Forgetful(r, h) ==
  [row |-> TRUE, bottom |-> h \in seen[r].bottom,
   alerted |-> IF h \in alert[r] THEN now ELSE Never]
Upserted(r, h) ==
  [row |-> TRUE, bottom |-> h \in seen[r].bottom,
   alerted |-> IF h \in alert[r] THEN now ELSE prior[r][h]]

\* The hotels whose row can be written.  A lastAlertedAt that has been read back
\* as JSON is text, which the timestamp column of drizzle-orm cannot take
\* (value.toISOString is not a function); null and the new date are fine.
Storable(r, text) ==
  {h \in seen[r].elig : text => h \in alert[r] \/ prior[r][h] = Never}

\* The upserts are no transaction: when the step fails, some were made.  Only an
\* execution that goes on in the process that ran diff-state has its dates.
WriteState(r) ==
  /\ pc[r] = "write"
  /\ \E text \in BOOLEAN : \E written \in SUBSET Storable(r, text) :
       /\ attempts[r] > 0 => text
       /\ state' = [h \in Hotels |->
                      IF h \in written THEN Upserted(r, h) ELSE state[h]]
       /\ recovered' = recovered \cup (written \ seen[r].bottom)
       /\ \/ /\ written = seen[r].elig
             /\ stamp' = [stamp EXCEPT ![r] = now]
             /\ Advance(r, "emit")
          \/ Retry(r) /\ UNCHANGED stamp
  /\ UNCHANGED <<now, users, poc, seen, alert, prior, requested, lastMail>>

-----------------------------------------------------------------------------
(* The digests of a run: one for each POC of an alerted hotel.             *)

Group_First(r, p) ==
  LET all == {h \in alert[r] : seen[r].poc[h] = p}
  IN  IF all = {} THEN {} ELSE {CHOOSE h \in all : TRUE}
Group(r, p) == {h \in alert[r] : seen[r].poc[h] = p}

Sent(p) == Cardinality({e \in requested : e.poc = p})

\* The worst Cap hotels of a group, which its digest names.
Named(r, p) ==
  {h \in Group(r, p) :
     Cardinality({g \in Group(r, p) : seen[r].rank[g] < seen[r].rank[h]}) < Cap}

More(r, p) ==
  LET size == Cardinality(Group(r, p)) IN IF size > Cap THEN size - Cap ELSE 0

\* A POC whose account is gone by now gets none.
Digests(r) ==
  {[poc |-> p, week |-> Week(stamp[r]), hotels |-> Named(r, p), more |-> More(r, p),
    n |-> Sent(p) + 1] : p \in {q \in users : Group(r, q) # {}}}

\* The events are sent, and then the step returns or its value is lost; or it
\* fails before it sends them.
EmitPocEmails(r) ==
  /\ pc[r] = "emit"
  /\ LET named == UNION {Named(r, p) : p \in users} IN
     \/ /\ \A e \in Digests(r) : e.n <= MaxMails
        /\ requested' = requested \cup Digests(r)
        /\ lastMail' = [h \in Hotels |-> IF h \in named THEN stamp[r] ELSE lastMail[h]]
        /\ recovered' = recovered \ named
        /\ Advance(r, "report") \/ Retry(r)
     \/ Retry(r) /\ UNCHANGED <<requested, history>>
  /\ UNCHANGED <<now, users, poc, state, seen, alert, prior, stamp>>

\* emit-skip-rows and write-run-audit: rows of email_log for the hotels without
\* a POC and an audit row, which nothing reads back.
Report(r) ==
  /\ pc[r] = "report"
  /\ Advance(r, "idle") \/ Retry(r)
  /\ UNCHANGED <<now, users, poc, state, seen, alert, prior, stamp, requested, history>>

-----------------------------------------------------------------------------
Tick ==
  /\ now < MaxNow
  /\ now' = now + 1
  /\ UNCHANGED <<users, poc, state, runVars, requested, history>>

\* An operator gives a hotel another POC, or takes it away.
AssignPoc(h, p) ==
  /\ poc[h] # p
  /\ poc' = [poc EXCEPT ![h] = p]
  /\ UNCHANGED <<now, users, state, runVars, requested, history>>

\* An account is deleted; the foreign key protects those of current POCs.
DeleteUser(p) ==
  /\ p \notin {poc[h] : h \in Hotels}
  /\ users' = users \ {p}
  /\ UNCHANGED <<now, poc, state, runVars, requested, history>>

RunStep(r) ==
  \/ LoadConfig(r) \/ DiffState(r) \/ WriteState(r) \/ EmitPocEmails(r)
  \/ Report(r)

Next ==
  \/ \E r \in Runs : Trigger(r) \/ RunStep(r)
  \/ Tick
  \/ \E h \in Hotels, p \in users \cup {NoPoc} : AssignPoc(h, p)
  \/ \E p \in users : DeleteUser(p)

Spec == Init /\ [][Next]_vars

-----------------------------------------------------------------------------
(* Properties.                                                             *)

\* When runs do not overlap, a hotel is named in digests of two runs within the
\* cool-down only if it left the bottom tier in between, whatever steps failed,
\* were repeated or were given up in those runs.
AlertSpacing ==
  [][\A h \in Hotels :
       lastMail[h] # Never /\ lastMail'[h] # lastMail[h] =>
         \/ h \in recovered
         \/ lastMail'[h] - lastMail[h] >= Cooldown]_vars

\* The stamp that starts the cool-down of a mailed hotel is never lost.
StampSurvives ==
  \A h \in Hotels : lastMail[h] # Never => state[h].alerted >= lastMail[h]

\* A digest tells of a hotel that it names, or that it counts because the Cap
\* hotels before it in the ranking are worse.
Tells(e, r, h) ==
  \/ h \in e.hotels
  \/ /\ e.more > 0
     /\ Cap <= Cardinality({g \in alert[r] : /\ seen[r].poc[g] = seen[r].poc[h]
                                            /\ seen[r].rank[g] < seen[r].rank[h]})

\* A run that gets past emit-poc-emails has asked for a digest that tells of each
\* hotel it decided to alert, for the POC the hotel had when it was classified,
\* unless that POC's account is gone.
NobodyForgotten ==
  \A r \in Runs : pc[r] = "report" =>
    \A h \in alert[r] : seen[r].poc[h] \in users =>
      \E e \in requested :
        Tells(e, r, h) /\ e.poc = seen[r].poc[h] /\ e.week = Week(stamp[r])
=============================================================================
