----------------------------- MODULE BulkMerge -----------------------------
(***************************************************************************)
(* The review of duplicate hotels: decisions on proposed pairs             *)
(* (saveClusterDecision) and the bulk merge of the approved ones           *)
(* (applyApprovedMerges and the script multi-pos-merge.ts, both through    *)
(* applyBulkMerge of lib/multi-pos-merge.ts).                              *)
(*                                                                         *)
(* An application reads the pending pairs, merges them in one transaction  *)
(* and stamps their proposals in another; it takes no lock.  Two may be    *)
(* under way, each of their statements seeing what the other has committed *)
(* by then, and each may fail at any point.  The tables, and the           *)
(* statements for one pair, are those of HotelTables.                      *)
(***************************************************************************)
EXTENDS HotelTables, FiniteSets, SequencesExt

CONSTANTS
  Pairs,         \* proposed <<canonical, defunct>> pairs
  Appliers,      \* calls of an application that may be under way at once
  Idle,
  MaxDecisions,  \* bound on the decisions saved
  MaxReads,      \* bound on the applications started
  MaxInserts     \* bound on the rows other writers insert

ASSUME PairsAssumption ==
  Pairs \subseteq {p \in Locs \X Locs : p[1] # p[2]} /\ IsFiniteSet(Pairs)

\* address_fix counts as rejected: both are documentation only.
Decisions == {"none", "approved", "swapped", "rejected"}

VARIABLES
  decision,  \* merge_proposals.decision, "none" while there is no proposal
  applied,   \* proposals with an applied_at
  call,      \* call[w]: an application under way
  merged,    \* history: proposals whose pairs were merged
  \* counters of the bounds, the second also counting applications committed
  decisions, reads, commits, inserts

counters == <<decisions, reads, commits, inserts>>
vars == <<archived, at, single, multi, decision, applied, call, merged,
          decisions, reads, commits, inserts>>

\* The proposals read and their pairs; the statements that come next; pairs
\* done; the writes of the transaction; the commits of anybody before it began.
Calls == [ids : SUBSET Pairs, pairs : Seq({p \in Locs \X Locs : p[1] # p[2]}),
          next : {"delete", "rewrite", "stamp"}, done : Nat, own : Writes,
          since : Nat]

TypeOK ==
  /\ StoredOK
  /\ decision \in [Pairs -> Decisions]
  /\ applied \subseteq {p \in Pairs : decision[p] # "none"}
  /\ DOMAIN call = Appliers /\ \A w \in Appliers : call[w] # Idle => call[w] \in Calls
  /\ merged \subseteq Pairs
  /\ commits \in Nat /\ inserts \in Nat

Init ==
  /\ InitStored
  /\ decision = [p \in Pairs |-> "none"]
  /\ applied = {}
  /\ call = [w \in Appliers |-> Idle]
  /\ merged = {}
  /\ decisions = 0 /\ reads = 0 /\ commits = 0 /\ inserts = 0

-----------------------------------------------------------------------------
(* saveClusterDecision: an upsert that leaves applied_at alone.            *)

Decide(p, d) ==
  /\ decisions < MaxDecisions /\ decisions' = decisions + 1
  /\ decision' = [decision EXCEPT ![p] = d]
  /\ UNCHANGED <<stored, applied, call, merged, reads, commits, inserts>>

-----------------------------------------------------------------------------
(* applyApprovedMerges.                                                    *)

Pending == {p \in Pairs : decision[p] \in {"approved", "swapped"} /\ p \notin applied}

\* The surviving location of a decision comes first.
Oriented_Twice(p) == IF decision[p] = "swapped" THEN <<p[2], p[2]>> ELSE p
Oriented(p) == IF decision[p] = "swapped" THEN <<p[2], p[1]>> ELSE p

\* The pending proposals, in any order: the SELECT has no ORDER BY.
BeginApply(w) ==
  /\ call[w] = Idle /\ Pending # {}
  /\ reads < MaxReads /\ reads' = reads + 1
  /\ \E order \in SetToSeqs(Pending) :
       call' = [call EXCEPT ![w] =
                  [ids |-> Pending, pairs |-> [i \in DOMAIN order |-> Oriented(order[i])],
                   next |-> "delete", done |-> 0, own |-> NoWrites, since |-> 0]]
  /\ UNCHANGED <<stored, decision, applied, merged, decisions, commits, inserts>>

\* The pair whose turn it is.
Current(w) == call[w].pairs[call[w].done + 1]

\* What another application has written, its commit or rollback waited for.
NotLocked(w, own) ==
  \A v \in Appliers \ {w} : call[v] # Idle => Apart(own, call[v].own)

\* applyBulkMerge, steps 1 to 4: the DELETEs for one pair.
DeleteCollisions(w) ==
  LET t == Seen(call[w].own)
      own == Wrote(call[w].own, t, WithoutCollisions(t, Current(w)[1], Current(w)[2]))
  IN
  /\ call[w] # Idle /\ call[w].next = "delete" /\ call[w].done < Len(call[w].pairs)
  /\ NotLocked(w, own)
  /\ call' = [call EXCEPT ![w].next = "rewrite", ![w].own = own,
                          ![w].since = IF call[w].done = 0 THEN commits + inserts
                                       ELSE call[w].since]
  /\ UNCHANGED <<stored, decision, applied, merged, counters>>

\* Steps 5 and 6: the UPDATEs for it.
RewriteReferences(w) ==
  LET t == Seen(call[w].own)
      own == Wrote(call[w].own, t, Rewritten(t, Current(w)[1], Current(w)[2]))
  IN
  /\ call[w] # Idle /\ call[w].next = "rewrite"
  /\ ~MeetsIndex(t, Current(w)[1], Current(w)[2])
  /\ NotLocked(w, own)
  /\ call' = [call EXCEPT ![w].next = "delete", ![w].own = own,
                          ![w].done = call[w].done + 1]
  /\ UNCHANGED <<stored, decision, applied, merged, counters>>

\* All pairs are committed at once.
CommitMerges(w) ==
  /\ call[w] # Idle /\ call[w].next = "delete" /\ call[w].done = Len(call[w].pairs)
  /\ Commit(call[w].own)
  /\ call' = [call EXCEPT ![w].next = "stamp", ![w].own = NoWrites]
  /\ merged' = merged \cup call[w].ids
  /\ commits' = commits + 1
  /\ UNCHANGED <<decision, applied, decisions, reads, inserts>>

\* applied_at of the proposals that were read, whatever their decision is now.
Stamped_Pending(w) == Pending
Stamped(w) == call[w].ids

StampProposals(w) ==
  /\ call[w] # Idle /\ call[w].next = "stamp"
  /\ applied' = applied \cup Stamped(w)
  /\ call' = [call EXCEPT ![w] = Idle]
  /\ UNCHANGED <<stored, decision, merged, counters>>

\* The transaction is rolled back, of two that wait for each other one; the
\* stamp's statement fails (the page's ANY(...::uuid[]) on a list of one, says
\* the script); or the process dies.
Fail(w) ==
  /\ call[w] # Idle
  /\ call' = [call EXCEPT ![w] = Idle]
  /\ UNCHANGED <<stored, decision, applied, merged, counters>>

-----------------------------------------------------------------------------
\* Imports and assignments find locations by code, archived ones too.
InsertRow(r, l) ==
  /\ at[r] = Absent
  /\ inserts < MaxInserts /\ inserts' = inserts + 1
  /\ at' = [at EXCEPT ![r] = l]
  /\ UNCHANGED <<archived, single, multi, decision, applied, call, merged,
                 decisions, reads, commits>>

Next ==
  \/ \E p \in Pairs, d \in Decisions \ {"none"} : Decide(p, d)
  \/ \E w \in Appliers :
       \/ BeginApply(w) \/ DeleteCollisions(w) \/ RewriteReferences(w)
       \/ CommitMerges(w) \/ StampProposals(w) \/ Fail(w)
  \/ \E r \in Rows, l \in Locs : InsertRow(r, l)

Spec == Init /\ [][Next]_vars

-----------------------------------------------------------------------------
(* Properties.                                                             *)

\* Where what is at l ends: at the canonical location of the first pair it is
\* the defunct one of, and on from there through the pairs that follow.
Final(pairs, l) ==
  LET end[i \in 0..Len(pairs)] ==
        IF i = 0 THEN l
        ELSE IF end[i - 1] = pairs[i][2] THEN pairs[i][1] ELSE end[i - 1]
  IN  end[Len(pairs)]

\* Nobody has committed since the first DELETE of an application.
Undisturbed(w) == call[w].since = commits + inserts

\* An application, the first or one repeated because its stamp failed or
\* another was under way, takes everything a location has to where its pairs
\* lead and touches nothing else: rows, or for a product one row in place of
\* its likes; hotel groups; a membership where there was one.  Only rows of
\* defunct locations are deleted, and none that leaves its product out.
\* This is so if nobody else commits between its first statement and its commit;
\* others may have begun, and wait.
AppliesFollowPairs ==
  [][commits' # commits =>
       \E w \in Appliers :
         LET pairs == call[w].pairs
             end(l) == Final(pairs, l)
             defunct == {pairs[i][2] : i \in DOMAIN pairs}
         IN
         /\ call'[w] # call[w] /\ call[w].next = "delete"
         /\ Undisturbed(w) =>
            /\ \A r \in Rows :
                 IF at[r] \in {Absent, Gone} THEN at'[r] = at[r]
                 ELSE \/ at'[r] = end(at[r])
                      \/ /\ at'[r] = Gone /\ at[r] \in defunct
                         /\ ProductOf[r] # NoProduct
                         /\ \E q \in Rows : /\ ProductOf[q] = ProductOf[r]
                                            /\ at'[q] = end(at[r])
            /\ \A q, r \in Rows :
                 (q # r /\ ProductOf[q] = ProductOf[r] /\ ProductOf[q] # NoProduct
                    /\ at'[q] = at'[r] /\ at'[q] \in Locs) => at[q] = at[r]
            /\ multi' = {<<end(m[1]), m[2]>> : m \in multi}
            /\ {m[1] : m \in single'} = {end(m[1]) : m \in single}
            /\ \A m \in single : m[1] \notin defunct => m \in single'
            /\ archived' = archived \cup defunct]_vars

\* A proposal that says it was applied has been merged, also when it was decided
\* or decided again while an application was under way.
StampedWasMerged == applied \subseteq merged
=============================================================================
