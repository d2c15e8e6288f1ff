--------------------------- MODULE LocationMerge ---------------------------
(***************************************************************************)
(* Merging locations and undoing a merge: applyLocationMerge               *)
(* (lib/location-merge.ts) and undoMerge                                   *)
(* (admin/audit-log/[id]/actions/undo-merge.ts).                           *)
(*                                                                         *)
(* Both are database transactions under one transaction-scoped advisory    *)
(* lock.  The other writers do not take it: imports, assignments, edits of *)
(* fields and of hotel groups, archivals and the bulk merge of             *)
(* lib/multi-pos-merge.ts commit between any two statements of a merge.    *)
(* A merge is therefore its reads, the update of the canonical location's  *)
(* fields, for each defunct location the DELETEs and the UPDATEs, and the  *)
(* commit.                                                                 *)
(***************************************************************************)
EXTENDS HotelTables, Sequences

CONSTANTS
  Free,          \* a snapshot not written, or deleted by its undo
  NoMerge, NoValue,
  MaxDefuncts,   \* bound on the locations one merge archives
  MaxMerges,     \* bound on the merges committed
  MaxWrites      \* bound on the commits of other writers

ASSUME BoundAssumption ==
  MaxDefuncts \in Nat \ {0} /\ MaxMerges \in Nat /\ MaxWrites \in Nat

\* Ids of location_merge_snapshots: a merge writes one at most.
Snaps == 1..MaxMerges

VARIABLES
  field,     \* field[l]: what field resolutions may overwrite; a value is
             \* named after the merge that wrote it
  merging,   \* the transaction that holds the lock
  snap,      \* location_merge_snapshots
  before,    \* before[s]: history, the data as the merge of s read them
  after,     \* after[s]: history, the data as the merge of s left them, if
             \* no other writer has committed since it read them
  merges, writes \* counters of the two bounds

tables == <<stored, field>>
vars == <<archived, at, single, multi, field, merging, snap, before,
          after, merges, writes>>

\* The value there was at first, and one that updateLocationField writes.
Original == 0
Edited == MaxMerges + 1
Values == 0..Edited

Tables == [archived : SUBSET Locs, at : [Rows -> Locs \cup {Absent, Gone}],
           single : SUBSET (Locs \X Regions), multi : SUBSET (Locs \X Groups),
           field : [Locs -> Values]]

Now == [archived |-> archived, at |-> at, single |-> single, multi |-> multi,
        field |-> field]

\* The payload of a snapshot: canonical_id, archived_ids, fk_changes by kind
\* of table, canonical_field_changes.
Payload == [canon : Locs, archived : SUBSET Locs, moved : SUBSET (Rows \X Locs),
            single : SUBSET (Locs \X Regions), multi : SUBSET (Locs \X Groups),
            field : Values \cup {NoValue}]

Defuncts(ds) == {ds[i] : i \in DOMAIN ds}

\* Calls of applyLocationMerge: a canonical location and a list of others.
Lists(c) ==
  {ds \in UNION {[1..n -> Locs \ {c}] : n \in 1..MaxDefuncts} :
     \A i, j \in DOMAIN ds : ds[i] = ds[j] => i = j}

\* A merge under way: its call, what it has read, the statements it is about
\* to run, the defunct locations it is done with, its writes, and how many
\* commits of others there had been when it read.
Merges == [canon : Locs, defuncts : Seq(Locs), value : Values \cup {NoValue},
           read : Payload, seen : Tables, next : {"resolve", "delete", "rewrite"},
           done : Nat, own : Writes, since : Nat]

ASSUME ValueAssumption ==
  /\ NoValue \notin Nat
  /\ NoMerge \notin Merges /\ NoMerge \notin Tables /\ Free \notin Payload

TypeOK ==
  /\ StoredOK /\ field \in [Locs -> Values]
  /\ merging = NoMerge \/ merging \in Merges
  /\ merges \in 0..MaxMerges /\ writes \in 0..MaxWrites
  /\ snap \in [Snaps -> Payload \cup {Free}]
  /\ before \in [Snaps -> Tables \cup {NoMerge}]
  /\ after \in [Snaps -> Tables \cup {NoMerge}]

Init ==
  /\ InitStored
  /\ field = [l \in Locs |-> Original]
  /\ merging = NoMerge
  /\ snap = [s \in Snaps |-> Free]
  /\ before = [s \in Snaps |-> NoMerge]
  /\ after = [s \in Snaps |-> NoMerge]
  /\ merges = 0
  /\ writes = 0

-----------------------------------------------------------------------------
(* applyLocationMerge.                                                     *)

\* Those a merge stamps, and so those its undo may bring back.
IdsToArchive_All(D) == D
IdsToArchive(D) == D \ archived

\* Steps 0 to B.5: the lock, which a second merge does not wait for, and what
\* the snapshot will hold.
BeginMerge(c, ds, value) ==
  LET D == Defuncts(ds) IN
  /\ merging = NoMerge /\ merges < MaxMerges
  /\ merging' =
       [canon |-> c, defuncts |-> ds, value |-> value,
        read |-> [canon |-> c,
                  archived |-> IdsToArchive(D),
                  moved |-> {p \in Rows \X D : at[p[1]] = p[2]},
                  single |-> {p \in single : p[1] \in D},
                  multi |-> {p \in multi : p[1] \in D},
                  field |-> IF value = NoValue THEN NoValue ELSE field[c]],
        seen |-> Now, next |-> "resolve", done |-> 0, own |-> NoWrites,
        since |-> writes]
  /\ UNCHANGED <<tables, snap, before, after, merges, writes>>

\* Steps C and C.5: the UPDATE of the canonical location, whose row is locked
\* from then on, if there are resolutions.
ResolveFields ==
  /\ merging # NoMerge /\ merging.next = "resolve"
  /\ merging' = [merging EXCEPT !.next = "delete"]
  /\ UNCHANGED <<tables, snap, before, after, merges, writes>>

\* The defunct location whose turn it is.
Current == merging.defuncts[merging.done + 1]

\* Step D: the DELETEs for one defunct location.
DeleteCollisions ==
  LET t == Seen(merging.own) IN
  /\ merging # NoMerge /\ merging.next = "delete"
  /\ merging.done < Len(merging.defuncts)
  /\ merging' = [merging EXCEPT !.next = "rewrite",
       !.own = Wrote(merging.own, t, WithoutCollisions(t, merging.canon, Current))]
  /\ UNCHANGED <<tables, snap, before, after, merges, writes>>

\* Step D: the UPDATEs for it.
RewriteReferences ==
  LET t == Seen(merging.own) IN
  /\ merging # NoMerge /\ merging.next = "rewrite"
  /\ ~MeetsIndex(t, merging.canon, Current)
  /\ merging' = [merging EXCEPT !.next = "delete", !.done = merging.done + 1,
       !.own = Wrote(merging.own, t, Rewritten(t, merging.canon, Current))]
  /\ UNCHANGED <<tables, snap, before, after, merges, writes>>

\* The canonical location's fields; without resolutions nothing is set.
Resolved_Blank(c, v) == [field EXCEPT ![c] = v]
Resolved(c, v) == IF v = NoValue THEN field ELSE [field EXCEPT ![c] = v]

Undisturbed == merging.since = writes

\* All of it is committed, with a snapshot of what was read if there is
\* anything to put into it.
CommitMerge ==
  LET s == merges + 1
      read == merging.read
      worth == read.archived # {} \/ read.moved # {} \/ read.single # {}
                 \/ read.multi # {}
  IN
  /\ merging # NoMerge /\ merging.next = "delete"
  /\ merging.done = Len(merging.defuncts)
  /\ Commit(merging.own)
  /\ field' = Resolved(merging.canon, merging.value)
  /\ IF worth
       THEN /\ snap' = [snap EXCEPT ![s] = read]
            /\ before' = [before EXCEPT ![s] = merging.seen]
            /\ after' = [after EXCEPT ![s] = IF Undisturbed THEN Now' ELSE NoMerge]
       ELSE UNCHANGED <<snap, before, after>>
  /\ merging' = NoMerge
  /\ merges' = merges + 1
  /\ UNCHANGED writes

\* A statement fails or the server dies: the transaction is rolled back.
AbortMerge ==
  /\ merging # NoMerge
  /\ merging' = NoMerge
  /\ UNCHANGED <<tables, snap, before, after, merges, writes>>

-----------------------------------------------------------------------------
(* undoMerge.                                                              *)

\* UPDATE ... SET location_id = previous_value WHERE other column = x AND
\* location_id = canonical: for each x the row of the canonical location, if
\* it has one, goes to one of the locations the snapshot has with x.
\* taker[x] is the one whose change is applied first.
Takers(memberships, saved, c) ==
  LET xs == {p[2] : p \in {q \in saved : <<c, q[2]>> \in memberships}}
  IN  {f \in [xs -> Locs] : \A x \in xs : <<f[x], x>> \in saved}

GiveBack(memberships, taker, c) ==
  (memberships \ {<<c, x>> : x \in DOMAIN taker})
     \cup {<<taker[x], x>> : x \in DOMAIN taker}

\* A row with an id of its own gets its previous value, wherever it is now.
RowsBack(s) ==
  [r \in Rows |->
     IF at[r] # Gone /\ \E d \in Locs : <<r, d>> \in snap[s].moved
       THEN CHOOSE d \in Locs : <<r, d>> \in snap[s].moved
       ELSE at[r]]

\* A lock to wait for, the snapshot row locked and deleted with everything it
\* restores.  A taker that has got a row meets a unique index: for a region
\* any row of its own, for a hotel group that very one.  Then it all fails.
UndoMerge(s) ==
  /\ merging = NoMerge /\ snap[s] \in Payload
  /\ LET c == snap[s].canon IN
     /\ \E taker \in Takers(single, snap[s].single, c) :
          /\ \A x \in DOMAIN taker, p \in single : p[1] # taker[x]
          /\ single' = GiveBack(single, taker, c)
     /\ \E taker \in Takers(multi, snap[s].multi, c) :
          /\ \A x \in DOMAIN taker : <<taker[x], x>> \notin multi
          /\ multi' = GiveBack(multi, taker, c)
     /\ at' = RowsBack(s)
     /\ field' = Resolved(c, snap[s].field)
     /\ archived' = archived \ snap[s].archived
  /\ snap' = [snap EXCEPT ![s] = Free]
  /\ before' = [before EXCEPT ![s] = NoMerge]
  /\ after' = [after EXCEPT ![s] = NoMerge]
  /\ UNCHANGED <<merging, merges, writes>>

-----------------------------------------------------------------------------
(* Writers that do not take the lock.  What the merge under way has        *)
(* written they wait for.                                                  *)

OwnWrites == IF merging = NoMerge THEN NoWrites ELSE merging.own
LockedLocs ==
  OwnWrites.archived
    \cup {l \in Locs : /\ merging # NoMerge /\ merging.canon = l
                       /\ merging.next # "resolve" /\ merging.value # NoValue}

Foreign ==
  /\ writes < MaxWrites /\ writes' = writes + 1
  /\ UNCHANGED <<merging, snap, before, after, merges>>

\* archiveLocation: whatever the location is, with rows or without.
ArchiveLocation(l) ==
  /\ Foreign
  /\ l \notin archived /\ l \notin LockedLocs
  /\ archived' = archived \cup {l}
  /\ UNCHANGED <<at, single, multi, field>>

\* updateLocationField.
UpdateLocationField(l) ==
  /\ Foreign
  /\ l \notin LockedLocs
  /\ field' = [field EXCEPT ![l] = Edited]
  /\ UNCHANGED stored

\* A row is inserted: assignKiosk, or an import that resolves a customer code.
\* Neither asks whether the location is archived.
InsertRow(r, l) ==
  /\ Foreign
  /\ at[r] = Absent
  /\ at' = [at EXCEPT ![r] = l]
  /\ UNCHANGED <<archived, single, multi, field>>

\* setLocationHotelGroupMemberships: its DELETE of the groups to remove or its
\* INSERT ... ON CONFLICT DO NOTHING of those to add, two statements of their own.
SetHotelGroups(l, gs) ==
  /\ Foreign
  /\ multi' \in {multi \ ({l} \X gs), multi \cup ({l} \X gs)}
  /\ Apart(Wrote(NoWrites, Committed, [Committed EXCEPT !.multi = multi']), OwnWrites)
  /\ UNCHANGED <<archived, at, single, field>>

\* applyBulkMerge for a pair, the whole transaction.
BulkMergePair(c, d) ==
  LET u == Rewritten(WithoutCollisions(Committed, c, d), c, d)
      w == Wrote(NoWrites, Committed, u)
  IN  /\ Foreign
      /\ Apart(w, OwnWrites) /\ (d \in archived \/ d \notin LockedLocs)
      /\ Commit(w)
      /\ UNCHANGED field

Next ==
  \/ \E c \in Locs : \E ds \in Lists(c), v \in {merges + 1, NoValue} :
       BeginMerge(c, ds, v)
  \/ ResolveFields \/ DeleteCollisions \/ RewriteReferences
  \/ CommitMerge \/ AbortMerge
  \/ \E s \in Snaps : UndoMerge(s)
  \/ \E l \in Locs :
       \/ ArchiveLocation(l) \/ UpdateLocationField(l)
       \/ \E r \in Rows : InsertRow(r, l)
       \/ \E gs \in (SUBSET Groups) \ {{}} : SetHotelGroups(l, gs)
  \/ \E c, d \in Locs : c # d /\ BulkMergePair(c, d)

Spec == Init /\ [][Next]_vars

-----------------------------------------------------------------------------
(* Properties.  They are about merges between whose reads and commit no    *)
(* other writer commits: the lock keeps merges and undos apart and nothing *)
(* else (see README.md for what the other writers can do to a merge).      *)

\* The DELETEs leave the UPDATEs nothing to collide with, however many
\* locations are merged and whatever merges and undos came before: no merge is
\* stopped by a unique index unless another writer comes in between.
NoIndexIsMet ==
  merging # NoMerge /\ merging.next = "rewrite" /\ Undisturbed
    => ~MeetsIndex(Seen(merging.own), merging.canon, Current)

\* A snapshot goes with its undo.
Undone(s) == snap[s] # Free /\ snap'[s] = Free

\* Every hotel group a merged location was in, every product it offered and
\* the membership of the canonical location, or else one of them, are the
\* canonical location's afterwards, and the rest of its rows as well.
MergeLosesNothing ==
  [][merges' # merges /\ Undisturbed =>
       LET c == merging.canon
           all == Defuncts(merging.defuncts) \cup {c}
       IN  /\ \A p \in multi : p[1] \in all => <<c, p[2]>> \in multi'
           /\ (\E p \in single : p[1] \in all) => \E p \in single' : p[1] = c
           /\ \A p \in single : p[1] = c => p \in single'
           /\ \A r \in Rows : at[r] \in all =>
                \/ at'[r] = c
                \/ /\ ProductOf[r] # NoProduct
                   /\ \E q \in Rows : ProductOf[q] = ProductOf[r] /\ at'[q] = c]_vars

\* An undo that nothing has come before puts the rows that are still there, the
\* archived locations and the canonical location's fields back to what the
\* merge read, also after other merges that were undone.
UndoInverts ==
  [][\A s \in Snaps : Undone(s) /\ Now = after[s] =>
       /\ \A r \in Rows : before[s].at[r] \in Locs /\ at[r] # Gone
            => at'[r] = before[s].at[r]
       /\ \A d \in snap[s].archived \cup {p[2] : p \in snap[s].moved} :
            d \in archived' <=> d \in before[s].archived
       /\ field' = before[s].field]_vars

\* location-merge.ts: "The snapshot replays these in undoMerge to restore prior
\* FK values byte-for-byte from snapshot contents alone", these being the
\* memberships as well as the rows.
UndoRestoresMemberships ==
  [][\A s \in Snaps : Undone(s) /\ Now = after[s] =>
       single' = before[s].single /\ multi' = before[s].multi]_vars
=============================================================================
