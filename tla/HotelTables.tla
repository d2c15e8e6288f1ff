---------------------------- MODULE HotelTables ----------------------------
(***************************************************************************)
(* The tables that merges of hotels rewrite, and the statements that both  *)
(* of them, applyLocationMerge (lib/location-merge.ts) and applyBulkMerge  *)
(* (lib/multi-pos-merge.ts), run for a canonical location c and a defunct  *)
(* one d.                                                                  *)
(*                                                                         *)
(* Both run in a transaction at READ COMMITTED: a statement sees what the  *)
(* others have committed by then and what its own transaction has written, *)
(* others see the writes at the commit.  So a transaction is its writes,   *)
(* what it sees is Seen(writes), and a statement that makes u of the       *)
(* tables t it sees adds the difference.                                   *)
(*                                                                         *)
(* Tables that are treated alike are one variable: at[] holds the rows     *)
(* with an id of their own (kiosk assignments, sales, products, flags,     *)
(* action items), single the memberships unique by location (regions,      *)
(* location groups), multi the hotel groups.                               *)
(***************************************************************************)
EXTENDS Naturals

CONSTANTS
  Locs,          \* locations
  Rows,          \* ids of rows with a location_id
  ProductOf,     \* the (product, provider) of a location_products row
  NoProduct,     \* of a row of another table
  Regions, Groups,
  Absent, Gone,  \* a row not inserted yet, a row deleted
  Kept           \* a row a transaction has not written

ASSUME RowsAssumption ==
  /\ Absent \notin Locs /\ Gone \notin Locs /\ Absent # Gone
  /\ Kept \notin Locs \cup {Absent, Gone}

VARIABLES
  archived,  \* locations with an archived_at
  at,        \* at[r]: the location_id of row r
  single,    \* location_region_memberships, location_group_memberships
  multi      \* location_hotel_group_memberships

stored == <<archived, at, single, multi>>

OnePerLocation(memberships) ==
  \A p, q \in memberships : p[1] = q[1] => p = q

StoredOK ==
  /\ archived \subseteq Locs
  /\ at \in [Rows -> Locs \cup {Absent, Gone}]
  /\ single \subseteq Locs \X Regions /\ multi \subseteq Locs \X Groups

InitStored ==
  /\ archived = {}
  /\ at \in [Rows -> Locs \cup {Absent}]
  /\ single \in {m \in SUBSET (Locs \X Regions) : OnePerLocation(m)}
  /\ multi \in SUBSET (Locs \X Groups)

-----------------------------------------------------------------------------
(* A transaction.                                                          *)

Changes(S) == [lost : SUBSET S, got : SUBSET S]
Writes == [archived : SUBSET Locs, at : [Rows -> Locs \cup {Absent, Gone, Kept}],
           single : Changes(Locs \X Regions), multi : Changes(Locs \X Groups)]

NoWrites ==
  [archived |-> {}, at |-> [r \in Rows |-> Kept],
   single |-> [lost |-> {}, got |-> {}], multi |-> [lost |-> {}, got |-> {}]]

Committed == [archived |-> archived, at |-> at, single |-> single, multi |-> multi]

Changed(s, ch) == (s \ ch.lost) \cup ch.got

Seen(w) ==
  [archived |-> archived \cup w.archived,
   at |-> [r \in Rows |-> IF w.at[r] = Kept THEN at[r] ELSE w.at[r]],
   single |-> Changed(single, w.single),
   multi |-> Changed(multi, w.multi)]

\* The changes ch and, after them, those from s to s2.
Further(ch, s, s2) ==
  [lost |-> ch.lost \cup (s \ s2), got |-> (ch.got \ (s \ s2)) \cup (s2 \ s)]

\* The writes w and those of a statement that makes u of what it sees, t.
Wrote(w, t, u) ==
  [archived |-> w.archived \cup (u.archived \ t.archived),
   at |-> [r \in Rows |-> IF u.at[r] = t.at[r] THEN w.at[r] ELSE u.at[r]],
   single |-> Further(w.single, t.single, u.single),
   multi |-> Further(w.multi, t.multi, u.multi)]

\* A row written by one transaction, or its key in a unique index, makes a
\* statement of another wait: the writes of two are apart.
Apart(w, v) ==
  LET touched(ch) == ch.lost \cup ch.got
      keys(ch) == {m[1] : m \in touched(ch)}
  IN  /\ \A r \in Rows : Kept \in {w.at[r], v.at[r]}
      /\ keys(w.single) \cap keys(v.single) = {}
      /\ touched(w.multi) \cap touched(v.multi) = {}
      /\ w.archived \cap v.archived = {}

Commit(w) ==
  /\ archived' = Seen(w).archived /\ at' = Seen(w).at
  /\ single' = Seen(w).single /\ multi' = Seen(w).multi

-----------------------------------------------------------------------------
(* The statements for one pair.                                            *)

\* A row of the defunct location d that the canonical one has a like of.
Collides_Anywhere(r, at0, c, d) ==
  ProductOf[r] # NoProduct
    /\ \E q \in Rows \ {r} : at0[q] \in {c, d} /\ ProductOf[q] = ProductOf[r]
Collides(r, at0, c, d) ==
  ProductOf[r] # NoProduct
    /\ \E q \in Rows : at0[q] = c /\ ProductOf[q] = ProductOf[r]

\* The four DELETEs: what is at d and would collide with what is at c.
WithoutCollisions_GroupsOnly(t, c, d) ==
  [archived |-> t.archived,
   at |-> [r \in Rows |-> IF t.at[r] = d /\ Collides(r, t.at, c, d) THEN Gone
                          ELSE t.at[r]],
   single |-> t.single,
   multi |-> {m \in t.multi : m[1] = d => <<c, m[2]>> \notin t.multi}]
WithoutCollisions(t, c, d) ==
  [archived |-> t.archived,
   at |-> [r \in Rows |-> IF t.at[r] = d /\ Collides(r, t.at, c, d) THEN Gone
                          ELSE t.at[r]],
   single |-> {m \in t.single : m[1] = d => \A n \in t.single : n[1] # c},
   multi |-> {m \in t.multi : m[1] = d => <<c, m[2]>> \notin t.multi}]

\* The UPDATEs, and the archival of d.
Moved(memberships, c, d) ==
  {m \in memberships : m[1] # d} \cup {<<c, m[2]>> : m \in {n \in memberships : n[1] = d}}

Rewritten(t, c, d) ==
  [archived |-> t.archived \cup {d},
   at |-> [r \in Rows |-> IF t.at[r] = d THEN c ELSE t.at[r]],
   single |-> Moved(t.single, c, d), multi |-> Moved(t.multi, c, d)]

\* Where a membership that the UPDATEs move is there already, they fail.
MeetsIndex(t, c, d) ==
  \/ \E m, n \in t.single : m[1] = d /\ n[1] = c
  \/ \E m \in t.multi : m[1] = d /\ <<c, m[2]>> \in t.multi
=============================================================================
