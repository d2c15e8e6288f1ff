------------------------ MODULE LocationMergeProofs ------------------------
(***************************************************************************)
(* Proofs about LocationMerge for any locations, rows, groups and bounds.  *)
(***************************************************************************)
EXTENDS LocationMerge, TLAPS

USE BoundAssumption, ValueAssumption

-----------------------------------------------------------------------------
(* What a transaction sees, and its statements (as in BulkMergeProofs).    *)

AreTables(t) ==
  /\ t.archived \subseteq Locs
  /\ t.at \in [Rows -> Locs \cup {Absent, Gone}]
  /\ t.single \subseteq Locs \X Regions
  /\ t.multi \subseteq Locs \X Groups

Same(t, u) ==
  t.archived = u.archived /\ t.at = u.at /\ t.single = u.single /\ t.multi = u.multi

\* What is seen are tables, and before the first statement those there are.
LEMMA SeenTables ==
  ASSUME StoredOK, NEW w \in Writes
  PROVE  AreTables(Seen(w))
<1>1. /\ w.archived \subseteq Locs /\ w.at \in [Rows -> Locs \cup {Absent, Gone, Kept}]
      /\ w.single.got \subseteq Locs \X Regions /\ w.multi.got \subseteq Locs \X Groups
  BY DEF Writes, Changes
<1>. QED  BY <1>1 DEF StoredOK, AreTables, Seen, Changed

LEMMA NothingWritten ==
  ASSUME StoredOK
  PROVE  NoWrites \in Writes /\ Same(Seen(NoWrites), Committed)
<1>1. NoWrites \in Writes
  BY DEF NoWrites, Writes, Changes
<1>2. Seen(NoWrites).at = at
  BY DEF StoredOK, Seen, NoWrites
<1>. QED  BY <1>1, <1>2 DEF Same, Seen, NoWrites, Committed, Changed

\* Changes and further ones make what the further ones lead to.
LEMMA FurtherMakes ==
  ASSUME NEW S, NEW ch \in Changes(S), NEW x, NEW y,
         Changed(x, ch) \subseteq S, y \subseteq S
  PROVE  /\ Further(ch, Changed(x, ch), y) \in Changes(S)
         /\ Changed(x, Further(ch, Changed(x, ch), y)) = y
<1>. PICK s : s = Changed(x, ch)
  OBVIOUS
<1>1. ch.lost \subseteq S /\ ch.got \subseteq S
  BY DEF Changes
<1>2. /\ ch.lost \cup (s \ y) \in SUBSET S
      /\ (ch.got \ (s \ y)) \cup (y \ s) \in SUBSET S
  BY <1>1
<1>3. Further(ch, s, y) \in Changes(S)
  BY <1>2 DEF Further, Changes
<1>4. /\ Further(ch, s, y).lost = ch.lost \cup (s \ y)
      /\ Further(ch, s, y).got = (ch.got \ (s \ y)) \cup (y \ s)
  BY DEF Further
<1>5. s = (x \ ch.lost) \cup ch.got
  BY DEF Changed
<1>6. Changed(x, Further(ch, s, y)) = y
  BY <1>4, <1>5 DEF Changed
<1>. QED  BY <1>3, <1>6

\* The writes of a statement that makes u of what it sees make u what is seen.
LEMMA WroteSeen ==
  ASSUME StoredOK, NEW w \in Writes, NEW t, t = Seen(w),
         NEW u, AreTables(u), t.archived \subseteq u.archived
  PROVE  Wrote(w, t, u) \in Writes /\ Same(Seen(Wrote(w, t, u)), u)
<1> DEFINE v == Wrote(w, t, u)
<1>1. /\ w.archived \subseteq Locs /\ w.at \in [Rows -> Locs \cup {Absent, Gone, Kept}]
      /\ w.single \in Changes(Locs \X Regions) /\ w.multi \in Changes(Locs \X Groups)
  BY DEF Writes
<1>2. AreTables(t)
  BY SeenTables
<1>3. /\ t.archived = archived \cup w.archived
      /\ t.single = Changed(single, w.single) /\ t.multi = Changed(multi, w.multi)
      /\ \A r \in Rows : t.at[r] = IF w.at[r] = Kept THEN at[r] ELSE w.at[r]
  BY DEF Seen
<1>4. \A S, ch, x, y : ch \in Changes(S) /\ Changed(x, ch) \subseteq S /\ y \subseteq S
        => Further(ch, Changed(x, ch), y) \in Changes(S)
             /\ Changed(x, Further(ch, Changed(x, ch), y)) = y
  BY FurtherMakes
<1>5. /\ Further(w.single, t.single, u.single) \in Changes(Locs \X Regions)
      /\ Changed(single, Further(w.single, t.single, u.single)) = u.single
  <2>1. t.single \subseteq Locs \X Regions /\ u.single \subseteq Locs \X Regions
    BY <1>2 DEF AreTables
  <2>. HIDE DEF v
  <2>. QED  BY <1>1, <1>3, <1>4, <2>1
<1>6. /\ Further(w.multi, t.multi, u.multi) \in Changes(Locs \X Groups)
      /\ Changed(multi, Further(w.multi, t.multi, u.multi)) = u.multi
  <2>1. t.multi \subseteq Locs \X Groups /\ u.multi \subseteq Locs \X Groups
    BY <1>2 DEF AreTables
  <2>. HIDE DEF v
  <2>. QED  BY <1>1, <1>3, <1>4, <2>1
<1>7. /\ v.archived = w.archived \cup (u.archived \ t.archived)
      /\ v.single = Further(w.single, t.single, u.single)
      /\ v.multi = Further(w.multi, t.multi, u.multi)
      /\ v.at = [r \in Rows |-> IF u.at[r] = t.at[r] THEN w.at[r] ELSE u.at[r]]
  BY DEF Wrote
<1>8. v.at \in [Rows -> Locs \cup {Absent, Gone, Kept}]
  BY <1>1, <1>7 DEF AreTables
<1>9. v.archived \subseteq Locs
  BY <1>1, <1>7 DEF AreTables
<1>10. v \in Writes
  BY <1>5, <1>6, <1>7, <1>8, <1>9 DEF Wrote, Writes
<1>11. Seen(v).at = u.at
  <2>1. u.at \in [Rows -> Locs \cup {Absent, Gone}]
    BY DEF AreTables
  <2>2. Seen(v).at = [r \in Rows |-> IF v.at[r] = Kept THEN at[r] ELSE v.at[r]]
    BY DEF Seen
  <2>3. ASSUME NEW r \in Rows PROVE Seen(v).at[r] = u.at[r]
    <3>1. u.at[r] # Kept
      BY <2>1, RowsAssumption
    <3>. HIDE DEF v
    <3>. QED  BY <1>3, <1>7, <2>2, <3>1
  <2>. HIDE DEF v
  <2>. QED  BY <2>1, <2>2, <2>3
<1>12. Seen(v).archived = u.archived
  BY <1>3, <1>7 DEF Seen
<1>13. Seen(v).single = u.single /\ Seen(v).multi = u.multi
  BY <1>5, <1>6, <1>7 DEF Seen
<1>. QED  BY <1>10, <1>11, <1>12, <1>13 DEF Same

\* The statements make tables of tables, and archive.
LEMMA StatementTables ==
  ASSUME NEW t, AreTables(t), NEW c \in Locs, NEW d \in Locs
  PROVE  /\ AreTables(WithoutCollisions(t, c, d)) /\ AreTables(Rewritten(t, c, d))
         /\ t.archived \subseteq WithoutCollisions(t, c, d).archived
         /\ t.archived \subseteq Rewritten(t, c, d).archived
<1>1. AreTables(WithoutCollisions(t, c, d))
  BY DEF AreTables, WithoutCollisions
<1>2. \A X, s : s \subseteq Locs \X X => Moved(s, c, d) \subseteq Locs \X X
  BY DEF Moved
<1>3. Rewritten(t, c, d).at \in [Rows -> Locs \cup {Absent, Gone}]
  BY DEF AreTables, Rewritten
<1>4. AreTables(Rewritten(t, c, d))
  BY <1>2, <1>3 DEF AreTables, Rewritten
<1>. QED  BY <1>1, <1>4 DEF WithoutCollisions, Rewritten

-----------------------------------------------------------------------------
(* The invariant.                                                          *)

\* A product row that was deleted, its like at c.
Represented(t, r, c) ==
  /\ t.at[r] = Gone /\ ProductOf[r] # NoProduct
  /\ \E q \in Rows : ProductOf[q] = ProductOf[r] /\ t.at[q] = c

RowsTaken(s, t, c, E, F) ==
  \A r \in Rows : s.at[r] \in Locs =>
    IF s.at[r] \in E THEN t.at[r] = c \/ Represented(t, r, c)
    ELSE t.at[r] = s.at[r] \/ (s.at[r] \in F /\ Represented(t, r, c))

GroupsTaken(s, t, c, E, F) ==
  \A p \in s.multi :
    IF p[1] \in E THEN <<c, p[2]>> \in t.multi
    ELSE p \in t.multi \/ (p[1] \in F /\ <<c, p[2]>> \in t.multi)

RegionsTaken(s, t, c, E, F) ==
  \A p \in s.single :
    IF p[1] \in E THEN \E q \in t.single : q[1] = c
    ELSE p \in t.single \/ (p[1] \in F /\ \E q \in t.single : q[1] = c)

\* The tables t are s with all of the locations E taken to c and of F deleted
\* what c has a like of.
Taken(s, t, c, E, F) ==
  /\ AreTables(t) /\ t.archived = s.archived \cup E
  /\ RowsTaken(s, t, c, E, F) /\ GroupsTaken(s, t, c, E, F)
  /\ RegionsTaken(s, t, c, E, F)

\* The defunct locations done with, and the one between its statements.
DoneWith(m) == {m.defuncts[i] : i \in 1..m.done}
HalfDone(m) == IF m.next = "rewrite" THEN {m.defuncts[m.done + 1]} ELSE {}

\* What the merge m in its statements sees, t, if nobody has come in between.
Progress(m, t) ==
  /\ Taken(m.seen, t, m.canon, DoneWith(m), HalfDone(m))
  /\ m.next = "rewrite" => ~MeetsIndex(t, m.canon, m.defuncts[m.done + 1])

\* The call of the merge m, and its payload in terms of what it saw.
Reads(m) ==
  LET D == Defuncts(m.defuncts) IN
  /\ D \subseteq Locs /\ m.canon \notin D
  /\ \A i, j \in DOMAIN m.defuncts : m.defuncts[i] = m.defuncts[j] => i = j
  /\ m.read.canon = m.canon
  /\ m.read.archived = D \ m.seen.archived
  /\ m.read.moved = {p \in Rows \X D : m.seen.at[p[1]] = p[2]}
  /\ m.read.field = IF m.value = NoValue THEN NoValue ELSE m.seen.field[m.canon]
  /\ m.next = "resolve" => m.done = 0
  /\ m.next = "rewrite" => m.done < Len(m.defuncts)

MergeTruth ==
  merging # NoMerge =>
    /\ merges < MaxMerges /\ Reads(merging) /\ merging.since <= writes
    /\ Undisturbed => Now = merging.seen /\ Progress(merging, Seen(merging.own))

\* What the payload p of a merge of D tells about the data b before and a after.
SnapOf(p, b, a, D) ==
  /\ p.archived = D \ b.archived
  /\ D \subseteq a.archived
  /\ p.moved = {q \in Rows \X D : b.at[q[1]] = q[2]}
  /\ \A r \in Rows : b.at[r] \in Locs \ D => a.at[r] = b.at[r]
  /\ IF p.field = NoValue THEN a.field = b.field
     ELSE /\ p.field = b.field[p.canon]
          /\ \E v : a.field = [b.field EXCEPT ![p.canon] = v]

SnapTruth ==
  \A s \in Snaps : snap[s] # Free /\ after[s] # NoMerge =>
    /\ before[s] \in Tables /\ after[s] \in Tables
    /\ \E D \in SUBSET Locs : SnapOf(snap[s], before[s], after[s], D)

IInv == TypeOK /\ MergeTruth /\ SnapTruth

-----------------------------------------------------------------------------
(* What the statements for one defunct location do.                        *)

LEMMA NothingTaken ==
  ASSUME NEW s, NEW t, AreTables(t), Same(s, t), NEW c
  PROVE  Taken(s, t, c, {}, {})
<1>1. t.archived = s.archived \cup {}
  BY DEF Same
<1>2. RowsTaken(s, t, c, {}, {})
  BY DEF Same, RowsTaken
<1>3. GroupsTaken(s, t, c, {}, {}) /\ RegionsTaken(s, t, c, {}, {})
  BY DEF Same, GroupsTaken, RegionsTaken
<1>. QED  BY <1>1, <1>2, <1>3 DEF Taken

\* It is the tables that count.
LEMMA SameTaken ==
  ASSUME NEW s, NEW t, NEW u, NEW c, NEW E, NEW F, Taken(s, t, c, E, F), Same(u, t)
  PROVE  Taken(s, u, c, E, F)
<1>1. AreTables(u) /\ u.archived = s.archived \cup E
  BY DEF Taken, Same, AreTables
<1>2. RowsTaken(s, u, c, E, F)
  BY DEF Taken, Same, RowsTaken, Represented
<1>3. GroupsTaken(s, u, c, E, F) /\ RegionsTaken(s, u, c, E, F)
  BY DEF Taken, Same, GroupsTaken, RegionsTaken
<1>. QED  BY <1>1, <1>2, <1>3 DEF Taken

\* The DELETEs leave what is in the way of nothing, and nothing in the way.
LEMMA DeleteTakes ==
  ASSUME NEW s, NEW t, NEW E, NEW c \in Locs, NEW d \in Locs, c # d, d \notin E,
         Taken(s, t, c, E, {})
  PROVE  /\ Taken(s, WithoutCollisions(t, c, d), c, E, {d})
         /\ ~MeetsIndex(WithoutCollisions(t, c, d), c, d)
<1>. PICK u : u = WithoutCollisions(t, c, d)
  OBVIOUS
<1>1. /\ u.archived = t.archived
      /\ u.at = [r \in Rows |-> IF t.at[r] = d /\ Collides(r, t.at, c, d) THEN Gone
                                ELSE t.at[r]]
      /\ u.single = {m \in t.single : m[1] = d => \A n \in t.single : n[1] # c}
      /\ u.multi = {m \in t.multi : m[1] = d => <<c, m[2]>> \notin t.multi}
  BY DEF WithoutCollisions
<1>2. AreTables(t) /\ AreTables(u)
  BY StatementTables DEF Taken
<1>3. \A r \in Rows : Represented(t, r, c) => Represented(u, r, c)
  BY <1>1, RowsAssumption DEF Represented
<1>4. RowsTaken(s, u, c, E, {d})
  <2>. SUFFICES ASSUME NEW r \in Rows, s.at[r] \in Locs
                PROVE  IF s.at[r] \in E THEN u.at[r] = c \/ Represented(u, r, c)
                       ELSE u.at[r] = s.at[r]
                              \/ (s.at[r] \in {d} /\ Represented(u, r, c))
    BY DEF RowsTaken
  <2>1. CASE s.at[r] \in E
    <3>1. t.at[r] = c \/ Represented(t, r, c)
      BY <2>1 DEF Taken, RowsTaken
    <3>2. t.at[r] = c => u.at[r] = c
      BY <1>1
    <3>. QED  BY <1>3, <2>1, <3>1, <3>2
  <2>2. CASE s.at[r] \notin E
    <3>1. t.at[r] = s.at[r]
      BY <2>2 DEF Taken, RowsTaken
    <3>2. CASE t.at[r] = d /\ Collides(r, t.at, c, d)
      <4>1. PICK q \in Rows : t.at[q] = c /\ ProductOf[q] = ProductOf[r]
        BY <3>2 DEF Collides
      <4>2. u.at[q] = c /\ u.at[r] = Gone /\ ProductOf[r] # NoProduct
        BY <1>1, <3>2, <4>1 DEF Collides
      <4>. QED  BY <2>2, <3>1, <3>2, <4>1, <4>2 DEF Represented
    <3>3. CASE ~(t.at[r] = d /\ Collides(r, t.at, c, d))
      BY <1>1, <2>2, <3>1, <3>3
    <3>. QED  BY <3>2, <3>3
  <2>. QED  BY <2>1, <2>2
<1>5. GroupsTaken(s, u, c, E, {d})
  <2>. SUFFICES ASSUME NEW p \in s.multi
                PROVE  IF p[1] \in E THEN <<c, p[2]>> \in u.multi
                       ELSE p \in u.multi \/ (p[1] \in {d} /\ <<c, p[2]>> \in u.multi)
    BY DEF GroupsTaken
  <2>1. <<c, p[2]>> \in t.multi => <<c, p[2]>> \in u.multi
    BY <1>1
  <2>2. IF p[1] \in E THEN <<c, p[2]>> \in t.multi ELSE p \in t.multi
    BY DEF Taken, GroupsTaken
  <2>. QED  BY <1>1, <2>1, <2>2
<1>6. RegionsTaken(s, u, c, E, {d})
  <2>. SUFFICES ASSUME NEW p \in s.single
                PROVE  IF p[1] \in E THEN \E q \in u.single : q[1] = c
                       ELSE p \in u.single
                              \/ (p[1] \in {d} /\ \E q \in u.single : q[1] = c)
    BY DEF RegionsTaken
  <2>1. \A q \in t.single : q[1] = c => q \in u.single
    BY <1>1
  <2>2. IF p[1] \in E THEN \E q \in t.single : q[1] = c ELSE p \in t.single
    BY DEF Taken, RegionsTaken
  <2>. QED  BY <1>1, <2>1, <2>2
<1>7. Taken(s, u, c, E, {d})
  BY <1>1, <1>2, <1>4, <1>5, <1>6 DEF Taken
<1>8. ~MeetsIndex(u, c, d)
  BY <1>1 DEF MeetsIndex
<1>. QED  BY <1>7, <1>8

\* The UPDATEs take the rest.
LEMMA RewriteTakes ==
  ASSUME NEW s, NEW t, NEW E, NEW c \in Locs, NEW d \in Locs, c # d, d \notin E,
         Taken(s, t, c, E, {d})
  PROVE  Taken(s, Rewritten(t, c, d), c, E \cup {d}, {})
<1>. PICK u : u = Rewritten(t, c, d)
  OBVIOUS
<1>1. /\ u.archived = t.archived \cup {d}
      /\ u.at = [r \in Rows |-> IF t.at[r] = d THEN c ELSE t.at[r]]
      /\ u.single = {m \in t.single : m[1] # d}
                      \cup {<<c, m[2]>> : m \in {n \in t.single : n[1] = d}}
      /\ u.multi = {m \in t.multi : m[1] # d}
                     \cup {<<c, m[2]>> : m \in {n \in t.multi : n[1] = d}}
  BY DEF Rewritten, Moved
<1>2. AreTables(t) /\ AreTables(u)
  BY StatementTables DEF Taken
<1>3. \A r \in Rows : Represented(t, r, c) => Represented(u, r, c)
  BY <1>1, RowsAssumption DEF Represented
<1>4. RowsTaken(s, u, c, E \cup {d}, {})
  <2>. SUFFICES ASSUME NEW r \in Rows, s.at[r] \in Locs
                PROVE  IF s.at[r] \in E \cup {d} THEN u.at[r] = c \/ Represented(u, r, c)
                       ELSE u.at[r] = s.at[r]
    BY DEF RowsTaken
  <2>1. IF s.at[r] \in E THEN t.at[r] = c \/ Represented(t, r, c)
        ELSE t.at[r] = s.at[r] \/ (s.at[r] \in {d} /\ Represented(t, r, c))
    BY DEF Taken, RowsTaken
  <2>. QED  BY <1>1, <1>3, <2>1
<1>5. \A p \in t.multi : p[1] = d => <<c, p[2]>> \in u.multi
  BY <1>1
<1>6. \A p \in t.multi : p[1] # d => p \in u.multi
  BY <1>1
<1>7. GroupsTaken(s, u, c, E \cup {d}, {})
  <2>. SUFFICES ASSUME NEW p \in s.multi
                PROVE  IF p[1] \in E \cup {d} THEN <<c, p[2]>> \in u.multi
                       ELSE p \in u.multi
    BY DEF GroupsTaken
  <2>1. <<c, p[2]>> \in t.multi => <<c, p[2]>> \in u.multi
    BY <1>6
  <2>2. IF p[1] \in E THEN <<c, p[2]>> \in t.multi
        ELSE p \in t.multi \/ (p[1] \in {d} /\ <<c, p[2]>> \in t.multi)
    BY DEF Taken, GroupsTaken
  <2>. QED  BY <1>5, <1>6, <2>1, <2>2
<1>8. \A p \in t.single : p[1] = d => <<c, p[2]>> \in u.single
  BY <1>1
<1>9. \A p \in t.single : p[1] # d => p \in u.single
  BY <1>1
<1>10. RegionsTaken(s, u, c, E \cup {d}, {})
  <2>. SUFFICES ASSUME NEW p \in s.single
                PROVE  IF p[1] \in E \cup {d} THEN \E q \in u.single : q[1] = c
                       ELSE p \in u.single
    BY DEF RegionsTaken
  <2>1. (\E q \in t.single : q[1] = c) => \E q \in u.single : q[1] = c
    BY <1>9
  <2>2. IF p[1] \in E THEN \E q \in t.single : q[1] = c
        ELSE p \in t.single \/ (p[1] \in {d} /\ \E q \in t.single : q[1] = c)
    BY DEF Taken, RegionsTaken
  <2>3. p \in t.single /\ p[1] = d => \E q \in u.single : q[1] = c
    <3>1. <<c, p[2]>>[1] = c
      OBVIOUS
    <3>. QED  BY <1>8, <3>1
  <2>. QED  BY <1>9, <2>1, <2>2, <2>3
<1>. QED  BY <1>1, <1>2, <1>4, <1>7, <1>10 DEF Taken

-----------------------------------------------------------------------------
(* Lemmas about calls, undos and other writers.                            *)

\* A merge lists each location once, and never the canonical one.
LEMMA ListsType ==
  ASSUME NEW c \in Locs, NEW ds \in Lists(c)
  PROVE  /\ ds \in Seq(Locs) /\ Defuncts(ds) \subseteq Locs \ {c}
         /\ \A i, j \in DOMAIN ds : ds[i] = ds[j] => i = j
<1>1. PICK n \in 1..MaxDefuncts : ds \in [1..n -> Locs \ {c}]
  BY DEF Lists
<1>. QED  BY <1>1 DEF Lists, Defuncts

\* The location whose turn it is is another one than those done with.
LEMMA TurnIs ==
  ASSUME NEW m \in Merges, Reads(m), m.done < Len(m.defuncts)
  PROVE  /\ m.done \in Nat /\ m.canon \in Locs
         /\ m.defuncts[m.done + 1] \in Locs /\ m.defuncts[m.done + 1] # m.canon
         /\ m.defuncts[m.done + 1] \notin DoneWith(m)
<1>. PICK n \in Nat : n = m.done
  BY DEF Merges
<1>. PICK ds \in Seq(Locs) : ds = m.defuncts
  BY DEF Merges
<1>1. n + 1 \in DOMAIN ds /\ \A i \in 1..n : i \in DOMAIN ds /\ i # n + 1
  OBVIOUS
<1>2. ds[n + 1] \in Defuncts(ds)
  BY <1>1 DEF Defuncts
<1>3. ds[n + 1] \notin {ds[i] : i \in 1..n}
  BY <1>1 DEF Reads
<1>4. ds[n + 1] \in Locs /\ ds[n + 1] # m.canon
  BY <1>2 DEF Reads
<1>. QED  BY <1>3, <1>4 DEF DoneWith, Merges

\* When all are done with nothing is left of the list.
LEMMA AllDone ==
  ASSUME NEW m \in Merges, m.next = "delete", m.done = Len(m.defuncts)
  PROVE  DoneWith(m) = Defuncts(m.defuncts) /\ HalfDone(m) = {}
<1>1. DOMAIN m.defuncts = 1..m.done
  BY DEF Merges
<1>. QED  BY <1>1 DEF DoneWith, HalfDone, Defuncts

\* What an undo restores of memberships are memberships.
LEMMA GiveBackType ==
  ASSUME NEW Xs, NEW m \in SUBSET (Locs \X Xs), NEW saved \in SUBSET (Locs \X Xs),
         NEW c, NEW taker \in Takers(m, saved, c)
  PROVE  GiveBack(m, taker, c) \subseteq Locs \X Xs
<1>1. DOMAIN taker \subseteq Xs /\ \A x \in DOMAIN taker : taker[x] \in Locs
  <2> DEFINE xs == {p[2] : p \in {q \in saved : <<c, q[2]>> \in m}}
  <2>1. taker \in [xs -> Locs]
    BY DEF Takers
  <2>2. xs \subseteq Xs
    <3>1. \A p \in saved : p[2] \in Xs
      OBVIOUS
    <3>. QED  BY <3>1
  <2>. HIDE DEF xs
  <2>. QED  BY <2>1, <2>2
<1>2. \A x \in DOMAIN taker : <<taker[x], x>> \in Locs \X Xs
  BY <1>1
<1>. QED  BY <1>2 DEF GiveBack

\* An undo brings each row back to where the snapshot has it.
LEMMA RowsBackTo ==
  ASSUME NEW s \in Snaps, NEW r \in Rows, at \in [Rows -> Locs \cup {Absent, Gone}]
  PROVE  /\ RowsBack(s) \in [Rows -> Locs \cup {Absent, Gone}]
         /\ at[r] # Gone =>
              \/ \E d \in Locs : <<r, d>> \in snap[s].moved /\ RowsBack(s)[r] = d
              \/ /\ \A d \in Locs : <<r, d>> \notin snap[s].moved
                 /\ RowsBack(s)[r] = at[r]
  BY DEF RowsBack

\* Tables with their fields are data.
LEMMA NowType == TypeOK => Now \in Tables
  BY DEF TypeOK, StoredOK, Now, Tables

LEMMA NowTypeNext == TypeOK' => Now' \in Tables
  BY DEF TypeOK, StoredOK, Now, Tables

-----------------------------------------------------------------------------
(* The invariant is one.                                                   *)

LEMMA InitHolds == Init => IInv
<1>. SUFFICES ASSUME Init PROVE IInv
  OBVIOUS
<1>1. TypeOK
  BY DEF Init, InitStored, TypeOK, StoredOK, Snaps, Values, Original, Edited
<1>. QED  BY <1>1 DEF IInv, Init, MergeTruth, SnapTruth

LEMMA BeginStep ==
  ASSUME IInv, NEW c \in Locs, NEW ds \in Lists(c), NEW v \in {merges + 1, NoValue},
         BeginMerge(c, ds, v)
  PROVE  IInv'
<1>. PICK D : D = Defuncts(ds)
  OBVIOUS
<1>. PICK seen : seen = Now
  OBVIOUS
<1>1. /\ ds \in Seq(Locs) /\ D \subseteq Locs \ {c}
      /\ \A i, j \in DOMAIN ds : ds[i] = ds[j] => i = j
  BY ListsType
<1>2. UNCHANGED <<archived, at, single, multi, field, snap, before, after, merges, writes>>
  BY DEF BeginMerge, tables, stored
<1>3. v \in Values \cup {NoValue} /\ merges < MaxMerges /\ writes \in Nat
  BY DEF BeginMerge, IInv, TypeOK, Values, Edited
<1>4. seen \in Tables
  BY NowType DEF IInv
<1>. PICK read : read = [canon |-> c, archived |-> D \ archived,
                         moved |-> {p \in Rows \X D : at[p[1]] = p[2]},
                         single |-> {p \in single : p[1] \in D},
                         multi |-> {p \in multi : p[1] \in D},
                         field |-> IF v = NoValue THEN NoValue ELSE field[c]]
  OBVIOUS
<1>. PICK m : m = merging'
  OBVIOUS
<1>5. m = [canon |-> c, defuncts |-> ds, value |-> v, read |-> read, seen |-> seen,
           next |-> "resolve", done |-> 0, own |-> NoWrites, since |-> writes]
  BY DEF BeginMerge, IdsToArchive
<1>6. /\ seen.archived = archived /\ seen.at = at /\ seen.single = single
      /\ seen.multi = multi /\ seen.field = field
  BY DEF Now
<1>7. read \in Payload
  BY <1>1, <1>4, <1>6 DEF Payload, Tables
<1>8. StoredOK
  BY DEF IInv, TypeOK
<1>9. NoWrites \in Writes /\ AreTables(Seen(NoWrites)) /\ Same(seen, Seen(NoWrites))
  BY <1>6, <1>8, NothingWritten, SeenTables DEF Same, Committed
<1>10. m \in Merges
  BY <1>1, <1>3, <1>4, <1>5, <1>7, <1>9 DEF Merges
<1>11. TypeOK'
  BY <1>2, <1>10 DEF IInv, TypeOK, StoredOK
<1>12. Reads(m)
  BY <1>1, <1>5, <1>6 DEF Reads
<1>13. Progress(m, Seen(NoWrites))
  <2>1. DoneWith(m) = {} /\ HalfDone(m) = {} /\ m.next = "resolve"
    BY <1>5 DEF DoneWith, HalfDone
  <2>2. Taken(seen, Seen(NoWrites), c, {}, {})
    BY <1>9, NothingTaken
  <2>3. m.seen = seen /\ m.canon = c
    BY <1>5
  <2>. QED  BY <2>1, <2>2, <2>3 DEF Progress
<1>14. MergeTruth'
  <2>1. Seen(NoWrites)' = Seen(NoWrites) /\ Now' = Now
    BY <1>2 DEF Seen, Now
  <2>2. m.seen = seen /\ m.own = NoWrites /\ m.since = writes
    BY <1>5
  <2>3. Now' = merging'.seen
    BY <2>1, <2>2
  <2>4. Progress(merging, Seen(merging.own))'
    BY <1>13, <2>1, <2>2
  <2>. QED  BY <1>2, <1>3, <1>12, <2>2, <2>3, <2>4 DEF MergeTruth
<1>15. SnapTruth'
  BY <1>2 DEF IInv, SnapTruth
<1>. QED  BY <1>11, <1>14, <1>15 DEF IInv

\* A statement of the merge under way makes it m.
LEMMA StatementStep ==
  ASSUME IInv, NEW m \in Merges, merging # NoMerge, merging' = m,
         m.seen = merging.seen, m.since = merging.since, Reads(m),
         UNCHANGED <<tables, snap, before, after, merges, writes>>,
         Undisturbed => Progress(m, Seen(m.own))
  PROVE  IInv'
<1>1. UNCHANGED <<archived, at, single, multi, field, snap, before, after, merges, writes>>
  BY DEF tables, stored
<1>2. TypeOK'
  BY <1>1 DEF IInv, TypeOK, StoredOK
<1>3. MergeTruth'
  <2>1. Seen(m.own)' = Seen(m.own) /\ Now' = Now
    BY <1>1 DEF Seen, Now
  <2>2. /\ merges < MaxMerges /\ m.since <= writes
        /\ Undisturbed => Now = m.seen
    BY DEF IInv, MergeTruth
  <2>3. Undisturbed' <=> Undisturbed
    BY <1>1 DEF Undisturbed
  <2>4. Undisturbed' => Now' = merging'.seen
    BY <2>1, <2>2, <2>3
  <2>5. Undisturbed' => Progress(merging, Seen(merging.own))'
    BY <2>1, <2>3
  <2>. QED  BY <1>1, <2>2, <2>4, <2>5 DEF MergeTruth
<1>4. SnapTruth'
  BY <1>1 DEF IInv, SnapTruth
<1>. QED  BY <1>2, <1>3, <1>4 DEF IInv

\* What is known of the merge under way.
LEMMA MergeIs ==
  ASSUME IInv, merging # NoMerge
  PROVE  /\ merging \in Merges /\ Reads(merging) /\ StoredOK
         /\ merging.own \in Writes /\ merging.done \in Nat
         /\ Undisturbed => Now = merging.seen /\ Progress(merging, Seen(merging.own))
<1>1. merging \in Merges
  BY DEF IInv, TypeOK
<1>. QED  BY <1>1 DEF IInv, TypeOK, MergeTruth, Merges

LEMMA ResolveStep == IInv /\ ResolveFields => IInv'
<1>. SUFFICES ASSUME IInv, ResolveFields PROVE IInv'
  OBVIOUS
<1>. PICK m0 : m0 = merging
  OBVIOUS
<1>. PICK m : m = [m0 EXCEPT !.next = "delete"]
  OBVIOUS
<1>1. /\ merging # NoMerge /\ m0.next = "resolve" /\ merging' = m
      /\ UNCHANGED <<tables, snap, before, after, merges, writes>>
  BY DEF ResolveFields
<1>2. /\ m0 \in Merges /\ Reads(m0)
      /\ Undisturbed => Progress(m0, Seen(m0.own))
  BY <1>1, MergeIs
<1>3. /\ m \in Merges /\ m.next = "delete" /\ m.canon = m0.canon /\ m.seen = m0.seen
      /\ m.since = m0.since /\ m.defuncts = m0.defuncts /\ m.value = m0.value
      /\ m.read = m0.read /\ m.done = m0.done /\ m.own = m0.own
  BY <1>2 DEF Merges
<1>4. Reads(m)
  BY <1>2, <1>3 DEF Reads
<1>5. Undisturbed => Progress(m, Seen(m.own))
  BY <1>1, <1>2, <1>3 DEF Progress, DoneWith, HalfDone
<1>. QED  BY <1>1, <1>3, <1>4, <1>5, StatementStep

LEMMA DeleteStep == IInv /\ DeleteCollisions => IInv'
<1>. SUFFICES ASSUME IInv, DeleteCollisions PROVE IInv'
  OBVIOUS
<1>. PICK m0 : m0 = merging
  OBVIOUS
<1>. PICK d : d = m0.defuncts[m0.done + 1]
  OBVIOUS
<1>. PICK c : c = m0.canon
  OBVIOUS
<1>. PICK t : t = Seen(m0.own)
  OBVIOUS
<1>. PICK u : u = WithoutCollisions(t, c, d)
  OBVIOUS
<1>. PICK own : own = Wrote(m0.own, t, u)
  OBVIOUS
<1>. PICK m : m = [m0 EXCEPT !.next = "rewrite", !.own = own]
  OBVIOUS
<1>1. /\ merging # NoMerge /\ m0.next = "delete" /\ merging' = m
      /\ m0.done < Len(m0.defuncts)
      /\ UNCHANGED <<tables, snap, before, after, merges, writes>>
  BY DEF DeleteCollisions, Current
<1>2. /\ m0 \in Merges /\ Reads(m0) /\ StoredOK /\ m0.own \in Writes
      /\ Undisturbed => Progress(m0, t)
  BY <1>1, MergeIs
<1>3. c \in Locs /\ d \in Locs /\ c # d /\ d \notin DoneWith(m0)
  BY <1>1, <1>2, TurnIs
<1>4. AreTables(t) /\ AreTables(u) /\ t.archived \subseteq u.archived
  BY <1>2, <1>3, SeenTables, StatementTables
<1>5. own \in Writes /\ Same(Seen(own), u)
  BY <1>2, <1>4, WroteSeen
<1>6. /\ m \in Merges /\ m.next = "rewrite" /\ m.canon = c /\ m.seen = m0.seen
      /\ m.since = m0.since /\ m.defuncts = m0.defuncts /\ m.value = m0.value
      /\ m.read = m0.read /\ m.done = m0.done /\ m.own = own
  BY <1>2, <1>5 DEF Merges
<1>7. Reads(m)
  BY <1>1, <1>2, <1>6 DEF Reads
<1>8. ASSUME Undisturbed PROVE Progress(m, Seen(m.own))
  <2>1. Taken(m0.seen, t, c, DoneWith(m0), {})
    BY <1>1, <1>2, <1>8 DEF Progress, HalfDone
  <2>2. Taken(m0.seen, u, c, DoneWith(m0), {d}) /\ ~MeetsIndex(u, c, d)
    BY <1>3, <2>1, DeleteTakes
  <2>. PICK s : s = Seen(own)
    OBVIOUS
  <2>3. Same(s, u)
    BY <1>5
  <2>4. Taken(m0.seen, s, c, DoneWith(m0), {d})
    BY <2>2, <2>3, SameTaken
  <2>5. ~MeetsIndex(s, c, d)
    <3>1. s.single = u.single /\ s.multi = u.multi
      BY <2>3 DEF Same
    <3>. PICK x : x = u.single
      OBVIOUS
    <3>. PICK y : y = u.multi
      OBVIOUS
    <3>2. /\ ~ \E p, n \in x : p[1] = d /\ n[1] = c
          /\ ~ \E p \in y : p[1] = d /\ <<c, p[2]>> \in y
      BY <2>2 DEF MeetsIndex
    <3>3. s.single = x /\ s.multi = y
      BY <3>1
    <3>. QED  BY <3>2, <3>3 DEF MeetsIndex
  <2>6. DoneWith(m) = DoneWith(m0) /\ HalfDone(m) = {d}
    BY <1>6 DEF DoneWith, HalfDone
  <2>. QED  BY <1>6, <2>4, <2>5, <2>6 DEF Progress
<1>. QED  BY <1>1, <1>6, <1>7, <1>8, StatementStep

LEMMA RewriteStep == IInv /\ RewriteReferences => IInv'
<1>. SUFFICES ASSUME IInv, RewriteReferences PROVE IInv'
  OBVIOUS
<1>. PICK m0 : m0 = merging
  OBVIOUS
<1>. PICK d : d = m0.defuncts[m0.done + 1]
  OBVIOUS
<1>. PICK c : c = m0.canon
  OBVIOUS
<1>. PICK t : t = Seen(m0.own)
  OBVIOUS
<1>. PICK u : u = Rewritten(t, c, d)
  OBVIOUS
<1>. PICK own : own = Wrote(m0.own, t, u)
  OBVIOUS
<1>. PICK k : k = m0.done + 1
  OBVIOUS
<1>. PICK m : m = [m0 EXCEPT !.next = "delete", !.done = k, !.own = own]
  OBVIOUS
<1>1. /\ merging # NoMerge /\ m0.next = "rewrite" /\ merging' = m
      /\ UNCHANGED <<tables, snap, before, after, merges, writes>>
  BY DEF RewriteReferences, Current
<1>2. /\ m0 \in Merges /\ Reads(m0) /\ StoredOK /\ m0.own \in Writes /\ m0.done \in Nat
      /\ Undisturbed => Progress(m0, t)
  BY <1>1, MergeIs
<1>3. c \in Locs /\ d \in Locs /\ c # d /\ d \notin DoneWith(m0)
  <2>1. m0.done < Len(m0.defuncts)
    BY <1>1, <1>2 DEF Reads
  <2>. QED  BY <1>2, <2>1, TurnIs
<1>4. AreTables(t) /\ AreTables(u) /\ t.archived \subseteq u.archived
  BY <1>2, <1>3, SeenTables, StatementTables
<1>5. own \in Writes /\ Same(Seen(own), u)
  BY <1>2, <1>4, WroteSeen
<1>6. k \in Nat
  BY <1>2
<1>7. /\ m \in Merges /\ m.next = "delete" /\ m.canon = c /\ m.seen = m0.seen
      /\ m.since = m0.since /\ m.defuncts = m0.defuncts /\ m.value = m0.value
      /\ m.read = m0.read /\ m.done = k /\ m.own = own
  BY <1>2, <1>5, <1>6 DEF Merges
<1>8. Reads(m)
  BY <1>2, <1>7 DEF Reads
<1>9. ASSUME Undisturbed PROVE Progress(m, Seen(m.own))
  <2>1. Taken(m0.seen, t, c, DoneWith(m0), {d})
    BY <1>1, <1>2, <1>9 DEF Progress, HalfDone
  <2>2. Taken(m0.seen, u, c, DoneWith(m0) \cup {d}, {})
    BY <1>3, <2>1, RewriteTakes
  <2>. PICK s : s = Seen(own)
    OBVIOUS
  <2>3. Same(s, u)
    BY <1>5
  <2>4. Taken(m0.seen, s, c, DoneWith(m0) \cup {d}, {})
    BY <2>2, <2>3, SameTaken
  <2>5. DoneWith(m) = DoneWith(m0) \cup {d} /\ HalfDone(m) = {}
    <3>1. 1..k = (1..m0.done) \cup {k}
      BY <1>2
    <3>. QED  BY <1>7, <3>1 DEF DoneWith, HalfDone
  <2>. QED  BY <1>7, <2>4, <2>5 DEF Progress
<1>. QED  BY <1>1, <1>7, <1>8, <1>9, StatementStep

\* A snapshot of a merge nobody came into tells what it read and left.
LEMMA CommitStep == IInv /\ CommitMerge => IInv'
<1>. SUFFICES ASSUME IInv, CommitMerge PROVE IInv'
  OBVIOUS
<1>. PICK m : m = merging
  OBVIOUS
<1>. PICK s : s = merges + 1
  OBVIOUS
<1>. PICK c : c = m.canon
  OBVIOUS
<1>. PICK D : D = Defuncts(m.defuncts)
  OBVIOUS
<1>1. /\ merging # NoMerge /\ m.next = "delete" /\ m.done = Len(m.defuncts)
      /\ archived' = Seen(m.own).archived /\ at' = Seen(m.own).at
      /\ single' = Seen(m.own).single /\ multi' = Seen(m.own).multi
      /\ field' = Resolved(c, m.value)
      /\ merging' = NoMerge /\ merges' = s /\ writes' = writes
  BY DEF CommitMerge, Commit
<1>2. \/ /\ snap' = [snap EXCEPT ![s] = m.read]
         /\ before' = [before EXCEPT ![s] = m.seen]
         /\ after' = [after EXCEPT ![s] = IF Undisturbed THEN Now' ELSE NoMerge]
      \/ UNCHANGED <<snap, before, after>>
  BY DEF CommitMerge
<1>3. /\ m \in Merges /\ Reads(m) /\ StoredOK /\ m.own \in Writes
      /\ Undisturbed => Now = m.seen /\ Progress(m, Seen(m.own))
  BY <1>1, MergeIs
<1>4. merges \in Nat /\ merges < MaxMerges
  BY <1>1 DEF IInv, TypeOK, MergeTruth
<1>5. /\ c \in Locs /\ m.read \in Payload /\ m.seen \in Tables
      /\ m.value \in Values \cup {NoValue} /\ s \in Snaps /\ s \in 0..MaxMerges
      /\ D \subseteq Locs /\ c \notin D
  BY <1>3, <1>4 DEF Merges, Snaps, Reads
<1>6. StoredOK'
  <2>1. AreTables(Seen(m.own))
    BY <1>3, SeenTables
  <2>. QED  BY <1>1, <2>1 DEF StoredOK, AreTables
<1>7. field' \in [Locs -> Values]
  BY <1>1, <1>5 DEF Resolved, IInv, TypeOK
<1>8. Now' \in Tables
  BY <1>6, <1>7 DEF Now, Tables, StoredOK
<1>9. TypeOK'
  <2>1. /\ snap' \in [Snaps -> Payload \cup {Free}]
        /\ before' \in [Snaps -> Tables \cup {NoMerge}]
        /\ after' \in [Snaps -> Tables \cup {NoMerge}]
    BY <1>2, <1>5, <1>8 DEF IInv, TypeOK
  <2>. QED  BY <1>1, <1>5, <1>6, <1>7, <2>1 DEF IInv, TypeOK
<1>10. MergeTruth'
  BY <1>1 DEF MergeTruth
<1>11. ASSUME Undisturbed PROVE SnapOf(m.read, m.seen, Now', D)
  <2>1. DoneWith(m) = D /\ HalfDone(m) = {}
    BY <1>1, <1>3, AllDone
  <2>2. Taken(m.seen, Seen(m.own), c, D, {})
    BY <1>3, <1>11, <2>1 DEF Progress
  <2>3. /\ Now'.archived = Seen(m.own).archived /\ Now'.at = Seen(m.own).at
        /\ Now'.field = Resolved(c, m.value)
    BY <1>1 DEF Now
  <2>4. m.seen.field = field
    BY <1>3, <1>11 DEF Now
  <2>5. D \subseteq Now'.archived
    BY <2>2, <2>3 DEF Taken
  <2>6. ASSUME NEW r \in Rows, m.seen.at[r] \in Locs \ D PROVE Now'.at[r] = m.seen.at[r]
    BY <2>2, <2>3, <2>6 DEF Taken, RowsTaken
  <2>7. /\ m.read.archived = D \ m.seen.archived /\ m.read.canon = c
        /\ m.read.moved = {p \in Rows \X D : m.seen.at[p[1]] = p[2]}
        /\ m.read.field = IF m.value = NoValue THEN NoValue ELSE m.seen.field[c]
    BY <1>3 DEF Reads
  <2>8. m.seen.field[c] \in Nat
    BY <1>5 DEF Tables, Values, Edited
  <2>9. IF m.read.field = NoValue THEN Now'.field = m.seen.field
        ELSE /\ m.read.field = m.seen.field[m.read.canon]
             /\ \E v : Now'.field = [m.seen.field EXCEPT ![m.read.canon] = v]
    BY <2>3, <2>4, <2>7, <2>8 DEF Resolved
  <2>. QED  BY <2>5, <2>6, <2>7, <2>9 DEF SnapOf
<1>12. SnapTruth'
  <2>. SUFFICES ASSUME NEW t \in Snaps, snap'[t] # Free, after'[t] # NoMerge
                PROVE  /\ before'[t] \in Tables /\ after'[t] \in Tables
                       /\ \E E \in SUBSET Locs : SnapOf(snap'[t], before'[t], after'[t], E)
    BY DEF SnapTruth, Snaps
  <2>1. CASE snap'[t] = snap[t] /\ before'[t] = before[t] /\ after'[t] = after[t]
    BY <2>1 DEF IInv, SnapTruth
  <2>2. CASE /\ snap'[t] = m.read /\ before'[t] = m.seen
             /\ after'[t] = IF Undisturbed THEN Now' ELSE NoMerge
    <3>1. Undisturbed /\ after'[t] = Now'
      BY <2>2
    <3>. QED  BY <1>5, <1>8, <1>11, <2>2, <3>1
  <2>. QED  BY <1>2, <1>5, <2>1, <2>2 DEF IInv, TypeOK
<1>. QED  BY <1>9, <1>10, <1>12 DEF IInv

LEMMA UndoStep ==
  ASSUME IInv, NEW s \in Snaps, UndoMerge(s)
  PROVE  IInv'
<1>. PICK p : p = snap[s]
  OBVIOUS
<1>. PICK c : c = p.canon
  OBVIOUS
<1>1. merging = NoMerge /\ merging' = NoMerge /\ p \in Payload
  BY DEF UndoMerge
<1>2. /\ at' = RowsBack(s) /\ field' = Resolved(c, p.field)
      /\ archived' = archived \ p.archived
      /\ snap' = [snap EXCEPT ![s] = Free]
      /\ before' = [before EXCEPT ![s] = NoMerge] /\ after' = [after EXCEPT ![s] = NoMerge]
      /\ UNCHANGED <<merges, writes>>
  BY DEF UndoMerge
<1>3. c \in Locs /\ p.field \in Values \cup {NoValue}
      /\ p.single \in SUBSET (Locs \X Regions) /\ p.multi \in SUBSET (Locs \X Groups)
  BY <1>1 DEF Payload
<1>4. StoredOK /\ field \in [Locs -> Values]
  BY DEF IInv, TypeOK
<1>5. single' \subseteq Locs \X Regions
  <2>1. PICK taker \in Takers(single, p.single, c) : single' = GiveBack(single, taker, c)
    BY DEF UndoMerge
  <2>. QED  BY <1>3, <1>4, <2>1, GiveBackType DEF StoredOK
<1>6. multi' \subseteq Locs \X Groups
  <2>1. PICK taker \in Takers(multi, p.multi, c) : multi' = GiveBack(multi, taker, c)
    BY DEF UndoMerge
  <2>. QED  BY <1>3, <1>4, <2>1, GiveBackType DEF StoredOK
<1>7. at' \in [Rows -> Locs \cup {Absent, Gone}]
  BY <1>2, <1>4 DEF RowsBack, StoredOK
<1>8. field' \in [Locs -> Values]
  BY <1>2, <1>3, <1>4 DEF Resolved
<1>9. TypeOK'
  BY <1>1, <1>2, <1>4, <1>5, <1>6, <1>7, <1>8 DEF IInv, TypeOK, StoredOK
<1>10. MergeTruth'
  BY <1>1 DEF MergeTruth
<1>11. SnapTruth'
  BY <1>2 DEF IInv, TypeOK, SnapTruth
<1>. QED  BY <1>9, <1>10, <1>11 DEF IInv

\* Another writer comes into the merge under way.
LEMMA ForeignStep ==
  ASSUME IInv, Foreign, StoredOK', field' \in [Locs -> Values]
  PROVE  IInv'
<1>1. /\ writes < MaxWrites /\ writes' = writes + 1
      /\ UNCHANGED <<merging, snap, before, after, merges>>
  BY DEF Foreign
<1>2. writes \in Nat /\ writes' \in 0..MaxWrites
  BY <1>1 DEF IInv, TypeOK
<1>3. TypeOK'
  BY <1>1, <1>2 DEF IInv, TypeOK
<1>4. MergeTruth'
  <2>. SUFFICES ASSUME merging # NoMerge
                PROVE  /\ merges < MaxMerges /\ Reads(merging)
                       /\ merging.since <= writes' /\ ~Undisturbed'
    BY <1>1 DEF MergeTruth
  <2>. PICK k \in Nat : k = merging.since
    BY DEF IInv, TypeOK, Merges
  <2>1. k <= writes
    BY DEF IInv, MergeTruth
  <2>2. k <= writes' /\ k # writes'
    BY <1>1, <1>2, <2>1
  <2>. QED  BY <1>1, <2>2 DEF IInv, MergeTruth, Undisturbed
<1>5. SnapTruth'
  BY <1>1 DEF IInv, SnapTruth
<1>. QED  BY <1>3, <1>4, <1>5 DEF IInv

LEMMA WriterStep ==
  ASSUME IInv, NEW l \in Locs,
         \/ ArchiveLocation(l) \/ UpdateLocationField(l)
         \/ \E r \in Rows : InsertRow(r, l)
         \/ \E gs \in (SUBSET Groups) \ {{}} : SetHotelGroups(l, gs)
  PROVE  IInv'
<1>1. StoredOK /\ field \in [Locs -> Values]
  BY DEF IInv, TypeOK
<1>2. CASE ArchiveLocation(l)
  <2>1. StoredOK' /\ field' \in [Locs -> Values] /\ Foreign
    BY <1>1, <1>2 DEF ArchiveLocation, StoredOK
  <2>. QED  BY <2>1, ForeignStep
<1>3. CASE UpdateLocationField(l)
  <2>1. Edited \in Values
    BY DEF Edited, Values
  <2>2. StoredOK' /\ field' \in [Locs -> Values] /\ Foreign
    BY <1>1, <1>3, <2>1 DEF UpdateLocationField, StoredOK, stored
  <2>. QED  BY <2>2, ForeignStep
<1>4. ASSUME NEW r \in Rows, InsertRow(r, l) PROVE IInv'
  <2>1. StoredOK' /\ field' \in [Locs -> Values] /\ Foreign
    BY <1>1, <1>4 DEF InsertRow, StoredOK
  <2>. QED  BY <2>1, ForeignStep
<1>5. ASSUME NEW gs \in (SUBSET Groups) \ {{}}, SetHotelGroups(l, gs) PROVE IInv'
  <2>1. multi' \subseteq Locs \X Groups
    BY <1>1, <1>5 DEF SetHotelGroups, StoredOK
  <2>2. StoredOK' /\ field' \in [Locs -> Values] /\ Foreign
    BY <1>1, <1>5, <2>1 DEF SetHotelGroups, StoredOK
  <2>. QED  BY <2>2, ForeignStep
<1>. QED  BY <1>2, <1>3, <1>4, <1>5

LEMMA BulkStep ==
  ASSUME IInv, NEW c \in Locs, NEW d \in Locs, BulkMergePair(c, d)
  PROVE  IInv'
<1>. PICK t : t = Committed
  OBVIOUS
<1>. PICK x : x = WithoutCollisions(t, c, d)
  OBVIOUS
<1>. PICK u : u = Rewritten(x, c, d)
  OBVIOUS
<1>. PICK w : w = Wrote(NoWrites, t, u)
  OBVIOUS
<1>1. /\ archived' = Seen(w).archived /\ at' = Seen(w).at
      /\ single' = Seen(w).single /\ multi' = Seen(w).multi
      /\ field' = field /\ Foreign
  BY DEF BulkMergePair, Commit
<1>2. StoredOK /\ field \in [Locs -> Values]
  BY DEF IInv, TypeOK
<1>3. AreTables(t)
  BY <1>2 DEF StoredOK, Committed, AreTables
<1>4. AreTables(x) /\ t.archived \subseteq x.archived
  BY <1>3, StatementTables
<1>5. AreTables(u) /\ t.archived \subseteq u.archived
  <2>1. AreTables(u) /\ x.archived \subseteq u.archived
    BY <1>4, StatementTables
  <2>. QED  BY <1>4, <2>1
<1>6. NoWrites \in Writes /\ t = Seen(NoWrites)
  <2>1. NoWrites \in Writes /\ Same(Seen(NoWrites), t)
    BY <1>2, NothingWritten
  <2>. PICK s : s = Seen(NoWrites)
    OBVIOUS
  <2>2. s.archived = t.archived /\ s.at = t.at /\ s.single = t.single /\ s.multi = t.multi
    BY <2>1 DEF Same
  <2>3. /\ s = [archived |-> s.archived, at |-> s.at, single |-> s.single, multi |-> s.multi]
        /\ t = [archived |-> t.archived, at |-> t.at, single |-> t.single, multi |-> t.multi]
    BY DEF Seen, Committed
  <2>4. s = t
    BY <2>2, <2>3
  <2>. QED  BY <2>1, <2>4
<1>7. AreTables(Seen(w))
  <2>1. w \in Writes
    BY <1>2, <1>5, <1>6, WroteSeen
  <2>. QED  BY <1>2, <2>1, SeenTables
<1>8. StoredOK'
  BY <1>1, <1>7 DEF StoredOK, AreTables
<1>. QED  BY <1>1, <1>2, <1>8, ForeignStep

LEMMA IInvStep == IInv /\ [Next]_vars => IInv'
<1>. SUFFICES ASSUME IInv, [Next]_vars PROVE IInv'
  OBVIOUS
<1>1. ASSUME NEW c \in Locs, NEW ds \in Lists(c), NEW v \in {merges + 1, NoValue},
             BeginMerge(c, ds, v)
      PROVE  IInv'
  BY <1>1, BeginStep
<1>2. CASE ResolveFields \/ DeleteCollisions \/ RewriteReferences \/ CommitMerge
  BY <1>2, ResolveStep, DeleteStep, RewriteStep, CommitStep
<1>3. CASE AbortMerge \/ UNCHANGED vars
  <2>1. /\ UNCHANGED <<archived, at, single, multi, field, snap, before, after, merges, writes>>
        /\ merging' \in {NoMerge, merging}
    BY <1>3 DEF AbortMerge, vars, tables, stored
  <2>2. TypeOK' /\ SnapTruth'
    BY <2>1 DEF IInv, TypeOK, StoredOK, SnapTruth
  <2>3. CASE merging' = NoMerge
    BY <2>2, <2>3 DEF IInv, MergeTruth
  <2>4. CASE merging' = merging
    <3>2. Now' = Now
      BY <2>1 DEF Now
    <3>3. MergeTruth'
      <4>. PICK m : m = merging
        OBVIOUS
      <4>1. merging' = m
        BY <2>4
      <4>2. Seen(m.own)' = Seen(m.own)
        BY <2>1 DEF Seen
      <4>3. Undisturbed' <=> Undisturbed
        BY <2>1, <2>4 DEF Undisturbed
      <4>4. Progress(merging, Seen(merging.own))' <=> Progress(m, Seen(m.own))
        BY <4>1, <4>2
      <4>. QED  BY <2>1, <2>4, <3>2, <4>1, <4>3, <4>4 DEF IInv, MergeTruth
    <3>. QED  BY <2>2, <3>3 DEF IInv
  <2>. QED  BY <2>1, <2>3, <2>4
<1>4. ASSUME NEW s \in Snaps, UndoMerge(s) PROVE IInv'
  BY <1>4, UndoStep
<1>5. ASSUME NEW l \in Locs,
             \/ ArchiveLocation(l) \/ UpdateLocationField(l)
             \/ \E r \in Rows : InsertRow(r, l)
             \/ \E gs \in (SUBSET Groups) \ {{}} : SetHotelGroups(l, gs)
      PROVE  IInv'
  BY <1>5, WriterStep
<1>6. ASSUME NEW c \in Locs, NEW d \in Locs, BulkMergePair(c, d) PROVE IInv'
  BY <1>6, BulkStep
<1>. QED  BY <1>1, <1>2, <1>3, <1>4, <1>5, <1>6 DEF Next

LEMMA Invariance == Spec => []IInv
  BY InitHolds, IInvStep, PTL DEF Spec

-----------------------------------------------------------------------------
(* The theorems.                                                           *)

\* Merges, undos and the other writers keep every table well formed.
THEOREM TypesHold == Spec => []TypeOK
  BY Invariance, PTL DEF IInv

\* However many locations are merged at a time and whatever was merged, undone,
\* imported or edited before, the DELETEs of applyLocationMerge leave its UPDATEs
\* nothing to collide with, unless another writer commits in between.
THEOREM IndexesStayUnmet == Spec => []NoIndexIsMet
<1>1. IInv => NoIndexIsMet
  BY DEF IInv, MergeTruth, Progress, NoIndexIsMet, Current
<1>. QED  BY <1>1, Invariance, PTL

\* An undo of a merge that nothing has come into or after puts rows, archival and
\* fields back to what the merge had read.
LEMMA UndoneInverts ==
  ASSUME IInv, NEW s \in Snaps, UndoMerge(s), Now = after[s]
  PROVE  /\ \A r \in Rows : before[s].at[r] \in Locs /\ at[r] # Gone
              => at'[r] = before[s].at[r]
         /\ \A d \in snap[s].archived \cup {p[2] : p \in snap[s].moved} :
              d \in archived' <=> d \in before[s].archived
         /\ field' = before[s].field
<1>1. snap[s] \in Payload /\ snap[s] # Free
  BY DEF UndoMerge
<1>2. after[s] # NoMerge
  <2>1. Now \in Tables
    BY NowType DEF IInv
  <2>. QED  BY <2>1
<1>3. PICK D \in SUBSET Locs : SnapOf(snap[s], before[s], after[s], D)
  BY <1>1, <1>2 DEF IInv, SnapTruth
<1>4. before[s] \in Tables /\ after[s] \in Tables
  BY <1>1, <1>2 DEF IInv, SnapTruth
<1>5. after[s].at = at /\ after[s].archived = archived /\ after[s].field = field
  BY DEF Now
<1>6. /\ at' = RowsBack(s) /\ archived' = archived \ snap[s].archived
      /\ field' = Resolved(snap[s].canon, snap[s].field)
  BY DEF UndoMerge
<1>7. ASSUME NEW r \in Rows, before[s].at[r] \in Locs, at[r] # Gone
      PROVE  at'[r] = before[s].at[r]
  <2>1. \A d : <<r, d>> \in snap[s].moved <=> d \in D /\ before[s].at[r] = d
    BY <1>3 DEF SnapOf
  <2>2. CASE before[s].at[r] \in D
    BY <1>6, <1>7, <2>1, <2>2, RowsBackTo DEF IInv, TypeOK, StoredOK
  <2>3. CASE before[s].at[r] \notin D
    <3>1. at[r] = before[s].at[r]
      BY <1>3, <1>5, <1>7, <2>3 DEF SnapOf
    <3>. QED  BY <1>6, <1>7, <2>1, <2>3, <3>1, RowsBackTo DEF IInv, TypeOK, StoredOK
  <2>. QED  BY <2>2, <2>3
<1>8. ASSUME NEW d \in snap[s].archived \cup {p[2] : p \in snap[s].moved}
      PROVE  d \in archived' <=> d \in before[s].archived
  <2>1. d \in D
    BY <1>3, <1>8 DEF SnapOf
  <2>. QED  BY <1>3, <1>5, <1>6, <2>1 DEF SnapOf
<1>9. field' = before[s].field
  <2>1. snap[s].canon \in Locs
    BY <1>1 DEF Payload
  <2>2. CASE snap[s].field = NoValue
    BY <1>3, <1>5, <1>6, <2>2 DEF SnapOf, Resolved
  <2>3. CASE snap[s].field # NoValue
    <3> DEFINE c == snap[s].canon
               old == before[s].field
    <3>1. snap[s].field = old[c]
      BY <1>3, <2>3 DEF SnapOf
    <3>2. PICK v : field = [old EXCEPT ![c] = v]
      BY <1>3, <1>5, <2>3 DEF SnapOf
    <3>3. old \in [Locs -> Values]
      BY <1>4 DEF Tables
    <3>4. field' = [field EXCEPT ![c] = old[c]]
      BY <1>6, <2>3, <3>1 DEF Resolved
    <3>. HIDE DEF old, c
    <3>5. [[old EXCEPT ![c] = v] EXCEPT ![c] = old[c]] = old
      BY <3>3
    <3>. QED  BY <3>2, <3>4, <3>5 DEF old
  <2>. QED  BY <2>2, <2>3
<1>. QED  BY <1>7, <1>8, <1>9

\* Only the commit of a merge writes a snapshot and only its undo deletes it.
LEMMA SnapshotsChange ==
  ASSUME IInv, [Next]_vars, NEW s \in Snaps, Undone(s)
  PROVE  UndoMerge(s)
<1>1. CASE CommitMerge
  <2>1. merging \in Merges /\ merges + 1 \in Snaps
    BY <1>1 DEF CommitMerge, IInv, TypeOK, MergeTruth, Snaps
  <2>2. merging.read \in Payload
    BY <2>1 DEF Merges
  <2>3. snap' = snap \/ snap' = [snap EXCEPT ![merges + 1] = merging.read]
    BY <1>1 DEF CommitMerge
  <2>. QED  BY <2>1, <2>2, <2>3 DEF Undone, IInv, TypeOK
<1>2. ASSUME NEW t \in Snaps, UndoMerge(t) PROVE s = t
  BY <1>2 DEF UndoMerge, Undone, IInv, TypeOK
<1>3. CASE UNCHANGED snap
  BY <1>3 DEF Undone
<1>4. ASSUME NEW c \in Locs, NEW ds \in Lists(c), NEW v \in {merges + 1, NoValue},
             BeginMerge(c, ds, v)
      PROVE  UNCHANGED snap
  BY <1>4 DEF BeginMerge
<1>5. ASSUME NEW l \in Locs,
             \/ ArchiveLocation(l) \/ UpdateLocationField(l)
             \/ \E r \in Rows : InsertRow(r, l)
             \/ \E gs \in (SUBSET Groups) \ {{}} : SetHotelGroups(l, gs)
      PROVE  UNCHANGED snap
  BY <1>5 DEF ArchiveLocation, UpdateLocationField, InsertRow, SetHotelGroups, Foreign
<1>6. ASSUME NEW c \in Locs, NEW d \in Locs, BulkMergePair(c, d) PROVE UNCHANGED snap
  BY <1>6 DEF BulkMergePair, Foreign
<1>7. ResolveFields \/ DeleteCollisions \/ RewriteReferences \/ AbortMerge \/ UNCHANGED vars
        => UNCHANGED snap
  BY DEF ResolveFields, DeleteCollisions, RewriteReferences, AbortMerge, vars
<1>. QED  BY <1>1, <1>2, <1>3, <1>4, <1>5, <1>6, <1>7 DEF Next

\* For any number of locations, rows and merges: undoing the last change, or a
\* merge whose later ones were undone, inverts it, unless another writer has
\* committed between what the merge read and its commit.
THEOREM UndosInvert == Spec => UndoInverts
<1>1. IInv /\ [Next]_vars =>
        [\A s \in Snaps : Undone(s) /\ Now = after[s] =>
           /\ \A r \in Rows : before[s].at[r] \in Locs /\ at[r] # Gone
                => at'[r] = before[s].at[r]
           /\ \A d \in snap[s].archived \cup {p[2] : p \in snap[s].moved} :
                d \in archived' <=> d \in before[s].archived
           /\ field' = before[s].field]_vars
  BY SnapshotsChange, UndoneInverts
<1>. QED  BY <1>1, Invariance, PTL DEF Spec, UndoInverts

LEMMA CommitLosesNothing ==
  ASSUME IInv, CommitMerge, Undisturbed
  PROVE  LET c == merging.canon
             all == Defuncts(merging.defuncts) \cup {c}
         IN  /\ \A p \in multi : p[1] \in all => <<c, p[2]>> \in multi'
             /\ (\E p \in single : p[1] \in all) => \E p \in single' : p[1] = c
             /\ \A p \in single : p[1] = c => p \in single'
             /\ \A r \in Rows : at[r] \in all =>
                  \/ at'[r] = c
                  \/ /\ ProductOf[r] # NoProduct
                     /\ \E q \in Rows : ProductOf[q] = ProductOf[r] /\ at'[q] = c
<1>. PICK m : m = merging
  OBVIOUS
<1>. PICK c : c = m.canon
  OBVIOUS
<1>. PICK D : D = Defuncts(m.defuncts)
  OBVIOUS
<1>. PICK t : t = Seen(m.own)
  OBVIOUS
<1>1. /\ merging # NoMerge /\ m.next = "delete" /\ m.done = Len(m.defuncts)
      /\ at' = t.at /\ single' = t.single /\ multi' = t.multi
  BY DEF CommitMerge, Commit
<1>2. m \in Merges /\ Reads(m) /\ Now = m.seen /\ Progress(m, t) /\ StoredOK
  BY <1>1, MergeIs
<1>3. DoneWith(m) = D /\ HalfDone(m) = {}
  BY <1>1, <1>2, AllDone
<1>4. m.seen.at = at /\ m.seen.single = single /\ m.seen.multi = multi
  BY <1>2 DEF Now
<1>5. c \notin D /\ D \subseteq Locs /\ c \in Locs
  BY <1>2 DEF Reads, Merges
<1>6. /\ RowsTaken(m.seen, t, c, D, {}) /\ GroupsTaken(m.seen, t, c, D, {})
      /\ RegionsTaken(m.seen, t, c, D, {})
  BY <1>2, <1>3 DEF Progress, Taken
<1>7. ASSUME NEW p \in multi, p[1] \in D \cup {c} PROVE <<c, p[2]>> \in multi'
  <2>1. p[1] = c => p = <<c, p[2]>>
    BY <1>2 DEF StoredOK
  <2>. QED  BY <1>1, <1>4, <1>5, <1>6, <1>7, <2>1 DEF GroupsTaken
<1>8. ASSUME NEW p \in single, p[1] = c PROVE p \in single'
  BY <1>1, <1>4, <1>5, <1>6, <1>8 DEF RegionsTaken
<1>9. ASSUME NEW p \in single, p[1] \in D PROVE \E q \in single' : q[1] = c
  BY <1>1, <1>4, <1>6, <1>9 DEF RegionsTaken
<1>10. ASSUME NEW r \in Rows, at[r] \in D \cup {c}
       PROVE  \/ at'[r] = c
              \/ /\ ProductOf[r] # NoProduct
                 /\ \E q \in Rows : ProductOf[q] = ProductOf[r] /\ at'[q] = c
  BY <1>1, <1>4, <1>5, <1>6, <1>10 DEF RowsTaken, Represented
<1>. QED  BY <1>7, <1>8, <1>9, <1>10

\* Whatever is merged, in any order and number, MergeLosesNothing holds: groups,
\* products and rows of the merged locations end up at the canonical one.
THEOREM MergesLoseNothing == Spec => MergeLosesNothing
<1>1. ASSUME [Next]_vars, merges' # merges PROVE CommitMerge
  BY <1>1 DEF Next, vars, tables, BeginMerge, ResolveFields, DeleteCollisions,
              RewriteReferences, AbortMerge, UndoMerge, ArchiveLocation,
              UpdateLocationField, InsertRow, SetHotelGroups, BulkMergePair, Foreign
<1>2. IInv /\ [Next]_vars =>
        [merges' # merges /\ Undisturbed =>
           LET c == merging.canon
               all == Defuncts(merging.defuncts) \cup {c}
           IN  /\ \A p \in multi : p[1] \in all => <<c, p[2]>> \in multi'
               /\ (\E p \in single : p[1] \in all) => \E p \in single' : p[1] = c
               /\ \A p \in single : p[1] = c => p \in single'
               /\ \A r \in Rows : at[r] \in all =>
                    \/ at'[r] = c
                    \/ /\ ProductOf[r] # NoProduct
                       /\ \E q \in Rows : ProductOf[q] = ProductOf[r] /\ at'[q] = c]_vars
  BY <1>1, CommitLosesNothing
<1>. QED  BY <1>2, Invariance, PTL DEF Spec, MergeLosesNothing
=============================================================================
