-------------------------- MODULE BulkMergeProofs --------------------------
(***************************************************************************)
(* Proofs about BulkMerge for any locations, pairs and calls.              *)
(***************************************************************************)
EXTENDS BulkMerge, FiniteSetTheorems, WellFoundedInduction, TLAPS

-----------------------------------------------------------------------------
(* What a transaction sees, and its statements.                            *)

Tables(t) ==
  /\ t.archived \subseteq Locs
  /\ t.at \in [Rows -> Locs \cup {Absent, Gone}]
  /\ t.single \subseteq Locs \X Regions
  /\ t.multi \subseteq Locs \X Groups

Same(t, u) ==
  t.archived = u.archived /\ t.at = u.at /\ t.single = u.single /\ t.multi = u.multi

\* What is seen are tables, and before the first statement those there are.
LEMMA SeenTables ==
  ASSUME StoredOK, NEW w \in Writes
  PROVE  Tables(Seen(w))
<1>1. /\ w.archived \subseteq Locs /\ w.at \in [Rows -> Locs \cup {Absent, Gone, Kept}]
      /\ w.single.got \subseteq Locs \X Regions /\ w.multi.got \subseteq Locs \X Groups
  BY DEF Writes, Changes
<1>. QED  BY <1>1 DEF StoredOK, Tables, Seen, Changed

LEMMA NothingWritten ==
  ASSUME StoredOK
  PROVE  NoWrites \in Writes /\ Same(Seen(NoWrites), Committed)
<1>1. NoWrites \in Writes
  BY DEF NoWrites, Writes, Changes
<1>2. Seen(NoWrites).at = at
  BY DEF StoredOK, Seen, NoWrites
<1>. QED  BY <1>1, <1>2 DEF Same, Seen, NoWrites, Committed, Changed

\* Changes and further ones make what the further ones lead to.
LEMMA FurtherMakes ==
  ASSUME NEW S, NEW ch \in Changes(S), NEW x, NEW y,
         Changed(x, ch) \subseteq S, y \subseteq S
  PROVE  /\ Further(ch, Changed(x, ch), y) \in Changes(S)
         /\ Changed(x, Further(ch, Changed(x, ch), y)) = y
<1>. PICK s : s = Changed(x, ch)
  OBVIOUS
<1>1. ch.lost \subseteq S /\ ch.got \subseteq S
  BY DEF Changes
<1>2. /\ ch.lost \cup (s \ y) \in SUBSET S
      /\ (ch.got \ (s \ y)) \cup (y \ s) \in SUBSET S
  BY <1>1
<1>3. Further(ch, s, y) \in Changes(S)
  BY <1>2 DEF Further, Changes
<1>4. /\ Further(ch, s, y).lost = ch.lost \cup (s \ y)
      /\ Further(ch, s, y).got = (ch.got \ (s \ y)) \cup (y \ s)
  BY DEF Further
<1>5. s = (x \ ch.lost) \cup ch.got
  BY DEF Changed
<1>6. Changed(x, Further(ch, s, y)) = y
  BY <1>4, <1>5 DEF Changed
<1>. QED  BY <1>3, <1>6

\* The writes of a statement that makes u of what it sees make u what is seen.
LEMMA WroteSeen ==
  ASSUME StoredOK, NEW w \in Writes, NEW t, t = Seen(w),
         NEW u, Tables(u), t.archived \subseteq u.archived
  PROVE  Wrote(w, t, u) \in Writes /\ Same(Seen(Wrote(w, t, u)), u)
<1> DEFINE v == Wrote(w, t, u)
<1>1. /\ w.archived \subseteq Locs /\ w.at \in [Rows -> Locs \cup {Absent, Gone, Kept}]
      /\ w.single \in Changes(Locs \X Regions) /\ w.multi \in Changes(Locs \X Groups)
  BY DEF Writes
<1>2. Tables(t)
  BY SeenTables
<1>3. /\ t.archived = archived \cup w.archived
      /\ t.single = Changed(single, w.single) /\ t.multi = Changed(multi, w.multi)
      /\ \A r \in Rows : t.at[r] = IF w.at[r] = Kept THEN at[r] ELSE w.at[r]
  BY DEF Seen
<1>4. \A S, ch, x, y : ch \in Changes(S) /\ Changed(x, ch) \subseteq S /\ y \subseteq S
        => Further(ch, Changed(x, ch), y) \in Changes(S)
             /\ Changed(x, Further(ch, Changed(x, ch), y)) = y
  BY FurtherMakes
<1>5. /\ Further(w.single, t.single, u.single) \in Changes(Locs \X Regions)
      /\ Changed(single, Further(w.single, t.single, u.single)) = u.single
  <2>1. t.single \subseteq Locs \X Regions /\ u.single \subseteq Locs \X Regions
    BY <1>2 DEF Tables
  <2>. HIDE DEF v
  <2>. QED  BY <1>1, <1>3, <1>4, <2>1
<1>6. /\ Further(w.multi, t.multi, u.multi) \in Changes(Locs \X Groups)
      /\ Changed(multi, Further(w.multi, t.multi, u.multi)) = u.multi
  <2>1. t.multi \subseteq Locs \X Groups /\ u.multi \subseteq Locs \X Groups
    BY <1>2 DEF Tables
  <2>. HIDE DEF v
  <2>. QED  BY <1>1, <1>3, <1>4, <2>1
<1>7. /\ v.archived = w.archived \cup (u.archived \ t.archived)
      /\ v.single = Further(w.single, t.single, u.single)
      /\ v.multi = Further(w.multi, t.multi, u.multi)
      /\ v.at = [r \in Rows |-> IF u.at[r] = t.at[r] THEN w.at[r] ELSE u.at[r]]
  BY DEF Wrote
<1>8. v.at \in [Rows -> Locs \cup {Absent, Gone, Kept}]
  BY <1>1, <1>7 DEF Tables
<1>9. v.archived \subseteq Locs
  BY <1>1, <1>7 DEF Tables
<1>10. v \in Writes
  BY <1>5, <1>6, <1>7, <1>8, <1>9 DEF Wrote, Writes
<1>11. Seen(v).at = u.at
  <2>1. u.at \in [Rows -> Locs \cup {Absent, Gone}]
    BY DEF Tables
  <2>2. Seen(v).at = [r \in Rows |-> IF v.at[r] = Kept THEN at[r] ELSE v.at[r]]
    BY DEF Seen
  <2>3. ASSUME NEW r \in Rows PROVE Seen(v).at[r] = u.at[r]
    <3>1. u.at[r] # Kept
      BY <2>1, RowsAssumption
    <3>. HIDE DEF v
    <3>. QED  BY <1>3, <1>7, <2>2, <3>1
  <2>. HIDE DEF v
  <2>. QED  BY <2>1, <2>2, <2>3
<1>12. Seen(v).archived = u.archived
  BY <1>3, <1>7 DEF Seen
<1>13. Seen(v).single = u.single /\ Seen(v).multi = u.multi
  BY <1>5, <1>6, <1>7 DEF Seen
<1>. QED  BY <1>10, <1>11, <1>12, <1>13 DEF Same

\* The statements make tables of tables, and archive.
LEMMA StatementTables ==
  ASSUME NEW t, Tables(t), NEW c \in Locs, NEW d \in Locs
  PROVE  /\ Tables(WithoutCollisions(t, c, d)) /\ Tables(Rewritten(t, c, d))
         /\ t.archived \subseteq WithoutCollisions(t, c, d).archived
         /\ t.archived \subseteq Rewritten(t, c, d).archived
<1>1. Tables(WithoutCollisions(t, c, d))
  BY DEF Tables, WithoutCollisions
<1>2. \A X, s : s \subseteq Locs \X X => Moved(s, c, d) \subseteq Locs \X X
  BY DEF Moved
<1>3. Rewritten(t, c, d).at \in [Rows -> Locs \cup {Absent, Gone}]
  BY DEF Tables, Rewritten
<1>4. Tables(Rewritten(t, c, d))
  BY <1>2, <1>3 DEF Tables, Rewritten
<1>. QED  BY <1>1, <1>4 DEF WithoutCollisions, Rewritten

\* They tell tables apart by their contents only.
LEMMA SameStatements ==
  ASSUME NEW t, NEW u, Same(t, u), NEW c, NEW d
  PROVE  /\ Same(WithoutCollisions(t, c, d), WithoutCollisions(u, c, d))
         /\ Same(Rewritten(t, c, d), Rewritten(u, c, d))
<1>1. WithoutCollisions(t, c, d) = WithoutCollisions(u, c, d)
  BY DEF Same, WithoutCollisions
<1>2. Rewritten(t, c, d) = Rewritten(u, c, d)
  BY DEF Same, Rewritten
<1>. QED  BY <1>1, <1>2 DEF Same

\* What both make of the tables for a pair.
MergePair(t, pair) ==
  LET c == pair[1]
      d == pair[2]
      kept(ms)  == {m \in ms : m[1] # d}
      moved(ms) == {<<c, m[2]>> : m \in {n \in ms : n[1] = d}}
  IN [archived |-> t.archived \cup {d},
      at |-> [r \in Rows |-> IF t.at[r] # d THEN t.at[r]
                             ELSE IF Collides(r, t.at, c, d) THEN Gone ELSE c],
      single |-> kept(t.single)
                   \cup IF \E m \in t.single : m[1] = c THEN {} ELSE moved(t.single),
      multi |-> kept(t.multi) \cup moved(t.multi)]

LEMMA PairInTwo ==
  ASSUME NEW t, NEW pair \in Locs \X Locs, pair[1] # pair[2]
  PROVE  Same(Rewritten(WithoutCollisions(t, pair[1], pair[2]), pair[1], pair[2]),
              MergePair(t, pair))
<1>. PICK c \in Locs : c = pair[1]
  OBVIOUS
<1>. PICK d \in Locs : d = pair[2]
  OBVIOUS
<1> DEFINE x == WithoutCollisions(t, c, d)
           y == Rewritten(x, c, d)
           z == MergePair(t, pair)
<1>1. y.archived = z.archived
  BY DEF WithoutCollisions, Rewritten, MergePair
<1>2. y.at = z.at
  <2>1. x.at = [r \in Rows |-> IF t.at[r] = d /\ Collides(r, t.at, c, d) THEN Gone
                               ELSE t.at[r]]
    BY DEF WithoutCollisions
  <2>2. y.at = [r \in Rows |-> IF x.at[r] = d THEN c ELSE x.at[r]]
    BY DEF Rewritten
  <2>3. z.at = [r \in Rows |-> IF t.at[r] # d THEN t.at[r]
                               ELSE IF Collides(r, t.at, c, d) THEN Gone ELSE c]
    BY DEF MergePair
  <2>4. \A r \in Rows : y.at[r] = z.at[r]
    BY <2>1, <2>2, <2>3, RowsAssumption
  <2>. HIDE DEF x, y, z
  <2>. QED  BY <2>2, <2>3, <2>4
<1>3. y.single = z.single
  <2>1. x.single = {m \in t.single : m[1] = d => \A n \in t.single : n[1] # c}
    BY DEF WithoutCollisions
  <2>2. y.single = {m \in x.single : m[1] # d}
                     \cup {<<c, m[2]>> : m \in {n \in x.single : n[1] = d}}
    BY DEF Rewritten, Moved
  <2>3. z.single = {m \in t.single : m[1] # d}
                     \cup IF \E m \in t.single : m[1] = c THEN {}
                          ELSE {<<c, m[2]>> : m \in {n \in t.single : n[1] = d}}
    BY DEF MergePair
  <2>. HIDE DEF x, y, z
  <2>. QED  BY <2>1, <2>2, <2>3
<1>4. y.multi = z.multi
  <2>1. x.multi = {m \in t.multi : m[1] = d => <<c, m[2]>> \notin t.multi}
    BY DEF WithoutCollisions
  <2>2. y.multi = {m \in x.multi : m[1] # d}
                    \cup {<<c, m[2]>> : m \in {n \in x.multi : n[1] = d}}
    BY DEF Rewritten, Moved
  <2>3. z.multi = {m \in t.multi : m[1] # d}
                    \cup {<<c, m[2]>> : m \in {n \in t.multi : n[1] = d}}
    BY DEF MergePair
  <2>. HIDE DEF x, y, z
  <2>4. ASSUME NEW k \in z.multi PROVE k \in y.multi
    <3>1. CASE k \in t.multi /\ k[1] # d
      BY <2>1, <2>2, <3>1
    <3>2. CASE \E n \in t.multi : n[1] = d /\ k = <<c, n[2]>>
      <4>1. PICK n \in t.multi : n[1] = d /\ k = <<c, n[2]>>
        BY <3>2
      <4>2. CASE k \in t.multi
        BY <2>1, <2>2, <4>1, <4>2
      <4>3. CASE k \notin t.multi
        <5>1. n \in x.multi
          BY <2>1, <4>1, <4>3
        <5>. QED  BY <2>2, <4>1, <5>1
      <4>. QED  BY <4>2, <4>3
    <3>. QED  BY <2>3, <3>1, <3>2
  <2>5. ASSUME NEW k \in y.multi PROVE k \in z.multi
    BY <2>1, <2>2, <2>3
  <2>. QED  BY <2>4, <2>5
<1>. QED  BY <1>1, <1>2, <1>3, <1>4 DEF Same

-----------------------------------------------------------------------------
(* Pairs, one after the other.                                             *)

\* Induction: a set that has 0 and with a number the next has all numbers.
LEMMA AllNumbers ==
  ASSUME NEW S, 0 \in S, \A n \in Nat : n \in S => n + 1 \in S
  PROVE  \A n \in Nat : n \in S
<1> DEFINE Bad == Nat \ S
<1>. SUFFICES ASSUME Bad # {} PROVE FALSE
  OBVIOUS
<1>1. PICK n \in Bad : \A m \in Bad : <<m, n>> \notin OpToRel(<, Nat)
  BY NatLessThanWellFounded, WFMin
<1>2. n # 0 /\ n - 1 \in Nat /\ n - 1 < n
  OBVIOUS
<1>3. n - 1 \notin Bad
  BY <1>1, <1>2 DEF OpToRel
<1>4. (n - 1) + 1 = n
  OBVIOUS
<1>. QED  BY <1>2, <1>3, <1>4

\* The tables after each of the pairs.
AfterPairs(f, t, pairs, n) ==
  f = [i \in 0..n |-> IF i = 0 THEN t ELSE MergePair(f[i - 1], pairs[i])]

LEMMA NoPairYet ==
  ASSUME NEW t, NEW pairs
  PROVE  AfterPairs([i \in 0..0 |-> t], t, pairs, 0)
<1> DEFINE f == [i \in 0..0 |-> t]
<1>1. f = [i \in 0..0 |-> IF i = 0 THEN t ELSE MergePair(f[i - 1], pairs[i])]
  OBVIOUS
<1>. HIDE DEF f
<1>2. AfterPairs(f, t, pairs, 0)
  BY <1>1 DEF AfterPairs
<1>. QED  BY <1>2 DEF f

LEMMA OnePairMore ==
  ASSUME NEW t, NEW pairs, NEW n \in Nat, NEW f, AfterPairs(f, t, pairs, n)
  PROVE  \E g : AfterPairs(g, t, pairs, n + 1) /\ g[n + 1] = MergePair(f[n], pairs[n + 1])
<1> DEFINE g == [i \in 0..(n + 1) |->
                   IF i = n + 1 THEN MergePair(f[n], pairs[n + 1]) ELSE f[i]]
<1>1. ASSUME NEW i \in 0..(n + 1), i # 0 PROVE g[i] = MergePair(g[i - 1], pairs[i])
  <2>1. CASE i = n + 1
    BY <2>1
  <2>2. CASE i # n + 1
    <3>1. i \in 0..n /\ i - 1 \in 0..n /\ i - 1 # n + 1 /\ i - 1 \in 0..(n + 1)
      BY <1>1, <2>2
    <3>2. f[i] = MergePair(f[i - 1], pairs[i])
      BY <1>1, <3>1 DEF AfterPairs
    <3>. QED  BY <2>2, <3>1, <3>2
  <2>. QED  BY <2>1, <2>2
<1>2. g[0] = t /\ g[n + 1] = MergePair(f[n], pairs[n + 1])
  BY DEF AfterPairs
<1>3. g = [i \in 0..(n + 1) |-> g[i]]
  OBVIOUS
<1>. HIDE DEF g
<1>4. AfterPairs(g, t, pairs, n + 1)
  BY <1>1, <1>2, <1>3 DEF AfterPairs
<1>. QED  BY <1>2, <1>4

\* Where what is at l is after each of the pairs.
AlongPairs(f, l, pairs, n) ==
  f = [i \in 0..n |->
         IF i = 0 THEN l
         ELSE IF f[i - 1] = pairs[i][2] THEN pairs[i][1] ELSE f[i - 1]]

LEMMA FinalIs ==
  ASSUME NEW l, NEW pairs, Len(pairs) \in Nat
  PROVE  \E f : AlongPairs(f, l, pairs, Len(pairs)) /\ Final(pairs, l) = f[Len(pairs)]
<1> DEFINE S == {n \in Nat : \E f : AlongPairs(f, l, pairs, n)}
           step(x, i) == IF x = pairs[i][2] THEN pairs[i][1] ELSE x
<1>1. 0 \in S
  <2> DEFINE f == [i \in 0..0 |-> l]
  <2>1. f = [i \in 0..0 |-> IF i = 0 THEN l ELSE step(f[i - 1], i)]
    OBVIOUS
  <2>. HIDE DEF f
  <2>2. AlongPairs(f, l, pairs, 0)
    BY <2>1 DEF AlongPairs
  <2>. QED  BY <2>2
<1>2. ASSUME NEW n \in Nat, n \in S PROVE n + 1 \in S
  <2>1. PICK f : AlongPairs(f, l, pairs, n)
    BY <1>2
  <2> DEFINE g == [i \in 0..(n + 1) |-> IF i = n + 1 THEN step(f[n], n + 1) ELSE f[i]]
  <2>2. ASSUME NEW i \in 0..(n + 1), i # 0 PROVE g[i] = step(g[i - 1], i)
    <3>1. CASE i = n + 1
      BY <3>1
    <3>2. CASE i # n + 1
      <4>1. i \in 0..n /\ i - 1 \in 0..n /\ i - 1 # n + 1 /\ i - 1 \in 0..(n + 1)
        BY <2>2, <3>2
      <4>2. f[i] = step(f[i - 1], i)
        BY <2>1, <2>2, <4>1 DEF AlongPairs
      <4>. QED  BY <3>2, <4>1, <4>2
    <3>. QED  BY <3>1, <3>2
  <2>3. g[0] = l
    BY <2>1 DEF AlongPairs
  <2>4. g = [i \in 0..(n + 1) |-> g[i]]
    OBVIOUS
  <2>. HIDE DEF g
  <2>5. AlongPairs(g, l, pairs, n + 1)
    BY <2>2, <2>3, <2>4 DEF AlongPairs
  <2>. QED  BY <2>5
<1>3. Len(pairs) \in S
  BY <1>1, <1>2, AllNumbers
<1> DEFINE f == CHOOSE g : AlongPairs(g, l, pairs, Len(pairs))
<1>4. AlongPairs(f, l, pairs, Len(pairs))
  BY <1>3
<1>5. Final(pairs, l) = f[Len(pairs)]
  BY DEF Final, AlongPairs
<1>. HIDE DEF f
<1>. QED  BY <1>4, <1>5

-----------------------------------------------------------------------------
(* What some of the pairs do to the tables.                                *)

\* The rows of t0 are in t where e takes their location, or, those of a defunct
\* location that a like of theirs stands for there, deleted.
RowsFollow(t0, t, e, gone) ==
  \A r \in Rows :
    IF t0.at[r] \in {Absent, Gone} THEN t.at[r] = t0.at[r]
    ELSE \/ t.at[r] = e[t0.at[r]]
         \/ /\ t.at[r] = Gone /\ t0.at[r] \in gone
            /\ ProductOf[r] # NoProduct
            /\ \E q \in Rows : ProductOf[q] = ProductOf[r] /\ t.at[q] = e[t0.at[r]]

\* Likes that are together in t were so in t0.
LikesApart(t0, t) ==
  \A q, r \in Rows :
    (q # r /\ ProductOf[q] = ProductOf[r] /\ ProductOf[q] # NoProduct
       /\ t.at[q] = t.at[r] /\ t.at[q] \in Locs) => t0.at[q] = t0.at[r]

GroupsFollow(t0, t, e) == t.multi = {<<e[m[1]], m[2]>> : m \in t0.multi}

RegionsFollow(t0, t, e, gone) ==
  /\ {m[1] : m \in t.single} = {e[m[1]] : m \in t0.single}
  /\ \A m \in t0.single : m[1] \notin gone => m \in t.single

Follows(t0, t, e, gone) ==
  /\ Tables(t)
  /\ \A x \in Locs : e[x] \in Locs /\ (x \notin gone => e[x] = x)
  /\ RowsFollow(t0, t, e, gone) /\ LikesApart(t0, t)
  /\ GroupsFollow(t0, t, e) /\ RegionsFollow(t0, t, e, gone)
  /\ t.archived = t0.archived \cup gone

\* Before the first pair everything is where it is.
LEMMA NothingMoved ==
  ASSUME NEW t, Tables(t), NEW e, \A x \in Locs : e[x] = x
  PROVE  Follows(t, t, e, {})
<1>1. RowsFollow(t, t, e, {})
  BY DEF Tables, RowsFollow
<1>2. LikesApart(t, t)
  BY DEF LikesApart
<1>3. GroupsFollow(t, t, e)
  <2>1. \A m \in t.multi : <<e[m[1]], m[2]>> = m
    BY DEF Tables
  <2>. QED  BY <2>1 DEF GroupsFollow
<1>4. RegionsFollow(t, t, e, {})
  <2>1. \A m \in t.single : e[m[1]] = m[1]
    BY DEF Tables
  <2>. QED  BY <2>1 DEF RegionsFollow
<1>. QED  BY <1>1, <1>2, <1>3, <1>4 DEF Follows

\* One pair more.
LEMMA PairMoves ==
  ASSUME NEW t0, NEW t, NEW e, NEW gone, Follows(t0, t, e, gone), Tables(t0),
         NEW pair \in Locs \X Locs, pair[1] # pair[2],
         NEW u, u = MergePair(t, pair),
         NEW f, \A x \in Locs : f[x] = IF e[x] = pair[2] THEN pair[1] ELSE e[x]
  PROVE  Follows(t0, u, f, gone \cup {pair[2]})
<1>. PICK c \in Locs : c = pair[1]
  OBVIOUS
<1>. PICK d \in Locs : d = pair[2]
  OBVIOUS
<1> DEFINE D == gone \cup {d}
           kept(ms)  == {m \in ms : m[1] # d}
           moved(ms) == {<<c, m[2]>> : m \in {n \in ms : n[1] = d}}
<1>1. c # d /\ \A x \in Locs : f[x] = IF e[x] = d THEN c ELSE e[x]
  OBVIOUS
<1>2. /\ u.archived = t.archived \cup {d}
      /\ u.single = kept(t.single)
                      \cup IF \E m \in t.single : m[1] = c THEN {} ELSE moved(t.single)
      /\ u.multi = kept(t.multi) \cup moved(t.multi)
  BY DEF MergePair
<1>3. /\ u.at = [r \in Rows |-> u.at[r]]
      /\ \A r \in Rows : u.at[r] = IF t.at[r] # d THEN t.at[r]
                                   ELSE IF Collides(r, t.at, c, d) THEN Gone ELSE c
  BY DEF MergePair
<1>4. Tables(t)
  BY DEF Follows
<1>5. \A x \in Locs : f[x] \in Locs /\ (x \notin D => f[x] = x)
  BY <1>1 DEF Follows
<1>6. RowsFollow(t0, u, f, D)
  <2>. SUFFICES ASSUME NEW r \in Rows
                PROVE  IF t0.at[r] \in {Absent, Gone} THEN u.at[r] = t0.at[r]
                       ELSE \/ u.at[r] = f[t0.at[r]]
                            \/ /\ u.at[r] = Gone /\ t0.at[r] \in D
                               /\ ProductOf[r] # NoProduct
                               /\ \E q \in Rows : /\ ProductOf[q] = ProductOf[r]
                                                  /\ u.at[q] = f[t0.at[r]]
    BY DEF RowsFollow
  <2>1. CASE t0.at[r] \in {Absent, Gone}
    <3>1. t.at[r] = t0.at[r]
      BY <2>1 DEF Follows, RowsFollow
    <3>. QED  BY <1>3, <2>1, <3>1, PairsAssumption, RowsAssumption
  <2>2. CASE t0.at[r] \notin {Absent, Gone}
    <3>. PICK l : l = t0.at[r]
      OBVIOUS
    <3>1. l \in Locs
      BY <2>2 DEF Tables
    <3>2. \/ t.at[r] = e[l]
          \/ /\ t.at[r] = Gone /\ l \in gone /\ ProductOf[r] # NoProduct
             /\ \E q \in Rows : ProductOf[q] = ProductOf[r] /\ t.at[q] = e[l]
      BY <2>2 DEF Follows, RowsFollow
    <3>3. ASSUME NEW q \in Rows, ProductOf[q] = ProductOf[r],
                 ProductOf[r] # NoProduct, t.at[q] = e[l]
          PROVE  \E p \in Rows : ProductOf[p] = ProductOf[r] /\ u.at[p] = f[l]
      <4>1. CASE e[l] # d
        BY <1>1, <1>3, <3>1, <3>3, <4>1
      <4>2. CASE e[l] = d /\ ~Collides(q, t.at, c, d)
        BY <1>1, <1>3, <3>1, <3>3, <4>2
      <4>3. CASE e[l] = d /\ Collides(q, t.at, c, d)
        <5>1. PICK p \in Rows : t.at[p] = c /\ ProductOf[p] = ProductOf[q]
          BY <4>3 DEF Collides
        <5>2. u.at[p] = c /\ f[l] = c
          BY <1>1, <1>3, <3>1, <4>3, <5>1
        <5>. QED  BY <3>3, <5>1, <5>2
      <4>. QED  BY <4>1, <4>2, <4>3
    <3>4. CASE t.at[r] = e[l] /\ e[l] # d
      BY <1>1, <1>3, <2>2, <3>1, <3>4
    <3>5. CASE t.at[r] = e[l] /\ e[l] = d
      <4>1. f[l] = c /\ l \in D
        BY <1>1, <3>1, <3>5 DEF Follows
      <4>2. CASE Collides(r, t.at, c, d)
        <5>1. u.at[r] = Gone /\ ProductOf[r] # NoProduct
          BY <1>3, <3>5, <4>2 DEF Collides
        <5>. QED  BY <2>2, <3>3, <3>5, <4>1, <5>1
      <4>3. CASE ~Collides(r, t.at, c, d)
        BY <1>3, <2>2, <3>5, <4>1, <4>3
      <4>. QED  BY <4>2, <4>3
    <3>6. CASE t.at[r] # e[l]
      <4>1. u.at[r] = Gone
        BY <1>3, <3>2, <3>6, PairsAssumption, RowsAssumption
      <4>. QED  BY <2>2, <3>2, <3>3, <3>6, <4>1
    <3>. QED  BY <3>4, <3>5, <3>6
  <2>. QED  BY <2>1, <2>2
<1>7. LikesApart(t0, u)
  <2>. SUFFICES ASSUME NEW q \in Rows, NEW r \in Rows, q # r,
                       ProductOf[q] = ProductOf[r], ProductOf[q] # NoProduct,
                       u.at[q] = u.at[r], u.at[q] \in Locs
                PROVE  t0.at[q] = t0.at[r]
    BY DEF LikesApart
  <2>1. \A p \in Rows : u.at[p] \in Locs =>
          \/ t.at[p] # d /\ u.at[p] = t.at[p]
          \/ t.at[p] = d /\ u.at[p] = c /\ ~Collides(p, t.at, c, d)
    BY <1>3, PairsAssumption, RowsAssumption
  <2>2. t.at[q] = t.at[r] /\ t.at[q] \in Locs
    BY <2>1 DEF Collides
  <2>. QED  BY <2>2 DEF Follows, LikesApart
<1>8. GroupsFollow(t0, u, f)
  <2>1. t.multi = {<<e[m[1]], m[2]>> : m \in t0.multi}
    BY DEF Follows, GroupsFollow
  <2>2. ASSUME NEW m \in t0.multi
        PROVE  <<f[m[1]], m[2]>> \in u.multi
    <3>1. m[1] \in Locs
      BY DEF Tables
    <3>2. <<e[m[1]], m[2]>> \in t.multi
      BY <2>1
    <3>. QED  BY <1>1, <1>2, <3>1, <3>2
  <2>3. ASSUME NEW n \in u.multi
        PROVE  \E m \in t0.multi : n = <<f[m[1]], m[2]>>
    <3>1. PICK k \in t.multi : n = IF k[1] = d THEN <<c, k[2]>> ELSE k
      BY <1>2
    <3>2. PICK m \in t0.multi : k = <<e[m[1]], m[2]>>
      BY <2>1
    <3>3. m[1] \in Locs
      BY DEF Tables
    <3>4. n = <<f[m[1]], m[2]>>
      BY <1>1, <3>1, <3>2, <3>3
    <3>. QED  BY <3>4
  <2>. QED  BY <2>2, <2>3 DEF GroupsFollow
<1>9. \A x : (\E m \in u.single : m[1] = x) <=>
               \/ x # d /\ \E m \in t.single : m[1] = x
               \/ x = c /\ \E m \in t.single : m[1] = d
  <2>1. ASSUME NEW m \in u.single
        PROVE  \/ m \in t.single /\ m[1] # d
               \/ m[1] = c /\ \E n \in t.single : n[1] = d
    BY <1>2
  <2>2. \A m \in t.single : m[1] # d => m \in u.single
    BY <1>2
  <2>3. ASSUME NEW n \in t.single, n[1] = d PROVE \E m \in u.single : m[1] = c
    <3>1. CASE \E m \in t.single : m[1] = c
      BY <1>1, <2>2, <3>1
    <3>2. CASE ~ \E m \in t.single : m[1] = c
      <4>1. <<c, n[2]>> \in u.single
        BY <1>2, <2>3, <3>2
      <4>. QED  BY <4>1
    <3>. QED  BY <3>1, <3>2
  <2>. QED  BY <2>1, <2>2, <2>3
<1>10. RegionsFollow(t0, u, f, D)
  <2>1. \A x : (\E m \in t.single : m[1] = x) <=> \E m \in t0.single : e[m[1]] = x
    <3>1. {m[1] : m \in t.single} = {e[m[1]] : m \in t0.single}
      BY DEF Follows, RegionsFollow
    <3>2. \A x : x \in {m[1] : m \in t.single} <=> \E m \in t.single : m[1] = x
      OBVIOUS
    <3>3. \A x : x \in {e[m[1]] : m \in t0.single} <=> \E m \in t0.single : e[m[1]] = x
      OBVIOUS
    <3>. QED  BY <3>1, <3>2, <3>3
  <2>2. \A m \in t0.single : m[1] \in Locs
    BY DEF Tables
  <2>3. \A x : (\E m \in u.single : m[1] = x) <=> \E m \in t0.single : f[m[1]] = x
    <3>1. ASSUME NEW x, NEW m \in u.single, m[1] = x
          PROVE  \E n \in t0.single : f[n[1]] = x
      <4>1. CASE x # d /\ \E n \in t.single : n[1] = x
        <5>1. PICK n \in t0.single : e[n[1]] = x
          BY <2>1, <4>1
        <5>. QED  BY <1>1, <2>2, <4>1, <5>1
      <4>2. CASE x = c /\ \E n \in t.single : n[1] = d
        <5>1. PICK n \in t0.single : e[n[1]] = d
          BY <2>1, <4>2
        <5>. QED  BY <1>1, <2>2, <4>2, <5>1
      <4>. QED  BY <1>9, <3>1, <4>1, <4>2
    <3>2. ASSUME NEW x, NEW n \in t0.single, f[n[1]] = x
          PROVE  \E m \in u.single : m[1] = x
      <4>1. \E m \in t.single : m[1] = e[n[1]]
        BY <2>1
      <4>2. IF e[n[1]] = d THEN x = c ELSE x = e[n[1]]
        BY <1>1, <2>2, <3>2
      <4>. QED  BY <1>9, <4>1, <4>2
    <3>. QED  BY <3>1, <3>2
  <2>4. \A m \in t0.single : m[1] \notin D => m \in u.single
    BY <1>2 DEF Follows, RegionsFollow
  <2>5. {m[1] : m \in u.single} = {f[m[1]] : m \in t0.single}
    <3> DEFINE A == {m[1] : m \in u.single}
               B == {f[m[1]] : m \in t0.single}
    <3>1. \A x : x \in A <=> \E m \in u.single : m[1] = x
      OBVIOUS
    <3>2. \A x : x \in B <=> \E m \in t0.single : f[m[1]] = x
      OBVIOUS
    <3>. HIDE DEF A, B
    <3>3. A = B
      BY <2>3, <3>1, <3>2
    <3>. QED  BY <3>3 DEF A, B
  <2>. QED  BY <2>4, <2>5 DEF RegionsFollow
<1>11. Tables(u)
  <2>1. u.at \in [Rows -> Locs \cup {Absent, Gone}]
    <3>1. \A r \in Rows : u.at[r] \in Locs \cup {Absent, Gone}
      BY <1>3, <1>4 DEF Tables
    <3>. QED  BY <1>3, <3>1
  <2>2. u.single \subseteq Locs \X Regions /\ u.multi \subseteq Locs \X Groups
    BY <1>2, <1>4 DEF Tables
  <2>. QED  BY <1>2, <1>4, <2>1, <2>2 DEF Tables
<1>. QED  BY <1>2, <1>5, <1>6, <1>7, <1>8, <1>10, <1>11 DEF Follows

\* It is the tables that count.
LEMMA SameTables ==
  ASSUME NEW t0, NEW t, NEW u, NEW e, NEW gone, Follows(t0, t, e, gone),
         u.archived = t.archived, u.at = t.at, u.single = t.single, u.multi = t.multi
  PROVE  Follows(t0, u, e, gone)
<1>1. Tables(u)
  BY DEF Follows, Tables
<1>2. RowsFollow(t0, u, e, gone)
  BY DEF Follows, RowsFollow
<1>3. LikesApart(t0, u)
  BY DEF Follows, LikesApart
<1>4. GroupsFollow(t0, u, e) /\ RegionsFollow(t0, u, e, gone)
  BY DEF Follows, GroupsFollow, RegionsFollow
<1>. QED  BY <1>1, <1>2, <1>3, <1>4 DEF Follows

\* Pairs of different locations.
Proper(pairs) ==
  pairs \in Seq(Locs \X Locs) /\ \A i \in 1..Len(pairs) : pairs[i][1] # pairs[i][2]

\* The defunct locations of the first n pairs.
Defunct(pairs, n) == {pairs[i][2] : i \in 1..n}

\* All the pairs.
LEMMA AllFollow ==
  ASSUME NEW t0, Tables(t0), NEW pairs, Proper(pairs),
         NEW f, AfterPairs(f, t0, pairs, Len(pairs))
  PROVE  Follows(t0, f[Len(pairs)], [x \in Locs |-> Final(pairs, x)],
                 Defunct(pairs, Len(pairs)))
<1>. PICK n \in Nat : n = Len(pairs)
  BY DEF Proper
<1>1. AfterPairs(f, t0, pairs, n)
  OBVIOUS
<1> DEFINE path == [x \in Locs |->
                      CHOOSE p : AlongPairs(p, x, pairs, n) /\ Final(pairs, x) = p[n]]
<1>2. ASSUME NEW x \in Locs
      PROVE  /\ path[x][0] = x /\ path[x][n] = Final(pairs, x)
             /\ \A k \in Nat : k + 1 <= n =>
                  path[x][k + 1] = IF path[x][k] = pairs[k + 1][2] THEN pairs[k + 1][1]
                                   ELSE path[x][k]
  <2>1. AlongPairs(path[x], x, pairs, n) /\ Final(pairs, x) = path[x][n]
    BY FinalIs
  <2>. PICK p : p = path[x]
    OBVIOUS
  <2>. HIDE DEF path
  <2>2. p = [i \in 0..n |->
               IF i = 0 THEN x
               ELSE IF p[i - 1] = pairs[i][2] THEN pairs[i][1] ELSE p[i - 1]]
    BY <2>1 DEF AlongPairs
  <2>3. p[0] = x
    BY <2>2
  <2>4. ASSUME NEW k \in Nat, k + 1 <= n
        PROVE  p[k + 1] = IF p[k] = pairs[k + 1][2] THEN pairs[k + 1][1] ELSE p[k]
    <3>1. k + 1 \in 0..n /\ k + 1 # 0 /\ (k + 1) - 1 = k
      BY <2>4
    <3>. QED  BY <2>2, <3>1
  <2>. QED  BY <2>1, <2>3, <2>4
<1>. HIDE DEF path
<1> DEFINE e(k) == [x \in Locs |-> path[x][k]]
           S == {k \in Nat : k <= n => Follows(t0, f[k], e(k), Defunct(pairs, k))}
<1>3. 0 \in S
  <2>1. f[0] = t0 /\ \A x \in Locs : path[x][0] = x
    BY <1>1, <1>2 DEF AfterPairs
  <2>2. Defunct(pairs, 0) = {}
    BY DEF Defunct
  <2>3. Follows(t0, f[0], e(0), Defunct(pairs, 0))
    <3>1. \A x \in Locs : e(0)[x] = x
      BY <2>1
    <3>. HIDE DEF e
    <3>. QED  BY <2>1, <2>2, <3>1, NothingMoved
  <2>. QED  BY <2>3
<1>4. ASSUME NEW k \in Nat, k \in S PROVE k + 1 \in S
  <2>. SUFFICES ASSUME k + 1 <= n
                PROVE  Follows(t0, f[k + 1], e(k + 1), Defunct(pairs, k + 1))
    OBVIOUS
  <2>. PICK pair \in Locs \X Locs : pair = pairs[k + 1]
    BY DEF Proper
  <2>1. Follows(t0, f[k], e(k), Defunct(pairs, k))
    BY <1>4
  <2>2. pair[1] # pair[2]
    BY DEF Proper
  <2>3. f[k + 1] = MergePair(f[k], pair)
    BY <1>1 DEF AfterPairs
  <2>4. \A x \in Locs : path[x][k + 1] = IF path[x][k] = pair[2] THEN pair[1] ELSE path[x][k]
    BY <1>2
  <2>5. \A x \in Locs : e(k + 1)[x] = IF e(k)[x] = pair[2] THEN pair[1] ELSE e(k)[x]
    BY <2>4
  <2>6. Defunct(pairs, k + 1) = Defunct(pairs, k) \cup {pair[2]}
    BY DEF Defunct
  <2>. HIDE DEF e
  <2>. QED  BY <2>1, <2>2, <2>3, <2>5, <2>6, PairMoves
<1>5. n \in S
  <2>. HIDE DEF S
  <2>. QED  BY <1>3, <1>4, AllNumbers
<1>6. e(n) = [x \in Locs |-> Final(pairs, x)]
  BY <1>2
<1>. QED  BY <1>1, <1>5, <1>6

-----------------------------------------------------------------------------
(* The invariant.                                                          *)

\* A call under way knows the proposals it read; when it is about to stamp them
\* their pairs have been merged.
Known ==
  /\ applied \subseteq merged
  /\ \A w \in Appliers : call[w] # Idle =>
       /\ call[w].ids \subseteq {p \in Pairs : decision[p] # "none"}
       /\ call[w].next = "stamp" => call[w].ids \subseteq merged

\* What c, a call in its transaction, sees of the tables t0 after its pairs done.
Sees(c, s, t0) ==
  \E f : /\ AfterPairs(f, t0, c.pairs, c.done)
         /\ c.next = "delete" => Same(s, f[c.done])
         /\ c.next = "rewrite" =>
              Same(s, WithoutCollisions(f[c.done], c.pairs[c.done + 1][1],
                                        c.pairs[c.done + 1][2]))

\* A transaction nobody has come into sees what its statements made of the
\* tables that are there.
Progress(w) ==
  /\ call[w].next = "rewrite" => call[w].done < Len(call[w].pairs)
  /\ call[w].next = "delete" /\ call[w].done = 0 => call[w].own = NoWrites
  /\ call[w].since <= commits + inserts
  /\ call[w].next = "rewrite" \/ (call[w].next = "delete" /\ call[w].done # 0) =>
       (Undisturbed(w) => Sees(call[w], Seen(call[w].own), Committed))

Inv == TypeOK /\ Known /\ \A w \in Appliers : call[w] # Idle => Progress(w)

Quiet == UNCHANGED <<archived, at, single, multi, commits, inserts>>

\* A call that is left alone stays where it was.
LEMMA OthersProgress ==
  ASSUME TypeOK, TypeOK', NEW v \in Appliers, call[v] # Idle, Progress(v), call'[v] = call[v],
         Quiet \/ commits + inserts < commits' + inserts'
  PROVE  Progress(v)'
<1>. PICK c : c = call[v]
  OBVIOUS
<1>1. call[v] = c /\ call'[v] = c
  OBVIOUS
<1>2. commits \in Nat /\ inserts \in Nat /\ commits' \in Nat /\ inserts' \in Nat /\ c.since \in Nat
  BY DEF TypeOK, Calls
<1>3. CASE Quiet
  <2>1. Seen(c.own)' = Seen(c.own) /\ Committed' = Committed
    BY <1>3 DEF Quiet, Seen, Committed
  <2>2. Sees(c, Seen(c.own), Committed)' = Sees(c, Seen(c.own), Committed)
    BY <2>1 DEF Sees
  <2>3. Undisturbed(v)' = Undisturbed(v)
    BY <1>1, <1>3 DEF Quiet, Undisturbed
  <2>. QED  BY <1>1, <1>3, <2>2, <2>3 DEF Quiet, Progress
<1>4. CASE commits + inserts < commits' + inserts'
  <2>. PICK k \in Nat : k = commits + inserts
    BY <1>2
  <2>3. \A i, j \in Nat : i + j \in Nat
    OBVIOUS
  <2>. PICK n \in Nat : n = commits' + inserts'
    BY <1>2, <2>3, Zenon
  <2>2. c.since <= k /\ k < n
    BY <1>1, <1>4 DEF Progress
  <2>1. c.since <= n /\ c.since # n
    BY <1>2, <2>2
  <2>. QED  BY <1>1, <2>1 DEF Progress, Undisturbed
<1>. QED  BY <1>3, <1>4

LEMMA InvInit == Init => Inv
<1>. SUFFICES ASSUME Init PROVE Inv
  OBVIOUS
<1>1. TypeOK
  BY DEF Init, InitStored, StoredOK, TypeOK, Decisions
<1>. QED  BY <1>1 DEF Init, Inv, Known

\* A call reads pairs of different locations, in some order.
LEMMA ReadsProper ==
  ASSUME TypeOK, NEW w \in Appliers, BeginApply(w)
  PROVE  /\ call'[w] \in Calls /\ call'[w].ids = Pending
         /\ call'[w].next = "delete" /\ call'[w].done = 0
         /\ call'[w].own = NoWrites /\ call'[w].since = 0
         /\ DOMAIN call' = Appliers /\ \A v \in Appliers : v # w => call'[v] = call[v]
<1>1. PICK order \in SetToSeqs(Pending) :
        call' = [call EXCEPT ![w] =
                   [ids |-> Pending, pairs |-> [i \in DOMAIN order |-> Oriented(order[i])],
                    next |-> "delete", done |-> 0, own |-> NoWrites, since |-> 0]]
  BY DEF BeginApply
<1>2. PICK n \in Nat : n = Cardinality(Pending)
  BY PairsAssumption, FS_Subset, FS_CardinalityType DEF Pending
<1>3. order \in [1..n -> Pending]
  BY <1>2 DEF SetToSeqs
<1> DEFINE pairs == [i \in DOMAIN order |-> Oriented(order[i])]
           P == {p \in Locs \X Locs : p[1] # p[2]}
<1>4. \A p \in Pending : Oriented(p) \in P
  BY PairsAssumption DEF Pending, Oriented
<1>5. pairs \in [1..n -> P]
  BY <1>3, <1>4
<1>. HIDE DEF pairs, P
<1>6. pairs \in Seq(P)
  BY <1>5
<1>7. call'[w] = [ids |-> Pending, pairs |-> pairs, next |-> "delete", done |-> 0,
                  own |-> NoWrites, since |-> 0]
  BY <1>1 DEF pairs, TypeOK
<1>8. NoWrites \in Writes
  BY NothingWritten DEF TypeOK
<1>9. call'[w] \in Calls
  BY <1>6, <1>7, <1>8 DEF Calls, Pending, P
<1>. QED  BY <1>1, <1>7, <1>9 DEF TypeOK

LEMMA DecideStep ==
  ASSUME Inv, NEW p \in Pairs, NEW d \in Decisions \ {"none"}, Decide(p, d)
  PROVE  Inv'
<1>1. TypeOK /\ Known
  BY DEF Inv
<1>2. /\ UNCHANGED <<archived, at, single, multi, applied, call, merged, commits, inserts>>
      /\ decision' = [decision EXCEPT ![p] = d]
  BY DEF Decide, stored
<1>3. decision' \in [Pairs -> Decisions] /\ \A q \in Pairs : decision[q] # "none" => decision'[q] # "none"
  BY <1>1, <1>2 DEF TypeOK
<1>4. TypeOK'
  BY <1>1, <1>2, <1>3 DEF TypeOK, StoredOK
<1>5. Known'
  BY <1>1, <1>2, <1>3 DEF Known
<1>6. ASSUME NEW v \in Appliers, call'[v] # Idle PROVE Progress(v)'
  BY <1>1, <1>2, <1>4, <1>6, OthersProgress DEF Inv, Quiet
<1>. QED  BY <1>4, <1>5, <1>6 DEF Inv

LEMMA BeginStep ==
  ASSUME Inv, NEW w \in Appliers, BeginApply(w)
  PROVE  Inv'
<1>1. TypeOK /\ Known
  BY DEF Inv
<1>2. UNCHANGED <<archived, at, single, multi, decision, applied, merged, commits, inserts>>
  BY DEF BeginApply, stored
<1>3. /\ call'[w] \in Calls /\ call'[w].ids = Pending
      /\ call'[w].next = "delete" /\ call'[w].done = 0
      /\ call'[w].own = NoWrites /\ call'[w].since = 0
      /\ DOMAIN call' = Appliers /\ \A v \in Appliers : v # w => call'[v] = call[v]
  BY <1>1, ReadsProper
<1>4. TypeOK'
  BY <1>1, <1>2, <1>3 DEF TypeOK, StoredOK
<1>5. Known'
  BY <1>1, <1>2, <1>3 DEF Known, Pending
<1>6. Progress(w)'
  BY <1>1, <1>2, <1>3 DEF Progress, TypeOK
<1>7. ASSUME NEW v \in Appliers, v # w, call'[v] # Idle PROVE Progress(v)'
  BY <1>1, <1>2, <1>3, <1>4, <1>7, OthersProgress DEF Inv, Quiet
<1>. QED  BY <1>4, <1>5, <1>6, <1>7 DEF Inv

\* A statement of one call leaves the others and what they know alone.
LEMMA StatementStep ==
  ASSUME Inv, NEW w \in Appliers, NEW c \in Calls,
         call[w] # Idle, call' = [call EXCEPT ![w] = c], c.ids = call[w].ids, c.next # "stamp",
         UNCHANGED <<stored, decision, applied, merged, counters>>,
         Progress(w)'
  PROVE  Inv'
<1>1. TypeOK /\ Known
  BY DEF Inv
<1>2. UNCHANGED <<archived, at, single, multi, decision, applied, merged, commits, inserts>>
  BY DEF stored, counters
<1>3. call'[w] = c /\ DOMAIN call' = Appliers /\ \A v \in Appliers : v # w => call'[v] = call[v]
  BY <1>1 DEF TypeOK
<1>4. TypeOK'
  BY <1>1, <1>2, <1>3 DEF TypeOK, StoredOK
<1>5. Known'
  BY <1>1, <1>2, <1>3 DEF Known
<1>6. ASSUME NEW v \in Appliers, v # w, call'[v] # Idle PROVE Progress(v)'
  BY <1>1, <1>2, <1>3, <1>4, <1>6, OthersProgress DEF Inv, Quiet
<1>. QED  BY <1>4, <1>5, <1>6 DEF Inv

\* What is known of a call in its transaction.
LEMMA CallIs ==
  ASSUME Inv, NEW w \in Appliers, call[w] # Idle
  PROVE  /\ call[w] \in Calls /\ Progress(w) /\ StoredOK
         /\ commits \in Nat /\ inserts \in Nat
         /\ call[w].ids \subseteq Pairs /\ Proper(call[w].pairs)
         /\ call[w].done \in Nat /\ call[w].own \in Writes /\ call[w].since \in Nat
         /\ call[w].done < Len(call[w].pairs) =>
              Current(w) \in Locs \X Locs /\ Current(w)[1] # Current(w)[2]
<1>1. call[w] \in Calls /\ Progress(w) /\ StoredOK /\ commits \in Nat /\ inserts \in Nat
  BY DEF Inv, TypeOK
<1>2. call[w].pairs \in Seq({p \in Locs \X Locs : p[1] # p[2]}) /\ call[w].done \in Nat
  BY <1>1 DEF Calls
<1>3. Proper(call[w].pairs)
  BY <1>2 DEF Proper
<1>4. ASSUME call[w].done < Len(call[w].pairs)
      PROVE  Current(w) \in Locs \X Locs /\ Current(w)[1] # Current(w)[2]
  <2>1. call[w].done + 1 \in 1..Len(call[w].pairs)
    BY <1>2, <1>4
  <2>. QED  BY <1>2, <2>1 DEF Current
<1>. QED  BY <1>1, <1>2, <1>3, <1>4 DEF Calls

\* Before its first statement, and undisturbed before the DELETEs of a later
\* pair, a transaction sees the tables after the pairs done.
LEMMA SeesDone ==
  ASSUME Inv, NEW w \in Appliers, call[w] # Idle, call[w].next = "delete",
         call[w].done = 0 \/ Undisturbed(w)
  PROVE  \E f : /\ AfterPairs(f, Committed, call[w].pairs, call[w].done)
                /\ Same(Seen(call[w].own), f[call[w].done])
<1>1. Progress(w) /\ StoredOK
  BY CallIs
<1>2. CASE call[w].done = 0
  <2>1. call[w].own = NoWrites
    BY <1>1, <1>2 DEF Progress
  <2>. PICK t0 : t0 = Committed
    OBVIOUS
  <2> DEFINE f == [i \in 0..0 |-> t0]
  <2>. PICK pairs : pairs = call[w].pairs
    OBVIOUS
  <2>4. f[0] = t0
    OBVIOUS
  <2>5. AfterPairs(f, t0, pairs, 0)
    BY NoPairYet
  <2>3. Same(Seen(NoWrites), t0)
    BY <1>1, NothingWritten
  <2>. HIDE DEF f
  <2>. QED  BY <1>2, <2>1, <2>3, <2>4, <2>5
<1>3. CASE call[w].done # 0 /\ Undisturbed(w)
  BY <1>1, <1>3 DEF Progress, Sees
<1>. QED  BY <1>2, <1>3

LEMMA DeleteStep ==
  ASSUME Inv, NEW w \in Appliers, DeleteCollisions(w)
  PROVE  Inv'
<1>. PICK c0 : c0 = call[w]
  OBVIOUS
<1>. PICK pair : pair = c0.pairs[c0.done + 1]
  OBVIOUS
<1>. PICK t : t = Seen(c0.own)
  OBVIOUS
<1>. PICK u : u = WithoutCollisions(t, pair[1], pair[2])
  OBVIOUS
<1>. PICK own : own = Wrote(c0.own, t, u)
  OBVIOUS
<1>. PICK since : since = IF c0.done = 0 THEN commits + inserts ELSE c0.since
  OBVIOUS
<1>1. /\ c0 # Idle /\ c0.next = "delete" /\ c0.done < Len(c0.pairs)
      /\ call' = [call EXCEPT ![w].next = "rewrite", ![w].own = own, ![w].since = since]
      /\ UNCHANGED <<stored, decision, applied, merged, counters>>
  BY DEF DeleteCollisions, Current
<1>2. /\ c0 \in Calls /\ Progress(w) /\ StoredOK /\ commits \in Nat /\ inserts \in Nat
      /\ c0.done \in Nat /\ c0.own \in Writes /\ c0.since \in Nat
      /\ pair \in Locs \X Locs /\ pair[1] # pair[2]
  BY <1>1, CallIs DEF Current
<1>3. since \in Nat
  BY <1>2
<1>4. Tables(t) /\ Tables(u) /\ t.archived \subseteq u.archived
  BY <1>2, SeenTables, StatementTables
<1>5. own \in Writes /\ Same(Seen(own), u)
  BY <1>2, <1>4, WroteSeen
<1>. PICK c : c = [c0 EXCEPT !.next = "rewrite", !.own = own, !.since = since]
  OBVIOUS
<1>6. /\ c \in Calls /\ c.next = "rewrite" /\ c.own = own /\ c.since = since
      /\ c.ids = c0.ids /\ c.pairs = c0.pairs /\ c.done = c0.done
  BY <1>2, <1>3, <1>5 DEF Calls
<1>7. call' = [call EXCEPT ![w] = c] /\ call'[w] = c
  BY <1>1 DEF Inv, TypeOK
<1>8. UNCHANGED <<archived, at, single, multi, commits, inserts>>
  BY <1>1 DEF stored, counters
<1>9. ASSUME since = commits + inserts PROVE Sees(c, Seen(own), Committed)
  <2>1. c0.done = 0 \/ Undisturbed(w)
    BY <1>9 DEF Undisturbed
  <2>2. PICK f : AfterPairs(f, Committed, c0.pairs, c0.done) /\ Same(t, f[c0.done])
    BY <1>1, <2>1, SeesDone
  <2>3. Same(u, WithoutCollisions(f[c0.done], pair[1], pair[2]))
    BY <2>2, SameStatements
  <2>4. Same(Seen(own), WithoutCollisions(f[c0.done], pair[1], pair[2]))
    BY <1>5, <2>3 DEF Same
  <2>. QED  BY <1>6, <2>2, <2>4 DEF Sees
<1>10. Progress(w)'
  <2>1. Seen(own)' = Seen(own) /\ Committed' = Committed
    BY <1>8 DEF Seen, Committed
  <2>2. since <= commits + inserts
    BY <1>2 DEF Progress
  <2>3. Undisturbed(w)' => Sees(c, Seen(own), Committed)
    BY <1>6, <1>7, <1>8, <1>9 DEF Undisturbed
  <2>4. Sees(c, Seen(own), Committed)' = Sees(c, Seen(own), Committed)
    BY <2>1 DEF Sees
  <2>5. c.done < Len(c.pairs)
    BY <1>1, <1>6
  <2>6. Undisturbed(w)' => Sees(call[w], Seen(call[w].own), Committed)'
    BY <1>6, <1>7, <2>3, <2>4
  <2>7. call'[w].next = "rewrite" /\ call'[w].since <= commits' + inserts'
    BY <1>6, <1>7, <1>8, <2>2
  <2>8. call'[w].done < Len(call'[w].pairs)
    BY <1>7, <2>5
  <2>. QED  BY <2>6, <2>7, <2>8 DEF Progress
<1>. QED  BY <1>1, <1>6, <1>7, <1>10, StatementStep

LEMMA RewriteStep ==
  ASSUME Inv, NEW w \in Appliers, RewriteReferences(w)
  PROVE  Inv'
<1>. PICK c0 : c0 = call[w]
  OBVIOUS
<1>. PICK pair : pair = c0.pairs[c0.done + 1]
  OBVIOUS
<1>. PICK t : t = Seen(c0.own)
  OBVIOUS
<1>. PICK u : u = Rewritten(t, pair[1], pair[2])
  OBVIOUS
<1>. PICK own : own = Wrote(c0.own, t, u)
  OBVIOUS
<1>1. /\ c0 # Idle /\ c0.next = "rewrite"
      /\ call' = [call EXCEPT ![w].next = "delete", ![w].own = own, ![w].done = c0.done + 1]
      /\ UNCHANGED <<stored, decision, applied, merged, counters>>
  BY DEF RewriteReferences, Current
<1>2. /\ c0 \in Calls /\ Progress(w) /\ StoredOK /\ commits \in Nat /\ inserts \in Nat
      /\ c0.done \in Nat /\ c0.own \in Writes /\ c0.since \in Nat
      /\ c0.done < Len(c0.pairs)
  BY <1>1, CallIs DEF Progress
<1>3. pair \in Locs \X Locs /\ pair[1] # pair[2]
  BY <1>1, <1>2, CallIs DEF Current
<1>4. Tables(t) /\ Tables(u) /\ t.archived \subseteq u.archived
  BY <1>2, <1>3, SeenTables, StatementTables
<1>5. own \in Writes /\ Same(Seen(own), u)
  BY <1>2, <1>4, WroteSeen
<1>. PICK c : c = [c0 EXCEPT !.next = "delete", !.own = own, !.done = c0.done + 1]
  OBVIOUS
<1>6. /\ c \in Calls /\ c.next = "delete" /\ c.own = own /\ c.since = c0.since
      /\ c.ids = c0.ids /\ c.pairs = c0.pairs /\ c.done = c0.done + 1
  <2>. PICK k \in Nat : k = c0.done + 1
    BY <1>2
  <2>1. c = [c0 EXCEPT !.next = "delete", !.own = own, !.done = k]
    OBVIOUS
  <2>. QED  BY <1>2, <1>5, <2>1 DEF Calls
<1>7. call' = [call EXCEPT ![w] = c] /\ call'[w] = c
  BY <1>1 DEF Inv, TypeOK
<1>8. UNCHANGED <<archived, at, single, multi, commits, inserts>>
  BY <1>1 DEF stored, counters
<1>9. ASSUME c0.since = commits + inserts PROVE Sees(c, Seen(own), Committed)
  <2>. PICK t0 : t0 = Committed
    OBVIOUS
  <2>1. Sees(c0, t, t0)
    <3>1. Undisturbed(w)
      BY <1>9 DEF Undisturbed
    <3>2. Sees(call[w], Seen(call[w].own), Committed)
      BY <1>1, <1>2, <3>1 DEF Progress
    <3>. QED  BY <3>2
  <2>2. PICK f : /\ AfterPairs(f, t0, c0.pairs, c0.done)
                 /\ Same(t, WithoutCollisions(f[c0.done], pair[1], pair[2]))
    BY <1>1, <2>1 DEF Sees
  <2>. PICK x : x = f[c0.done]
    OBVIOUS
  <2>5. PICK g : AfterPairs(g, t0, c0.pairs, c0.done + 1)
                   /\ g[c0.done + 1] = MergePair(x, pair)
    <3>. PICK n \in Nat : n = c0.done
      BY <1>2
    <3>. PICK pairs : pairs = c0.pairs
      OBVIOUS
    <3>1. AfterPairs(f, t0, pairs, n)
      BY <2>2
    <3>2. PICK g : AfterPairs(g, t0, pairs, n + 1) /\ g[n + 1] = MergePair(f[n], pairs[n + 1])
      BY <3>1, OnePairMore
    <3>3. f[n] = x /\ pairs[n + 1] = pair
      OBVIOUS
    <3>. QED  BY <3>2, <3>3
  <2>3. Same(u, Rewritten(WithoutCollisions(x, pair[1], pair[2]), pair[1], pair[2]))
    BY <2>2, SameStatements
  <2>4. Same(Seen(own), MergePair(x, pair))
    <3>1. Same(Rewritten(WithoutCollisions(x, pair[1], pair[2]), pair[1], pair[2]),
               MergePair(x, pair))
      BY <1>3, PairInTwo
    <3>. QED  BY <1>5, <2>3, <3>1 DEF Same
  <2>. QED  BY <1>6, <2>4, <2>5 DEF Sees
<1>10. Progress(w)'
  <2>1. Seen(own)' = Seen(own) /\ Committed' = Committed
    BY <1>8 DEF Seen, Committed
  <2>2. c0.since <= commits + inserts /\ c.done # 0
    BY <1>2, <1>6 DEF Progress
  <2>3. Undisturbed(w)' => Sees(c, Seen(own), Committed)
    BY <1>6, <1>7, <1>8, <1>9 DEF Undisturbed
  <2>4. Sees(c, Seen(own), Committed)' = Sees(c, Seen(own), Committed)
    BY <2>1 DEF Sees
  <2>5. Undisturbed(w)' => Sees(call[w], Seen(call[w].own), Committed)'
    BY <1>6, <1>7, <2>3, <2>4
  <2>6. /\ call'[w].next = "delete" /\ call'[w].since <= commits' + inserts'
        /\ call'[w].done # 0
    BY <1>6, <1>7, <1>8, <2>2
  <2>. QED  BY <2>5, <2>6 DEF Progress
<1>. QED  BY <1>1, <1>6, <1>7, <1>10, StatementStep

LEMMA CommitStep ==
  ASSUME Inv, NEW w \in Appliers, CommitMerges(w)
  PROVE  Inv'
<1>. PICK c0 : c0 = call[w]
  OBVIOUS
<1>1. /\ c0 # Idle /\ call' = [call EXCEPT ![w].next = "stamp", ![w].own = NoWrites]
      /\ archived' = Seen(c0.own).archived /\ at' = Seen(c0.own).at
      /\ single' = Seen(c0.own).single /\ multi' = Seen(c0.own).multi
      /\ merged' = merged \cup c0.ids /\ commits' = commits + 1
      /\ UNCHANGED <<decision, applied, inserts>>
  BY DEF CommitMerges, Commit
<1>2. /\ c0 \in Calls /\ Progress(w) /\ StoredOK /\ commits \in Nat /\ inserts \in Nat
      /\ c0.own \in Writes /\ c0.ids \subseteq Pairs /\ c0.since \in Nat
  BY <1>1, CallIs
<1>3. Tables(Seen(c0.own))
  BY <1>2, SeenTables
<1>4. StoredOK'
  BY <1>1, <1>3 DEF StoredOK, Tables
<1>. PICK c : c = [c0 EXCEPT !.next = "stamp", !.own = NoWrites]
  OBVIOUS
<1>5. NoWrites \in Writes
  BY <1>2, NothingWritten
<1>6. c \in Calls /\ c.next = "stamp" /\ c.since = c0.since /\ c.ids = c0.ids
  BY <1>2, <1>5 DEF Calls
<1>7. call'[w] = c /\ DOMAIN call' = Appliers /\ \A v \in Appliers : v # w => call'[v] = call[v]
  BY <1>1 DEF Inv, TypeOK
<1>8. TypeOK'
  BY <1>1, <1>2, <1>4, <1>6, <1>7 DEF Inv, TypeOK
<1>9. Known'
  BY <1>1, <1>6, <1>7 DEF Inv, Known
<1>10. Progress(w)'
  <2>1. c0.since <= commits' + inserts'
    BY <1>1, <1>2 DEF Progress
  <2>. QED  BY <1>6, <1>7, <2>1 DEF Progress
<1>11. ASSUME NEW v \in Appliers, v # w, call'[v] # Idle PROVE Progress(v)'
  <2>1. commits + inserts < commits' + inserts'
    BY <1>1, <1>2
  <2>. QED  BY <1>7, <1>8, <1>11, <2>1, OthersProgress DEF Inv
<1>. QED  BY <1>8, <1>9, <1>10, <1>11 DEF Inv

\* The stamps are those of the proposals that were read, and merged; a call
\* that fails knows nothing any more.
LEMMA EndStep ==
  ASSUME Inv, NEW w \in Appliers, StampProposals(w) \/ Fail(w)
  PROVE  Inv'
<1>1. /\ call[w] # Idle /\ call' = [call EXCEPT ![w] = Idle]
      /\ UNCHANGED <<archived, at, single, multi, decision, merged, commits, inserts>>
      /\ \/ applied' = applied
         \/ applied' = applied \cup call[w].ids /\ call[w].next = "stamp"
  <2>1. CASE StampProposals(w)
    BY <2>1 DEF StampProposals, Stamped, stored, counters
  <2>2. CASE Fail(w)
    BY <2>2 DEF Fail, stored, counters
  <2>. QED  BY <2>1, <2>2
<1>2. /\ call[w].ids \subseteq {p \in Pairs : decision[p] # "none"}
      /\ call[w].next = "stamp" => call[w].ids \subseteq merged
  BY <1>1 DEF Inv, Known
<1>3. call'[w] = Idle /\ DOMAIN call' = Appliers /\ \A v \in Appliers : v # w => call'[v] = call[v]
  BY <1>1 DEF Inv, TypeOK
<1>4. TypeOK'
  BY <1>1, <1>2, <1>3 DEF Inv, TypeOK, StoredOK
<1>5. Known'
  BY <1>1, <1>2, <1>3 DEF Inv, Known
<1>6. ASSUME NEW v \in Appliers, call'[v] # Idle PROVE Progress(v)'
  BY <1>1, <1>3, <1>4, <1>6, OthersProgress DEF Inv, Quiet
<1>. QED  BY <1>4, <1>5, <1>6 DEF Inv

LEMMA InsertStep ==
  ASSUME Inv, NEW r \in Rows, NEW l \in Locs, InsertRow(r, l)
  PROVE  Inv'
<1>1. /\ at' = [at EXCEPT ![r] = l] /\ inserts' = inserts + 1
      /\ UNCHANGED <<archived, single, multi, decision, applied, call, merged, commits>>
  BY DEF InsertRow
<1>2. TypeOK'
  BY <1>1 DEF Inv, TypeOK, StoredOK
<1>3. Known'
  BY <1>1 DEF Inv, Known
<1>4. commits + inserts < commits' + inserts'
  BY <1>1 DEF Inv, TypeOK
<1>5. ASSUME NEW v \in Appliers, call'[v] # Idle PROVE Progress(v)'
  BY <1>1, <1>2, <1>4, <1>5, OthersProgress DEF Inv
<1>. QED  BY <1>2, <1>3, <1>5 DEF Inv

LEMMA Invariance == Spec => []Inv
<1>1. Inv /\ [Next]_vars => Inv'
  <2>. SUFFICES ASSUME Inv, [Next]_vars PROVE Inv'
    OBVIOUS
  <2>1. CASE UNCHANGED vars
    <3>1. UNCHANGED <<archived, at, single, multi, decision, applied, call, merged, commits, inserts>>
      BY <2>1 DEF vars
    <3>2. TypeOK' /\ Known'
      BY <3>1 DEF Inv, TypeOK, Known, StoredOK
    <3>3. ASSUME NEW v \in Appliers, call'[v] # Idle PROVE Progress(v)'
      BY <3>1, <3>2, <3>3, OthersProgress DEF Inv, Quiet
    <3>. QED  BY <3>2, <3>3 DEF Inv
  <2>2. CASE Next
    BY <2>2, DecideStep, BeginStep, DeleteStep, RewriteStep, CommitStep, EndStep,
       InsertStep DEF Next
  <2>. QED  BY <2>1, <2>2
<1>. QED  BY <1>1, InvInit, PTL DEF Spec

-----------------------------------------------------------------------------
(* The theorems.                                                           *)

\* For any number of hotels, pairs and calls the tables, the decisions and the
\* calls hold what they are said to.
THEOREM Types == Spec => []TypeOK
<1>1. Inv => TypeOK
  BY DEF Inv
<1>. QED  BY <1>1, Invariance, PTL

\* For any number of locations, proposals and admins: a proposal that says it
\* was applied has been merged, however decisions and applications interleave,
\* fail and are repeated (applyApprovedMerges).
THEOREM StampedWereMerged == Spec => []StampedWasMerged
<1>1. Inv => StampedWasMerged
  BY DEF Inv, Known, StampedWasMerged
<1>. QED  BY <1>1, Invariance, PTL

\* What the commit of an undisturbed transaction says of where the pairs lead.
LEMMA CommitLeads ==
  ASSUME Inv, NEW w \in Appliers, CommitMerges(w), Undisturbed(w)
  PROVE  LET pairs == call[w].pairs
             end(l) == Final(pairs, l)
             defunct == {pairs[i][2] : i \in DOMAIN pairs}
         IN
         /\ \A r \in Rows :
              IF at[r] \in {Absent, Gone} THEN at'[r] = at[r]
              ELSE \/ at'[r] = end(at[r])
                   \/ /\ at'[r] = Gone /\ at[r] \in defunct
                      /\ ProductOf[r] # NoProduct
                      /\ \E q \in Rows : /\ ProductOf[q] = ProductOf[r]
                                         /\ at'[q] = end(at[r])
         /\ \A q, r \in Rows :
              (q # r /\ ProductOf[q] = ProductOf[r] /\ ProductOf[q] # NoProduct
                 /\ at'[q] = at'[r] /\ at'[q] \in Locs) => at[q] = at[r]
         /\ multi' = {<<end(m[1]), m[2]>> : m \in multi}
         /\ {m[1] : m \in single'} = {end(m[1]) : m \in single}
         /\ \A m \in single : m[1] \notin defunct => m \in single'
         /\ archived' = archived \cup defunct
<1>. PICK pairs : pairs = call[w].pairs
  OBVIOUS
<1> DEFINE end(l) == Final(pairs, l)
           defunct == {pairs[i][2] : i \in DOMAIN pairs}
           e == [x \in Locs |-> end(x)]
<1>. PICK s : s = Seen(call[w].own)
  OBVIOUS
<1>. PICK t0 : t0 = Committed
  OBVIOUS
<1>1. /\ call[w] # Idle /\ call[w].next = "delete" /\ call[w].done = Len(pairs)
      /\ archived' = s.archived /\ at' = s.at /\ single' = s.single /\ multi' = s.multi
  BY DEF CommitMerges, Commit
<1>2. Proper(pairs) /\ StoredOK
  BY <1>1, CallIs
<1>3. PICK f : AfterPairs(f, t0, pairs, Len(pairs)) /\ Same(s, f[Len(pairs)])
  BY <1>1, SeesDone
<1>4. /\ t0.archived = archived /\ t0.at = at /\ t0.single = single /\ t0.multi = multi
      /\ Tables(t0)
  BY <1>2 DEF Committed, Tables, StoredOK
<1>5. Follows(t0, s, e, Defunct(pairs, Len(pairs)))
  <2>1. Follows(t0, f[Len(pairs)], e, Defunct(pairs, Len(pairs)))
    BY <1>2, <1>3, <1>4, AllFollow
  <2>. QED  BY <1>3, <2>1, SameTables DEF Same
<1>6. defunct = Defunct(pairs, Len(pairs))
  BY <1>2 DEF Defunct, Proper
<1>7. /\ at \in [Rows -> Locs \cup {Absent, Gone}]
      /\ \A m \in single : m[1] \in Locs
      /\ \A m \in multi : m[1] \in Locs
  BY <1>2 DEF StoredOK
<1>8. \A x \in Locs : e[x] = end(x)
  OBVIOUS
<1>. HIDE DEF end, defunct, e
<1>9. ASSUME NEW r \in Rows
      PROVE  IF at[r] \in {Absent, Gone} THEN at'[r] = at[r]
             ELSE \/ at'[r] = end(at[r])
                  \/ /\ at'[r] = Gone /\ at[r] \in defunct
                     /\ ProductOf[r] # NoProduct
                     /\ \E q \in Rows : /\ ProductOf[q] = ProductOf[r]
                                        /\ at'[q] = end(at[r])
  BY <1>1, <1>4, <1>5, <1>6, <1>7, <1>8 DEF Follows, RowsFollow
<1>10. \A q, r \in Rows :
        (q # r /\ ProductOf[q] = ProductOf[r] /\ ProductOf[q] # NoProduct
           /\ at'[q] = at'[r] /\ at'[q] \in Locs) => at[q] = at[r]
  BY <1>1, <1>4, <1>5 DEF Follows, LikesApart
<1>11. multi' = {<<end(m[1]), m[2]>> : m \in multi}
  <2>1. multi' = {<<e[m[1]], m[2]>> : m \in multi}
    BY <1>1, <1>4, <1>5 DEF Follows, GroupsFollow
  <2>. QED  BY <1>7, <1>8, <2>1
<1>12. archived' = archived \cup defunct
  BY <1>1, <1>4, <1>5, <1>6 DEF Follows
<1>13. /\ {m[1] : m \in single'} = {end(m[1]) : m \in single}
       /\ \A m \in single : m[1] \notin defunct => m \in single'
  <2>1. {m[1] : m \in single'} = {e[m[1]] : m \in single}
    BY <1>1, <1>4, <1>5 DEF Follows, RegionsFollow
  <2>2. \A m \in single : m[1] \notin defunct => m \in single'
    BY <1>1, <1>4, <1>5, <1>6 DEF Follows, RegionsFollow
  <2>. QED  BY <1>7, <1>8, <2>1, <2>2
<1>. QED  BY <1>9, <1>10, <1>11, <1>12, <1>13 DEF end, defunct

\* Whatever pairs are pending, in whatever order the SELECT returns them and
\* however often they are applied: everything of a location ends where its pairs
\* lead, likes become one, a hotel keeps a region if it or a hotel merged into it
\* had one, and nothing else moves, unless somebody else commits between two
\* statements of the application (applyBulkMerge).
THEOREM ApplicationsFollowPairs == Spec => AppliesFollowPairs
<1> DEFINE Leads ==
      \E w \in Appliers :
         LET pairs == call[w].pairs
             end(l) == Final(pairs, l)
             defunct == {pairs[i][2] : i \in DOMAIN pairs}
         IN
         /\ call'[w] # call[w] /\ call[w].next = "delete"
         /\ Undisturbed(w) =>
            /\ \A r \in Rows :
                 IF at[r] \in {Absent, Gone} THEN at'[r] = at[r]
                 ELSE \/ at'[r] = end(at[r])
                      \/ /\ at'[r] = Gone /\ at[r] \in defunct
                         /\ ProductOf[r] # NoProduct
                         /\ \E q \in Rows : /\ ProductOf[q] = ProductOf[r]
                                            /\ at'[q] = end(at[r])
            /\ \A q, r \in Rows :
                 (q # r /\ ProductOf[q] = ProductOf[r] /\ ProductOf[q] # NoProduct
                    /\ at'[q] = at'[r] /\ at'[q] \in Locs) => at[q] = at[r]
            /\ multi' = {<<end(m[1]), m[2]>> : m \in multi}
            /\ {m[1] : m \in single'} = {end(m[1]) : m \in single}
            /\ \A m \in single : m[1] \notin defunct => m \in single'
            /\ archived' = archived \cup defunct
<1>1. ASSUME Inv, NEW w \in Appliers, CommitMerges(w) PROVE Leads
  <2>1. call[w] \in Calls /\ call[w].next = "delete"
    BY <1>1, CallIs DEF CommitMerges
  <2>2. call'[w].next = "stamp"
    BY <1>1, <2>1 DEF CommitMerges, Inv, TypeOK, Calls
  <2>. QED  BY <1>1, <2>1, <2>2, CommitLeads
<1>. HIDE DEF Leads
<1>2. Inv /\ [Next]_vars => [commits' # commits => Leads]_vars
  BY <1>1 DEF Next, vars, counters, Decide, BeginApply, DeleteCollisions,
              RewriteReferences, StampProposals, Fail, InsertRow
<1>. QED  BY <1>2, Invariance, PTL DEF Spec, AppliesFollowPairs, Leads
=============================================================================
