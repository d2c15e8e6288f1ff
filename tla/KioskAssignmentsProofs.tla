----------------------- MODULE KioskAssignmentsProofs -----------------------
(***************************************************************************)
(* Proofs about KioskAssignments.                                          *)
(***************************************************************************)
EXTENDS KioskAssignments, TLAPS

\* Requests that insert a row know its location.
HasLocation ==
  \A w \in Writer :
    request[w] # Idle /\ request[w].op \in {"assign", "place"} =>
      request[w].location \in Location

\* A user about to insert an assignment has no open row at the kiosk: the ones
\* there are came after the user closed all, from other users.
NoOpenRowOfMine ==
  \A w \in Writer : Busy(w, "assign", "insert") =>
    \A i \in Open(request[w].kiosk) :
      request[w].kiosk \notin mixed => row[i].by # w

\* Who may have open rows, without the requests nobody interfered with.
RInv == TypeOK /\ HasLocation /\ NoOpenRowOfMine /\ OpenRowsAreRivals

\* What a request q that nobody has interfered with has done so far to the rows
\* r and the links lk.
Done(q, r, lk) ==
  /\ q.op \in {"assign", "archive"} /\ q.pc # "close" =>
       \A i \in Ids : r[i] # Unused /\ r[i].kiosk = q.kiosk => ~r[i].open
  /\ q.op = "merge" =>
       /\ q.kiosk \notin q.sources
       /\ q.pc # "repoint" =>
            \A i \in Ids : r[i] # Unused => r[i].kiosk \notin q.sources
       /\ q.pc = "unlink" => q.links \subseteq q.todo
       /\ q.pc \in {"relink", "stamp"} =>
            /\ \A p \in lk : p[2] \notin q.sources
            /\ \A i \in q.links : i \in q.todo \/ <<i, q.kiosk>> \in lk
       /\ q.pc = "stamp" => q.todo = {}

DoneAlone ==
  \A v \in alone : request[v] # Idle => Done(request[v], row, linked)

IInv == RInv /\ DoneAlone

-----------------------------------------------------------------------------
(* Types.                                                                  *)

\* Moving a request on, ending one and beginning one keep the table of requests.
LEMMA GotoType ==
  ASSUME TypeOK, NEW w \in Writer, request[w] # Idle,
         NEW pc \in {"close", "insert", "stamp", "repoint", "read", "unlink",
                     "relink", "check"}
  PROVE  [request EXCEPT ![w].pc = pc] \in [Writer -> Requests \cup {Idle}]
  BY DEF TypeOK, Requests

LEMMA EndType ==
  ASSUME TypeOK, NEW w \in Writer
  PROVE  [request EXCEPT ![w] = Idle] \in [Writer -> Requests \cup {Idle}]
  BY DEF TypeOK

LEMMA BeginType ==
  ASSUME TypeOK, NEW w \in Writer, NEW k \in Kiosk,
         NEW l \in Location \cup {Unused}, NEW S \in SUBSET Kiosk,
         NEW op \in {"assign", "archive", "merge", "place"},
         NEW pc \in {"close", "repoint", "check"},
         Begin(w, op, pc, k, l, S)
  PROVE  TypeOK'
  BY BoundAssumption DEF TypeOK, Requests, Begin

\* An inserted row is an assignment to a location: only requests that have one
\* come to insert.
LEMMA InsertType ==
  ASSUME TypeOK, HasLocation, NEW w \in Writer, InsertRow(w),
         Busy(w, "assign", "insert") \/ Busy(w, "place", "insert")
  PROVE  row' \in [Ids -> Assignments \cup {Unused}]
<1>1. request[w] \in Requests /\ request[w].location \in Location
  BY DEF TypeOK, Busy, HasLocation
<1>2. [kiosk |-> request[w].kiosk, location |-> request[w].location,
       by |-> w, open |-> TRUE] \in Assignments
  BY <1>1 DEF Requests, Assignments
<1> QED
  BY <1>2 DEF InsertRow, TypeOK

\* A step keeps the types.
LEMMA TypeStep ==
  ASSUME TypeOK, HasLocation, [Next]_vars
  PROVE  TypeOK'
<1>1. ASSUME NEW w \in Writer, NEW k \in Kiosk, BeginArchive(w, k)
      PROVE  TypeOK'
  BY <1>1, BeginType DEF BeginArchive
<1>2. ASSUME NEW w \in Writer, NEW k \in Kiosk, NEW l \in Location,
             BeginAssign(w, k, l) \/ BeginPlace(w, k, l)
      PROVE  TypeOK'
  BY <1>2, BeginType DEF BeginAssign, BeginPlace
<1>3. ASSUME NEW w \in Writer, NEW k \in Kiosk, NEW S \in SUBSET Kiosk,
             BeginMerge(w, k, S)
      PROVE  TypeOK'
  BY <1>3, BeginType DEF BeginMerge
<1>4. ASSUME NEW w \in Writer, CloseOpen(w) PROVE TypeOK'
  <2>1. row' \in [Ids -> Assignments \cup {Unused}]
    BY <1>4 DEF CloseOpen, TypeOK, Closes, Open, Rows, Assignments
  <2>2. request' \in [Writer -> Requests \cup {Idle}]
    BY <1>4, GotoType DEF CloseOpen, Goto, Busy
  <2> QED
    BY <1>4, <2>1, <2>2 DEF CloseOpen, TypeOK, Writes
<1>5. ASSUME NEW w \in Writer, InsertAssignment(w) \/ PlaceAsset(w) PROVE TypeOK'
  <2>1. row' \in [Ids -> Assignments \cup {Unused}]
    BY <1>5, InsertType DEF InsertAssignment, PlaceAsset
  <2>2. request' \in [Writer -> Requests \cup {Idle}]
    BY <1>5, EndType DEF InsertAssignment, PlaceAsset, End
  <2>3. request[w].kiosk \in Kiosk
    BY <1>5 DEF InsertAssignment, PlaceAsset, Busy, TypeOK, Requests
  <2> QED
    BY <1>5, <2>1, <2>2, <2>3 DEF InsertAssignment, PlaceAsset, TypeOK, Writes
<1>6. ASSUME NEW w \in Writer, StampArchived(w) \/ ArchiveSources(w) PROVE TypeOK'
  <2>1. request' \in [Writer -> Requests \cup {Idle}]
    BY <1>6, EndType DEF StampArchived, ArchiveSources, End
  <2>2. request[w].kiosk \in Kiosk /\ request[w].sources \subseteq Kiosk
    BY <1>6 DEF StampArchived, ArchiveSources, Busy, TypeOK, Requests
  <2> QED
    BY <1>6, <2>1, <2>2 DEF StampArchived, ArchiveSources, TypeOK, Writes
<1>7. ASSUME NEW w \in Writer, CheckPair(w) PROVE TypeOK'
  <2>1. request[w] # Idle
    BY <1>7 DEF CheckPair, Busy
  <2>2. \/ request' = [request EXCEPT ![w] = Idle]
        \/ request' = [request EXCEPT ![w].pc = "insert"]
    BY <1>7 DEF CheckPair, End, Goto
  <2>3. [request EXCEPT ![w] = Idle] \in [Writer -> Requests \cup {Idle}]
    BY EndType
  <2>4. [request EXCEPT ![w].pc = "insert"] \in [Writer -> Requests \cup {Idle}]
    BY <2>1, GotoType
  <2> QED
    BY <1>7, <2>2, <2>3, <2>4 DEF CheckPair, TypeOK
<1>8. ASSUME NEW w \in Writer, Repoint(w) PROVE TypeOK'
  <2>1. request[w].kiosk \in Kiosk
    BY <1>8 DEF Repoint, Busy, TypeOK, Requests
  <2>2. row' \in [Ids -> Assignments \cup {Unused}]
    BY <1>8, <2>1 DEF Repoint, TypeOK, Moves, Rows, Assignments
  <2>3. request' \in [Writer -> Requests \cup {Idle}]
    BY <1>8, GotoType DEF Repoint, Goto, Busy
  <2> QED
    BY <1>8, <2>1, <2>2, <2>3 DEF Repoint, TypeOK, Writes
<1>9. ASSUME NEW w \in Writer, ReadLinks(w) PROVE TypeOK'
  <2>0. \A p \in linked : p[1] \in Installation
    BY DEF TypeOK
  <2>1. LinksOf(request[w].sources) \subseteq Installation
    BY <2>0 DEF LinksOf
  <2>2. request[w] \in Requests
    BY <1>9 DEF ReadLinks, Busy, TypeOK
  <2> DEFINE F == LinksOf(request[w].sources)
  <2>3. [request[w] EXCEPT !.pc = "unlink", !.links = F, !.todo = F] \in Requests
    BY <2>1, <2>2 DEF Requests
  <2>4. request' = [request EXCEPT ![w] =
                      [@ EXCEPT !.pc = "unlink", !.links = F, !.todo = F]]
    BY <1>9, <2>2 DEF ReadLinks, TypeOK, Requests
  <2>5. request' \in [Writer -> Requests \cup {Idle}]
    BY <2>3, <2>4 DEF TypeOK
  <2> QED
    BY <1>9, <2>5 DEF ReadLinks, TypeOK
<1>10. ASSUME NEW w \in Writer, DeleteLinks(w) PROVE TypeOK'
  <2>1. request' \in [Writer -> Requests \cup {Idle}]
    BY <1>10, GotoType DEF DeleteLinks, Goto, Busy
  <2> QED
    BY <1>10, <2>1 DEF DeleteLinks, TypeOK, Writes
<1>11. ASSUME NEW w \in Writer, NEW i \in Installation, InsertLink(w, i)
       PROVE  TypeOK'
  <2>1. request' \in [Writer -> Requests \cup {Idle}]
    BY <1>11 DEF InsertLink, Busy, TypeOK, Requests
  <2>2. request[w].kiosk \in Kiosk
    BY <1>11 DEF InsertLink, Busy, TypeOK, Requests
  <2> QED
    BY <1>11, <2>1, <2>2 DEF InsertLink, TypeOK, Writes
<1>12. ASSUME NEW w \in Writer, LinksDone(w) PROVE TypeOK'
  <2>1. request' \in [Writer -> Requests \cup {Idle}]
    BY <1>12, GotoType DEF LinksDone, Goto, Busy
  <2> QED
    BY <1>12, <2>1 DEF LinksDone, TypeOK
<1>13. ASSUME NEW w \in Writer, Fail(w) PROVE TypeOK'
  BY <1>13, EndType DEF Fail, End, TypeOK
<1>14. ASSUME NEW K \in SUBSET Kiosk, BulkArchive(K) PROVE TypeOK'
  BY <1>14 DEF BulkArchive, TypeOK
<1>15. ASSUME NEW i \in Installation, NEW k \in Kiosk,
              LinkKiosk(i, k) \/ UnlinkKiosk(i, k)
       PROVE  TypeOK'
  BY <1>15 DEF LinkKiosk, UnlinkKiosk, TypeOK
<1>16. CASE UNCHANGED vars
  BY <1>16 DEF vars, TypeOK
<1> QED
  BY <1>1, <1>2, <1>3, <1>4, <1>5, <1>6, <1>7, <1>8, <1>9, <1>10, <1>11,
     <1>12, <1>13, <1>14, <1>15, <1>16 DEF Next

-----------------------------------------------------------------------------
(* The invariant.                                                          *)

LEMMA LocationStep ==
  ASSUME TypeOK, HasLocation, [Next]_vars
  PROVE  HasLocation'
<1> SUFFICES ASSUME NEW v \in Writer, request'[v] # Idle,
                    request'[v].op \in {"assign", "place"}
             PROVE  request'[v].location \in Location
  BY DEF HasLocation
<1>1. CASE /\ request[v] # Idle
           /\ request'[v].op = request[v].op
           /\ request'[v].location = request[v].location
  BY <1>1 DEF HasLocation
<1>2. ASSUME NEW w \in Writer, NEW k \in Kiosk,
             \/ BeginArchive(w, k)
             \/ \E S \in SUBSET Kiosk : BeginMerge(w, k, S)
             \/ \E l \in Location : BeginAssign(w, k, l) \/ BeginPlace(w, k, l)
      PROVE  request'[v].location \in Location
  <2>1. CASE v = w
    BY <1>2, <2>1 DEF BeginArchive, BeginMerge, BeginAssign, BeginPlace, Begin, TypeOK
  <2>2. CASE v # w
    BY <1>1, <1>2, <2>2 DEF BeginArchive, BeginMerge, BeginAssign, BeginPlace, Begin, TypeOK
  <2> QED
    BY <2>1, <2>2
<1>3. ASSUME NEW w \in Writer,
             \/ CloseOpen(w) \/ InsertAssignment(w) \/ StampArchived(w)
             \/ CheckPair(w) \/ PlaceAsset(w)
             \/ Repoint(w) \/ ReadLinks(w) \/ DeleteLinks(w)
             \/ \E i \in Installation : InsertLink(w, i)
             \/ LinksDone(w) \/ ArchiveSources(w) \/ Fail(w)
      PROVE  request'[v].location \in Location
  <2>1. request[w] # Idle
    BY <1>3 DEF CloseOpen, InsertAssignment, StampArchived, CheckPair, PlaceAsset,
       Repoint, ReadLinks, DeleteLinks, InsertLink, LinksDone, ArchiveSources,
       Fail, Busy
  <2>2. \/ request' = [request EXCEPT ![w] = Idle]
        \/ \E pc : request' = [request EXCEPT ![w].pc = pc]
        \/ \E F : request' = [request EXCEPT ![w].todo = F]
        \/ \E F : request' = [request EXCEPT ![w].pc = "unlink",
                                             ![w].links = F, ![w].todo = F]
    <3>1. CASE CloseOpen(w) \/ Repoint(w) \/ DeleteLinks(w) \/ LinksDone(w)
      BY <3>1 DEF CloseOpen, Repoint, DeleteLinks, LinksDone, Goto
    <3>2. CASE \/ InsertAssignment(w) \/ PlaceAsset(w) \/ StampArchived(w)
               \/ ArchiveSources(w) \/ Fail(w)
      BY <3>2 DEF InsertAssignment, PlaceAsset, StampArchived, ArchiveSources, Fail, End
    <3>3. CASE CheckPair(w)
      BY <3>3 DEF CheckPair, End, Goto
    <3>4. CASE ReadLinks(w)
      BY <3>4 DEF ReadLinks
    <3>5. CASE \E i \in Installation : InsertLink(w, i)
      BY <3>5 DEF InsertLink
    <3> QED
      BY <1>3, <3>1, <3>2, <3>3, <3>4, <3>5
  <2>3. request[w] \in Requests
    BY <2>1 DEF TypeOK
  <2>4. CASE v = w
    <3>1. ASSUME request' = [request EXCEPT ![w] = Idle] PROVE FALSE
      BY <2>4, <3>1 DEF TypeOK
    <3>2. ASSUME NEW pc, request' = [request EXCEPT ![w].pc = pc]
          PROVE  request'[v].op = request[v].op /\ request'[v].location = request[v].location
      BY <2>3, <2>4, <3>2 DEF TypeOK, Requests
    <3>3. ASSUME NEW F, request' = [request EXCEPT ![w].todo = F]
          PROVE  request'[v].op = request[v].op /\ request'[v].location = request[v].location
      BY <2>3, <2>4, <3>3 DEF TypeOK, Requests
    <3>4. ASSUME NEW F, request' = [request EXCEPT ![w].pc = "unlink",
                                             ![w].links = F, ![w].todo = F]
          PROVE  request'[v].op = request[v].op /\ request'[v].location = request[v].location
      BY <2>3, <2>4, <3>4 DEF TypeOK, Requests
    <3> QED
      BY <1>1, <2>1, <2>2, <2>4, <3>1, <3>2, <3>3, <3>4
  <2>5. CASE v # w
    BY <1>1, <2>2, <2>5 DEF TypeOK
  <2> QED
    BY <2>4, <2>5
<1>4. CASE request' = request
  BY <1>1, <1>4
<1> QED
  BY <1>2, <1>3, <1>4 DEF Next, vars, BulkArchive, LinkKiosk, UnlinkKiosk

\* A step that leaves the assignments alone and brings nobody to insert one.
LEMMA QuietStep ==
  ASSUME RInv, UNCHANGED <<row, mixed>>,
         \A v \in Writer : Busy(v, "assign", "insert")' =>
           Busy(v, "assign", "insert") /\ request'[v].kiosk = request[v].kiosk
  PROVE  NoOpenRowOfMine' /\ OpenRowsAreRivals'
<1>1. NoOpenRowOfMine'
  BY DEF RInv, NoOpenRowOfMine, Open, Rows
<1>2. OpenRowsAreRivals'
  BY DEF RInv, OpenRowsAreRivals, Open, Rows
<1> QED
  BY <1>1, <1>2

\* The requests of the others stay as they are.
LEMMA OthersStay ==
  ASSUME TypeOK, NEW w \in Writer, NEW r, request' = [request EXCEPT ![w] = r],
         NEW v \in Writer \ {w}
  PROVE  request'[v] = request[v]
  BY DEF TypeOK

\* The rows an assignment or an archival closes, and no others.
LEMMA ClosedRows ==
  ASSUME TypeOK, NEW w \in Writer, CloseOpen(w), NEW i \in Ids
  PROVE  IF i \in Open(request[w].kiosk)
           THEN row'[i] # Unused /\ row'[i].kiosk = request[w].kiosk /\ ~row'[i].open
           ELSE row'[i] = row[i]
<1>1. row[i] = Unused \/ row[i] \in Assignments
  BY DEF TypeOK
<1>2. row'[i] = IF i \in Open(request[w].kiosk) THEN [row[i] EXCEPT !.open = FALSE]
                ELSE row[i]
  BY DEF CloseOpen, Closes
<1>3. CASE i \in Open(request[w].kiosk)
  <2>1. row[i] \in Assignments /\ row[i].kiosk = request[w].kiosk
    BY <1>1, <1>3 DEF Open, Rows
  <2>2. /\ row'[i] \in Assignments /\ row'[i].open = FALSE
        /\ row'[i].kiosk = request[w].kiosk
    BY <1>2, <1>3, <2>1 DEF Assignments
  <2> QED
    BY <1>3, <2>2, SentinelAssumption
<1> QED
  BY <1>2, <1>3

LEMMA CloseStep ==
  ASSUME RInv, NEW w \in Writer, CloseOpen(w)
  PROVE  NoOpenRowOfMine' /\ OpenRowsAreRivals'
<1> DEFINE k == request[w].kiosk
<1>1. /\ request[w] \in Requests /\ k \in Kiosk
      /\ request'[w].kiosk = k
  BY DEF RInv, TypeOK, CloseOpen, Goto, Busy, Requests
<1>2. \A v \in Writer \ {w} : request'[v] = request[v]
  BY DEF RInv, TypeOK, CloseOpen, Goto
<1>3. mixed' = mixed \ {k}
  BY DEF CloseOpen
<1>4. ASSUME NEW i \in Ids
      PROVE  IF i \in Open(k) THEN row'[i] # Unused /\ row'[i].kiosk = k /\ ~row'[i].open
             ELSE row'[i] = row[i]
  BY ClosedRows DEF RInv
<1> HIDE DEF k
<1>5. \A i \in Ids : ~(row'[i] # Unused /\ row'[i].kiosk = k /\ row'[i].open)
  BY <1>4 DEF Open, Rows
<1>6. ASSUME NEW i \in Ids, row'[i] # Unused, row'[i].open
      PROVE  row'[i] = row[i] /\ row'[i].kiosk # k
  BY <1>4, <1>5, <1>6
<1>7. OpenRowsAreRivals'
  <2> SUFFICES ASSUME NEW l \in Kiosk \ mixed', NEW i \in Open(l)', NEW j \in Open(l)',
                      row'[i].by = row'[j].by
               PROVE  i = j
    BY DEF OpenRowsAreRivals
  <2>1. i \in Open(l) /\ j \in Open(l) /\ l # k /\ row[i].by = row[j].by
    BY <1>6 DEF Open, Rows
  <2> QED
    BY <1>3, <2>1 DEF RInv, OpenRowsAreRivals
<1>8. NoOpenRowOfMine'
  <2> SUFFICES ASSUME NEW v \in Writer, Busy(v, "assign", "insert")',
                      NEW i \in Open(request[v].kiosk)',
                      request'[v].kiosk \notin mixed'
               PROVE  row'[i].by # v
    BY DEF NoOpenRowOfMine
  <2>1. row'[i] = row[i] /\ row'[i].kiosk # k /\ i \in Open(request'[v].kiosk)
        /\ row'[i].kiosk = request'[v].kiosk
    BY <1>6 DEF Open, Rows
  <2>2. v # w
    BY <1>1, <2>1
  <2>3. request'[v] = request[v]
    BY <1>2, <2>2
  <2>4. Busy(v, "assign", "insert") /\ request[v].kiosk \notin mixed
    BY <1>3, <2>1, <2>3 DEF Busy
  <2> QED
    BY <2>1, <2>3, <2>4 DEF RInv, NoOpenRowOfMine
<1> QED
  BY <1>7, <1>8

\* An inserted row differs from the ones before; the user has ended.
LEMMA InsertStep ==
  ASSUME RInv, NEW w \in Writer, InsertAssignment(w) \/ PlaceAsset(w)
  PROVE  NoOpenRowOfMine' /\ OpenRowsAreRivals'
<1> DEFINE k == request[w].kiosk
<1>1. PICK n \in Ids : /\ row[n] = Unused
                       /\ row' = [row EXCEPT ![n] =
                            [kiosk |-> k, location |-> request[w].location,
                             by |-> w, open |-> TRUE]]
  BY DEF InsertAssignment, PlaceAsset, InsertRow
<1>2. /\ row'[n].kiosk = k /\ row'[n].by = w
      /\ \A i \in Ids \ {n} : row'[i] = row[i]
  BY <1>1 DEF RInv, TypeOK
<1>3. request'[w] = Idle /\ \A v \in Writer \ {w} : request'[v] = request[v]
  BY DEF RInv, TypeOK, InsertAssignment, PlaceAsset, End
<1>4. /\ mixed \subseteq mixed'
      /\ k \notin mixed' => Busy(w, "assign", "insert")
  BY DEF InsertAssignment, PlaceAsset
<1>5. k \notin mixed' => \A i \in Open(k) : row[i].by # w
  BY <1>4 DEF RInv, NoOpenRowOfMine
<1> HIDE DEF k
<1>6. OpenRowsAreRivals'
  <2> SUFFICES ASSUME NEW l \in Kiosk \ mixed', NEW i \in Open(l)', NEW j \in Open(l)',
                      row'[i].by = row'[j].by
               PROVE  i = j
    BY DEF OpenRowsAreRivals
  <2>1. i \in Ids /\ j \in Ids /\ row'[i].kiosk = l /\ row'[j].kiosk = l
    BY DEF Open, Rows
  <2>2. \A m \in {i, j} : m # n => m \in Open(l) /\ row'[m] = row[m]
    BY <1>2, <2>1 DEF Open, Rows
  <2>3. CASE i # n /\ j # n
    BY <1>4, <2>2, <2>3 DEF RInv, OpenRowsAreRivals
  <2>4. CASE i = n /\ j # n
    BY <1>2, <1>5, <2>1, <2>2, <2>4
  <2>5. CASE i # n /\ j = n
    BY <1>2, <1>5, <2>1, <2>2, <2>5
  <2> QED
    BY <2>3, <2>4, <2>5
<1>7. NoOpenRowOfMine'
  <2> SUFFICES ASSUME NEW v \in Writer, Busy(v, "assign", "insert")',
                      NEW i \in Open(request[v].kiosk)',
                      request'[v].kiosk \notin mixed'
               PROVE  row'[i].by # v
    BY DEF NoOpenRowOfMine
  <2>1. v # w
    BY <1>3 DEF Busy
  <2>2. request'[v] = request[v] /\ Busy(v, "assign", "insert")
    BY <1>3, <2>1 DEF Busy
  <2>3. CASE i = n
    BY <1>2, <2>1, <2>3
  <2>4. CASE i # n
    <3>1. i \in Open(request[v].kiosk) /\ row'[i] = row[i]
      BY <1>2, <2>2, <2>4 DEF Open, Rows
    <3> QED
      BY <1>4, <2>2, <3>1 DEF RInv, NoOpenRowOfMine
  <2> QED
    BY <2>3, <2>4
<1> QED
  BY <1>6, <1>7

\* A merge takes rows away from its sources and mixes them into its target.
LEMMA RepointStep ==
  ASSUME RInv, NEW w \in Writer, Repoint(w)
  PROVE  NoOpenRowOfMine' /\ OpenRowsAreRivals'
<1> DEFINE k == request[w].kiosk
           S == request[w].sources
<1>1. \A i \in Ids : row[i] = Unused \/ row[i] \in Assignments
  BY DEF RInv, TypeOK
<1>2. \A i \in Ids : row'[i] = IF i \in Moves(S) THEN [row[i] EXCEPT !.kiosk = k] ELSE row[i]
  BY DEF Repoint
<1>3. mixed' = IF Moves(S) = {} THEN mixed ELSE mixed \cup {k}
  BY DEF Repoint
<1>4. \A v \in Writer : Busy(v, "assign", "insert")' =>
        Busy(v, "assign", "insert") /\ request'[v] = request[v]
  <2>1. request[w] \in Requests /\ request' = [request EXCEPT ![w].pc = "read"]
    BY DEF RInv, TypeOK, Repoint, Busy, Goto
  <2>2. request'[w].pc = "read"
    BY <2>1 DEF RInv, TypeOK, Requests
  <2>3. \A v \in Writer \ {w} : request'[v] = request[v]
    BY <2>1 DEF RInv, TypeOK
  <2> QED
    BY <2>2, <2>3 DEF Busy
<1> HIDE DEF k, S
<1>5. ASSUME NEW l, l \notin mixed', NEW i \in Open(l)'
      PROVE  i \in Open(l) /\ row'[i] = row[i]
  <2>1. i \in Ids
    BY DEF Open, Rows
  <2>2. CASE i \in Moves(S)
    <3>1. row[i] \in Assignments
      BY <1>1, <2>1, <2>2 DEF Moves, Rows
    <3>2. row'[i].kiosk = k
      BY <1>2, <2>1, <2>2, <3>1 DEF Assignments
    <3>3. l = k
      BY <3>2 DEF Open, Rows
    <3> QED
      BY <1>3, <1>5, <2>2, <3>3
  <2>3. CASE i \notin Moves(S)
    BY <1>2, <2>1, <2>3 DEF Open, Rows
  <2> QED
    BY <2>2, <2>3
<1>6. mixed \subseteq mixed'
  BY <1>3
<1>7. OpenRowsAreRivals'
  BY <1>5, <1>6 DEF RInv, OpenRowsAreRivals
<1>8. NoOpenRowOfMine'
  BY <1>4, <1>5, <1>6 DEF RInv, NoOpenRowOfMine
<1> QED
  BY <1>7, <1>8

LEMMA RivalStep ==
  ASSUME RInv, [Next]_vars
  PROVE  NoOpenRowOfMine' /\ OpenRowsAreRivals'
<1>1. ASSUME NEW w \in Writer, NEW k \in Kiosk,
             \/ BeginArchive(w, k)
             \/ \E S \in SUBSET Kiosk : BeginMerge(w, k, S)
             \/ \E l \in Location : BeginAssign(w, k, l) \/ BeginPlace(w, k, l)
      PROVE  NoOpenRowOfMine' /\ OpenRowsAreRivals'
  <2>1. PICK op, pc, l, S : Begin(w, op, pc, k, l, S) /\ pc # "insert"
    BY <1>1 DEF BeginArchive, BeginMerge, BeginAssign, BeginPlace
  <2>2. request'[w].pc # "insert" /\ UNCHANGED <<row, mixed>>
    BY <2>1 DEF Begin, RInv, TypeOK
  <2>3. \A v \in Writer \ {w} : request'[v] = request[v]
    BY <2>1 DEF Begin, RInv, TypeOK
  <2> QED
    BY <2>2, <2>3, QuietStep DEF Busy
<1>2. ASSUME NEW w \in Writer,
             \/ StampArchived(w) \/ CheckPair(w) \/ ReadLinks(w) \/ DeleteLinks(w)
             \/ \E i \in Installation : InsertLink(w, i)
             \/ LinksDone(w) \/ ArchiveSources(w) \/ Fail(w)
      PROVE  NoOpenRowOfMine' /\ OpenRowsAreRivals'
  <2>1. request[w] # Idle /\ request[w] \in Requests /\ UNCHANGED <<row, mixed>>
    BY <1>2 DEF StampArchived, CheckPair, ReadLinks, DeleteLinks, InsertLink,
       LinksDone, ArchiveSources, Fail, Busy, RInv, TypeOK
  <2>2. ~Busy(w, "assign", "insert")'
    <3>1. CASE StampArchived(w) \/ ArchiveSources(w) \/ Fail(w)
      BY <3>1 DEF StampArchived, ArchiveSources, Fail, End, Busy, RInv, TypeOK
    <3>2. CASE CheckPair(w)
      BY <2>1, <3>2 DEF CheckPair, End, Goto, Busy, RInv, TypeOK, Requests
    <3>3. CASE ReadLinks(w)
      <4>1. request'[w].pc = "unlink"
        BY <2>1, <3>3 DEF ReadLinks, RInv, TypeOK, Requests
      <4> QED
        BY <4>1 DEF Busy
    <3>4. CASE DeleteLinks(w) \/ LinksDone(w)
      BY <2>1, <3>4 DEF DeleteLinks, LinksDone, Goto, Busy, RInv, TypeOK, Requests
    <3>5. CASE \E i \in Installation : InsertLink(w, i)
      BY <2>1, <3>5 DEF InsertLink, Busy, RInv, TypeOK, Requests
    <3> QED
      BY <1>2, <3>1, <3>2, <3>3, <3>4, <3>5
  <2>3. \A v \in Writer \ {w} : request'[v] = request[v]
    BY <1>2 DEF StampArchived, CheckPair, ReadLinks, DeleteLinks, InsertLink,
       LinksDone, ArchiveSources, Fail, End, Goto, RInv, TypeOK
  <2> QED
    BY <2>1, <2>2, <2>3, QuietStep DEF Busy
<1>3. CASE UNCHANGED <<row, mixed, request>>
  BY <1>3, QuietStep DEF Busy
<1> QED
  BY <1>1, <1>2, <1>3, CloseStep, InsertStep, RepointStep
     DEF Next, vars, BulkArchive, LinkKiosk, UnlinkKiosk

-----------------------------------------------------------------------------
(* Requests without interference.                                          *)

\* Rows and links of other kiosks stay as they are.
Outside(K) ==
  /\ \A i \in Ids : \/ row'[i] = row[i]
                    \/ /\ row[i] = Unused \/ row[i].kiosk \in K
                       /\ row'[i] = Unused \/ row'[i].kiosk \in K
  /\ \A p \in Installation \X Kiosk : p[2] \notin K => (p \in linked <=> p \in linked')

\* What a request has done stays done if nobody touches its kiosks.
LEMMA DoneStays ==
  ASSUME TypeOK, TypeOK', NEW v \in Writer, NEW K, request[v] # Idle,
         Touches(request[v]) \cap K = {}, Outside(K),
         Done(request[v], row, linked)
  PROVE  Done(request[v], row', linked')
<1> DEFINE q == request[v]
<1>1. q \in Requests /\ q.kiosk \notin K /\ q.sources \cap K = {}
      /\ q.kiosk \in Kiosk /\ q.links \subseteq Installation
  BY DEF TypeOK, Touches, Requests
<1>2. linked \subseteq Installation \X Kiosk /\ linked' \subseteq Installation \X Kiosk
  BY DEF TypeOK
<1> HIDE DEF q
<1>3. ASSUME q.op \in {"assign", "archive"}, q.pc # "close", NEW i \in Ids,
             row'[i] # Unused, row'[i].kiosk = q.kiosk
      PROVE  ~row'[i].open
  BY <1>1, <1>3 DEF Done, Outside, q
<1>4. ASSUME q.op = "merge", q.pc # "repoint", NEW i \in Ids, row'[i] # Unused
      PROVE  row'[i].kiosk \notin q.sources
  BY <1>1, <1>4 DEF Done, Outside, q
<1>5. ASSUME q.op = "merge", q.pc \in {"relink", "stamp"}, NEW p \in linked'
      PROVE  p[2] \notin q.sources
  BY <1>1, <1>2, <1>5 DEF Done, Outside, q
<1>6. ASSUME q.op = "merge", q.pc \in {"relink", "stamp"}, NEW i \in q.links
      PROVE  i \in q.todo \/ <<i, q.kiosk>> \in linked'
  <2>1. <<i, q.kiosk>> \in Installation \X Kiosk /\ <<i, q.kiosk>>[2] = q.kiosk
    BY <1>1, <1>6
  <2> QED
    BY <1>1, <1>6, <2>1 DEF Done, Outside, q
<1> QED
  BY <1>3, <1>4, <1>5, <1>6 DEF Done, q

\* A step of w that touches the kiosks of K alone, and what w itself has done.
LEMMA DoneStep ==
  ASSUME TypeOK, TypeOK', DoneAlone, NEW w, NEW K, Outside(K),
         alone' \subseteq {v \in alone : v = w \/ Touches(request[v]) \cap K = {}} \cup {w},
         \A v \in Writer \ {w} : request'[v] = request[v],
         w \in alone' /\ request'[w] # Idle => Done(request'[w], row', linked')
  PROVE  DoneAlone'
<1> SUFFICES ASSUME NEW v \in alone', request'[v] # Idle
             PROVE  Done(request'[v], row', linked')
  BY DEF DoneAlone
<1>1. CASE v = w
  BY <1>1
<1>2. CASE v # w
  <2>1. v \in Writer /\ v \in alone /\ request'[v] = request[v]
        /\ Touches(request[v]) \cap K = {}
    BY <1>2 DEF TypeOK
  <2>2. Done(request[v], row, linked)
    BY <2>1 DEF DoneAlone
  <2> QED
    BY <2>1, <2>2, DoneStays
<1> QED
  BY <1>1, <1>2

LEMMA AloneStep ==
  ASSUME TypeOK, TypeOK', DoneAlone, [Next]_vars
  PROVE  DoneAlone'
<1>1. ASSUME NEW w \in Writer, NEW k \in Kiosk,
             \/ BeginArchive(w, k)
             \/ \E S \in SUBSET Kiosk : BeginMerge(w, k, S)
             \/ \E l \in Location : BeginAssign(w, k, l) \/ BeginPlace(w, k, l)
      PROVE  DoneAlone'
  <2>1. PICK op, pc, l, S :
          /\ Begin(w, op, pc, k, l, S)
          /\ op \in {"assign", "archive"} => pc = "close"
          /\ op = "merge" => pc = "repoint" /\ k \notin S
    BY <1>1 DEF BeginArchive, BeginMerge, BeginAssign, BeginPlace
  <2>2. /\ request'[w] = [op |-> op, pc |-> pc, kiosk |-> k, location |-> l,
                          sources |-> S, links |-> {}, todo |-> {}]
        /\ \A v \in Writer \ {w} : request'[v] = request[v]
        /\ alone' = alone \cup {w}
    BY <2>1 DEF Begin, TypeOK
  <2>3. Done(request'[w], row', linked')
    BY <2>1, <2>2 DEF Done
  <2>4. Outside({})
    BY <2>1 DEF Begin, Outside
  <2> QED
    BY <2>2, <2>3, <2>4, DoneStep
<1>2. ASSUME NEW w \in Writer, CloseOpen(w) PROVE DoneAlone'
  <2> DEFINE k == request[w].kiosk
  <2>1. request[w] \in Requests /\ request[w].op \in {"assign", "archive"}
    BY <1>2 DEF CloseOpen, Busy, TypeOK
  <2>2. request' = [request EXCEPT ![w].pc =
                      IF request[w].op = "assign" THEN "insert" ELSE "stamp"]
    BY <1>2 DEF CloseOpen, Goto
  <2>3. /\ request'[w].kiosk = k
        /\ request'[w].op = request[w].op
        /\ \A v \in Writer \ {w} : request'[v] = request[v]
    BY <2>1, <2>2 DEF TypeOK, Requests
  <2>4. \A i \in Ids : ~(row'[i] # Unused /\ row'[i].kiosk = k /\ row'[i].open)
    BY <1>2, ClosedRows DEF Open, Rows
  <2>5. Done(request'[w], row', linked')
    BY <2>1, <2>3, <2>4 DEF Done
  <2>6. Outside({k})
    BY <1>2, ClosedRows DEF Outside, CloseOpen, Open, Rows
  <2>7. alone' = {v \in alone : v = w \/ Touches(request[v]) \cap {k} = {}}
    BY <1>2 DEF CloseOpen, Writes
  <2> QED
    BY <2>3, <2>5, <2>6, <2>7, DoneStep
<1>3. ASSUME NEW w \in Writer, InsertAssignment(w) \/ PlaceAsset(w) PROVE DoneAlone'
  <2> DEFINE k == request[w].kiosk
  <2>1. request'[w] = Idle /\ \A v \in Writer \ {w} : request'[v] = request[v]
    BY <1>3 DEF TypeOK, InsertAssignment, PlaceAsset, End
  <2>2. PICK n \in Ids : /\ row[n] = Unused
                         /\ row' = [row EXCEPT ![n] =
                              [kiosk |-> k, location |-> request[w].location,
                               by |-> w, open |-> TRUE]]
    BY <1>3 DEF InsertAssignment, PlaceAsset, InsertRow
  <2>3. row'[n].kiosk = k /\ \A i \in Ids \ {n} : row'[i] = row[i]
    BY <2>2 DEF TypeOK
  <2>4. Outside({k})
    BY <1>3, <2>2, <2>3 DEF Outside, InsertAssignment, PlaceAsset
  <2>5. alone' = {v \in alone : v = w \/ Touches(request[v]) \cap {k} = {}}
    BY <1>3 DEF InsertAssignment, PlaceAsset, Writes
  <2> QED
    BY <2>1, <2>4, <2>5, DoneStep
<1>4. ASSUME NEW w \in Writer, Fail(w) \/ StampArchived(w) \/ ArchiveSources(w)
      PROVE  DoneAlone'
  <2>1. request'[w] = Idle /\ \A v \in Writer \ {w} : request'[v] = request[v]
    BY <1>4 DEF TypeOK, Fail, StampArchived, ArchiveSources, End
  <2>2. Outside({}) /\ alone' \subseteq alone
    BY <1>4 DEF Outside, Fail, StampArchived, ArchiveSources, Writes
  <2> QED
    BY <2>1, <2>2, DoneStep
<1>5. ASSUME NEW w \in Writer, CheckPair(w) PROVE DoneAlone'
  <2>1. /\ request[w] \in Requests /\ request[w].op = "place"
        /\ \/ request' = [request EXCEPT ![w] = Idle]
           \/ request' = [request EXCEPT ![w].pc = "insert"]
    BY <1>5 DEF CheckPair, Busy, TypeOK, Goto, End
  <2>2. \A v \in Writer \ {w} : request'[v] = request[v]
    BY <2>1 DEF TypeOK
  <2>3. request'[w] # Idle => request'[w].op = "place"
    BY <2>1 DEF TypeOK, Requests
  <2>4. request'[w] # Idle => Done(request'[w], row', linked')
    BY <2>3 DEF Done
  <2>5. Outside({}) /\ alone' = alone
    BY <1>5 DEF Outside, CheckPair
  <2> QED
    BY <2>2, <2>4, <2>5, DoneStep
<1>6. ASSUME NEW w \in Writer, Repoint(w) PROVE DoneAlone'
  <2> DEFINE q == request[w]
  <2>1. q \in Requests /\ q.op = "merge" /\ q # Idle
    BY <1>6 DEF Repoint, Busy, TypeOK
  <2>2. /\ request'[w] = [q EXCEPT !.pc = "read"]
        /\ \A v \in Writer \ {w} : request'[v] = request[v]
    BY <1>6 DEF Repoint, Goto, TypeOK
  <2>3. /\ request'[w].op = "merge" /\ request'[w].kiosk = q.kiosk
        /\ request'[w].sources = q.sources /\ request'[w].pc = "read"
    BY <2>1, <2>2 DEF Requests
  <2>4. \A i \in Ids : row'[i] = IF i \in Moves(q.sources)
                                 THEN [row[i] EXCEPT !.kiosk = q.kiosk] ELSE row[i]
    BY <1>6 DEF Repoint
  <2>5. ASSUME NEW i \in Moves(q.sources)
        PROVE  i \in Ids /\ row[i].kiosk \in q.sources /\ row'[i].kiosk = q.kiosk
    <3>1. i \in Ids /\ row[i] \in Assignments /\ row[i].kiosk \in q.sources
      BY DEF Moves, Rows, TypeOK
    <3> QED
      BY <2>4, <3>1 DEF Assignments
  <2>6. Outside(q.sources \cup {q.kiosk})
    BY <1>6, <2>4, <2>5 DEF Outside, Repoint
  <2>7. ASSUME w \in alone' PROVE Done(request'[w], row', linked')
    <3>1. q.kiosk \notin q.sources
      BY <1>6, <2>1, <2>7 DEF Repoint, Writes, DoneAlone, Done
    <3>2. ASSUME NEW i \in Ids, row'[i] # Unused PROVE row'[i].kiosk \notin q.sources
      <4>1. CASE i \in Moves(q.sources)
        BY <2>5, <3>1, <4>1
      <4>2. CASE i \notin Moves(q.sources)
        <5>1. row'[i] = row[i]
          BY <2>4, <4>2
        <5>2. row[i].kiosk \in q.sources => i \in Rows(row[i].kiosk)
          BY <3>2, <5>1 DEF Rows
        <5> QED
          BY <4>2, <5>1, <5>2 DEF Moves
      <4> QED
        BY <4>1, <4>2
    <3> QED
      BY <2>3, <3>1, <3>2 DEF Done
  <2>8. alone' = {v \in alone : v = w \/ Touches(request[v]) \cap (q.sources \cup {q.kiosk}) = {}}
    BY <1>6 DEF Repoint, Writes
  <2> QED
    BY <2>2, <2>6, <2>7, <2>8, DoneStep
<1>7. ASSUME NEW w \in Writer,
             ReadLinks(w) \/ DeleteLinks(w) \/ LinksDone(w)
               \/ \E i \in Installation : InsertLink(w, i)
      PROVE  DoneAlone'
  <2> DEFINE q == request[w]
             p == request'[w]
  <2>1. q \in Requests /\ q.op = "merge" /\ q # Idle
    BY <1>7 DEF ReadLinks, DeleteLinks, LinksDone, InsertLink, Busy, TypeOK
  <2>2. \A v \in Writer \ {w} : request'[v] = request[v]
    BY <1>7 DEF ReadLinks, DeleteLinks, LinksDone, InsertLink, Goto, TypeOK
  <2>3. UNCHANGED row /\ linked \subseteq Installation \X Kiosk
    BY <1>7 DEF ReadLinks, DeleteLinks, LinksDone, InsertLink, TypeOK
  <2>4. w \in alone' => Done(q, row, linked)
    BY <1>7, <2>1 DEF ReadLinks, DeleteLinks, LinksDone, InsertLink, Writes, DoneAlone
  <2>5. CASE ReadLinks(w)
    <3> DEFINE F == LinksOf(q.sources)
    <3>1. p = [q EXCEPT !.pc = "unlink", !.links = F, !.todo = F]
      BY <2>1, <2>5 DEF ReadLinks, TypeOK
    <3> HIDE DEF F
    <3>2. /\ p.op = "merge" /\ p.kiosk = q.kiosk /\ p.sources = q.sources
          /\ p.pc = "unlink" /\ p.links = F /\ p.todo = F
      BY <2>1, <3>1 DEF Requests
    <3>3. q.pc = "read"
      BY <2>5 DEF ReadLinks, Busy
    <3>4. w \in alone' => Done(p, row', linked')
      BY <2>3, <2>4, <2>1, <3>2, <3>3 DEF Done
    <3>5. Outside({}) /\ alone' = alone
      BY <2>5 DEF Outside, ReadLinks
    <3> QED
      BY <2>2, <3>4, <3>5, DoneStep
  <2>6. CASE DeleteLinks(w)
    <3>1. p = [q EXCEPT !.pc = "relink"] /\ q.pc = "unlink"
      BY <2>1, <2>6 DEF DeleteLinks, Goto, TypeOK, Busy
    <3>2. /\ p.op = "merge" /\ p.kiosk = q.kiosk /\ p.sources = q.sources
          /\ p.pc = "relink" /\ p.links = q.links /\ p.todo = q.todo
      BY <2>1, <3>1 DEF Requests
    <3>3. linked' = {l \in linked : l[2] \notin q.sources}
      BY <2>6 DEF DeleteLinks
    <3>4. w \in alone' => Done(p, row', linked')
      BY <2>3, <2>4, <2>1, <3>1, <3>2, <3>3 DEF Done
    <3>5. Outside(q.sources)
      BY <2>3, <3>3 DEF Outside
    <3>6. alone' = {v \in alone : v = w \/ Touches(request[v]) \cap q.sources = {}}
      BY <2>6 DEF DeleteLinks, Writes
    <3> QED
      BY <2>2, <3>4, <3>5, <3>6, DoneStep
  <2>7. CASE LinksDone(w)
    <3>1. p = [q EXCEPT !.pc = "stamp"] /\ q.pc = "relink" /\ q.todo = {}
      BY <2>1, <2>7 DEF LinksDone, Goto, TypeOK, Busy
    <3>2. /\ p.op = "merge" /\ p.kiosk = q.kiosk /\ p.sources = q.sources
          /\ p.pc = "stamp" /\ p.links = q.links /\ p.todo = q.todo
      BY <2>1, <3>1 DEF Requests
    <3>3. w \in alone' => Done(p, row', linked')
      BY <2>3, <2>4, <2>1, <2>7, <3>1, <3>2 DEF Done, LinksDone
    <3>4. Outside({}) /\ alone' = alone
      BY <2>7 DEF Outside, LinksDone
    <3> QED
      BY <2>2, <3>3, <3>4, DoneStep
  <2>8. ASSUME NEW i \in Installation, InsertLink(w, i) PROVE DoneAlone'
    <3>1. p = [q EXCEPT !.todo = q.todo \ {i}] /\ q.pc = "relink"
      BY <2>1, <2>8 DEF InsertLink, TypeOK, Busy
    <3>2. /\ p.op = "merge" /\ p.kiosk = q.kiosk /\ p.sources = q.sources
          /\ p.pc = "relink" /\ p.links = q.links /\ p.todo = q.todo \ {i}
      BY <2>1, <3>1 DEF Requests
    <3>3. linked' = linked \cup {<<i, q.kiosk>>}
      BY <2>8 DEF InsertLink
    <3>4. w \in alone' => Done(p, row', linked')
      BY <2>3, <2>4, <2>1, <3>1, <3>2, <3>3 DEF Done
    <3>5. Outside({q.kiosk})
      BY <2>3, <3>3 DEF Outside
    <3>6. alone' = {v \in alone : v = w \/ Touches(request[v]) \cap {q.kiosk} = {}}
      BY <2>8 DEF InsertLink, Writes
    <3> QED
      BY <2>2, <3>4, <3>5, <3>6, DoneStep
  <2> QED
    BY <1>7, <2>5, <2>6, <2>7, <2>8
<1>8. ASSUME NEW K, UNCHANGED <<row, request>>, Outside(K),
             alone' = {v \in alone : Touches(request[v]) \cap K = {}}
      PROVE  DoneAlone'
  <2> SUFFICES ASSUME NEW v \in alone', request[v] # Idle
               PROVE  Done(request[v], row', linked')
    BY <1>8 DEF DoneAlone
  <2> QED
    BY <1>8, DoneStays DEF DoneAlone, TypeOK
<1>9. ASSUME NEW K \in SUBSET Kiosk, BulkArchive(K) PROVE DoneAlone'
  BY <1>8, <1>9 DEF BulkArchive, Outside
<1>10. ASSUME NEW i \in Installation, NEW k \in Kiosk,
              LinkKiosk(i, k) \/ UnlinkKiosk(i, k)
       PROVE  DoneAlone'
  <2>1. /\ UNCHANGED <<row, request>> /\ Outside({k})
        /\ alone' = {v \in alone : Touches(request[v]) \cap {k} = {}}
    BY <1>10 DEF LinkKiosk, UnlinkKiosk, Outside
  <2> QED
    BY <1>8, <2>1
<1>11. CASE UNCHANGED vars
  BY <1>11 DEF vars, DoneAlone
<1> QED
  BY <1>1, <1>2, <1>3, <1>4, <1>5, <1>6, <1>7, <1>9, <1>10, <1>11 DEF Next

\* The last statement of a request nobody interfered with.
LEMMA Settles ==
  ASSUME TypeOK, HasLocation, DoneAlone,
         NEW w \in alone, NEW q, q = request[w], q # Idle
  PROVE  /\ InsertAssignment(w) =>
              \E i \in Ids : Open(q.kiosk)' = {i} /\ row'[i].location = q.location
         /\ StampArchived(w) => Open(q.kiosk)' = {}
         /\ ArchiveSources(w) =>
              /\ \A s \in q.sources : Rows(s)' = {} /\ \A p \in linked' : p[2] # s
              /\ \A i \in q.links : <<i, q.kiosk>> \in linked'
<1>1. w \in Writer /\ q \in Requests /\ Done(q, row, linked)
  BY DEF TypeOK, DoneAlone
<1>2. ASSUME InsertAssignment(w)
      PROVE  \E i \in Ids : Open(q.kiosk)' = {i} /\ row'[i].location = q.location
  <2>1. q.op = "assign" /\ q.pc = "insert"
    BY <1>2 DEF InsertAssignment, Busy
  <2> DEFINE new == [kiosk |-> q.kiosk, location |-> q.location, by |-> w, open |-> TRUE]
  <2>2. PICK n \in Ids : row[n] = Unused /\ row' = [row EXCEPT ![n] = new]
    BY <1>2 DEF InsertAssignment, InsertRow
  <2>3. new \in Assignments
    BY <1>1, <2>1 DEF HasLocation, Requests, Assignments
  <2>4. new # Unused
    BY <2>3, SentinelAssumption
  <2>5. row'[n] = new /\ \A i \in Ids \ {n} : row'[i] = row[i]
    BY <2>2 DEF TypeOK
  <2>6. new.kiosk = q.kiosk /\ new.location = q.location /\ new.open
    OBVIOUS
  <2> HIDE DEF new
  <2>7. \A i \in Ids : row[i] # Unused /\ row[i].kiosk = q.kiosk => ~row[i].open
    BY <1>1, <2>1 DEF Done
  <2>8. Open(q.kiosk)' = {n}
    BY <2>4, <2>5, <2>6, <2>7 DEF Open, Rows
  <2> QED
    BY <2>5, <2>6, <2>8
<1>3. ASSUME StampArchived(w) PROVE Open(q.kiosk)' = {}
  <2>1. q.op = "archive" /\ q.pc = "stamp" /\ UNCHANGED row
    BY <1>3 DEF StampArchived, Busy
  <2>2. \A i \in Ids : row[i] # Unused /\ row[i].kiosk = q.kiosk => ~row[i].open
    BY <1>1, <2>1 DEF Done
  <2> QED
    BY <2>1, <2>2 DEF Open, Rows
<1>4. ASSUME ArchiveSources(w)
      PROVE  /\ \A s \in q.sources : Rows(s)' = {} /\ \A p \in linked' : p[2] # s
             /\ \A i \in q.links : <<i, q.kiosk>> \in linked'
  <2>1. q.op = "merge" /\ q.pc = "stamp" /\ UNCHANGED <<row, linked>>
    BY <1>4 DEF ArchiveSources, Busy
  <2> QED
    BY <1>1, <2>1 DEF Done, Rows
<1> QED
  BY <1>2, <1>3, <1>4

-----------------------------------------------------------------------------
(* Theorems.                                                               *)

LEMMA InitInv == Init => IInv
<1> SUFFICES ASSUME Init PROVE IInv
  OBVIOUS
<1>1. TypeOK
  BY BoundAssumption DEF Init, TypeOK, Ids
<1>2. HasLocation /\ NoOpenRowOfMine /\ OpenRowsAreRivals
  BY DEF Init, HasLocation, NoOpenRowOfMine, OpenRowsAreRivals, Busy, Open, Rows
<1>3. DoneAlone
  BY DEF Init, DoneAlone
<1> QED
  BY <1>1, <1>2, <1>3 DEF IInv, RInv

LEMMA InvStep == IInv /\ [Next]_vars => IInv'
  BY TypeStep, LocationStep, RivalStep, AloneStep DEF IInv, RInv

\* Every request, row and link keeps its type, whatever the requests under way
\* do next or fail at; an assignment inserted always has a location.
THEOREM TypesHold == Spec => []TypeOK
<1>1. IInv => TypeOK
  BY DEF IInv, RInv
<1> QED
  BY <1>1, InitInv, InvStep, PTL DEF Spec

\* For any number of users and kiosks: open rows in excess come from different
\* users, each of whom had closed all there were (assignKiosk).
THEOREM OnlyRivalsPileUp == Spec => []OpenRowsAreRivals
<1>1. IInv => OpenRowsAreRivals
  BY DEF IInv, RInv
<1> QED
  BY <1>1, InitInv, InvStep, PTL DEF Spec

\* A request nobody interfered with does what its name says, for any number of
\* users, kiosks and rows, whatever earlier races and failures have left.
THEOREM LoneRequestsSettle == Spec => LoneRequestSettles
<1>1. ASSUME IInv, [Next]_vars
      PROVE  [\A w \in alone, k \in Kiosk, S \in SUBSET Kiosk :
                LET q == request[w] IN
                q # Idle /\ q.kiosk = k /\ q.sources = S =>
                /\ InsertAssignment(w) =>
                     \E i \in Ids : Open(k)' = {i} /\ row'[i].location = q.location
                /\ StampArchived(w) => Open(k)' = {}
                /\ ArchiveSources(w) =>
                     /\ \A s \in S : Rows(s)' = {} /\ \A p \in linked' : p[2] # s
                     /\ \A i \in q.links : <<i, k>> \in linked']_vars
  BY <1>1, Settles DEF IInv, RInv
<1> QED
  BY <1>1, InitInv, InvStep, PTL DEF Spec, LoneRequestSettles
=============================================================================
