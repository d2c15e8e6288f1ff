-------------------------- MODULE KioskAssignments --------------------------
(***************************************************************************)
(* Where a kiosk stands: assignKiosk, reassignKiosk and archiveKiosk       *)
(* (kiosks/actions.ts), bulkArchiveKiosks (kiosks/bulk-actions.ts),        *)
(* mergeKiosks (lib/merge.ts), the asset import from Monday                *)
(* (lib/monday/import-assets.ts, import-heathrow.ts) and the links of      *)
(* kiosks to installations (installations/actions.ts).                     *)
(*                                                                         *)
(* None of them uses a transaction or a lock: a request is a sequence of   *)
(* autocommitted statements, each an action here, and may end in an error  *)
(* after any of them.  Kiosks and locations are never deleted, so the      *)
(* look-ups a request begins with are part of beginning it.                *)
(***************************************************************************)
EXTENDS Naturals

CONSTANTS
  Kiosk, Location, Installation,
  Writer,       \* requests and imports that may be under way at a time
  Idle, Unused,
  MaxRows,      \* bound on the rows of kiosk_assignments
  MaxRequests   \* bound on the requests begun

ASSUME BoundAssumption == MaxRows \in Nat /\ MaxRequests \in Nat

VARIABLES
  row,        \* kiosk_assignments; open is unassigned_at IS NULL, by names
              \* the request that inserted the row
  archived,   \* kiosks with an archived_at
  linked,     \* installation_kiosks
  request,    \* request[w]: what is under way at w, and its next statement
  alone,      \* history: those whose kiosks nobody else has written to since
              \* they began
  mixed,      \* history: kiosks that got rows from an import or a merge after
              \* their rows were last closed
  requests    \* counter of the bound

vars == <<row, archived, linked, request, alone, mixed, requests>>

Ids == 1..MaxRows
Assignments == [kiosk : Kiosk, location : Location, by : Writer, open : BOOLEAN]

\* A request and its next statement; links are the installations a merge has
\* read, todo those it has not inserted yet.
Requests ==
  [op : {"assign", "archive", "merge", "place"},
   pc : {"close", "insert", "stamp", "repoint", "read", "unlink", "relink",
         "check"},
   kiosk : Kiosk, location : Location \cup {Unused}, sources : SUBSET Kiosk,
   links : SUBSET Installation, todo : SUBSET Installation]

ASSUME SentinelAssumption == Idle \notin Requests /\ Unused \notin Assignments

TypeOK ==
  /\ row \in [Ids -> Assignments \cup {Unused}]
  /\ archived \subseteq Kiosk
  /\ linked \subseteq Installation \X Kiosk
  /\ request \in [Writer -> Requests \cup {Idle}]
  /\ alone \subseteq Writer
  /\ mixed \subseteq Kiosk
  /\ requests \in 0..MaxRequests

Rows(k) == {i \in Ids : row[i] # Unused /\ row[i].kiosk = k}
Open(k) == {i \in Rows(k) : row[i].open}

Busy(w, op, pc) ==
  request[w] # Idle /\ request[w].op = op /\ request[w].pc = pc

Touches(q) == IF q = Idle THEN {} ELSE {q.kiosk} \cup q.sources

\* A statement of w that writes to the kiosks of K.
Writes(w, K) ==
  alone' = {v \in alone : v = w \/ Touches(request[v]) \cap K = {}}

Goto(w, pc) == request' = [request EXCEPT ![w].pc = pc]
End(w) == request' = [request EXCEPT ![w] = Idle]

Init ==
  /\ row = [i \in Ids |-> Unused]
  /\ archived = {}
  /\ linked \in SUBSET (Installation \X Kiosk)
  /\ request = [w \in Writer |-> Idle]
  /\ alone = {}
  /\ mixed = {}
  /\ requests = 0

-----------------------------------------------------------------------------
(* Beginning: the role check and the look-ups.                             *)

Begin(w, op, pc, k, l, S) ==
  /\ request[w] = Idle
  /\ requests < MaxRequests /\ requests' = requests + 1
  /\ request' = [request EXCEPT ![w] =
       [op |-> op, pc |-> pc, kiosk |-> k, location |-> l, sources |-> S,
        links |-> {}, todo |-> {}]]
  /\ alone' = alone \cup {w}
  /\ UNCHANGED <<row, archived, linked, mixed>>

\* assignKiosk and reassignKiosk; whether the kiosk is archived, or stands at
\* that location already, is not asked.
BeginAssign(w, k, l) == Begin(w, "assign", "close", k, l, {})
BeginArchive(w, k) == Begin(w, "archive", "close", k, Unused, {})

\* mergeKiosks: the dialog keeps the target out of the sources.
BeginMerge(w, k, S) ==
  /\ S # {} /\ k \notin S
  /\ Begin(w, "merge", "repoint", k, Unused, S)

\* An asset of the board whose hotel was found.  Its kiosk is there, or was
\* inserted just now, ON CONFLICT DO NOTHING.
BeginPlace(w, k, l) == Begin(w, "place", "check", k, l, {})

-----------------------------------------------------------------------------
(* Assign and archive.                                                     *)

\* WHERE kiosk_id = k AND unassigned_at IS NULL: all there are.
Closes_Latest(k) == {i \in Open(k) : \A j \in Open(k) : j <= i}
Closes(k) == Open(k)

CloseOpen(w) ==
  /\ Busy(w, "assign", "close") \/ Busy(w, "archive", "close")
  /\ LET k == request[w].kiosk IN
     /\ row' = [i \in Ids |-> IF i \in Closes(k)
                               THEN [row[i] EXCEPT !.open = FALSE] ELSE row[i]]
     /\ mixed' = mixed \ {k}
     /\ Writes(w, {k})
  /\ Goto(w, IF request[w].op = "assign" THEN "insert" ELSE "stamp")
  /\ UNCHANGED <<archived, linked, requests>>

\* A row gets the next id.
InsertRow(w) ==
  \E i \in Ids :
    /\ row[i] = Unused /\ \A j \in Ids : j < i => row[j] # Unused
    /\ row' = [row EXCEPT ![i] =
         [kiosk |-> request[w].kiosk, location |-> request[w].location,
          by |-> w, open |-> TRUE]]

InsertAssignment(w) ==
  /\ Busy(w, "assign", "insert")
  /\ InsertRow(w)
  /\ Writes(w, {request[w].kiosk})
  /\ End(w)
  /\ UNCHANGED <<archived, linked, mixed, requests>>

StampArchived(w) ==
  /\ Busy(w, "archive", "stamp")
  /\ archived' = archived \cup {request[w].kiosk}
  /\ Writes(w, {request[w].kiosk})
  /\ End(w)
  /\ UNCHANGED <<row, linked, mixed, requests>>

\* One statement, which leaves the assignments alone.
BulkArchive(K) ==
  /\ K # {}
  /\ archived' = archived \cup K
  /\ alone' = {v \in alone : Touches(request[v]) \cap K = {}}
  /\ UNCHANGED <<row, linked, request, mixed, requests>>

-----------------------------------------------------------------------------
(* The asset import: the pair is looked up, then inserted.                 *)

CheckPair(w) ==
  /\ Busy(w, "place", "check")
  /\ IF \E i \in Rows(request[w].kiosk) : row[i].location = request[w].location
       THEN End(w) ELSE Goto(w, "insert")
  /\ UNCHANGED <<row, archived, linked, alone, mixed, requests>>

PlaceAsset(w) ==
  /\ Busy(w, "place", "insert")
  /\ InsertRow(w)
  /\ mixed' = mixed \cup {request[w].kiosk}
  /\ Writes(w, {request[w].kiosk})
  /\ End(w)
  /\ UNCHANGED <<archived, linked, requests>>

-----------------------------------------------------------------------------
(* mergeKiosks.                                                            *)

\* The rows of the sources, closed ones as well.
Moves_Open(S) == UNION {Open(s) : s \in S}
Moves(S) == UNION {Rows(s) : s \in S}

Repoint(w) ==
  /\ Busy(w, "merge", "repoint")
  /\ LET k == request[w].kiosk
         S == request[w].sources IN
     /\ row' = [i \in Ids |-> IF i \in Moves(S)
                               THEN [row[i] EXCEPT !.kiosk = k] ELSE row[i]]
     /\ mixed' = IF Moves(S) = {} THEN mixed ELSE mixed \cup {k}
     /\ Writes(w, S \cup {k})
  /\ Goto(w, "read")
  /\ UNCHANGED <<archived, linked, requests>>

\* SELECT installation_id ... WHERE kiosk_id IN sources.
LinksOf_Rows(S) == {p \in linked : p[2] \in S}
LinksOf(S) == {p[1] : p \in {q \in linked : q[2] \in S}}

ReadLinks(w) ==
  /\ Busy(w, "merge", "read")
  /\ LET found == LinksOf(request[w].sources) IN
     request' = [request EXCEPT ![w].pc = "unlink", ![w].links = found,
                                ![w].todo = found]
  /\ UNCHANGED <<row, archived, linked, alone, mixed, requests>>

DeleteLinks(w) ==
  /\ Busy(w, "merge", "unlink")
  /\ linked' = {p \in linked : p[2] \notin request[w].sources}
  /\ Writes(w, request[w].sources)
  /\ Goto(w, "relink")
  /\ UNCHANGED <<row, archived, mixed, requests>>

\* One INSERT per installation read, ON CONFLICT DO NOTHING.
InsertLink(w, i) ==
  /\ Busy(w, "merge", "relink") /\ i \in request[w].todo
  /\ linked' = linked \cup {<<i, request[w].kiosk>>}
  /\ request' = [request EXCEPT ![w].todo = @ \ {i}]
  /\ Writes(w, {request[w].kiosk})
  /\ UNCHANGED <<row, archived, mixed, requests>>

LinksDone(w) ==
  /\ Busy(w, "merge", "relink") /\ request[w].todo = {}
  /\ Goto(w, "stamp")
  /\ UNCHANGED <<row, archived, linked, alone, mixed, requests>>

ArchiveSources(w) ==
  /\ Busy(w, "merge", "stamp")
  /\ archived' = archived \cup request[w].sources
  /\ Writes(w, request[w].sources)
  /\ End(w)
  /\ UNCHANGED <<row, linked, mixed, requests>>

-----------------------------------------------------------------------------
(* The rest of the world.                                                  *)

\* linkKioskToInstallation (a second link of a pair is an error) and
\* unlinkKioskFromInstallation.
LinkKiosk(i, k) ==
  /\ <<i, k>> \notin linked
  /\ linked' = linked \cup {<<i, k>>}
  /\ alone' = {v \in alone : k \notin Touches(request[v])}
  /\ UNCHANGED <<row, archived, request, mixed, requests>>

UnlinkKiosk(i, k) ==
  /\ <<i, k>> \in linked
  /\ linked' = linked \ {<<i, k>>}
  /\ alone' = {v \in alone : k \notin Touches(request[v])}
  /\ UNCHANGED <<row, archived, request, mixed, requests>>

\* A statement fails, or the server dies: what was written stays.
Fail(w) ==
  /\ request[w] # Idle
  /\ End(w)
  /\ UNCHANGED <<row, archived, linked, alone, mixed, requests>>

Next ==
  \/ \E w \in Writer :
       \/ \E k \in Kiosk :
            \/ BeginArchive(w, k)
            \/ \E l \in Location : BeginAssign(w, k, l) \/ BeginPlace(w, k, l)
            \/ \E S \in SUBSET Kiosk : BeginMerge(w, k, S)
       \/ CloseOpen(w) \/ InsertAssignment(w) \/ StampArchived(w)
       \/ CheckPair(w) \/ PlaceAsset(w)
       \/ Repoint(w) \/ ReadLinks(w) \/ DeleteLinks(w)
       \/ \E i \in Installation : InsertLink(w, i)
       \/ LinksDone(w) \/ ArchiveSources(w) \/ Fail(w)
  \/ \E K \in SUBSET Kiosk : BulkArchive(K)
  \/ \E i \in Installation, k \in Kiosk : LinkKiosk(i, k) \/ UnlinkKiosk(i, k)

Spec == Init /\ [][Next]_vars

-----------------------------------------------------------------------------
(* Properties.                                                             *)

\* Open rows of a kiosk come from different requests that were under way at
\* one time, unless an import or a merge has added some: with one user at a
\* time there is one at most, n users leave n at most, and whatever has piled
\* up the next assignment clears, because it closes all there are.
OpenRowsAreRivals ==
  \A k \in Kiosk \ mixed : \A i, j \in Open(k) :
    row[i].by = row[j].by => i = j

\* A request that reaches its end without another one writing to its kiosks
\* does what its name says, whatever earlier races and failures have left:
\* an assigned kiosk has one open row, at its location; a kiosk is archived
\* with no open row; merged kiosks have no row and no installation left, and
\* the target is linked to every installation that had one of them.
LoneRequestSettles ==
  [][\A w \in alone, k \in Kiosk, S \in SUBSET Kiosk :
       LET q == request[w] IN
       q # Idle /\ q.kiosk = k /\ q.sources = S =>
       /\ InsertAssignment(w) =>
            \E i \in Ids : Open(k)' = {i} /\ row'[i].location = q.location
       /\ StampArchived(w) => Open(k)' = {}
       /\ ArchiveSources(w) =>
            /\ \A s \in S : Rows(s)' = {} /\ \A p \in linked' : p[2] # s
            /\ \A i \in q.links : <<i, k>> \in linked']_vars
=============================================================================
