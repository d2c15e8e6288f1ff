------------------------ MODULE PipelineStagesProofs ------------------------
(***************************************************************************)
(* Proofs about PipelineStages for any stages, kiosks, requests and bounds. *)
(***************************************************************************)
EXTENDS PipelineStages, TLAPS

\* What a request q that nobody has interfered with may rely on, of the stages
\* st, the default ones df and the stages so of the kiosks.
Told(q, st, df, so) ==
  /\ q.op = "default" => q.stage \in st /\ (q.pc = "set" => df = {})
  /\ q.op = "delete" =>
       /\ q.stage \in st /\ q.target \in (st \ {q.stage}) \cup {NoStage}
       /\ q.pc # "count" => \E t \in st : t # q.stage
       /\ q.pc = "reassign" => q.target # NoStage
       /\ q.pc = "delete" => \A k \in Kiosk : so[k] # q.stage
  /\ q.op = "create" =>
       /\ q.kiosk \in Kiosk /\ so[q.kiosk] = Absent
       /\ q.pc = "insert" /\ q.stage = NoStage => df = {}

\* Requests nobody has interfered with find what their first statements found.
ToldAlone ==
  \A v \in alone : request[v] # Idle => Told(request[v], stages, default, stageOf)

\* A request that is to set the flag has taken away its own earlier ones.
OwnUnset ==
  \A w \in Writer : Busy(w, "default", "set") => \A t \in default : by[t] # w

\* The inductive invariant.
IInv == TypeOK /\ ToldAlone /\ OwnUnset /\ DefaultsAreRivals

-----------------------------------------------------------------------------
(* Types.                                                                  *)

\* A request begins with a well-formed record.
LEMMA BeginType ==
  ASSUME TypeOK, NEW w \in Writer, NEW op \in {"default", "delete", "create"},
         NEW pc \in {"unset", "count", "find", "insert"},
         NEW s \in Stage \cup {NoStage}, NEW t \in Stage \cup {NoStage},
         NEW k \in Kiosk \cup {Absent}, Begin(w, op, pc, s, t, k)
  PROVE  /\ TypeOK'
         /\ request'[w] = [op |-> op, pc |-> pc, stage |-> s, target |-> t, kiosk |-> k]
<1>1. [op |-> op, pc |-> pc, stage |-> s, target |-> t, kiosk |-> k] \in Requests
  BY DEF Requests
<1> QED
  BY <1>1, BoundAssumption DEF TypeOK, Begin

\* A request moves on or ends.
LEMMA MoveType ==
  ASSUME TypeOK, NEW w \in Writer, request[w] # Idle,
         NEW pc \in {"unset", "set", "count", "kiosks", "reassign", "delete",
                     "find", "insert"}
  PROVE  /\ [request[w] EXCEPT !.pc = pc] \in Requests
         /\ Goto(w, pc) => request' \in [Writer -> Requests \cup {Idle}]
         /\ End(w) => request' \in [Writer -> Requests \cup {Idle}]
  BY DEF TypeOK, Requests, Goto, End

\* A step keeps the types.
LEMMA TypeStep ==
  ASSUME TypeOK, [Next]_vars
  PROVE  TypeOK'
<1>1. ASSUME NEW w \in Writer, NEW s \in Stage, BeginDefault(w, s) PROVE TypeOK'
  BY <1>1, BeginType DEF BeginDefault
<1>2. ASSUME NEW w \in Writer, NEW s \in Stage, NEW t \in Stage \cup {NoStage},
             BeginDelete(w, s, t)
      PROVE  TypeOK'
  BY <1>2, BeginType DEF BeginDelete
<1>3. ASSUME NEW w \in Writer, NEW k \in Kiosk, NEW s \in Stage \cup {NoStage},
             BeginCreate(w, k, s)
      PROVE  TypeOK'
  BY <1>3, BeginType DEF BeginCreate
<1>4. ASSUME NEW w \in Writer, UnsetDefaults(w) PROVE TypeOK'
  <2>1. request' \in [Writer -> Requests \cup {Idle}]
    BY <1>4, MoveType DEF UnsetDefaults, Busy
  <2> QED
    BY <1>4, <2>1 DEF UnsetDefaults, TypeOK
<1>5. ASSUME NEW w \in Writer, SetDefault(w) PROVE TypeOK'
  <2>1. request' \in [Writer -> Requests \cup {Idle}]
    BY <1>5 DEF SetDefault, End, TypeOK
  <2> QED
    BY <1>5, <2>1 DEF SetDefault, WithDefault, TypeOK
<1>6. ASSUME NEW w \in Writer, CountStages(w) \/ CountKiosks(w) PROVE TypeOK'
  <2>1. request[w] # Idle
    BY <1>6 DEF CountStages, CountKiosks, Busy
  <2>2. End(w) \/ \E pc \in {"kiosks", "delete", "reassign"} : Goto(w, pc)
    BY <1>6 DEF CountStages, CountKiosks
  <2>3. request' \in [Writer -> Requests \cup {Idle}]
    BY <2>1, <2>2, MoveType
  <2> QED
    BY <1>6, <2>3 DEF CountStages, CountKiosks, TypeOK
<1>7. ASSUME NEW w \in Writer, Reassign(w) PROVE TypeOK'
  <2>1. request[w] # Idle /\ request[w].target \in Stage \cup {NoStage}
    BY <1>7 DEF Reassign, Busy, TypeOK, Requests
  <2>2. End(w) \/ Goto(w, "delete")
    BY <1>7 DEF Reassign
  <2>3. request' \in [Writer -> Requests \cup {Idle}]
    BY <2>1, <2>2, MoveType
  <2> QED
    BY <1>7, <2>1, <2>3 DEF Reassign, TypeOK
<1>8. ASSUME NEW w \in Writer, Delete(w) PROVE TypeOK'
  <2>1. request' \in [Writer -> Requests \cup {Idle}]
    BY <1>8 DEF Delete, End, TypeOK
  <2> QED
    BY <1>8, <2>1 DEF Delete, TypeOK
<1>9. ASSUME NEW w \in Writer, FindDefault(w) PROVE TypeOK'
  <2>1. PICK s \in default \cup {NoStage} :
          request' = [request EXCEPT ![w].pc = "insert", ![w].stage = s]
    BY <1>9 DEF FindDefault
  <2>2. request[w] \in Requests /\ s \in Stage \cup {NoStage}
    BY <1>9, <2>1 DEF FindDefault, Busy, TypeOK
  <2>3. [request[w] EXCEPT !.pc = "insert", !.stage = s] \in Requests
    BY <2>2 DEF Requests
  <2>4. request' \in [Writer -> Requests \cup {Idle}]
    BY <2>1, <2>3 DEF TypeOK
  <2> QED
    BY <1>9, <2>4 DEF FindDefault, TypeOK
<1>10. ASSUME NEW w \in Writer, InsertKiosk(w) PROVE TypeOK'
  <2>1. request' \in [Writer -> Requests \cup {Idle}]
    BY <1>10 DEF InsertKiosk, End, TypeOK
  <2>2. request[w].stage \in Stage \cup {NoStage}
    BY <1>10 DEF InsertKiosk, Busy, TypeOK, Requests
  <2> QED
    BY <1>10, <2>1, <2>2 DEF InsertKiosk, TypeOK
<1>11. ASSUME NEW w \in Writer, Fail(w) PROVE TypeOK'
  BY <1>11 DEF Fail, End, TypeOK
<1>12. ASSUME NEW s \in Stage, ClearDefault(s) \/ CreateStage(s) PROVE TypeOK'
  BY <1>12 DEF ClearDefault, CreateStage, TypeOK
<1>13. ASSUME NEW K \in SUBSET Kiosk, NEW s \in Stage \cup {NoStage}, SetStage(K, s)
       PROVE  TypeOK'
  BY <1>13 DEF SetStage, TypeOK
<1>14. CASE UNCHANGED vars
  BY <1>14 DEF vars, TypeOK
<1> QED
  BY <1>1, <1>2, <1>3, <1>4, <1>5, <1>6, <1>7, <1>8, <1>9, <1>10, <1>11, <1>12,
     <1>13, <1>14 DEF Next

-----------------------------------------------------------------------------
(* The default stages.                                                     *)

\* Only unsetting brings a request to where it sets the flag.
LEMMA SetsNext ==
  ASSUME TypeOK, [Next]_vars, NEW w \in Writer, Busy(w, "default", "set")'
  PROVE  Busy(w, "default", "set") \/ UnsetDefaults(w)
<1>1. ASSUME UNCHANGED request PROVE Busy(w, "default", "set")
  BY <1>1 DEF Busy
<1>2. ASSUME NEW v \in Writer, v # w, NEW q, request' = [request EXCEPT ![v] = q]
      PROVE  Busy(w, "default", "set")
  BY <1>2 DEF Busy, TypeOK
<1>3. ASSUME NEW v \in Writer, End(v) PROVE Busy(w, "default", "set")
  <2>1. v # w
    BY <1>3 DEF End, Busy, TypeOK
  <2> QED
    BY <1>2, <1>3, <2>1 DEF End
<1>4. ASSUME NEW v \in Writer, request[v] # Idle,
             NEW pc \in {"kiosks", "reassign", "delete"}, Goto(v, pc)
      PROVE  Busy(w, "default", "set")
  <2>1. v # w
    BY <1>4 DEF Goto, Busy, TypeOK, Requests
  <2>2. request' = [request EXCEPT ![v] = [request[v] EXCEPT !.pc = pc]]
    BY <1>4 DEF Goto
  <2> QED
    BY <1>2, <2>1, <2>2
<1>5. ASSUME NEW v \in Writer, NEW op, NEW pc \in {"unset", "count", "find", "insert"},
             NEW s, NEW t, NEW k, Begin(v, op, pc, s, t, k)
      PROVE  Busy(w, "default", "set")
  <2>1. v # w
    BY <1>5 DEF Begin, Busy, TypeOK
  <2> QED
    BY <1>2, <1>5, <2>1 DEF Begin
<1>6. ASSUME NEW v \in Writer, CountStages(v) \/ CountKiosks(v) \/ Reassign(v)
      PROVE  Busy(w, "default", "set")
  <2>1. request[v] # Idle
    BY <1>6 DEF CountStages, CountKiosks, Reassign, Busy
  <2>2. End(v) \/ \E pc \in {"kiosks", "reassign", "delete"} : Goto(v, pc)
    BY <1>6 DEF CountStages, CountKiosks, Reassign
  <2> QED
    BY <1>3, <1>4, <2>1, <2>2
<1>7. ASSUME NEW v \in Writer, FindDefault(v) PROVE Busy(w, "default", "set")
  <2>1. PICK s \in default \cup {NoStage} :
          request' = [request EXCEPT ![v].pc = "insert", ![v].stage = s]
    BY <1>7 DEF FindDefault
  <2>2. v # w
    BY <1>7, <2>1 DEF FindDefault, Busy, TypeOK, Requests
  <2> QED
    BY <2>1, <2>2 DEF Busy, TypeOK
<1>8. ASSUME NEW v \in Writer, UnsetDefaults(v)
      PROVE  Busy(w, "default", "set") \/ UnsetDefaults(w)
  <2>1. CASE v # w
    <3>1. request' = [request EXCEPT ![v] = [request[v] EXCEPT !.pc = "set"]]
      BY <1>8 DEF UnsetDefaults, Goto
    <3> QED
      BY <1>2, <2>1, <3>1
  <2> QED
    BY <1>8, <2>1
<1>9. ASSUME NEW v \in Writer, NEW s \in Stage, BeginDefault(v, s)
      PROVE  Busy(w, "default", "set")
  BY <1>5, <1>9 DEF BeginDefault
<1>10. ASSUME NEW v \in Writer, NEW s \in Stage, NEW t \in Stage \cup {NoStage},
              BeginDelete(v, s, t)
       PROVE  Busy(w, "default", "set")
  BY <1>5, <1>10 DEF BeginDelete
<1>11. ASSUME NEW v \in Writer, NEW k \in Kiosk, NEW s \in Stage \cup {NoStage},
              BeginCreate(v, k, s)
       PROVE  Busy(w, "default", "set")
  BY <1>5, <1>11 DEF BeginCreate
<1>12. ASSUME NEW v \in Writer, SetDefault(v) \/ Delete(v) \/ InsertKiosk(v) \/ Fail(v)
       PROVE  Busy(w, "default", "set")
  BY <1>3, <1>12 DEF SetDefault, Delete, InsertKiosk, Fail
<1>13. ASSUME \/ \E s \in Stage : ClearDefault(s) \/ CreateStage(s)
              \/ \E K \in SUBSET Kiosk, s \in Stage \cup {NoStage} : SetStage(K, s)
              \/ UNCHANGED vars
       PROVE  Busy(w, "default", "set")
  BY <1>1, <1>13 DEF ClearDefault, CreateStage, SetStage, vars
<1> QED
  BY <1>6, <1>7, <1>8, <1>9, <1>10, <1>11, <1>12, <1>13 DEF Next

\* A request that sets the flag finds none of its own; the other steps only take
\* flags away.
LEMMA RivalsStep ==
  ASSUME TypeOK, OwnUnset, DefaultsAreRivals, [Next]_vars
  PROVE  OwnUnset' /\ DefaultsAreRivals'
<1>1. ASSUME NEW w \in Writer, SetDefault(w) PROVE OwnUnset' /\ DefaultsAreRivals'
  <2> DEFINE s == request[w].stage
  <2>1. /\ by' = [by EXCEPT ![s] = w] /\ default' \subseteq default \cup {s}
        /\ \A t \in default : by[t] # w
        /\ default \subseteq Stage /\ default' \subseteq Stage
    BY <1>1 DEF SetDefault, WithDefault, OwnUnset, TypeOK
  <2>2. DefaultsAreRivals'
    BY <2>1 DEF DefaultsAreRivals, TypeOK
  <2>3. ASSUME NEW v \in Writer, Busy(v, "default", "set")', NEW t \in default'
        PROVE  by'[t] # v
    <3>1. v # w
      BY <1>1, <2>3 DEF SetDefault, End, Busy, TypeOK
    <3>2. Busy(v, "default", "set")
      BY <1>1, <2>3, <3>1, SetsNext DEF SetDefault, UnsetDefaults, End, Busy, TypeOK
    <3> QED
      BY <2>1, <3>1, <3>2 DEF OwnUnset, TypeOK
  <2> QED
    BY <2>2, <2>3 DEF OwnUnset
<1>2. ASSUME default' \subseteq default, UNCHANGED by
      PROVE  OwnUnset' /\ DefaultsAreRivals'
  <2>1. ASSUME NEW v \in Writer, Busy(v, "default", "set")', NEW t \in default'
        PROVE  by'[t] # v
    BY <1>2, <2>1, SetsNext DEF OwnUnset, UnsetDefaults
  <2> QED
    BY <1>2, <2>1 DEF OwnUnset, DefaultsAreRivals
<1>3. ASSUME ~(\E w \in Writer : SetDefault(w))
      PROVE  default' \subseteq default /\ UNCHANGED by
  BY <1>3 DEF Next, BeginDefault, BeginDelete, BeginCreate, Begin, UnsetDefaults,
     CountStages, CountKiosks, Reassign, Delete, FindDefault, InsertKiosk, Fail,
     ClearDefault, CreateStage, SetStage, vars
<1> QED
  BY <1>1, <1>2, <1>3

-----------------------------------------------------------------------------
(* Requests nobody interferes with.                                        *)

\* A write leaves nobody else alone, and what is not a write changes nothing:
\* only the request that takes the step is left to look at.
LEMMA OthersTold ==
  ASSUME TypeOK, ToldAlone, NEW w \in Writer, NEW q,
         request' = [request EXCEPT ![w] = q],
         \/ alone' \subseteq {w}
         \/ alone' \subseteq alone \cup {w} /\ UNCHANGED <<stages, default, stageOf>>,
         w \in alone' /\ q # Idle => Told(q, stages', default', stageOf')
  PROVE  ToldAlone'
<1> SUFFICES ASSUME NEW v \in alone', request'[v] # Idle
             PROVE  Told(request'[v], stages', default', stageOf')
  BY DEF ToldAlone
<1>1. CASE v = w
  BY <1>1 DEF TypeOK
<1>2. CASE v # w
  <2>1. v \in alone /\ UNCHANGED <<stages, default, stageOf>>
    BY <1>2
  <2>2. v \in Writer /\ request'[v] = request[v]
    BY <1>2, <2>1 DEF TypeOK
  <2>3. Told(request[v], stages, default, stageOf)
    BY <2>1, <2>2 DEF ToldAlone
  <2> QED
    BY <2>1, <2>2, <2>3
<1> QED
  BY <1>1, <1>2

\* A request that ends has nothing to keep.
LEMMA EndTold ==
  ASSUME TypeOK, ToldAlone, NEW w \in Writer, End(w),
         \/ alone' \subseteq {w}
         \/ alone' \subseteq alone \cup {w} /\ UNCHANGED <<stages, default, stageOf>>
  PROVE  ToldAlone'
  BY OthersTold DEF End

\* One that moves on has a record that differs in its next statement.
LEMMA GotoTold ==
  ASSUME TypeOK, ToldAlone, NEW w \in Writer, NEW pc, Goto(w, pc),
         \/ alone' \subseteq {w}
         \/ alone' \subseteq alone \cup {w} /\ UNCHANGED <<stages, default, stageOf>>,
         w \in alone' => Told([request[w] EXCEPT !.pc = pc], stages', default', stageOf')
  PROVE  ToldAlone'
<1> DEFINE q == [request[w] EXCEPT !.pc = pc]
<1>1. request' = [request EXCEPT ![w] = q]
  BY DEF Goto
<1>2. w \in alone' => Told(q, stages', default', stageOf')
  OBVIOUS
<1> HIDE DEF q
<1> QED
  BY <1>1, <1>2, OthersTold

\* What a request may rely on when it begins.
LEMMA BeginTold ==
  ASSUME TypeOK, ToldAlone, NEW w \in Writer, NEW op, NEW pc, NEW s, NEW t, NEW k,
         Begin(w, op, pc, s, t, k),
         Told([op |-> op, pc |-> pc, stage |-> s, target |-> t, kiosk |-> k],
              stages, default, stageOf)
  PROVE  ToldAlone'
<1> DEFINE q == [op |-> op, pc |-> pc, stage |-> s, target |-> t, kiosk |-> k]
<1>1. request' = [request EXCEPT ![w] = q]
  BY DEF Begin
<1>2. Told(q, stages', default', stageOf')
  BY DEF Begin
<1> HIDE DEF q
<1> QED
  BY <1>1, <1>2, OthersTold DEF Begin

\* A step keeps what requests left alone rely on.
LEMMA ToldStep ==
  ASSUME TypeOK, ToldAlone, [Next]_vars
  PROVE  ToldAlone'
<1>1. ASSUME NEW w \in Writer, NEW s \in Stage, BeginDefault(w, s) PROVE ToldAlone'
  <2>1. Told([op |-> "default", pc |-> "unset", stage |-> s, target |-> NoStage,
              kiosk |-> Absent], stages, default, stageOf)
    BY <1>1 DEF BeginDefault, Told
  <2> QED
    BY <1>1, <2>1, BeginTold DEF BeginDefault
<1>2. ASSUME NEW w \in Writer, NEW s \in Stage, NEW t \in Stage \cup {NoStage},
             BeginDelete(w, s, t)
      PROVE  ToldAlone'
  <2>1. Told([op |-> "delete", pc |-> "count", stage |-> s, target |-> t,
              kiosk |-> Absent], stages, default, stageOf)
    BY <1>2 DEF BeginDelete, Told
  <2> QED
    BY <1>2, <2>1, BeginTold DEF BeginDelete
<1>3. ASSUME NEW w \in Writer, NEW k \in Kiosk, NEW s \in Stage \cup {NoStage},
             BeginCreate(w, k, s)
      PROVE  ToldAlone'
  <2> DEFINE pc == IF s = NoStage THEN "find" ELSE "insert"
  <2>1. Told([op |-> "create", pc |-> pc, stage |-> s, target |-> NoStage,
              kiosk |-> k], stages, default, stageOf)
    BY <1>3 DEF BeginCreate, Told
  <2> QED
    BY <1>3, <2>1, BeginTold DEF BeginCreate
<1>4. ASSUME NEW w \in Writer, UnsetDefaults(w) PROVE ToldAlone'
  <2>1. w \in alone' => Told([request[w] EXCEPT !.pc = "set"], stages', default', stageOf')
    BY <1>4 DEF UnsetDefaults, Busy, ToldAlone, Told, TypeOK, Requests
  <2> QED
    BY <1>4, <2>1, GotoTold DEF UnsetDefaults
<1>5. ASSUME NEW w \in Writer, SetDefault(w) \/ Delete(w) \/ InsertKiosk(w) \/ Fail(w)
      PROVE  ToldAlone'
  <2>1. End(w)
    BY <1>5 DEF SetDefault, Delete, InsertKiosk, Fail
  <2>2. \/ alone' \subseteq {w}
        \/ alone' \subseteq alone \cup {w} /\ UNCHANGED <<stages, default, stageOf>>
    BY <1>5 DEF SetDefault, Delete, InsertKiosk, Fail
  <2> QED
    BY <2>1, <2>2, EndTold
<1>6. ASSUME NEW w \in Writer, CountStages(w) PROVE ToldAlone'
  <2>1. CASE End(w)
    BY <1>6, <2>1, EndTold DEF CountStages
  <2>2. CASE MayDelete /\ Goto(w, "kiosks")
    <3>1. w \in alone =>
            Told([request[w] EXCEPT !.pc = "kiosks"], stages, default, stageOf)
      BY <1>6, <2>2 DEF CountStages, MayDelete, Busy, ToldAlone, Told, TypeOK, Requests
    <3> QED
      BY <1>6, <2>2, <3>1, GotoTold DEF CountStages
  <2> QED
    BY <1>6, <2>1, <2>2 DEF CountStages
<1>7. ASSUME NEW w \in Writer, CountKiosks(w) PROVE ToldAlone'
  <2>1. CASE End(w)
    BY <1>7, <2>1, EndTold DEF CountKiosks
  <2>2. CASE In(request[w].stage) = {} /\ Goto(w, "delete")
    <3>1. w \in alone =>
            Told([request[w] EXCEPT !.pc = "delete"], stages, default, stageOf)
      BY <1>7, <2>2 DEF CountKiosks, In, Busy, ToldAlone, Told, TypeOK, Requests
    <3> QED
      BY <1>7, <2>2, <3>1, GotoTold DEF CountKiosks
  <2>3. CASE request[w].target # NoStage /\ Goto(w, "reassign")
    <3>1. w \in alone =>
            Told([request[w] EXCEPT !.pc = "reassign"], stages, default, stageOf)
      BY <1>7, <2>3 DEF CountKiosks, Busy, ToldAlone, Told, TypeOK, Requests
    <3> QED
      BY <1>7, <2>3, <3>1, GotoTold DEF CountKiosks
  <2> QED
    BY <1>7, <2>1, <2>2, <2>3 DEF CountKiosks
<1>8. ASSUME NEW w \in Writer, Reassign(w) PROVE ToldAlone'
  <2>1. CASE End(w) /\ UNCHANGED <<stageOf, alone>>
    BY <1>8, <2>1, EndTold DEF Reassign
  <2>2. CASE /\ Goto(w, "delete") /\ alone' = alone \cap {w}
             /\ stageOf' = [k \in Kiosk |->
                  IF k \in In(request[w].stage) THEN request[w].target ELSE stageOf[k]]
    <3>1. ASSUME w \in alone
          PROVE  Told([request[w] EXCEPT !.pc = "delete"], stages, default, stageOf')
      <4>1. /\ request[w] \in Requests /\ request[w].op = "delete"
            /\ request[w].pc = "reassign"
        BY <1>8 DEF Reassign, Busy, TypeOK
      <4>2. Told(request[w], stages, default, stageOf)
        BY <1>8, <3>1 DEF Reassign, Busy, ToldAlone
      <4>3. request[w].target # request[w].stage
        BY <4>1, <4>2, SentinelAssumption DEF Told, TypeOK
      <4>4. \A k \in Kiosk : stageOf'[k] # request[w].stage
        BY <2>2, <4>3 DEF In
      <4> QED
        BY <4>1, <4>2, <4>4 DEF Told, Requests
    <3> QED
      BY <1>8, <2>2, <3>1, GotoTold DEF Reassign
  <2> QED
    BY <1>8, <2>1, <2>2 DEF Reassign
<1>9. ASSUME NEW w \in Writer, FindDefault(w) PROVE ToldAlone'
  <2>1. PICK s \in default \cup {NoStage} :
          /\ s = NoStage <=> default = {}
          /\ request' = [request EXCEPT ![w].pc = "insert", ![w].stage = s]
    BY <1>9 DEF FindDefault
  <2> DEFINE q == [request[w] EXCEPT !.pc = "insert", !.stage = s]
  <2>2. request[w] \in Requests
    BY <1>9 DEF FindDefault, Busy, TypeOK
  <2>3. request' = [request EXCEPT ![w] = q]
    BY <2>1, <2>2 DEF TypeOK, Requests
  <2>4. w \in alone => Told(q, stages, default, stageOf)
    BY <1>9, <2>1, <2>2 DEF FindDefault, Busy, ToldAlone, Told, Requests
  <2> HIDE DEF q
  <2> QED
    BY <1>9, <2>3, <2>4, OthersTold DEF FindDefault
<1>10. ASSUME alone' = {} PROVE ToldAlone'
  BY <1>10 DEF ToldAlone
<1>11. CASE UNCHANGED vars
  BY <1>11 DEF vars, ToldAlone
<1> QED
  BY <1>1, <1>2, <1>3, <1>4, <1>5, <1>6, <1>7, <1>8, <1>9, <1>10, <1>11
     DEF Next, ClearDefault, CreateStage, SetStage

\* Its last statement does what the request was for.
LEMMA Settles ==
  ASSUME IInv, NEW w \in alone, NEW q, q = request[w]
  PROVE  /\ SetDefault(w) => default' = {q.stage}
         /\ Delete(w) => q.stage \notin stages' /\ stages' # {}
         /\ Reassign(w) => \A k \in In(q.stage) : stageOf'[k] = q.target
         /\ InsertKiosk(w) => (stageOf'[q.kiosk] = NoStage => default = {})
<1>1. ASSUME q # Idle
      PROVE  q \in Requests /\ Told(q, stages, default, stageOf)
  BY <1>1 DEF IInv, TypeOK, ToldAlone
<1>2. ASSUME SetDefault(w) PROVE default' = {q.stage}
  BY <1>1, <1>2 DEF SetDefault, Busy, Told, WithDefault
<1>3. ASSUME Delete(w) PROVE q.stage \notin stages' /\ stages' # {}
  BY <1>1, <1>3 DEF Delete, Busy, Told, CanGo, In
<1>4. ASSUME Reassign(w) PROVE \A k \in In(q.stage) : stageOf'[k] = q.target
  <2>1. In(q.stage) # {} => q.target \in stages
    BY <1>1, <1>4 DEF Reassign, Busy, Told
  <2> QED
    BY <1>4, <2>1 DEF Reassign, In
<1>5. ASSUME InsertKiosk(w), stageOf'[q.kiosk] = NoStage PROVE default = {}
  <2>1. /\ q \in Requests /\ Told(q, stages, default, stageOf)
        /\ q.op = "create" /\ q.pc = "insert"
    BY <1>1, <1>5 DEF InsertKiosk, Busy
  <2>2. q.stage = NoStage => default = {}
    BY <2>1 DEF Told
  <2>3. stageOf[q.kiosk] = Absent
    BY <2>1 DEF Told
  <2>4. q.kiosk \in Kiosk => stageOf'[q.kiosk] = q.stage \/ stageOf'[q.kiosk] = Absent
    BY <1>5, <2>3 DEF InsertKiosk, IInv, TypeOK
  <2> QED
    BY <1>5, <2>1, <2>2, <2>4, SentinelAssumption DEF Told
<1> QED
  BY <1>2, <1>3, <1>4, <1>5

-----------------------------------------------------------------------------
(* Theorems.                                                               *)

\* Initially the invariant holds, and steps keep it.
LEMMA InitInv == Init => IInv
<1> SUFFICES ASSUME Init PROVE IInv
  OBVIOUS
<1>1. TypeOK
  BY BoundAssumption DEF Init, TypeOK
<1>2. ToldAlone
  BY DEF Init, ToldAlone
<1>3. OwnUnset /\ DefaultsAreRivals
  BY DEF Init, OwnUnset, DefaultsAreRivals, Busy
<1> QED
  BY <1>1, <1>2, <1>3 DEF IInv

LEMMA InvStep == IInv /\ [Next]_vars => IInv'
  BY TypeStep, ToldStep, RivalsStep DEF IInv

\* Stages, the default ones among them, the kiosks' stages and the requests keep
\* their types, whatever statements interleave (updateStage, deleteStage,
\* createKiosk): a default stage is always one that exists.
THEOREM TypesHold == Spec => []TypeOK
<1>1. IInv => TypeOK
  BY DEF IInv
<1> QED
  BY <1>1, InitInv, InvStep, PTL DEF Spec

\* For any number of stages, users and requests: stages that are the default
\* together got the flag from requests that overlapped (updateStage).
THEOREM DefaultsComeFromRivals == Spec => []DefaultsAreRivals
<1>1. IInv => DefaultsAreRivals
  BY DEF IInv
<1> QED
  BY <1>1, InitInv, InvStep, PTL DEF Spec

\* For any number of stages, kiosks and requests: one that reaches its end
\* without anybody else writing does what its name says.
THEOREM LoneRequestsSettle == Spec => LoneRequestSettles
<1>1. ASSUME IInv, [Next]_vars
      PROVE  [\A w \in alone :
                LET q == request[w] IN
                /\ SetDefault(w) => default' = {q.stage}
                /\ Delete(w) => q.stage \notin stages' /\ stages' # {}
                /\ Reassign(w) => \A k \in In(q.stage) : stageOf'[k] = q.target
                /\ InsertKiosk(w) =>
                     (stageOf'[q.kiosk] = NoStage => default = {})]_vars
  BY <1>1, Settles
<1> QED
  BY <1>1, InitInv, InvStep, PTL DEF Spec, LoneRequestSettles
=============================================================================
