--------------------------- MODULE PipelineStages ---------------------------
(***************************************************************************)
(* The stages of the kiosk pipeline and the stage of each kiosk:           *)
(* settings/pipeline-stages/actions.ts, and createKiosk, updateKioskField  *)
(* and bulkUpdateKiosks of kiosks/actions.ts and kiosks/bulk-actions.ts.   *)
(*                                                                         *)
(* Requests are sequences of autocommitted statements, each an action, and *)
(* may end in an error after any of them.  kiosks.pipeline_stage_id is a   *)
(* foreign key without a cascade: a statement that would leave a kiosk     *)
(* with a missing stage is an error.  Names, colours and positions of      *)
(* stages are left out.                                                    *)
(***************************************************************************)
EXTENDS Naturals

CONSTANTS
  Stage, Kiosk,
  Writer,           \* requests that may be under way at a time
  Idle,
  NoStage, Absent,  \* a kiosk without a stage, one not created yet
  MaxRequests       \* bound on the requests begun

ASSUME BoundAssumption == MaxRequests \in Nat

VARIABLES
  stages,    \* pipeline_stages
  default,   \* those with is_default
  stageOf,   \* stageOf[k]: pipeline_stage_id of kiosk k
  request,   \* request[w]: what is under way at w, and its next statement
  by,        \* history: by[s] is the w that last gave stage s the flag
  alone,     \* history: those since whose beginning nobody else has written
  requests   \* counter of the bound

vars == <<stages, default, by, stageOf, request, alone, requests>>

Requests ==
  [op : {"default", "delete", "create"},
   pc : {"unset", "set", "count", "kiosks", "reassign", "delete", "find",
         "insert"},
   stage : Stage \cup {NoStage}, target : Stage \cup {NoStage},
   kiosk : Kiosk \cup {Absent}]

ASSUME SentinelAssumption ==
  /\ NoStage \notin Stage /\ Absent \notin Stage /\ Absent # NoStage
  /\ Idle \notin Requests /\ Absent \notin Kiosk

TypeOK ==
  /\ stages \subseteq Stage
  /\ default \subseteq stages
  /\ by \in [Stage -> Writer \cup {Idle}]
  /\ stageOf \in [Kiosk -> Stage \cup {NoStage, Absent}]
  /\ request \in [Writer -> Requests \cup {Idle}]
  /\ alone \subseteq Writer
  /\ requests \in 0..MaxRequests

In(s) == {k \in Kiosk : stageOf[k] = s}

Busy(w, op, pc) ==
  request[w] # Idle /\ request[w].op = op /\ request[w].pc = pc
Goto(w, pc) == request' = [request EXCEPT ![w].pc = pc]
End(w) == request' = [request EXCEPT ![w] = Idle]

\* One stage is seeded as the default.
Init ==
  /\ stages \in (SUBSET Stage) \ {{}}
  /\ \E s \in stages : default = {s}
  /\ by = [s \in Stage |-> Idle]
  /\ stageOf \in [Kiosk -> stages \cup {Absent}]
  /\ request = [w \in Writer |-> Idle]
  /\ alone = {}
  /\ requests = 0

Begin(w, op, pc, s, t, k) ==
  /\ request[w] = Idle
  /\ requests < MaxRequests /\ requests' = requests + 1
  /\ request' = [request EXCEPT ![w] =
       [op |-> op, pc |-> pc, stage |-> s, target |-> t, kiosk |-> k]]
  /\ alone' = alone \cup {w}
  /\ UNCHANGED <<stages, default, by, stageOf>>

-----------------------------------------------------------------------------
(* updateStage with isDefault.                                             *)

BeginDefault(w, s) ==
  s \in stages /\ Begin(w, "default", "unset", s, NoStage, Absent)

\* "If setting as default, unset all others first".
UnsetDefaults_Own(w) ==
  /\ Busy(w, "default", "unset")
  /\ default' = default \ {request[w].stage}
  /\ alone' = alone \cap {w}
  /\ Goto(w, "set")
  /\ UNCHANGED <<stages, by, stageOf, requests>>
UnsetDefaults(w) ==
  /\ Busy(w, "default", "unset")
  /\ default' = {}
  /\ alone' = alone \cap {w}
  /\ Goto(w, "set")
  /\ UNCHANGED <<stages, by, stageOf, requests>>

\* An UPDATE by id, of no row if the stage has been deleted.
WithDefault_Upsert(s) == default \cup {s}
WithDefault(s) == default \cup ({s} \cap stages)

SetDefault(w) ==
  /\ Busy(w, "default", "set")
  /\ default' = WithDefault(request[w].stage)
  /\ by' = [by EXCEPT ![request[w].stage] = w]
  /\ alone' = alone \cap {w}
  /\ End(w)
  /\ UNCHANGED <<stages, stageOf, requests>>

\* updateStage with isDefault false: one statement.
ClearDefault(s) ==
  /\ s \in default
  /\ default' = default \ {s}
  /\ alone' = {}
  /\ UNCHANGED <<stages, by, stageOf, request, requests>>

\* createStage: the new stage is not the default.
CreateStage(s) ==
  /\ s \notin stages
  /\ stages' = stages \cup {s}
  /\ alone' = {}
  /\ UNCHANGED <<default, by, stageOf, request, requests>>

-----------------------------------------------------------------------------
(* deleteStage.                                                            *)

\* The dialog offers the other stages as the target, if any is asked for.
BeginDelete(w, s, t) ==
  /\ s \in stages /\ t \in (stages \ {s}) \cup {NoStage}
  /\ Begin(w, "delete", "count", s, t, Absent)

\* "Cannot delete the last remaining stage".
MayDelete_Any == stages # {}
MayDelete == \E s, t \in stages : s # t

CountStages(w) ==
  /\ Busy(w, "delete", "count")
  /\ IF MayDelete THEN Goto(w, "kiosks") ELSE End(w)
  /\ UNCHANGED <<stages, default, by, stageOf, alone, requests>>

CountKiosks(w) ==
  /\ Busy(w, "delete", "kiosks")
  /\ LET q == request[w] IN
     CASE In(q.stage) = {} -> Goto(w, "delete")
       [] In(q.stage) # {} /\ q.target = NoStage -> End(w)
       [] In(q.stage) # {} /\ q.target # NoStage -> Goto(w, "reassign")
  /\ UNCHANGED <<stages, default, by, stageOf, alone, requests>>

\* An error if there is a kiosk to move and the target is gone.
Reassign(w) ==
  /\ Busy(w, "delete", "reassign")
  /\ LET q == request[w] IN
     IF In(q.stage) # {} /\ q.target \notin stages
       THEN UNCHANGED <<stageOf, alone>> /\ End(w)
       ELSE /\ stageOf' = [k \in Kiosk |->
                 IF k \in In(q.stage) THEN q.target ELSE stageOf[k]]
            /\ alone' = alone \cap {w}
            /\ Goto(w, "delete")
  /\ UNCHANGED <<stages, default, by, requests>>

\* The foreign key, which has no ON DELETE action.
CanGo(s) == In(s) = {}

Delete(w) ==
  /\ Busy(w, "delete", "delete")
  /\ LET s == request[w].stage IN
     IF CanGo(s)
       THEN /\ stages' = stages \ {s} /\ default' = default \ {s}
            /\ alone' = alone \cap {w}
       ELSE UNCHANGED <<stages, default, alone>>
  /\ End(w)
  /\ UNCHANGED <<by, stageOf, requests>>

-----------------------------------------------------------------------------
(* Kiosks.                                                                 *)

\* createKiosk, with a stage or without one.
BeginCreate(w, k, s) ==
  /\ stageOf[k] = Absent
  /\ Begin(w, "create", IF s = NoStage THEN "find" ELSE "insert", s, NoStage, k)

\* The first default stage there is, in no particular order.
FindDefault(w) ==
  /\ Busy(w, "create", "find")
  /\ \E s \in default \cup {NoStage} :
       /\ s = NoStage <=> default = {}
       /\ request' = [request EXCEPT ![w].pc = "insert", ![w].stage = s]
  /\ UNCHANGED <<stages, default, by, stageOf, alone, requests>>

\* An error if the stage is gone, or the kiosk's name taken.
InsertKiosk(w) ==
  /\ Busy(w, "create", "insert")
  /\ LET q == request[w] IN
     IF stageOf[q.kiosk] = Absent /\ q.stage \in stages \cup {NoStage}
       THEN /\ stageOf' = [stageOf EXCEPT ![q.kiosk] = q.stage]
            /\ alone' = alone \cap {w}
       ELSE UNCHANGED <<stageOf, alone>>
  /\ End(w)
  /\ UNCHANGED <<stages, default, by, requests>>

\* updateKioskField and bulkUpdateKiosks: one statement, for any kiosks there
\* are, and for a stage that is there or none.
SetStage(K, s) ==
  /\ K # {} /\ \A k \in K : stageOf[k] # Absent
  /\ s \in stages \cup {NoStage}
  /\ stageOf' = [k \in Kiosk |-> IF k \in K THEN s ELSE stageOf[k]]
  /\ alone' = {}
  /\ UNCHANGED <<stages, default, by, request, requests>>

\* A statement fails, or the server dies: what was written stays.
Fail(w) ==
  /\ request[w] # Idle
  /\ End(w)
  /\ UNCHANGED <<stages, default, by, stageOf, alone, requests>>

Next ==
  \/ \E w \in Writer :
       \/ \E s \in Stage :
            \/ BeginDefault(w, s)
            \/ \E t \in Stage \cup {NoStage} : BeginDelete(w, s, t)
       \/ \E k \in Kiosk, s \in Stage \cup {NoStage} : BeginCreate(w, k, s)
       \/ UnsetDefaults(w) \/ SetDefault(w)
       \/ CountStages(w) \/ CountKiosks(w) \/ Reassign(w) \/ Delete(w)
       \/ FindDefault(w) \/ InsertKiosk(w) \/ Fail(w)
  \/ \E s \in Stage : ClearDefault(s) \/ CreateStage(s)
  \/ \E K \in SUBSET Kiosk, s \in Stage \cup {NoStage} : SetStage(K, s)

Spec == Init /\ [][Next]_vars

-----------------------------------------------------------------------------
(* Properties.                                                             *)

\* Stages that are the default at one time got the flag from different requests
\* that were under way together: with one user at a time there is one at most, n
\* users leave n at most, and whatever has piled up the next one to set a default
\* clears.
DefaultsAreRivals ==
  \A s, t \in default : by[s] = by[t] => s = t

\* A request that reaches its end without anybody else writing does what its
\* name says, whatever earlier races and failures have left: the stage set as
\* default is the only one; a deleted stage is gone, its kiosks are in the
\* target and the last stage is never the one; a kiosk created without a stage
\* has a default one unless there is none.
LoneRequestSettles ==
  [][\A w \in alone :
       LET q == request[w] IN
       /\ SetDefault(w) => default' = {q.stage}
       /\ Delete(w) => q.stage \notin stages' /\ stages' # {}
       /\ Reassign(w) => \A k \in In(q.stage) : stageOf'[k] = q.target
       /\ InsertKiosk(w) => (stageOf'[q.kiosk] = NoStage => default = {})]_vars
=============================================================================
