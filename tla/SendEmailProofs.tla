-------------------------- MODULE SendEmailProofs --------------------------
(***************************************************************************)
(* Proofs about SendEmail for any set of events, any assignment of hashes  *)
(* and any number of retries.                                              *)
(***************************************************************************)
EXTENDS SendEmail, TLAPS

USE KeyAssumption, RetryAssumption

\* A run past the call to Resend has a result, and an event without a result
\* has logged nothing.
ResultKnown ==
  \A e \in Events :
    /\ step[e] \in {"log", "settle"} => result[e] # "none"
    /\ step[e] \in {"none", "render", "send"} => result[e] = "none" /\ rows[e] = 0
    /\ result[e] = "none" => rows[e] = 0

\* Before a call has returned, the failures of resend-send count the calls.
CallsCounted ==
  \A e \in Events :
    /\ step[e] \in {"none", "render"} => calls[e] = 0
    /\ step[e] = "none" => attempts[e] = 0
    /\ step[e] = "send" => calls[e] = attempts[e]

Inv == TypeOK /\ ResultKnown /\ EndTellsTruth /\ CallsCounted /\ CopiesAreBounded

LEMMA InvInit == Init => Inv
  BY DEF Init, Inv, TypeOK, Steps, ResultKnown, EndTellsTruth, CallsCounted,
         CopiesAreBounded

\* Retrying keeps the step or gives the run up; advancing only moves it.
LEMMA RetryStep ==
  ASSUME TypeOK, NEW e \in Events, Retry(e)
  PROVE  /\ step' \in [Events -> Steps] /\ attempts' \in [Events -> 0..MaxRetries]
         /\ \/ step'[e] = step[e] /\ attempts'[e] = attempts[e] + 1
            \/ step'[e] = "dead"
         /\ \A f \in Events \ {e} : step'[f] = step[f] /\ attempts'[f] = attempts[f]
  BY DEF TypeOK, Steps, Retry

LEMMA AdvanceStep ==
  ASSUME TypeOK, NEW e \in Events, NEW to \in Steps, Advance(e, to)
  PROVE  /\ step' \in [Events -> Steps] /\ attempts' \in [Events -> 0..MaxRetries]
         /\ step'[e] = to /\ attempts'[e] = 0
         /\ \A f \in Events \ {e} : step'[f] = step[f] /\ attempts'[f] = attempts[f]
  BY DEF TypeOK, Steps, Advance

LEMMA InvStep == Inv /\ [Next]_vars => Inv'
<1> SUFFICES ASSUME Inv, [Next]_vars PROVE Inv'
  OBVIOUS
<1> USE DEF Inv, ResultKnown, EndTellsTruth, CallsCounted
<1>1. ASSUME NEW e \in Events, Request(e) PROVE Inv'
  BY <1>1 DEF Request, TypeOK, CopiesAreBounded
<1>2. ASSUME NEW e \in Events, Start(e) PROVE Inv'
  BY <1>2 DEF Start, TypeOK, Steps, CopiesAreBounded
<1>3. ASSUME NEW e \in Events, RenderHtml(e) PROVE Inv'
  <2>1. /\ step' \in [Events -> Steps] /\ attempts' \in [Events -> 0..MaxRetries]
        /\ step'[e] \in {"render", "send", "dead"}
        /\ step'[e] = "send" => attempts'[e] = 0
        /\ \A f \in Events \ {e} : step'[f] = step[f] /\ attempts'[f] = attempts[f]
    BY <1>3, RetryStep, AdvanceStep DEF RenderHtml, Steps
  <2>. QED  BY <1>3, <2>1 DEF RenderHtml, TypeOK, CopiesAreBounded
<1>4. ASSUME NEW e \in Events, ResendSend(e) PROVE Inv'
  <2>. PICK outcome \in {"ok", "error", "lost"}, accepted \in BOOLEAN :
         /\ outcome = "ok" => accepted
         /\ delivered' = [delivered EXCEPT ![e] = IF accepted THEN @ + 1 ELSE @]
         /\ IF outcome = "lost"
              THEN Retry(e) /\ UNCHANGED result
              ELSE Advance(e, "log") /\ result' = [result EXCEPT ![e] = outcome]
    BY <1>4 DEF ResendSend
  <2>0. step[e] = "send" /\ calls' = [calls EXCEPT ![e] = @ + 1]
    BY <1>4 DEF ResendSend
  <2>1. /\ step' \in [Events -> Steps] /\ attempts' \in [Events -> 0..MaxRetries]
        /\ \A f \in Events \ {e} : step'[f] = step[f] /\ attempts'[f] = attempts[f]
        /\ \/ /\ outcome = "lost" /\ result' = result
              /\ \/ step'[e] = "send" /\ attempts'[e] = attempts[e] + 1
                 \/ step'[e] = "dead"
           \/ /\ outcome # "lost" /\ step'[e] = "log"
              /\ result' = [result EXCEPT ![e] = outcome]
    BY <2>0, RetryStep, AdvanceStep DEF Steps
  <2>2. /\ calls' \in [Events -> Nat] /\ delivered' \in [Events -> Nat]
        /\ result' \in [Events -> {"none", "ok", "error"}]
        /\ UNCHANGED <<requested, rows>>
    BY <1>4, <2>1 DEF ResendSend, TypeOK
  <2>3. TypeOK'
    BY <2>1, <2>2 DEF TypeOK
  <2>4. \A f \in Events : delivered[f] > 0 => delivered'[f] > 0
    BY DEF TypeOK
  <2>5. outcome = "ok" => delivered'[e] > 0
    BY DEF TypeOK
  <2>6. result[e] = "none" /\ rows[e] = 0 /\ calls[e] = attempts[e]
    BY <2>0
  <2>7. ResultKnown' /\ EndTellsTruth'
    BY <2>1, <2>2, <2>4, <2>5, <2>6 DEF TypeOK
  <2>8. CallsCounted'
    BY <2>0, <2>1, <2>6 DEF TypeOK
  <2>9. CopiesAreBounded'
    <3>1. attempts[e] <= MaxRetries
      BY DEF TypeOK
    <3>2. calls'[e] = calls[e] + 1 /\ delivered'[e] <= delivered[e] + 1
      BY <2>0 DEF TypeOK
    <3>. QED  BY <2>0, <2>6, <3>1, <3>2 DEF CopiesAreBounded, TypeOK
  <2>. QED  BY <2>3, <2>7, <2>8, <2>9
<1>5. ASSUME NEW e \in Events, Log(e) PROVE Inv'
  <2>1. /\ step' \in [Events -> Steps] /\ attempts' \in [Events -> 0..MaxRetries]
        /\ step'[e] \in {"log", "settle", "dead"}
        /\ \A f \in Events \ {e} : step'[f] = step[f] /\ attempts'[f] = attempts[f]
    BY <1>5, RetryStep, AdvanceStep DEF Log, Steps
  <2>2. rows' = rows \/ rows' = [rows EXCEPT ![e] = @ + 1]
    BY <1>5 DEF Log, TypeOK
  <2>3. UNCHANGED <<requested, result, calls, delivered>> /\ step[e] = "log"
    BY <1>5 DEF Log
  <2>4. TypeOK'
    BY <2>1, <2>2, <2>3 DEF TypeOK
  <2>5. ResultKnown' /\ EndTellsTruth'
    BY <2>1, <2>2, <2>3 DEF TypeOK
  <2>6. CallsCounted' /\ CopiesAreBounded'
    BY <2>1, <2>3 DEF CopiesAreBounded
  <2>. QED  BY <2>4, <2>5, <2>6
<1>6. ASSUME NEW e \in Events, Settle(e) PROVE Inv'
  <2>1. /\ step' \in [Events -> Steps] /\ attempts' \in [Events -> 0..MaxRetries]
        /\ step'[e] \in {"settle", "dead", "done"}
        /\ step'[e] = "done" => result[e] # "error"
        /\ \A f \in Events \ {e} : step'[f] = step[f] /\ attempts'[f] = attempts[f]
    BY <1>6, RetryStep, AdvanceStep DEF Settle, Steps
  <2>. QED  BY <1>6, <2>1 DEF Settle, TypeOK, CopiesAreBounded
<1>7. CASE UNCHANGED vars
  BY <1>7 DEF vars, TypeOK, CopiesAreBounded
<1>. QED  BY <1>1, <1>2, <1>3, <1>4, <1>5, <1>6, <1>7 DEF Next, RunStep

LEMMA Invariance == Spec => []Inv
  BY InvInit, InvStep, PTL DEF Spec

\* Runs, results and rows keep their types: no step has more than MaxRetries
\* failures behind it, whichever steps are executed twice.
THEOREM TypesHold == Spec => []TypeOK
<1>1. Inv => TypeOK
  BY DEF Inv
<1>. QED  BY <1>1, Invariance, PTL

\* A run that ends well has delivered its email and a logged row stands for a
\* call that returned, with any number of retries.
THEOREM EndsTruthfully == Spec => []EndTellsTruth
<1>1. Inv => EndTellsTruth
  BY DEF Inv
<1>. QED  BY <1>1, Invariance, PTL

\* Nobody gets more than MaxRetries + 1 copies of an email: only failures of
\* resend-send itself, before it has returned, repeat the call.
THEOREM CopiesBounded == Spec => []CopiesAreBounded
<1>1. Inv => CopiesAreBounded
  BY DEF Inv
<1>. QED  BY <1>1, Invariance, PTL

\* No step calls Resend again once a call of the run has returned.
THEOREM NeverResends == Spec => NoResendAfterReturn
<1>1. Inv /\ [Next]_vars =>
        [\A e \in Events : result[e] # "none" =>
           calls'[e] = calls[e] /\ result'[e] = result[e]]_vars
  <2> SUFFICES ASSUME Inv, Next, NEW e \in Events, result[e] # "none"
               PROVE  calls'[e] = calls[e] /\ result'[e] = result[e]
    OBVIOUS
  <2>1. step[e] # "send"
    BY DEF Inv, ResultKnown
  <2>. QED  BY <2>1 DEF Next, RunStep, Request, Start, RenderHtml, ResendSend, Log,
                        Settle, Inv, TypeOK
<1>. QED  BY <1>1, Invariance, PTL DEF Spec, NoResendAfterReturn
=============================================================================
