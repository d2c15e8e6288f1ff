----------------------------- MODULE SendEmail -----------------------------
(***************************************************************************)
(* The Inngest function send-email (inngest/functions/send-email.ts) and   *)
(* the email_log table, driven by email/send.requested events.             *)
(*                                                                         *)
(* An Inngest run executes its steps one by one.  The value of a step that *)
(* returned is memoised: whenever the function is called again it is       *)
(* replayed, never recomputed.  A step that throws, or whose process dies  *)
(* before its value is stored, is executed again, at most MaxRetries       *)
(* times; then the run is given up.  An error thrown between the steps is  *)
(* retried the same way, against the same memoised values.                 *)
(*                                                                         *)
(* The key of an event is the pair (kind, payload_hash) of the unique      *)
(* index of email_log; NoKey is a NULL hash, which the index leaves out.   *)
(***************************************************************************)
EXTENDS Naturals

CONSTANTS
  Events,    \* email/send.requested events
  Keys,      \* pairs (kind, payload_hash)
  NoKey,     \* an event without a payload hash
  KeyOf(_),  \* the key of an event
  MaxRetries \* retries of a step: 5 in the code

ASSUME KeyAssumption ==
  NoKey \notin Keys /\ \A e \in Events : KeyOf(e) \in Keys \cup {NoKey}

ASSUME RetryAssumption == MaxRetries \in Nat

VARIABLES
  requested, \* events that were sent to Inngest
  step,      \* step[e]: the step its run executes next
  attempts,  \* attempts[e]: failed executions of that step
  result,    \* result[e]: memoised value of resend-send
  calls,     \* calls[e]: HTTP calls made to Resend
  delivered, \* delivered[e]: how many of them Resend accepted
  rows       \* rows[e]: rows of email_log its run inserted

vars == <<requested, step, attempts, result, calls, delivered, rows>>

Steps == {"none", "render", "send", "log", "settle", "done", "dead"}

TypeOK ==
  /\ requested \subseteq Events
  /\ step \in [Events -> Steps]
  /\ attempts \in [Events -> 0..MaxRetries]
  /\ result \in [Events -> {"none", "ok", "error"}]
  /\ calls \in [Events -> Nat]
  /\ delivered \in [Events -> Nat]
  /\ rows \in [Events -> Nat]

Init ==
  /\ requested = {}
  /\ step = [e \in Events |-> "none"]
  /\ attempts = [e \in Events |-> 0]
  /\ result = [e \in Events |-> "none"]
  /\ calls = [e \in Events |-> 0]
  /\ delivered = [e \in Events |-> 0]
  /\ rows = [e \in Events |-> 0]

\* Some other part of the system asks for an email.
Request(e) ==
  /\ e \notin requested
  /\ requested' = requested \cup {e}
  /\ UNCHANGED <<step, attempts, result, calls, delivered, rows>>

\* Inngest starts the run of an event.
Start(e) ==
  /\ e \in requested
  /\ step[e] = "none"
  /\ step' = [step EXCEPT ![e] = "render"]
  /\ UNCHANGED <<requested, attempts, result, calls, delivered, rows>>

\* The step returned: its value is stored and the next step has its own tries.
Advance(e, to) ==
  /\ step' = [step EXCEPT ![e] = to]
  /\ attempts' = [attempts EXCEPT ![e] = 0]

\* The step threw, or its value was lost.
Retry_Forever(e) == UNCHANGED <<step, attempts>>
Retry_OnceMore(e) ==
  IF attempts[e] <= MaxRetries
    THEN attempts' = [attempts EXCEPT ![e] = @ + 1] /\ UNCHANGED step
    ELSE step' = [step EXCEPT ![e] = "dead"] /\ UNCHANGED attempts
Retry_FromTheTop(e) ==
  IF attempts[e] < MaxRetries
    THEN /\ attempts' = [attempts EXCEPT ![e] = @ + 1]
         /\ step' = [step EXCEPT ![e] = "render"]
    ELSE step' = [step EXCEPT ![e] = "dead"] /\ UNCHANGED attempts
Retry(e) ==
  IF attempts[e] < MaxRetries
    THEN attempts' = [attempts EXCEPT ![e] = @ + 1] /\ UNCHANGED step
    ELSE step' = [step EXCEPT ![e] = "dead"] /\ UNCHANGED attempts

RenderHtml(e) ==
  /\ step[e] = "render"
  /\ Advance(e, "send") \/ Retry(e)
  /\ UNCHANGED <<requested, result, calls, delivered, rows>>

\* The HTTP call.  The SDK returns {data, error} instead of throwing: an error
\* is a value of the step like any other.  A call whose response was lost is an
\* error too, although Resend accepted the mail.
ResendSend(e) ==
  /\ step[e] = "send"
  /\ calls' = [calls EXCEPT ![e] = @ + 1]
  /\ \E outcome \in {"ok", "error", "lost"}, accepted \in BOOLEAN :
       /\ outcome = "ok" => accepted
       /\ delivered' = [delivered EXCEPT ![e] = IF accepted THEN @ + 1 ELSE @]
       /\ IF outcome = "lost"
            THEN Retry(e) /\ UNCHANGED result
            ELSE Advance(e, "log") /\ result' = [result EXCEPT ![e] = outcome]
  /\ UNCHANGED <<requested, rows>>

\* onConflictDoNothing on the unique index (kind, payload_hash).
KeyLogged(e) ==
  KeyOf(e) # NoKey /\ \E f \in Events : KeyOf(f) = KeyOf(e) /\ rows[f] > 0

\* The log step inserts; its value may be lost after the insert, or it fails
\* before it.
Log(e) ==
  /\ step[e] = "log"
  /\ \/ /\ rows' = [rows EXCEPT ![e] = IF KeyLogged(e) THEN @ ELSE @ + 1]
        /\ Advance(e, "settle") \/ Retry(e)
     \/ Retry(e) /\ UNCHANGED rows
  /\ UNCHANGED <<requested, result, calls, delivered>>

\* After the steps: an error result is thrown, and thrown again by every
\* replay, because the memoised result does not change.
Settle_Silently(e) ==
  /\ step[e] = "settle"
  /\ Advance(e, "done")
  /\ UNCHANGED <<requested, result, calls, delivered, rows>>
Settle_SendsAgain(e) ==
  /\ step[e] = "settle"
  /\ Advance(e, IF result[e] = "error" THEN "send" ELSE "done")
  /\ UNCHANGED <<requested, result, calls, delivered, rows>>
Settle(e) ==
  /\ step[e] = "settle"
  /\ IF result[e] = "error" THEN Retry(e) ELSE Advance(e, "done")
  /\ UNCHANGED <<requested, result, calls, delivered, rows>>

RunStep(e) == Start(e) \/ RenderHtml(e) \/ ResendSend(e) \/ Log(e) \/ Settle(e)

Next == \E e \in Events : Request(e) \/ RunStep(e)

Spec == Init /\ [][Next]_vars

\* Inngest keeps executing a run it has accepted.
FairSpec == Spec /\ \A e \in Events : WF_vars(RunStep(e))

-----------------------------------------------------------------------------
(* Properties.                                                             *)

\* Once the call to Resend has returned, no failure of a later step calls it
\* again ("subsequent step.run('log') failures will NOT resend").
NoResendAfterReturn ==
  [][\A e \in Events : result[e] # "none" =>
       calls'[e] = calls[e] /\ result'[e] = result[e]]_vars

\* A run that ends well has delivered its email, and every row it logged was
\* written after the call returned; a run given up after an error says so by
\* not ending well.
EndTellsTruth ==
  \A e \in Events :
    /\ step[e] = "done" => delivered[e] > 0 /\ result[e] = "ok"
    /\ rows[e] > 0 => result[e] # "none"
    /\ result[e] = "ok" => delivered[e] > 0

\* Of one event Resend is asked at most MaxRetries + 1 times, so nobody gets more
\* copies of its email than that: failures of rendering, logging and the final
\* throw, which have retries of their own, add none.
CopiesAreBounded ==
  \A e \in Events : delivered[e] <= calls[e] /\ calls[e] <= MaxRetries + 1

\* Every requested email comes to an end: sent, or given up.
EveryRequestSettles ==
  \A e \in Events : (e \in requested) ~> (step[e] \in {"done", "dead"})
=============================================================================
