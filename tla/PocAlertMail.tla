---------------------------- MODULE PocAlertMail ----------------------------
(***************************************************************************)
(* The weekly alerts together with the function that mails their digests:  *)
(* the events PocAlerts asks for are the events SendEmail executes, and    *)
(* the hash of a digest is that of its POC and ISO week                    *)
(* (sha256(`${pocUserId}:${runIsoWeek}`)).                                 *)
(***************************************************************************)
EXTENDS PocAlerts

CONSTANTS MailRetries, NoKey

VARIABLES mailStep, mailTries, result, calls, delivered, rows

mailVars == <<mailStep, mailTries, result, calls, delivered, rows>>
allVars == <<vars, mailVars>>

PayloadHash(e) == <<e.poc, e.week>>

Mail == INSTANCE SendEmail
          WITH Events <- Digest, Keys <- Pocs \X (0..Week(MaxNow)),
               KeyOf <- PayloadHash, MaxRetries <- MailRetries,
               step <- mailStep, attempts <- mailTries

MailInit ==
  /\ Init
  /\ mailStep = [e \in Digest |-> "none"]
  /\ mailTries = [e \in Digest |-> 0]
  /\ result = [e \in Digest |-> "none"]
  /\ calls = [e \in Digest |-> 0]
  /\ delivered = [e \in Digest |-> 0]
  /\ rows = [e \in Digest |-> 0]

SendStep(e) ==
  /\ Mail!RunStep(e)
  /\ UNCHANGED <<now, users, poc, state, runVars, history>>

AlertStep == Next /\ UNCHANGED mailVars

MailNext == AlertStep \/ \E e \in Digest : SendStep(e)

MailSpec == MailInit /\ [][MailNext]_allVars

MailFairSpec ==
  /\ MailSpec
  /\ \A r \in Runs : WF_allVars(RunStep(r) /\ UNCHANGED mailVars)
  /\ \A e \in Digest : WF_allVars(SendStep(e))

-----------------------------------------------------------------------------
(* Properties.                                                             *)

\* A run that gets past emit-poc-emails leads, for every hotel it alerts whose
\* POC has an account, to a digest of that week that tells of the hotel and that
\* was mailed or was given up by the retries of its own function.
AlertsReachTheirEnd ==
  \A r \in Runs, h \in Hotels, p \in Pocs, w \in 0..Week(MaxNow) :
    (/\ pc[r] = "report" /\ h \in alert[r] /\ seen[r].poc[h] = p /\ p \in users
     /\ w = Week(stamp[r])) ~>
      (\E e \in requested : /\ e.poc = p /\ e.week = w
                            /\ h \in e.hotels \/ e.more > 0
                            /\ mailStep[e] \in {"done", "dead"})
=============================================================================
