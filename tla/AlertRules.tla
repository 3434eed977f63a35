----------------------------- MODULE AlertRules -----------------------------
(***************************************************************************)
(* The alert rules of playbook-studio: users edit rules while the end of a *)
(* job is evaluated against them.  An evaluation reads the enabled rules   *)
(* once, dispatches them one after another over slow channels (webhook,    *)
(* e-mail), flushes one history row per rule, and commits all rows of the  *)
(* evaluation at its very end.                                             *)
(***************************************************************************)
EXTENDS FiniteSets, Naturals

CONSTANTS Rule, Channel, Evaluation,
          NoRule,       \* no rule
          MaxEdits      \* bound on the edits of rules

VARIABLES rule,      \* the committed rows of alert_rules
          eval,      \* the evaluations, each with the session it works in
          sent,      \* the alerts the channels accepted: <<evaluation, rule, channel>>
          history,   \* the committed rows of alert_history
          edits      \* how often rules were edited

vars == <<rule, eval, sent, history, edits>>

Rows == [at : {"none", "on", "off", "gone"},
         kind : {"job_failed", "job_slow"}, channels : SUBSET Channel]

Histories == [eval : Evaluation, rule : Rule,
              status : {"delivered", "failed"}, tried : SUBSET Channel]

Evaluations ==
  [pc : {"none", "read", "walk", "channels", "over", "broken", "lost"},
   failed : BOOLEAN, slow : BOOLEAN,
   todo : SUBSET Rule, copy : [Rule -> Rows],
   at : Rule \cup {NoRule}, tried : SUBSET Channel, good : BOOLEAN,
   flushed : SUBSET Histories]

TypeOK ==
  /\ rule \in [Rule -> Rows]
  /\ eval \in [Evaluation -> Evaluations]
  /\ sent \subseteq Evaluation \X Rule \X Channel
  /\ history \subseteq Histories
  /\ edits \in 0..MaxEdits

Init ==
  /\ rule = [r \in Rule |-> [at |-> "none", kind |-> "job_failed", channels |-> {}]]
  /\ eval = [e \in Evaluation |->
               [pc |-> "none", failed |-> FALSE, slow |-> FALSE, todo |-> {},
                copy |-> rule, at |-> NoRule, tried |-> {}, good |-> FALSE,
                flushed |-> {}]]
  /\ sent = {}
  /\ history = {}
  /\ edits = 0

------------------------------------------------------------------------------
(* The rules' API. *)

Create(r) ==
  /\ rule[r].at = "none"
  /\ \E row \in Rows : row.at \in {"on", "off"} /\ rule' = [rule EXCEPT ![r] = row]
  /\ UNCHANGED <<eval, sent, history, edits>>

\* PUT replaces every field of the rule.
Update(r) ==
  /\ rule[r].at \in {"on", "off"}
  /\ edits < MaxEdits
  /\ \E row \in Rows : row.at \in {"on", "off"} /\ rule' = [rule EXCEPT ![r] = row]
  /\ edits' = edits + 1
  /\ UNCHANGED <<eval, sent, history>>

\* PATCH sets the given ones of enabled and channels; the kind stays.
Patch(r) ==
  /\ rule[r].at \in {"on", "off"}
  /\ edits < MaxEdits
  /\ \/ \E at \in {"on", "off"} : rule' = [rule EXCEPT ![r].at = at]
     \/ \E cs \in SUBSET Channel : rule' = [rule EXCEPT ![r].channels = cs]
  /\ edits' = edits + 1
  /\ UNCHANGED <<eval, sent, history>>

\* A flushed history row holds a key-share lock on its rule until the end of
\* its transaction: a delete waits for it.
Delete(r) ==
  /\ rule[r].at \in {"on", "off"}
  /\ \A e \in Evaluation : \A h \in eval[e].flushed : h.rule # r
  /\ rule' = [rule EXCEPT ![r].at = "gone"]
  /\ UNCHANGED <<eval, sent, history, edits>>

------------------------------------------------------------------------------
(* The evaluation of one job's end. *)

\* _finish_job stores the end and fires the alerts of a job that failed.
Finish(e) ==
  /\ eval[e].pc = "none"
  /\ \E failed, slow \in BOOLEAN :
       eval' = [eval EXCEPT ![e].failed = failed, ![e].slow = slow,
                            ![e].pc = IF failed THEN "read" ELSE "over"]
  /\ UNCHANGED <<rule, sent, history, edits>>

Read(e) ==
  /\ eval[e].pc = "read"
  /\ eval' = [eval EXCEPT ![e].pc = "walk", ![e].copy = rule,
                          ![e].todo = {r \in Rule : rule[r].at = "on"}]
  /\ UNCHANGED <<rule, sent, history, edits>>

\* Whether the event is one the rule asks for.
Matches(job, row) ==
  CASE row.kind = "job_failed" -> job.failed
    [] row.kind = "job_slow"   -> job.slow

\* The next rule read: dispatched when it matches and names a channel.
Consider(e, r) ==
  /\ eval[e].pc = "walk"
  /\ r \in eval[e].todo
  /\ LET row == eval[e].copy[r]
         due == Matches(eval[e], row) /\ row.channels # {}
     IN eval' = [eval EXCEPT
          ![e].todo = eval[e].todo \ {r},
          ![e].pc = IF due THEN "channels" ELSE "walk",
          ![e].at = IF due THEN r ELSE NoRule,
          ![e].tried = {}, ![e].good = FALSE]
  /\ UNCHANGED <<rule, sent, history, edits>>

\* The receiver of a channel accepts the alert.
Send(e, r, c) == sent' = sent \cup {<<e, r, c>>}

\* Bug: the channel's error reaches _dispatch, which only logs it.
TryChannelRaises(e, c) ==
  LET r == eval[e].at
  IN /\ eval[e].pc = "channels"
     /\ c \in eval[e].copy[r].channels \ eval[e].tried
     /\ \/ /\ Send(e, r, c)
           /\ eval' = [eval EXCEPT ![e].tried = eval[e].tried \cup {c}, ![e].good = TRUE]
        \/ /\ eval' = [eval EXCEPT ![e].pc = "walk", ![e].at = NoRule]
           /\ UNCHANGED sent
     /\ UNCHANGED <<rule, history, edits>>

\* One channel of the rule: the receiver accepts the alert, or the error is
\* noted and the next channel is tried.
TryChannel(e, c) ==
  LET r == eval[e].at
  IN /\ eval[e].pc = "channels"
     /\ c \in eval[e].copy[r].channels \ eval[e].tried
     /\ \/ /\ Send(e, r, c)
           /\ eval' = [eval EXCEPT ![e].tried = eval[e].tried \cup {c}, ![e].good = TRUE]
        \/ /\ eval' = [eval EXCEPT ![e].tried = eval[e].tried \cup {c}]
           /\ UNCHANGED sent
     /\ UNCHANGED <<rule, history, edits>>

\* The history row is flushed into the evaluation's transaction.
Record(e) ==
  LET r == eval[e].at
  IN /\ eval[e].pc = "channels"
     /\ eval[e].tried = eval[e].copy[r].channels
     /\ rule[r].at # "gone"
     /\ eval' = [eval EXCEPT
          ![e].pc = "walk", ![e].at = NoRule,
          ![e].flushed = eval[e].flushed \cup
             {[eval |-> e, rule |-> r, tried |-> eval[e].tried,
               status |-> IF eval[e].good THEN "delivered" ELSE "failed"]}]
     /\ UNCHANGED <<rule, sent, history, edits>>

\* The rule was deleted meanwhile: the foreign key refuses the row, the
\* session rolls back and expires every rule it read, and the handler that
\* would log the error fails on rule.name.  The evaluation is given up.
RecordRefused(e) ==
  LET r == eval[e].at
  IN /\ eval[e].pc = "channels"
     /\ eval[e].tried = eval[e].copy[r].channels
     /\ rule[r].at = "gone"
     /\ eval' = [eval EXCEPT ![e].pc = "broken", ![e].flushed = {}]
     /\ UNCHANGED <<rule, sent, history, edits>>

Commit(e) ==
  /\ eval[e].pc = "walk"
  /\ eval[e].todo = {}
  /\ history' = history \cup eval[e].flushed
  /\ eval' = [eval EXCEPT ![e].pc = "over", ![e].flushed = {}]
  /\ UNCHANGED <<rule, sent, edits>>

\* The process stops: what was flushed is rolled back, nothing evaluates the
\* job's end again.
Stop ==
  /\ \E e \in Evaluation : eval[e].pc \in {"read", "walk", "channels"}
  /\ eval' = [e \in Evaluation |->
                IF eval[e].pc \in {"read", "walk", "channels"}
                THEN [eval[e] EXCEPT !.pc = "lost", !.flushed = {}] ELSE eval[e]]
  /\ UNCHANGED <<rule, sent, history, edits>>

Next ==
  \/ \E r \in Rule : Create(r) \/ Update(r) \/ Patch(r) \/ Delete(r)
  \/ \E e \in Evaluation :
       \/ Finish(e) \/ Read(e) \/ Record(e) \/ RecordRefused(e) \/ Commit(e)
       \/ \E r \in Rule : Consider(e, r)
       \/ \E c \in Channel : TryChannel(e, c)
  \/ Stop

Spec == Init /\ [][Next]_vars

------------------------------------------------------------------------------

\* A committed evaluation has dispatched every rule it read that matches the
\* job, over every channel, and its history says for each whether an alert
\* got through: a channel that fails silences neither the rule's other
\* channels nor the rules after it.
CommittedIsComplete ==
  \A e \in Evaluation : eval[e].pc = "over" /\ eval[e].failed =>
    \A r \in Rule :
      LET row == eval[e].copy[r]
      IN row.at = "on" /\ row.channels # {} /\ Matches(eval[e], row) =>
           \E h \in history :
             /\ h.eval = e /\ h.rule = r
             /\ h.tried = row.channels
             /\ h.status = "delivered" <=> \E c \in Channel : <<e, r, c>> \in sent

\* An alert a channel accepted is in the history once its evaluation has
\* ended (notifier.deliver_alert: "Writes AlertHistory rows").  It does not
\* hold: deleting one rule while it is dispatched loses the rows of the others.
DeliveredIsRecorded ==
  \A x \in sent : eval[x[1]].pc \in {"over", "broken"} =>
    \E h \in history : h.eval = x[1] /\ h.rule = x[2]

\* A slow job's end is evaluated while a rule for slow jobs is enabled
\* (evaluate_job_event: "Called after a job finishes. Evaluates all enabled
\* job_failed / job_slow rules").  It does not hold: only failed jobs are.
SlowIsTold ==
  [][\A e \in Evaluation :
       /\ eval[e].pc = "none" /\ eval'[e].pc # "none" /\ eval'[e].slow
       /\ \E r \in Rule : rule[r].at = "on" /\ rule[r].kind = "job_slow"
       => eval'[e].pc = "read"]_vars

==============================================================================
