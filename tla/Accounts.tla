------------------------------ MODULE Accounts -------------------------------
(* One credential and the accounts it opens on its hosts: the dispatch of a   *)
(* rotation (inventory-service, api/rotation.py) and the executors that       *)
(* change accounts over SSH (rotate_secret.py, account_push.py,               *)
(* disable_account.py and remove_account.py through _account_ops.py,          *)
(* _ssh_exec.py).  When a rotation is due is the business of Housekeeping.    *)
(*                                                                            *)
(* The secret lives in two places that no transaction spans: the vault, and   *)
(* every host that was told.  A rotation changes the hosts one after the      *)
(* other and the vault last, with a secret that only its own memory holds     *)
(* until then; meanwhile other runs of the same account may be at work.       *)
EXTENDS Integers, FiniteSets

CONSTANTS
    Host,
    Run,          \* runs of the account executors
    Kinds,        \* bound: the kinds of run looked at, of "rotate", "push", "disable"
                  \* and "remove"
    Attempts,     \* executions of one run of each kind (retry_count + 1 of its template)
    MaxSecret     \* bound: secrets ever generated or typed in

VARIABLES
    vault,     \* the secret in the credential's row
    fresh,     \* the last secret that came into being
    links,     \* the hosts linked to the credential
    host,      \* per host: the account's password and whether it may log in
    run,       \* the runs
    excused    \* history: hosts the code itself may leave on another secret

vars == <<vault, fresh, links, host, run, excused>>

NoRun == [kind |-> "rotate", phase |-> "off", targets |-> {}, todo |-> {}, skipped |-> {},
          failed |-> FALSE, secret |-> 0, tries |-> 0]

TypeOK ==
    /\ vault \in 0..MaxSecret /\ fresh \in 0..MaxSecret
    /\ links \subseteq Host
    /\ host \in [Host -> [pw : 0..MaxSecret, login : {"on", "off", "gone"}]]
    /\ \A r \in Run :
         run[r].phase \in {"off", "queued", "working", "done", "failed"}
    /\ excused \subseteq Host

Init ==
    /\ vault = 0 /\ fresh = 0
    /\ links = Host
    /\ host = [h \in Host |-> [pw |-> 0, login |-> "on"]]
    /\ run = [r \in Run |-> NoRun]
    /\ excused = {}

Working(r) == run[r].phase = "working"

Ended(r, phase) == [run EXCEPT ![r] = [NoRun EXCEPT !.phase = phase]]

\* Another run at work on the account of host h sets its password too.
Contended(r, h) ==
    \E q \in Run \ {r} : Working(q) /\ run[q].kind \in {"rotate", "push"} /\ h \in run[q].targets

-----------------------------------------------------------------------------
\* An accepted run; a refused one leaves nothing behind.
Queue(r, kind, targets) ==
    /\ run[r].phase = "off"
    /\ kind \in Kinds
    /\ run' = [run EXCEPT ![r] = [NoRun EXCEPT !.kind = kind, !.phase = "queued", !.targets = targets]]

\* _dispatch_rotation, for the sweep or for rotate_now: the linked hosts are
\* read here.
Dispatch(r) ==
    /\ Queue(r, "rotate", links)
    /\ UNCHANGED <<vault, fresh, links, host, excused>>

\* An administrator runs an account template, a rotation too, on hosts of their
\* choice, linked to the credential or not.
RunTemplate(r, kind, targets) ==
    /\ targets # {}
    /\ Queue(r, kind, targets)
    /\ UNCHANGED <<vault, fresh, links, host, excused>>

-----------------------------------------------------------------------------
\* The executor reads the credential and resolves its hosts.  rotate_secret
\* and account_push pass over a host whose lookup fails; run_account_op counts
\* it as a failure.  A rotation invents its secret here.
Start(r, skipped) ==
    /\ run[r].phase = "queued"
    /\ skipped \subseteq run[r].targets
    /\ run[r].kind = "rotate" => fresh < MaxSecret
    /\ fresh' = IF run[r].kind = "rotate" THEN fresh + 1 ELSE fresh
    /\ run' = [run EXCEPT ![r].phase = "working",
                          ![r].todo = run[r].targets \ skipped,
                          ![r].skipped = skipped,
                          ![r].failed = skipped # {} /\ run[r].kind \in {"disable", "remove"},
                          ![r].secret = IF run[r].kind = "rotate" THEN fresh + 1 ELSE vault]
    /\ UNCHANGED <<vault, links, host, excused>>

\* The credential's lookup fails.
StartFails(r) ==
    /\ run[r].phase = "queued"
    /\ run' = Ended(r, "failed")
    /\ UNCHANGED <<vault, fresh, links, host, excused>>

\* What the script does to the account, where it does anything.
After(r, a) ==
    CASE run[r].kind = "rotate" -> [a EXCEPT !.pw = run[r].secret]
      [] run[r].kind = "push" -> [pw |-> run[r].secret,
                                  login |-> IF a.login = "gone" THEN "on" ELSE a.login]
      [] run[r].kind = "disable" -> [a EXCEPT !.login = IF a.login = "gone" THEN "gone" ELSE "off"]
      [] OTHER -> [a EXCEPT !.login = "gone"]

\* One host: no privileged credential or a failing script ("no"), a script
\* that failed after it had its effect ("half"), success ("yes"), or a
\* connection that closed without an exit status, which run_command reports as
\* 0, with or without the effect ("lost", "blind").
Change(r, h, way) ==
    /\ Working(r) /\ h \in run[r].todo
    /\ way \in {"yes", "half", "lost"} /\ run[r].kind = "rotate" => host[h].login # "gone"
    /\ LET effect == way \in {"yes", "half", "lost"}
           sets == effect /\ run[r].kind \in {"rotate", "push"}
       IN /\ host' = IF effect THEN [host EXCEPT ![h] = After(r, @)] ELSE host
          /\ excused' =
               IF \/ sets /\ Contended(r, h)
                  \/ sets /\ run[r].kind = "push" /\ run[r].secret # vault
                  \/ way = "blind" /\ run[r].kind = "rotate"
               THEN excused \cup {h}
               ELSE IF sets /\ run[r].kind = "push" THEN excused \ {h} ELSE excused
    /\ run' = [run EXCEPT ![r].todo = @ \ {h},
                          ![r].failed = @ \/ way \in {"no", "half"}]
    /\ UNCHANGED <<vault, fresh, links>>

\* The secret of a rotation that ends without the vault is gone for good; the
\* hosts that took it are not told again unless the run is retried.
Discarded(r) ==
    IF run[r].kind = "rotate" THEN {h \in Host : host[h].pw = run[r].secret} ELSE {}

GiveUp(r) ==
    /\ run' = IF run[r].tries + 1 < Attempts[run[r].kind]
              THEN [run EXCEPT ![r].tries = @ + 1, ![r].phase = "queued"]
              ELSE Ended(r, "failed")
    /\ excused' = excused \cup Discarded(r)
    /\ UNCHANGED <<vault, fresh, links, host>>

\* A connection error that rotate_secret and account_push do not catch, the
\* run's timeout, or its cancellation.
Abort(r) == Working(r) /\ GiveUp(r)

\* Bug: the vault is updated although some hosts refused.
AllSucceededAnyway(r) == run[r].todo = {}

AllSucceeded(r) == run[r].todo = {} /\ ~run[r].failed

Fail(r) ==
    /\ Working(r) /\ run[r].todo = {} /\ ~AllSucceeded(r)
    /\ GiveUp(r)

\* The last step of a rotation: the new secret goes to the vault.  The linked
\* hosts that it was not run on, or passed over, keep the old one.
Commit(r) ==
    /\ Working(r) /\ run[r].kind = "rotate" /\ AllSucceeded(r)
    /\ vault' = run[r].secret
    /\ run' = Ended(r, "done")
    /\ excused' = (excused \ {h \in run[r].targets : host[h].pw = run[r].secret /\ ~Contended(r, h)})
                    \cup (links \ run[r].targets) \cup run[r].skipped
    /\ UNCHANGED <<fresh, links, host>>

\* The vault refuses it: a warning in the output, and the run succeeds.
CommitRefused(r) ==
    /\ Working(r) /\ run[r].kind = "rotate" /\ AllSucceeded(r)
    /\ run' = Ended(r, "done")
    /\ excused' = excused \cup Discarded(r)
    /\ UNCHANGED <<vault, fresh, links, host>>

\* The other executors have nothing more to do.
Finish(r) ==
    /\ Working(r) /\ run[r].kind # "rotate" /\ AllSucceeded(r)
    /\ run' = Ended(r, "done")
    /\ UNCHANGED <<vault, fresh, links, host, excused>>

\* update_credential by an administrator: a secret typed in, other hosts.
EditCredential(secret, hosts) ==
    /\ secret \in {vault, fresh + 1} /\ secret <= MaxSecret
    /\ vault' = secret
    /\ fresh' = IF secret = vault THEN fresh ELSE secret
    /\ links' = hosts
    /\ excused' = IF secret = vault THEN excused \cup (hosts \ links) ELSE excused \cup hosts
    /\ UNCHANGED <<host, run>>

Next ==
    \/ \E r \in Run : \/ Dispatch(r) \/ StartFails(r)
                      \/ Abort(r) \/ Fail(r) \/ Commit(r) \/ CommitRefused(r) \/ Finish(r)
                      \/ \E kind \in Kinds, hs \in SUBSET Host : RunTemplate(r, kind, hs)
                      \/ \E hs \in SUBSET Host : Start(r, hs)
                      \/ \E h \in Host, way \in {"yes", "no", "half", "lost", "blind"} : Change(r, h, way)
    \/ \E secret \in 0..MaxSecret, hs \in SUBSET Host : EditCredential(secret, hs)

Spec == Init /\ [][Next]_vars

-----------------------------------------------------------------------------
\* The vault opens its hosts (rotate_secret.py:86-147): a linked host is on the
\* secret of the vault, or on the one a rotation still at work will store.
\* The code may leave it on another one in the ways "excused" collects, and
\* in no other: a rotation that ends without the vault, a host it could not
\* look up, that was linked meanwhile or that nobody chose for it, a lost exit
\* status, two runs on one host at a time, a push of a secret replaced
\* meanwhile, a secret typed in.
VaultOpensHosts ==
    \A h \in links \ excused :
      \/ host[h].login = "gone"
      \/ host[h].pw = vault
      \/ \E r \in Run : Working(r) /\ run[r].kind = "rotate" /\ host[h].pw = run[r].secret

\* rotate_secret.py:129: the vault is only updated when all hosts succeeded.
OnlyWhenAllSucceeded ==
    [][\A r \in Run : Commit(r) =>
         \A h \in run[r].targets : host[h].pw = run[r].secret]_vars
=============================================================================
