--------------------------- MODULE MCEventually ---------------------------
(***************************************************************************)
(* What has to come about in the end, on small sets for TLC: that roles    *)
(* taken away stop working (LiveRoles), that what is due is done           *)
(* (Housekeeping), that somebody is told of a stalled run (Alerts), that   *)
(* guessing is locked out (Lockout) and that sessions end                  *)
(* (TerminalSession).  The modules share no state, so one run looks at     *)
(* them one at a time, each under its own fairness; the others rest.       *)
(***************************************************************************)
EXTENDS Naturals, TLC

CONSTANTS Caller, Person, Run, Job, Rotation, Sweep, Socket,
          Everyone, Nobody, None

One == 1
Two == 2
Roles == {1, 2}
Kept == {1}
Fetches == {"fetch"}
Guesses == {"first", "second", "third"}
Shells == {1}
Requests == {"request"}

VARIABLES part,   \* the module whose states are looked at
\* LiveRoles
  lr_known, lr_active, lr_held, lr_allows, lr_minted, lr_cache, lr_docs, lr_fetch,
  lr_up, lr_call,
\* Housekeeping
  hk_row, hk_seen, hk_current, hk_asked, hk_policy, hk_sweep, hk_tried, hk_edits,
  hk_faults,
\* Alerts
  al_run, al_tick, al_inbox, al_faults, al_told,
\* Lockout
  lo_row, lo_call, lo_wrong, lo_relief,
\* TerminalSession
  ts_row, ts_ws, ts_sftp, ts_control, ts_events, ts_req, ts_faults

LR == INSTANCE LiveRoles WITH
  User <- Person, Role <- Roles, UserRole <- One, Builtin <- Kept, Call <- Caller,
  Refresh <- Fetches, known <- lr_known, active <- lr_active, held <- lr_held,
  allows <- lr_allows, minted <- lr_minted, cache <- lr_cache, docs <- lr_docs,
  fetch <- lr_fetch, up <- lr_up, call <- lr_call
HK == INSTANCE Housekeeping WITH
  MaxEdits <- Two, MaxFaults <- One, row <- hk_row, seen <- hk_seen,
  current <- hk_current, asked <- hk_asked, policy <- hk_policy, sweep <- hk_sweep,
  tried <- hk_tried, edits <- hk_edits, faults <- hk_faults
AL == INSTANCE Alerts WITH
  User <- Person, Limit <- Two, MaxTold <- One, MaxFaults <- One, run <- al_run,
  tick <- al_tick, inbox <- al_inbox, faults <- al_faults, told <- al_told
LO == INSTANCE Lockout WITH
  Call <- Guesses, MaxFailures <- Two, MaxRelief <- One, row <- lo_row,
  call <- lo_call, wrong <- lo_wrong, relief <- lo_relief
TS == INSTANCE TerminalSession WITH
  Sessions <- Shells, Sockets <- Socket, MaxFaults <- One,
  row <- ts_row, ws <- ts_ws, sftp <- ts_sftp, control <- ts_control,
  events <- ts_events, req <- ts_req, faults <- ts_faults

lrVars == <<lr_known, lr_active, lr_held, lr_allows, lr_minted, lr_cache, lr_docs,
           lr_fetch, lr_up, lr_call>>
hkVars == <<hk_row, hk_seen, hk_current, hk_asked, hk_policy, hk_sweep, hk_tried,
           hk_edits, hk_faults>>
alVars == <<al_run, al_tick, al_inbox, al_faults, al_told>>
loVars == <<lo_row, lo_call, lo_wrong, lo_relief>>
tsVars == <<ts_row, ts_ws, ts_sftp, ts_control, ts_events, ts_req, ts_faults>>
vars == <<part, lrVars, hkVars, alVars, loVars, tsVars>>

Parts == {"roles", "jobs", "stalled", "guesses", "shells"}

PartsInit ==
  /\ part \in Parts
  /\ LR!Init /\ HK!Init /\ AL!Init /\ LO!Init /\ TS!Init
  /\ part # "roles" => lr_allows = Kept /\ \A u \in Person : lr_held[u] = Roles

PartsNext ==
  /\ UNCHANGED part
  /\ IF part = "roles" THEN LR!Next
     ELSE UNCHANGED lrVars
  /\ IF part = "jobs" THEN HK!Next
     ELSE UNCHANGED hkVars
  /\ IF part = "stalled" THEN AL!Next
     ELSE UNCHANGED alVars
  /\ IF part = "guesses" THEN LO!Next
     ELSE UNCHANGED loVars
  /\ IF part = "shells" THEN TS!Next
     ELSE UNCHANGED tsVars

RolesFairness ==
  /\ \A c \in Caller : WF_lrVars(part = "roles" /\ LR!Proceed(c))
  /\ \A u \in Person : WF_lrVars(part = "roles" /\ LR!CacheLapses(u))
  /\ \A f \in Fetches : /\ WF_lrVars(part = "roles" /\ LR!FetchDocs(f))
                        /\ WF_lrVars(part = "roles" /\ LR!DocsArrive(f))

JobsFairness ==
  /\ WF_hkVars(part = "jobs" /\ HK!Tick) /\ WF_hkVars(part = "jobs" /\ HK!RecordResult)
  /\ \A j \in Job : /\ WF_hkVars(part = "jobs" /\ HK!ComesDue(j))
                    /\ WF_hkVars(part = "jobs" /\ (HK!Schedule(j) \/ HK!RunJob(j)))
  /\ \A s \in Sweep :
       WF_hkVars(part = "jobs" /\ (HK!SweepReads(s) \/ HK!SweepPosts(s) \/ HK!SweepAdvances(s)))

GuessesFairness ==
  \A c \in Guesses :
    WF_loVars(/\ part = "guesses"
              /\ LO!Admit(c) \/ LO!Fail(c) \/ LO!Count(c) \/ LO!Write(c) \/ LO!WriteFails(c))

ShellsFairness ==
  /\ \A k \in Socket : WF_tsVars(part = "shells" /\ TS!Serve(k))
  /\ \A s \in Shells :
       WF_tsVars(/\ part = "shells" /\ ts_row[s] = "pending"
                 /\ \E old \in SUBSET Shells : s \in old /\ TS!Reap(old))

\* The fairness of each module, for the one that is looked at.
Fairness == /\ RolesFairness /\ JobsFairness /\ GuessesFairness /\ ShellsFairness
            /\ WF_alVars(part = "stalled" /\ AL!Scheduler)

FairSpec == PartsInit /\ [][PartsNext]_vars /\ Fairness

(***************************************************************************)
(* The properties, stated in the modules they are about.                   *)
(***************************************************************************)
\* LiveRoles: a role taken from a user, or a permission taken from a role, for
\* good, lets no request through from some time on.
WithdrawnAccessDies == LR!WithdrawnRoleDies /\ LR!WithdrawnDocumentDies

\* Housekeeping: a manual trigger is served, and a rotation that is due is tried.
\* Alerts: a run that stays stalled is told of.  Lockout: whoever goes on
\* guessing is locked out.
DueIsServed ==
  /\ HK!TriggerIsServed /\ HK!DueRotationIsTried
  /\ AL!StallIsTold
  /\ part = "guesses" => LO!GuessingIsLocked

\* TerminalSession: a handler whose event is set ends, and no session stays
\* pending: it is connected to, terminated or reaped.
SessionsEnd == TS!SignalledEnds /\ TS!PendingEnds
=============================================================================
