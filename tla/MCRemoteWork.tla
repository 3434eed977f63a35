--------------------------- MODULE MCRemoteWork ---------------------------
(***************************************************************************)
(* What the services do on the hosts, on small sets for TLC: files (Sftp), *)
(* the attempts of the executors (HostTasks), chains of templates (Chain)  *)
(* and Zabbix problems (Webhook).  The modules share no state, so one run  *)
(* looks at them one at a time: a behaviour of the run is a behaviour of   *)
(* one of them.                                                            *)
(***************************************************************************)
EXTENDS Naturals, TLC

CONSTANTS
  Caller,              \* requests: interchangeable
  MaxFaults,
  Name, MaxChanges,    \* Sftp
  Node, Behind,        \* HostTasks: the hosts, and those of them behind a gateway
  Attempts, MaxParallel,
  Steps, MaxEdits,     \* Chain
  Problems, Versions,  \* Webhook
  MaxRuns, None

ASSUME RemoteWorkAssumption ==
  /\ {MaxFaults, MaxChanges, Steps, MaxEdits, MaxRuns} \subseteq Nat
  /\ Attempts \in Nat \ {0}
  /\ Behind \subseteq Node
  /\ None \notin Problems \X Versions

VARIABLES part,   \* the module whose states are looked at
\* Sftp
  sf_fs, sf_open, sf_grants, sf_call, sf_rows, sf_last, sf_changes,
\* HostTasks
  ht_kind, ht_dry, ht_attempt, ht_at, ht_status, ht_task, ht_agent, ht_changed,
  ht_strayed, ht_deserted,
\* Chain
  ch_keep, ch_runs, ch_prod, ch_edits, ch_at, ch_attempt, ch_i, ch_ok, ch_row,
  ch_child, ch_cancel, ch_left, ch_touched, ch_late,
\* Webhook
  we_enabled, we_replay, we_dedup, we_debounce, we_call, we_run, we_faults

SF == INSTANCE Sftp WITH
  Call <- Caller, fs <- sf_fs, open <- sf_open,
  grants <- sf_grants, call <- sf_call, rows <- sf_rows, last <- sf_last,
  changes <- sf_changes
HT == INSTANCE HostTasks WITH
  Host <- Node, kind <- ht_kind,
  dry <- ht_dry, attempt <- ht_attempt, at <- ht_at, status <- ht_status,
  task <- ht_task, agent <- ht_agent, changed <- ht_changed, strayed <- ht_strayed,
  deserted <- ht_deserted
CH == INSTANCE Chain WITH
  keep <- ch_keep,
  runs <- ch_runs, prod <- ch_prod, edits <- ch_edits, at <- ch_at,
  attempt <- ch_attempt, i <- ch_i, ok <- ch_ok, row <- ch_row, child <- ch_child,
  cancel <- ch_cancel, left <- ch_left, touched <- ch_touched, late <- ch_late
WE == INSTANCE Webhook WITH
  Event <- Problems, Version <- Versions, Call <- Caller,
  enabled <- we_enabled, replay <- we_replay, dedup <- we_dedup,
  debounce <- we_debounce, call <- we_call, run <- we_run, faults <- we_faults

Parts == {"sftp", "tasks", "chain", "webhook"}

\* A module that is not looked at has no state.
Off == "off"

PartsInit ==
  /\ part \in Parts
  /\ IF part = "sftp" THEN SF!Init
     ELSE sf_fs = Off /\ sf_open = Off /\ sf_grants = Off /\ sf_call = Off
          /\ sf_rows = Off /\ sf_last = Off /\ sf_changes = Off
  /\ IF part = "tasks" THEN HT!Init
     ELSE ht_kind = Off /\ ht_dry = Off /\ ht_attempt = Off /\ ht_at = Off
          /\ ht_status = Off /\ ht_task = Off /\ ht_agent = Off /\ ht_changed = Off
          /\ ht_strayed = Off /\ ht_deserted = Off
  /\ IF part = "chain" THEN CH!Init
     ELSE ch_keep = Off /\ ch_runs = Off /\ ch_prod = Off /\ ch_edits = Off
          /\ ch_at = Off /\ ch_attempt = Off /\ ch_i = Off /\ ch_ok = Off
          /\ ch_row = Off /\ ch_child = Off /\ ch_cancel = Off
          /\ ch_left = Off /\ ch_touched = Off /\ ch_late = Off
  /\ IF part = "webhook" THEN WE!Init
     ELSE we_enabled = Off /\ we_replay = Off /\ we_dedup = Off
          /\ we_debounce = Off /\ we_call = Off /\ we_run = Off /\ we_faults = Off

PartsNext ==
  /\ UNCHANGED part
  /\ IF part = "sftp" THEN SF!Next
     ELSE UNCHANGED <<sf_fs, sf_open, sf_grants, sf_call, sf_rows, sf_last,
                      sf_changes>>
  /\ IF part = "tasks" THEN HT!Next
     ELSE UNCHANGED <<ht_kind, ht_dry, ht_attempt, ht_at, ht_status, ht_task,
                      ht_agent, ht_changed, ht_strayed, ht_deserted>>
  /\ IF part = "chain" THEN CH!Next
     ELSE UNCHANGED <<ch_keep, ch_runs, ch_prod, ch_edits, ch_at, ch_attempt, ch_i,
                      ch_ok, ch_row, ch_child, ch_cancel, ch_left, ch_touched, ch_late>>
  /\ IF part = "webhook" THEN WE!Next
     ELSE UNCHANGED <<we_enabled, we_replay, we_dedup, we_debounce, we_call,
                      we_run, we_faults>>

PartsSpec ==
  PartsInit /\ [][PartsNext]_<<part, SF!vars, HT!vars, CH!vars, WE!vars>>

\* Callers are interchangeable: no property names one of them.
Interchangeable == Permutations(Caller)

(***************************************************************************)
(* The properties, stated in the modules they are about.                   *)
(***************************************************************************)
\* Sftp: a download handed out is recorded, and an upload lands in the root,
\* whatever other operations and the users of the host do in between; what was
\* opened is the path that was confined, unless a link there was not followed or
\* has come later.
TransfersAreGuarded ==
  part = "sftp" => SF!TypeOK /\ SF!DownloadIsRecorded /\ SF!UploadsLandInRoot

\* Work on hosts.  A playbook ends with its attempt, unless that could not follow
\* its output (HostTasks); a step of a chain runs once those before it allow it,
\* as the chain has read them (Chain); a body of the webhook runs once (Webhook).
RemoteWorkIsGuarded ==
  /\ part = "tasks" => HT!TypeOK /\ HT!PlaybookEndsWithAttempt
  /\ part = "chain" => CH!TypeOK /\ CH!StepsAreEarned
  /\ part = "webhook" => WE!TypeOK /\ WE!BodyRunsOnce

=============================================================================
