--------------------------- MODULE MCHoldings ---------------------------
(***************************************************************************)
(* What the services keep, on small sets for TLC: secrets (Vault,          *)
(* Accounts), the inventory (Assets, Zones), recordings and log files      *)
(* (Recordings, LogShipper), and the quarantined services (PlaybookJob,    *)
(* IdlePool, AlertRules, LaunchToken).  The modules share no state, so one *)
(* run looks at them one at a time: a behaviour of the run is a behaviour  *)
(* of one of them.                                                         *)
(***************************************************************************)
EXTENDS FiniteSets, Naturals, TLC

CONSTANTS
  Caller,                      \* requests, runs and the like: interchangeable
  Machine,                     \* hosts: interchangeable
  Keep, MaxPuts,               \* Vault
  AccountKinds, RotateTries, MaxSecret,    \* Accounts
  ZabbixHosts, Team, Edits, MaxChanges,    \* Assets
  Zone, Endpoints, Queries,       \* Zones
  Sessions, Tiers, MaxPosts,   \* Recordings
  Targets, Categories, MaxBatch, MaxRotations, MaxFaults,   \* LogShipper
  Streams, MaxLost,            \* PlaybookJob
  MaxLines,                    \* LogShipper, PlaybookJob
  Socket, MaxConns,            \* IdlePool
  Channel, JobEvents,        \* AlertRules
  MaxEdits,                    \* LogShipper, AlertRules
  Token, TTL, Grace, MaxTime,  \* LaunchToken
  None

\* The service keeps one prior secret at least (SECRET_HISTORY_KEEP), and ships
\* logs to some kind of target; a deployment has so many gateways.
ASSUME HoldingsAssumption ==
  /\ {MaxSecret, MaxChanges, MaxPosts, MaxBatch, MaxRotations, MaxFaults, MaxLost,
      MaxLines, MaxConns, MaxEdits, TTL, Grace} \subseteq Nat
  /\ {Keep, MaxPuts, MaxTime} \subseteq Nat \ {0}
  /\ AccountKinds \subseteq {"rotate", "push", "disable", "remove"}
  /\ None \notin Caller \cup Machine \cup ZabbixHosts \cup Zone
  /\ Targets # {}
  /\ IsFiniteSet(Endpoints)

\* Executions of one run: a rotation is retried.
Tries == [k \in AccountKinds |-> IF k = "rotate" THEN RotateTries ELSE 1]

VARIABLES part,   \* the module whose states are looked at
\* Vault
  va_rows, va_key, va_writes, va_put, va_tool, va_strays, va_dropped, va_unlogged,
\* Accounts
  ac_vault, ac_fresh, ac_links, ac_host, ac_run, ac_excused,
\* Assets
  as_host, as_zbx, as_edit, as_sync, as_changes,
\* Zones
  zo_zone, zo_move, zo_ask,
\* Recordings
  re_row, re_bucket, re_tier, re_writes, re_last, re_strays,
\* LogShipper
  ls_config, ls_file, ls_partial, ls_saved, ls_tick, ls_shipped, ls_passed, ls_used,
\* PlaybookJob
  pj_row, pj_cancel, pj_stored, pj_task, pj_out, pj_result, pj_process, pj_bridge,
  pj_ended, pj_lost, pj_stream,
\* IdlePool
  ip_row, ip_conn, ip_pool, ip_timer, ip_active, ip_ws,
\* AlertRules
  ar_rule, ar_eval, ar_sent, ar_history, ar_edits,
\* LaunchToken
  lt_now, lt_token, lt_key, lt_call, lt_opened

VA == INSTANCE Vault WITH
  Put <- Caller, MaxWrites <- MaxPuts, rows <- va_rows, key <- va_key,
  writes <- va_writes, put <- va_put, tool <- va_tool, strays <- va_strays,
  dropped <- va_dropped, unlogged <- va_unlogged
AC == INSTANCE Accounts WITH
  Host <- Machine, Run <- Caller, Kinds <- AccountKinds, Attempts <- Tries,
  vault <- ac_vault, fresh <- ac_fresh, links <- ac_links,
  host <- ac_host, run <- ac_run, excused <- ac_excused
AS == INSTANCE Assets WITH
  Host <- Machine, ZbxHost <- ZabbixHosts, Group <- Team, Edit <- Edits,
  Sync <- Caller, host <- as_host, zbx <- as_zbx,
  edit <- as_edit, sync <- as_sync, changes <- as_changes
ZO == INSTANCE Zones WITH
  NoZone <- None, Endpoint <- Endpoints, Move <- Caller, Ask <- Queries,
  zone <- zo_zone, move <- zo_move, ask <- zo_ask
RE == INSTANCE Recordings WITH
  Session <- Sessions, Tier <- Tiers, MaxWrites <- MaxPosts, row <- re_row,
  bucket <- re_bucket, tier <- re_tier, writes <- re_writes, last <- re_last,
  strays <- re_strays
LS == INSTANCE LogShipper WITH
  Target <- Targets, Category <- Categories, config <- ls_config,
  file <- ls_file, partial <- ls_partial, saved <- ls_saved, tick <- ls_tick,
  shipped <- ls_shipped, passed <- ls_passed, used <- ls_used
PJ == INSTANCE PlaybookJob WITH
  Stream <- Streams, row <- pj_row, cancel <- pj_cancel,
  stored <- pj_stored, task <- pj_task, out <- pj_out, result <- pj_result,
  process <- pj_process, bridge <- pj_bridge, ended <- pj_ended, lost <- pj_lost,
  stream <- pj_stream
IP == INSTANCE IdlePool WITH
  Ws <- Socket, row <- ip_row, conn <- ip_conn, pool <- ip_pool,
  timer <- ip_timer, active <- ip_active, ws <- ip_ws
AR == INSTANCE AlertRules WITH
  Rule <- Caller, Evaluation <- JobEvents, NoRule <- None,
  rule <- ar_rule, eval <- ar_eval, sent <- ar_sent, history <- ar_history,
  edits <- ar_edits
LT == INSTANCE LaunchToken WITH
  Call <- Caller, now <- lt_now,
  token <- lt_token, key <- lt_key, call <- lt_call, opened <- lt_opened

Parts == {"vault", "accounts", "assets", "zones", "recordings", "logs", "playbooks", "idle", "alerts", "launch"}

\* A module that is not looked at has no state.
Off == "off"

PartsInit ==
  /\ part \in Parts
  /\ IF part = "vault" THEN VA!Init
     ELSE va_rows = Off /\ va_key = Off /\ va_writes = Off /\ va_put = Off
          /\ va_tool = Off /\ va_strays = Off /\ va_dropped = Off
          /\ va_unlogged = Off
  /\ IF part = "accounts" THEN AC!Init
     ELSE ac_vault = Off /\ ac_fresh = Off /\ ac_links = Off /\ ac_host = Off
          /\ ac_run = Off /\ ac_excused = Off
  /\ IF part = "assets" THEN AS!Init
     ELSE as_host = Off /\ as_zbx = Off /\ as_edit = Off /\ as_sync = Off
          /\ as_changes = Off
  /\ IF part = "zones" THEN ZO!Init
     ELSE zo_zone = Off /\ zo_move = Off /\ zo_ask = Off
  /\ IF part = "recordings" THEN RE!Init
     ELSE re_row = Off /\ re_bucket = Off /\ re_tier = Off /\ re_writes = Off
          /\ re_last = Off /\ re_strays = Off
  /\ IF part = "logs" THEN LS!Init
     ELSE ls_config = Off /\ ls_file = Off /\ ls_partial = Off /\ ls_saved = Off
          /\ ls_tick = Off /\ ls_shipped = Off /\ ls_passed = Off /\ ls_used = Off
  /\ IF part = "playbooks" THEN PJ!Init
     ELSE pj_row = Off /\ pj_cancel = Off /\ pj_stored = Off /\ pj_task = Off
          /\ pj_out = Off /\ pj_result = Off /\ pj_process = Off /\ pj_bridge = Off
          /\ pj_ended = Off /\ pj_lost = Off /\ pj_stream = Off
  /\ IF part = "idle" THEN IP!Init
     ELSE ip_row = Off /\ ip_conn = Off /\ ip_pool = Off /\ ip_timer = Off
          /\ ip_active = Off /\ ip_ws = Off
  /\ IF part = "alerts" THEN AR!Init
     ELSE ar_rule = Off /\ ar_eval = Off /\ ar_sent = Off /\ ar_history = Off
          /\ ar_edits = Off
  /\ IF part = "launch" THEN LT!Init
     ELSE lt_now = Off /\ lt_token = Off /\ lt_key = Off /\ lt_call = Off
          /\ lt_opened = Off

PartsNext ==
  /\ UNCHANGED part
  /\ IF part = "vault" THEN VA!Next
     ELSE UNCHANGED <<va_rows, va_key, va_writes, va_put, va_tool, va_strays,
                      va_dropped, va_unlogged>>
  /\ IF part = "accounts" THEN AC!Next
     ELSE UNCHANGED <<ac_vault, ac_fresh, ac_links, ac_host, ac_run, ac_excused>>
  /\ IF part = "assets" THEN AS!Next
     ELSE UNCHANGED <<as_host, as_zbx, as_edit, as_sync, as_changes>>
  /\ IF part = "zones" THEN ZO!Next
     ELSE UNCHANGED <<zo_zone, zo_move, zo_ask>>
  /\ IF part = "recordings" THEN RE!Next
     ELSE UNCHANGED <<re_row, re_bucket, re_tier, re_writes, re_last, re_strays>>
  /\ IF part = "logs" THEN LS!Next
     ELSE UNCHANGED <<ls_config, ls_file, ls_partial, ls_saved, ls_tick,
                      ls_shipped, ls_passed, ls_used>>
  /\ IF part = "playbooks" THEN PJ!Next
     ELSE UNCHANGED <<pj_row, pj_cancel, pj_stored, pj_task, pj_out, pj_result,
                      pj_process, pj_bridge, pj_ended, pj_lost, pj_stream>>
  /\ IF part = "idle" THEN IP!Next
     ELSE UNCHANGED <<ip_row, ip_conn, ip_pool, ip_timer, ip_active, ip_ws>>
  /\ IF part = "alerts" THEN AR!Next
     ELSE UNCHANGED <<ar_rule, ar_eval, ar_sent, ar_history, ar_edits>>
  /\ IF part = "launch" THEN LT!Next
     ELSE UNCHANGED <<lt_now, lt_token, lt_key, lt_call, lt_opened>>

PartsSpec ==
  PartsInit /\ [][PartsNext]_<<part, VA!vars, AC!vars, AS!vars, ZO!vars, RE!vars,
                           LS!vars, PJ!vars, IP!vars, AR!vars, LT!vars>>

\* Callers and machines are interchangeable: no property names one of them.
Interchangeable == Permutations(Caller) \cup Permutations(Machine)

(***************************************************************************)
(* The properties, stated in the modules they are about.                   *)
(***************************************************************************)
\* Secrets.  Re-keying leaves every row readable with the new key, and a
\* rotation keeps the secret it replaces (Vault).  The secret in the vault opens
\* every linked host, but for those the code gives up (Accounts).
SecretsAreKept ==
  /\ part = "vault" => VA!TypeOK /\ VA!RekeyingLosesNothing /\ VA!PriorSecretIsKept
  /\ part = "accounts" => AC!TypeOK /\ AC!VaultOpensHosts

\* Inventory.  A host of Zabbix has one row, however syncs and edits meet
\* (Assets); a chain of gateways passes no zone and no gateway twice, whatever
\* becomes of the zones while it is resolved (Zones).
InventoryAgrees ==
  /\ part = "assets" => AS!TypeOK /\ AS!ZabbixHostHasOneRow
  /\ part = "zones" => ZO!TypeOK /\ ZO!ChainIsPath

\* Data on its way.  Tiering leaves the frames of a recording somewhere
\* (Recordings); what the shipper counts as shipped has arrived (LogShipper).
DataArrives ==
  /\ part = "recordings" => RE!TypeOK /\ RE!TieringKeepsFrames
  /\ part = "logs" => LS!TypeOK /\ LS!OffsetIsShipped

\* The quarantined services.  Who follows a job hears its end (PlaybookJob); an
\* SSH connection has one holder (IdlePool); an evaluation that was committed has
\* the row of every rule it matched (AlertRules); a token opens once (LaunchToken).
QuarantinedHold ==
  /\ part = "playbooks" => PJ!TypeOK /\ PJ!EndIsHeard
  /\ part = "idle" => IP!TypeOK /\ IP!OneHolder
  /\ part = "alerts" => AR!TypeOK /\ AR!CommittedIsComplete
  /\ part = "launch" => LT!TypeOK /\ LT!TokenOpensOnce

=============================================================================
