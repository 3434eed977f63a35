# A verification development of SeyalRun

SeyalRun is a privileged-access and automation platform: Python (FastAPI,
asyncio) services behind an API gateway, one database (Postgres or MySQL) and
Redis.  This directory holds TLA+ models of the parts whose correctness depends
on interleavings, failures and order; TLC configurations that check them on
small instances; and proofs, checked by TLAPS, of what matters most for
instances of any size.

    tlc -workers 2 -config MCJobRun.cfg MCJobRun.tla      # one run
    tlapm JobRunProofs.tla                                # one module's proofs

`PROJECT.json` lists the runs, the source lines each definition stands for, the
mutations that break each property, and the hazards the properties are for.

## 1. The system

All services are asyncio processes: code runs without interruption from one
`await` to the next, and every database, Redis or HTTP call is an `await`.  No
service takes row locks; a handler reads a row, checks it, awaits, and writes.
SQLAlchemy emits an UPDATE for the columns whose value differs from the one
loaded, with the primary key as its only condition.  Nearly every hazard below
comes from these three facts.

| Component | State it keeps | Operations | Interacts with | Hard behaviours | What makes it correct |
|---|---|---|---|---|---|
| automation: job runs (`api/job_templates.py`, `api/job_runs.py`, `api/internal.py`, `scheduler.py`, `runner.py`, `plugins/executors/chain.py`) | `za_job_templates`, `za_job_runs`; asyncio tasks | run, tick, webhook call, re-run, chain step; approve, reject, cancel; execute with retries; edit and delete templates | inventory (production tag), Redis (log lines), zabbix service, executors | check-then-commit races, cancel against retry, tasks lost with the process, runs refused after their commit | production and held runs wait for an approval; a finished run stays so; a live run has somebody at work on it; a step of a chain is earned |
| automation: stalled-run alerts (`scheduler.py`, `runner.py`, `api/notifications.py`) | markers in `params`, `za_notifications` | find, notify, mark; read, clear | job runs | a limit of 50 rows before the filter; markers committed after the notifications; params written back | every stalled run is told of |
| automation: housekeeping (`housekeeping.py`) | `za_housekeeping_jobs` | tick, manual trigger, edit | rotation schedule, recording | a flag reset after long work; a call that outlives its timeout | a trigger is served; a due rotation is tried |
| automation: executors (`plugins/executors/*`, `_ssh_exec.py`) | processes here, scripts and accounts there | run a playbook, a script, a state; push, disable, remove an account | inventory, SSH | cancellation at any await; partial results; retries | nothing outlives its attempt; success means everywhere |
| automation and inventory: secret rotation (`rotate_secret.py`, `api/rotation.py`) | the vault, the hosts, due dates | dispatch, change hosts, store | vault, SSH | some hosts changed, others not; two runs on one account | the vault opens every host |
| identity: audit log (`audit.py`, `libs/audithash`) | `za_audit_logs`, a database lock, the pool | append, verify; forwarders of three services | everything | two writers on one predecessor, lock timeouts, lock owner against pool, lost answers | the chain verifies; nothing critical happens unrecorded |
| identity: login and sessions (`api/auth.py`, `sessions.py`, `_lockout.py`) | Redis session blobs, pointers and codes; `za_login_attempts` | log in, second factor, enrol, change password, log out, lock out | gateway, mail | blob, pointer, code and counter read and written in separate calls; a mint per step | gates are not walked around; a code opens what it was mailed for; guessing is locked out |
| identity: authorizations (`api/authorizations.py`, `api/internal.py`) | `za_authorizations`, mail tokens | request, approve or reject (UI, mail), edit, expire, review; resolve | terminal, inventory (groups), mailer | an edit between the page, the read and the commit of an approval; rules that change, and inventory that fails, between two queries | four eyes on what is granted; access only by a rule in force |
| identity: users, groups, roles (`api/users.py`) | accounts, roles, groups | CRUD, synchronise, deprovision, delegated login | Zabbix, terminal | two handlers that each count the superadmins, in three queries or in a snapshot | one superadmin remains; nobody makes himself one |
| terminal: SSH sessions (`api/sessions.py`, `ws/terminal.py`, `main.py`, `sftp_registry.py`) | `za_ssh_sessions`; three in-process registries | create, kiosk reconnect, connect, serve, tear down; terminate, deprovision, reap | identity, recording, SFTP, supervision | two sockets of one session, terminate while connecting, a late flush of a status held in memory, restarts | what is published is open; active rows have handlers; an ended session stays ended |
| terminal: supervision (`ws/spectate.py`, `supervision.py`), command filters | the published control record, the spectators; the pending confirm | join, take over, type, release, terminate; deny, confirm | SSH sessions, audit log | shell replaced or closed meanwhile, socket dropped during an audit call; the reader waits for a frame only it can read | nobody types unannounced; no session stays seized |
| terminal: SFTP (`api/sftp.py`) | files on the host | list, transfer, make, remove, rename | SSH sessions, authorizations, audit log | links that are not followed, or laid between resolving and opening; the entry fails | a transfer is recorded and stays under the root |
| recording-service | `za_recordings`, S3 objects | write, tier, purge, play, verify | terminal, housekeeping | rows read before awaited uploads, one commit at the end | frames are somewhere |
| inventory: credentials and vault, `ops/rotate_vault_key.py` | encrypted secrets, archive, templates | CRUD, rotate, reveal; re-key | automation, terminal, audit log | the tool re-wraps rows it read before | every secret stays readable |
| inventory: hosts and zones | hosts, groups, zones, gateways | CRUD, synchronise, chain of gateways | Zabbix, identity, terminal | edits and re-linkings during a synchronisation; zones that move while a chain is resolved | one row per host of Zabbix; a chain ends |
| inventory: log shipper | offsets per target | tick | Elasticsearch, S3 | a target fails; the file is rotated | what counts as shipped has arrived |
| zabbix-integration | bindings, marks in Redis | webhook, execute, manual; post back | automation, inventory | re-sent, replayed and doubled calls; tasks lost with the process | a signed body runs once |
| api-gateway | caches of roles and permission documents | authenticate, authorise, log out | identity, Redis | late answers, fallbacks, stale copies | what was withdrawn stops working |
| quarantined JumpServer services (`src/modules/jumpserver-legacy`) | jobs, idle connections, alert history, launch tokens | run, stream, cancel; pool; alert; open | Redis, SSH | subscribe against publish, a flush that fails; three ways to take one connection | the end is heard; one holder |
| metrics, mcp-server, frontend, edge-proxy, ops scripts, schema | none the services depend on | | | | |

## 2. Modules

| Module | What it is |
|---|---|
| `JobRun`, `ExecutionGate` | job runs, from every way of asking for one to the end of its task; what approval promises, with no tables or handlers |
| `JobRunProofs` | `TypeOK`, `ProductionWaits`, that `JobRun` implements `ExecutionGate`; who is at work on a live run, why two overlap, that the end is the end |
| `AuditChain`, `AuditChainProofs` | `log_action`, statement by statement, on Postgres and MySQL, with the pool, the forwarders and tampering |
| `TerminalSession`, `TerminalSessionProofs` | session rows, WebSocket handlers, the three registries and all that ends a session |
| `Supervision`, `SupervisionProofs` | control of one session: operator, confirm dialogue, supervisors |
| `Authorization`, `AuthorizationProofs` | one grant: request, edit, decision, review, expiry, deletion |
| `Access` | the resolvers over rules and host groups, and the two requests of terminal-service that ask them |
| `UserSession` | the sessions of a user in Redis, minted by six handlers of identity-service, used and deleted by the gateway |
| `Codes`, `Lockout` | the mailed codes; the counter of failed logins |
| `RoleAdmin` | who is superadmin, and every handler that may change it |
| `LiveRoles` | how the gateway knows the roles of a caller and what they permit |
| `Vault`, `Accounts` | one credential in the vault beside the re-keying tool; the accounts it opens on its hosts |
| `Assets`, `Zones` | hosts and their twins in Zabbix; zones and the chain of gateways |
| `Recordings`, `LogShipper` | a recording from its write to its purge; the offsets of the shipper |
| `Sftp` | file operations over a session, whose names may be links, beside others that change the files |
| `HostTasks`, `Chain` | the attempts of bash, ansible and salt; the loop of a chain over its steps |
| `Webhook` | a Zabbix problem, from its delivery to the result posted back |
| `Housekeeping`, `Alerts` | the job table and the rotation sweep; the search for stalled runs |
| `PlaybookJob`, `IdlePool`, `AlertRules`, `LaunchToken` | the quarantined services |
| `IdentityProofs`, `RemoteWorkProofs`, `HoldingsProofs` | proofs about `Access`, `UserSession`, `RoleAdmin` and `Codes`; about `Sftp`, `HostTasks`, `Chain` and `Webhook`; about `Vault`, `Accounts`, `Assets`, `Zones`, `Recordings`, `LogShipper` and the quarantined services: each as `MCIdentity`, `MCRemoteWork` and `MCHoldings` put them side by side |
| `MC*` | the instances and symmetry sets for TLC (`Supervision` and `Authorization` need no module for theirs) |

Modules that share state are one module (`JobRun` with the scheduler, `TerminalSession` with
its registries, `Access` with the requests that ask it).  Of the others
`MCIdentity`, `MCHoldings`, `MCRemoteWork` and `MCEventually` each instantiate several and
look at one at a time: the variable `part` says which, and is never changed.  A
behaviour of such a run is a behaviour of one module; it is a sum, not a composition, and
costs the sum of the state spaces.  The sets and bounds with which `MCIdentity`,
`MCRemoteWork` and `MCHoldings` instantiate their modules are constants of their own, given
values in the cfg, so that what is proved of the three is proved for any of them; only the
roles' names (`"super"`) and the ways an account changes are fixed.

### JobRun

`row` is `za_job_runs`, `tmpl` the templates together with the production tag of
the hosts they target (inventory), `due` the schedules whose time has come.  A
handler in `hd` is one request, one schedule of one tick or one step of a chain.
Its first half (`RunTemplate`, `ScheduleTick`, `CreateRunInternal`, `Rerun`,
`ChainCheck`, `ReadForApproval`, `ReadForRejection`, `ReadForCancel`) makes the
checks of the code and keeps in `hd` what it read; its second half (`Insert`,
`CommitApproval`, `CommitDecision`) commits what the first half decided, whatever the row
has become.  A commit that dispatches makes the handler the asyncio task of
`runner.execute`: `Refuse`, `Start`, then attempts that end in `Retry` or
`LastAttempt`, then `Finish`.  The environment edits and deletes templates (rows
go with them: `ON DELETE CASCADE` of migration 001, for which reason
housekeeping's `_job_orphan_logs` finds nothing), tags hosts, lets a cron fire,
fails a database or Redis call inside a handler or task (`Fail`), cancels a step of
a chain with the chain's own timeout (`CancelStep`), and kills the process
(`Crash`).  `GateAnswers` lets inventory-service answer or not: no answer counts as
production.  `hist` is a history no action reads.

Abstracted: parameters, log lines, notifications, what an executor does, and the
loop of a chain over its steps (each step is a handler of its own; the chain's
row is a run of another template).

### AuditChain

`log` is a set of rows with `seq`, `prev` and `hash`; a hash is the tuple hashed. A writer goes
from `idle` (or `posted`, when forwarded) to `asking` (for the lock), `inside`, `hashed` (last
row read), `unlocking` and `done`, each a statement on the connection its session took from
`pool`.  On Postgres the lock is released with the transaction; on MySQL it belongs to the
connection, `GET_LOCK` may time out with its result ignored, the transaction reads from the
snapshot its first read made, and `RELEASE_LOCK` runs after the commit on whatever connection
the pool hands out.  `op` is the service that forwarded the entry: it proceeds, or is refused
(`AuditWriteError`) after its 3 s.  `Alter` and `Remove` are somebody with the database itself:
`Alter` changes the payload of a row and leaves its hash.  A chain whose hashes were computed
anew from there on (they have no key) verifies, and is not modelled.

### TerminalSession

`row` holds statuses.  A handler in `ws` goes through `connecting`, `published` (in `sftp` and
`control`), `activated`, `serving` (now in `events` too), `closing`, `storing`; it carries
`sess.status` in memory and writes it when it differs from the one it loaded.  `stuck` is the
handler whose commit raised before its `try` block, so that no `finally` takes it out of the
registries; two more stages are those of a handler that broke off and is gone.  `malformed`: the
columns or rows that the client asked for are no number, which raises after the row was
activated and still before the `try` (`ws/terminal.py:419`, `MalformedSize`).  `unsaved`: the
last commit, in the `finally`, failed (758, `SaveFails`).  Either leaves the row active with
nobody to end it; `Consistent` names them as the only exceptions besides a restart.  What a
supervisor types does not pass the command filters (372-376): that is the code's intention and
no property here.  Requests create sessions, reopen a kiosk session, terminate (set the event,
then write), deprovision (all sessions of a user) and terminate by a supervisor.  `Reap` is the
loop over old pending rows, `Restart` a restart of the process.

### Supervision

One session whose shells may replace each other.  `current` and `controller` are
the published `SessionControl`; a watcher keeps the record it fetched while it awaits.
A takeover sets the controller, then awaits the critical audit entry and the notice to
the operator.  Every step of a watcher may find the shell gone.  A session's own owner
may watch too; he can do nothing else, so watchers are administrators here.
The confirm dialogue is the
reader loop's: while it waits nothing reads the socket.

### Authorization

`row` is one row of `za_authorizations`, `content` everything an edit replaces (users, hosts,
actions, dates).  An administrator looks at a `page` (`ViewPage`), and the button on it sends
the id of the grant and nothing of what the page showed.  A request in `rq` goes from `idle` to
`read` (what it read is in `saw`) to its commit; a create or an edit then goes on from `written`
to `mailing` (the refresh, the audit entry, the mail).  `Save` is the UPDATE of SQLAlchemy: the
columns that differ from `saw`, on whatever the row is by then.  `links` are the unused tokens;
they keep the content their mail showed, and are burnt by `CommitLink` and `Delete` only, as in
the code.  A link has two steps before its commit (`OpenLink`, `FindOthers`), since the tokens
to burn are read after the request was checked.  `Decided` is the assignment shared by the two
console handlers and the link. `TimePasses` is the clock going past `date_expired`; the sweep is
a handler that is used again and again.  `hist` says who wrote the content, what the approver
was shown (`shown`: the page, or the mail of a link), what the approving handler read (`found`),
whether the grant ended since, and whether some commit overtook another (`overtaken`; an edit
that was not overtaken starts afresh).

Abstracted: which administrators have mail and may follow a link (all but the
requester), the lifetime of a link, the audit entries; equal links of two mails count once.

### Access

`rule` is what `za_authorizations` says of one user and one host, `member` the groups of the
host in inventory.  A request to open a session (`Begin`) asks whether the host is listed
(`ListHosts`, which an elevation waives), whether an ACL refuses the login (`CheckAcl`) and
what the rules give (`ReadRules`, then `AskGroups` once for each set of groups), and picks
the credential (`OpenSession`); an SFTP request of an open session asks the resolver again
(`DoSftp`).  `ListHosts` and `AskGroups` may go unanswered.  `Best` and
`Covering` are `_union_best_rank_actions` and the match of a rule.  Rules are switched
and replaced between any two queries.

### UserSession, Codes, Lockout

`store` maps session ids to what the blob says of the gates, `pointer` is the single-session
pointer.  Each call of Redis is a step.  `Gated` is the chain of gates of the gateway for what
`gateway()` forwards (`Routed`); the probe of the navigation (`nav`), the other endpoints the
gateway answers itself and the upgrade to a WebSocket (`own`) ask for the session and not for
its gates, so `MustChangeSticks` and `WorkShowsFactor` speak of what is routed.
`PasswordClaims` is what `_mint_session` decides after a password.  A call in `Codes` reads a
code and then counts a miss or deletes; one in `Lockout` reads the row before the password is
compared, and reads and writes it after a failure.

### RoleAdmin, LiveRoles

`RoleAdmin` holds the database as a set of rows, a handler reads, writes uncommitted rows,
counts and commits; the columns it writes are locked meanwhile.  No isolation level is set
(`dbcore/engine.py`), so `engine` decides what a count sees: on Postgres it is three queries
(`CountHolders`, `CountMembers`, `CountActive`), each of what is committed by then; on MySQL all
three read the snapshot that the transaction's first read made, with its own rows
(`CountSnapshot`).  `LiveRoles` holds what identity knows (`known`, `held`, `allows`) beside
what the gateway has (`cache`, `docs`, `minted`), with the answers under way in `call` and
`fetch`, which may arrive late.

### Vault, Accounts

Keys are numbers, a row its plaintext and what it takes to read it.  The tool reads all rows,
writes and checks them, in the order of the script; `put` are requests of the service.
`Accounts` has a run per executor (`rotate`, `push`, `remove`), that looks its hosts up, goes
through them one by one and, if it rotates, stores the secret last.  Any executor, the rotation
included, may be run from a template on hosts of one's choice (`RunTemplate`), which leaves the
linked hosts that were not chosen on the old secret.  `excused` collects these and the other
hosts the code leaves behind; `VaultOpensHosts` excepts those and no other.

### Assets, Zones, Recordings, LogShipper

A synchronisation reads Zabbix once and commits at its end (`Assets`).  Who creates or updates a
host may type any id of Zabbix that no row has (the column is unique); a row that is linked anew
leaves its old id to the next synchronisation, which inserts a row for it: one row per id, but
not one per machine.  A chain is resolved by one query per zone while zones move (`Zones`);
uploads are awaited between the read of the rows and the commit that empties them
(`Recordings`); a tick of the shipper keeps an offset per target and saves all at its end
(`LogShipper`).

### Sftp, HostTasks, Chain, Webhook

A path of `Sftp` is a directory and a name that may be a link; operations resolve it, confine it
and act, beside others that write, rename and remove files and links.  When `realpath` fails the
name stands for itself (`AsNamed`), so a link may be confined, renamed and opened as what it has
become. `HostChanges` are users of the host, who lay links as well; what opens a file follows
the one it finds.  `loose` notes a transfer whose path was a link that was not followed, or has
become one since.  `HostTasks` has one attempt at a time and all that earlier ones left: tasks
per host, an agent; an attempt that fails on a line of output it cannot read or publish leaves
its playbook to itself (`Desert`, `deserted`).  `Chain` keeps its place in the list, the result
of every step and the run it awaits, while templates are edited and its row and its steps are
cancelled.  A cancel is read (`ReadForCancel`) and written (`CancelChain`, `CancelStep`) apart,
whatever the run has become; `late` notes the steps it reached after their end.  The chain reads
the row of a step back (`ReadBack`) when its task is over.  `Webhook` keeps the three kinds of
marks in Redis (replayed body, duplicate problem, double click) and the runs asked for, in one
of three ways.

### Housekeeping, Alerts

`seen` are the rows the loop read at its start, `current` the job it is at; a
sweep is a request of its own that may outlive its caller.  A tick of `Alerts` keeps the rows
it read, commits notifications one by one and its markers last.

### PlaybookJob, IdlePool, AlertRules, LaunchToken

One job with its task, process and the WebSockets that follow it, of which one that comes late is
told the end by a flush that swallows what goes wrong (`FlushFails`); one session whose
connection is with a socket, in the pool or expiring; the evaluation of one event against
rules that are edited; the signed token and its key of Redis, with a clock.  The path
over automation-bridge ends in an error of Redis (its key has the wrong type), so that the
fallback is what runs; `PlaybookJob` has both.  `evaluate_zabbix_event` and
`evaluate_connectivity_event` are never called and not modelled.

## 3. What is checked

| Run | Instance | Shows |
|---|---|---|
| `JobRun` | 2 runs, 1 template, 3 handlers, 1 retry, 1 edit | `ProductionWaits`; `OverlapExplained`: two live runs of one template have a known cause; `SettledStaysSettled`; `GateSpec` (refinement) |
| `JobRunEnds` | 1 run, 3 handlers, 1 death | `LiveRunsHaveOwners`; `TasksEnd`, `LiveRunsEnd` under fairness |
| `AuditChain` | 3 writers, 2 connections, both engines, 1 fault, 1 tampering | `ChainVerifies`, `EvidenceComplete`, `CriticalIsRecorded` |
| `TerminalSession` | 2 sessions, 2 sockets, 2 requests, 1 fault (a restart, a failed commit or a malformed size) | `PublishedIsOpen`, `TerminatedIsSignalled`, `EndedStaysEnded`; `Consistent`: an active row has a handler that lives, or broke off in one of the two ways above, and the registries list its shell |
| `Supervision` | 2 shells, 3 supervisor sockets, 2 administrators | `InputIsAnnounced`, `ControlIsGivenUp`; `Consistent`: who controls is present, who is subscribed is connected; `DroppedControlIsReleased` under fairness |
| `Authorization` | 3 requests and the sweep, 3 administrators of whom 1 is exempt, 2 contents | `EnabledIsActive`, `AnotherApproved`, `ApprovedAsFound`, `EndedIsOff`; `LapsedIsDisabled` under fairness |
| `Identity` | `Access`: 2 rules, 1 group, 1 edit, 1 fault; `UserSession`: 2 calls; `RoleAdmin`: both engines, 3 persons, 1 group, 2 requests; `Codes`: 2 calls, 3 purposes | `OpenedIsGranted`, `DirectRuleRestricts`, `MustChangeSticks`, `WorkShowsFactor`, `CodeIsForItsPurpose`, `SuperadminsAreGuarded` |
| `Holdings` | 2 of each kind of caller and host, 2 rotated secrets, 2 ids of Zabbix, 3 sockets, 1 fault | `SecretsAreKept`, `InventoryAgrees`, `DataArrives`, `QuarantinedHold` |
| `RemoteWork` | 2 calls, 1 name in each of 3 directories, 1 change on the host; 2 hosts, 3 steps, 2 attempts, 2 edits or cancels; 1 fault | `TransfersAreGuarded`, `RemoteWorkIsGuarded` |
| `Eventually` | 1 user with 2 roles, 1 job and sweep, 1 stalled run, 3 guesses, 1 session with 2 sockets | `WithdrawnAccessDies`, `DueIsServed`, `SessionsEnd`, under fairness |

Type invariants: `TypeOK` of `JobRun` and `Authorization` is a property of its own; those of
`TerminalSession`, `Supervision`, `UserSession`, `Codes` and the modules of `Holdings` and
`RemoteWork` are conjuncts of the invariants below, and that of `Access` of the one that is
proved.  Those of `AuditChain`, `RoleAdmin` and the modules of `Eventually` hold on the same
instances, but no run lists them: give the name to the cfg to see it.

The properties of the four sums are conjunctions of properties stated in the modules:

| Property | Conjuncts (and a mutation that breaks each, `\* Bug` in the module) |
|---|---|
| `SuperadminsAreGuarded` | `SuperadminRemains` (`DeleteGroupUncounted`), `SuperadminIsGiven` (`MayChangeMembersAnyway`) |
| `SecretsAreKept` | `RekeyingLosesNothing` (`RewrappedButArchive`), `PriorSecretIsKept` (`KeptOldest`), `VaultOpensHosts` (`AllSucceededAnyway`) |
| `InventoryAgrees` | `ZabbixHostHasOneRow` (`LinkAsSent`), `ChainIsPath` (`GoesOnToRoot`) |
| `DataArrives` | `TieringKeepsFrames` (`UploadedAnyway`), `OffsetIsShipped` (`AfterFailureOnwards`) |
| `QuarantinedHold` | `EndIsHeard` (`HearersFlushed`), `OneHolder` (`TakeLate`), `CommittedIsComplete` (`TryChannelRaises`), `TokenOpensOnce` (`OpensUnlessUsed`) |
| `TransfersAreGuarded` | `DownloadIsRecorded` (`RecordDownloadAnyway`), `UploadsLandInRoot` (`LandsJoined`) |
| `RemoteWorkIsGuarded` | `PlaybookEndsWithAttempt` (`ReachedAgent`), `StepsAreEarned` (`GoOnAnyway`), `BodyRunsOnce` (`AdmittedUnlessRun`) |
| `WithdrawnAccessDies` | `WithdrawnRoleDies` (`HeardAndMinted`), `WithdrawnDocumentDies` (`DocsMerge`) |
| `DueIsServed` | `TriggerIsServed` (`DueByClock`), `DueRotationIsTried` (`DueByTrigger`), `StallIsTold` (`TickFailsMarked`), `GuessingIsLocked` (`ShouldResetUnlocked`) |
| `SessionsEnd` | `SignalledEnds` (`ConcludeClosedOnly`), `PendingEnds` (`ReapUntouched`) |

**Bounds.**  The races are between the halves of two handlers, with a third that disturbs them
(a cancel between two approvals, an edit between check and commit, a task that still runs);
three handlers, two rows and one retry have all of them, and one fault suffices since nothing is
remembered of one but what it lost.  `JobRun` has `MaxFaults = 0` and leaves deaths to
`JobRunEnds`, which has no edits in turn: that a template deleted under a live run takes the run
with it is seen in `JobRun` only, whose properties are not about progress.  The theorems cover
every value.  Three writers on two connections make one wait for a connection while one holds
the lock and another waits for it.  Two sessions show that registries do not mix them up, two
sockets may share a session.  Three requests are an author's and two that decide or disturb; two
contents tell what was shown from what is in force.

In `Identity` one rule may name the host and the other its group, and one edit or one
lost answer falls between the queries of a request.  Two requests to `RoleAdmin` are the least that
race; three persons are a superadmin, one who gains and one who loses, and the four
initial databases hold the role directly, by a group, by neither and from Zabbix.
`Holdings` lets a secret be written three times (an old one, one the tool meets, one that
is archived) and two runs share two hosts; two lines and batches of one
make a target fall behind; three sockets are a holder, its replacement and one that came late.
Two rotations may follow or overtake each other.
`RemoteWork` has three steps, so that one is neither first nor last, and two attempts; one change on
the host is the link that comes between resolving and opening.
`Eventually` has as many guesses as it takes to overtake a count and one more.  Symmetry is
used in runs without liveness only.

**Fairness.**  Weak fairness, always of a continuation that the event loop owes: a commit that
was awaited, a task in its loop (`wait_for` bounds an attempt; the HTTP clients have timeouts),
a handler whose peer is gone or that was signalled (a write that waits for its peer to drain is
taken to return), the reaper that runs every minute, the sweep that housekeeping calls on its
schedule, the refresh loop of the gateway and the expiry of its cache, the ticks of scheduler
and housekeeping.  No user, cron, edit or fault has to happen; `WithdrawnRoleDies` supposes that
identity-service answers from some time on, and the withdrawal is for good.

**Stopping.**  Requests, sockets and writers are used once, so every instance
comes to rest: `CHECK_DEADLOCK FALSE`.  That no component stops early is
what the liveness properties say.

### Disagreements met

Two runs are expected to fail: each checks a sentence of the repository that the code does not
keep.  `OutageNarrows` (`tests/test_host_group_authorization.py`: an inventory outage must
narrow access; `api/sftp.py` takes an empty list of actions for no restriction) and
`ConfirmHonoured` (the protocol of `ws/terminal.py`: the client answers `confirm_required`; the
answer is in the buffer of the loop that waits for it).

The others are stated in their modules as properties which do not hold, and listed with their
quotations under "findings" of `PROJECT.json`; TLC shows each when it is given a name in the MC
module (`X == part = "sessions" => US!OneSession`) and that name to the cfg (of the modules that are
checked directly, the property itself).

| Where | Properties that do not hold |
|---|---|
| `JobRun`, `Chain` | `GuardedRunsAlone`; `ProductionIsRefused`, `StepsEndWithChain`, `CancelledStartsNothing` |
| `AuditChain`, `TerminalSession`, `Authorization` | `ChainNeverForks` (MySQL); `TerminateReachesShell`; `ChangesAreSeen` |
| `Access` | `OutageNarrows`, `SftpIsGranted`, `PeersAddUp` |
| `UserSession`, `Codes`, `Lockout` | `PendingOnlyVerifies`, `OneSession`, `GateCanBeLifted`, `LookupRevivesNothing`; `CodeServesOnce`, `LatestCodeOpens`; `LockedAtThreshold` |
| `RoleAdmin`, `LiveRoles` | `LastSuperadmin`, `SuperadminIsTaken`; `EmptyIsDenied`, `DeletedUserIsDenied` |
| `Vault`, `Accounts` | `CompleteIsChecked`, `ReadsAreRecorded`; `OnlyWhenAllSucceeded` |
| `Assets`, `Zones` | `EveryHostHasGroup`, `RemovedHostGoes`; `NoZoneCycle` |
| `Recordings`, `LogShipper` | `TieredIsPlayed`, `PurgedIsGone`, `IntactVerifies`; `LinesAreShipped` |
| `Sftp`, `HostTasks`, `Webhook` | `UploadIsRecorded`, `TransfersStayBelow`; `NothingOutlivesAttempt`, `AgentEndsWithAttempt`, `DryRunChangesNothing`, `SuccessIsEverywhere`, `GatewayIsKept`; `ProblemIsMarkedOnce`, `RunsOnAffectedHost`, `PostedIsComplete` |
| `Housekeeping`, `Alerts` | `RotatedOnce`; `ToldOnce`, `StuckIsLong`, `MarkedIsTold`, `ReasonIsKept`, `OwnNoticesOnly` |
| quarantined services | `AllIsSeen`, `LinesOnce`, `CancelledStays`, `EndedStays`, `JobEnds`, `OverIsStopped`; `OneConnection`, `IdleIsWaiting`, `OpenIsHeld`, `TerminatedIsClosed`; `DeliveredIsRecorded`, `SlowIsTold`; `KeysLapse` |

`EnabledIsActive`, `AnotherApproved`, `ApprovedAsFound` and `EndedIsOff` say "unless overtaken":
a commit between the read and the commit of a decision can leave a rejected grant enabled (the
rejection finds `enabled` false as read and does not write it) and an edited one in force.
`LapsedIsDisabled` has no such condition: the sweep looks at the flag alone, and finds even
those.  `ApprovedAsFound` is about what the approving handler read.  That its approver was shown
the same is `ChangesAreSeen`, and does not hold even if nobody is overtaken: an edit between the
page and the press of its button is approved unseen (`authorizations.py:401`: no grant is
widened "with no second reviewer ever seeing the real change").  `PendingOnlyVerifies` is the
sentence of `main.py:522` (a session with its factor pending "may ONLY verify its code, resend
an email OTP, or probe nav"): WebSockets and the gateway's own endpoints answer it too.
`SuperadminRemains` excepts a handler that miscounted, because another committed after the reads
of its count on Postgres, or after its first read on MySQL; `SuperadminIsGiven` one past whose
read another committed.  With more stalled rows than one tick reads (`Limit = 1` with two runs),
`StallIsTold` does not hold either (`scheduler.py:56` reads 50).

Others were met and have no property:

* the retry loop of `runner.py` never reads the row, so a cancelled run whose attempt fails is
  attempted again (`runner.py:126`: a user Cancel is never retried); `Retry` does it in `JobRun`;
* a re-run never asks the production gate (`_production_gate.py:4`: production is always gated
  regardless of trigger mechanism), which is why `ProductionWaits` excepts it;
* a spectator is subscribed to the output before its join is recorded
  (`tests/test_session_supervision.py` says the entry comes first);
* the session minted after the second factor loses the kiosk host; an access token carries the
  primary role only; deprovisioning leaves the sessions of Redis, and delegated logins do not look
  at `is_active`;
* an accepted Zabbix event is lost when its dispatch fails, and its duplicate mark stays.

The known risks
that `docs/ARCHITECTURE.md` section 9 lists itself are not repeated.

## 4. What is proved

For any number of runs, templates, handlers, writers, connections, sessions, sockets,
supervisors, accounts, groups, requests, retries, edits and faults; from the named assumptions
on the constants (`ConstantsAssumption`, `ChainAssumption`, `SessionAssumption`,
`SupervisionAssumption`, `AuthorizationAssumption`, `AccessAssumption`, `IdentityAssumption`,
`RemoteWorkAssumption`, `HoldingsAssumption`: bounds are natural numbers, what stands for
"nobody" is nobody, the sets the initial states pick from are not empty, there are finitely many
gateways, the vault keeps a prior secret at least) and nothing else.  Every safety property that
a passing run checks, the invariants, the action properties and the refinement, is a theorem.
The invariants that prove them were checked by TLC first; those of `HoldingsProofs` on the
instance of the run.

**JobRun.**

* `JobRunProofs!TypeCorrect`, `ProductionSafe`.  `ProductionWaits` alone is not
  inductive: that an executing run was approved follows from what its handler
  passed on at each await.  The invariant `IInv` adds: a handler between check and
  commit has a fresh run that nobody else has, held if its targets are production
  (`Reserved`); a handler past its commit is at work on an inserted run
  (`Attached`); a task's run was approved or never held (`TasksCleared`); a
  production run that was inserted is held or approved (`ProductionHeld`); and two
  parts about templates and results (`RowsHaveTemplates`, `ResultsKnown`).
* `JobRunProofs!GateRefinement`: `Spec => GateSpec`.  With `IInv`, an insert
  is `Hold` or `Admit`, an approval `Approve` (the second of two approvals a
  stutter), a start `Act`, the end of an attempt or of the process `Stop`, and everything
  else, rejection and cancellation included, a stutter.
* `JobRunProofs!LiveRunsOwned`, `FinishedStays`, `OverlapsExplained`.  They look at the
  rows and at the handlers, so every step is first reduced to one of a few shapes
  (`WritesRow`, `LeavesRows` and others: whose row is written, what the handler does next,
  and what the others do not do).  Overlaps need one more part, `Clear`: a handler that found no
  live run of its template still finds none, but for those that did not ask, were revived, or
  were inserted since and noted in the history of its own run.

**AuditChain.**

* `ChainSafe`, `CriticalSafe`.  The invariant says
  who may hold the lock: an idle connection never, on Postgres (`Pooled`, `LockHeld`);
  then that the chain is linked, and that the row a writer inside the lock has read is
  still the last (`ChainInv`); and that a writer past its commit has its row in the log, so
  an answer that says so is true (`Recorded`).
* `EvidenceSafe`: what a verifying log still has to contain after tampering.  It would seem to
  need an induction along the chain, which the provers have not; instead `EvidenceInv` speaks
  of every subset of the log that verifies, not only of the log.  A removal then only takes
  subsets away, an alteration breaks the hash of its row (`HashesDiffer`, `PayloadKeeps`), and
  a commit is what has to be shown (`CommitKeeps`): a verifying set with the new row is, without
  it, a verifying set with the row before (`WithoutLast`).

**TerminalSession** (`RowsAgree`, `RegistriesHoldOpenShells`, `TerminatedIsTold`, `EndIsFinal`).
The invariant says of each socket what its coroutine knows of the row at its stage (`Staged`,
the handlers that broke off included: what their row says stays theirs), that one which found
the row active was not the first, and that one whose row somebody changed has a request to show
for it (`Listed`), that the event registry has the handler of a lone socket (`Heard`), and that
a handler whose row was terminated has been signalled, is about to be or was missed
(`ToldOfEnd`, with `Aimed`: a request writes what it signals).

**Supervision** (`NotedAreThere`, `InputAnnounced`, `ControlGivenUp`).  Whoever controls has a
socket past its join (`ControllerIn`); until the operator is told, the takeover that will tell
is under way on the published record (`ToldOrTaking`); the record is that of an open shell, and
without one there is no control (`RecordIsOpen`).

**Authorization** (`FourEyes`, `ContentApproved`, `EndedGivesNothing`, `FlagIsStatus`,
`TypeCorrect`).  None is inductive: an approval's commit checks nothing, so what it decides on
must be known from its read.  `Judged` says that a request about to decide read a pending grant
that its actor did not ask for; if it was not overtaken, that is the row it writes
(`SaveExact`).  `ContentApproved` is about what that request read; no page enters it.
`AuthorIsRequester` and `PendingIsOpen` tie the row to its history.

**Access** (`IdentityProofs`, over `PartsSpec`: `SessionsAreGranted`, `DirectRulesRestrict`).  A
session opens on the answers to queries made at different times, so neither is inductive:
`Sound` says of every request that the groups inventory said the host is in are among those it
was in when it was asked (`AnswersAreTrue`: an outage only leaves answers out), and that a
session opened by the rules has its credential from the snapshot the request read.  The step
that matters is `OpenKeeps`; it rests on three lemmas about the operators: `BestCovers` (a rule
at the best rank covers the host), `BestIsDirect` (with a rule that names the host, all of them
do) and `OnePermits` (what they permit together, one permits alone).

**UserSession, Codes, RoleAdmin** (`IdentityProofs`, over `PartsSpec`).

* `OwedChangesGate`, `FactorIsShown`. `SessionsInv` says of every blob, in the store or read by
  a request under way, that it opens to work only if the factor was shown or not required
  (`Honest`), and holds its user at the password as long as the account does (`Held`); and of a
  request the gateway has routed that the gates of its blob let it through (`Fit`). Enrolling a
  factor does not enter the first theorem, and sockets and the gateway's own endpoints neither.
  `Held` ties copies to the account they were made from: it survives since the flag is set only
  when an account is created (`api/users.py:797`, `seed.py:45`), and is cleared before the blob
  is minted.
* `CodesOpenTheirOwn`.  `CodesInv` says of each slot, and of each code a request has read, that
  it was issued for the purpose it is filed under (`IssuedFor`).
* `SuperadminsGuarded`, an action property. The guards of a handler speak of the database it
  read, its commit writes to another one. `Guarded` carries them over: as long as nobody
  committed since it read, what it would leave has no superadmin that is none already, unless
  its caller is one; as long as nobody committed since the reads its count rests on, whom it has
  found so far would be left with the role, and once it has counted one is left; on MySQL what
  its snapshot shows is then what it leaves; and what it does not count takes no rows away. For
  each handler a lemma says that its rows make no superadmin (`CreateMakesNone`,
  `AssignMakesNone`, `SwitchMakesNone`, `GroupMakesNone`, `FewerMakesNone`): a new account, for
  instance, has no rights by a group, since rows refer to rows that are there (`Refers`, an
  invariant which the foreign keys of the schema enforce at the commit).

**Sftp, HostTasks, Chain, Webhook** (`RemoteWorkProofs`, over `PartsSpec`).

* `TransfersGuarded`.  `TransfersInv` says of a transfer that has resolved its path that it is within
  the root, for an upload in the root itself, that there is no link unless it counts as loose, and that a
  download on its way has its entry (`Proper`).  Links come by renames and by the host's users, so
  what has to be shown of each step is that whoever holds a path a link comes to is noted
  (`CallLoosened`, `LinkComes`); what is opened then is the path, or the transfer is loose.
* `RemoteWorkGuarded`. For a playbook: an attempt to come has started nothing, and the timeout
  kills what the attempt started, unless it was left to itself (`TasksInv`, `DesertKeeps`). For
  a chain: the steps before the place in the list are over, each let the next one run as the
  chain read it (`Passed`, `Earned`), and the flag `ok` speaks for all of them, which is what a
  success written at the end means (`StepsInv`). A cancel on its way is for a step that was
  begun, so none gets ahead of the chain; one that comes after the step's end changes what the
  row says and is noted. For the webhook: a body has one call that may still start a run or one
  run, never both, and its key in Redis meanwhile (`BodiesInv`).

**Secrets** (`HoldingsProofs!SecretsKept`, over `PartsSpec`).

* Vault.  That re-keying loses nothing depends on what the tool read before it writes.
  `VaultInv` says that until then every envelope is whole (`SoundUntilWritten`); that what the
  tool holds is what is stored, but for the rows written since, and that an archived row is
  never written again (`ToolSees`); from the moment it writes, that the new key opens every row it
  could see (`Readable`).  The prior secret needs `PutFollows`: a rotation no write has
  crossed still holds the row it read, so what it archives is what it replaces.  That the prune
  leaves it is `NewestIsKept`, for any number of rows to keep.
* Accounts.  `VaultOpensHosts` is inductive but for the step that stores the new secret.
  `ToldHas` is what that step needs: a rotation that failed nowhere has its secret on every
  host it has told, so when nothing is left to do, on all it was run for (`CommitsStore`); linked hosts
  it was not run for are excused as the secret is stored.  A host that
  two runs change at once is excused, and for this `ChangesKeep` looks at who else is at work.

**Inventory** (`HoldingsProofs!InventoryConsistent`).

* Assets. A row made for a host of Zabbix, or named for it last, carries its link (`RowLinked`);
  two rows with one link are one (`OneRow`), whatever ids updates and creations bring, since the
  column is unique (`LinkIsFree`); what an open transaction of a synchronisation has inserted is
  nobody else's (`MadeAlone`). The commit of a synchronisation writes many rows at once, and its
  proof (`SyncsCommit`) goes through the row each host ends with (`WrittenRow`).
* Zones.  That a chain passes nothing twice does not depend on the zones, which may move between
  any two queries: the walk keeps the zones it has seen, and stops at one of them.  `PathInv`
  is the property itself with the types.  What it rests on are three lemmas about sequences: a new
  zone put on a path (`Prefixed`), a hop put on a chain if it is not in it (`Chained`), and that a
  set's elements can be listed, each once (`Listed`), for the choice of the order
  in which the gateways of a zone are read.

**Data on its way** (`HoldingsProofs!DataArrived`).

* Recordings.  `FramesKept` says where the last frames of a session are for each value of its row;
  `FramesMoved` of whoever tiers it, the loop or the job, that the frames he read are
  still those, and are uploaded if he says so.  Since either may commit after the other, the row may
  name a place that was written by the other one: that the frames there are the same is what
  `CommitsKeep` needs of both.
* LogShipper.  `SavedThrough`, `OffsetThrough` and `BatchThrough` say of the three offsets, saved,
  of the tick and of the batch being written, that what lies below them has arrived, was passed
  over or is in the batch, and that none lies past the last line written to its end.  They hold
  of a file that was never rotated, which is all the property speaks of.

**The quarantined services** (`HoldingsProofs!QuarantinedSafe`).

* PlaybookJob.  The end is in the row before it is published (`TaskFollows`), and a viewer subscribes
  before it reads the row; so who has read it was told, has the end in the queue, or is one whose flush
  failed (`Hears`, `missed`).
* IdlePool.  `HolderInv`: a held connection was made, waits nowhere and has one holder.
* AlertRules.  Every rule the evaluation matched is still to do, at hand, or has its row
  (`Walks`), and what is counted for the rule at hand is what was sent (`Dispatches`).
* LaunchToken.  A token has one right to open a session; it lies in Redis, with the verification
  that was answered "pending", or in the count of sessions (`LaunchInv`).

**Only model-checked.**  All liveness (`TasksEnd`, `LiveRunsEnd`, `DroppedControlIsReleased`,
`LapsedIsDisabled` and the run `Eventually`): TLAPS has no rules for fairness and `ENABLED`
here.  With it stay the modules that only `Eventually` looks at, `Lockout`, `LiveRoles`,
`Housekeeping` and `Alerts`, whose properties are all of this kind.

## 5. Not modelled

Bytes on the wire, wording, SQL, cryptography (a hash is the tuple it is a hash of, a
ciphertext its plaintext and key), the content of playbooks and scripts, CRUD that touches one
row with no precondition, settings, mail, parameter filters and masking (functions over strings),
metrics and mcp-server (they only read or translate), ZMODEM detection, the path table of RBAC,
rate limits, the frontend, the catalogue of the quarantined services, configuration.  The
reason for each component is in `PROJECT.json`.

## 6. Plan

Done: the core (`JobRun`, `AuditChain`, `TerminalSession`, `Supervision`, `Authorization`), then
every component that keeps state of its own, as listed in section 2; every safety property the
runs check is proved.  Left, in order of weight:

1. Compositions: `Webhook` and `Chain` over `JobRun` instead of the runs they abstract;
   `Access` over `Authorization`.
2. The rest of the gateway (rate limits, settings cache) and of housekeeping's jobs.
