----------------------------- MODULE AuditChain -----------------------------
(***************************************************************************)
(* The tamper-evident audit log: identity-service appends every entry of   *)
(* the platform to one hash chain (log_action), under a lock the database  *)
(* provides; inventory, terminal and automation forward theirs over HTTP,  *)
(* and do not go past a critical entry that they cannot record.            *)
(*                                                                         *)
(* A writer is one call of log_action.  Each of its statements is a step,  *)
(* on a connection of the pool that the session takes at its first         *)
(* statement and gives back when it commits.                               *)
(***************************************************************************)
EXTENDS Naturals, Sequences, FiniteSets

CONSTANTS
  Writers,      \* calls of log_action, each used once
  Payloads,     \* what is recorded: the hashed fields of a row
  Altered,      \* what a row that was altered says
  Connections,  \* the connection pool of identity-service
  Engines,      \* values of DB_ENGINE
  MaxFaults,    \* bound: lost connections and restarts of identity-service
  MaxTampers,   \* bound: rows altered or removed behind the application
  NoConnection

ASSUME ChainAssumption ==
  /\ Engines \subseteq {"postgres", "mysql"}
  /\ IsFiniteSet(Connections)
  /\ NoConnection \notin Connections
  /\ Altered \notin Payloads
  /\ MaxFaults \in Nat /\ MaxTampers \in Nat

VARIABLES
  engine,  \* DB_ENGINE of this deployment; it never changes
  log,     \* za_audit_logs
  lock,    \* the chain lock: the connection that owns it, and how often
  pool,    \* idle connections, in the order they will be taken
  wr,      \* the writers
  op,      \* what the service that forwarded the entry does meanwhile
  faults, tampers,
  hist     \* history, read by the properties only: the row each writer wrote
           \* and the writers whose rows were there before it

vars == <<engine, log, lock, pool, wr, op, faults, tampers, hist>>

-----------------------------------------------------------------------------
(* Rows and hashes *)

Genesis == <<>>

\* SHA-256 over the position, the predecessor's hash and the payload, taken
\* to be free of collisions.
compute_entry_hash(seq, prev, payload) == <<seq, prev, payload>>

Entry(w, seq, prev, payload) ==
  [id |-> w, seq |-> seq, prev |-> prev, payload |-> payload,
   hash |-> compute_entry_hash(seq, prev, payload)]

\* ORDER BY seq DESC LIMIT 1: which of two rows of one seq is not defined.
LastRows(rows) == {e \in rows : \A f \in rows : f.seq <= e.seq}

\* f comes right before e in ORDER BY seq.
Precedes(rows, f, e) ==
  /\ f.seq < e.seq
  /\ ~ \E g \in rows : f.seq < g.seq /\ g.seq < e.seq

\* Bug: the walk compares no row with its predecessor.
VerifyUnlinked(rows) ==
  \A e \in rows : e.hash = compute_entry_hash(e.seq, e.prev, e.payload)

\* audithash.verify_chain: "ok".  Of two rows of one seq the second fails,
\* for its prev_hash is older than the first.
verify_chain(rows) ==
  /\ \A e \in rows : e.hash = compute_entry_hash(e.seq, e.prev, e.payload)
  /\ \A e, f \in rows : e.seq = f.seq => e = f
  /\ \A e \in rows :
       \/ e.prev = Genesis /\ \A f \in rows : e.seq <= f.seq
       \/ \E f \in rows : Precedes(rows, f, e) /\ e.prev = f.hash

-----------------------------------------------------------------------------
(* States *)

InTransaction == {"asking", "inside", "hashed"}

\* A writer outside its transaction.
Left(pc) == [pc |-> pc, conn |-> NoConnection, payload |-> "none",
             early |-> FALSE, view |-> {}, seq |-> 0, prev |-> Genesis]
Free     == [owner |-> NoConnection, depth |-> 0]

\* Every connection is idle; the pool hands them out in some order.
Idle ==
  {s \in [1..Cardinality(Connections) -> Connections] :
     \A i, j \in DOMAIN s : s[i] = s[j] => i = j}

Init ==
  /\ engine \in Engines
  /\ log = {}
  /\ lock = Free
  /\ pool \in Idle
  /\ wr = [w \in Writers |-> Left("idle")]
  /\ op = [w \in Writers |-> [state |-> "none", critical |-> FALSE]]
  /\ faults = 0
  /\ tampers = 0
  /\ hist = [w \in Writers |-> [row |-> {}, before |-> {}]]

-----------------------------------------------------------------------------
(* log_action *)

\* The first statement of w's transaction takes a connection from the pool.
Open(w, p, early) ==
  /\ pool # <<>>
  /\ wr' = [wr EXCEPT ![w] =
       [@ EXCEPT !.pc = "asking", !.conn = Head(pool), !.payload = p,
                 !.early = early, !.view = IF early THEN log ELSE {}]]
  /\ pool' = Tail(pool)

\* A handler of identity-service itself records what it did.  It may have
\* read something in the same transaction before (early).
Local(w, p, early) ==
  /\ wr[w].pc = "idle"
  /\ Open(w, p, early)
  /\ UNCHANGED <<engine, log, lock, op, faults, tampers, hist>>

\* Another service posts an entry to /internal/audit and awaits the answer.
Forward(w, p, critical) ==
  /\ wr[w].pc = "idle"
  /\ wr' = [wr EXCEPT ![w] = [@ EXCEPT !.pc = "posted", !.payload = p]]
  /\ op' = [op EXCEPT ![w] = [state |-> "waiting", critical |-> critical]]
  /\ UNCHANGED <<engine, log, lock, pool, faults, tampers, hist>>

\* write_audit: the request arrives, and begins with the lock.
Arrive(w) ==
  /\ wr[w].pc = "posted"
  /\ Open(w, wr[w].payload, FALSE)
  /\ UNCHANGED <<engine, log, lock, op, faults, tampers, hist>>

\* Bug: the lock is asked for and nobody looks whether it is free.
LockTaken(w) ==
  /\ wr[w].pc = "asking"
  /\ lock' = [owner |-> wr[w].conn, depth |-> 1]
  /\ wr' = [wr EXCEPT ![w].pc = "inside"]
  /\ UNCHANGED <<engine, log, pool, op, faults, tampers, hist>>

\* pg_advisory_xact_lock, or a GET_LOCK that returns 1.  A connection that
\* owns the lock already gets it again.
Lock(w) ==
  /\ wr[w].pc = "asking"
  /\ lock.owner \in {NoConnection, wr[w].conn}
  /\ lock' = [owner |-> wr[w].conn, depth |-> lock.depth + 1]
  /\ wr' = [wr EXCEPT ![w].pc = "inside"]
  /\ UNCHANGED <<engine, log, pool, op, faults, tampers, hist>>

\* GET_LOCK(..., 10) returns 0, which nobody looks at.
LockTimeout(w) ==
  /\ engine = "mysql"
  /\ wr[w].pc = "asking"
  /\ lock.owner \notin {NoConnection, wr[w].conn}
  /\ wr' = [wr EXCEPT ![w].pc = "inside"]
  /\ UNCHANGED <<engine, log, lock, pool, op, faults, tampers, hist>>

\* A plain SELECT sees the committed rows (READ COMMITTED), on MySQL those
\* committed before the first read of the transaction (REPEATABLE READ).
Visible(w) ==
  IF engine = "mysql" /\ wr[w].early THEN wr[w].view ELSE log

\* The row to link to; before the first row, the genesis.
Predecessors(w) ==
  IF Visible(w) = {} THEN {[seq |-> 0, hash |-> Genesis]} ELSE LastRows(Visible(w))

ReadLast(w) ==
  /\ wr[w].pc = "inside"
  /\ \E last \in Predecessors(w) :
       wr' = [wr EXCEPT ![w] = [@ EXCEPT !.pc = "hashed", !.seq = last.seq + 1,
                                         !.prev = last.hash]]
  /\ UNCHANGED <<engine, log, lock, pool, op, faults, tampers, hist>>

AppendRow(w) ==
  LET row == Entry(w, wr[w].seq, wr[w].prev, wr[w].payload)
  IN  /\ log' = log \cup {row}
      /\ hist' = [hist EXCEPT ![w] = [row |-> {row}, before |-> {e.id : e \in log}]]

\* session.commit(): the row is there, the connection goes back to the pool.
\* On Postgres the lock ends with the transaction; on MySQL it stays with the
\* connection until RELEASE_LOCK.
Commit(w) ==
  /\ wr[w].pc = "hashed"
  /\ AppendRow(w)
  /\ pool' = Append(pool, wr[w].conn)
  /\ IF engine = "postgres"
     THEN /\ lock' = Free
          /\ wr' = [wr EXCEPT ![w] = Left("done")]
     ELSE /\ UNCHANGED lock
          /\ wr' = [wr EXCEPT ![w] = Left("unlocking")]
  /\ UNCHANGED <<engine, op, faults, tampers>>

\* RELEASE_LOCK runs on whatever connection the pool hands out now; the
\* request ends, and gives it back.
Unlock(w) ==
  /\ wr[w].pc = "unlocking"
  /\ pool # <<>>
  /\ lock' = IF lock.owner # Head(pool) THEN lock
             ELSE IF lock.depth > 1 THEN [lock EXCEPT !.depth = @ - 1] ELSE Free
  /\ pool' = Append(Tail(pool), Head(pool))
  /\ wr' = [wr EXCEPT ![w] = Left("done")]
  /\ UNCHANGED <<engine, log, op, faults, tampers, hist>>

-----------------------------------------------------------------------------
(* The forwarding service: audit.log_action of inventory, terminal, ...     *)

Answer(w) ==
  /\ op[w].state = "waiting"
  /\ wr[w].pc = "done"
  /\ op' = [op EXCEPT ![w].state = "proceeded"]
  /\ UNCHANGED <<engine, log, lock, pool, wr, faults, tampers, hist>>

\* Bug: a forward that failed is only logged, whatever it was for.
GiveUpSilently(w) ==
  /\ op[w].state = "waiting"
  /\ op' = [op EXCEPT ![w].state = "proceeded"]
  /\ UNCHANGED <<engine, log, lock, pool, wr, faults, tampers, hist>>

\* The post fails or takes more than 3 s, however far the writer is: a
\* critical operation is refused (AuditWriteError), another one goes on.
GiveUp(w) ==
  /\ op[w].state = "waiting"
  /\ op' = [op EXCEPT ![w].state = IF op[w].critical THEN "refused" ELSE "proceeded"]
  /\ UNCHANGED <<engine, log, lock, pool, wr, faults, tampers, hist>>

-----------------------------------------------------------------------------
(* Faults *)

\* The connection of a writer breaks: its transaction and its lock are gone,
\* and the pool will open another one.
LoseConnection(w) ==
  /\ faults < MaxFaults
  /\ wr[w].pc \in InTransaction
  /\ lock' = IF lock.owner = wr[w].conn THEN Free ELSE lock
  /\ pool' = Append(pool, wr[w].conn)
  /\ wr' = [wr EXCEPT ![w] = Left("lost")]
  /\ faults' = faults + 1
  /\ UNCHANGED <<engine, log, op, tampers, hist>>

\* identity-service restarts: every request in it is lost, and the server
\* closes its connections.
Restart ==
  /\ faults < MaxFaults
  /\ wr' = [w \in Writers |->
       IF wr[w].pc \in {"idle", "done"} THEN wr[w] ELSE Left("lost")]
  /\ lock' = Free
  /\ pool' \in Idle
  /\ faults' = faults + 1
  /\ UNCHANGED <<engine, log, op, tampers, hist>>

\* Somebody alters or removes a row behind the application (the triggers of
\* migration 022 refuse it to the service's own role).
Alter(e) ==
  /\ tampers < MaxTampers
  /\ log' = (log \ {e}) \cup {[e EXCEPT !.payload = Altered]}
  /\ tampers' = tampers + 1
  /\ UNCHANGED <<engine, lock, pool, wr, op, faults, hist>>

Remove(e) ==
  /\ tampers < MaxTampers
  /\ log' = log \ {e}
  /\ tampers' = tampers + 1
  /\ UNCHANGED <<engine, lock, pool, wr, op, faults, hist>>

-----------------------------------------------------------------------------
(* The specification *)

Write(w) ==
  \/ Arrive(w) \/ Lock(w) \/ LockTimeout(w) \/ ReadLast(w) \/ Commit(w) \/ Unlock(w)

Client(w) ==
  \/ \E p \in Payloads, early, critical \in BOOLEAN :
       Local(w, p, early) \/ Forward(w, p, critical)
  \/ Answer(w)
  \/ GiveUp(w)

Tamper == \E e \in log : Remove(e) \/ Alter(e)

Next ==
  \/ \E w \in Writers : Write(w) \/ Client(w) \/ LoseConnection(w)
  \/ Restart
  \/ Tamper

Spec == Init /\ [][Next]_vars

-----------------------------------------------------------------------------
(* Properties *)

Stages == {"idle", "posted", "asking", "inside", "hashed", "unlocking",
           "done", "lost"}

TypeOK ==
  /\ engine \in Engines
  /\ \A e \in log : /\ e.id \in Writers /\ e.seq \in Nat \ {0}
                     /\ e.payload \in Payloads \cup {Altered}
  /\ lock.owner \in Connections \cup {NoConnection} /\ lock.depth \in Nat
  /\ \A i \in DOMAIN pool : pool[i] \in Connections
  /\ \A w \in Writers : wr[w].pc \in Stages /\ wr[w].seq \in Nat
  /\ \A w \in Writers : op[w].state \in {"none", "waiting", "proceeded", "refused"}
  /\ faults \in 0..MaxFaults /\ tampers \in 0..MaxTampers

\* On Postgres the chain verifies as long as nobody touches the table,
\* whatever requests overlap, time out or die between the reading of the last
\* row and the insertion of the next.
ChainVerifies == engine = "postgres" /\ tampers = 0 => verify_chain(log)

\* On Postgres a chain that verifies is complete up to its last row: whatever
\* was in the log when a surviving row was written is still there, as it was
\* written.
EvidenceComplete ==
  engine = "postgres" /\ verify_chain(log) =>
    \A e \in log : \A w \in hist[e.id].before : hist[w].row \subseteq log

\* What a service does after a critical log_action (hand out a secret, stream
\* a download, go on with a spectator) it does only if the entry is in the log:
\* a timeout, a lost answer or a restart of identity-service refuses it.
CriticalIsRecorded ==
  \A w \in Writers :
    op[w].state = "proceeded" /\ op[w].critical /\ tampers = 0
      => \E e \in log : e.id = w

\* What audit.py says of the lock: two concurrent writers cannot fork the
\* chain.
ChainNeverForks == \A e, f \in log : e.prev = f.prev => e = f
=============================================================================
