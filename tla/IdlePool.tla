------------------------------ MODULE IdlePool -------------------------------
(* jumpserver-legacy, playbook-studio: one SSH session whose connection       *)
(* outlives the browser.  A WebSocket opens the connection or takes it out of *)
(* the idle pool, forwards it, and puts it (back) there when its browser      *)
(* leaves; a timer or a user ends it.  Between two awaits nothing intervenes. *)
EXTENDS Naturals, FiniteSets

CONSTANTS
    Ws,        \* WebSockets that are opened for the session, each once
    MaxConns   \* bound: SSH connections of the session

VARIABLES
    row,      \* ssh_sessions.status
    conn,     \* the SSH connections made
    pool,     \* _pool: the connection that is idle, 0 for none
    timer,    \* the connections whose expiry timer runs
    active,   \* _active_connections: the one a user can terminate, or 0
    ws        \* where the handler of each WebSocket is, and its connection

vars == <<row, conn, pool, timer, active, ws>>

Statuses == {"pending", "active", "idle", "closed", "error"}
Conn == 1..MaxConns
Off == [at |-> "off", conn |-> 0, new |-> FALSE]

TypeOK ==
    /\ row \in Statuses
    /\ conn \in [Conn -> {"none", "open", "closed"}]
    /\ pool \in Conn \union {0} /\ active \in Conn \union {0} /\ timer \subseteq Conn
    /\ ws \in [Ws -> [at : {"off", "new", "claim", "connect", "resume", "replay", "forward",
                            "leaving", "closing", "over"},
                      conn : Conn \union {0}, new : BOOLEAN]]

Init ==
    /\ row = "pending" /\ conn = [k \in Conn |-> "none"] /\ pool = 0 /\ timer = {}
    /\ active = 0 /\ ws = [w \in Ws |-> Off]

At(w, at) == ws[w].at = at
Goto(w, at) == ws' = [ws EXCEPT ![w].at = at]
Close(k) == conn' = [conn EXCEPT ![k] = "closed"]

-----------------------------------------------------------------------------
\* Bug: the session is taken out of the pool when it has been replayed.
TakeLate(k) == UNCHANGED <<pool, timer>>

\* cancel_expiry, remove_idle.
Take(k) == pool' = 0 /\ timer' = timer \ {k}

\* ssh_terminal: the session is idle, and this WebSocket resumes it.
Resume(w) ==
    /\ At(w, "off") /\ pool # 0
    /\ ws' = [ws EXCEPT ![w] = [at |-> "resume", conn |-> pool, new |-> FALSE]]
    /\ Take(pool)
    /\ UNCHANGED <<row, conn, active>>

MarkResumed(w) ==
    /\ At(w, "resume") /\ row' = "active" /\ Goto(w, "replay")
    /\ UNCHANGED <<conn, pool, timer, active>>

\* The frames are sent again; the handler ends with an error when the browser
\* has left meanwhile.
Replay(w) ==
    /\ At(w, "replay")
    /\ Goto(w, "forward") \/ Goto(w, "over")
    /\ UNCHANGED <<row, conn, pool, timer, active>>

\* A session that is not idle is opened if its row, read here, is pending ...
Enter(w) ==
    /\ At(w, "off") /\ pool = 0
    /\ ws' = [ws EXCEPT ![w] = [@ EXCEPT !.at = "new", !.new = TRUE]]
    /\ UNCHANGED <<row, conn, pool, timer, active>>

ReadRow(w) ==
    /\ At(w, "new")
    /\ Goto(w, IF row = "pending" THEN "claim" ELSE "over")
    /\ UNCHANGED <<row, conn, pool, timer, active>>

\* ... and marked active here.
Claim(w) ==
    /\ At(w, "claim") /\ row' = "active" /\ Goto(w, "connect")
    /\ UNCHANGED <<conn, pool, timer, active>>

Connect(w) ==
    /\ At(w, "connect")
    /\ \E k \in Conn :
        /\ conn[k] = "none" /\ \A j \in 1..(k - 1) : conn[j] # "none"
        /\ conn' = [conn EXCEPT ![k] = "open"]
        /\ active' = k
        /\ ws' = [ws EXCEPT ![w] = [@ EXCEPT !.at = "forward", !.conn = k]]
    /\ UNCHANGED <<row, pool, timer>>

ConnectFails(w) ==
    /\ At(w, "connect") /\ row' = "error" /\ active' = 0 /\ Goto(w, "over")
    /\ UNCHANGED <<conn, pool, timer>>

-----------------------------------------------------------------------------
\* schedule_expiry, add_idle.
PutAside(k) == pool' = k /\ timer' = timer \union {k}

\* _forward: the browser leaves, the connection goes to the pool ...
BrowserLeaves(w) ==
    /\ At(w, "forward")
    /\ PutAside(ws[w].conn)
    /\ active' = 0
    /\ Goto(w, "leaving")
    /\ UNCHANGED <<row, conn>>

\* ... and then the row says so.
MarkIdle(w) ==
    /\ At(w, "leaving")
    /\ row' = "idle" /\ Goto(w, "over")
    /\ active' = IF ws[w].new THEN 0 ELSE active
    /\ UNCHANGED <<conn, pool, timer>>

\* The shell has ended, or was closed by someone.
ShellEnds(w) ==
    /\ At(w, "forward")
    /\ Close(ws[w].conn) /\ active' = 0 /\ Goto(w, "closing")
    /\ UNCHANGED <<row, pool, timer>>

MarkClosed(w) ==
    /\ At(w, "closing")
    /\ row' = "closed" /\ Goto(w, "over")
    /\ active' = IF ws[w].new THEN 0 ELSE active
    /\ UNCHANGED <<conn, pool, timer>>

\* expire_session takes what is in the pool and closes it; close() cancels the
\* timer of what it closes, which is the task that would go on to write the row.
Expire(k) ==
    /\ k \in timer
    /\ IF pool = 0
       THEN timer' = timer \ {k} /\ UNCHANGED <<row, conn, pool>>
       ELSE /\ Close(pool) /\ pool' = 0 /\ timer' = timer \ {k, pool}
            /\ row' = IF pool # k /\ row = "idle" THEN "closed" ELSE row
    /\ UNCHANGED <<active, ws>>

\* terminate_session of the handlers' module closes the connection, idle or in use.
Disconnect ==
    IF pool # 0
    THEN Close(pool) /\ Take(pool)
    ELSE /\ IF active # 0 THEN Close(active) ELSE UNCHANGED conn
         /\ UNCHANGED <<pool, timer>>

Terminate ==
    /\ row # "pending"
    /\ Disconnect
    /\ row' = IF row = "active" THEN "closed" ELSE row
    /\ UNCHANGED <<active, ws>>

Next ==
    \/ \E w \in Ws :
        \/ Resume(w) \/ MarkResumed(w) \/ Replay(w)
        \/ Enter(w) \/ ReadRow(w) \/ Claim(w) \/ Connect(w) \/ ConnectFails(w)
        \/ BrowserLeaves(w) \/ MarkIdle(w) \/ ShellEnds(w) \/ MarkClosed(w)
    \/ \E k \in Conn : Expire(k)
    \/ Terminate

Spec == Init /\ [][Next]_vars

-----------------------------------------------------------------------------
Holders(k) == {w \in Ws : ws[w].at \in {"resume", "replay", "forward"} /\ ws[w].conn = k}

\* ssh_terminal.py:57-60: a connection has one handler, or is in the pool, or
\* has been given up: no two browsers type into it, and no timer runs against
\* one that was resumed.
OneHolder ==
    \A k \in Conn :
        /\ Cardinality(Holders(k)) <= 1
        /\ Holders(k) # {} => pool # k /\ k \notin timer

\* ssh_terminal.py:101, a WebSocket that is not the first is told that the
\* session is active: one SSH connection for a session.
OneConnection == Cardinality({k \in Conn : conn[k] # "none"}) <= 1

\* ssh_pool.py:166, "close SSH + update DB": no session is idle for which no
\* connection waits.
IdleIsWaiting ==
    row = "idle" => pool # 0 \/ \E w \in Ws : ws[w].at \in {"resume", "leaving"}

\* ssh_terminal.py:22, "for forced kill": a session that was terminated has no
\* connection open.
TerminatedIsClosed == [][Terminate => \A k \in Conn : conn'[k] # "open"]_vars

\* An open connection is forwarded, in the pool, or being moved.
OpenIsHeld == \A k \in Conn : conn[k] = "open" => Holders(k) # {} \/ pool = k
=============================================================================
