-------------------------- MODULE ConnectionManager --------------------------
(***************************************************************************)
(* The client's connection to RabbitMQ and its automatic reconnection      *)
(* (client/reconnect.go, reconnection enabled).                            *)
(*                                                                         *)
(* Goroutines: one monitorConnection per connection made, reconnectLoops,  *)
(* and the callers of Reconnect (the heartbeat manager) and Close.  All of *)
(* them use cm.mutex, which is held while amqp.Dial runs (`dialing'), but  *)
(* a monitor reads cm.conn twice without it.                               *)
(* Backoff intervals are left out: a sleeping loop wakes up at any time.   *)
(***************************************************************************)
EXTENDS Naturals, FiniteSets

CONSTANTS
  Conns,        \* addresses an amqp.Connection can have
  Nil,
  Configs,      \* the configurations a Conn may have
  MaxLoops,     \* bound: reconnectLoops at the time of a Reconnect
  MaxCount      \* bound: attempts counts no further

ASSUME CMAssumption ==
  /\ Nil \notin Conns
  /\ MaxLoops \in Nat /\ MaxCount \in Nat
  \* ReconnectConfig.MaxAttempts, 0 for no limit; HeartbeatEnabled
  /\ Configs \subseteq [maxAttempts : Nat, heartbeat : BOOLEAN]

VARIABLES
  config,       \* what DriverConfig says of reconnection
  conn,         \* cm.conn
  isConnected,  \* cm.isConnected
  attempts,     \* cm.attempts
  up,           \* connections that are open
  monitor,      \* [Conns -> the goroutine doConnect started for it]
  loops,        \* reconnectLoops before their check, and asleep
  dialing,      \* who runs doConnect, with cm.mutex held
  closed,       \* Close was called
  panicked      \* the client process died of a nil pointer

vars == <<config, conn, isConnected, attempts, up, monitor, loops, dialing, closed,
          panicked>>

NoMonitor == [pc |-> "none", on |-> Nil]
Dialers   == {"nobody", "Reconnect", "reconnectLoop"}

\* Types, and a connected manager has a connection.
TypeOK ==
  /\ config \in Configs
  /\ conn \in Conns \cup {Nil}
  /\ isConnected \in BOOLEAN
  /\ attempts \in 0 .. MaxCount
  /\ up \in SUBSET Conns
  /\ monitor \in [Conns -> [pc : {"none", "start", "read", "watch"},
                            on : Conns \cup {Nil}]]
  /\ loops \in [check : 0 .. MaxLoops + 1, asleep : 0 .. MaxLoops + 1]
  /\ dialing \in Dialers
  /\ closed \in BOOLEAN /\ panicked \in BOOLEAN
  /\ isConnected => conn # Nil /\ dialing = "nobody"

\* An address a new connection can have: nothing refers to it.
Unused(c) ==
  /\ c \notin up /\ c # conn /\ monitor[c] = NoMonitor
  /\ \A d \in Conns : monitor[d].on # c

\* driver.Open has called Connect, which succeeded: otherwise there is no Conn.
Init ==
  /\ config \in Configs
  /\ conn \in Conns /\ isConnected = TRUE /\ up = {conn}
  /\ monitor = [c \in Conns |-> IF c = conn THEN [pc |-> "start", on |-> Nil]
                                ELSE NoMonitor]
  /\ attempts = 0 /\ loops = [check |-> 0, asleep |-> 0]
  /\ dialing = "nobody" /\ closed = FALSE /\ panicked = FALSE
-----------------------------------------------------------------------------
\* The broker or the network ends a connection.
ConnectionLost(c) ==
  /\ ~panicked /\ c \in up /\ up' = up \ {c}
  /\ UNCHANGED <<config, conn, isConnected, attempts, monitor, loops, dialing,
                 closed, panicked>>

\* Mutant: only the first connection is given a monitor.
DialOkUnmonitored(c) ==
  /\ ~panicked /\ dialing # "nobody" /\ Unused(c)
  /\ conn' = c /\ up' = up \cup {c}
  /\ isConnected' = TRUE /\ attempts' = 0
  /\ dialing' = "nobody"
  /\ UNCHANGED <<config, monitor, loops, closed, panicked>>

\* doConnect: the connection is made and its monitor started.
DialOk(c) ==
  /\ ~panicked /\ dialing # "nobody" /\ Unused(c)
  /\ conn' = c /\ up' = up \cup {c}
  /\ isConnected' = TRUE /\ attempts' = 0
  /\ monitor' = [monitor EXCEPT ![c] = [pc |-> "start", on |-> Nil]]
  /\ dialing' = "nobody"
  /\ UNCHANGED <<config, loops, closed, panicked>>

\* Mutant: the loop ends after its first failure.
DialFailGivesUp ==
  /\ ~panicked /\ dialing # "nobody" /\ conn' = Nil
  /\ dialing' = "nobody"
  /\ UNCHANGED <<config, isConnected, attempts, up, monitor, loops, closed,
                 panicked>>

\* doConnect fails: Reconnect returns the error, a loop goes round again.
DialFail ==
  /\ ~panicked /\ dialing # "nobody" /\ conn' = Nil
  /\ loops' = IF dialing = "reconnectLoop" THEN [loops EXCEPT !.check = @ + 1]
              ELSE loops
  /\ dialing' = "nobody"
  /\ UNCHANGED <<config, isConnected, attempts, up, monitor, closed, panicked>>
-----------------------------------------------------------------------------
(* monitorConnection.                                                      *)

MonitorStart(c) ==
  /\ ~panicked /\ monitor[c].pc = "start"
  /\ monitor' = [monitor EXCEPT ![c].pc = IF conn = Nil THEN "none" ELSE "read"]
  /\ UNCHANGED <<config, conn, isConnected, attempts, up, loops, dialing,
                 closed, panicked>>

\* cm.conn.NotifyClose: cm.conn is read again, and may have changed.
MonitorRead(c) ==
  /\ ~panicked /\ monitor[c].pc = "read"
  /\ IF conn = Nil
     THEN panicked' = TRUE /\ UNCHANGED monitor
     ELSE /\ monitor' = [monitor EXCEPT ![c] = [pc |-> "watch", on |-> conn]]
          /\ UNCHANGED panicked
  /\ UNCHANGED <<config, conn, isConnected, attempts, up, loops, dialing,
                 closed>>

\* Mutant: the connection is forgotten and the flag left as it was.
MonitorWakeKeepsFlag(c) ==
  /\ ~panicked /\ monitor[c].pc = "watch" /\ monitor[c].on \notin up /\ dialing = "nobody"
  /\ monitor' = [monitor EXCEPT ![c] = NoMonitor]
  /\ IF isConnected
     THEN conn' = Nil /\ loops' = [loops EXCEPT !.check = @ + 1]
     ELSE UNCHANGED <<conn, loops>>
  /\ UNCHANGED <<config, isConnected, attempts, up, dialing, closed, panicked>>

\* The connection watched is closed: forget cm.conn and start a loop, unless
\* isConnected says it was closed on purpose.
MonitorWake(c) ==
  /\ ~panicked /\ monitor[c].pc = "watch" /\ monitor[c].on \notin up /\ dialing = "nobody"
  /\ monitor' = [monitor EXCEPT ![c] = NoMonitor]
  /\ IF isConnected
     THEN /\ isConnected' = FALSE /\ conn' = Nil
          /\ loops' = [loops EXCEPT !.check = @ + 1]
     ELSE UNCHANGED <<isConnected, conn, loops>>
  /\ UNCHANGED <<config, attempts, up, dialing, closed, panicked>>
-----------------------------------------------------------------------------
(* reconnectLoop.                                                          *)

\* Mutant: an attempt too many is allowed.
GivenUpLate == config.maxAttempts > 0 /\ attempts > config.maxAttempts

GivenUp == config.maxAttempts > 0 /\ attempts >= config.maxAttempts

\* The check for the maximum, made without the lock, and the sleep.
LoopCheck ==
  /\ ~panicked /\ loops.check > 0
  /\ loops' = [check |-> loops.check - 1,
               asleep |-> IF GivenUp THEN loops.asleep ELSE loops.asleep + 1]
  /\ UNCHANGED <<config, conn, isConnected, attempts, up, monitor, dialing,
                 closed, panicked>>

\* The loop wakes up: it ends if there is a connection, or else dials.
LoopAttempt ==
  /\ ~panicked /\ loops.asleep > 0 /\ dialing = "nobody"
  /\ loops' = [loops EXCEPT !.asleep = @ - 1]
  /\ IF isConnected
     THEN UNCHANGED <<attempts, dialing>>
     ELSE /\ attempts' = IF attempts < MaxCount THEN attempts + 1 ELSE attempts
          /\ dialing' = "reconnectLoop"
  /\ UNCHANGED <<config, conn, isConnected, up, monitor, closed, panicked>>
-----------------------------------------------------------------------------
(* Reconnect and Close.                                                    *)

\* Reconnect closes what there is and dials.
Reconnect ==
  /\ ~panicked /\ config.heartbeat /\ dialing = "nobody"
  /\ loops.check + loops.asleep < MaxLoops
  /\ isConnected' = FALSE /\ up' = up \ {conn} /\ conn' = Nil
  /\ dialing' = "Reconnect"
  /\ UNCHANGED <<config, attempts, monitor, loops, closed, panicked>>

\* Mutant: Close forgets the connection without closing it.
CloseLeaks ==
  /\ ~panicked /\ dialing = "nobody" /\ ~closed
  /\ isConnected' = FALSE /\ conn' = Nil
  /\ closed' = TRUE
  /\ UNCHANGED <<config, attempts, up, monitor, loops, dialing, panicked>>

Close ==
  /\ ~panicked /\ dialing = "nobody" /\ ~closed
  /\ isConnected' = FALSE /\ up' = up \ {conn} /\ conn' = Nil
  /\ closed' = TRUE
  /\ UNCHANGED <<config, attempts, monitor, loops, dialing, panicked>>
-----------------------------------------------------------------------------
Monitor(c) == MonitorStart(c) \/ MonitorRead(c) \/ MonitorWake(c)
Dialed     == \E c \in Conns : DialOk(c)

Next ==
  \/ \E c \in Conns : ConnectionLost(c) \/ Monitor(c) \/ DialOk(c)
  \/ DialFail \/ LoopCheck \/ LoopAttempt \/ Reconnect \/ Close

Spec == Init /\ [][Next]_vars

\* Goroutines run and get the mutex, a dial ends, and the broker is not out of
\* reach forever: of attempts made again and again one succeeds.
Fairness ==
  /\ \A c \in Conns : SF_vars(Monitor(c))
  /\ WF_vars(LoopCheck) /\ SF_vars(LoopAttempt)
  /\ WF_vars(DialFail \/ Dialed) /\ SF_vars(Dialed)

FairSpec == Spec /\ Fairness
-----------------------------------------------------------------------------
(* Properties.                                                             *)

\* The loss of the connection in use cannot go unnoticed: one of the monitors
\* watches it or is about to, though monitors read cm.conn late and unlocked.
Watched ==
  isConnected /\ ~panicked =>
    \/ monitor[conn].pc \in {"start", "read"}
    \/ \E c \in Conns : monitor[c] = [pc |-> "watch", on |-> conn]

\* No connection leak: every open connection is the manager's own, so that the
\* next loss, Reconnect or Close gets rid of it.  (With the heartbeat's Reconnect
\* it does not hold: the monitor of the connection Reconnect closed wakes up when
\* the new one is there, and forgets it.)
NoLeak == ~config.heartbeat => \A c \in up : c = conn

\* "Maximum number of reconnection attempts": between two connections a loop makes
\* no more, over several losses.  (The heartbeat's Reconnect can set a second loop
\* going, which counts on from where the first is; without it there is one.)
AttemptsBounded ==
  config.maxAttempts > 0 /\ ~config.heartbeat => attempts <= config.maxAttempts

\* Once the connection is lost the manager finds out, and comes back, unless it
\* is closed or has used up its attempts.  (A failed Reconnect of the heartbeat
\* starts no loop; DeadIsFound of HeartbeatSystem is what holds then.)
Recovers ==
  (conn \notin up /\ ~config.heartbeat) ~>
    (conn \in up \/ closed \/ panicked
     \/ (config.maxAttempts > 0 /\ attempts = config.maxAttempts))

\* "Close closes the connection and disables automatic reconnection": after
\* Close the manager is not connected again (with no Reconnect called).
CloseDisables == closed => ~isConnected
=============================================================================
