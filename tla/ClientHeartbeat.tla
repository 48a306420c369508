-------------------------- MODULE ClientHeartbeat --------------------------
(***************************************************************************)
(* The client's heartbeat manager (client/heartbeat.go) of one driver      *)
(* connection (client/conn.go), which activates it around its RPCs.        *)
(*                                                                         *)
(* Goroutines: the one that uses the connection (one RPC at a time, as     *)
(* database/sql sees to), heartbeatLoop and monitorLoop.  hm.mutex is held *)
(* for single steps, and by heartbeatLoop while the disconnect callback    *)
(* reconnects (beat = "callback").  A missed count stops mattering at      *)
(* MaxMissedBeats, where it saturates.                                     *)
(***************************************************************************)
EXTENDS Naturals, Sequences

CONSTANTS
  MaxMissedBeats,  \* HeartbeatConfig.MaxMissedBeats
  ChanSize         \* capacity of activateChan and responseChan

VARIABLES
  rpcActive,   \* c.rpcActive
  isActive,    \* hm.isActive
  isRunning,   \* hm.isRunning
  stopped,     \* stopChan is closed: Conn.Close was called
  missed,      \* hm.missedBeats
  signals,     \* activateChan
  responses,   \* number of values in responseChan
  beat,        \* heartbeatLoop: "off", "select", "waiting", "callback"
  fired        \* the ticker has fired and not been read

StateOK ==
  /\ rpcActive \in BOOLEAN /\ isActive \in BOOLEAN /\ isRunning \in BOOLEAN
  /\ stopped \in BOOLEAN /\ fired \in BOOLEAN
  /\ missed \in 0 .. MaxMissedBeats
  /\ signals \in Seq(BOOLEAN) /\ Len(signals) <= ChanSize
  /\ responses \in 0 .. ChanSize
  /\ beat \in {"off", "select", "waiting", "callback"}
  /\ isRunning => ~stopped /\ beat # "off"

Init ==
  /\ rpcActive = FALSE /\ isActive = FALSE /\ isRunning = FALSE
  /\ stopped = FALSE /\ fired = FALSE
  /\ missed = 0 /\ signals = <<>> /\ responses = 0 /\ beat = "off"

MutexFree == beat # "callback"
-----------------------------------------------------------------------------
(* Around an RPC.  The signal is dropped when the channel is full.         *)

SignalFits == Len(signals) < ChanSize

\* Mutant: the channel has no capacity to run out of.
SignalUnbounded(s) == signals' = Append(signals, s)

Signal(s) == signals' = IF SignalFits THEN Append(signals, s) ELSE signals

\* Mutant: a manager that is running is not sent a signal.
ActivateUnsignalled ==
  /\ ~rpcActive /\ ~stopped /\ MutexFree
  /\ rpcActive' = TRUE /\ isActive' = TRUE /\ isRunning' = TRUE
  /\ missed' = IF isActive THEN missed ELSE 0
  /\ beat' = IF isRunning THEN beat ELSE "select"
  /\ UNCHANGED <<stopped, responses, fired, signals>>

\* ActivateHeartbeat; the first activation starts the goroutines.
Activate ==
  /\ ~rpcActive /\ ~stopped /\ MutexFree
  /\ rpcActive' = TRUE
  /\ isActive' = TRUE
  /\ missed' = IF isActive THEN missed ELSE 0
  /\ isRunning' = TRUE
  /\ beat' = IF isActive \/ isRunning THEN beat ELSE "select"
  /\ Signal(TRUE)
  /\ UNCHANGED <<stopped, responses, fired>>

Deactivate ==
  /\ rpcActive /\ MutexFree
  /\ rpcActive' = FALSE /\ isActive' = FALSE
  /\ Signal(FALSE)
  /\ UNCHANGED <<isRunning, stopped, missed, responses, beat, fired>>

\* Conn.Close of a connection that ran an RPC: Stop.
Stop ==
  /\ ~rpcActive /\ isRunning /\ MutexFree
  /\ isRunning' = FALSE /\ isActive' = FALSE /\ stopped' = TRUE
  /\ UNCHANGED <<rpcActive, missed, signals, responses, beat, fired>>
-----------------------------------------------------------------------------
(* heartbeatLoop; its select takes any branch that is ready.               *)

LoopSignal ==
  /\ beat = "select" /\ signals # <<>>
  /\ isActive' = Head(signals) /\ signals' = Tail(signals)
  /\ UNCHANGED <<rpcActive, isRunning, stopped, missed, responses, beat, fired>>

LoopStop ==
  /\ beat = "select" /\ stopped
  /\ beat' = "off" /\ fired' = FALSE
  /\ UNCHANGED <<rpcActive, isActive, isRunning, stopped, missed, signals,
                 responses>>

LoopTickIdle ==
  /\ beat = "select" /\ fired /\ ~isActive
  /\ fired' = FALSE
  /\ UNCHANGED <<rpcActive, isActive, isRunning, stopped, missed, signals,
                 responses, beat>>

\* sendHeartbeat publishes a ping and waits for the pong.
SendHeartbeat ==
  /\ beat = "select" /\ fired /\ isActive
  /\ fired' = FALSE /\ beat' = "waiting"
  /\ UNCHANGED <<rpcActive, isActive, isRunning, stopped, missed, signals,
                 responses>>

\* Mutant: the count is compared for being equal to the maximum.
HandleMissedOnce ==
  /\ missed' = IF missed < MaxMissedBeats THEN missed + 1 ELSE missed
  /\ beat' = IF missed + 1 = MaxMissedBeats THEN "callback" ELSE "select"
  /\ UNCHANGED <<rpcActive, isActive, isRunning, stopped, signals, responses>>

\* handleMissedHeartbeat: from MaxMissedBeats on every further miss calls the
\* callback, with hm.mutex held.
HandleMissedHeartbeat ==
  /\ missed' = IF missed < MaxMissedBeats THEN missed + 1 ELSE missed
  /\ beat' = IF missed + 1 >= MaxMissedBeats THEN "callback" ELSE "select"
  /\ UNCHANGED <<rpcActive, isActive, isRunning, stopped, signals, responses>>

\* The ping cannot be sent: no connection, or an error of the channel.
SendFails ==
  /\ beat = "select" /\ fired /\ isActive
  /\ fired' = FALSE
  /\ HandleMissedHeartbeat

PongTimeout == beat = "waiting" /\ HandleMissedHeartbeat /\ UNCHANGED fired

\* The delivery channel was closed with the connection: what is read from it
\* is no pong, and the beat counts neither way.
PongChannelClosed ==
  /\ beat = "waiting" /\ beat' = "select"
  /\ UNCHANGED <<rpcActive, isActive, isRunning, stopped, missed, signals,
                 responses, fired>>

\* Mutant: a pong resets nothing by itself.
HandleHeartbeatResponseLazy ==
  /\ beat = "waiting" /\ beat' = "select"
  /\ UNCHANGED <<rpcActive, isActive, isRunning, stopped, missed, signals, responses,
                 fired>>

HandleHeartbeatResponse ==
  /\ beat = "waiting" /\ beat' = "select"
  /\ missed' = 0
  /\ responses' = IF responses < ChanSize THEN responses + 1 ELSE responses
  /\ UNCHANGED <<rpcActive, isActive, isRunning, stopped, signals, fired>>

\* The callback, connMgr.Reconnect, returns.
ReconnectReturns ==
  /\ beat = "callback" /\ beat' = "select"
  /\ UNCHANGED <<rpcActive, isActive, isRunning, stopped, missed, signals,
                 responses, fired>>

\* monitorLoop resets the count once more, whenever it gets to it; once stopped
\* it may leave the rest unread.
MonitorLoop ==
  /\ responses > 0 /\ MutexFree
  /\ responses' = responses - 1 /\ missed' = 0
  /\ UNCHANGED <<rpcActive, isActive, isRunning, stopped, signals, beat, fired>>

\* An interval goes by: the ticker fires, and holds one tick for a busy loop.
TickerFires ==
  /\ fired' = (beat # "off")
  /\ UNCHANGED <<rpcActive, isActive, isRunning, stopped, missed, signals,
                 responses, beat>>
=============================================================================
