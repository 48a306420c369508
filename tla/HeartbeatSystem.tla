-------------------------- MODULE HeartbeatSystem --------------------------
(***************************************************************************)
(* ClientHeartbeat and ServerHeartbeat with what lies between them: the    *)
(* client's connection, as its connection manager (ConnectionManager) and  *)
(* the broker make it, the heartbeat queue, and the reply queue of the     *)
(* beat under way.                                                         *)
(*                                                                         *)
(* The connection is "up" (pings get through and are answered), "deaf" (it *)
(* looks open, but nothing comes back: the peer or the server is gone) or  *)
(* "down" (the manager has none).  A tick is one heartbeat interval; what  *)
(* is quick compared with it takes no time, a reconnection may take long.  *)
(***************************************************************************)
EXTENDS Naturals, Sequences

CONSTANTS Client, MaxMissedBeats, ChanSize, MaxClientAge

ASSUME HBAssumption ==
  /\ MaxMissedBeats \in Nat \ {0} /\ ChanSize \in Nat \ {0}
  /\ MaxClientAge \in Nat \ {0}

VARIABLES
  rpcActive, isActive, isRunning, stopped, missed, signals, responses, beat,
  fired,       \* see ClientHeartbeat
  clients,     \* see ServerHeartbeat
  link,        \* the client's connection
  closed,      \* Conn.Close has closed it
  wire,        \* "ping" and "pong" of the beat under way; "old": an older ping
  row,         \* history: beats missed in a row, saturating
  busy,        \* history: undisturbed ticks since the RPC began, saturating
  dropped      \* history: a signal found activateChan full

H == INSTANCE ClientHeartbeat
S == INSTANCE ServerHeartbeat WITH Clients <- {Client}

manager == <<rpcActive, isActive, isRunning, stopped, missed, signals, responses,
             beat, fired>>
history == <<row, busy, dropped>>
vars    == <<manager, clients, link, closed, wire, history>>

\* Types, and the heartbeat is running whenever an RPC is under way.
TypeOK ==
  /\ H!StateOK /\ S!ClientsOK
  /\ link \in {"up", "deaf", "down"} /\ closed \in BOOLEAN
  /\ wire \in SUBSET {"ping", "pong", "old"}
  /\ wire \cap {"ping", "pong"} # {} => beat = "waiting"
  /\ row \in 0 .. MaxMissedBeats /\ busy \in 0 .. 2 /\ dropped \in BOOLEAN
  /\ rpcActive => isRunning

Init ==
  /\ H!Init /\ S!Init
  /\ link = "up" /\ closed = FALSE /\ wire = {}
  /\ row = 0 /\ busy = 0 /\ dropped = FALSE

\* Nobody waits for the pong any longer, and an unread ping becomes an old one.
BeatOver == wire' = IF wire \cap {"ping", "old"} # {} THEN {"old"} ELSE {}
Missed   == row' = (IF row < MaxMissedBeats THEN row + 1 ELSE row) /\ busy' = 0
-----------------------------------------------------------------------------
(* The client.                                                             *)

\* queryRPCWithHeartbeat begins its RPC, and ends it.
Begin ==
  /\ H!Activate
  /\ busy' = 0 /\ dropped' = (dropped \/ ~H!SignalFits)
  /\ UNCHANGED <<clients, link, closed, wire, row>>

End ==
  /\ H!Deactivate
  /\ busy' = 0 /\ dropped' = (dropped \/ ~H!SignalFits)
  /\ UNCHANGED <<clients, link, closed, wire, row>>

\* Conn.Close stops the heartbeat, and then closes the connection.
CloseStop == H!Stop /\ UNCHANGED <<clients, link, closed, wire, history>>

CloseLink ==
  /\ stopped /\ ~closed /\ H!MutexFree
  /\ closed' = TRUE /\ link' = "down"
  /\ UNCHANGED <<manager, clients, wire, history>>

Loop ==
  /\ H!LoopSignal \/ H!LoopTickIdle \/ H!MonitorLoop
  /\ UNCHANGED <<clients, link, closed, wire, history>>

LoopEnds == H!LoopStop /\ UNCHANGED <<clients, link, closed, wire, history>>

Send ==
  /\ link # "down" /\ H!SendHeartbeat
  /\ wire' = wire \cup {"ping"}
  /\ UNCHANGED <<clients, link, closed, history>>

SendFails ==
  /\ link # "up" /\ H!SendFails
  /\ Missed
  /\ UNCHANGED <<clients, link, closed, wire, dropped>>

Pong ==
  /\ "pong" \in wire /\ H!HandleHeartbeatResponse
  /\ BeatOver /\ row' = 0
  /\ UNCHANGED <<clients, link, closed, busy, dropped>>

\* The timeout may come first even if the pong is there.
Timeout ==
  /\ link # "down" /\ H!PongTimeout
  /\ BeatOver /\ Missed
  /\ UNCHANGED <<clients, link, closed, dropped>>

ChannelClosed ==
  /\ link = "down" /\ H!PongChannelClosed
  /\ BeatOver
  /\ UNCHANGED <<clients, link, closed, history>>

\* The callback's Reconnect ends: with a connection or without.
Reconnect ==
  /\ H!ReconnectReturns
  /\ link' \in {"up", "deaf", "down"}
  /\ UNCHANGED <<clients, closed, wire, history>>
-----------------------------------------------------------------------------
(* The server, the connection and time.                                    *)

Ping ==
  /\ \/ "ping" \in wire /\ link = "up" /\ wire' = (wire \ {"ping"}) \cup {"pong"}
     \/ "old" \in wire /\ wire' = wire \ {"old"}
  /\ S!HandleHeartbeatPing(Client)
  /\ UNCHANGED <<manager, link, closed, history>>

Cleanup ==
  /\ S!CleanupStaleConnections
  /\ UNCHANGED <<manager, link, closed, wire, history>>

\* The connection or the server's fails; the connection manager's own monitor
\* and loop reconnect; the server comes back.
LinkChanges ==
  /\ ~closed /\ link' \in {"up", "deaf", "down"} \ {link}
  /\ busy' = 0
  /\ UNCHANGED <<manager, clients, closed, wire, row, dropped>>

Tick ==
  /\ beat = "callback" \/ (beat # "waiting" /\ ~fired)
  /\ beat = "select" => signals = <<>> /\ ~stopped
  /\ H!TickerFires /\ S!Age
  /\ busy' = IF ~rpcActive \/ link # "up" \/ beat = "callback" THEN 0
             ELSE IF busy < 2 THEN busy + 1 ELSE busy
  /\ UNCHANGED <<link, closed, wire, row, dropped>>

Beat == Send \/ SendFails \/ Pong \/ Timeout \/ ChannelClosed \/ Reconnect

Next ==
  \/ Begin \/ End \/ CloseStop \/ CloseLink \/ Loop \/ LoopEnds \/ Beat
  \/ Ping \/ Cleanup \/ LinkChanges \/ Tick

Spec == Init /\ [][Next]_vars

\* Goroutines run, timeouts and reconnections end, time passes, and the select
\* of heartbeatLoop, which picks among what is ready at random, picks stopChan at
\* last.  Nothing makes the application do anything, a message arrive or the link
\* change.
Fairness ==
  /\ WF_vars(Loop) /\ SF_vars(LoopEnds) /\ WF_vars(Beat) /\ WF_vars(Cleanup) /\ WF_vars(Tick)

FairSpec == Spec /\ Fairness
-----------------------------------------------------------------------------
(* Properties.                                                             *)

\* While an RPC is under way and nothing goes wrong, the server lists the client
\* as active from the second interval on: signals of earlier RPCs that are still
\* in activateChan do not silence the heartbeat (as long as none was dropped),
\* and pings come often enough for the cleanup.
ListedWhileBusy == busy = 2 /\ ~dropped => Client \in S!ActiveClients

\* The heartbeat drops a connection only after MaxMissedBeats beats in a row got
\* no answer.
DropsOnlyDead == beat = "callback" => row = MaxMissedBeats

\* A connection that looks open but is dead is found out, and each time again if
\* reconnecting does not help, as long as an RPC is under way; and as long as
\* reconnecting fails and leaves none, it is tried again.
DeadIsFound ==
  \A l \in {"deaf", "down"} :
    <>[](rpcActive /\ link = l /\ ~dropped) => []<>(beat = "callback")

\* A client that closed is marked inactive for good, though its last pings may
\* arrive late.
GoneIsNoticed == <>[]stopped => <>[](Client \notin S!ActiveClients)
=============================================================================
