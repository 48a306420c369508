------------------------ MODULE HeartbeatSystemProofs ------------------------
(***************************************************************************)
(* Proofs about the heartbeat of one client and its server, for any number *)
(* of beats that may be missed, any capacity of the channels and any age   *)
(* at which the server gives a client up.                                  *)
(***************************************************************************)
EXTENDS HeartbeatSystem, SequenceTheorems, TLAPS

\* heartbeatLoop runs once the manager is active, until it is stopped; a ping is
\* answered once.
LoopInv ==
  /\ beat # "off" => isRunning \/ stopped
  /\ isActive => isRunning \/ stopped
  /\ beat = "waiting" => ~fired
  /\ "ping" \notin wire \/ "pong" \notin wire

\* The manager's count is of beats missed in a row, though not of all of them: a
\* pong resets it twice, and an activation may.
CountInv == missed <= row /\ DropsOnlyDead

\* What the loop makes of the signals is what the last of them says, which is
\* whether an RPC is under way.
SignalInv == ~dropped =>
  IF signals = <<>> THEN isActive = rpcActive ELSE signals[Len(signals)] = rpcActive

\* The server has heard of the client n ticks ago or later.
Listed(n) == clients[Client].isActive /\ clients[Client].age <= n

\* After an undisturbed tick the loop's next beat is due, on its way or answered.
BusyInv == busy > 0 /\ ~dropped =>
  /\ rpcActive /\ link = "up" /\ isActive /\ signals = <<>>
  /\ \/ beat = "select" /\ fired /\ (busy = 2 => Listed(1))
     \/ beat = "waiting" /\ "ping" \in wire /\ (busy = 2 => Listed(1))
     \/ beat = "waiting" /\ "pong" \in wire /\ Listed(0)
     \/ beat = "select" /\ ~fired /\ Listed(0)

IInv == TypeOK /\ LoopInv /\ CountInv /\ SignalInv /\ BusyInv

\* The constants, for arithmetic.
LEMMA Constants ==
  /\ MaxMissedBeats \in Nat /\ MaxMissedBeats >= 1
  /\ ChanSize \in Nat /\ ChanSize >= 1 /\ MaxClientAge \in Nat /\ MaxClientAge >= 1
BY HBAssumption

\* The server's entry of the client.
LEMMA ClientEntry ==
  ASSUME S!ClientsOK
  PROVE  /\ clients[Client].age \in Nat
         /\ clients[Client].isActive \in BOOLEAN /\ clients[Client].exists \in BOOLEAN
         /\ clients[Client] = [exists |-> clients[Client].exists,
                               isActive |-> clients[Client].isActive,
                               age |-> clients[Client].age]
         /\ clients \in [{Client} -> S!Entry]
BY Constants DEF S!ClientsOK, S!Entry
-----------------------------------------------------------------------------
(* The signals.                                                            *)

\* Only the empty sequence has no length.
LEMMA EmptyIs == ASSUME NEW s \in Seq(BOOLEAN)  PROVE s = <<>> <=> Len(s) = 0
BY EmptySeq

\* A signal that fits is the last one.
LEMMA SignalledLast ==
  ASSUME NEW s \in BOOLEAN, signals \in Seq(BOOLEAN), Len(signals) < ChanSize,
         H!Signal(s)
  PROVE  /\ signals' \in Seq(BOOLEAN) /\ Len(signals') <= ChanSize
         /\ signals' # <<>> /\ signals'[Len(signals')] = s
BY Constants DEF H!Signal, H!SignalFits

\* One that does not fit changes nothing.
LEMMA SignalDropped ==
  ASSUME NEW s \in BOOLEAN, ~H!SignalFits, H!Signal(s)  PROVE signals' = signals
BY DEF H!Signal

\* Reading a signal leaves the last one in place, or was the last one.
LEMMA SignalRead ==
  ASSUME signals \in Seq(BOOLEAN), Len(signals) <= ChanSize, signals # <<>>
  PROVE  /\ Head(signals) \in BOOLEAN
         /\ Tail(signals) \in Seq(BOOLEAN) /\ Len(Tail(signals)) <= ChanSize
         /\ IF Tail(signals) = <<>> THEN Head(signals) = signals[Len(signals)]
            ELSE Tail(signals)[Len(Tail(signals))] = signals[Len(signals)]
<1>1. /\ Len(signals) \in Nat /\ Len(signals) >= 1 /\ Head(signals) = signals[1]
      /\ Head(signals) \in BOOLEAN
      /\ Tail(signals) \in Seq(BOOLEAN) /\ Len(Tail(signals)) = Len(signals) - 1
      /\ \A i \in 1 .. Len(Tail(signals)) : Tail(signals)[i] = signals[i + 1]
  OBVIOUS
<1>2. CASE Len(signals) = 1
  <2>1. Len(Tail(signals)) = 0
    BY <1>1, <1>2
  <2>2. Tail(signals) = <<>>
    BY <1>1, <2>1, EmptyIs, Zenon
  <2> QED
    BY <1>1, <1>2, <2>1, <2>2, Constants
<1>3. CASE Len(signals) > 1
  <2>1. Len(Tail(signals)) # 0
    BY <1>1, <1>3
  <2>2. Tail(signals) # <<>>
    BY <1>1, <2>1, EmptyIs, Zenon
  <2>3. Tail(signals)[Len(signals) - 1] = signals[Len(signals)]
    BY <1>1, <1>3
  <2> QED
    BY <1>1, <2>2, <2>3, Constants
<1> QED
  BY <1>1, <1>2, <1>3

\* What a signal sent at the beginning or the end of an RPC means for the
\* invariant: the last signal says what rpcActive has become.
LEMMA SignalKeeps ==
  ASSUME IInv, NEW s \in BOOLEAN, H!Signal(s), rpcActive' = s,
         dropped' = (dropped \/ ~H!SignalFits)
  PROVE  /\ signals' \in Seq(BOOLEAN) /\ Len(signals') <= ChanSize
         /\ SignalInv' /\ dropped' \in BOOLEAN
<1> USE DEF IInv, TypeOK, H!StateOK
<1>1. CASE H!SignalFits
  BY <1>1, SignalledLast DEF H!SignalFits, SignalInv
<1>2. CASE ~H!SignalFits
  BY <1>2, SignalDropped DEF SignalInv
<1> QED
  BY <1>1, <1>2
-----------------------------------------------------------------------------
(* One lemma per step.                                                     *)

\* An RPC begins: busy starts anew, and the loop runs.
LEMMA BeginStep == ASSUME IInv, Begin PROVE IInv'
<1> USE Constants DEF IInv, TypeOK, H!StateOK
<1>1. /\ ~rpcActive /\ ~stopped /\ rpcActive' = TRUE /\ isActive' = TRUE
      /\ isRunning' = TRUE /\ missed' = (IF isActive THEN missed ELSE 0)
      /\ beat' = (IF isActive \/ isRunning THEN beat ELSE "select")
      /\ H!Signal(TRUE) /\ UNCHANGED <<stopped, responses, fired>>
      /\ busy' = 0 /\ dropped' = (dropped \/ ~H!SignalFits)
      /\ UNCHANGED <<clients, link, closed, wire, row>>
  BY DEF Begin, H!Activate
<1>2. beat # "callback"
  BY DEF Begin, H!Activate, H!MutexFree
<1>3. /\ signals' \in Seq(BOOLEAN) /\ Len(signals') <= ChanSize
      /\ SignalInv' /\ dropped' \in BOOLEAN
  BY <1>1, SignalKeeps
<1>4. beat' # "off" /\ beat' # "callback" /\ (beat = "waiting" <=> beat' = "waiting")
  BY <1>1, <1>2 DEF LoopInv
<1>5. TypeOK'
  <2>1. missed' \in 0 .. MaxMissedBeats
    BY <1>1
  <2>2. beat' \in {"off", "select", "waiting", "callback"}
    BY <1>1
  <2>3. H!StateOK'
    BY <1>1, <1>3, <1>4, <2>1, <2>2
  <2> QED
    BY <1>1, <1>3, <1>4, <2>3 DEF S!ClientsOK
<1>6. LoopInv'
  BY <1>1, <1>4 DEF LoopInv
<1>7. CountInv' /\ BusyInv'
  BY <1>1, <1>4 DEF CountInv, DropsOnlyDead, BusyInv
<1> QED
  BY <1>3, <1>5, <1>6, <1>7

\* An RPC ends.
LEMMA EndStep == ASSUME IInv, End PROVE IInv'
<1> USE DEF IInv, TypeOK, H!StateOK
<1>1. /\ rpcActive /\ rpcActive' = FALSE /\ isActive' = FALSE
      /\ H!Signal(FALSE)
      /\ UNCHANGED <<isRunning, stopped, missed, responses, beat, fired>>
      /\ busy' = 0 /\ dropped' = (dropped \/ ~H!SignalFits)
      /\ UNCHANGED <<clients, link, closed, wire, row>>
  BY DEF End, H!Deactivate
<1>2. /\ signals' \in Seq(BOOLEAN) /\ Len(signals') <= ChanSize
      /\ SignalInv' /\ dropped' \in BOOLEAN
  BY <1>1, SignalKeeps
<1>3. TypeOK'
  <2>1. H!StateOK'
    BY <1>1, <1>2
  <2> QED
    BY <1>1, <1>2, <2>1 DEF S!ClientsOK
<1>4. LoopInv' /\ CountInv' /\ BusyInv'
  BY <1>1 DEF LoopInv, CountInv, DropsOnlyDead, BusyInv
<1> QED
  BY <1>2, <1>3, <1>4

\* The manager is stopped, and the connection closed.
LEMMA CloseStep == ASSUME IInv, CloseStop \/ CloseLink PROVE IInv'
<1> USE DEF IInv, TypeOK, H!StateOK
<1>1. CASE CloseStop
  <2> USE <1>1 DEF CloseStop, H!Stop, history
  <2>1. TypeOK' /\ LoopInv'
    BY DEF S!ClientsOK, LoopInv
  <2>2. CountInv' /\ SignalInv'
    BY DEF CountInv, DropsOnlyDead, SignalInv
  <2>3. BusyInv'
    BY DEF BusyInv
  <2> QED
    BY <2>1, <2>2, <2>3
<1>2. CASE CloseLink
  <2> USE <1>2 DEF CloseLink, manager, history
  <2>1. TypeOK' /\ LoopInv'
    BY DEF S!ClientsOK, LoopInv
  <2>2. CountInv' /\ SignalInv'
    BY DEF CountInv, DropsOnlyDead, SignalInv
  <2>3. BusyInv'
    BY DEF BusyInv
  <2> QED
    BY <2>1, <2>2, <2>3
<1> QED
  BY <1>1, <1>2

\* The loop reads a signal; an undisturbed RPC has none left.
LEMMA SignalStep ==
  ASSUME IInv, H!LoopSignal, UNCHANGED <<clients, link, closed, wire, history>>
  PROVE  IInv'
<1> USE DEF IInv, TypeOK, H!StateOK
<1>1. /\ beat = "select" /\ signals # <<>>
      /\ isActive' = Head(signals) /\ signals' = Tail(signals)
      /\ UNCHANGED <<rpcActive, isRunning, stopped, missed, responses, beat, fired,
                     clients, link, closed, wire, row, busy, dropped>>
  BY DEF H!LoopSignal, history
<1>2. /\ Head(signals) \in BOOLEAN
      /\ Tail(signals) \in Seq(BOOLEAN) /\ Len(Tail(signals)) <= ChanSize
      /\ IF Tail(signals) = <<>> THEN Head(signals) = signals[Len(signals)]
         ELSE Tail(signals)[Len(Tail(signals))] = signals[Len(signals)]
  BY <1>1, SignalRead
<1>3. TypeOK'
  BY <1>1, <1>2 DEF S!ClientsOK
<1>4. LoopInv' /\ CountInv'
  BY <1>1 DEF LoopInv, CountInv, DropsOnlyDead
<1>5. SignalInv'
  BY <1>1, <1>2 DEF SignalInv
<1>6. BusyInv'
  BY <1>1 DEF BusyInv
<1> QED
  BY <1>3, <1>4, <1>5, <1>6

\* The loop is idle, as it is not while an RPC is undisturbed, or its monitor
\* resets the count.
LEMMA IdleStep ==
  ASSUME IInv, H!LoopTickIdle \/ H!MonitorLoop,
         UNCHANGED <<clients, link, closed, wire, history>>
  PROVE  IInv'
<1> USE Constants DEF IInv, TypeOK, H!StateOK, H!LoopTickIdle, H!MonitorLoop, H!MutexFree,
    history
<1>1. TypeOK'
  <2>1. missed' \in 0 .. MaxMissedBeats /\ responses' \in 0 .. ChanSize
    OBVIOUS
  <2>2. fired' \in BOOLEAN
    OBVIOUS
  <2>3. UNCHANGED <<rpcActive, isActive, isRunning, stopped, signals, beat>>
    OBVIOUS
  <2>4. H!StateOK'
    BY <2>1, <2>2, <2>3 DEF H!StateOK
  <2> QED
    BY <2>3, <2>4 DEF S!ClientsOK
<1>2. LoopInv' /\ CountInv'
  BY DEF LoopInv, CountInv, DropsOnlyDead
<1>3. SignalInv'
  BY DEF SignalInv
<1>4. BusyInv'
  BY DEF BusyInv, Listed
<1> QED
  BY <1>1, <1>2, <1>3, <1>4

\* The loop ends.
LEMMA LoopEndsStep == ASSUME IInv, LoopEnds PROVE IInv'
<1> USE DEF IInv, TypeOK, H!StateOK, LoopEnds, H!LoopStop, history
<1>1. TypeOK'
  BY DEF S!ClientsOK
<1>2. LoopInv' /\ CountInv'
  BY DEF LoopInv, CountInv, DropsOnlyDead
<1>3. SignalInv'
  BY DEF SignalInv
<1>4. BusyInv'
  BY DEF BusyInv
<1> QED
  BY <1>1, <1>2, <1>3, <1>4

\* A ping is sent.
LEMMA SendStep == ASSUME IInv, Send PROVE IInv'
<1> USE DEF IInv, TypeOK, H!StateOK, Send, H!SendHeartbeat, history
<1>1. TypeOK'
  BY DEF S!ClientsOK
<1>2. LoopInv' /\ CountInv'
  BY DEF LoopInv, CountInv, DropsOnlyDead
<1>3. SignalInv'
  BY DEF SignalInv
<1>4. BusyInv'
  BY Constants, ClientEntry DEF BusyInv, Listed
<1> QED
  BY <1>1, <1>2, <1>3, <1>4

\* A beat is missed: the count follows row, and drops the connection with it.
LEMMA MissedStep ==
  ASSUME IInv, SendFails \/ Timeout
  PROVE  IInv'
<1> USE DEF IInv, TypeOK, H!StateOK
<1>1. /\ beat \in {"select", "waiting"} /\ fired' \in BOOLEAN /\ fired' \in {FALSE, fired}
      /\ missed' = (IF missed < MaxMissedBeats THEN missed + 1 ELSE missed)
      /\ beat' = (IF missed + 1 >= MaxMissedBeats THEN "callback" ELSE "select")
      /\ row' = (IF row < MaxMissedBeats THEN row + 1 ELSE row) /\ busy' = 0
      /\ wire' \in SUBSET {"ping", "pong", "old"} /\ wire' \cap {"ping", "pong"} = {}
      /\ UNCHANGED <<rpcActive, isActive, isRunning, stopped, signals, responses,
                     clients, link, closed, dropped>>
  BY DEF SendFails, Timeout, H!SendFails, H!PongTimeout, H!HandleMissedHeartbeat, Missed,
     BeatOver
<1>2. /\ missed' \in 0 .. MaxMissedBeats /\ row' \in 0 .. MaxMissedBeats /\ missed' <= row'
      /\ beat' = "callback" => row' = MaxMissedBeats
  BY <1>1, Constants DEF CountInv
<1>3. TypeOK'
  BY <1>1, <1>2 DEF S!ClientsOK
<1>4. LoopInv'
  BY <1>1 DEF LoopInv
<1>5. SignalInv'
  BY <1>1 DEF SignalInv
<1> QED
  BY <1>1, <1>2, <1>3, <1>4, <1>5 DEF CountInv, DropsOnlyDead, BusyInv

\* The pong arrives: the server has heard of the client.
LEMMA PongStep == ASSUME IInv, Pong PROVE IInv'
<1> USE DEF IInv, TypeOK, H!StateOK
<1>1. /\ beat = "waiting" /\ beat' = "select" /\ "pong" \in wire
      /\ missed' = 0 /\ row' = 0
      /\ responses' = (IF responses < ChanSize THEN responses + 1 ELSE responses)
      /\ wire' \in SUBSET {"ping", "pong", "old"} /\ wire' \cap {"ping", "pong"} = {}
      /\ UNCHANGED <<rpcActive, isActive, isRunning, stopped, signals, fired, clients,
                     link, closed, busy, dropped>>
  BY DEF Pong, H!HandleHeartbeatResponse, BeatOver
<1>2. responses' \in 0 .. ChanSize /\ ~fired
  BY <1>1, Constants DEF LoopInv
<1>3. TypeOK'
  BY <1>1, <1>2, Constants DEF S!ClientsOK
<1>4. LoopInv' /\ CountInv'
  BY <1>1, Constants DEF LoopInv, CountInv, DropsOnlyDead
<1>5. SignalInv'
  BY <1>1 DEF SignalInv
<1>6. "ping" \notin wire
  BY <1>1 DEF LoopInv
<1>7. Listed(0)' <=> Listed(0)
  BY <1>1 DEF Listed
<1>8. BusyInv'
  BY <1>1, <1>2, <1>6, <1>7 DEF BusyInv
<1> QED
  BY <1>3, <1>4, <1>5, <1>8

\* The channel was closed, or the callback is over: not with an undisturbed RPC.
LEMMA BeatEndsStep == ASSUME IInv, ChannelClosed \/ Reconnect PROVE IInv'
<1> USE DEF IInv, TypeOK, H!StateOK
<1>1. /\ \/ beat = "waiting" /\ link = "down" /\ link' = link
           /\ wire' \in SUBSET {"ping", "pong", "old"} /\ wire' \cap {"ping", "pong"} = {}
         \/ beat = "callback" /\ link' \in {"up", "deaf", "down"} /\ wire' = wire
      /\ beat' = "select"
      /\ UNCHANGED <<rpcActive, isActive, isRunning, stopped, missed, signals, responses,
                     fired, clients, closed, row, busy, dropped>>
  BY DEF ChannelClosed, Reconnect, H!PongChannelClosed, H!ReconnectReturns, BeatOver, history
<1>2. TypeOK'
  BY <1>1 DEF S!ClientsOK
<1>3. LoopInv' /\ CountInv'
  BY <1>1 DEF LoopInv, CountInv, DropsOnlyDead
<1>4. SignalInv'
  BY <1>1 DEF SignalInv
<1>5. BusyInv'
  BY <1>1 DEF BusyInv
<1> QED
  BY <1>2, <1>3, <1>4, <1>5

\* The server reads a ping: the client is listed as of now.
LEMMA PingStep == ASSUME IInv, Ping PROVE IInv'
<1> USE DEF IInv, TypeOK, H!StateOK
<1> DEFINE now == [exists |-> TRUE, isActive |-> TRUE, age |-> 0]
<1>1. /\ \/ "ping" \in wire /\ wire' = (wire \ {"ping"}) \cup {"pong"}
         \/ "old" \in wire /\ wire' = wire \ {"old"}
      /\ clients' = [clients EXCEPT ![Client] = now]
      /\ UNCHANGED <<rpcActive, isActive, isRunning, stopped, missed, signals, responses,
                     beat, fired, link, closed, row, busy, dropped>>
  BY DEF Ping, S!HandleHeartbeatPing, manager, history
<1>2. now \in S!Entry /\ clients'[Client] = now
  BY <1>1, Constants, ClientEntry DEF S!Entry
<1>3. S!ClientsOK'
  BY <1>1, <1>2 DEF S!ClientsOK
<1>4. TypeOK'
  <2>1. H!StateOK'
    BY <1>1
  <2>2. /\ wire' \in SUBSET {"ping", "pong", "old"}
        /\ wire' \cap {"ping", "pong"} # {} => wire \cap {"ping", "pong"} # {}
    BY <1>1
  <2> QED
    BY <1>1, <1>3, <2>1, <2>2
<1>5. LoopInv' /\ CountInv'
  BY <1>1 DEF LoopInv, CountInv, DropsOnlyDead
<1>6. SignalInv'
  BY <1>1 DEF SignalInv
<1>7. Listed(0)' /\ Listed(1)'
  BY <1>2 DEF Listed
<1>8. BusyInv'
  BY <1>1, <1>7 DEF BusyInv
<1> QED
  BY <1>4, <1>5, <1>6, <1>8

\* Cleanup leaves out whom the server has heard of a tick ago.
LEMMA CleanupStep == ASSUME IInv, Cleanup PROVE IInv'
<1> USE DEF IInv, TypeOK, H!StateOK
<1>1. /\ clients' = [c \in {Client} |->
           IF S!Stale(c) THEN [clients[c] EXCEPT !.isActive = FALSE] ELSE clients[c]]
      /\ UNCHANGED <<rpcActive, isActive, isRunning, stopped, missed, signals, responses,
                     beat, fired, link, closed, wire, row, busy, dropped>>
  BY DEF Cleanup, S!CleanupStaleConnections, manager, history
<1>2. S!ClientsOK'
  BY <1>1, ClientEntry DEF S!ClientsOK, S!Entry
<1>3. TypeOK'
  BY <1>1, <1>2
<1>4. LoopInv' /\ CountInv'
  BY <1>1 DEF LoopInv, CountInv, DropsOnlyDead
<1>5. SignalInv'
  BY <1>1 DEF SignalInv
<1>6. (Listed(0) => Listed(0)') /\ (Listed(1) => Listed(1)')
  BY <1>1, Constants, ClientEntry DEF Listed, S!Stale
<1>7. BusyInv'
  BY <1>1, <1>6 DEF BusyInv
<1> QED
  BY <1>3, <1>4, <1>5, <1>7

\* What becomes of the link disturbs the RPC.
LEMMA LinkStep == ASSUME IInv, LinkChanges PROVE IInv'
<1> USE DEF IInv, TypeOK, H!StateOK, LinkChanges, manager
<1>1. TypeOK'
  BY DEF S!ClientsOK
<1>2. LoopInv' /\ CountInv'
  BY DEF LoopInv, CountInv, DropsOnlyDead
<1>3. SignalInv'
  BY DEF SignalInv
<1>4. BusyInv'
  BY DEF BusyInv
<1> QED
  BY <1>1, <1>2, <1>3, <1>4

\* By the time an interval is over the loop has read the signals, and the ping of
\* the interval before, if the RPC was undisturbed, is answered.
LEMMA TickStep == ASSUME IInv, Tick PROVE IInv'
<1> USE Constants DEF IInv, TypeOK, H!StateOK
<1>1. /\ beat = "callback" \/ (beat # "waiting" /\ ~fired)
      /\ beat = "select" => signals = <<>> /\ ~stopped
      /\ fired' = (beat # "off")
      /\ clients' = [c \in {Client} |->
           IF clients[c].exists /\ clients[c].age <= MaxClientAge
           THEN [clients[c] EXCEPT !.age = @ + 1] ELSE clients[c]]
      /\ busy' = IF ~rpcActive \/ link # "up" \/ beat = "callback" THEN 0
                 ELSE IF busy < 2 THEN busy + 1 ELSE busy
      /\ UNCHANGED <<rpcActive, isActive, isRunning, stopped, missed, signals, responses,
                     beat, link, closed, wire, row, dropped>>
  BY DEF Tick, H!TickerFires, S!Age
<1>2. S!ClientsOK'
  BY <1>1, ClientEntry DEF S!ClientsOK, S!Entry
<1>3. busy' \in 0 .. 2
  BY <1>1
<1>4. TypeOK'
  BY <1>1, <1>2, <1>3
<1>5. LoopInv' /\ CountInv'
  BY <1>1 DEF LoopInv, CountInv, DropsOnlyDead
<1>6. SignalInv'
  BY <1>1 DEF SignalInv
<1>7. Listed(0) => Listed(1)'
  BY <1>1, ClientEntry DEF Listed
<1>8. BusyInv'
  <2> SUFFICES ASSUME busy' > 0, ~dropped
               PROVE  /\ rpcActive /\ link = "up" /\ isActive /\ signals = <<>>
                      /\ beat = "select" /\ fired' /\ (busy' = 2 => Listed(1)')
    BY <1>1 DEF BusyInv
  <2>1. rpcActive /\ link = "up" /\ beat # "callback"
    BY <1>1
  <2>2. beat = "select" /\ ~fired /\ signals = <<>> /\ fired'
    BY <1>1, <2>1
  <2>3. isActive
    BY <2>1, <2>2 DEF SignalInv
  <2>4. busy' = 2 => Listed(0)
    BY <1>1, <2>1, <2>2 DEF BusyInv
  <2> QED
    BY <1>7, <2>1, <2>2, <2>3, <2>4
<1> QED
  BY <1>4, <1>5, <1>6, <1>8

\* Nothing is under way at first.
LEMMA InitInv == Init => IInv
<1> SUFFICES ASSUME Init PROVE IInv
  OBVIOUS
<1> USE Constants DEF Init, H!Init, S!Init
<1>1. S!ClientsOK
  <2>1. [exists |-> FALSE, isActive |-> FALSE, age |-> 0] \in S!Entry
    BY DEF S!Entry
  <2> QED
    BY <2>1 DEF S!ClientsOK
<1>2. signals \in Seq(BOOLEAN) /\ Len(signals) = 0
  BY EmptySeq
<1>3. TypeOK
  <2>1. /\ missed \in 0 .. MaxMissedBeats /\ responses \in 0 .. ChanSize
        /\ Len(signals) <= ChanSize
    BY <1>2
  <2>2. H!StateOK
    BY <1>2, <2>1 DEF H!StateOK
  <2>3. wire \cap {"ping", "pong"} = {} /\ wire \in SUBSET {"ping", "pong", "old"}
    OBVIOUS
  <2>4. row \in 0 .. MaxMissedBeats /\ busy \in 0 .. 2
    OBVIOUS
  <2> QED
    BY <1>1, <2>2, <2>3, <2>4 DEF TypeOK
<1>4. LoopInv /\ CountInv
  BY DEF LoopInv, CountInv, DropsOnlyDead
<1>5. SignalInv
  BY DEF SignalInv
<1>6. BusyInv
  BY DEF BusyInv
<1> QED
  BY <1>3, <1>4, <1>5, <1>6 DEF IInv
-----------------------------------------------------------------------------
(* The theorems.                                                           *)

\* Loop, counts, signals and the server's table agree in every state.
THEOREM Invariance == Spec => []IInv
<1>1. IInv /\ [Next]_vars => IInv'
  <2> SUFFICES ASSUME IInv, [Next]_vars PROVE IInv'
    OBVIOUS
  <2>1. CASE UNCHANGED vars
    <3> USE <2>1 DEF IInv, vars, manager, history
    <3>1. TypeOK'
      BY DEF TypeOK, H!StateOK, S!ClientsOK
    <3>2. LoopInv' /\ CountInv' /\ SignalInv'
      BY DEF LoopInv, CountInv, DropsOnlyDead, SignalInv
    <3>3. BusyInv'
      BY DEF BusyInv, Listed
    <3> QED
      BY <3>1, <3>2, <3>3
  <2>2. CASE Loop
    BY <2>2, SignalStep, IdleStep DEF Loop
  <2>3. CASE Beat
    BY <2>3, SendStep, MissedStep, PongStep, BeatEndsStep DEF Beat
  <2> QED
    BY <2>1, <2>2, <2>3, BeginStep, EndStep, CloseStep, LoopEndsStep, PingStep,
       CleanupStep, LinkStep, TickStep DEF Next
<1> QED
  BY <1>1, InitInv, PTL DEF Spec

\* The types, and a beat is on its way only while the loop waits for it.
THEOREM TypeCorrect == Spec => []TypeOK
<1>1. IInv => TypeOK
  BY DEF IInv
<1> QED
  BY <1>1, Invariance, PTL

\* The heartbeat drops no connection that answered any of the last beats.
THEOREM OnlyDeadDropped == Spec => []DropsOnlyDead
<1>1. IInv => DropsOnlyDead
  BY DEF IInv, CountInv
<1> QED
  BY <1>1, Invariance, PTL

\* A client is listed from the second undisturbed interval of an RPC on, as long
\* as no signal was dropped.
THEOREM BusyIsListed == Spec => []ListedWhileBusy
<1>1. IInv => ListedWhileBusy
  BY DEF IInv, BusyInv, Listed, ListedWhileBusy, S!ActiveClients
<1> QED
  BY <1>1, Invariance, PTL
=============================================================================
