----------------------- MODULE ConnectionManagerProofs -----------------------
(***************************************************************************)
(* Proofs about ConnectionManager, for any number of addresses, any        *)
(* configuration and any bounds: the loss of the connection in use is      *)
(* always watched for; and, without the heartbeat's Reconnect, one         *)
(* goroutine at a time works on the connection, so that nothing leaks and  *)
(* the attempts stay within their maximum.                                 *)
(***************************************************************************)
EXTENDS ConnectionManager, TLAPS

\* Who works on the connection: a loop, a dialer, or the monitor of a connection.
Working == loops.check + loops.asleep + (IF isConnected THEN 1 ELSE 0)
             + (IF dialing # "nobody" THEN 1 ELSE 0)

\* A new loop always replaces what was working.
LoopsInv == Working <= MaxLoops + 1

\* Without Reconnect: only cm.conn can be open; one goroutine works on it; a
\* monitor runs only when no loop does, and watches cm.conn if that is
\* connected; no loop sleeps that has no attempt left.
OneAtATime ==
  /\ up \subseteq {conn} /\ (~isConnected => up = {})
  /\ Working <= 1
  /\ \A c \in Conns : monitor[c].pc # "none" =>
       /\ loops.check = 0 /\ loops.asleep = 0 /\ dialing = "nobody"
       /\ isConnected => c = conn /\ (monitor[c].pc = "watch" => monitor[c].on = conn)
  /\ config.maxAttempts > 0 =>
       attempts <= config.maxAttempts /\ (loops.asleep > 0 => ~GivenUp)
AutomaticInv == ~config.heartbeat => OneAtATime

IInv == TypeOK /\ LoopsInv /\ Watched /\ AutomaticInv
-----------------------------------------------------------------------------
\* The connection driver.Open made has its monitor, and no loop runs.
LEMMA InitIInv == Init => IInv
<1> SUFFICES ASSUME Init PROVE IInv
  OBVIOUS
<1> USE CMAssumption
<1>1. TypeOK
  <2>1. monitor \in [Conns -> [pc : {"none", "start", "read", "watch"},
                               on : Conns \cup {Nil}]]
    BY DEF Init, NoMonitor
  <2>2. loops \in [check : 0 .. MaxLoops + 1, asleep : 0 .. MaxLoops + 1]
    BY DEF Init
  <2>3. attempts \in 0 .. MaxCount /\ conn # Nil
    BY DEF Init
  <2> QED
    BY <2>1, <2>2, <2>3 DEF Init, TypeOK, Dialers
<1>2. LoopsInv
  BY DEF Init, LoopsInv, Working
<1>3. Watched
  BY DEF Init, Watched
<1>4. AutomaticInv
  BY DEF Init, AutomaticInv, OneAtATime, Working, NoMonitor
<1> QED
  BY <1>1, <1>2, <1>3, <1>4 DEF IInv

\* What TypeOK says of the loops and of the configuration, for arithmetic.
LEMMA Numbers ==
  TypeOK => /\ loops.check \in Nat /\ loops.asleep \in Nat
            /\ loops = [check |-> loops.check, asleep |-> loops.asleep]
            /\ attempts \in Nat /\ config.maxAttempts \in Nat
            /\ config.heartbeat \in BOOLEAN
BY CMAssumption DEF TypeOK

\* Types; the loops stay within their bound because each one replaces something.
LEMMA TypeStep == ASSUME IInv, [Next]_vars PROVE TypeOK'
<1> USE CMAssumption, Numbers DEF IInv, TypeOK, LoopsInv, Working, NoMonitor, Dialers
<1>1. ASSUME NEW c \in Conns, ConnectionLost(c) PROVE TypeOK'
  BY <1>1 DEF ConnectionLost
<1>2. ASSUME NEW c \in Conns, MonitorStart(c) PROVE TypeOK'
  BY <1>2 DEF MonitorStart
<1>3. ASSUME NEW c \in Conns, MonitorRead(c) PROVE TypeOK'
  <2>1. monitor' \in [Conns -> [pc : {"none", "start", "read", "watch"},
                                on : Conns \cup {Nil}]]
    BY <1>3 DEF MonitorRead
  <2> QED
    BY <1>3, <2>1 DEF MonitorRead
<1>4. ASSUME NEW c \in Conns, MonitorWake(c) PROVE TypeOK'
  <2>1. monitor' \in [Conns -> [pc : {"none", "start", "read", "watch"},
                                on : Conns \cup {Nil}]]
    BY <1>4 DEF MonitorWake
  <2>2. loops' \in [check : 0 .. MaxLoops + 1, asleep : 0 .. MaxLoops + 1]
    BY <1>4 DEF MonitorWake
  <2> QED
    BY <1>4, <2>1, <2>2 DEF MonitorWake
<1>5. ASSUME NEW c \in Conns, DialOk(c) PROVE TypeOK'
  BY <1>5 DEF DialOk
<1>6. CASE DialFail
  BY <1>6 DEF DialFail
<1>7. CASE LoopCheck
  BY <1>7 DEF LoopCheck
<1>8. CASE LoopAttempt
  BY <1>8 DEF LoopAttempt
<1>9. CASE Reconnect
  BY <1>9 DEF Reconnect
<1>10. CASE Close
  BY <1>10 DEF Close
<1>11. CASE UNCHANGED vars
  BY <1>11 DEF vars
<1> QED
  BY <1>1, <1>2, <1>3, <1>4, <1>5, <1>6, <1>7, <1>8, <1>9, <1>10, <1>11 DEF Next, Monitor

\* A loop starts when a connection is lost or a loop's dial fails, and nowhere else.
LEMMA LoopsStep == ASSUME IInv, [Next]_vars PROVE LoopsInv'
<1> USE CMAssumption, Numbers DEF IInv, TypeOK, LoopsInv, Working
<1>1. ASSUME NEW c \in Conns, ConnectionLost(c) PROVE LoopsInv'
  BY <1>1 DEF ConnectionLost
<1>2. ASSUME NEW c \in Conns, MonitorStart(c) PROVE LoopsInv'
  BY <1>2 DEF MonitorStart
<1>3. ASSUME NEW c \in Conns, MonitorRead(c) PROVE LoopsInv'
  BY <1>3 DEF MonitorRead
<1>4. ASSUME NEW c \in Conns, MonitorWake(c) PROVE LoopsInv'
  BY <1>4 DEF MonitorWake
<1>5. ASSUME NEW c \in Conns, DialOk(c) PROVE LoopsInv'
  BY <1>5 DEF DialOk
<1>6. CASE DialFail
  BY <1>6 DEF DialFail
<1>7. CASE LoopCheck
  BY <1>7 DEF LoopCheck
<1>8. CASE LoopAttempt
  BY <1>8 DEF LoopAttempt
<1>9. CASE Reconnect
  BY <1>9 DEF Reconnect
<1>10. CASE Close
  BY <1>10 DEF Close
<1>11. CASE UNCHANGED vars
  BY <1>11 DEF vars
<1> QED
  BY <1>1, <1>2, <1>3, <1>4, <1>5, <1>6, <1>7, <1>8, <1>9, <1>10, <1>11 DEF Next, Monitor

\* A monitor that reads cm.conn late reads the connection in use; a connection
\* comes into use together with its monitor.
LEMMA WatchedStep == ASSUME IInv, [Next]_vars PROVE Watched'
<1> USE CMAssumption, Numbers DEF IInv, TypeOK, Watched, NoMonitor
<1>1. ASSUME NEW c \in Conns, ConnectionLost(c) PROVE Watched'
  BY <1>1 DEF ConnectionLost
<1>2. ASSUME NEW c \in Conns, MonitorStart(c) PROVE Watched'
  BY <1>2 DEF MonitorStart
<1>3. ASSUME NEW c \in Conns, MonitorRead(c) PROVE Watched'
  BY <1>3 DEF MonitorRead
<1>4. ASSUME NEW c \in Conns, MonitorWake(c) PROVE Watched'
  BY <1>4 DEF MonitorWake
<1>5. ASSUME NEW c \in Conns, DialOk(c) PROVE Watched'
  BY <1>5 DEF DialOk
<1>6. CASE DialFail
  BY <1>6 DEF DialFail
<1>7. CASE LoopCheck
  BY <1>7 DEF LoopCheck
<1>8. CASE LoopAttempt
  BY <1>8 DEF LoopAttempt
<1>9. CASE Reconnect
  BY <1>9 DEF Reconnect
<1>10. CASE Close
  BY <1>10 DEF Close
<1>11. CASE UNCHANGED vars
  BY <1>11 DEF vars
<1> QED
  BY <1>1, <1>2, <1>3, <1>4, <1>5, <1>6, <1>7, <1>8, <1>9, <1>10, <1>11 DEF Next, Monitor

\* Without Reconnect one thing at a time works on the connection.
LEMMA AutomaticStep == ASSUME IInv, [Next]_vars PROVE AutomaticInv'
<1> USE CMAssumption, Numbers DEF IInv, TypeOK, AutomaticInv, OneAtATime, Working, GivenUp, NoMonitor, Unused
<1>1. ASSUME NEW c \in Conns, ConnectionLost(c) PROVE AutomaticInv'
  BY <1>1 DEF ConnectionLost
<1>2. ASSUME NEW c \in Conns, MonitorStart(c) PROVE AutomaticInv'
  BY <1>2 DEF MonitorStart
<1>3. ASSUME NEW c \in Conns, MonitorRead(c) PROVE AutomaticInv'
  <2> SUFFICES ASSUME ~config.heartbeat PROVE OneAtATime'
    BY <1>3 DEF MonitorRead
  <2>1. (up \subseteq {conn} /\ (~isConnected => up = {}))'
    BY <1>3 DEF MonitorRead
  <2>2. (Working <= 1)'
    BY <1>3 DEF MonitorRead
  <2>3. (config.maxAttempts > 0 =>
           attempts <= config.maxAttempts /\ (loops.asleep > 0 => ~GivenUp))'
    BY <1>3 DEF MonitorRead
  <2>4. ASSUME NEW d \in Conns, monitor'[d].pc # "none"
        PROVE  /\ loops'.check = 0 /\ loops'.asleep = 0 /\ dialing' = "nobody"
               /\ isConnected' => d = conn'
                                  /\ (monitor'[d].pc = "watch" => monitor'[d].on = conn')
    BY <1>3, <2>4 DEF MonitorRead
  <2> QED
    BY <2>1, <2>2, <2>3, <2>4
<1>4. ASSUME NEW c \in Conns, MonitorWake(c) PROVE AutomaticInv'
  <2> SUFFICES ASSUME ~config.heartbeat PROVE OneAtATime'
    BY <1>4 DEF MonitorWake
  <2>1. (up \subseteq {conn} /\ (~isConnected => up = {}))'
    BY <1>4 DEF MonitorWake
  <2>2. (Working <= 1)'
    BY <1>4 DEF MonitorWake
  <2>3. (config.maxAttempts > 0 =>
           attempts <= config.maxAttempts /\ (loops.asleep > 0 => ~GivenUp))'
    BY <1>4 DEF MonitorWake
  <2>4. ASSUME NEW d \in Conns, monitor'[d].pc # "none"
        PROVE  /\ loops'.check = 0 /\ loops'.asleep = 0 /\ dialing' = "nobody"
               /\ isConnected' => d = conn'
                                  /\ (monitor'[d].pc = "watch" => monitor'[d].on = conn')
    BY <1>4, <2>4 DEF MonitorWake
  <2> QED
    BY <2>1, <2>2, <2>3, <2>4
<1>5. ASSUME NEW c \in Conns, DialOk(c) PROVE AutomaticInv'
  <2> SUFFICES ASSUME ~config.heartbeat PROVE OneAtATime'
    BY <1>5 DEF DialOk
  <2>1. (up \subseteq {conn} /\ (~isConnected => up = {}))'
    BY <1>5 DEF DialOk
  <2>2. (Working <= 1)'
    BY <1>5 DEF DialOk
  <2>3. (config.maxAttempts > 0 =>
           attempts <= config.maxAttempts /\ (loops.asleep > 0 => ~GivenUp))'
    BY <1>5 DEF DialOk
  <2>4. ASSUME NEW d \in Conns, monitor'[d].pc # "none"
        PROVE  /\ loops'.check = 0 /\ loops'.asleep = 0 /\ dialing' = "nobody"
               /\ isConnected' => d = conn'
                                  /\ (monitor'[d].pc = "watch" => monitor'[d].on = conn')
    BY <1>5, <2>4 DEF DialOk
  <2> QED
    BY <2>1, <2>2, <2>3, <2>4
<1>6. CASE DialFail
  BY <1>6 DEF DialFail
<1>7. CASE LoopCheck
  BY <1>7 DEF LoopCheck
<1>8. CASE LoopAttempt
  BY <1>8 DEF LoopAttempt
<1>9. CASE Reconnect
  BY <1>9 DEF Reconnect
<1>10. CASE Close
  BY <1>10 DEF Close
<1>11. CASE UNCHANGED vars
  BY <1>11 DEF vars
<1> QED
  BY <1>1, <1>2, <1>3, <1>4, <1>5, <1>6, <1>7, <1>8, <1>9, <1>10, <1>11 DEF Next, Monitor

\* The inductive invariant: somebody works on the connection, and in automatic mode
\* only one goroutine does, within its attempts.
THEOREM Invariance == Spec => []IInv
<1>1. IInv /\ [Next]_vars => IInv'
  BY TypeStep, LoopsStep, WatchedStep, AutomaticStep DEF IInv
<1> QED
  BY <1>1, InitIInv, PTL DEF Spec

\* Type correctness; and a connected manager has a connection.
THEOREM TypeCorrect == Spec => []TypeOK
<1>1. IInv => TypeOK
  BY DEF IInv
<1> QED
  BY <1>1, Invariance, PTL

\* The connection in use never lacks a monitor, in any configuration.
THEOREM AlwaysWatched == Spec => []Watched
<1>1. IInv => Watched
  BY DEF IInv
<1> QED
  BY <1>1, Invariance, PTL

\* Without the heartbeat's Reconnect every open connection is the manager's.
THEOREM Leakless == Spec => []NoLeak
<1>1. IInv => NoLeak
  BY DEF IInv, AutomaticInv, OneAtATime, NoLeak
<1> QED
  BY <1>1, Invariance, PTL

\* Without the heartbeat's Reconnect no more attempts are made than configured.
THEOREM AttemptsWithinMaximum == Spec => []AttemptsBounded
<1>1. IInv => AttemptsBounded
  BY DEF IInv, AutomaticInv, OneAtATime, AttemptsBounded
<1> QED
  BY <1>1, Invariance, PTL
=============================================================================
