------------------------------ MODULE RpcServer ------------------------------
(***************************************************************************)
(* One server process: the main loop of Handler.Start (server/server.go),  *)
(* which takes deliveries off the device's RPC queue, and the worker pool  *)
(* (server/worker_pool.go) it hands them to.                               *)
(*                                                                         *)
(* Deliveries are auto-acknowledged: the broker forgets a message the      *)
(* moment it is in the process's delivery buffer.  A worker answers what   *)
(* it takes; everything the process holds dies with it.  A new process     *)
(* (a new Handler) may be started after the old one is gone.               *)
(***************************************************************************)
EXTENDS Naturals, Sequences, FiniteSets

CONSTANTS
  Requests,     \* messages with body, ReplyTo and CorrelationId, no heartbeats
  Hanging,      \* those of them that may never end, as a BEGIN that waits
  Empties,      \* messages with no body
  Unaddressed,  \* messages without ReplyTo or CorrelationId
  Workers,      \* worker goroutines (WorkerPoolConfig.WorkerCount)
  QueueSize,    \* WorkerPoolConfig.QueueSize
  NoMsg

Msgs == Requests \cup Empties \cup Unaddressed

ASSUME RSAssumption ==
  /\ Hanging \subseteq Requests
  /\ Requests \cap (Empties \cup Unaddressed) = {}
  /\ Empties \cap Unaddressed = {}
  /\ NoMsg \notin Msgs
  /\ QueueSize \in Nat \ {0} /\ IsFiniteSet(Workers)

VARIABLES
  sent,      \* messages clients have published
  broker,    \* the queue device_<id>_rpc
  inbox,     \* rpcMsgs: deliveries the loop has not looked at
  loop,      \* Handler.Start: "down", "running", "stopping", "returned"
  link,      \* the AMQP connection of the process is up
  cancelled, \* wp.ctx is done
  timedOut,  \* WorkerPool.Stop gave up waiting
  queue,     \* wp.queue
  worker,    \* [Workers -> {"off", "idle", "busy", "exited"}]
  task,      \* [Workers -> Msgs \cup {NoMsg}]
  replies    \* [Msgs -> number of replies published for it]

vars == <<sent, broker, inbox, loop, link, cancelled, timedOut, queue,
          worker, task, replies>>
pool == <<cancelled, timedOut, queue, worker, task>>

\* Types; and a message of no use to a worker never keeps one busy.
TypeOK ==
  /\ sent \in SUBSET Msgs
  /\ broker \in Seq(Msgs) /\ inbox \in Seq(Msgs) /\ queue \in Seq(Msgs)
  /\ Len(queue) <= QueueSize
  /\ loop \in {"down", "running", "stopping", "returned"}
  /\ link \in BOOLEAN /\ cancelled \in BOOLEAN /\ timedOut \in BOOLEAN
  /\ worker \in [Workers -> {"off", "idle", "busy", "exited"}]
  /\ task \in [Workers -> Requests \cup {NoMsg}]
  /\ \A w \in Workers : worker[w] = "busy" <=> task[w] # NoMsg
  /\ replies \in [Msgs -> Nat]

Elems(s)  == {s[k] : k \in DOMAIN s}
Count(m, s) == Cardinality({k \in DOMAIN s : s[k] = m})
InHand(m) == {w \in Workers : task[w] = m}
Answered(m) == replies[m] > 0
\* Published by a client and neither answered nor anywhere to be found.
Lost == {m \in Requests \cap sent :
           ~Answered(m) /\ InHand(m) = {}
           /\ m \notin Elems(broker) \cup Elems(inbox) \cup Elems(queue)}

Init ==
  /\ sent = {}
  /\ broker = <<>> /\ inbox = <<>> /\ queue = <<>>
  /\ loop = "down" /\ link = FALSE /\ cancelled = FALSE /\ timedOut = FALSE
  /\ worker = [w \in Workers |-> "off"]
  /\ task = [w \in Workers |-> NoMsg]
  /\ replies = [m \in Msgs |-> 0]
-----------------------------------------------------------------------------
(* Clients and the broker.                                                 *)

\* A client publishes each of its messages once.
Publish(m) ==
  /\ m \notin sent
  /\ sent' = sent \cup {m} /\ broker' = Append(broker, m)
  /\ UNCHANGED <<inbox, loop, link, pool, replies>>

\* Mutant: the delivery stays in the broker's queue until it is acknowledged.
DeliverKeeps ==
  /\ link /\ broker # <<>> /\ Len(inbox) < 2
  /\ inbox' = Append(inbox, Head(broker))
  /\ UNCHANGED <<sent, broker, loop, link, pool, replies>>

\* ch.Consume with autoAck and no prefetch limit.
Deliver ==
  /\ link /\ broker # <<>>
  /\ inbox' = Append(inbox, Head(broker)) /\ broker' = Tail(broker)
  /\ UNCHANGED <<sent, loop, link, pool, replies>>

\* The connection breaks and the library drops the deliveries it buffered.
\* Start neither notices (it reads empty deliveries from the closed channel
\* and skips them) nor reconnects.
LinkDown ==
  /\ link /\ link' = FALSE
  /\ inbox' = <<>>
  /\ UNCHANGED <<sent, broker, loop, pool, replies>>

\* ch.PublishWithContext: the error of a dead channel is dropped.
Respond(m) == replies' = IF link THEN [replies EXCEPT ![m] = @ + 1] ELSE replies
-----------------------------------------------------------------------------
(* Handler.Start and WorkerPool.                                           *)

\* Mutant: messages the last process lost come back with the next one.
StartRedelivers ==
  /\ loop = "down"
  /\ loop' = "running" /\ link' = TRUE
  /\ worker' = [w \in Workers |-> "idle"]
  /\ inbox' \in IF Lost = {} THEN {<<>>} ELSE {<<m>> : m \in Lost}
  /\ UNCHANGED <<sent, broker, cancelled, timedOut, queue, task, replies>>

\* A new process connects, declares the queues, starts the pool.
Start ==
  /\ loop = "down"
  /\ loop' = "running" /\ link' = TRUE
  /\ worker' = [w \in Workers |-> "idle"]
  /\ UNCHANGED <<sent, broker, inbox, cancelled, timedOut, queue, task,
                 replies>>

\* Mutants: the refused message is dropped, or is put in the queue as well.
SubmitSilent(m) ==
  IF Len(queue) < QueueSize
  THEN queue' = Append(queue, m) /\ UNCHANGED replies
  ELSE UNCHANGED <<queue, replies>>
SubmitTwice(m) ==
  IF Len(queue) < QueueSize
  THEN queue' = Append(queue, m) /\ UNCHANGED replies
  ELSE Respond(m) /\ queue' = Append(Tail(queue), m)

\* SubmitTask: a message that finds the queue full is refused at once, and the
\* loop publishes the refusal.
Submit(m) ==
  IF Len(queue) < QueueSize
  THEN queue' = Append(queue, m) /\ UNCHANGED replies
  ELSE Respond(m) /\ UNCHANGED queue

\* One turn of the select with a delivery: an empty body is skipped.
LoopMessage ==
  /\ loop = "running" /\ inbox # <<>>
  /\ inbox' = Tail(inbox)
  /\ IF Head(inbox) \in Empties
     THEN UNCHANGED <<queue, replies>>
     ELSE Submit(Head(inbox))
  /\ UNCHANGED <<sent, broker, loop, link, cancelled, timedOut, worker, task>>

\* ctx.Done: the loop returns and the deferred WorkerPool.Stop cancels wp.ctx.
LoopDone ==
  /\ loop = "running"
  /\ loop' = "stopping" /\ cancelled' = TRUE
  /\ UNCHANGED <<sent, broker, inbox, link, timedOut, queue, worker, task,
                 replies>>

\* Mutant: processTask does not filter what it cannot answer.
WorkerTakeAny(w) ==
  /\ worker[w] = "idle" /\ queue # <<>>
  /\ queue' = Tail(queue)
  /\ worker' = [worker EXCEPT ![w] = "busy"]
  /\ task' = [task EXCEPT ![w] = Head(queue)]
  /\ UNCHANGED <<sent, broker, inbox, loop, link, cancelled, timedOut,
                 replies>>

\* The worker's select takes a task, even one with ctx.Done ready; processTask
\* returns at once from a message it cannot answer.
WorkerTake(w) ==
  /\ worker[w] = "idle" /\ queue # <<>>
  /\ queue' = Tail(queue)
  /\ IF Head(queue) \in Requests
     THEN /\ worker' = [worker EXCEPT ![w] = "busy"]
          /\ task' = [task EXCEPT ![w] = Head(queue)]
     ELSE UNCHANGED <<worker, task>>
  /\ UNCHANGED <<sent, broker, inbox, loop, link, cancelled, timedOut,
                 replies>>

\* Mutant: the worker dies of the panic it does not recover from.
ProcessTaskPanics(w) ==
  /\ worker[w] = "busy"
  /\ \/ Respond(task[w]) /\ worker' = [worker EXCEPT ![w] = "idle"]
     \/ UNCHANGED replies /\ worker' = [worker EXCEPT ![w] = "exited"]
  /\ task' = [task EXCEPT ![w] = NoMsg]
  /\ UNCHANGED <<sent, broker, inbox, loop, link, cancelled, timedOut, queue>>

\* handleMessage ends in one reply: a result, an error, or the error that the
\* recovery from its panic publishes.
ProcessTask(w) ==
  /\ worker[w] = "busy"
  /\ Respond(task[w])
  /\ worker' = [worker EXCEPT ![w] = "idle"]
  /\ task' = [task EXCEPT ![w] = NoMsg]
  /\ UNCHANGED <<sent, broker, inbox, loop, link, cancelled, timedOut, queue>>

WorkerExit(w) ==
  /\ worker[w] = "idle" /\ cancelled
  /\ worker' = [worker EXCEPT ![w] = "exited"]
  /\ UNCHANGED <<sent, broker, inbox, loop, link, cancelled, timedOut, queue,
                 task, replies>>

\* Mutant: Stop returns without waiting for the workers.
StopReturnsEarly ==
  /\ loop = "stopping"
  /\ loop' = "returned" /\ link' = FALSE
  /\ UNCHANGED <<sent, broker, inbox, pool, replies>>

\* Mutant: Stop waits for the workers without a timeout.
StopTimeoutNever == FALSE /\ UNCHANGED vars

\* WorkerPool.Stop returns; then ch.Close and conn.Close.
StopReturns ==
  /\ loop = "stopping" /\ \A w \in Workers : worker[w] = "exited"
  /\ loop' = "returned" /\ link' = FALSE
  /\ UNCHANGED <<sent, broker, inbox, pool, replies>>

StopTimeout ==
  /\ loop = "stopping" /\ \E w \in Workers : worker[w] # "exited"
  /\ loop' = "returned" /\ link' = FALSE /\ timedOut' = TRUE
  /\ UNCHANGED <<sent, broker, inbox, cancelled, queue, worker, task,
                 replies>>

\* The process ends: Start has returned, or it is killed before that.
ProcessEnds ==
  /\ loop' = "down" /\ link' = FALSE
  /\ inbox' = <<>> /\ queue' = <<>>
  /\ cancelled' = FALSE /\ timedOut' = FALSE
  /\ worker' = [w \in Workers |-> "off"]
  /\ task' = [w \in Workers |-> NoMsg]
  /\ UNCHANGED <<sent, broker, replies>>
Exit  == loop = "returned" /\ ProcessEnds
Crash == loop \in {"running", "stopping"} /\ ProcessEnds
-----------------------------------------------------------------------------
Worker(w) == WorkerTake(w) \/ ProcessTask(w) \/ WorkerExit(w)
Stop == StopReturns \/ StopTimeout

Next ==
  \/ \E m \in Msgs : Publish(m)
  \/ Deliver \/ LinkDown \/ Start \/ LoopMessage \/ LoopDone
  \/ \E w \in Workers : Worker(w)
  \/ Stop \/ Exit \/ Crash

Spec == Init /\ [][Next]_vars

\* The broker delivers, goroutines run, timers fire, and requests end (their
\* handlers have timeouts) but for those that may hang.  Nothing makes a
\* process stop, fail or start.
Fairness ==
  /\ WF_vars(Deliver) /\ WF_vars(LoopMessage) /\ WF_vars(Stop)
  /\ \A w \in Workers :
       /\ WF_vars(WorkerTake(w) \/ WorkerExit(w))
       /\ WF_vars(task[w] \notin Hanging /\ ProcessTask(w))

FairSpec == Spec /\ Fairness
-----------------------------------------------------------------------------
(* Properties.                                                             *)

\* Nobody hears two answers: the paths that answer (a worker, the recovery in
\* processTask, the loop's "Server overloaded") exclude one another.
AtMostOneReply == \A m \in Msgs : replies[m] <= 1

\* A request is in one place only: two workers never run one request.
InOnePlace ==
  \A m \in Requests :
    Count(m, broker) + Count(m, inbox) + Count(m, queue)
      + Cardinality(InHand(m)) + replies[m] <= 1

\* While the process runs and is connected nothing is lost silently: requests
\* go missing only in a crash, at shutdown or when the connection broke.
LostOnlyWithProcess ==
  [][~(Lost' \subseteq Lost) => loop' # "running" \/ ~link']_vars

\* A task a worker has taken is lost only to a crash, a broken connection or a
\* shutdown that timed out: Stop waits for it, and the channel its reply needs
\* is closed only after that.
TakenIsAnswered ==
  [][\A w \in Workers : task[w] \in Lost' =>
       timedOut \/ (loop # "returned" /\ (~link \/ loop' = "down"))]_vars

\* A request in the broker's queue of a connected, running server is answered
\* unless the server stops or its connection breaks first; requests that hang
\* hold up nobody else's as long as a worker is left.
RunningServerAnswers ==
  Cardinality(Hanging) < Cardinality(Workers) =>
    \A m \in Requests \ Hanging :
      (m \in Elems(broker) /\ loop = "running" /\ link) ~>
        (Answered(m) \/ loop # "running" \/ ~link)

\* Shutdown ends though a worker may hang: Start returns or the process dies.
ShutdownEnds == loop = "stopping" ~> loop # "stopping"
-----------------------------------------------------------------------------
(* The server keeps the promise of RequestReply.                           *)

Abstract(m) ==
  CASE m \notin sent -> "new"
    [] Answered(m)   -> "answered"
    [] m \in Lost    -> "lost"
    [] OTHER         -> "pending"

Promise == INSTANCE RequestReply WITH status <- [m \in Requests |-> Abstract(m)]
ImplementsRequestReply == Promise!Spec
=============================================================================
