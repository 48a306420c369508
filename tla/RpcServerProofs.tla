-------------------------- MODULE RpcServerProofs --------------------------
(***************************************************************************)
(* Proofs about RpcServer, for any messages, any finite number of workers  *)
(* and any size of the queue: no request is answered twice or is in two    *)
(* places, what is lost is lost with the process or its connection, and    *)
(* the server implements RequestReply.                                     *)
(***************************************************************************)
EXTENDS RpcServer, FiniteSetTheorems, SequenceTheorems, TLAPS

\* The copies of a message, wherever they are, with its replies.
Copies(m) == Count(m, broker) + Count(m, inbox) + Count(m, queue)
               + Cardinality(InHand(m)) + replies[m]

\* A message has one copy at most, and none before it is published.
CopiesInv == \A m \in Msgs : Copies(m) <= IF m \in sent THEN 1 ELSE 0

\* A process that is down has no workers, and when Stop returned without a timeout
\* all of them are gone.
StopInv ==
  /\ loop = "down" => \A w \in Workers : worker[w] = "off"
  /\ loop = "returned" /\ ~timedOut => \A w \in Workers : worker[w] = "exited"

IInv == TypeOK /\ CopiesInv /\ StopInv

\* A message is somewhere between its client and its answer.
Placed(m) == m \in Elems(broker) \cup Elems(inbox) \cup Elems(queue)
             \/ InHand(m) # {}

\* What a step does to the requests: they stay where they are or move on, some of
\* them go, one is published, one is answered.
Moves == /\ sent' = sent /\ replies' = replies
         /\ \A m \in Requests : Placed(m)' <=> Placed(m)
Drops == /\ sent' = sent /\ replies' = replies
         /\ \A m \in Requests : Placed(m)' => Placed(m)
         /\ loop' # "running" \/ ~link'
Published(p) ==
  /\ p \notin sent /\ sent' = sent \cup {p} /\ replies' = replies
  /\ \A m \in Requests : Placed(m)' <=> (Placed(m) \/ m = p)
Answers(a) ==
  /\ sent' = sent /\ replies' = [replies EXCEPT ![a] = @ + 1]
  /\ Placed(a)
  /\ \A m \in Requests \ {a} : Placed(m)' <=> Placed(m)
-----------------------------------------------------------------------------
(* Lemmas about sequences: how often and whether a message is in one.      *)

\* How often a message is in a sequence is a number; it is positive for the
\* elements of the sequence.
LEMMA CountType ==
  ASSUME NEW S, NEW s \in Seq(S), NEW m
  PROVE  /\ IsFiniteSet({k \in DOMAIN s : s[k] = m})
         /\ Count(m, s) \in Nat
         /\ m \in Elems(s) => Count(m, s) >= 1
<1> DEFINE P == {k \in DOMAIN s : s[k] = m}
<1>1. IsFiniteSet(P)
  <2>1. IsFiniteSet(1 .. Len(s))
    BY FS_Interval, LenProperties
  <2> QED
    BY <2>1, FS_Subset, LenProperties
<1>2. Cardinality(P) \in Nat
  BY <1>1, FS_CardinalityType
<1>3. m \in Elems(s) => P # {}
  BY DEF Elems
<1>4. P # {} => Cardinality(P) # 0
  BY <1>1, FS_EmptySet
<1> QED
  BY <1>1, <1>2, <1>3, <1>4 DEF Count

\* Append adds one occurrence, of the message appended.
LEMMA CountAppend ==
  ASSUME NEW S, NEW s \in Seq(S), NEW x \in S, NEW m
  PROVE  /\ Count(m, Append(s, x)) = Count(m, s) + (IF x = m THEN 1 ELSE 0)
         /\ Elems(Append(s, x)) = Elems(s) \cup {x}
<1> DEFINE P == {k \in DOMAIN s : s[k] = m}
           Q == {k \in DOMAIN Append(s, x) : Append(s, x)[k] = m}
<1>1. /\ DOMAIN s = 1 .. Len(s) /\ Len(s) \in Nat
      /\ DOMAIN Append(s, x) = 1 .. Len(s) + 1
      /\ \A i \in 1 .. Len(s) : Append(s, x)[i] = s[i]
      /\ Append(s, x)[Len(s) + 1] = x
  BY LenProperties, AppendProperties
<1>2. Q = IF x = m THEN P \cup {Len(s) + 1} ELSE P
  BY <1>1
<1>3. Len(s) + 1 \notin P
  BY <1>1
<1>4. IsFiniteSet(P) /\ Cardinality(P) \in Nat
  BY CountType DEF Count
<1> HIDE DEF P, Q
<1>5. Cardinality(P \cup {Len(s) + 1}) = Cardinality(P) + 1
  BY <1>3, <1>4, FS_AddElement
<1>6. Cardinality(Q) = Cardinality(P) + (IF x = m THEN 1 ELSE 0)
  BY <1>2, <1>4, <1>5
<1>7. Elems(Append(s, x)) = Elems(s) \cup {x}
  BY <1>1 DEF Elems
<1> QED
  BY <1>6, <1>7 DEF Count, P, Q

\* Taking the head off removes one occurrence, of the head.
LEMMA CountTail ==
  ASSUME NEW S, NEW s \in Seq(S), s # <<>>, NEW m
  PROVE  /\ Count(m, s) = Count(m, Tail(s)) + (IF Head(s) = m THEN 1 ELSE 0)
         /\ Elems(s) = Elems(Tail(s)) \cup {Head(s)}
<1> DEFINE P == {k \in DOMAIN Tail(s) : Tail(s)[k] = m}
           Q == {k \in DOMAIN s : s[k] = m}
           f == [k \in P |-> k + 1]
<1>1. /\ DOMAIN s = 1 .. Len(s) /\ Len(s) \in Nat \ {0}
      /\ DOMAIN Tail(s) = 1 .. Len(s) - 1 /\ Tail(s) \in Seq(S)
      /\ \A i \in 1 .. Len(s) - 1 : Tail(s)[i] = s[i + 1]
      /\ Head(s) = s[1]
  BY LenProperties, HeadTailProperties, EmptySeq
<1>2. IsFiniteSet(P) /\ Cardinality(P) \in Nat
  BY <1>1, CountType DEF Count
<1>3. IsFiniteSet(Q) /\ Cardinality(Q) \in Nat
  BY CountType DEF Count
<1>4. f \in Bijection(P, Q \ {1})
  <2>1. f \in [P -> Q \ {1}]
    BY <1>1
  <2>2. \A a, b \in P : f[a] = f[b] => a = b
    BY <1>1
  <2>3. \A q \in Q \ {1} : \E p \in P : f[p] = q
    <3> SUFFICES ASSUME NEW q \in Q \ {1} PROVE \E p \in P : f[p] = q
      OBVIOUS
    <3>1. q - 1 \in P
      BY <1>1
    <3>2. f[q - 1] = q
      BY <1>1, <3>1
    <3> QED
      BY <3>1, <3>2
  <2> QED
    BY <2>1, <2>2, <2>3 DEF Bijection, Injection, Surjection, IsInjective
<1>5. Cardinality(Q \ {1}) = Cardinality(P)
  BY <1>2, <1>4, FS_Bijection DEF ExistsBijection
<1>6. Cardinality(Q \ {1}) = IF 1 \in Q THEN Cardinality(Q) - 1 ELSE Cardinality(Q)
  BY <1>3, FS_RemoveElement
<1>7. 1 \in Q <=> Head(s) = m
  BY <1>1
<1>8. Elems(s) = Elems(Tail(s)) \cup {Head(s)}
  <2>1. ASSUME NEW k \in 1 .. Len(s) PROVE s[k] \in Elems(Tail(s)) \cup {Head(s)}
    <3>1. k # 1 => k - 1 \in DOMAIN Tail(s) /\ Tail(s)[k - 1] = s[k]
      BY <1>1
    <3> QED
      BY <1>1, <3>1 DEF Elems
  <2>2. ASSUME NEW k \in DOMAIN Tail(s) PROVE Tail(s)[k] \in Elems(s)
    BY <1>1 DEF Elems
  <2> QED
    BY <1>1, <2>1, <2>2 DEF Elems
<1>9. Cardinality(Q) = Cardinality(P) + (IF Head(s) = m THEN 1 ELSE 0)
  <2> HIDE DEF P, Q
  <2> QED
    BY <1>2, <1>3, <1>5, <1>6, <1>7
<1> QED
  BY <1>8, <1>9 DEF Count

\* The empty sequence has no elements.
LEMMA CountEmpty == ASSUME NEW m PROVE Count(m, <<>>) = 0 /\ Elems(<<>>) = {}
<1>1. DOMAIN <<>> = {}
  OBVIOUS
<1> QED
  BY <1>1, FS_EmptySet DEF Count, Elems
-----------------------------------------------------------------------------
(* Lemmas about copies.                                                    *)

\* The workers that have a message in hand, by the function that says so.
LEMMA HandType ==
  ASSUME NEW t, NEW m
  PROVE  LET H == {w \in Workers : t[w] = m} IN
         IsFiniteSet(H) /\ Cardinality(H) \in Nat /\ (H # {} => Cardinality(H) >= 1)
<1> DEFINE H == {w \in Workers : t[w] = m}
<1>1. IsFiniteSet(H)
  BY RSAssumption, FS_Subset
<1>2. Cardinality(H) \in Nat /\ (H # {} => Cardinality(H) # 0)
  BY <1>1, FS_CardinalityType, FS_EmptySet
<1> QED
  BY <1>1, <1>2

\* The parts of a message's copies are numbers, and a message that is somewhere
\* has a copy besides its replies.
LEMMA CopiesType ==
  ASSUME TypeOK, NEW m \in Msgs
  PROVE  /\ Count(m, broker) \in Nat /\ Count(m, inbox) \in Nat
         /\ Count(m, queue) \in Nat /\ Cardinality(InHand(m)) \in Nat
         /\ replies[m] \in Nat
         /\ Placed(m) => Copies(m) >= 1 + replies[m]
<1>1. /\ Count(m, broker) \in Nat /\ (m \in Elems(broker) => Count(m, broker) >= 1)
      /\ Count(m, inbox) \in Nat /\ (m \in Elems(inbox) => Count(m, inbox) >= 1)
      /\ Count(m, queue) \in Nat /\ (m \in Elems(queue) => Count(m, queue) >= 1)
  BY CountType DEF TypeOK
<1>2. Cardinality(InHand(m)) \in Nat /\ (InHand(m) # {} => Cardinality(InHand(m)) >= 1)
  BY HandType DEF InHand
<1>3. replies[m] \in Nat
  BY DEF TypeOK
<1> QED
  BY <1>1, <1>2, <1>3 DEF Placed, Copies

\* A message that is somewhere was published and has no answer yet.
LEMMA PlacedIsPending ==
  ASSUME IInv, NEW m \in Msgs, Placed(m)
  PROVE  m \in sent /\ replies[m] = 0
BY CopiesType DEF IInv, CopiesInv, Copies

\* Copies that do not increase stay within bounds.
LEMMA CopiesStep ==
  ASSUME IInv, sent' = sent, \A m \in Msgs : Copies(m)' <= Copies(m),
         \A m \in Msgs : Copies(m)' \in Int
  PROVE  CopiesInv'
<1> SUFFICES ASSUME NEW m \in Msgs
             PROVE  Copies(m)' <= IF m \in sent THEN 1 ELSE 0
  BY DEF CopiesInv
<1>1. Copies(m) \in Int /\ Copies(m) <= IF m \in sent THEN 1 ELSE 0
  BY CopiesType DEF IInv, CopiesInv, Copies
<1> QED
  BY <1>1
-----------------------------------------------------------------------------
(* One lemma per action: it preserves the inductive invariant, and does to   *)
(* the requests what is said of it.                                          *)

\* A new message is published: it had no copies and has one.
LEMMA PublishStep ==
  ASSUME IInv, NEW p \in Msgs, Publish(p)
  PROVE  IInv' /\ Published(p)
<1> USE DEF IInv
<1>1. TypeOK'
  BY AppendProperties DEF TypeOK, Publish, pool
<1>2. StopInv'
  BY DEF StopInv, Publish, pool
<1>3. ASSUME NEW m \in Msgs
      PROVE  /\ Count(m, broker)' = Count(m, broker) + (IF p = m THEN 1 ELSE 0)
             /\ Elems(broker)' = Elems(broker) \cup {p}
             /\ UNCHANGED <<Count(m, inbox), Elems(inbox), Count(m, queue), Elems(queue),
                            InHand(m), replies>>
  <2>1. /\ Count(m, Append(broker, p)) = Count(m, broker) + (IF p = m THEN 1 ELSE 0)
        /\ Elems(Append(broker, p)) = Elems(broker) \cup {p}
    BY CountAppend DEF TypeOK
  <2> QED
    BY <2>1 DEF Publish, pool, Count, Elems, InHand
<1>4. CopiesInv'
  <2> SUFFICES ASSUME NEW m \in Msgs
               PROVE  Copies(m)' <= IF m \in sent' THEN 1 ELSE 0
    BY DEF CopiesInv
  <2>1. Copies(m)' = Copies(m) + (IF p = m THEN 1 ELSE 0)
    BY <1>3, CopiesType DEF Copies
  <2>2. Copies(m) \in Int /\ Copies(m) <= IF m \in sent THEN 1 ELSE 0
    BY CopiesType DEF CopiesInv, Copies
  <2>3. p \notin sent /\ sent' = sent \cup {p}
    BY DEF Publish
  <2> QED
    BY <2>1, <2>2, <2>3
<1>5. \A m \in Requests : Placed(m)' <=> (Placed(m) \/ m = p)
  BY <1>3 DEF Placed, Msgs
<1> QED
  BY <1>1, <1>2, <1>4, <1>5 DEF Publish, Published

\* The broker delivers: the message moves to the inbox.
LEMMA DeliverStep == ASSUME IInv, Deliver PROVE IInv' /\ Moves
<1> USE DEF IInv
<1>1. /\ Head(broker) \in Msgs /\ Tail(broker) \in Seq(Msgs)
      /\ Append(inbox, Head(broker)) \in Seq(Msgs)
  BY HeadTailProperties, AppendProperties DEF TypeOK, Deliver
<1>2. TypeOK'
  BY <1>1 DEF TypeOK, Deliver, pool
<1>3. StopInv'
  BY DEF StopInv, Deliver, pool
<1>4. ASSUME NEW m \in Msgs
      PROVE  /\ Count(m, inbox)' = Count(m, inbox) + (IF Head(broker) = m THEN 1 ELSE 0)
             /\ Elems(inbox)' = Elems(inbox) \cup {Head(broker)}
             /\ Count(m, broker) = Count(m, broker)' + (IF Head(broker) = m THEN 1 ELSE 0)
             /\ Count(m, broker)' \in Nat
             /\ Elems(broker) = Elems(broker)' \cup {Head(broker)}
             /\ UNCHANGED <<Count(m, queue), Elems(queue), InHand(m), replies>>
  <2>1. /\ Count(m, Append(inbox, Head(broker)))
             = Count(m, inbox) + (IF Head(broker) = m THEN 1 ELSE 0)
        /\ Elems(Append(inbox, Head(broker))) = Elems(inbox) \cup {Head(broker)}
    <3>1. inbox \in Seq(Msgs) /\ Head(broker) \in Msgs
      BY <1>1 DEF TypeOK
    <3> QED
      BY <3>1, CountAppend
  <2>2. /\ Count(m, broker)
             = Count(m, Tail(broker)) + (IF Head(broker) = m THEN 1 ELSE 0)
        /\ Elems(broker) = Elems(Tail(broker)) \cup {Head(broker)}
        /\ Count(m, Tail(broker)) \in Nat
    BY <1>1, CountTail, CountType DEF TypeOK, Deliver
  <2> QED
    BY <2>1, <2>2 DEF Deliver, pool, Count, Elems, InHand
<1>5. \A m \in Msgs : Copies(m)' = Copies(m) /\ Copies(m)' \in Int
  BY <1>4, CopiesType DEF Copies
<1>6. \A m \in Msgs : Placed(m)' <=> Placed(m)
  BY <1>4 DEF Placed
<1>7. CopiesInv'
  BY <1>5, CopiesStep DEF Deliver
<1> QED
  BY <1>2, <1>3, <1>6, <1>7 DEF Moves, Deliver, Msgs

\* Steps that touch neither sequences nor hands nor replies.
LEMMA QuietStep ==
  ASSUME IInv, UNCHANGED <<sent, broker, inbox, queue, task, replies>>
  PROVE  CopiesInv' /\ Moves
<1>1. \A m \in Msgs : Copies(m)' = Copies(m) /\ (Placed(m)' <=> Placed(m))
  BY DEF Copies, Placed, Count, Elems, InHand
<1> QED
  BY <1>1 DEF IInv, CopiesInv, Moves, Msgs

\* A process starts.  The messages its loop will find are still the broker's.
LEMMA StartStep == ASSUME IInv, Start PROVE IInv' /\ Moves
<1>1. TypeOK'
  BY DEF IInv, TypeOK, StopInv, Start
<1>2. StopInv'
  BY DEF StopInv, Start
<1> QED
  BY <1>1, <1>2, QuietStep DEF IInv, Start

\* The loop ends: what it and the pool hold they keep for now.
LEMMA LoopDoneStep == ASSUME IInv, LoopDone PROVE IInv' /\ Moves
<1>1. TypeOK'
  BY DEF IInv, TypeOK, LoopDone
<1>2. StopInv'
  BY DEF StopInv, LoopDone
<1> QED
  BY <1>1, <1>2, QuietStep DEF IInv, LoopDone

\* A worker ends: it was idle, so it held nothing.
LEMMA WorkerExitStep ==
  ASSUME IInv, NEW w \in Workers, WorkerExit(w) PROVE IInv' /\ Moves
<1>1. TypeOK'
  BY DEF IInv, TypeOK, WorkerExit
<1>2. StopInv'
  BY DEF IInv, TypeOK, StopInv, WorkerExit
<1> QED
  BY <1>1, <1>2, QuietStep DEF IInv, WorkerExit

\* Stop ends: its two ways out tell whether the workers have ended.
LEMMA StopStep == ASSUME IInv, Stop PROVE IInv' /\ Moves
<1>1. TypeOK'
  BY DEF IInv, TypeOK, Stop, StopReturns, StopTimeout, pool
<1>2. StopInv'
  BY DEF IInv, TypeOK, StopInv, Stop, StopReturns, StopTimeout, pool
<1> QED
  BY <1>1, <1>2, QuietStep DEF IInv, Stop, StopReturns, StopTimeout, pool

\* The connection breaks: the deliveries in the inbox are dropped.
LEMMA LinkDownStep == ASSUME IInv, LinkDown PROVE IInv' /\ Drops
<1> USE DEF IInv
<1>1. TypeOK'
  BY EmptySeq DEF TypeOK, LinkDown, pool
<1>2. StopInv'
  BY DEF StopInv, LinkDown, pool
<1>3. ASSUME NEW m \in Msgs
      PROVE  /\ Count(m, inbox)' = 0 /\ Elems(inbox)' = {}
             /\ UNCHANGED <<Count(m, broker), Elems(broker), Count(m, queue),
                            Elems(queue), InHand(m), replies>>
  BY CountEmpty DEF LinkDown, pool, InHand
<1>4. \A m \in Msgs : Copies(m)' <= Copies(m) /\ Copies(m)' \in Int
  BY <1>3, CopiesType DEF Copies
<1>5. \A m \in Msgs : Placed(m)' => Placed(m)
  BY <1>3 DEF Placed
<1>6. CopiesInv'
  BY <1>4, CopiesStep DEF LinkDown
<1> QED
  BY <1>1, <1>2, <1>5, <1>6 DEF Drops, LinkDown, Msgs

\* The process ends: all it held goes.
LEMMA ProcessEndsStep ==
  ASSUME IInv, ProcessEnds
  PROVE  IInv' /\ Drops
<1> USE DEF IInv
<1>1. TypeOK'
  <2>1. <<>> \in Seq(Msgs) /\ Len(<<>>) <= QueueSize
    BY RSAssumption, EmptySeq
  <2> QED
    BY <2>1 DEF TypeOK, ProcessEnds
<1>2. StopInv'
  BY DEF StopInv, ProcessEnds
<1>3. ASSUME NEW m \in Msgs
      PROVE  /\ Count(m, inbox)' = 0 /\ Elems(inbox)' = {}
             /\ Count(m, queue)' = 0 /\ Elems(queue)' = {}
             /\ InHand(m)' = {} /\ Cardinality(InHand(m))' = 0
             /\ UNCHANGED <<Count(m, broker), Elems(broker), replies>>
  <2>1. InHand(m)' = {}
    BY RSAssumption DEF ProcessEnds, InHand
  <2>2. Cardinality({}) = 0
    BY FS_EmptySet
  <2> QED
    BY <2>1, <2>2, CountEmpty DEF ProcessEnds
<1>4. \A m \in Msgs : Copies(m)' <= Copies(m) /\ Copies(m)' \in Int
  BY <1>3, CopiesType DEF Copies
<1>5. \A m \in Msgs : Placed(m)' => Placed(m)
  BY <1>3 DEF Placed
<1>6. CopiesInv'
  BY <1>4, CopiesStep DEF ProcessEnds
<1> QED
  BY <1>1, <1>2, <1>5, <1>6 DEF Drops, ProcessEnds, Msgs

\* A worker takes a message off the queue: a request moves into its hand.
LEMMA WorkerTakeStep ==
  ASSUME IInv, NEW w \in Workers, WorkerTake(w) PROVE IInv' /\ Moves
<1> USE DEF IInv
<1> DEFINE h == Head(queue)
<1>1. h \in Msgs /\ Tail(queue) \in Seq(Msgs) /\ Len(Tail(queue)) = Len(queue) - 1
  BY HeadTailProperties DEF TypeOK, WorkerTake
<1>2. TypeOK'
  <2>1. Len(queue) \in Nat /\ QueueSize \in Nat
    BY RSAssumption, LenProperties DEF TypeOK
  <2>2. queue' \in Seq(Msgs) /\ Len(queue') <= QueueSize
    BY <1>1, <2>1 DEF TypeOK, WorkerTake
  <2> QED
    BY <2>2, RSAssumption DEF TypeOK, WorkerTake, Msgs
<1>3. StopInv'
  BY DEF TypeOK, StopInv, WorkerTake
<1>4. ASSUME NEW m \in Msgs
      PROVE  /\ Count(m, queue) = Count(m, queue)' + (IF h = m THEN 1 ELSE 0)
             /\ Count(m, queue)' \in Nat
             /\ Elems(queue) = Elems(queue)' \cup {h}
             /\ UNCHANGED <<Count(m, broker), Elems(broker), Count(m, inbox),
                            Elems(inbox), replies>>
  <2>1. /\ Count(m, queue) = Count(m, Tail(queue)) + (IF h = m THEN 1 ELSE 0)
        /\ Elems(queue) = Elems(Tail(queue)) \cup {h}
        /\ Count(m, Tail(queue)) \in Nat
    BY <1>1, CountTail, CountType DEF TypeOK, WorkerTake
  <2> QED
    BY <2>1 DEF WorkerTake
<1>5. ASSUME NEW m \in Msgs
      PROVE  /\ InHand(m)' = IF h = m /\ h \in Requests THEN InHand(m) \cup {w} ELSE InHand(m)
             /\ Cardinality(InHand(m))' =
                  IF h = m /\ h \in Requests THEN Cardinality(InHand(m)) + 1
                  ELSE Cardinality(InHand(m))
  <2>1. task[w] = NoMsg /\ NoMsg \notin Msgs
    BY RSAssumption DEF TypeOK, WorkerTake
  <2>2. InHand(m)' = IF h = m /\ h \in Requests THEN InHand(m) \cup {w} ELSE InHand(m)
    BY <2>1 DEF TypeOK, WorkerTake, InHand
  <2>3. w \notin InHand(m)
    BY <2>1 DEF InHand
  <2>4. IsFiniteSet(InHand(m))
    BY HandType DEF InHand
  <2>5. /\ Cardinality(InHand(m) \cup {w}) = Cardinality(InHand(m)) + 1
        /\ Cardinality(InHand(m)) \in Nat
    BY <2>3, <2>4, FS_AddElement, FS_CardinalityType
  <2> QED
    BY <2>2, <2>5
<1>6. \A m \in Msgs : Copies(m)' <= Copies(m) /\ Copies(m)' \in Int
  BY <1>4, <1>5, CopiesType DEF Copies
<1>7. \A m \in Requests : Placed(m)' <=> Placed(m)
  BY <1>4, <1>5 DEF Placed, Msgs
<1>8. CopiesInv'
  BY <1>6, CopiesStep DEF WorkerTake
<1> QED
  BY <1>2, <1>3, <1>7, <1>8 DEF Moves, WorkerTake

\* A reply that is not published changes nothing; one that is counts.
LEMMA RespondEffect ==
  ASSUME TypeOK, NEW a \in Msgs, Respond(a)
  PROVE  /\ replies' \in [Msgs -> Nat]
         /\ \A m \in Msgs : /\ replies[m] \in Nat
                            /\ replies'[m] = replies[m] + (IF m = a /\ link THEN 1 ELSE 0)
BY DEF TypeOK, Respond

\* A worker is done with its task: its copy becomes a reply or, with no
\* connection, nothing.
LEMMA ProcessTaskStep ==
  ASSUME IInv, NEW w \in Workers, ProcessTask(w)
  PROVE  IInv' /\ (IF link THEN Answers(task[w]) ELSE Drops)
<1> USE DEF IInv
<1> DEFINE a == task[w]
<1>1. a \in Requests /\ a \in Msgs /\ NoMsg \notin Msgs
  BY RSAssumption DEF TypeOK, ProcessTask, Msgs
<1>2. /\ replies' \in [Msgs -> Nat]
      /\ \A m \in Msgs : /\ replies[m] \in Nat
                         /\ replies'[m] = replies[m] + (IF m = a /\ link THEN 1 ELSE 0)
  BY <1>1, RespondEffect DEF ProcessTask
<1>3. TypeOK'
  BY <1>1, <1>2 DEF TypeOK, ProcessTask
<1>4. StopInv'
  BY DEF TypeOK, StopInv, ProcessTask
<1>5. ASSUME NEW m \in Msgs
      PROVE  /\ InHand(m)' = IF m = a THEN InHand(m) \ {w} ELSE InHand(m)
             /\ Cardinality(InHand(m))' =
                  IF m = a THEN Cardinality(InHand(m)) - 1 ELSE Cardinality(InHand(m))
             /\ m = a => Cardinality(InHand(m)) >= 1
  <2>1. InHand(m)' = IF m = a THEN InHand(m) \ {w} ELSE InHand(m)
    BY <1>1 DEF TypeOK, ProcessTask, InHand
  <2>2. m = a => w \in InHand(m)
    BY DEF InHand
  <2>3. IsFiniteSet(InHand(m)) /\ (InHand(m) # {} => Cardinality(InHand(m)) >= 1)
    BY HandType DEF InHand
  <2> QED
    BY <2>1, <2>2, <2>3, FS_RemoveElement
<1>6. \A m \in Msgs : UNCHANGED <<Count(m, broker), Count(m, inbox), Count(m, queue),
                                  Elems(broker), Elems(inbox), Elems(queue)>>
  BY DEF ProcessTask
<1>7. \A m \in Msgs : Copies(m)' <= Copies(m) /\ Copies(m)' \in Int
  <2> TAKE m \in Msgs
  <2>1. replies[m]' = replies[m] + (IF m = a /\ link THEN 1 ELSE 0)
    BY <1>2
  <2> QED
    BY <1>5, <1>6, <2>1, CopiesType DEF Copies
<1>8. CopiesInv'
  BY <1>7, CopiesStep DEF ProcessTask
<1>9. CASE link
  <2>1. Placed(a)
    BY DEF Placed, InHand
  <2>2. \A m \in Requests \ {a} : Placed(m)' <=> Placed(m)
    BY <1>5, <1>6 DEF Placed, Msgs
  <2>3. sent' = sent /\ replies' = [replies EXCEPT ![a] = @ + 1]
    BY <1>9 DEF ProcessTask, Respond
  <2> QED
    BY <1>3, <1>4, <1>8, <1>9, <2>1, <2>2, <2>3 DEF Answers
<1>10. CASE ~link
  <2>1. \A m \in Requests : Placed(m)' => Placed(m)
    BY <1>5, <1>6 DEF Placed, Msgs
  <2>2. sent' = sent /\ replies' = replies /\ ~link'
    BY <1>10 DEF ProcessTask, Respond
  <2> QED
    BY <1>3, <1>4, <1>8, <1>10, <2>1, <2>2 DEF Drops
<1> QED
  BY <1>9, <1>10

\* The loop takes a delivery: it is skipped, or queued, or refused.
LEMMA LoopMessageStep ==
  ASSUME IInv, LoopMessage
  PROVE  IInv' /\ (Moves \/ Drops \/ \E a \in Msgs : Answers(a))
<1> USE DEF IInv
<1> DEFINE h == Head(inbox)
<1>1. h \in Msgs /\ Tail(inbox) \in Seq(Msgs) /\ Len(queue) \in Nat
  BY HeadTailProperties, LenProperties DEF TypeOK, LoopMessage
<1>2. ASSUME NEW m \in Msgs
      PROVE  /\ Count(m, inbox) = Count(m, inbox)' + (IF h = m THEN 1 ELSE 0)
             /\ Count(m, inbox)' \in Nat
             /\ Elems(inbox) = Elems(inbox)' \cup {h}
             /\ UNCHANGED <<Count(m, broker), Elems(broker), InHand(m)>>
  <2>1. /\ Count(m, inbox) = Count(m, Tail(inbox)) + (IF h = m THEN 1 ELSE 0)
        /\ Elems(inbox) = Elems(Tail(inbox)) \cup {h}
        /\ Count(m, Tail(inbox)) \in Nat
    BY <1>1, CountTail, CountType DEF TypeOK, LoopMessage
  <2> QED
    BY <2>1 DEF LoopMessage, InHand
<1>3. StopInv'
  BY DEF StopInv, LoopMessage
<1>4. CASE h \in Empties
  <2>1. UNCHANGED <<queue, replies>>
    BY <1>4 DEF LoopMessage
  <2>2. TypeOK'
    BY <1>1, <2>1 DEF TypeOK, LoopMessage
  <2>3. \A m \in Msgs : UNCHANGED <<Count(m, queue), Elems(queue), replies[m]>>
    BY <2>1
  <2>4. \A m \in Msgs : Copies(m)' <= Copies(m) /\ Copies(m)' \in Int
    BY <1>2, <2>3, CopiesType DEF Copies
  <2>5. \A m \in Requests : Placed(m)' <=> Placed(m)
    BY <1>2, <1>4, <2>3, RSAssumption DEF Placed, Msgs
  <2>6. CopiesInv'
    BY <2>4, CopiesStep DEF LoopMessage
  <2> QED
    BY <1>3, <2>1, <2>2, <2>5, <2>6 DEF Moves, LoopMessage
<1>5. CASE h \notin Empties /\ Len(queue) < QueueSize
  <2>1. queue' = Append(queue, h) /\ replies' = replies
    BY <1>5 DEF LoopMessage, Submit
  <2>2. TypeOK'
    <3>1. queue' \in Seq(Msgs) /\ Len(queue') <= QueueSize
      BY <1>1, <1>5, <2>1, AppendProperties, RSAssumption DEF TypeOK
    <3> QED
      BY <1>1, <2>1, <3>1 DEF TypeOK, LoopMessage
  <2>3. ASSUME NEW m \in Msgs
        PROVE  /\ Count(m, queue)' = Count(m, queue) + (IF h = m THEN 1 ELSE 0)
               /\ Elems(queue)' = Elems(queue) \cup {h}
               /\ replies[m]' = replies[m]
    <3>1. queue \in Seq(Msgs) /\ h \in Msgs
      BY <1>1 DEF TypeOK
    <3>2. /\ Count(m, Append(queue, h)) = Count(m, queue) + (IF h = m THEN 1 ELSE 0)
          /\ Elems(Append(queue, h)) = Elems(queue) \cup {h}
      BY <3>1, CountAppend
    <3> QED
      BY <2>1, <3>2
  <2>4. \A m \in Msgs : Copies(m)' <= Copies(m) /\ Copies(m)' \in Int
    BY <1>2, <2>3, CopiesType DEF Copies
  <2>5. \A m \in Requests : Placed(m)' <=> Placed(m)
    BY <1>2, <2>3 DEF Placed, Msgs
  <2>6. CopiesInv'
    BY <2>4, CopiesStep DEF LoopMessage
  <2> QED
    BY <1>3, <2>1, <2>2, <2>5, <2>6 DEF Moves, LoopMessage
<1>6. CASE h \notin Empties /\ ~(Len(queue) < QueueSize)
  <2>1. Respond(h) /\ queue' = queue
    BY <1>6 DEF LoopMessage, Submit
  <2>2. /\ replies' \in [Msgs -> Nat]
        /\ \A m \in Msgs : /\ replies[m] \in Nat
                           /\ replies'[m] = replies[m] + (IF m = h /\ link THEN 1 ELSE 0)
    BY <1>1, <2>1, RespondEffect
  <2>3. TypeOK'
    BY <1>1, <2>1, <2>2 DEF TypeOK, LoopMessage
  <2>4. \A m \in Msgs : UNCHANGED <<Count(m, queue), Elems(queue)>>
    BY <2>1
  <2>5. \A m \in Msgs : Copies(m)' <= Copies(m) /\ Copies(m)' \in Int
    <3> TAKE m \in Msgs
    <3>1. replies[m]' = replies[m] + (IF m = h /\ link THEN 1 ELSE 0)
      BY <2>2
    <3> QED
      BY <1>2, <2>4, <3>1, CopiesType DEF Copies
  <2>6. CopiesInv'
    BY <2>5, CopiesStep DEF LoopMessage
  <2>7. /\ \A m \in Msgs : Placed(m)' => Placed(m)
        /\ \A m \in Msgs \ {h} : Placed(m) => Placed(m)'
        /\ Placed(h)
    BY <1>1, <1>2, <2>4 DEF Placed
  <2>8. CASE link
    <3>1. Answers(h)
      BY <2>1, <2>7, <2>8 DEF Answers, Respond, LoopMessage, Msgs
    <3> QED
      BY <1>1, <1>3, <2>3, <2>6, <3>1
  <2>9. CASE ~link
    <3>1. Drops
      BY <2>1, <2>7, <2>9 DEF Drops, Respond, LoopMessage, Msgs
    <3> QED
      BY <1>3, <2>3, <2>6, <3>1
  <2> QED
    BY <2>8, <2>9
<1> QED
  BY <1>4, <1>5, <1>6
-----------------------------------------------------------------------------
(* The whole next-state relation.                                          *)

\* At first there are no messages anywhere.
LEMMA InitIInv == Init => IInv
<1> SUFFICES ASSUME Init PROVE IInv
  OBVIOUS
<1>1. TypeOK
  <2>1. <<>> \in Seq(Msgs) /\ Len(<<>>) <= QueueSize
    BY RSAssumption, EmptySeq
  <2> QED
    BY <2>1 DEF Init, TypeOK
<1>2. StopInv
  BY DEF Init, StopInv
<1>3. CopiesInv
  <2> SUFFICES ASSUME NEW m \in Msgs PROVE Copies(m) <= IF m \in sent THEN 1 ELSE 0
    BY DEF CopiesInv
  <2>1. InHand(m) = {} /\ Cardinality({}) = 0
    BY RSAssumption, FS_EmptySet DEF Init, InHand
  <2>2. Count(m, broker) = 0 /\ Count(m, inbox) = 0 /\ Count(m, queue) = 0
    BY CountEmpty DEF Init
  <2> QED
    BY <2>1, <2>2 DEF Init, Copies
<1> QED
  BY <1>1, <1>2, <1>3 DEF IInv

\* Every step preserves the inductive invariant and is of one of four kinds.
LEMMA NextIInv ==
  ASSUME IInv, [Next]_vars
  PROVE  /\ IInv'
         /\ \/ Moves \/ Drops
            \/ \E m \in Msgs : Published(m) \/ Answers(m)
<1>1. CASE \E m \in Msgs : Publish(m)
  BY <1>1, PublishStep
<1>2. CASE Deliver \/ LinkDown \/ Start \/ LoopDone \/ Stop
  BY <1>2, DeliverStep, LinkDownStep, StartStep, LoopDoneStep, StopStep
<1>3. CASE LoopMessage
  BY <1>3, LoopMessageStep
<1>4. ASSUME NEW w \in Workers, Worker(w)
      PROVE  IInv' /\ (Moves \/ Drops \/ \E m \in Msgs : Answers(m))
  <2>1. CASE WorkerTake(w) \/ WorkerExit(w)
    BY <2>1, WorkerTakeStep, WorkerExitStep
  <2>2. CASE ProcessTask(w)
    <3>1. task[w] \in Msgs
      BY <2>2 DEF IInv, TypeOK, ProcessTask, Msgs
    <3> QED
      BY <2>2, <3>1, ProcessTaskStep
  <2> QED
    BY <1>4, <2>1, <2>2 DEF Worker
<1>5. CASE Exit \/ Crash
  BY <1>5, ProcessEndsStep DEF Exit, Crash
<1>6. CASE UNCHANGED vars
  <2>1. TypeOK' /\ StopInv'
    BY <1>6 DEF IInv, TypeOK, StopInv, vars
  <2> QED
    BY <1>6, <2>1, QuietStep DEF IInv, vars
<1> QED
  BY <1>1, <1>2, <1>3, <1>4, <1>5, <1>6 DEF Next

\* The inductive invariant: types, at most one copy of a message, no workers
\* left when the process is down or Stop has waited for them.
THEOREM Invariance == Spec => []IInv
<1>1. IInv /\ [Next]_vars => IInv'
  BY NextIInv
<1> QED
  BY <1>1, InitIInv, PTL DEF Spec

\* Type correctness; and a worker is busy exactly when it has a request.
THEOREM TypeCorrect == Spec => []TypeOK
<1>1. IInv => TypeOK
  BY DEF IInv
<1> QED
  BY <1>1, Invariance, PTL

\* Nobody hears two answers: worker, panic recovery and the "Server overloaded"
\* of the loop exclude one another.
THEOREM OneReply == Spec => []AtMostOneReply
<1>1. IInv => AtMostOneReply
  BY CopiesType DEF IInv, CopiesInv, Copies, AtMostOneReply
<1> QED
  BY <1>1, Invariance, PTL

\* A request is in one place: no two workers run it, and none runs it while it
\* is queued or after it was answered.
THEOREM OnePlace == Spec => []InOnePlace
<1>1. IInv => InOnePlace
  <2> SUFFICES ASSUME IInv, NEW m \in Requests PROVE Copies(m) <= 1
    BY DEF InOnePlace, Copies
  <2>1. m \in Msgs
    BY DEF Msgs
  <2> QED
    BY <2>1, CopiesType DEF IInv, CopiesInv, Copies
<1> QED
  BY <1>1, Invariance, PTL
-----------------------------------------------------------------------------
(* What is lost, and the refinement of RequestReply.                       *)

\* Only steps that drop requests lose any; what is lost stays so.
LEMMA LostStep ==
  ASSUME IInv, IInv'
  PROVE  /\ Moves => Lost' = Lost
         /\ \A m \in Msgs : Published(m) \/ Answers(m) => Lost' = Lost
         /\ Drops => Lost \subseteq Lost'
<1>1. Lost = {m \in Requests \cap sent : replies[m] = 0 /\ ~Placed(m)}
  BY CopiesType DEF Lost, Placed, Answered, IInv, Msgs
<1>2. Lost' = {m \in Requests \cap sent' : replies'[m] = 0 /\ ~Placed(m)'}
  BY DEF Lost, Placed, Answered, IInv, TypeOK, Msgs
<1>3. Moves => Lost' = Lost
  BY <1>1, <1>2 DEF Moves
<1>4. Drops => Lost \subseteq Lost'
  BY <1>1, <1>2 DEF Drops
<1>5. ASSUME NEW p \in Msgs, Published(p) PROVE Lost' = Lost
  BY <1>1, <1>2, <1>5 DEF Published
<1>6. ASSUME NEW a \in Msgs, Answers(a) PROVE Lost' = Lost
  <2>1. replies'[a] # 0 /\ \A m \in Msgs \ {a} : replies'[m] = replies[m]
    BY <1>6 DEF Answers, IInv, TypeOK
  <2>2. Placed(a) /\ sent' = sent /\ \A m \in Requests \ {a} : Placed(m)' <=> Placed(m)
    BY <1>6 DEF Answers
  <2> QED
    BY <1>1, <1>2, <2>1, <2>2 DEF Msgs
<1> QED
  BY <1>3, <1>4, <1>5, <1>6

\* While the process runs and is connected nothing is lost silently.
THEOREM LossNeedsFailure == Spec => LostOnlyWithProcess
<1>1. ASSUME IInv, IInv', [Next]_vars, ~(Lost' \subseteq Lost)
      PROVE  loop' # "running" \/ ~link'
  BY <1>1, NextIInv, LostStep DEF Drops
<1> QED
  BY <1>1, Invariance, PTL DEF Spec, LostOnlyWithProcess

\* The task a worker has taken is lost only with the process, its connection or
\* a Stop that timed out.
LEMMA TakenStep ==
  ASSUME IInv, [Next]_vars, NEW w \in Workers, task[w] \in Lost'
  PROVE  timedOut \/ (loop # "returned" /\ (~link \/ loop' = "down"))
<1> DEFINE m == task[w]
<1>1. IInv'
  BY NextIInv
<1>2. m \in Msgs /\ Placed(m) /\ m \notin Lost
  BY DEF Lost, Msgs, Placed, InHand
<1>3. Lost' # Lost /\ ~Moves /\ \A a \in Msgs : ~Published(a) /\ ~Answers(a)
  BY <1>1, <1>2, LostStep
<1>4. task'[w] # m
  BY DEF Lost, InHand
<1>5. worker[w] = "busy"
  BY RSAssumption DEF IInv, TypeOK, Lost, Msgs
<1>6. CASE \E v \in Workers : ProcessTask(v)
  <2>1. PICK v \in Workers : ProcessTask(v)
    BY <1>6
  <2>2. task[v] \in Msgs
    BY <2>1 DEF IInv, TypeOK, ProcessTask, Msgs
  <2>3. ~link
    BY <1>3, <2>1, <2>2, ProcessTaskStep
  <2> QED
    BY <1>5, <2>3 DEF IInv, StopInv
<1>7. CASE Exit \/ Crash
  BY <1>5, <1>7 DEF IInv, StopInv, Exit, Crash, ProcessEnds
<1>8. CASE \E v \in Workers : WorkerTake(v)
  BY <1>3, <1>8, WorkerTakeStep
<1>9. ~(UNCHANGED task)
  BY <1>4
<1> QED
  BY <1>6, <1>7, <1>8, <1>9 DEF Next, vars, pool, Publish, Deliver, LinkDown, Start,
     LoopMessage, LoopDone, Worker, WorkerExit, Stop, StopReturns, StopTimeout

\* Stop waits for the workers before the channel they answer on is closed: a task
\* that a worker has taken is answered unless the process or its link fails, or
\* Stop gave up waiting.
THEOREM TakenAnswered == Spec => TakenIsAnswered
<1>1. IInv /\ [Next]_vars =>
        \A w \in Workers : task[w] \in Lost' =>
          timedOut \/ (loop # "returned" /\ (~link \/ loop' = "down"))
  BY TakenStep
<1>2. IInv /\ [Next]_vars =>
        [\A w \in Workers : task[w] \in Lost' =>
          timedOut \/ (loop # "returned" /\ (~link \/ loop' = "down"))]_vars
  BY <1>1
<1> QED
  BY <1>2, Invariance, PTL DEF Spec, TakenIsAnswered

\* What RequestReply sees of a request, in the terms of the steps.
Phase(m) == IF m \notin sent THEN "new"
            ELSE IF replies[m] # 0 THEN "answered"
            ELSE IF Placed(m) THEN "pending" ELSE "lost"
AbstractIsPhase == \A m \in Requests : Abstract(m) = Phase(m)

\* The mapping of the refinement, in the states the server can be in.
LEMMA AbstractCases == IInv => AbstractIsPhase
<1> SUFFICES ASSUME IInv, NEW m \in Requests PROVE Abstract(m) = Phase(m)
  BY DEF AbstractIsPhase
<1>1. replies[m] \in Nat
  BY DEF IInv, TypeOK, Msgs
<1>2. Answered(m) <=> replies[m] # 0
  BY <1>1 DEF Answered
<1>3. m \in sent /\ ~Answered(m) => (m \in Lost <=> ~Placed(m))
  BY DEF Lost, Placed
<1>4. m \in Lost => m \in sent /\ ~Answered(m)
  BY DEF Lost
<1>5. Answered(m) => m \in sent
  <2>1. m \in Msgs
    BY DEF Msgs
  <2>2. Copies(m) \in Int /\ Copies(m) >= replies[m]
    BY <2>1, CopiesType DEF IInv, Copies
  <2> QED
    BY <1>1, <1>2, <2>1, <2>2 DEF IInv, CopiesInv
<1> QED
  BY <1>2, <1>3, <1>4, <1>5 DEF Abstract, Phase

\* Every step of the server sends, answers or loses requests as RequestReply
\* allows, or changes nothing there.
LEMMA RefinementStep ==
  ASSUME IInv, [Next]_vars
  PROVE  [Promise!Next]_([m \in Requests |-> Abstract(m)])
<1>1. IInv' /\ (Moves \/ Drops \/ \E m \in Msgs : Published(m) \/ Answers(m))
  BY NextIInv
<1>2. AbstractIsPhase
  BY AbstractCases
<1>3. AbstractIsPhase'
  <2>1. (IInv => AbstractIsPhase)'
    BY AbstractCases, PTL
  <2> QED
    BY <1>1, <2>1
<1> DEFINE Stays == UNCHANGED [m \in Requests |-> Abstract(m)]
<1>4. (\A m \in Requests : Phase(m)' = Phase(m)) => Stays
  BY <1>2, <1>3 DEF AbstractIsPhase
<1>5. CASE Moves
  BY <1>4, <1>5 DEF Phase, Moves
<1>6. CASE Drops
  <2> DEFINE S == {m \in Requests : Phase(m) = "pending" /\ Phase(m)' # "pending"}
  <2>1. \A m \in Requests : Phase(m)' = IF m \in S THEN "lost" ELSE Phase(m)
    BY <1>6 DEF Phase, Drops
  <2>2. CASE S = {}
    BY <1>4, <2>1, <2>2
  <2>3. CASE S # {}
    <3>1. Promise!Lose(S)
      BY <1>2, <1>3, <2>1, <2>3 DEF AbstractIsPhase, Promise!Lose
    <3> QED
      BY <3>1 DEF Promise!Next
  <2> QED
    BY <2>2, <2>3
<1>7. ASSUME NEW p \in Msgs, Published(p)
      PROVE  [Promise!Next]_([m \in Requests |-> Abstract(m)])
  <2>1. \A m \in Requests : m # p => Phase(m)' = Phase(m)
    BY <1>7 DEF Phase, Published
  <2>2. CASE p \in Requests
    <3>1. Phase(p) = "new" /\ Phase(p)' = "pending"
      <4>1. replies[p] = 0
        BY <1>7, CopiesType DEF Published, IInv, CopiesInv, Copies
      <4> QED
        BY <1>7, <2>2, <4>1 DEF Phase, Published
    <3>2. Promise!Send(p)
      BY <1>2, <1>3, <2>1, <2>2, <3>1 DEF AbstractIsPhase, Promise!Send
    <3> QED
      BY <2>2, <3>2 DEF Promise!Next
  <2>3. CASE p \notin Requests
    BY <1>4, <2>1, <2>3
  <2> QED
    BY <2>2, <2>3
<1>8. ASSUME NEW a \in Msgs, Answers(a)
      PROVE  [Promise!Next]_([m \in Requests |-> Abstract(m)])
  <2>1. replies'[a] # 0 /\ \A m \in Msgs \ {a} : replies'[m] = replies[m]
    BY <1>8 DEF Answers, IInv, TypeOK
  <2>2. \A m \in Requests : m # a => Phase(m)' = Phase(m)
    BY <1>8, <2>1 DEF Phase, Answers, Msgs
  <2>3. CASE a \in Requests
    <3>1. a \in sent /\ replies[a] = 0
      BY <1>8, PlacedIsPending DEF Phase, Answers
    <3>2. Phase(a) = "pending" /\ Phase(a)' = "answered"
      BY <1>8, <2>1, <3>1 DEF Phase, Answers
    <3>3. Promise!Answer(a)
      BY <1>2, <1>3, <2>2, <2>3, <3>2 DEF AbstractIsPhase, Promise!Answer
    <3> QED
      BY <2>3, <3>3 DEF Promise!Next
  <2>4. CASE a \notin Requests
    BY <1>4, <2>2, <2>4
  <2> QED
    BY <2>3, <2>4
<1> QED
  BY <1>1, <1>5, <1>6, <1>7, <1>8

\* The server keeps the promise of RequestReply: whatever its queues, workers,
\* failures and restarts, a request is answered once at most, only after it was
\* sent, and never after it was lost.
THEOREM Refinement == Spec => ImplementsRequestReply
<1>1. Init => Promise!Init
  BY DEF Init, Promise!Init, Abstract, Answered, Lost, Msgs
<1> QED
  BY <1>1, Invariance, RefinementStep, PTL
     DEF Spec, ImplementsRequestReply, Promise!Spec
=============================================================================
