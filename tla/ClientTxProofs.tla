--------------------------- MODULE ClientTxProofs ---------------------------
(***************************************************************************)
(* Proofs about ClientTx, for any transactions and any queues the server   *)
(* consumes: what the client reports as committed or rolled back is so on  *)
(* the server, and a query runs in its transaction or not at all, however  *)
(* late requests are served and answers come.                              *)
(***************************************************************************)
EXTENDS ClientTx, FiniteSetTheorems, TLAPS

Finishing == Waiting /\ call.op \in {"COMMIT", "ROLLBACK"}

\* An answer is for a call that waits; BEGIN is called without, COMMIT and
\* ROLLBACK are called with a transaction of the application's, which is active
\* until one of them succeeds; and they succeed after the server has done it.
CallInv ==
  /\ reply # "none" => Waiting
  /\ Waiting /\ call.op = "BEGIN" =>
       call.tx \in Txs /\ state[call.tx] = "active" /\ appTx = NoTx
  /\ Finishing => call.tx = appTx /\ appTx # NoTx
  /\ Finishing /\ reply = "ok" => server[appTx] = Outcome(call.op)
  /\ call.at # "clearing" /\ appTx # NoTx => state[appTx] = "active"

\* The one live request is that of the call that waits, which has no answer yet;
\* a query was published with the id of the transaction it is meant for.
LiveInv ==
  /\ \A m \in wire : m.live =>
       Waiting /\ m.op = call.op /\ m.tx = call.tx /\ reply = "none"
  /\ \A m, n \in wire : m.live /\ n.live => m = n
QueryInv == \A m \in wire : m.op = "query" /\ m.wanted # NoTx => m.tx = m.wanted

\* TypeOK without the count of the live requests, which LiveInv implies.
Types ==
  /\ currentTx \in MaybeTx /\ appTx \in MaybeTx
  /\ state \in [Txs -> {"new", "active", "committed", "rolledBack"}]
  /\ call \in [op : Commands \cup {"none", "query"}, tx : MaybeTx,
               at : {"done", "waiting", "clearing"}]
  /\ wire \in SUBSET Requests
  /\ reply \in {"none", "ok", "error"}
  /\ server \in [Txs -> {"none", "active", "committed", "rolledBack"}]
  /\ ran \in [tx : MaybeTx, wanted : MaybeTx]
  /\ appTx # NoTx => currentTx = appTx

IInv == Types /\ CallInv /\ LiveInv /\ QueryInv /\ ReportedIsDone /\ QueriesJoinTransaction
-----------------------------------------------------------------------------
\* At first nobody has called anything.
LEMMA InitIInv == Init => IInv
BY CXAssumption
   DEF Init, IInv, Types, CallInv, LiveInv, QueryInv, ReportedIsDone,
       QueriesJoinTransaction, NoCall, MaybeTx, Commands, Waiting, Finishing

\* Requests whose call gave up are the same requests, but not live.
LEMMA AbandonedRequests ==
  ASSUME NEW ms \in SUBSET Requests, NEW m \in Abandoned(ms)
  PROVE  /\ m \in Requests /\ ~m.live
         /\ \E n \in ms : m.op = n.op /\ m.tx = n.tx /\ m.wanted = n.wanted
<1>1. PICK n \in ms : m = [n EXCEPT !.live = FALSE]
  BY DEF Abandoned
<1>2. n \in Requests
  BY <1>1
<1> QED
  BY <1>1, <1>2 DEF Requests

\* A call waits and its request is on the wire.
LEMMA PublishEffect ==
  ASSUME Types, NEW op \in Commands \cup {"query"}, NEW t \in MaybeTx, Publish(op, t)
  PROVE  /\ call' \in [op : Commands \cup {"none", "query"}, tx : MaybeTx,
                       at : {"done", "waiting", "clearing"}]
         /\ call'.op = op /\ call'.tx = t /\ call'.at = "waiting"
         /\ wire' \in SUBSET Requests
         /\ \A m \in wire' : \/ m \in wire
                             \/ m.op = op /\ m.tx = t /\ m.wanted = appTx
                                /\ m = [op |-> op, tx |-> t, wanted |-> appTx, live |-> TRUE]
<1> DEFINE r == [op |-> op, tx |-> t, wanted |-> appTx, live |-> TRUE]
<1>1. r \in Requests
  BY DEF Requests, Types
<1>2. wire' = wire \cup {r}
  BY DEF Publish
<1>3. wire' \in SUBSET Requests
  BY <1>1, <1>2 DEF Types
<1>4. \A m \in wire' : m \in wire \/ (m.op = op /\ m.tx = t /\ m.wanted = appTx /\ m = r)
  <2>1. r.op = op /\ r.tx = t /\ r.wanted = appTx
    OBVIOUS
  <2> HIDE DEF r
  <2> QED
    BY <1>2, <2>1
<1> QED
  BY <1>3, <1>4 DEF Publish

\* Types; the connection knows the application's transaction.
LEMMA TypesStep == ASSUME IInv, [Next]_vars PROVE Types'
<1> USE CXAssumption DEF IInv, Types, NoCall, MaybeTx, Commands, Outcome, Answer
<1>1. ASSUME NEW t \in Txs, Begin(t) PROVE Types'
  <2>1. Publish("BEGIN", t)
    BY <1>1 DEF Begin
  <2>2. "BEGIN" \in Commands \cup {"query"} /\ t \in MaybeTx
    BY <1>1 DEF Begin, Commands, MaybeTx
  <2> QED
    BY <1>1, <2>1, <2>2, PublishEffect DEF Begin
<1>2. ASSUME NEW t \in Txs, ServerExpires(t) PROVE Types'
  BY <1>2 DEF ServerExpires
<1>3. ASSUME NEW op \in Commands, Finish(op) PROVE Types'
  <2>1. Publish(op, appTx)
    BY <1>3 DEF Finish
  <2>2. op \in Commands \cup {"query"} /\ appTx \in MaybeTx
    BY <1>3 DEF Finish, Commands, MaybeTx
  <2> QED
    BY <1>3, <2>1, <2>2, PublishEffect DEF Finish
<1>4. CASE FinishUnsent
  BY <1>4 DEF FinishUnsent
<1>5. CASE Query
  <2>1. Publish("query", IF IsActive(currentTx) THEN currentTx ELSE NoTx)
    BY <1>5 DEF Query
  <2>2. "query" \in Commands \cup {"query"} /\ (IF IsActive(currentTx) THEN currentTx ELSE NoTx) \in MaybeTx
    BY <1>5 DEF Query, Commands, MaybeTx
  <2> QED
    BY <1>5, <2>1, <2>2, PublishEffect DEF Query
<1>6. CASE BeginReturns
  BY <1>6 DEF BeginReturns
<1>7. CASE FinishReplied
  BY <1>7 DEF FinishReplied
<1>8. CASE QueryReturns
  BY <1>8 DEF QueryReturns
<1>9. CASE CallFails
  BY <1>9, AbandonedRequests DEF CallFails
<1>10. ASSUME NEW m \in wire, Serve(m) PROVE Types'
  <2>1. m.tx \in MaybeTx /\ m.wanted \in MaybeTx
    BY DEF Requests
  <2>2. server' \in [Txs -> {"none", "active", "committed", "rolledBack"}]
    BY <1>10 DEF Serve
  <2>3. ran' \in [tx : MaybeTx, wanted : MaybeTx]
    BY <1>10, <2>1 DEF Serve
  <2>4. reply' \in {"none", "ok", "error"}
    BY <1>10 DEF Serve
  <2> QED
    BY <1>10, <2>2, <2>3, <2>4 DEF Serve
<1>11. CASE UNCHANGED vars
  BY <1>11 DEF vars
<1> QED
  BY <1>1, <1>2, <1>3, <1>4, <1>5, <1>6, <1>7, <1>8, <1>9, <1>10, <1>11 DEF Next, Returns

\* An answer that comes is for the call that waits, by LiveInv; so a COMMIT is
\* answered only by what the server did to its own transaction.
LEMMA CallInvStep == ASSUME IInv, [Next]_vars PROVE CallInv'
<1> USE CXAssumption DEF IInv, Types, MaybeTx, LiveInv, ReportedIsDone, CallInv, Waiting, Finishing, NoCall, Commands, IsActive, Outcome, Answer
<1>1. ASSUME NEW t \in Txs, Begin(t) PROVE CallInv'
  BY <1>1 DEF Begin, Publish
<1>2. ASSUME NEW t \in Txs, ServerExpires(t) PROVE CallInv'
  BY <1>2 DEF ServerExpires
<1>3. ASSUME NEW op \in Commands, Finish(op) PROVE CallInv'
  BY <1>3 DEF Finish, Publish
<1>4. CASE FinishUnsent
  BY <1>4 DEF FinishUnsent
<1>5. CASE Query
  BY <1>5 DEF Query, Publish
<1>6. CASE BeginReturns
  BY <1>6 DEF BeginReturns
<1>7. CASE FinishReplied
  BY <1>7 DEF FinishReplied
<1>8. CASE QueryReturns
  BY <1>8 DEF QueryReturns
<1>9. CASE CallFails
  BY <1>9, AbandonedRequests DEF CallFails
<1>10. ASSUME NEW m \in wire, Serve(m) PROVE CallInv'
  BY <1>10 DEF Serve
<1>11. CASE UNCHANGED vars
  BY <1>11 DEF vars
<1> QED
  BY <1>1, <1>2, <1>3, <1>4, <1>5, <1>6, <1>7, <1>8, <1>9, <1>10, <1>11 DEF Next, Returns

\* A call publishes when no request is live; when it returns, none is.
LEMMA LiveInvStep == ASSUME IInv, [Next]_vars PROVE LiveInv'
<1> USE CXAssumption DEF IInv, Types, LiveInv, CallInv, NoCall, Waiting, Finishing, Answer
<1>1. ASSUME NEW t \in Txs, Begin(t) PROVE LiveInv'
  <2>1. Publish("BEGIN", t)
    BY <1>1 DEF Begin
  <2>2. "BEGIN" \in Commands \cup {"query"} /\ t \in MaybeTx
    BY <1>1 DEF Begin, Commands, MaybeTx
  <2> DEFINE r == [op |-> "BEGIN", tx |-> t, wanted |-> appTx, live |-> TRUE]
  <2>3. \A m \in wire : ~m.live
    BY <1>1 DEF Begin
  <2>4. \A m \in wire' : m \in wire \/ (m.op = "BEGIN" /\ m.tx = t /\ m = r)
    BY <2>1, <2>2, PublishEffect
  <2>5. call'.op = "BEGIN" /\ call'.tx = t /\ call'.at = "waiting"
    BY <2>1, <2>2, PublishEffect
  <2>6. reply = "none" /\ reply' = reply
    BY <1>1 DEF Begin
  <2> HIDE DEF r
  <2> QED
    BY <2>3, <2>4, <2>5, <2>6
<1>2. ASSUME NEW t \in Txs, ServerExpires(t) PROVE LiveInv'
  BY <1>2 DEF ServerExpires
<1>3. ASSUME NEW op \in Commands, Finish(op) PROVE LiveInv'
  <2>1. Publish(op, appTx)
    BY <1>3 DEF Finish
  <2>2. op \in Commands \cup {"query"} /\ appTx \in MaybeTx
    BY <1>3 DEF Finish, Commands, MaybeTx
  <2> DEFINE r == [op |-> op, tx |-> appTx, wanted |-> appTx, live |-> TRUE]
  <2>3. \A m \in wire : ~m.live
    BY <1>3 DEF Finish
  <2>4. \A m \in wire' : m \in wire \/ (m.op = op /\ m.tx = appTx /\ m = r)
    BY <2>1, <2>2, PublishEffect
  <2>5. call'.op = op /\ call'.tx = appTx /\ call'.at = "waiting"
    BY <2>1, <2>2, PublishEffect
  <2>6. reply = "none" /\ reply' = reply
    BY <1>3 DEF Finish
  <2> HIDE DEF r
  <2> QED
    BY <2>3, <2>4, <2>5, <2>6
<1>4. CASE FinishUnsent
  BY <1>4 DEF FinishUnsent
<1>5. CASE Query
  <2>1. Publish("query", IF IsActive(currentTx) THEN currentTx ELSE NoTx)
    BY <1>5 DEF Query
  <2>2. "query" \in Commands \cup {"query"} /\ (IF IsActive(currentTx) THEN currentTx ELSE NoTx) \in MaybeTx
    BY <1>5 DEF Query, Commands, MaybeTx
  <2> DEFINE r == [op |-> "query", tx |-> (IF IsActive(currentTx) THEN currentTx ELSE NoTx), wanted |-> appTx, live |-> TRUE]
  <2>3. \A m \in wire : ~m.live
    BY <1>5 DEF Query
  <2>4. \A m \in wire' : m \in wire \/ (m.op = "query" /\ m.tx = (IF IsActive(currentTx) THEN currentTx ELSE NoTx) /\ m = r)
    BY <2>1, <2>2, PublishEffect
  <2>5. call'.op = "query" /\ call'.tx = (IF IsActive(currentTx) THEN currentTx ELSE NoTx) /\ call'.at = "waiting"
    BY <2>1, <2>2, PublishEffect
  <2>6. reply = "none" /\ reply' = reply
    BY <1>5 DEF Query
  <2> HIDE DEF r
  <2> QED
    BY <2>3, <2>4, <2>5, <2>6
<1>6. CASE BeginReturns
  BY <1>6 DEF BeginReturns
<1>7. CASE FinishReplied
  BY <1>7 DEF FinishReplied
<1>8. CASE QueryReturns
  BY <1>8 DEF QueryReturns
<1>9. CASE CallFails
  BY <1>9, AbandonedRequests DEF CallFails
<1>10. ASSUME NEW m \in wire, Serve(m) PROVE LiveInv'
  BY <1>10 DEF Serve
<1>11. CASE UNCHANGED vars
  BY <1>11 DEF vars
<1> QED
  BY <1>1, <1>2, <1>3, <1>4, <1>5, <1>6, <1>7, <1>8, <1>9, <1>10, <1>11 DEF Next, Returns

\* A query is published with the transaction of the connection.
LEMMA QueryInvStep == ASSUME IInv, [Next]_vars PROVE QueryInv'
<1> USE CXAssumption DEF IInv, Types, QueryInv, CallInv, NoCall, IsActive, MaybeTx, Waiting
<1>1. ASSUME NEW t \in Txs, Begin(t) PROVE QueryInv'
  <2>1. Publish("BEGIN", t)
    BY <1>1 DEF Begin
  <2>2. "BEGIN" \in Commands \cup {"query"} /\ t \in MaybeTx
    BY <1>1 DEF Begin, Commands, MaybeTx
  <2> QED
    BY <1>1, <2>1, <2>2, PublishEffect DEF Begin
<1>2. ASSUME NEW t \in Txs, ServerExpires(t) PROVE QueryInv'
  BY <1>2 DEF ServerExpires
<1>3. ASSUME NEW op \in Commands, Finish(op) PROVE QueryInv'
  <2>1. Publish(op, appTx)
    BY <1>3 DEF Finish
  <2>2. op \in Commands \cup {"query"} /\ appTx \in MaybeTx
    BY <1>3 DEF Finish, Commands, MaybeTx
  <2> QED
    BY <1>3, <2>1, <2>2, PublishEffect DEF Finish
<1>4. CASE FinishUnsent
  BY <1>4 DEF FinishUnsent
<1>5. CASE Query
  <2>1. Publish("query", IF IsActive(currentTx) THEN currentTx ELSE NoTx)
    BY <1>5 DEF Query
  <2>2. "query" \in Commands \cup {"query"} /\ (IF IsActive(currentTx) THEN currentTx ELSE NoTx) \in MaybeTx
    BY <1>5 DEF Query, Commands, MaybeTx
  <2> QED
    BY <1>5, <2>1, <2>2, PublishEffect DEF Query
<1>6. CASE BeginReturns
  BY <1>6 DEF BeginReturns
<1>7. CASE FinishReplied
  BY <1>7 DEF FinishReplied
<1>8. CASE QueryReturns
  BY <1>8 DEF QueryReturns
<1>9. CASE CallFails
  BY <1>9, AbandonedRequests DEF CallFails
<1>10. ASSUME NEW m \in wire, Serve(m) PROVE QueryInv'
  BY <1>10 DEF Serve
<1>11. CASE UNCHANGED vars
  BY <1>11 DEF vars
<1> QED
  BY <1>1, <1>2, <1>3, <1>4, <1>5, <1>6, <1>7, <1>8, <1>9, <1>10, <1>11 DEF Next, Returns

\* The server never changes the outcome of a transaction again.
LEMMA ReportedIsDoneStep == ASSUME IInv, [Next]_vars PROVE ReportedIsDone'
<1> USE CXAssumption DEF IInv, Types, CallInv, ReportedIsDone, Waiting, Finishing, Outcome, Commands, IsActive
<1>1. ASSUME NEW t \in Txs, Begin(t) PROVE ReportedIsDone'
  BY <1>1 DEF Begin, Publish
<1>2. ASSUME NEW t \in Txs, ServerExpires(t) PROVE ReportedIsDone'
  BY <1>2 DEF ServerExpires
<1>3. ASSUME NEW op \in Commands, Finish(op) PROVE ReportedIsDone'
  BY <1>3 DEF Finish, Publish
<1>4. CASE FinishUnsent
  BY <1>4 DEF FinishUnsent
<1>5. CASE Query
  BY <1>5 DEF Query, Publish
<1>6. CASE BeginReturns
  BY <1>6 DEF BeginReturns
<1>7. CASE FinishReplied
  BY <1>7 DEF FinishReplied
<1>8. CASE QueryReturns
  BY <1>8 DEF QueryReturns
<1>9. CASE CallFails
  BY <1>9, AbandonedRequests DEF CallFails
<1>10. ASSUME NEW m \in wire, Serve(m) PROVE ReportedIsDone'
  BY <1>10 DEF Serve
<1>11. CASE UNCHANGED vars
  BY <1>11 DEF vars
<1> QED
  BY <1>1, <1>2, <1>3, <1>4, <1>5, <1>6, <1>7, <1>8, <1>9, <1>10, <1>11 DEF Next, Returns

\* What runs was published.
LEMMA QueriesJoinTransactionStep == ASSUME IInv, [Next]_vars PROVE QueriesJoinTransaction'
<1> USE CXAssumption DEF IInv, Types, QueryInv, QueriesJoinTransaction
<1>1. ASSUME NEW t \in Txs, Begin(t) PROVE QueriesJoinTransaction'
  BY <1>1 DEF Begin, Publish
<1>2. ASSUME NEW t \in Txs, ServerExpires(t) PROVE QueriesJoinTransaction'
  BY <1>2 DEF ServerExpires
<1>3. ASSUME NEW op \in Commands, Finish(op) PROVE QueriesJoinTransaction'
  BY <1>3 DEF Finish, Publish
<1>4. CASE FinishUnsent
  BY <1>4 DEF FinishUnsent
<1>5. CASE Query
  BY <1>5 DEF Query, Publish
<1>6. CASE BeginReturns
  BY <1>6 DEF BeginReturns
<1>7. CASE FinishReplied
  BY <1>7 DEF FinishReplied
<1>8. CASE QueryReturns
  BY <1>8 DEF QueryReturns
<1>9. CASE CallFails
  BY <1>9, AbandonedRequests DEF CallFails
<1>10. ASSUME NEW m \in wire, Serve(m) PROVE QueriesJoinTransaction'
  BY <1>10 DEF Serve
<1>11. CASE UNCHANGED vars
  BY <1>11 DEF vars
<1> QED
  BY <1>1, <1>2, <1>3, <1>4, <1>5, <1>6, <1>7, <1>8, <1>9, <1>10, <1>11 DEF Next, Returns

\* The inductive invariant: what the waiting call, the messages under way and the
\* server's transactions say of one another.
THEOREM Invariance == Spec => []IInv
<1>1. IInv /\ [Next]_vars => IInv'
  BY TypesStep, CallInvStep, LiveInvStep, QueryInvStep, ReportedIsDoneStep,
     QueriesJoinTransactionStep DEF IInv
<1> QED
  BY <1>1, InitIInv, PTL DEF Spec

\* Type correctness; one call waits at a time.
THEOREM TypeCorrect == Spec => []TypeOK
<1>1. IInv => TypeOK
  <2> SUFFICES ASSUME IInv PROVE Cardinality({m \in wire : m.live}) <= 1
    BY DEF IInv, Types, TypeOK
  <2> DEFINE L == {m \in wire : m.live}
  <2>1. L = {} \/ \E m \in L : L = {m}
    BY DEF IInv, LiveInv
  <2>2. Cardinality({}) = 0 /\ \A m \in L : Cardinality({m}) = 1
    BY FS_EmptySet, FS_Singleton
  <2> HIDE DEF L
  <2>3. Cardinality(L) <= 1
    BY <2>1, <2>2
  <2> QED
    BY <2>3 DEF L
<1> QED
  BY <1>1, Invariance, PTL

\* A transaction reported as committed or rolled back is so on the server.
THEOREM NeverLies == Spec => []ReportedIsDone
<1>1. IInv => ReportedIsDone
  BY DEF IInv
<1> QED
  BY <1>1, Invariance, PTL

\* A query of an open transaction runs in that transaction or not at all.
THEOREM QueriesJoin == Spec => []QueriesJoinTransaction
<1>1. IInv => QueriesJoinTransaction
  BY DEF IInv
<1> QED
  BY <1>1, Invariance, PTL
=============================================================================
