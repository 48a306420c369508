------------------------------ MODULE ClientTx ------------------------------
(***************************************************************************)
(* Transactions of the Go client: one driver connection (client/conn.go)   *)
(* with its transactions (client/tx.go), used through database/sql by one  *)
(* goroutine at a time, and the queues its requests are published to.      *)
(*                                                                         *)
(* database/sql (external): a connection taken from the pool runs either   *)
(* one transaction, until its Commit or Rollback returns with or without   *)
(* an error, or a plain query, and goes back to the pool.                  *)
(* The server (external here, see TransactionManager) takes requests off   *)
(* the queues it consumes and may be late: a call gives up at any time     *)
(* (the 30 seconds of a command, the 5 minutes of a transaction, the       *)
(* context of a query), its request stays in the queue, and its reply      *)
(* queue goes away.                                                        *)
(***************************************************************************)
EXTENDS Naturals, FiniteSets

CONSTANTS
  Txs,     \* transaction ids
  NoTx,
  Served   \* queues the server consumes: subset of {"device", "device_rpc"}

ASSUME CXAssumption ==
  /\ NoTx \notin Txs /\ Served \subseteq {"device", "device_rpc"}

VARIABLES
  currentTx,  \* c.currentTx
  state,      \* [Txs -> tx.state]
  appTx,      \* the transaction the application has open
  call,       \* the call in progress: what, for which transaction, where
  wire,       \* requests published and not served
  reply,      \* the answer to the call in progress
  server,     \* [Txs -> what the server made of the transaction]
  ran         \* the transaction the last query the server ran was part of

vars == <<currentTx, state, appTx, call, wire, reply, server, ran>>

Commands == {"BEGIN", "COMMIT", "ROLLBACK"}
MaybeTx  == Txs \cup {NoTx}
NoCall   == [op |-> "none", tx |-> NoTx, at |-> "done"]
\* A request: tx is its transactionID; wanted is the application's open
\* transaction when it was made; live says that its call still waits.
Requests == [op : Commands \cup {"query"}, tx : MaybeTx, wanted : MaybeTx,
             live : BOOLEAN]
Queue(m) == IF m.op \in Commands THEN "device" ELSE "device_rpc"

\* Types; one call waits at a time, and the connection knows the transaction the
\* application has open.
TypeOK ==
  /\ currentTx \in MaybeTx /\ appTx \in MaybeTx
  /\ state \in [Txs -> {"new", "active", "committed", "rolledBack"}]
  /\ call \in [op : Commands \cup {"none", "query"}, tx : MaybeTx,
               at : {"done", "waiting", "clearing"}]
  /\ wire \in SUBSET Requests
  /\ Cardinality({m \in wire : m.live}) <= 1
  /\ reply \in {"none", "ok", "error"}
  /\ server \in [Txs -> {"none", "active", "committed", "rolledBack"}]
  /\ ran \in [tx : MaybeTx, wanted : MaybeTx]
  /\ appTx # NoTx => currentTx = appTx

IsActive(t) == t # NoTx /\ state[t] = "active"
Waiting     == call.at = "waiting"
Abandoned(ms) == {[m EXCEPT !.live = FALSE] : m \in ms}

Init ==
  /\ currentTx = NoTx /\ appTx = NoTx
  /\ state = [t \in Txs |-> "new"] /\ server = [t \in Txs |-> "none"]
  /\ call = NoCall /\ wire = {} /\ reply = "none"
  /\ ran = [tx |-> NoTx, wanted |-> NoTx]
-----------------------------------------------------------------------------
(* Calls: executeTransactionCommand and queryRPC publish and wait.         *)

Publish(op, t) ==
  /\ call' = [op |-> op, tx |-> t, at |-> "waiting"]
  /\ wire' = wire \cup {[op |-> op, tx |-> t, wanted |-> appTx, live |-> TRUE]}

\* db.Begin: with a transaction in progress on the connection Begin fails at
\* once, and nothing changes.
Begin(t) ==
  /\ call = NoCall /\ appTx = NoTx
  /\ ~IsActive(currentTx) /\ state[t] = "new"
  /\ state' = [state EXCEPT ![t] = "active"]
  /\ Publish("BEGIN", t)
  /\ UNCHANGED <<currentTx, appTx, reply, server, ran>>

\* sql.Tx.Commit and Rollback; tx.mutex is locked until the call returns.
Finish(op) ==
  /\ call = NoCall /\ IsActive(appTx) /\ op \in {"COMMIT", "ROLLBACK"}
  /\ Publish(op, appTx)
  /\ UNCHANGED <<currentTx, state, appTx, reply, server, ran>>

\* The same without a connection to publish on: the error comes at once, and
\* database/sql lets the transaction go.
FinishUnsent ==
  /\ call = NoCall /\ appTx # NoTx
  /\ appTx' = NoTx
  /\ UNCHANGED <<currentTx, state, call, wire, reply, server, ran>>

\* Mutant: the transaction is not attached to the query.
QueryUnattached ==
  /\ call = NoCall
  /\ Publish("query", NoTx)
  /\ UNCHANGED <<currentTx, state, appTx, reply, server, ran>>

\* A query carries the id of the connection's transaction if that is active.
Query ==
  /\ call = NoCall
  /\ Publish("query", IF IsActive(currentTx) THEN currentTx ELSE NoTx)
  /\ UNCHANGED <<currentTx, state, appTx, reply, server, ran>>
-----------------------------------------------------------------------------
(* Returns.                                                                *)

\* Mutant: the connection does not remember its transaction.
BeginReturnsForgetful ==
  /\ Waiting /\ call.op = "BEGIN" /\ reply = "ok"
  /\ appTx' = call.tx
  /\ call' = NoCall /\ reply' = "none"
  /\ UNCHANGED <<currentTx, state, wire, server, ran>>

\* BEGIN succeeded: the connection has a transaction.
BeginReturns ==
  /\ Waiting /\ call.op = "BEGIN" /\ reply = "ok"
  /\ currentTx' = call.tx /\ appTx' = call.tx
  /\ call' = NoCall /\ reply' = "none"
  /\ UNCHANGED <<state, wire, server, ran>>

Outcome(op) == IF op = "COMMIT" THEN "committed" ELSE "rolledBack"

\* COMMIT or ROLLBACK succeeded: the state is set and clearFinishedTransaction
\* called.  It asks currentTx.IsActive(), which read-locks the tx.mutex that
\* this very call holds: from "clearing" no step is possible.
FinishReplied ==
  /\ Waiting /\ call.op \in {"COMMIT", "ROLLBACK"} /\ reply = "ok"
  /\ state' = [state EXCEPT ![call.tx] = Outcome(call.op)]
  /\ call' = [call EXCEPT !.at = "clearing"] /\ reply' = "none"
  /\ UNCHANGED <<currentTx, appTx, wire, server, ran>>

QueryReturns ==
  /\ Waiting /\ call.op = "query" /\ reply # "none"
  /\ call' = NoCall /\ reply' = "none"
  /\ UNCHANGED <<currentTx, state, appTx, wire, server, ran>>

\* Mutant: a COMMIT that times out is taken for one that succeeded.
CallFailsCommitted ==
  /\ Waiting
  /\ call' = NoCall /\ reply' = "none"
  /\ wire' = Abandoned(wire)
  /\ appTx' = IF call.op \in {"COMMIT", "ROLLBACK"} THEN NoTx ELSE appTx
  /\ state' = IF call.op = "COMMIT" THEN [state EXCEPT ![call.tx] = "committed"]
              ELSE state
  /\ UNCHANGED <<currentTx, server, ran>>

\* The server answers with an error, the answer is lost, or the call times out
\* (even as the answer arrives).  A failed BEGIN
\* leaves no trace in the connection; after a failed COMMIT or ROLLBACK
\* database/sql lets the transaction go, but tx.state stays "active".
CallFails ==
  /\ Waiting
  /\ call' = NoCall /\ reply' = "none"
  /\ wire' = Abandoned(wire)
  /\ appTx' = IF call.op \in {"COMMIT", "ROLLBACK"} THEN NoTx ELSE appTx
  /\ UNCHANGED <<currentTx, state, server, ran>>
-----------------------------------------------------------------------------
(* The server: what becomes of a request, in any order.                    *)

Answer(m, r) == reply' = IF m.live THEN r ELSE reply

Serve(m) ==
  /\ Queue(m) \in Served
  /\ wire' = wire \ {m}
  /\ \/ /\ m.op = "BEGIN" /\ server[m.tx] = "none"
        /\ server' = [server EXCEPT ![m.tx] = "active"]
        /\ Answer(m, "ok") /\ UNCHANGED ran
     \/ /\ m.op \in {"COMMIT", "ROLLBACK"} /\ server[m.tx] = "active"
        /\ server' = [server EXCEPT ![m.tx] = Outcome(m.op)]
        /\ Answer(m, "ok") /\ UNCHANGED ran
     \/ /\ m.op = "query" /\ (m.tx # NoTx => server[m.tx] = "active")
        /\ ran' = [tx |-> m.tx, wanted |-> m.wanted]
        /\ Answer(m, "ok") /\ UNCHANGED server
     \/ Answer(m, "error") /\ UNCHANGED <<server, ran>>
  /\ UNCHANGED <<currentTx, state, appTx, call>>

\* The server's cleanup rolls back a transaction nobody used for 30 minutes.
ServerExpires(t) ==
  /\ server[t] = "active"
  /\ server' = [server EXCEPT ![t] = "rolledBack"]
  /\ UNCHANGED <<currentTx, state, appTx, call, wire, reply, ran>>
-----------------------------------------------------------------------------
Returns == BeginReturns \/ FinishReplied \/ QueryReturns \/ CallFails

Next ==
  \/ \E t \in Txs : Begin(t) \/ ServerExpires(t)
  \/ \E op \in Commands : Finish(op)
  \/ FinishUnsent \/ Query \/ Returns
  \/ \E m \in wire : Serve(m)

Spec == Init /\ [][Next]_vars

\* The server serves the queues it consumes; a call is answered or times out.
FairSpec == /\ Spec /\ WF_vars(Returns)
            /\ \A m \in Requests : WF_vars(m \in wire /\ Serve(m))
-----------------------------------------------------------------------------
(* Properties.                                                             *)

\* A transaction the client reports as committed or rolled back is so on the
\* server: late, lost and repeated answers never make Commit lie.
ReportedIsDone ==
  \A t \in Txs : state[t] \in {"committed", "rolledBack"} => server[t] = state[t]

\* A query of an open transaction runs in that transaction or not at all.
QueriesJoinTransaction == ran.wanted # NoTx => ran.tx = ran.wanted

\* Every call returns.
CallsReturn == call # NoCall ~> call = NoCall
=============================================================================
