---------------------------- MODULE HandleMessage ----------------------------
(***************************************************************************)
(* What a worker does with a message of the RPC queue (handleMessage,      *)
(* server/server.go): it looks at the body, asks the rate limiter          *)
(* (RateLimiter) and passes the request to the handler of its type.  The   *)
(* handlers of functions (FunctionCalls) and of commands are here; those   *)
(* of SQL and transactions are in modules of their own and may answer rows *)
(* or an error.  A panic is recovered by the worker, which answers an      *)
(* error.                                                                  *)
(*                                                                         *)
(* A body has a form: empty, a ping (its deviceID, clientIP and corrID are *)
(* there), broken (no RPCRequest), or a request of a type.  It is sound    *)
(* when what it carries is: a ping's fields are strings and name this      *)
(* device, a function's query is JSON, a command is not blank.             *)
(***************************************************************************)
EXTENDS RateLimiter, FunctionCalls

CONSTANTS
  Bodies,    \* [form, type, sound, call]
  Registry   \* functionRegistry: [names -> [params, variadic, results it may have]]

\* The last body that was dealt with, whether a function or command was run for
\* it, whether functionTimeout was over before the function, and the answer.
VARIABLE last

\* Refusals by the limiter and recovered panics are errors of their own.
Replies == {"silence", "pong", "rows", "bare", "error", "refused", "panic"}

ASSUME HMAssumption ==
  /\ \A m \in Bodies :
       /\ m.form \in {"empty", "ping", "broken", "request"}
       /\ m.form = "request" /\ m.type = "function" => AreArguments(m.call.args)
  /\ \A name \in DOMAIN Registry :
       LET f == Registry[name] IN
       /\ IsSequence(f.params) /\ \A i \in DOMAIN f.params : IsType(f.params[i])
       /\ f.variadic => Len(f.params) > 0 /\ Is("slice", f.params[Len(f.params)])

MessagesOK ==
  /\ TypeOK
  /\ last \in [body : Bodies, ran : BOOLEAN, late : BOOLEAN, reply : Replies]

Answer(m, ran, late, reply) ==
  last' = [body |-> m, ran |-> ran, late |-> late, reply |-> reply]

Done(m, ran, reply) == Answer(m, ran, FALSE, reply)
-----------------------------------------------------------------------------
\* processTask and handleMessage skip an empty body.
Skip(w, m) ==
  /\ Free(w) /\ m.form = "empty"
  /\ Done(m, FALSE, "silence")
  /\ UNCHANGED vars

\* The heartbeat manager answers a sound ping, at no cost to the client.
Ping(w, m) ==
  /\ Free(w) /\ m.form = "ping"
  /\ Done(m, FALSE, IF m.sound THEN "pong" ELSE "silence")
  /\ UNCHANGED vars

\* Mutant: a request that does not parse is logged and dropped.
MalformedDropped(w, m) ==
  /\ Free(w) /\ m.form = "broken"
  /\ Done(m, FALSE, "silence")
  /\ UNCHANGED vars

\* Nor does a request cost anything that does not parse.
Malformed(w, m) ==
  /\ Free(w) /\ m.form = "broken"
  /\ Done(m, FALSE, "error")
  /\ UNCHANGED vars

\* Any other request waits for the limiter.
Ask(w, c) ==
  /\ Lookup(w, c) \/ Miss(w, c) \/ (client[w] = c /\ SecondLook(w))
  /\ UNCHANGED last

Refuse(w, m) ==
  /\ Take(w) /\ ~Granted(w) /\ m.form = "request"
  /\ Done(m, FALSE, "refused")

\* A function that runs returns or panics: functionTimeout does not cancel it.
RunFunction(m) ==
  \/ \E results \in Registry[m.call.name].results :
       Done(m, TRUE, ConvertFunctionResult(results))
  \/ Done(m, TRUE, "panic")

HandleFunction(m) ==
  \E expired \in BOOLEAN :
    LET outcome == IF m.sound THEN ExecuteFunction(Registry, m.call, expired) ELSE "error"
    IN IF outcome = "run" THEN RunFunction(m) ELSE Answer(m, FALSE, expired, outcome)

\* Every line of the output is a row, and there is at least one; a command that
\* fails or outlives commandTimeout is an error.
HandleCommand(m) ==
  IF ~m.sound THEN Done(m, FALSE, "error")
  ELSE Done(m, TRUE, "rows") \/ Done(m, TRUE, "error")

\* The request's handler.  A heartbeat_ping that was not taken for a ping lacks
\* its corrID, and the heartbeat manager drops it.
Handle(w, m) ==
  /\ Take(w) /\ Granted(w) /\ m.form = "request"
  /\ \/ m.type = "function" /\ HandleFunction(m)
     \/ m.type = "command" /\ HandleCommand(m)
     \/ m.type \in {"sql", "transaction"} /\ \E r \in {"rows", "error"} : Done(m, FALSE, r)
     \/ m.type = "heartbeat_ping" /\ Done(m, FALSE, "silence")
     \/ m.type = "other" /\ Done(m, FALSE, "error")

MessageInit == Init /\ \E m \in Bodies : m.form = "empty"
                    /\ last = [body |-> m, ran |-> FALSE, late |-> FALSE,
                              reply |-> "silence"]

MessageNext ==
  \/ \E w \in Workers, m \in Bodies :
       Skip(w, m) \/ Ping(w, m) \/ Malformed(w, m) \/ Refuse(w, m) \/ Handle(w, m)
  \/ \E w \in Workers, c \in Clients : Ask(w, c)
  \/ (PerformCleanup \/ Tick) /\ UNCHANGED last

MessageSpec == MessageInit /\ [][MessageNext]_<<vars, last>>
-----------------------------------------------------------------------------
(* Properties.                                                             *)

\* A function is only ever run with arguments of its signature, as many as it
\* takes; an error is answered for no other reason than that they do not fit or
\* that functionTimeout was over before the call; and nothing panics over the
\* arguments of a function with ordinary parameters.
CallsFit ==
  last.body.form = "request" /\ last.body.type = "function" /\ last.body.sound =>
    /\ last.ran => Fits(Registry, last.body.call)
    /\ last.reply = "error" => last.late \/ ~Fits(Registry, last.body.call)
    /\ last.reply = "panic" /\ ~last.ran => ~Ordinary(Registry[last.body.call.name])

\* No request goes unanswered: only an empty body, or a ping that is not sound,
\* gets no reply.
OnlyPingsUnanswered ==
  last.reply = "silence" =>
    \/ last.body.form = "empty"
    \/ last.body.form = "ping" /\ ~last.body.sound
    \/ last.body.form = "request" /\ last.body.type = "heartbeat_ping"
=============================================================================
