--------------------------- MODULE MCHandleMessage ---------------------------
(* Small instances of HandleMessage for TLC.                                *)
EXTENDS HandleMessage, TLC

CONSTANTS w1, w2, c1, b1, b2, b3

MCWorkers == {w1, w2}
MCClients == {c1}
MCBuckets == {b1, b2, b3}
MCSymmetry == Permutations(MCWorkers) \cup Permutations(MCBuckets)

Ints   == <<Kind("slice"), Kind("int")>>
Grade  == [kind |-> "int", named |-> TRUE]

F(params, variadic, results) ==
  [params |-> params, variadic |-> variadic, results |-> results]

MCRegistry ==
  [nothing |-> F(<<>>, FALSE, {"opaque"}),
   concat  |-> F(<<<<Kind("string")>>, <<Kind("bool")>>>>, FALSE, {"plain"}),
   sum     |-> F(<<Ints>>, FALSE, {"plain"}),
   user    |-> F(<<<<Kind("struct")>>>>, FALSE, {"plain", "opaque"}),
   grade   |-> F(<<<<Grade>>>>, FALSE, {"plain"}),
   grades  |-> F(<<<<Kind("slice"), Grade>>>>, FALSE, {"plain"}),
   total   |-> F(<<Ints>>, TRUE, {"plain"}),
   format  |-> F(<<<<Kind("slice"), Kind("interface")>>>>, TRUE, {"plain"})]

V(kind)        == [kind |-> kind]
Str(int, bool) == [kind |-> "string", int |-> int, bool |-> bool]
Slice(elems)   == [kind |-> "slice", elems |-> elems]

\* Per function, what may and what may not be made into its parameters.
Args ==
  [absent  |-> {<<>>},
   nothing |-> {<<>>, <<V("nil")>>},
   concat  |-> {<<x, y>> : x \in {V("float64"), Str(FALSE, FALSE)},
                           y \in {V("float64"), Str(FALSE, TRUE)}},
   sum     |-> {<<Slice(<<x, y>>)>> : x \in {V("nil"), V("float64")}, y \in {V("bool"), Str(TRUE, FALSE)}}
               \cup {<<>>, <<Slice(<<>>)>>, <<V("float64")>>},
   user    |-> {<<V("nil")>>} \cup {<<[kind |-> "map", fits |-> f]>> : f \in BOOLEAN},
   grade   |-> {<<V("nil")>>, <<V("float64")>>, <<V("bool")>>},
   grades  |-> {<<Slice(<<x, y>>)>> : x \in {V("nil"), V("float64")}, y \in {V("bool"), V("float64")}},
   total   |-> {<<V("nil")>>, <<Slice(<<V("float64")>>)>>, <<V("float64")>>},
   format  |-> {<<V("nil")>>, <<Slice(<<V("float64")>>)>>}]

Calls ==
  UNION {{[name |-> n, args |-> a] : a \in Args[n]} : n \in DOMAIN Args}

NoCall == [name |-> "absent", args |-> <<>>]
Body(form, type, sound, call) ==
  [form |-> form, type |-> type, sound |-> sound, call |-> call]

MCBodies ==
  {Body("empty", "", FALSE, NoCall), Body("broken", "", FALSE, NoCall),
   Body("request", "function", FALSE, NoCall)}
  \cup {Body("ping", "heartbeat_ping", s, NoCall) : s \in BOOLEAN}
  \cup {Body("request", "command", s, NoCall) : s \in BOOLEAN}
  \cup {Body("request", t, TRUE, NoCall) :
          t \in {"sql", "transaction", "heartbeat_ping", "other"}}
  \cup {Body("request", "function", TRUE, call) : call \in Calls}
=============================================================================
