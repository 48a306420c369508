---------------------------- MODULE FunctionCalls ----------------------------
(***************************************************************************)
(* Calls of registered functions (handleFunction, server/server.go): the   *)
(* values of a JSON request are made into what the function's signature    *)
(* asks for, and the function is called by reflection.                     *)
(*                                                                         *)
(* A type is the sequence of its kinds, outermost first: []int is a slice  *)
(* kind, then an int kind.  A string, int or bool kind is named when it is *)
(* one of the program's own types (type Celsius int).  A value is what the *)
(* conversion tells apart: its JSON kind, whether a string reads as an int *)
(* or as a bool, whether a map has what the struct asks for, and the       *)
(* elements of a slice, which are not slices (bound).  FunctionParam.Type  *)
(* is not looked at.                                                       *)
(***************************************************************************)
EXTENDS Naturals, Sequences

IsSequence(s) == s \in Seq({s[i] : i \in DOMAIN s})

\* Only a slice has an element type; strings, ints and bools have nothing inside.
IsType(type) ==
  /\ type \in Seq([kind : STRING, named : BOOLEAN]) /\ type # <<>>
  /\ \A i \in DOMAIN type :
       /\ type[i].kind \in {"string", "int", "bool"} => i = Len(type)
       /\ type[i].kind = "slice" => i < Len(type)

\* The params of a request are an array of values.
AreArguments(args) ==
  /\ IsSequence(args)
  /\ \A i \in DOMAIN args : args[i].kind = "slice" => IsSequence(args[i].elems)

Kind(kind)  == [kind |-> kind, named |-> FALSE]
Plain(type) == \A i \in DOMAIN type : ~type[i].named

Is(kind, type) == Head(type).kind = kind
Elem(type)     == Tail(type)

TypeOf(v) == IF v.kind \in {"slice", "map"} THEN <<Kind(v.kind), Kind("interface")>>
             ELSE <<Kind(v.kind)>>
-----------------------------------------------------------------------------
(* convertToType.                                                          *)

\* A number loses what is after its point.  Other conversions are an error.
Convertible(v, type) ==
  \/ v.kind = "nil" \/ TypeOf(v) = type
  \/ Is("string", type)
  \/ Is("int", type) /\ (v.kind = "float64" \/ (v.kind = "string" /\ v.int))
  \/ Is("bool", type) /\ v.kind = "string" /\ v.bool
  \/ Is("struct", type) /\ v.kind = "map" /\ v.fits

\* The type of what comes out: strings, ints and bools lose the program's name.
Converted(v, type) ==
  IF v.kind # "nil" /\ Head(type).kind \in {"string", "int", "bool"}
  THEN <<Kind(Head(type).kind)>> ELSE type

\* The first of these outcomes that is not "ok".
FirstFailure(outcomes) ==
  LET bad == {i \in DOMAIN outcomes : outcomes[i] # "ok"} IN
  IF bad = {} THEN "ok" ELSE outcomes[CHOOSE i \in bad : \A j \in bad : i <= j]

\* An element is put in its place, where reflection panics over a wrong type.
ConvertElement(v, type) ==
  IF ~Convertible(v, type) THEN "error"
  ELSE IF Converted(v, type) # type THEN "panic" ELSE "ok"

\* Mutant: elements of other types are left out of the new slice.
ConvertToTypeSkipping(v, type) ==
  IF Convertible(v, type) \/ (v.kind = "slice" /\ Is("slice", type))
  THEN "ok" ELSE "error"

ConvertToType(v, type) ==
  IF v.kind = "slice" /\ Is("slice", type) /\ TypeOf(v) # type
  THEN FirstFailure([i \in DOMAIN v.elems |-> ConvertElement(v.elems[i], Elem(type))])
  ELSE IF Convertible(v, type) THEN "ok" ELSE "error"
-----------------------------------------------------------------------------
(* executeFunction.                                                        *)

PrepareFunctionParams(args, f) ==
  IF Len(args) # Len(f.params) THEN "error"
  ELSE FirstFailure([i \in DOMAIN args |-> ConvertToType(args[i], f.params[i])])

\* reflect.Value.Call wants the declared types, and the elements of a variadic
\* parameter one by one: the slice that was made of them counts as one element.
Callable(args, f) ==
  \A i \in DOMAIN args :
    IF f.variadic /\ i = Len(args) THEN Is("interface", Elem(f.params[i]))
    ELSE Converted(args[i], f.params[i]) = f.params[i]

\* What becomes of a call: an error, a panic in the conversion or at the call, or
\* the function runs.  Its context is looked at once, before anything else.
ExecuteFunction(registry, call, expired) ==
  IF expired \/ call.name \notin DOMAIN registry THEN "error"
  ELSE LET f        == registry[call.name]
           prepared == PrepareFunctionParams(call.args, f)
       IN IF prepared # "ok" THEN prepared
          ELSE IF Callable(call.args, f) THEN "run" ELSE "panic"

\* convertFunctionResult and formatResult make a row of any results; opaque ones
\* (a map with NaN, a channel) are beyond json.Marshal, whose error respond does
\* not look at: the reply has no body.
ConvertFunctionResult(results) == IF results = "opaque" THEN "bare" ELSE "rows"
-----------------------------------------------------------------------------
(* What a call means, for the properties.                                  *)

Represents(v, type) ==
  \/ Convertible(v, type)
  \/ /\ v.kind = "slice" /\ Is("slice", type)
     /\ \A i \in DOMAIN v.elems : Convertible(v.elems[i], Elem(type))

\* The arguments are what the signature asks for.
Fits(registry, call) ==
  /\ call.name \in DOMAIN registry
  /\ LET params == registry[call.name].params IN
       /\ Len(call.args) = Len(params)
       /\ \A i \in DOMAIN params : Represents(call.args[i], params[i])

\* Signatures that reflection has no trouble with.
Ordinary(f) == ~f.variadic /\ \A i \in DOMAIN f.params : Plain(f.params[i])
=============================================================================
