---------------------------- MODULE SQLValidator ----------------------------
(***************************************************************************)
(* The SQL validator (server/sql_validator.go) as workers call it while    *)
(* the policy is replaced.  UpdateConfig holds v.mutex, but ValidateQuery  *)
(* does not take it: it reads v.config field by field and the list of      *)
(* compiled patterns whenever it gets there.  While the policy is copied   *)
(* in, a read finds the old or the new value of a field; then the patterns *)
(* are compiled again, one by one, into a list that starts empty.  The     *)
(* counters of GetStats, which decide nothing, are left out.               *)
(***************************************************************************)
EXTENDS SQLPolicy

CONSTANTS
  Workers,
  Queries,      \* see SQLPolicy
  Policies,     \* the SQLValidationConfigs in use
  NoPolicy,
  NumPatterns,  \* injection patterns
  MaxQueries    \* bound: queries validated

VARIABLES
  config,    \* v.config
  incoming,  \* the policy UpdateConfig is copying into it, or NoPolicy
  compiled,  \* the length of v.injectionRegexes
  asked,     \* queries so far (for the bound)
  stage,     \* [Workers -> point in ValidateQuery, or its verdict]
  query,     \* [Workers -> the query validated]
  valid      \* [Workers -> result.Valid]

AnyQuery == CHOOSE q \in Queries : TRUE

Stages  == {"idle", "command", "injection", "structure", "accepted", "refused"}
Judging == {"command", "injection", "structure"}

ValidatorOK ==
  /\ config \in Policies /\ incoming \in Policies \cup {NoPolicy}
  /\ compiled \in 0 .. NumPatterns
  /\ asked \in 0 .. MaxQueries
  /\ stage \in [Workers -> Stages]
  /\ query \in [Workers -> Queries] /\ valid \in [Workers -> BOOLEAN]
  /\ \A w \in Workers : stage[w] = "accepted" => valid[w]
  /\ \A w \in Workers : stage[w] = "refused" => ~valid[w]

\* NewSQLValidator compiles the patterns before any worker runs.
Init ==
  /\ config \in Policies /\ incoming = NoPolicy /\ compiled = NumPatterns
  /\ asked = 0
  /\ stage = [w \in Workers |-> "idle"]
  /\ query = [w \in Workers |-> AnyQuery] /\ valid = [w \in Workers |-> TRUE]

Updating == incoming # NoPolicy \/ compiled < NumPatterns

\* What a worker may read of these fields now.
Seen(fields) ==
  LET new == IF incoming = NoPolicy THEN config ELSE incoming IN
  {[f \in fields |-> IF f \in read THEN new[f] ELSE config[f]] :
     read \in SUBSET {f \in fields : config[f] # new[f]}}
-----------------------------------------------------------------------------
(* ValidateQuery.                                                          *)

\* Up to the empty query: a disabled validator accepts, a blank query is refused
\* here and not counted as blocked.
Begin(w, q) ==
  /\ stage[w] = "idle" /\ asked < MaxQueries
  /\ asked' = asked + 1
  /\ \E p \in Seen({"Enabled", "MaxQueryLength"}) :
       /\ valid' = [valid EXCEPT ![w] = p.Enabled => ~TooLong(p, q) /\ ~q.blank]
       /\ stage' = [stage EXCEPT ![w] = IF ~p.Enabled THEN "accepted"
                                       ELSE IF q.blank THEN "refused" ELSE "command"]
  /\ query' = [query EXCEPT ![w] = q]
  /\ UNCHANGED <<config, incoming, compiled>>

ValidateCommand(w) ==
  /\ stage[w] = "command"
  /\ \E ok \in {CommandValid(p, query[w]) : p \in Seen(CommandFields)} :
       valid' = [valid EXCEPT ![w] = @ /\ ok]
  /\ stage' = [stage EXCEPT ![w] = "injection"]
  /\ UNCHANGED <<config, incoming, compiled, asked, query>>

\* As many patterns are tried as the list has when the loop over it starts.
DetectSQLInjection(w) ==
  /\ stage[w] = "injection"
  /\ valid' = [valid EXCEPT ![w] = @ /\ ~InjectionDetected(compiled, query[w])]
  /\ stage' = [stage EXCEPT ![w] = "structure"]
  /\ UNCHANGED <<config, incoming, compiled, asked, query>>

\* Strict mode is read twice: for what counts, and for whether it matters.
ValidateStructure(w) ==
  /\ stage[w] = "structure"
  /\ \E p, r \in Seen({"StrictMode"}) :
       LET errors == StructureErrors(p.StrictMode, query[w])
           ok     == valid[w] /\ ~(errors /\ r.StrictMode)
       IN
       /\ valid' = [valid EXCEPT ![w] = ok]
       /\ stage' = [stage EXCEPT ![w] = IF ok THEN "accepted" ELSE "refused"]
  /\ UNCHANGED <<config, incoming, compiled, asked, query>>

Validate(w) == ValidateCommand(w) \/ DetectSQLInjection(w) \/ ValidateStructure(w)

\* The caller has the verdict, and the worker is free for another query.
Leave(w) ==
  /\ stage[w] \in {"accepted", "refused"}
  /\ stage' = [stage EXCEPT ![w] = "idle"]
  /\ query' = [query EXCEPT ![w] = AnyQuery] /\ valid' = [valid EXCEPT ![w] = TRUE]
  /\ UNCHANGED <<config, incoming, compiled, asked>>
-----------------------------------------------------------------------------
(* UpdateConfig, one call at a time.                                       *)

UpdateConfig(p) ==
  /\ ~Updating /\ p # config
  /\ incoming' = p
  /\ UNCHANGED <<config, compiled, asked, stage, query, valid>>

\* The policy is in place, and the list of patterns is made anew.
StartCompiling ==
  /\ incoming # NoPolicy
  /\ config' = incoming /\ incoming' = NoPolicy /\ compiled' = 0
  /\ UNCHANGED <<asked, stage, query, valid>>

CompilePattern ==
  /\ incoming = NoPolicy /\ compiled < NumPatterns
  /\ compiled' = compiled + 1
  /\ UNCHANGED <<config, incoming, asked, stage, query, valid>>
=============================================================================
