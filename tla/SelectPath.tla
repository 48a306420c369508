----------------------------- MODULE SelectPath -----------------------------
(***************************************************************************)
(* handleSQL from end to end: a worker asks the validator (SQLValidator)   *)
(* and, with its consent, the cache and the database (CachedQuery), while  *)
(* SetSQLValidationConfig replaces the policy and ClearCache empties the   *)
(* cache.  Validation and the replacement of a policy are quick compared   *)
(* with a tick.                                                            *)
(***************************************************************************)
EXTENDS CachedQuery

CONSTANTS Queries, Policies, NoPolicy, NumPatterns, MaxQueries

VARIABLES
  config, incoming, compiled, asked, stage, query, valid,  \* see SQLValidator
  duty   \* history: [Workers -> what the policy asks for the request], where
         \* "either" means that the policy was replaced while it was judged

V == INSTANCE SQLValidator

validatorVars == <<config, incoming, compiled, asked, stage, query, valid>>
pathVars == <<vars, validatorVars, duty>>

\* isReadOnlyQuery looks at the first letters, the validator at the first word
\* after comments.
IsReadOnlyQuery(q) == q.prefix = "select"

\* Bound: the read-only queries have one cache key, as queries have that differ
\* in letter case or white space only.
ASSUME SPAssumption ==
  /\ Queries # {} /\ NoPolicy \notin Policies
  /\ NumPatterns \in Nat /\ MaxQueries \in Nat
  /\ \A q \in Queries : q.pattern \in 0 .. NumPatterns

\* Types, and a worker is in one place of the path.
PathTypeOK ==
  /\ TypeOK /\ V!ValidatorOK
  /\ \A w \in Workers : pc[w] = "idle" \/ stage[w] = "idle"
  /\ duty \in [Workers -> {"none", "permit", "refuse", "either"}]

PathInit == Init /\ V!Init /\ duty = [w \in Workers |-> "none"]

Owe(w, d) == duty' = [duty EXCEPT ![w] = d]
-----------------------------------------------------------------------------
Receive(w, q) ==
  /\ pc[w] = "idle" /\ V!Begin(w, q)
  /\ Owe(w, IF V!Updating THEN "either"
            ELSE IF V!Permits(config, q) THEN "permit" ELSE "refuse")
  /\ UNCHANGED vars

Judge(w) == V!Validate(w) /\ UNCHANGED <<vars, duty>>

\* The validation errors are the answer.
Refuse(w) ==
  /\ stage[w] = "refused" /\ V!Leave(w)
  /\ Answer(w, NoResult) /\ Owe(w, "none")
  /\ UNCHANGED <<slot, entry>>

\* Mutant: the cache is asked before the validator.
ProceedCacheFirst(w) ==
  \/ stage[w] = "accepted" /\ V!Leave(w) /\ Miss(w) /\ UNCHANGED duty
  \/ /\ stage[w] = "command" /\ IsReadOnlyQuery(query[w]) /\ Hit(w)
     /\ stage' = [stage EXCEPT ![w] = "idle"]
     /\ UNCHANGED <<config, incoming, compiled, asked, query, valid, duty>>

\* The cache is for read-only queries outside a transaction.
Proceed(w) ==
  /\ stage[w] = "accepted" /\ V!Leave(w)
  /\ \/ IsReadOnlyQuery(query[w]) /\ (Hit(w) \/ Miss(w))
     \/ StartDirect(w)
  /\ UNCHANGED duty

ReadRows(w) == RowsEnd(w) /\ UNCHANGED <<validatorVars, duty>>

Reply(w) ==
  /\ SendHit(w) \/ QueryError(w) \/ Set(w) \/ DirectEnd(w)
  /\ Owe(w, "none")
  /\ UNCHANGED validatorVars

\* SetSQLValidationConfig.
SetPolicy(p) ==
  /\ V!UpdateConfig(p)
  /\ duty' = [w \in Workers |-> IF stage[w] \in V!Judging THEN "either" ELSE duty[w]]
  /\ UNCHANGED vars

Compile ==
  /\ V!StartCompiling \/ V!CompilePattern
  /\ UNCHANGED <<vars, duty>>

Environment ==
  /\ \/ Evict \/ ClearCache
     \/ Tick /\ ~V!Updating /\ \A w \in Workers : stage[w] = "idle"
  /\ UNCHANGED <<validatorVars, duty>>

PathNext ==
  \/ \E w \in Workers : \/ Judge(w) \/ Refuse(w) \/ Proceed(w) \/ ReadRows(w)
                        \/ Reply(w) \/ \E q \in Queries : Receive(w, q)
  \/ \E p \in Policies : SetPolicy(p)
  \/ Compile \/ Environment

PathSpec == PathInit /\ [][PathNext]_pathVars
-----------------------------------------------------------------------------
(* Properties.                                                             *)

\* A request that the policy in force forbids gets no rows, from the database or
\* from what the cache still has of a time when it was allowed; and one that it
\* allows is not refused.  Only requests judged while the policy is replaced
\* are excepted, which a mixture of two policies judges.
Policed ==
  \A w \in Workers :
    /\ pc[w] # "idle" => duty[w] # "refuse"
    /\ stage[w] = "refused" => duty[w] # "permit"
=============================================================================
