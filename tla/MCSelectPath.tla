---------------------------- MODULE MCSelectPath ----------------------------
(* Small instances of SelectPath for TLC.                                   *)
EXTENDS SelectPath, TLC

CONSTANTS w1, w2, a1, a2, a3

P == INSTANCE SQLPolicy

MCWorkers  == {w1, w2}
MCAddrs    == {a1, a2, a3}
MCSymmetry == Permutations(MCWorkers) \cup Permutations(MCAddrs)

Q(command, prefix, length, pattern, structure, proc) ==
  [command |-> command, prefix |-> prefix, length |-> length, blank |-> length = 0,
   pattern |-> pattern, structure |-> structure, proc |-> proc]

\* A SELECT written tightly and with more spaces, an INSERT that matches the last
\* pattern, a CALL with a comment left open, and no query at all.
MCQueries ==
  {Q("SELECT", "select", 1, 0, "sound", ""), Q("SELECT", "select", 2, 0, "sound", ""),
   Q("INSERT", "other", 1, 2, "sound", ""), Q("CALL", "other", 1, 0, "unclosed", "p"),
   Q("UNKNOWN", "other", 0, 0, "sound", "")}

Settings(enabled, procs, strict) ==
  [ValidationEnabled |-> enabled, AllowDML |-> TRUE, AllowDDL |-> FALSE,
   AllowStoredProcs |-> procs, AllowedStoredProcs |-> IF procs THEN {"p"} ELSE {},
   MaxQueryLength |-> 2, StrictMode |-> strict]

\* The default; two made from settings; and one that lists no commands.
MCPolicies ==
  {P!DefaultSQLValidationConfig(1),
   P!ToSQLValidationConfig(Settings(TRUE, TRUE, FALSE)),
   P!ToSQLValidationConfig(Settings(FALSE, FALSE, TRUE)),
   P!Policy(TRUE, {}, {}, FALSE, FALSE, TRUE, TRUE, {}, 2, TRUE)}
=============================================================================
