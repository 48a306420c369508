------------------------------ MODULE SQLPolicy ------------------------------
(***************************************************************************)
(* What the SQL validator decides (server/sql_validator.go), and the       *)
(* policies the server's settings are turned into (server/config.go).      *)
(*                                                                         *)
(* A query is what its text scans find: its first word, its length,        *)
(* whether it is blank, the first injection pattern it matches (0: none),  *)
(* its structure, and the procedure a CALL names ("": none found).  The    *)
(* parameters only give rise to warnings, which are logged.                *)
(***************************************************************************)
EXTENDS Naturals

Structures == {"sound", "unbalanced", "unclosed"}

\* SQLValidationConfig.  A list of commands or procedures is a set of names in
\* upper case; a list of two words ("CREATE USER") equals no first word.
Policy(enabled, allowed, blocked, ddl, dml, dql, procs, named, length, strict) ==
  [Enabled |-> enabled, AllowedCommands |-> allowed, BlockedCommands |-> blocked,
   AllowDDL |-> ddl, AllowDML |-> dml, AllowDQL |-> dql,
   AllowStoredProcedures |-> procs, AllowedStoredProcs |-> named,
   MaxQueryLength |-> length, StrictMode |-> strict]

DQL == {"SELECT", "SHOW", "DESCRIBE", "EXPLAIN"}
DML == {"INSERT", "UPDATE", "DELETE"}
DDL == {"CREATE", "ALTER", "DROP", "TRUNCATE"}
Procedural == {"CALL", "EXEC", "EXECUTE"}

DefaultSQLValidationConfig(maxLength) ==
  Policy(TRUE, {"SELECT"} \cup DML,
         {"DROP", "TRUNCATE", "ALTER", "CREATE USER", "GRANT", "REVOKE"},
         FALSE, TRUE, TRUE, FALSE, {}, maxLength, FALSE)
-----------------------------------------------------------------------------
(* ServerConfig to SQLValidationConfig.                                    *)

BuildAllowedCommands(sc) ==
  DQL \cup (IF sc.AllowDML THEN DML ELSE {})
      \cup (IF sc.AllowDDL THEN DDL ELSE {})
      \cup (IF sc.AllowStoredProcs THEN Procedural ELSE {})

BuildBlockedCommands(sc) ==
  {"SHUTDOWN", "RESTART", "RESET", "CREATE USER", "DROP USER", "ALTER USER",
   "GRANT", "REVOKE", "FLUSH", "LOAD DATA", "LOAD XML", "INTO OUTFILE",
   "INTO DUMPFILE"}
  \cup (IF sc.StrictMode
        THEN {"TRUNCATE", "DELETE", "ALTER", "CREATE", "CALL", "EXECUTE"} ELSE {})

ToSQLValidationConfig(sc) ==
  Policy(sc.ValidationEnabled, BuildAllowedCommands(sc), BuildBlockedCommands(sc),
         sc.AllowDDL, sc.AllowDML, TRUE, sc.AllowStoredProcs,
         sc.AllowedStoredProcs, sc.MaxQueryLength, sc.StrictMode)
-----------------------------------------------------------------------------
(* The checks, each of a query q under the policy p its reads found.       *)

TooLong(p, q) == q.length > p.MaxQueryLength

\* Without a whitelist of procedures the switch decides.
StoredProcedureValid(p, q) ==
  IF p.AllowedStoredProcs = {} THEN p.AllowStoredProcedures
  ELSE q.proc # "" /\ q.proc \in p.AllowedStoredProcs

\* Only CALL is held against the procedures when commands are listed.
ListedCommandValid(p, q) ==
  /\ q.command \in p.AllowedCommands
  /\ q.command = "CALL" => StoredProcedureValid(p, q)

CategoryValid(p, q) ==
  /\ q.command \in DQL => p.AllowDQL
  /\ q.command \in DML => p.AllowDML
  /\ q.command \in DDL => p.AllowDDL
  /\ q.command \in Procedural => p.AllowStoredProcedures /\ StoredProcedureValid(p, q)
  /\ q.command \notin DQL \cup DML \cup DDL \cup Procedural => ~p.StrictMode

\* The settings that a command is judged by, with the strict mode.
CommandFields ==
  {"BlockedCommands", "AllowedCommands", "AllowDDL", "AllowDML", "AllowDQL",
   "AllowStoredProcedures", "AllowedStoredProcs", "StrictMode"}

\* Blacklist, then whitelist if there is one, else category.
CommandValid(p, q) ==
  /\ q.command \notin p.BlockedCommands
  /\ IF p.AllowedCommands # {} THEN ListedCommandValid(p, q) ELSE CategoryValid(p, q)

\* Of n compiled patterns one matches.
InjectionDetected(n, q) == q.pattern \in 1 .. n

\* Unclosed comments and several statements count in strict mode only.
StructureErrors(strict, q) ==
  q.structure = "unbalanced" \/ (strict /\ q.structure = "unclosed")

\* The verdict of one undisturbed validation.
Permits(p, q) ==
  p.Enabled =>
    /\ ~TooLong(p, q) /\ ~q.blank
    /\ CommandValid(p, q)
    /\ q.pattern = 0
    /\ p.StrictMode => ~StructureErrors(TRUE, q)
=============================================================================
