-------------------------- MODULE ServerHeartbeat --------------------------
(***************************************************************************)
(* The server's table of clients (server/heartbeat.go): pings put clients  *)
(* into it, the cleanup marks those that fell silent.  Counters and        *)
(* statistics are left out.  Ages are in ticks of the clients' heartbeat   *)
(* interval and saturate once over MaxClientAge.                           *)
(***************************************************************************)
EXTENDS Naturals

CONSTANTS
  Clients,       \* client IPs, the keys of the table
  MaxClientAge   \* ServerHeartbeatConfig.MaxClientAge

VARIABLE clients   \* shm.clients: [Clients -> entry]

Entry == [exists : BOOLEAN, isActive : BOOLEAN, age : 0 .. MaxClientAge + 1]

ClientsOK ==
  /\ clients \in [Clients -> Entry]
  /\ \A c \in Clients : clients[c].isActive => clients[c].exists

Init == clients = [c \in Clients |-> [exists |-> FALSE, isActive |-> FALSE, age |-> 0]]

\* A ping that passed the validation: LastPing is now.  The pong follows
\* without the lock, in the same goroutine.
HandleHeartbeatPing(c) ==
  clients' = [clients EXCEPT ![c] = [exists |-> TRUE, isActive |-> TRUE, age |-> 0]]

Stale(c) == clients[c].exists /\ clients[c].age > MaxClientAge

\* Mutant: the comparison with the age is the wrong way round.
CleanupRecentConnections ==
  /\ \E c \in Clients : ~Stale(c) /\ clients[c].isActive
  /\ clients' = [c \in Clients |->
       IF ~Stale(c) THEN [clients[c] EXCEPT !.isActive = FALSE] ELSE clients[c]]

\* Stale clients are marked; their entries stay.
CleanupStaleConnections ==
  /\ \E c \in Clients : Stale(c) /\ clients[c].isActive
  /\ clients' = [c \in Clients |->
       IF Stale(c) THEN [clients[c] EXCEPT !.isActive = FALSE] ELSE clients[c]]

Age ==
  clients' = [c \in Clients |->
    IF clients[c].exists /\ clients[c].age <= MaxClientAge
    THEN [clients[c] EXCEPT !.age = @ + 1] ELSE clients[c]]

\* What GetActiveClients lists.
ActiveClients == {c \in Clients : clients[c].isActive}
=============================================================================
