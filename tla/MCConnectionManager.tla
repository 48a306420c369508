------------------------ MODULE MCConnectionManager ------------------------
(* Small instances of ConnectionManager for TLC.                            *)
EXTENDS ConnectionManager

CONSTANTS c1, c2, c3

MCConns == {c1, c2, c3}

Automatic   == [maxAttempts |-> 0, heartbeat |-> FALSE]
Limited     == [maxAttempts |-> 2, heartbeat |-> FALSE]
Heartbeat   == [maxAttempts |-> 0, heartbeat |-> TRUE]
MCConfigs   == {Automatic, Limited, Heartbeat}
MCAutomatic == {Automatic}
=============================================================================
