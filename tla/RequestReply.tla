---------------------------- MODULE RequestReply ----------------------------
(***************************************************************************)
(* What the server promises about each request, whatever its queues and    *)
(* workers do: a request is answered at most once, only after it was sent, *)
(* and one that was lost (the process that had taken it from the broker    *)
(* went away) is never answered later.                                     *)
(***************************************************************************)
CONSTANT Requests

VARIABLE status   \* [Requests -> {"new", "pending", "answered", "lost"}]

Init == status = [m \in Requests |-> "new"]

Send(m) ==
  /\ status[m] = "new"
  /\ status' = [status EXCEPT ![m] = "pending"]

Answer(m) ==
  /\ status[m] = "pending"
  /\ status' = [status EXCEPT ![m] = "answered"]

\* A failure of the server takes any number of pending requests with it.
Lose(S) ==
  /\ S # {} /\ \A m \in S : status[m] = "pending"
  /\ status' = [m \in Requests |-> IF m \in S THEN "lost" ELSE status[m]]

Next ==
  \/ \E m \in Requests : Send(m) \/ Answer(m)
  \/ \E S \in SUBSET Requests : Lose(S)

Spec == Init /\ [][Next]_status
=============================================================================
