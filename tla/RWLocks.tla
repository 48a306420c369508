------------------------------ MODULE RWLocks ------------------------------
(***************************************************************************)
(* Goroutines that run operations made of lock and unlock steps on Go's    *)
(* sync.RWMutex (a sync.Mutex is one nobody read-locks).  Lock announces   *)
(* itself, which keeps new readers out, and then waits for the readers     *)
(* inside; so a reader waits for a writer that only waits itself.          *)
(***************************************************************************)
EXTENDS Naturals, Sequences

CONSTANTS
  Procs,       \* goroutines
  Locks,
  Nobody,
  Operations   \* sequences of steps [op, on]

VARIABLES
  todo,     \* [Procs -> steps left of the operation it runs]
  writer,   \* [Locks -> who holds or has announced the write lock]
  readers   \* [Locks -> [Procs -> read locks held]]

vars == <<todo, writer, readers>>

Step == [op : {"Lock", "Unlock", "RLock", "RUnlock"}, on : Locks]

Doing(p, o) == todo[p] # <<>> /\ Head(todo[p]).op = o
On(p)       == Head(todo[p]).on
Done(p)     == todo' = [todo EXCEPT ![p] = Tail(@)]
NoReaders(l) == \A p \in Procs : readers[l][p] = 0

Init ==
  /\ todo = [p \in Procs |-> <<>>]
  /\ writer = [l \in Locks |-> Nobody]
  /\ readers = [l \in Locks |-> [p \in Procs |-> 0]]

Call(p) ==
  /\ todo[p] = <<>>
  /\ \E o \in Operations : todo' = [todo EXCEPT ![p] = o]
  /\ UNCHANGED <<writer, readers>>

Announce(p) ==
  /\ Doing(p, "Lock") /\ writer[On(p)] = Nobody
  /\ writer' = [writer EXCEPT ![On(p)] = p]
  /\ UNCHANGED <<todo, readers>>

Lock(p) ==
  /\ Doing(p, "Lock") /\ writer[On(p)] = p /\ NoReaders(On(p))
  /\ Done(p) /\ UNCHANGED <<writer, readers>>

Unlock(p) ==
  /\ Doing(p, "Unlock") /\ Done(p)
  /\ writer' = [writer EXCEPT ![On(p)] = Nobody]
  /\ UNCHANGED readers

RLock(p) ==
  /\ Doing(p, "RLock") /\ writer[On(p)] = Nobody /\ Done(p)
  /\ readers' = [readers EXCEPT ![On(p)][p] = @ + 1]
  /\ UNCHANGED writer

RUnlock(p) ==
  /\ Doing(p, "RUnlock") /\ Done(p)
  /\ readers' = [readers EXCEPT ![On(p)][p] = @ - 1]
  /\ UNCHANGED writer

Run(p) == Announce(p) \/ Lock(p) \/ Unlock(p) \/ RLock(p) \/ RUnlock(p)

Next == \E p \in Procs : Call(p) \/ Run(p)

Spec == Init /\ [][Next]_vars
-----------------------------------------------------------------------------
\* Every operation returns: no cycle of goroutines waiting for one another.
OperationsReturn == \A p \in Procs : todo[p] # <<>> ~> todo[p] = <<>>
=============================================================================
