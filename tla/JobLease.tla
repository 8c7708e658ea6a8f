------------------------------ MODULE JobLease ------------------------------
(***************************************************************************)
(* What the distributed proof queue promises its workers, without Redis,   *)
(* queues or counters: a module is leased to one worker at a time, a lease *)
(* is granted only when every dependency has been published as checked,    *)
(* and only a worker that held the lease publishes the module.             *)
(***************************************************************************)
CONSTANTS Workers,   \* worker processes
          Nobody,    \* the holder of a free lease
          Modules,   \* names that may occur as a dependency
          Jobs,      \* the modules being checked
          Deps       \* [Jobs -> SUBSET Modules]

VARIABLES holder,    \* [Jobs -> Workers \cup {Nobody}]
          passed,    \* pairs <<worker, job>>: checked, not yet published
          done       \* published jobs

leaseVars == <<holder, passed, done>>

Init ==
  /\ holder = [j \in Jobs |-> Nobody]
  /\ passed = {}
  /\ done = {}

Acquire(w, j) ==
  /\ holder[j] = Nobody
  /\ Deps[j] \subseteq done
  /\ holder' = [holder EXCEPT ![j] = w]
  /\ UNCHANGED <<passed, done>>

\* The lease ends without a result: released, or the check failed.
GiveUp(w, j) ==
  /\ holder[j] = w
  /\ holder' = [holder EXCEPT ![j] = Nobody]
  /\ UNCHANGED <<passed, done>>

Pass(w, j) ==
  /\ holder[j] = w
  /\ holder' = [holder EXCEPT ![j] = Nobody]
  /\ passed' = passed \cup {<<w, j>>}
  /\ UNCHANGED done

Publish(w, j) ==
  /\ <<w, j>> \in passed
  /\ passed' = passed \ {<<w, j>>}
  /\ done' = done \cup {j}
  /\ UNCHANGED holder

\* The worker stops between the result and its publication.
Lose(w, j) ==
  /\ <<w, j>> \in passed
  /\ passed' = passed \ {<<w, j>>}
  /\ UNCHANGED <<holder, done>>

Next == \E w \in Workers, j \in Jobs :
          \/ Acquire(w, j)
          \/ GiveUp(w, j)
          \/ Pass(w, j)
          \/ Publish(w, j)
          \/ Lose(w, j)

Spec == Init /\ [][Next]_leaseVars
=============================================================================
