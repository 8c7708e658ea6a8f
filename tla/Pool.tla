-------------------------------- MODULE Pool --------------------------------
(***************************************************************************)
(* RedisLean/Pool.lean: threads that borrow connections with               *)
(* withConnection, threads that prune idle ones and threads that close the *)
(* pool, under the spin lock of acquireLock.                               *)
(*                                                                         *)
(* A step reads or writes one IO.Ref that threads share.  A context is     *)
(* never allocated twice, and the array of connections is a set: which of  *)
(* the available ones findAvailable meets first makes no difference here.  *)
(***************************************************************************)
EXTENDS Integers, FiniteSets

CONSTANTS Users, Pruners, Closers,  \* threads, by the operation they call
          Ctxs,                     \* FFI contexts, as FFI.connect returns them
          NoCtx,
          MaxConnections, MinConnections,  \* PoolConfig
          Preempt,  \* may another thread run between get and set of lockFlag?
          Calls     \* bound on the operations begun

Threads == Users \cup Pruners \cup Closers

ASSUME PoolAssumption ==
  /\ IsFiniteSet(Threads) /\ IsFiniteSet(Ctxs)
  /\ Users \cap (Pruners \cup Closers) = {} /\ Pruners \cap Closers = {}
  /\ NoCtx \notin Ctxs
  /\ MaxConnections \in Nat /\ MinConnections \in Nat /\ Calls \in Nat
  /\ Preempt \in BOOLEAN

VARIABLES
  lockFlag,     \* Pool.lockFlag
  connections,  \* Pool.connections
  inUse,        \* PooledConnection.inUse
  open,         \* contexts connected and not freed
  made,         \* contexts ever connected (connectionsCreated)
  acquired, released,  \* PoolStats.acquireCount, releaseCount
  pc, mine, todo, kept,  \* locals of each thread
  calls,        \* operations begun
  closing       \* history: has a close begun?

stats == <<acquired, released>>
vars == <<lockFlag, connections, inUse, open, made, stats, pc, mine, todo, kept, calls, closing>>

\* A thread waits for the lock in "lock" and "setFlag"; op says what for.
Op(t) == CASE t \in Pruners -> "prune"
           [] t \in Closers -> "close"
           [] t \in Users /\ mine[t] = NoCtx -> "acquire"
           [] t \in Users /\ mine[t] # NoCtx -> "release"

Goto(t, label) == pc' = [pc EXCEPT ![t] = label]

\* Pool.create connects up to minConnections times; each attempt may fail.
Init ==
  /\ \E S \in SUBSET Ctxs :
       /\ Cardinality(S) <= MinConnections /\ Cardinality(S) <= MaxConnections
       /\ connections = S /\ open = S /\ made = S
  /\ lockFlag = FALSE
  /\ inUse = [c \in Ctxs |-> FALSE]
  /\ acquired = 0 /\ released = 0
  /\ pc = [t \in Threads |-> "idle"]
  /\ mine = [t \in Threads |-> NoCtx]
  /\ todo = [t \in Threads |-> {}]
  /\ kept = [t \in Threads |-> {}]
  /\ calls = 0 /\ closing = FALSE

Begin(t) ==
  /\ pc[t] = "idle" /\ calls < Calls
  /\ calls' = calls + 1
  /\ closing' = (closing \/ t \in Closers)
  /\ Goto(t, "lock")
  /\ UNCHANGED <<lockFlag, connections, inUse, open, made, stats, mine, todo, kept>>

-----------------------------------------------------------------------------
(* acquireLock: get and set of an IO.Ref are two steps.                    *)

\* Mutant: the flag is not looked at.
BargeIn(t) ==
  /\ pc[t] = "lock"
  /\ lockFlag' = TRUE /\ Goto(t, "snapshot")
  /\ UNCHANGED <<connections, inUse, open, made, stats, mine, todo, kept, calls, closing>>

GetFlag(t) ==
  /\ pc[t] = "lock" /\ ~lockFlag
  /\ IF Preempt THEN Goto(t, "setFlag") /\ UNCHANGED lockFlag
                ELSE Goto(t, "snapshot") /\ lockFlag' = TRUE
  /\ UNCHANGED <<connections, inUse, open, made, stats, mine, todo, kept, calls, closing>>

SetFlag(t) ==
  /\ pc[t] = "setFlag"
  /\ lockFlag' = TRUE
  /\ Goto(t, "snapshot")
  /\ UNCHANGED <<connections, inUse, open, made, stats, mine, todo, kept, calls, closing>>

\* pool.connections.get, the first read of every operation.
Snapshot(t) ==
  /\ pc[t] = "snapshot"
  /\ todo' = [todo EXCEPT ![t] = connections]
  /\ kept' = [kept EXCEPT ![t] = {}]
  /\ Goto(t, Op(t))
  /\ UNCHANGED <<lockFlag, connections, inUse, open, made, stats, mine, calls, closing>>

\* Mutant: an operation that leaves the lock flag set.
UnlockForgotten(t) ==
  /\ pc[t] = "unlock"
  /\ Goto(t, IF mine[t] = NoCtx THEN "idle" ELSE "using")
  /\ UNCHANGED <<lockFlag, connections, inUse, open, made, stats, mine, todo, kept, calls, closing>>

Unlock(t) ==
  /\ pc[t] = "unlock"
  /\ lockFlag' = FALSE
  /\ Goto(t, IF mine[t] = NoCtx THEN "idle" ELSE "using")
  /\ UNCHANGED <<connections, inUse, open, made, stats, mine, todo, kept, calls, closing>>

-----------------------------------------------------------------------------
(* acquire                                                                 *)

FindAvailable(t) ==
  /\ pc[t] = "acquire"
  /\ \/ /\ todo[t] = {}
        /\ Goto(t, "create")
        /\ UNCHANGED <<mine, todo>>
     \/ \E c \in todo[t] :
          \/ ~inUse[c] /\ Goto(t, "take") /\ mine' = [mine EXCEPT ![t] = c]
                       /\ todo' = [todo EXCEPT ![t] = {}]
          \/ inUse[c] /\ todo' = [todo EXCEPT ![t] = @ \ {c}] /\ UNCHANGED <<pc, mine>>
  /\ UNCHANGED <<lockFlag, connections, inUse, open, made, stats, kept, calls, closing>>

\* conn.acquire
Take(t) ==
  /\ pc[t] = "take"
  /\ inUse' = [inUse EXCEPT ![mine[t]] = TRUE]
  /\ acquired' = acquired + 1
  /\ Goto(t, "unlock")
  /\ UNCHANGED <<lockFlag, connections, open, made, released, mine, todo, kept, calls, closing>>

\* Mutant: the size limit is off by one.
CreateOneMore(t) ==
  /\ pc[t] = "create"
  /\ \/ Goto(t, "wait") /\ UNCHANGED <<open, made, mine>>
     \/ /\ Cardinality(connections) <= MaxConnections
        /\ \E c \in Ctxs \ made :
             /\ open' = open \cup {c} /\ made' = made \cup {c}
             /\ mine' = [mine EXCEPT ![t] = c]
        /\ Goto(t, "push")
  /\ UNCHANGED <<lockFlag, connections, inUse, stats, todo, kept, calls, closing>>

\* Mutant: a failed connection is pushed like any other.
CreateFailed(t) ==
  /\ pc[t] = "create" /\ Goto(t, "push")
  /\ UNCHANGED <<lockFlag, connections, inUse, open, made, stats, mine, todo, kept, calls, closing>>

\* createConnection gives up at the limit and when FFI.connect fails.
CreateConnection(t) ==
  /\ pc[t] = "create"
  /\ \/ Goto(t, "wait") /\ UNCHANGED <<open, made, mine>>
     \/ /\ Cardinality(connections) < MaxConnections
        /\ \E c \in Ctxs \ made :
             /\ open' = open \cup {c} /\ made' = made \cup {c}
             /\ mine' = [mine EXCEPT ![t] = c]
        /\ Goto(t, "push")
  /\ UNCHANGED <<lockFlag, connections, inUse, stats, todo, kept, calls, closing>>

Push(t) ==
  /\ pc[t] = "push"
  /\ connections' = connections \cup {mine[t]}
  /\ Goto(t, "take")
  /\ UNCHANGED <<lockFlag, inUse, open, made, stats, mine, todo, kept, calls, closing>>

\* Without a connection the lock is given up, for a while or for good.
TimedOut(t) ==
  /\ pc[t] = "wait"
  /\ lockFlag' = FALSE
  /\ Goto(t, "idle")
  /\ UNCHANGED <<connections, inUse, open, made, stats, mine, todo, kept, calls, closing>>

Sleep(t) ==
  /\ pc[t] = "wait"
  /\ lockFlag' = FALSE
  /\ Goto(t, "lock")
  /\ UNCHANGED <<connections, inUse, open, made, stats, mine, todo, kept, calls, closing>>

-----------------------------------------------------------------------------
(* withConnection releases whether the action returns or throws.           *)

Finish(t) ==
  /\ pc[t] = "using"
  /\ Goto(t, "lock")
  /\ UNCHANGED <<lockFlag, connections, inUse, open, made, stats, mine, todo, kept, calls, closing>>

\* Mutant: the context is never found in the array.
ReleaseNothing(t) ==
  /\ pc[t] = "release"
  /\ mine' = [mine EXCEPT ![t] = NoCtx] /\ todo' = [todo EXCEPT ![t] = {}]
  /\ Goto(t, "unlock")
  /\ UNCHANGED <<lockFlag, connections, inUse, open, made, stats, kept, calls, closing>>

\* Only a connection that is still pooled is marked and counted.
Release(t) ==
  /\ pc[t] = "release"
  /\ IF mine[t] \in todo[t]
       THEN /\ inUse' = [inUse EXCEPT ![mine[t]] = FALSE]
            /\ released' = released + 1
       ELSE UNCHANGED <<inUse, released>>
  /\ mine' = [mine EXCEPT ![t] = NoCtx]
  /\ todo' = [todo EXCEPT ![t] = {}]
  /\ Goto(t, "unlock")
  /\ UNCHANGED <<lockFlag, connections, open, made, acquired, kept, calls, closing>>

-----------------------------------------------------------------------------
(* pruneIdleConnections and close                                          *)

\* Mutant: connections in use are pruned like the others.
PruneAny(t) ==
  /\ pc[t] = "prune"
  /\ \E c \in todo[t] :
       /\ todo' = [todo EXCEPT ![t] = @ \ {c}]
       /\ \/ kept' = [kept EXCEPT ![t] = @ \cup {c}] /\ UNCHANGED open
          \/ Cardinality(kept[t]) >= MinConnections /\ open' = open \ {c} /\ UNCHANGED kept
  /\ UNCHANGED <<lockFlag, connections, inUse, made, stats, pc, mine, calls, closing>>

\* Mutant: the number of connections to keep is ignored.
PruneAll(t) ==
  /\ pc[t] = "prune"
  /\ \E c \in todo[t] :
       /\ todo' = [todo EXCEPT ![t] = @ \ {c}]
       /\ \/ kept' = [kept EXCEPT ![t] = @ \cup {c}] /\ UNCHANGED open
          \/ ~inUse[c] /\ open' = open \ {c} /\ UNCHANGED kept
  /\ UNCHANGED <<lockFlag, connections, inUse, made, stats, pc, mine, calls, closing>>

\* Mutant: a connection is dropped and not freed.
PruneUnfreed(t) ==
  /\ pc[t] = "prune"
  /\ \E c \in todo[t] :
       /\ todo' = [todo EXCEPT ![t] = @ \ {c}]
       /\ \/ kept' = [kept EXCEPT ![t] = @ \cup {c}]
          \/ ~inUse[c] /\ Cardinality(kept[t]) >= MinConnections /\ UNCHANGED kept
  /\ UNCHANGED <<lockFlag, connections, inUse, open, made, stats, pc, mine, calls, closing>>

\* Any available connection may have been idle for too long.
PruneOne(t) ==
  /\ pc[t] = "prune"
  /\ \E c \in todo[t] :
       /\ todo' = [todo EXCEPT ![t] = @ \ {c}]
       /\ \/ kept' = [kept EXCEPT ![t] = @ \cup {c}] /\ UNCHANGED open
          \/ /\ ~inUse[c] /\ Cardinality(kept[t]) >= MinConnections
             /\ open' = open \ {c} /\ UNCHANGED kept
  /\ UNCHANGED <<lockFlag, connections, inUse, made, stats, pc, mine, calls, closing>>

CloseOne(t) ==
  /\ pc[t] = "close"
  /\ \E c \in todo[t] : open' = open \ {c} /\ todo' = [todo EXCEPT ![t] = @ \ {c}]
  /\ UNCHANGED <<lockFlag, connections, inUse, made, stats, pc, mine, kept, calls, closing>>

\* pool.connections.set: what was kept of the snapshot, nothing for close.
Replace(t) ==
  /\ pc[t] \in {"prune", "close"} /\ todo[t] = {}
  /\ connections' = kept[t]
  /\ Goto(t, "unlock")
  /\ UNCHANGED <<lockFlag, inUse, open, made, stats, mine, todo, kept, calls, closing>>

-----------------------------------------------------------------------------
Locking(t) == GetFlag(t) \/ SetFlag(t) \/ Snapshot(t) \/ Unlock(t)
Acquire(t) == FindAvailable(t) \/ Take(t) \/ CreateConnection(t) \/ Push(t) \/ Sleep(t)
Sweep(t) == PruneOne(t) \/ CloseOne(t) \/ Replace(t)
Step(t) == Locking(t) \/ Acquire(t) \/ TimedOut(t) \/ Finish(t) \/ Release(t) \/ Sweep(t)
Next == \E t \in Threads : Begin(t) \/ Step(t)

Spec == Init /\ [][Next]_vars

\* Threads run, actions of withConnection end, and the clock reaches the
\* deadline of an acquire that goes round and round.
FairSpec == Spec /\ \A t \in Threads : WF_vars(Step(t)) /\ SF_vars(TimedOut(t))

-----------------------------------------------------------------------------
TypeOK ==
  /\ lockFlag \in BOOLEAN
  /\ connections \subseteq Ctxs /\ open \subseteq Ctxs /\ made \subseteq Ctxs
  /\ inUse \in [Ctxs -> BOOLEAN]
  /\ acquired \in Nat /\ released \in Nat /\ calls \in Nat
  /\ pc \in [Threads -> {"idle", "lock", "setFlag", "snapshot", "unlock", "using",
                         "acquire", "take", "create", "push", "wait",
                         "release", "prune", "close"}]
  /\ closing \in BOOLEAN
  /\ mine \in [Threads -> Ctxs \cup {NoCtx}]
  /\ todo \in [Threads -> SUBSET Ctxs] /\ kept \in [Threads -> SUBSET Ctxs]

\* Threads to which acquire has given a connection that they have not released.
Holders == {t \in Users : mine[t] # NoCtx /\ pc[t] \notin {"push", "take"}}

\* A connection is lent to one thread at a time: between the look at inUse and
\* its update no other acquire looks, because the lock is held.
ExclusiveUse == \A t, u \in Holders : t # u => mine[t] # mine[u]

\* A lent connection stays open, pooled and marked in use, through any number
\* of acquires, releases and prunes by others, until the pool is closed.
HeldIsPooled ==
  ~closing => \A t \in Holders : mine[t] \in connections \cap open /\ inUse[mine[t]]

\* No open connection is forgotten and no freed one is kept: whenever the lock
\* is free the array holds exactly the open connections.
NothingLost == ~lockFlag => connections = open

\* createConnection keeps the pool within maxConnections.
SizeBounded == Cardinality(connections) <= MaxConnections

\* pruneIdleConnections never takes the pool below minConnections.
MinKept ==
  [][\/ closing
     \/ Cardinality(connections') >= MinConnections
     \/ Cardinality(connections') >= Cardinality(connections)]_connections

\* The statistics tell the connections lent: acquired but not released.
StatsBalanced == ~closing => acquired = released + Cardinality(Holders)

\* withConnection leaks nothing: when no call is running every connection in
\* the pool is available, even if the spin lock let two threads in.
AvailableAtRest ==
  (\A t \in Threads : pc[t] = "idle") => \A c \in connections : ~inUse[c]

\* Every call ends: an acquire gets a connection or times out, and nobody
\* waits for a lock that is never released.
Quiesces == <>[](\A t \in Threads : pc[t] = "idle")
=============================================================================
