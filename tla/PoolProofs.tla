----------------------------- MODULE PoolProofs -----------------------------
(***************************************************************************)
(* Proofs about Pool for every number of threads and contexts and every    *)
(* size limit, given that the spin lock excludes (~Preempt) or, for the    *)
(* last one, that the pool is neither pruned nor closed.                   *)
(***************************************************************************)
EXTENDS Pool, FiniteSetTheorems, TLAPS

\* Where a thread has the lock.
Inside == {"snapshot", "acquire", "take", "create", "push", "wait", "release",
           "prune", "close", "unlock"}

Excludes ==
  /\ \A t \in Threads : pc[t] # "setFlag"
  /\ \A t \in Threads : pc[t] \in Inside => lockFlag
  /\ \A t, u \in Threads : pc[t] \in Inside /\ pc[u] \in Inside => t = u

\* Which thread is where, and with what in hand.
Roles ==
  \A t \in Threads :
    /\ t \notin Users => mine[t] = NoCtx
    /\ pc[t] \in {"acquire", "create", "wait"} => t \in Users /\ mine[t] = NoCtx
    /\ pc[t] \in {"push", "take", "release", "using"} => t \in Users /\ mine[t] # NoCtx
    /\ pc[t] = "idle" => mine[t] = NoCtx
    /\ pc[t] = "prune" => t \in Pruners
    /\ pc[t] = "close" => t \in Closers
    /\ t \in Closers /\ pc[t] # "idle" => closing

\* A connection that nobody holds, and only that, may be lent.
Lending ==
  /\ connections \subseteq made /\ open \subseteq made
  /\ \A c \in Ctxs \ made : ~inUse[c]
  /\ \A t \in Threads : mine[t] \in made \cup {NoCtx} /\ todo[t] \subseteq made
  /\ \A t \in Threads : pc[t] \in {"push", "take"} => ~inUse[mine[t]]
  /\ \A t \in Holders : inUse[mine[t]]
  /\ ExclusiveUse

\* The array and the open connections, which differ only inside the lock.
Books ==
  /\ (\A t \in Threads : pc[t] \notin {"push", "prune", "close"}) => connections = open
  /\ \A t \in Threads :
       /\ pc[t] = "acquire" => todo[t] \subseteq connections
       /\ pc[t] = "release" => todo[t] = connections
       /\ pc[t] = "take" => mine[t] \in connections
       /\ pc[t] = "push" => /\ open = connections \cup {mine[t]}
                            /\ Cardinality(connections) < MaxConnections
       /\ pc[t] = "prune" => /\ open = kept[t] \cup todo[t] /\ kept[t] \cap todo[t] = {}
                             /\ open \subseteq connections
                             /\ \/ open = connections
                                \/ Cardinality(kept[t]) >= MinConnections
       /\ pc[t] = "close" => open = todo[t] /\ kept[t] = {}

PoolInv ==
  /\ TypeOK /\ Excludes /\ Roles /\ Lending /\ Books
  /\ HeldIsPooled /\ SizeBounded /\ StatsBalanced

LEMMA ThreadTypes ==
  /\ Users \subseteq Threads /\ Pruners \subseteq Threads /\ Closers \subseteq Threads
  /\ Threads = Users \cup Pruners \cup Closers
BY DEF Threads

LEMMA TypeStep ==
  ASSUME TypeOK, Roles, [Next]_vars
  PROVE  TypeOK'
<1> USE PoolAssumption DEF TypeOK, Goto, stats, Op
<1>1. ASSUME NEW t \in Threads, Begin(t) PROVE TypeOK'
  BY <1>1 DEF Begin
<1>2. ASSUME NEW t \in Threads, GetFlag(t) PROVE TypeOK'
  BY <1>2 DEF GetFlag
<1>3. ASSUME NEW t \in Threads, SetFlag(t) PROVE TypeOK'
  BY <1>3 DEF SetFlag
<1>4. ASSUME NEW t \in Threads, Snapshot(t) PROVE TypeOK'
  <2>1. Op(t) \in {"prune", "close", "acquire", "release"}
    BY DEF Threads
  <2> HIDE DEF Op
  <2> QED BY <1>4, <2>1 DEF Snapshot
<1>5. ASSUME NEW t \in Threads, Unlock(t) PROVE TypeOK'
  BY <1>5 DEF Unlock
<1>6. ASSUME NEW t \in Threads, FindAvailable(t) PROVE TypeOK'
  BY <1>6 DEF FindAvailable
<1>7. ASSUME NEW t \in Threads, Take(t) PROVE TypeOK'
  <2>1. inUse' = [inUse EXCEPT ![mine[t]] = TRUE]
    BY <1>7 DEF Take
  <2>2. inUse' \in [Ctxs -> BOOLEAN]
    BY <2>1
  <2> QED BY <1>7, <2>2 DEF Take
<1>8. ASSUME NEW t \in Threads, CreateConnection(t) PROVE TypeOK'
  BY <1>8 DEF CreateConnection
<1>9. ASSUME NEW t \in Threads, Push(t) PROVE TypeOK'
  BY <1>9 DEF Push, Roles
<1>10. ASSUME NEW t \in Threads, Sleep(t) PROVE TypeOK'
  BY <1>10 DEF Sleep
<1>11. ASSUME NEW t \in Threads, TimedOut(t) PROVE TypeOK'
  BY <1>11 DEF TimedOut
<1>12. ASSUME NEW t \in Threads, Finish(t) PROVE TypeOK'
  BY <1>12 DEF Finish
<1>13. ASSUME NEW t \in Threads, Release(t) PROVE TypeOK'
  <2>1. inUse' = [inUse EXCEPT ![mine[t]] = FALSE] \/ inUse' = inUse
    BY <1>13 DEF Release
  <2>2. inUse' \in [Ctxs -> BOOLEAN]
    BY <2>1
  <2>3. mine' \in [Threads -> Ctxs \cup {NoCtx}] /\ todo' \in [Threads -> SUBSET Ctxs]
    BY <1>13 DEF Release
  <2>4. released' \in Nat
    BY <1>13 DEF Release
  <2> QED BY <1>13, <2>2, <2>3, <2>4 DEF Release
<1>14. ASSUME NEW t \in Threads, PruneOne(t) PROVE TypeOK'
  BY <1>14 DEF PruneOne
<1>15. ASSUME NEW t \in Threads, CloseOne(t) PROVE TypeOK'
  BY <1>15 DEF CloseOne
<1>16. ASSUME NEW t \in Threads, Replace(t) PROVE TypeOK'
  BY <1>16 DEF Replace
<1>17. CASE UNCHANGED vars
  BY <1>17 DEF vars, stats
<1> QED BY <1>1, <1>2, <1>3, <1>4, <1>5, <1>6, <1>7, <1>8, <1>9, <1>10, <1>11, <1>12, <1>13, <1>14, <1>15, <1>16, <1>17
        DEF Next, Step, Locking, Acquire, Sweep

LEMMA ExcludesStep ==
  ASSUME ~Preempt, TypeOK, Excludes, [Next]_vars
  PROVE  Excludes'
<1> USE DEF TypeOK, Excludes, Inside, Goto, stats, Op
<1>1. ASSUME NEW t \in Threads, Begin(t) PROVE Excludes'
  BY <1>1 DEF Begin
<1>2. ASSUME NEW t \in Threads, GetFlag(t) PROVE Excludes'
  BY <1>2 DEF GetFlag
<1>3. ASSUME NEW t \in Threads, SetFlag(t) PROVE Excludes'
  BY <1>3 DEF SetFlag
<1>4. ASSUME NEW t \in Threads, Snapshot(t) PROVE Excludes'
  <2>1. Op(t) \in {"prune", "close", "acquire", "release"}
    BY PoolAssumption DEF Threads
  <2> HIDE DEF Op
  <2> QED BY <1>4, <2>1 DEF Snapshot
<1>5. ASSUME NEW t \in Threads, Unlock(t) PROVE Excludes'
  BY <1>5 DEF Unlock
<1>6. ASSUME NEW t \in Threads, FindAvailable(t) PROVE Excludes'
  BY <1>6 DEF FindAvailable
<1>7. ASSUME NEW t \in Threads, Take(t) PROVE Excludes'
  BY <1>7 DEF Take
<1>8. ASSUME NEW t \in Threads, CreateConnection(t) PROVE Excludes'
  BY <1>8 DEF CreateConnection
<1>9. ASSUME NEW t \in Threads, Push(t) PROVE Excludes'
  BY <1>9 DEF Push
<1>10. ASSUME NEW t \in Threads, Sleep(t) PROVE Excludes'
  BY <1>10 DEF Sleep
<1>11. ASSUME NEW t \in Threads, TimedOut(t) PROVE Excludes'
  BY <1>11 DEF TimedOut
<1>12. ASSUME NEW t \in Threads, Finish(t) PROVE Excludes'
  BY <1>12 DEF Finish
<1>13. ASSUME NEW t \in Threads, Release(t) PROVE Excludes'
  BY <1>13 DEF Release
<1>14. ASSUME NEW t \in Threads, PruneOne(t) PROVE Excludes'
  BY <1>14 DEF PruneOne
<1>15. ASSUME NEW t \in Threads, CloseOne(t) PROVE Excludes'
  BY <1>15 DEF CloseOne
<1>16. ASSUME NEW t \in Threads, Replace(t) PROVE Excludes'
  BY <1>16 DEF Replace
<1>17. CASE UNCHANGED vars
  BY <1>17 DEF vars, stats
<1> QED BY <1>1, <1>2, <1>3, <1>4, <1>5, <1>6, <1>7, <1>8, <1>9, <1>10, <1>11, <1>12, <1>13, <1>14, <1>15, <1>16, <1>17
        DEF Next, Step, Locking, Acquire, Sweep

LEMMA RolesStep ==
  ASSUME TypeOK, Roles, [Next]_vars
  PROVE  Roles'
<1> USE PoolAssumption DEF TypeOK, Roles, Goto, stats, Op, Threads
<1>1. ASSUME NEW t \in Threads, Begin(t) PROVE Roles'
  BY <1>1 DEF Begin
<1>2. ASSUME NEW t \in Threads, GetFlag(t) PROVE Roles'
  BY <1>2 DEF GetFlag
<1>3. ASSUME NEW t \in Threads, SetFlag(t) PROVE Roles'
  BY <1>3 DEF SetFlag
<1>4. ASSUME NEW t \in Threads, Snapshot(t) PROVE Roles'
  <2>1. pc'[t] = Op(t) /\ UNCHANGED <<mine, closing>>
        /\ \A u \in Threads \ {t} : pc'[u] = pc[u]
    BY <1>4 DEF Snapshot
  <2>2. CASE t \in Pruners
    BY <2>1, <2>2
  <2>3. CASE t \in Closers
    <3>1. pc[t] = "snapshot"
      BY <1>4 DEF Snapshot
    <3> QED BY <2>1, <2>3, <3>1
  <2>4. CASE t \in Users
    BY <2>1, <2>4
  <2> QED BY <2>2, <2>3, <2>4
<1>5. ASSUME NEW t \in Threads, Unlock(t) PROVE Roles'
  BY <1>5 DEF Unlock
<1>6. ASSUME NEW t \in Threads, FindAvailable(t) PROVE Roles'
  BY <1>6 DEF FindAvailable
<1>7. ASSUME NEW t \in Threads, Take(t) PROVE Roles'
  BY <1>7 DEF Take
<1>8. ASSUME NEW t \in Threads, CreateConnection(t) PROVE Roles'
  BY <1>8 DEF CreateConnection
<1>9. ASSUME NEW t \in Threads, Push(t) PROVE Roles'
  BY <1>9 DEF Push
<1>10. ASSUME NEW t \in Threads, Sleep(t) PROVE Roles'
  BY <1>10 DEF Sleep
<1>11. ASSUME NEW t \in Threads, TimedOut(t) PROVE Roles'
  BY <1>11 DEF TimedOut
<1>12. ASSUME NEW t \in Threads, Finish(t) PROVE Roles'
  BY <1>12 DEF Finish
<1>13. ASSUME NEW t \in Threads, Release(t) PROVE Roles'
  BY <1>13 DEF Release
<1>14. ASSUME NEW t \in Threads, PruneOne(t) PROVE Roles'
  BY <1>14 DEF PruneOne
<1>15. ASSUME NEW t \in Threads, CloseOne(t) PROVE Roles'
  BY <1>15 DEF CloseOne
<1>16. ASSUME NEW t \in Threads, Replace(t) PROVE Roles'
  BY <1>16 DEF Replace
<1>17. CASE UNCHANGED vars
  BY <1>17 DEF vars, stats
<1> QED BY <1>1, <1>2, <1>3, <1>4, <1>5, <1>6, <1>7, <1>8, <1>9, <1>10, <1>11, <1>12, <1>13, <1>14, <1>15, <1>16, <1>17
        DEF Next, Step, Locking, Acquire, Sweep

LEMMA LendingStep ==
  ASSUME ~Preempt, PoolInv, TypeOK', Excludes', Roles', [Next]_vars
  PROVE  Lending'
<1> USE DEF PoolInv, TypeOK, Excludes, Roles, Lending, Books, ExclusiveUse, Holders, Inside, Goto, stats
<1>p. ASSUME NEW t \in Threads, NEW n, Goto(t, n), n \notin {"push", "take"},
             pc[t] \notin {"push", "take"},
             UNCHANGED <<connections, open, made, inUse, mine>>,
             \A u \in Threads : todo'[u] \subseteq made
      PROVE  Lending'
  <2>1. \A u \in Threads : /\ mine'[u] = mine[u]
                          /\ pc'[u] \in {"push", "take"} <=> pc[u] \in {"push", "take"}
    BY <1>p
  <2>2. Holders' = Holders
    BY <1>p, ThreadTypes
  <2> QED BY <1>p, <2>1, <2>2, ThreadTypes
<1>1. ASSUME NEW t \in Threads, Begin(t) PROVE Lending'
  BY <1>1 DEF Begin
<1>2. ASSUME NEW t \in Threads, GetFlag(t) PROVE Lending'
  BY <1>2, <1>p DEF GetFlag
<1>3. ASSUME NEW t \in Threads, SetFlag(t) PROVE Lending'
  BY <1>3 DEF SetFlag
<1>4. ASSUME NEW t \in Threads, Snapshot(t) PROVE Lending'
  <2>1. Op(t) \notin {"push", "take"}
    BY PoolAssumption DEF Op, Threads
  <2>2. \A u \in Threads : todo'[u] \subseteq made
    BY <1>4 DEF Snapshot
  <2> QED BY <1>4, <2>1, <2>2, <1>p DEF Snapshot
<1>5. ASSUME NEW t \in Threads, Unlock(t) PROVE Lending'
  BY <1>5 DEF Unlock
<1>6. ASSUME NEW t \in Threads, FindAvailable(t) PROVE Lending'
  <2>1. pc[t] = "acquire" /\ mine[t] = NoCtx /\ t \in Users
        /\ UNCHANGED <<connections, open, made, inUse>>
    BY <1>6 DEF FindAvailable
  <2>2. CASE Goto(t, "create") /\ UNCHANGED <<mine, todo>>
    BY <2>1, <2>2, <1>p
  <2>3. ASSUME NEW c \in todo[t], ~inUse[c], Goto(t, "take"),
               mine' = [mine EXCEPT ![t] = c], todo' = [todo EXCEPT ![t] = {}]
        PROVE  Lending'
    <3>1. c \in made /\ mine'[t] = c /\ pc'[t] = "take"
          /\ \A u \in Threads \ {t} : mine'[u] = mine[u] /\ pc'[u] = pc[u]
      BY <2>3
    <3>2. Holders' = Holders /\ t \notin Holders
      BY <2>1, <3>1, ThreadTypes
    <3>3. \A u \in Threads : todo'[u] \subseteq made
      BY <2>3
    <3> QED BY <2>1, <2>3, <3>1, <3>2, <3>3, ThreadTypes
  <2>4. ASSUME NEW c \in todo[t], todo' = [todo EXCEPT ![t] = @ \ {c}], UNCHANGED <<pc, mine>>
        PROVE  Lending'
    <3>1. \A u \in Threads : todo'[u] \subseteq made
      BY <2>4
    <3> QED BY <2>1, <2>4, <3>1
  <2> QED BY <1>6, <2>2, <2>3, <2>4 DEF FindAvailable
<1>7. ASSUME NEW t \in Threads, Take(t) PROVE Lending'
  BY <1>7 DEF Take
<1>8. ASSUME NEW t \in Threads, CreateConnection(t) PROVE Lending'
  <2>1. pc[t] = "create" /\ mine[t] = NoCtx /\ t \in Users
        /\ UNCHANGED <<connections, inUse, todo>>
    BY <1>8 DEF CreateConnection
  <2>2. CASE Goto(t, "wait") /\ UNCHANGED <<open, made, mine>>
    BY <2>1, <2>2, <1>p
  <2>3. ASSUME NEW c \in Ctxs \ made, open' = open \cup {c}, made' = made \cup {c},
               mine' = [mine EXCEPT ![t] = c], Goto(t, "push")
        PROVE  Lending'
    <3>1. mine'[t] = c /\ pc'[t] = "push" /\ ~inUse[c]
          /\ \A u \in Threads \ {t} : mine'[u] = mine[u] /\ pc'[u] = pc[u]
      BY <2>3
    <3>2. Holders' = Holders /\ t \notin Holders
      BY <2>1, <3>1, ThreadTypes
    <3> QED BY <2>1, <2>3, <3>1, <3>2, ThreadTypes
  <2> QED BY <1>8, <2>2, <2>3 DEF CreateConnection
<1>9. ASSUME NEW t \in Threads, Push(t) PROVE Lending'
  BY <1>9 DEF Push
<1>10. ASSUME NEW t \in Threads, Sleep(t) PROVE Lending'
  BY <1>10 DEF Sleep
<1>11. ASSUME NEW t \in Threads, TimedOut(t) PROVE Lending'
  BY <1>11 DEF TimedOut
<1>12. ASSUME NEW t \in Threads, Finish(t) PROVE Lending'
  BY <1>12 DEF Finish
<1>13. ASSUME NEW t \in Threads, Release(t) PROVE Lending'
  <2>1. pc[t] = "release" /\ mine[t] \in made /\ t \in Users /\ t \in Holders
        /\ UNCHANGED <<connections, open, made>>
    BY <1>13 DEF Release
  <2>2. mine'[t] = NoCtx /\ pc'[t] = "unlock"
        /\ \A u \in Threads \ {t} : mine'[u] = mine[u] /\ pc'[u] = pc[u]
    BY <1>13 DEF Release
  <2>3. Holders' = Holders \ {t}
    BY <2>2, ThreadTypes
  <2>4. \A c \in Ctxs \ {mine[t]} : inUse'[c] = inUse[c]
    BY <1>13 DEF Release
  <2>5. \A u \in Holders' : inUse'[mine'[u]]
    BY <2>1, <2>2, <2>3, <2>4, ThreadTypes
  <2>6. \A u \in Threads : pc'[u] \notin {"push", "take"}
    BY <2>1, <2>2
  <2>7. \A u \in Threads : todo'[u] \subseteq made
    BY <1>13 DEF Release
  <2> QED BY <2>1, <2>2, <2>3, <2>4, <2>5, <2>6, <2>7, ThreadTypes
<1>14. ASSUME NEW t \in Threads, PruneOne(t) PROVE Lending'
  BY <1>14 DEF PruneOne
<1>15. ASSUME NEW t \in Threads, CloseOne(t) PROVE Lending'
  BY <1>15 DEF CloseOne
<1>16. ASSUME NEW t \in Threads, Replace(t) PROVE Lending'
  BY <1>16 DEF Replace
<1>17. CASE UNCHANGED vars
  BY <1>17 DEF vars, stats
<1> QED BY <1>1, <1>2, <1>3, <1>4, <1>5, <1>6, <1>7, <1>8, <1>9, <1>10, <1>11, <1>12, <1>13, <1>14, <1>15, <1>16, <1>17
        DEF Next, Step, Locking, Acquire, Sweep

LEMMA BooksStep ==
  ASSUME ~Preempt, PoolInv, TypeOK', Excludes', Roles', [Next]_vars
  PROVE  Books'
<1> USE DEF PoolInv, TypeOK, Excludes, Roles, Lending, Books, Holders, Inside, Goto, stats
<1>1. ASSUME NEW t \in Threads, Begin(t) PROVE Books'
  BY <1>1 DEF Begin
<1>2. ASSUME NEW t \in Threads, GetFlag(t) PROVE Books'
  BY <1>2 DEF GetFlag
<1>3. ASSUME NEW t \in Threads, SetFlag(t) PROVE Books'
  BY <1>3 DEF SetFlag
<1>4. ASSUME NEW t \in Threads, Snapshot(t) PROVE Books'
  <2>1. /\ \A u \in Threads \ {t} : pc[u] \notin Inside /\ pc'[u] = pc[u]
        /\ pc[t] = "snapshot" /\ pc'[t] = Op(t) /\ todo'[t] = connections /\ kept'[t] = {}
        /\ UNCHANGED <<connections, open, mine>>
    BY <1>4 DEF Snapshot
  <2>2. connections = open
    BY <2>1
  <2>3. Op(t) \in {"prune", "close", "acquire", "release"}
    BY PoolAssumption DEF Op, Threads
  <2> QED BY <2>1, <2>2, <2>3
<1>5. ASSUME NEW t \in Threads, Unlock(t) PROVE Books'
  BY <1>5 DEF Unlock
<1>6. ASSUME NEW t \in Threads, FindAvailable(t) PROVE Books'
  BY <1>6 DEF FindAvailable
<1>7. ASSUME NEW t \in Threads, Take(t) PROVE Books'
  BY <1>7 DEF Take
<1>8. ASSUME NEW t \in Threads, CreateConnection(t) PROVE Books'
  BY <1>8 DEF CreateConnection
<1>9. ASSUME NEW t \in Threads, Push(t) PROVE Books'
  BY <1>9 DEF Push
<1>10. ASSUME NEW t \in Threads, Sleep(t) PROVE Books'
  BY <1>10 DEF Sleep
<1>11. ASSUME NEW t \in Threads, TimedOut(t) PROVE Books'
  BY <1>11 DEF TimedOut
<1>12. ASSUME NEW t \in Threads, Finish(t) PROVE Books'
  BY <1>12 DEF Finish
<1>13. ASSUME NEW t \in Threads, Release(t) PROVE Books'
  BY <1>13 DEF Release
<1>14. ASSUME NEW t \in Threads, PruneOne(t) PROVE Books'
  <2>1. PICK c \in todo[t] :
          /\ todo' = [todo EXCEPT ![t] = @ \ {c}]
          /\ \/ kept' = [kept EXCEPT ![t] = @ \cup {c}] /\ UNCHANGED open
             \/ /\ Cardinality(kept[t]) >= MinConnections
                /\ open' = open \ {c} /\ UNCHANGED kept
    BY <1>14 DEF PruneOne
  <2>2. /\ pc[t] = "prune" /\ UNCHANGED <<pc, connections, mine>>
        /\ \A u \in Threads \ {t} : pc[u] \notin Inside
    BY <1>14 DEF PruneOne
  <2>3. IsFiniteSet(kept[t]) /\ IsFiniteSet(kept[t] \cup {c})
    BY FS_Subset, FS_AddElement, PoolAssumption
  <2>4. Cardinality(kept[t] \cup {c}) >= Cardinality(kept[t])
    BY <2>3, FS_Subset, FS_CardinalityType
  <2>5. Cardinality(kept[t]) \in Nat /\ Cardinality(kept[t] \cup {c}) \in Nat
    BY <2>3, FS_CardinalityType
  <2>6. CASE kept' = [kept EXCEPT ![t] = @ \cup {c}] /\ UNCHANGED open
    <3>1. kept'[t] = kept[t] \cup {c} /\ todo'[t] = todo[t] \ {c}
      BY <2>1, <2>6
    <3>2. open = connections \/ Cardinality(kept'[t]) >= MinConnections
      BY <2>2, <2>4, <2>5, <3>1, PoolAssumption
    <3> QED BY <2>2, <2>6, <3>1, <3>2
  <2>7. CASE Cardinality(kept[t]) >= MinConnections /\ open' = open \ {c} /\ UNCHANGED kept
    <3>1. todo'[t] = todo[t] \ {c}
      BY <2>1
    <3> QED BY <2>2, <2>7, <3>1
  <2> QED BY <2>1, <2>6, <2>7
<1>15. ASSUME NEW t \in Threads, CloseOne(t) PROVE Books'
  BY <1>15 DEF CloseOne
<1>16. ASSUME NEW t \in Threads, Replace(t) PROVE Books'
  <2>1. /\ pc[t] \in {"prune", "close"} /\ todo[t] = {} /\ connections' = kept[t]
        /\ pc'[t] = "unlock" /\ UNCHANGED <<open, mine, todo, kept>>
        /\ \A u \in Threads \ {t} : pc[u] \notin Inside /\ pc'[u] = pc[u]
    BY <1>16 DEF Replace
  <2>2. open = kept[t]
    <3>1. CASE pc[t] = "prune"
      <4>1. open = kept[t] \cup todo[t]
        BY <3>1
      <4> QED BY <2>1, <4>1
    <3>2. CASE pc[t] = "close"
      <4>1. open = todo[t] /\ kept[t] = {}
        BY <3>2
      <4> QED BY <2>1, <4>1
    <3> QED BY <2>1, <3>1, <3>2
  <2> QED BY <2>1, <2>2
<1>17. CASE UNCHANGED vars
  BY <1>17 DEF vars, stats
<1> QED BY <1>1, <1>2, <1>3, <1>4, <1>5, <1>6, <1>7, <1>8, <1>9, <1>10, <1>11, <1>12, <1>13, <1>14, <1>15, <1>16, <1>17
        DEF Next, Step, Locking, Acquire, Sweep

LEMMA HeldStep ==
  ASSUME ~Preempt, PoolInv, TypeOK', Excludes', Roles', [Next]_vars
  PROVE  HeldIsPooled'
<1> USE DEF PoolInv, TypeOK, Excludes, Roles, Lending, Books, HeldIsPooled, Holders, Inside, Goto, stats
<1>p. ASSUME NEW t \in Threads, NEW n, Goto(t, n), n \notin {"push", "take"},
             pc[t] \notin {"push", "take"},
             UNCHANGED <<connections, open, inUse, mine, closing>>
      PROVE  HeldIsPooled'
  <2>1. Holders' = Holders
    BY <1>p, ThreadTypes
  <2> QED BY <1>p, <2>1
<1>1. ASSUME NEW t \in Threads, Begin(t) PROVE HeldIsPooled'
  BY <1>1 DEF Begin
<1>2. ASSUME NEW t \in Threads, GetFlag(t) PROVE HeldIsPooled'
  BY <1>2, <1>p DEF GetFlag
<1>3. ASSUME NEW t \in Threads, SetFlag(t) PROVE HeldIsPooled'
  BY <1>3 DEF SetFlag
<1>4. ASSUME NEW t \in Threads, Snapshot(t) PROVE HeldIsPooled'
  BY <1>4 DEF Snapshot
<1>5. ASSUME NEW t \in Threads, Unlock(t) PROVE HeldIsPooled'
  BY <1>5 DEF Unlock
<1>6. ASSUME NEW t \in Threads, FindAvailable(t) PROVE HeldIsPooled'
  <2>1. pc[t] = "acquire" /\ mine[t] = NoCtx
        /\ UNCHANGED <<connections, open, inUse, closing>>
    BY <1>6 DEF FindAvailable
  <2>2. CASE Goto(t, "create") /\ UNCHANGED mine
    BY <2>1, <2>2, <1>p
  <2>3. ASSUME NEW c, Goto(t, "take"), mine' = [mine EXCEPT ![t] = c]
        PROVE  HeldIsPooled'
    <3>1. Holders' = Holders /\ t \notin Holders
      BY <2>1, <2>3, ThreadTypes
    <3> QED BY <2>1, <2>3, <3>1, ThreadTypes
  <2>4. CASE UNCHANGED <<pc, mine>>
    BY <2>1, <2>4
  <2> QED BY <1>6, <2>2, <2>3, <2>4 DEF FindAvailable
<1>7. ASSUME NEW t \in Threads, Take(t) PROVE HeldIsPooled'
  BY <1>7 DEF Take
<1>8. ASSUME NEW t \in Threads, CreateConnection(t) PROVE HeldIsPooled'
  <2>1. pc[t] = "create" /\ mine[t] = NoCtx /\ UNCHANGED <<connections, inUse, closing>>
    BY <1>8 DEF CreateConnection
  <2>2. CASE Goto(t, "wait") /\ UNCHANGED <<open, mine>>
    BY <2>1, <2>2, <1>p
  <2>3. ASSUME NEW c, Goto(t, "push"), mine' = [mine EXCEPT ![t] = c], open' = open \cup {c}
        PROVE  HeldIsPooled'
    <3>1. Holders' = Holders /\ t \notin Holders
      BY <2>1, <2>3, ThreadTypes
    <3> QED BY <2>1, <2>3, <3>1, ThreadTypes
  <2> QED BY <1>8, <2>2, <2>3 DEF CreateConnection
<1>9. ASSUME NEW t \in Threads, Push(t) PROVE HeldIsPooled'
  BY <1>9 DEF Push
<1>10. ASSUME NEW t \in Threads, Sleep(t) PROVE HeldIsPooled'
  BY <1>10 DEF Sleep
<1>11. ASSUME NEW t \in Threads, TimedOut(t) PROVE HeldIsPooled'
  BY <1>11 DEF TimedOut
<1>12. ASSUME NEW t \in Threads, Finish(t) PROVE HeldIsPooled'
  BY <1>12 DEF Finish
<1>13. ASSUME NEW t \in Threads, Release(t) PROVE HeldIsPooled'
  <2>1. t \in Holders /\ mine'[t] = NoCtx /\ UNCHANGED <<connections, open, closing>>
        /\ \A u \in Threads \ {t} : mine'[u] = mine[u] /\ pc'[u] = pc[u]
    BY <1>13 DEF Release
  <2>2. Holders' = Holders \ {t}
    BY <2>1, ThreadTypes
  <2>3. \A c \in Ctxs \ {mine[t]} : inUse'[c] = inUse[c]
    BY <1>13 DEF Release
  <2> QED BY <2>1, <2>2, <2>3, ThreadTypes DEF ExclusiveUse
<1>14. ASSUME NEW t \in Threads, PruneOne(t) PROVE HeldIsPooled'
  BY <1>14 DEF PruneOne
<1>15. ASSUME NEW t \in Threads, CloseOne(t) PROVE HeldIsPooled'
  BY <1>15 DEF CloseOne
<1>16. ASSUME NEW t \in Threads, Replace(t) PROVE HeldIsPooled'
  BY <1>16 DEF Replace
<1>17. CASE UNCHANGED vars
  BY <1>17 DEF vars, stats
<1> QED BY <1>1, <1>2, <1>3, <1>4, <1>5, <1>6, <1>7, <1>8, <1>9, <1>10, <1>11, <1>12, <1>13, <1>14, <1>15, <1>16, <1>17
        DEF Next, Step, Locking, Acquire, Sweep

\* The only steps that change the array of connections.
LEMMA ArrayChange ==
  ASSUME [Next]_vars
  PROVE  UNCHANGED connections \/ \E t \in Threads : Push(t) \/ Replace(t)
BY DEF Next, Step, Locking, Acquire, Sweep, Begin, GetFlag, SetFlag, Snapshot, Unlock,
       FindAvailable, Take, CreateConnection, Sleep, TimedOut, Finish, Release,
       PruneOne, CloseOne, vars

LEMMA PushCounts ==
  ASSUME PoolInv, NEW t \in Threads, Push(t)
  PROVE  /\ Cardinality(connections) \in Nat /\ Cardinality(connections') \in Nat
         /\ Cardinality(connections') >= Cardinality(connections)
         /\ Cardinality(connections') <= MaxConnections
<1>1. connections' = connections \cup {mine[t]} /\ Cardinality(connections) < MaxConnections
  BY DEF Push, PoolInv, Books
<1>2. IsFiniteSet(connections)
  BY PoolAssumption, FS_Subset DEF PoolInv, TypeOK
<1>3. IsFiniteSet(connections')
  BY <1>1, <1>2, FS_AddElement
<1>4. /\ Cardinality(connections) \in Nat /\ Cardinality(connections') \in Nat
      /\ Cardinality(connections') \in {Cardinality(connections), Cardinality(connections) + 1}
  BY <1>1, <1>2, <1>3, FS_AddElement, FS_CardinalityType
<1> QED BY <1>1, <1>4, PoolAssumption

\* What replaces the array is no larger, and what prune leaves is enough.
LEMMA ReplaceCounts ==
  ASSUME PoolInv, NEW t \in Threads, Replace(t)
  PROVE  /\ Cardinality(connections) \in Nat /\ Cardinality(connections') \in Nat
         /\ Cardinality(connections') <= Cardinality(connections)
         /\ \/ closing
            \/ Cardinality(connections') >= MinConnections
            \/ connections' = connections
<1>1. connections' = kept[t] /\ todo[t] = {} /\ pc[t] \in {"prune", "close"}
  BY DEF Replace
<1>2. kept[t] \subseteq connections
  BY <1>1 DEF PoolInv, Books
<1>3. IsFiniteSet(connections)
  BY PoolAssumption, FS_Subset DEF PoolInv, TypeOK
<1>4. \/ closing
      \/ Cardinality(kept[t]) >= MinConnections
      \/ kept[t] = connections
  <2>1. CASE pc[t] = "prune"
    BY <1>1, <2>1, ZenonT(60) DEF PoolInv, Books
  <2>2. CASE pc[t] = "close"
    BY <2>2 DEF PoolInv, Roles
  <2> QED BY <1>1, <2>1, <2>2
<1> QED BY <1>1, <1>2, <1>3, <1>4, FS_Subset, FS_CardinalityType

LEMMA SizeStep ==
  ASSUME PoolInv, [Next]_vars
  PROVE  SizeBounded'
<1>1. CASE UNCHANGED connections
  BY <1>1 DEF PoolInv, SizeBounded
<1>2. ASSUME NEW t \in Threads, Push(t) PROVE SizeBounded'
  BY <1>2, PushCounts DEF SizeBounded
<1>3. ASSUME NEW t \in Threads, Replace(t) PROVE SizeBounded'
  BY <1>3, ReplaceCounts, PoolAssumption DEF SizeBounded, PoolInv
<1> QED BY <1>1, <1>2, <1>3, ArrayChange

\* What MinKept asks of a step.
MinChange == \/ closing
             \/ Cardinality(connections') >= MinConnections
             \/ Cardinality(connections') >= Cardinality(connections)

LEMMA MinStep ==
  ASSUME PoolInv, [Next]_vars
  PROVE  [MinChange]_connections
<1>1. ASSUME NEW t \in Threads, Push(t) PROVE MinChange
  BY <1>1, PushCounts DEF MinChange
<1>2. ASSUME NEW t \in Threads, Replace(t) PROVE [MinChange]_connections
  BY <1>2, ReplaceCounts DEF MinChange
<1> QED BY <1>1, <1>2, ArrayChange

\* The steps that lend or take back are the ones that count.
LEMMA HoldersChange ==
  ASSUME PoolInv, [Next]_vars
  PROVE  \/ \E t \in Threads : Take(t) \/ Release(t)
         \/ Holders' = Holders /\ UNCHANGED stats /\ (closing => closing')
<1> DEFINE Kept == Holders' = Holders /\ UNCHANGED stats /\ (closing => closing')
<1> USE DEF PoolInv, TypeOK, Roles, Holders, Goto, stats
<1>p. ASSUME NEW t \in Threads, NEW n, Goto(t, n), n \notin {"push", "take"},
             pc[t] \notin {"push", "take"},
             UNCHANGED <<mine, stats>>, closing => closing'
      PROVE  Kept
  BY <1>p, ThreadTypes
<1>1. ASSUME NEW t \in Threads, Begin(t) PROVE Kept
  BY <1>1, <1>p DEF Begin
<1>2. ASSUME NEW t \in Threads, GetFlag(t) PROVE Kept
  BY <1>2, <1>p DEF GetFlag
<1>3. ASSUME NEW t \in Threads, SetFlag(t) PROVE Kept
  BY <1>3, <1>p DEF SetFlag
<1>4. ASSUME NEW t \in Threads, Snapshot(t) PROVE Kept
  <2>1. Op(t) \notin {"push", "take"}
    BY PoolAssumption DEF Op, Threads
  <2> QED BY <1>4, <2>1, <1>p DEF Snapshot
<1>5. ASSUME NEW t \in Threads, Unlock(t) PROVE Kept
  BY <1>5, <1>p DEF Unlock
<1>6. ASSUME NEW t \in Threads, FindAvailable(t) PROVE Kept
  <2>1. pc[t] = "acquire" /\ mine[t] = NoCtx /\ UNCHANGED <<stats, closing>>
    BY <1>6 DEF FindAvailable
  <2>2. CASE Goto(t, "create") /\ UNCHANGED mine
    BY <2>1, <2>2, <1>p
  <2>3. ASSUME NEW c, Goto(t, "take"), mine' = [mine EXCEPT ![t] = c] PROVE Kept
    BY <2>1, <2>3, ThreadTypes
  <2>4. CASE UNCHANGED <<pc, mine>>
    BY <2>1, <2>4
  <2> QED BY <1>6, <2>2, <2>3, <2>4 DEF FindAvailable
<1>8. ASSUME NEW t \in Threads, CreateConnection(t) PROVE Kept
  <2>1. pc[t] = "create" /\ mine[t] = NoCtx /\ UNCHANGED <<stats, closing>>
    BY <1>8 DEF CreateConnection
  <2>2. CASE Goto(t, "wait") /\ UNCHANGED mine
    BY <2>1, <2>2, <1>p
  <2>3. ASSUME NEW c, Goto(t, "push"), mine' = [mine EXCEPT ![t] = c] PROVE Kept
    BY <2>1, <2>3, ThreadTypes
  <2> QED BY <1>8, <2>2, <2>3 DEF CreateConnection
<1>9. ASSUME NEW t \in Threads, Push(t) PROVE Kept
  BY <1>9, ThreadTypes DEF Push
<1>10. ASSUME NEW t \in Threads, Sleep(t) PROVE Kept
  BY <1>10, <1>p DEF Sleep
<1>11. ASSUME NEW t \in Threads, TimedOut(t) PROVE Kept
  BY <1>11, <1>p DEF TimedOut
<1>12. ASSUME NEW t \in Threads, Finish(t) PROVE Kept
  BY <1>12, <1>p DEF Finish
<1>14. ASSUME NEW t \in Threads, PruneOne(t) PROVE Kept
  BY <1>14 DEF PruneOne
<1>15. ASSUME NEW t \in Threads, CloseOne(t) PROVE Kept
  BY <1>15 DEF CloseOne
<1>16. ASSUME NEW t \in Threads, Replace(t) PROVE Kept
  BY <1>16, <1>p DEF Replace
<1>17. CASE UNCHANGED vars
  BY <1>17 DEF vars
<1> HIDE DEF Kept, PoolInv, TypeOK, Roles, Holders, Goto, stats
<1>18. ASSUME NEW t \in Threads, Begin(t) \/ Step(t)
       PROVE  Take(t) \/ Release(t) \/ Kept
  BY <1>18, <1>1, <1>2, <1>3, <1>4, <1>5, <1>6, <1>8, <1>9, <1>10, <1>11, <1>12, <1>14, <1>15, <1>16
     DEF Step, Locking, Acquire, Sweep
<1> QED BY <1>17, <1>18 DEF Next, Kept

LEMMA StatsStep ==
  ASSUME PoolInv, TypeOK', [Next]_vars
  PROVE  StatsBalanced'
<1>f. IsFiniteSet(Holders) /\ Cardinality(Holders) \in Nat
  BY PoolAssumption, ThreadTypes, FS_Subset, FS_CardinalityType DEF Holders
<1>1. CASE Holders' = Holders /\ UNCHANGED stats /\ (closing => closing')
  BY <1>1 DEF PoolInv, StatsBalanced, stats
<1>2. ASSUME NEW t \in Threads, Take(t) PROVE StatsBalanced'
  <2>1. /\ pc[t] = "take" /\ acquired' = acquired + 1
        /\ UNCHANGED <<released, mine, closing>> /\ pc' = [pc EXCEPT ![t] = "unlock"]
    BY <1>2 DEF Take, Goto
  <2>2. t \notin Holders /\ Holders' = Holders \cup {t}
    BY <2>1, ThreadTypes DEF PoolInv, TypeOK, Roles, Holders
  <2>3. Cardinality(Holders') = Cardinality(Holders) + 1
    BY <1>f, <2>2, FS_AddElement
  <2> QED BY <1>f, <2>1, <2>3 DEF StatsBalanced, PoolInv, TypeOK
<1>3. ASSUME NEW t \in Threads, Release(t), ~closing PROVE StatsBalanced'
  <2>1. /\ pc[t] = "release" /\ UNCHANGED <<acquired, closing>>
        /\ pc' = [pc EXCEPT ![t] = "unlock"] /\ mine' = [mine EXCEPT ![t] = NoCtx]
    BY <1>3 DEF Release, Goto
  <2>2. t \in Holders /\ Holders' = Holders \ {t}
    BY <2>1, ThreadTypes DEF PoolInv, TypeOK, Roles, Holders
  <2>3. mine[t] \in todo[t]
    BY <1>3, <2>1, <2>2 DEF PoolInv, Books, HeldIsPooled
  <2>4. released' = released + 1
    BY <1>3, <2>3 DEF Release
  <2>5. Cardinality(Holders') = Cardinality(Holders) - 1
    BY <1>f, <2>2, FS_RemoveElement
  <2> QED BY <1>f, <2>1, <2>4, <2>5 DEF StatsBalanced, PoolInv, TypeOK
<1>4. ASSUME NEW t \in Threads, Release(t), closing PROVE StatsBalanced'
  BY <1>4 DEF Release, StatsBalanced
<1> QED BY <1>1, <1>2, <1>3, <1>4, HoldersChange

-----------------------------------------------------------------------------
LEMMA InitInv == Init => PoolInv
<1> SUFFICES ASSUME Init PROVE PoolInv
  OBVIOUS
<1>1. TypeOK /\ Excludes /\ Roles
  BY PoolAssumption DEF Init, TypeOK, Excludes, Roles, Inside
<1>2. Holders = {}
  BY ThreadTypes DEF Init, Holders
<1>3. Lending /\ Books /\ HeldIsPooled
  BY <1>2 DEF Init, Lending, Books, HeldIsPooled, ExclusiveUse
<1>4. SizeBounded
  BY DEF Init, SizeBounded
<1>5. StatsBalanced
  BY <1>2, FS_EmptySet DEF Init, StatsBalanced
<1> QED BY <1>1, <1>3, <1>4, <1>5 DEF PoolInv

LEMMA InvStep ==
  ASSUME ~Preempt, PoolInv, [Next]_vars
  PROVE  PoolInv'
<1>1. TypeOK' /\ Excludes' /\ Roles'
  BY TypeStep, ExcludesStep, RolesStep DEF PoolInv
<1>2. Lending' /\ Books' /\ HeldIsPooled'
  BY <1>1, LendingStep, BooksStep, HeldStep
<1>3. SizeBounded' /\ StatsBalanced'
  BY <1>1, SizeStep, StatsStep
<1> QED BY <1>1, <1>2, <1>3 DEF PoolInv

LEMMA Safe == ASSUME ~Preempt PROVE Spec => []PoolInv
<1>1. PoolInv /\ [Next]_vars => PoolInv'
  BY InvStep
<1> QED BY <1>1, InitInv, PTL DEF Spec

\* Every variable keeps its type, whether or not the spin lock excludes: the
\* number of connections and the statistics never leave Nat.
THEOREM TypeCorrect == Spec => []TypeOK
<1>1. Init => TypeOK /\ Roles
  BY InitInv DEF PoolInv
<1>2. TypeOK /\ Roles /\ [Next]_vars => TypeOK' /\ Roles'
  BY TypeStep, RolesStep
<1> QED BY <1>1, <1>2, PTL DEF Spec

\* With a lock that excludes, acquire never lends a connection that another
\* thread has, however many threads acquire, prune and close.
THEOREM LendingIsExclusive == ASSUME ~Preempt PROVE Spec => []ExclusiveUse
<1>1. PoolInv => ExclusiveUse
  BY DEF PoolInv, Lending
<1> QED BY <1>1, Safe, PTL

\* With a lock that excludes, prune never takes a lent connection out of the
\* array, frees it or clears its mark: only close does.
THEOREM LentStaysPooled == ASSUME ~Preempt PROVE Spec => []HeldIsPooled
<1>1. PoolInv => HeldIsPooled
  BY DEF PoolInv
<1> QED BY <1>1, Safe, PTL

\* With a lock that excludes, a free lock means that the array holds exactly
\* the connections that are open: none leaks and none is kept after its free.
THEOREM NoneLeaks == ASSUME ~Preempt PROVE Spec => []NothingLost
<1>1. PoolInv => NothingLost
  BY DEF PoolInv, Excludes, Books, Inside, NothingLost
<1> QED BY <1>1, Safe, PTL

\* With a lock that excludes, the pool never exceeds maxConnections.
THEOREM StaysBounded == ASSUME ~Preempt PROVE Spec => []SizeBounded
<1>1. PoolInv => SizeBounded
  BY DEF PoolInv
<1> QED BY <1>1, Safe, PTL

\* With a lock that excludes, acquireCount - releaseCount is the number of
\* connections lent until the pool is closed.
THEOREM StatsTellLent == ASSUME ~Preempt PROVE Spec => []StatsBalanced
<1>1. PoolInv => StatsBalanced
  BY DEF PoolInv
<1> QED BY <1>1, Safe, PTL

\* With a lock that excludes, only close takes the pool below minConnections.
THEOREM PruneLeavesEnough == ASSUME ~Preempt PROVE Spec => MinKept
<1>1. PoolInv /\ [Next]_vars => [MinChange]_connections
  BY MinStep
<1>2. MinKept <=> [][MinChange]_connections
  BY DEF MinKept, MinChange
<1> QED BY <1>1, <1>2, Safe, PTL DEF Spec

-----------------------------------------------------------------------------
\* Users alone, whether or not the spin lock excludes.
UsersOnly == Pruners = {} /\ Closers = {}

\* Connections stay in the array, a release finds its own there, and whatever
\* is marked in use is in some thread's hand.
RestInv ==
  /\ TypeOK /\ Roles
  /\ \A t \in Threads :
       /\ todo[t] \subseteq connections
       /\ mine[t] # NoCtx /\ pc[t] # "push" => mine[t] \in connections
       /\ pc[t] = "release" => mine[t] \in todo[t]
  /\ \A c \in Ctxs : inUse[c] => \E t \in Threads : mine[t] = c

LEMMA RestStep ==
  ASSUME UsersOnly, RestInv, TypeOK', Roles', [Next]_vars
  PROVE  RestInv'
<1> USE PoolAssumption DEF RestInv, TypeOK, Roles, Goto, stats
<1>1. ASSUME NEW t \in Threads, Begin(t) PROVE RestInv'
  BY <1>1 DEF Begin
<1>2. ASSUME NEW t \in Threads, GetFlag(t) PROVE RestInv'
  BY <1>2 DEF GetFlag
<1>3. ASSUME NEW t \in Threads, SetFlag(t) PROVE RestInv'
  BY <1>3 DEF SetFlag
<1>4. ASSUME NEW t \in Threads, Snapshot(t) PROVE RestInv'
  <2>1. /\ t \in Users /\ Op(t) \in {"acquire", "release"}
        /\ Op(t) = "release" => mine[t] # NoCtx
    BY DEF UsersOnly, Threads, Op
  <2>2. /\ pc'[t] = Op(t) /\ todo'[t] = connections /\ UNCHANGED <<mine, connections, inUse>>
        /\ \A u \in Threads \ {t} : pc'[u] = pc[u] /\ todo'[u] = todo[u]
        /\ pc[t] = "snapshot"
    BY <1>4 DEF Snapshot
  <2> QED BY <2>1, <2>2
<1>5. ASSUME NEW t \in Threads, Unlock(t) PROVE RestInv'
  BY <1>5 DEF Unlock
<1>6. ASSUME NEW t \in Threads, FindAvailable(t) PROVE RestInv'
  <2>1. pc[t] = "acquire" /\ mine[t] = NoCtx /\ UNCHANGED <<connections, inUse>>
    BY <1>6 DEF FindAvailable
  <2>2. CASE UNCHANGED <<mine, todo>>
    BY <1>6, <2>1, <2>2 DEF FindAvailable
  <2>3. ASSUME NEW c \in todo[t], mine' = [mine EXCEPT ![t] = c], Goto(t, "take"),
               todo' = [todo EXCEPT ![t] = {}]
        PROVE  RestInv'
    BY <2>1, <2>3
  <2>4. ASSUME NEW c \in todo[t], todo' = [todo EXCEPT ![t] = @ \ {c}], UNCHANGED <<pc, mine>>
        PROVE  RestInv'
    BY <2>1, <2>4
  <2> QED BY <1>6, <2>2, <2>3, <2>4 DEF FindAvailable
<1>7. ASSUME NEW t \in Threads, Take(t) PROVE RestInv'
  <2>1. /\ UNCHANGED <<connections, mine, todo>> /\ pc[t] = "take" /\ pc' = [pc EXCEPT ![t] = "unlock"]
        /\ \A c \in Ctxs : inUse'[c] => inUse[c] \/ c = mine[t]
    BY <1>7 DEF Take
  <2> QED BY <2>1
<1>8. ASSUME NEW t \in Threads, CreateConnection(t) PROVE RestInv'
  <2>1. /\ UNCHANGED <<connections, inUse, todo>> /\ mine[t] = NoCtx
        /\ \A u \in Threads \ {t} : mine'[u] = mine[u] /\ pc'[u] = pc[u]
        /\ mine'[t] = mine[t] \/ pc'[t] = "push"
        /\ pc'[t] # "release"
    BY <1>8 DEF CreateConnection
  <2> QED BY <2>1
<1>9. ASSUME NEW t \in Threads, Push(t) PROVE RestInv'
  BY <1>9 DEF Push
<1>10. ASSUME NEW t \in Threads, Sleep(t) PROVE RestInv'
  BY <1>10 DEF Sleep
<1>11. ASSUME NEW t \in Threads, TimedOut(t) PROVE RestInv'
  BY <1>11 DEF TimedOut
<1>12. ASSUME NEW t \in Threads, Finish(t) PROVE RestInv'
  BY <1>12 DEF Finish
<1>13. ASSUME NEW t \in Threads, Release(t) PROVE RestInv'
  <2>1. /\ inUse' = [inUse EXCEPT ![mine[t]] = FALSE] /\ UNCHANGED connections
        /\ mine' = [mine EXCEPT ![t] = NoCtx] /\ todo' = [todo EXCEPT ![t] = {}]
        /\ pc' = [pc EXCEPT ![t] = "unlock"]
    BY <1>13 DEF Release
  <2>2. \A c \in Ctxs : inUse'[c] => inUse[c] /\ c # mine[t]
    BY <2>1
  <2> QED BY <2>1, <2>2
<1>14. ASSUME NEW t \in Threads PROVE ~(PruneOne(t) \/ CloseOne(t) \/ Replace(t))
  BY DEF UsersOnly, PruneOne, CloseOne, Replace
<1>15. CASE UNCHANGED vars
  BY <1>15 DEF vars
<1> QED BY <1>1, <1>2, <1>3, <1>4, <1>5, <1>6, <1>7, <1>8, <1>9, <1>10, <1>11, <1>12, <1>13, <1>14, <1>15
        DEF Next, Step, Locking, Acquire, Sweep

\* As long as nobody prunes or closes the pool, withConnection gives back what
\* it takes, even if the spin lock lets several threads in at once.
THEOREM AllComesBack == ASSUME UsersOnly PROVE Spec => []AvailableAtRest
<1>1. Init => RestInv
  BY InitInv, PoolAssumption DEF PoolInv, RestInv, Init
<1>2. RestInv /\ [Next]_vars => RestInv'
  BY TypeStep, RolesStep, RestStep DEF RestInv
<1>3. RestInv => AvailableAtRest
  BY PoolAssumption DEF RestInv, TypeOK, Roles, AvailableAtRest
<1> QED BY <1>1, <1>2, <1>3, PTL DEF Spec
=============================================================================
