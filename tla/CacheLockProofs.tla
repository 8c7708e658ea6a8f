--------------------------- MODULE CacheLockProofs --------------------------
(***************************************************************************)
(* Proofs about CacheLock for any number of callers, retries and faults.   *)
(***************************************************************************)
EXTENDS CacheLock, FiniteSetTheorems, TLAPS

Labels == Working \cup Computing \cup
            {"idle", "exists", "get", "lockExists", "setnx", "wait", "waitExists", "waitGet"}

\* memoize never comes near the lock.
Apart ==
  \A m \in Memoizers : pc[m] \in {"idle", "exists", "get", "computeAnyway", "storeAnyway"}

Typed == TypeOK /\ Apart

LEMMA InitTyped == Init => Typed
<1> SUFFICES ASSUME Init PROVE Typed
  OBVIOUS
<1>1. pc = [c \in Clients |-> "idle"] /\ retry = [c \in Clients |-> 0]
  BY DEF Init
<1>2. pc \in [Clients -> {"idle"}] /\ retry \in [Clients -> 0 .. MaxRetries]
  BY <1>1, CacheAssumption
<1>3. out \in [Clients -> {"none", "value", "keyNotFound", "lockTaken", "ioError", "stopped"}]
  BY DEF Init
<1> QED BY <1>1, <1>2, <1>3, CacheAssumption DEF Init, Typed, TypeOK, Apart, Clients

LEMMA StepTyped ==
  ASSUME Typed, NEW c \in Clients, Begin(c) \/ Step(c) \/ Stop(c)
  PROVE  Typed'
<1> USE CacheAssumption DEF Typed, TypeOK, Apart, Clients, Goto, Return, Spend, Working, Computing, breaks
<1>1. CASE Begin(c)
  BY <1>1 DEF Begin
<1>2. CASE Lookup(c)
  BY <1>2 DEF Lookup, Exists, Get, Miss
<1>3. CASE LockExists(c)
  BY <1>3 DEF LockExists
<1>4. CASE SetNX(c)
  BY <1>4, ZenonT(60) DEF SetNX
<1>5. CASE ExpireLock(c)
  BY <1>5 DEF ExpireLock
<1>6. CASE DoubleCheck(c)
  BY <1>6 DEF DoubleCheck, Exists, Get
<1>7. CASE Unlock(c)
  <2>1. stolen' \in Nat
    BY <1>7 DEF Unlock
  <2>2. pc' = [pc EXCEPT ![c] = "idle"]
    BY <1>7 DEF Unlock
  <2>3. out' \in [Clients -> {"none", "value", "keyNotFound", "lockTaken", "ioError", "stopped"}]
    BY <1>7 DEF Unlock
  <2>4. /\ lock' = Nobody /\ lockTtl' = FALSE
        /\ UNCHANGED <<value, retry, computed, lapses, unlocked, spent, orphaned>>
    BY <1>7 DEF Unlock
  <2>5. TypeOK'
    BY <2>1, <2>2, <2>3, <2>4
  <2>6. Apart'
    BY <2>2
  <2> QED BY <2>5, <2>6
<1>8. CASE Compute(c)
  BY <1>8 DEF Compute
<1>9. CASE Store(c)
  BY <1>9 DEF Store
<1>10. CASE WaitAndRetry(c)
  BY <1>10 DEF WaitAndRetry, Wait, Exists, Get
<1>11. CASE Stop(c)
  BY <1>11 DEF Stop
<1> QED
  BY <1>1, <1>2, <1>3, <1>4, <1>5, <1>6, <1>7, <1>8, <1>9, <1>10, <1>11
     DEF Step, ComputeWithLock

LEMMA NextTyped == Typed /\ [Next]_vars => Typed'
<1> SUFFICES ASSUME Typed, [Next]_vars PROVE Typed'
  OBVIOUS
<1> USE DEF Typed, TypeOK, Apart, Spend, breaks
<1>1. CASE ExpireValue
  BY <1>1, CacheAssumption DEF ExpireValue
<1>2. CASE LoseLock
  <2>1. /\ lock' = Nobody /\ lockTtl' = FALSE /\ unlocked' = unlocked + 1 /\ spent' = spent + 1
        /\ UNCHANGED <<value, pc, retry, out, computed, lapses, stolen, orphaned>>
    BY <1>2 DEF LoseLock
  <2>2. unlocked' \in Nat /\ spent' \in Nat
    BY <2>1
  <2>3. lockTtl' \in BOOLEAN /\ lock' \in Callers \cup {Nobody}
    BY <2>1
  <2>4. TypeOK'
    BY <2>1, <2>2, <2>3, Zenon
  <2> QED BY <2>1, <2>4
<1>3. CASE UNCHANGED vars
  BY <1>3 DEF vars
<1> QED BY <1>1, <1>2, <1>3, StepTyped DEF Next

\* Every reachable state of the cached key, its lock and their clients is well
\* typed, whatever expires, throws or stops.
THEOREM TypeCorrect == Spec => []TypeOK
<1>1. Spec => []Typed
  BY InitTyped, NextTyped, PTL DEF Spec
<1> QED BY <1>1, PTL DEF Typed

-----------------------------------------------------------------------------
(* A lock that is set, and was not left behind, belongs to a caller that   *)
(* will delete it.                                                         *)

Owned == lock # Nobody /\ ~orphaned => lock \in Callers /\ pc[lock] \in Working

LEMMA OwnedStep == Typed /\ Owned /\ [Next]_vars => Owned'
<1> SUFFICES ASSUME Typed, Owned, [Next]_vars PROVE Owned'
  OBVIOUS
<1> USE CacheAssumption DEF Owned, Typed, TypeOK, Clients, Goto, Return, Working, Computing, breaks
<1>1. ASSUME NEW c \in Clients, Begin(c) PROVE Owned'
  BY <1>1 DEF Begin
<1>2. ASSUME NEW c \in Clients, Lookup(c) \/ LockExists(c) PROVE Owned'
  BY <1>2 DEF Lookup, LockExists, Exists, Get
<1>3. ASSUME NEW c \in Clients, SetNX(c) PROVE Owned'
  BY <1>3 DEF SetNX, Apart
<1>4. ASSUME NEW c \in Clients, ExpireLock(c) \/ DoubleCheck(c) PROVE Owned'
  BY <1>4 DEF ExpireLock, DoubleCheck, Exists, Get
<1>5. ASSUME NEW c \in Clients, Unlock(c) PROVE Owned'
  BY <1>5 DEF Unlock
<1>6. ASSUME NEW c \in Clients, Compute(c) PROVE Owned'
  BY <1>6 DEF Compute
<1>7. ASSUME NEW c \in Clients, Store(c) PROVE Owned'
  BY <1>7 DEF Store
<1>8. ASSUME NEW c \in Clients, WaitAndRetry(c) PROVE Owned'
  BY <1>8 DEF WaitAndRetry, Wait, Exists, Get
<1>9. ASSUME NEW c \in Clients, Stop(c) PROVE Owned'
  BY <1>9 DEF Stop
<1>10. CASE ExpireValue \/ LoseLock
  BY <1>10 DEF ExpireValue, LoseLock
<1>11. CASE UNCHANGED vars
  BY <1>11 DEF vars
<1> QED
  BY <1>1, <1>2, <1>3, <1>4, <1>5, <1>6, <1>7, <1>8, <1>9, <1>10, <1>11
     DEF Next, Step, ComputeWithLock

\* No path out of computeWithLock that the code controls leaves the lock key
\* behind.
THEOREM LockIsCleared == Spec => []LockCleared
<1>1. Init => Owned
  BY DEF Init, Owned
<1>2. Owned => LockCleared
  BY DEF Owned, LockCleared
<1> QED BY <1>1, <1>2, InitTyped, NextTyped, OwnedStep, PTL DEF Spec

-----------------------------------------------------------------------------
(* Counting the callers past the lock.                                     *)

One(c, l, L) == IF c \in Callers /\ l \in L THEN 1 ELSE 0
Among(p, L) == {c \in Callers : p[c] \in L}
Count(p, L) == Cardinality(Among(p, L))

\* One client that moves from a label to another changes the count of a set of
\* labels by at most one.
LEMMA MoveCounts ==
  ASSUME NEW p \in [Clients -> Labels], NEW c \in Clients, NEW l \in Labels, NEW L,
         NEW q, q = [p EXCEPT ![c] = l]
  PROVE  /\ Count(p, L) \in Nat
         /\ Count(q, L) \in Nat
         /\ Count(q, L) =
              Count(p, L) - One(c, p[c], L) + One(c, l, L)
         /\ c \in Callers /\ p[c] \in L => Count(p, L) >= 1
<1> DEFINE S == Among(p, L) \ {c}
<1>1. IsFiniteSet(Callers)
  BY CacheAssumption, FS_Subset DEF Clients
<1>2. IsFiniteSet(Among(p, L)) /\ IsFiniteSet(Among(q, L)) /\ IsFiniteSet(S)
  BY <1>1, FS_Subset DEF Among
<1>3. Cardinality(Among(p, L)) \in Nat /\ Cardinality(Among(q, L)) \in Nat /\ Cardinality(S) \in Nat
  BY <1>2, FS_CardinalityType
<1>4. Among(p, L) = IF c \in Callers /\ p[c] \in L THEN S \cup {c} ELSE S
  BY DEF Among
<1>5. Among(q, L) = IF c \in Callers /\ l \in L THEN S \cup {c} ELSE S
  BY DEF Among, Clients
<1>6. c \notin S
  OBVIOUS
<1>7. Cardinality(S \cup {c}) = Cardinality(S) + 1
  BY <1>2, <1>6, FS_AddElement
<1> HIDE DEF S
<1>8. Cardinality(Among(p, L)) = Cardinality(S) + One(c, p[c], L)
  BY <1>3, <1>4, <1>7 DEF One
<1>9. Cardinality(Among(q, L)) = Cardinality(S) + One(c, l, L)
  BY <1>3, <1>5, <1>7 DEF One
<1> QED BY <1>3, <1>8, <1>9 DEF Count, One

Undecided == {"lockExpire", "existsAgain", "getAgain"}
Leaving == {"unlock", "unlockThrow"}
Due == {"compute", "store"} \cup Leaving

Inside == Count(pc, Working)
Doubting == Count(pc, Undecided)
Certain == Count(pc, {"compute"})
Free == IF lock = Nobody THEN 1 ELSE 0
OwnerIn(L) == One(lock, pc[lock], L)
Allowed == lapses + unlocked + stolen + 1

\* What a client's move from one label to the next does to the counts.
LEMMA Jump ==
  ASSUME Typed, NEW c \in Clients, NEW l \in Labels, pc' = [pc EXCEPT ![c] = l]
  PROVE  /\ Inside \in Nat /\ Doubting \in Nat /\ Certain \in Nat
         /\ Inside' \in Nat /\ Doubting' \in Nat /\ Certain' \in Nat
         /\ Inside' = Inside - One(c, pc[c], Working)
                              + One(c, l, Working)
         /\ Doubting' = Doubting - One(c, pc[c], Undecided)
                                  + One(c, l, Undecided)
         /\ Certain' = Certain - One(c, pc[c], {"compute"})
                                + One(c, l, {"compute"})
<1>1. pc \in [Clients -> Labels]
  BY DEF Typed, TypeOK, Labels
<1>2. ASSUME NEW L
      PROVE  /\ Count(pc, L) \in Nat /\ Count(pc', L) \in Nat
             /\ Count(pc', L) = Count(pc, L) - One(c, pc[c], L)
                                             + One(c, l, L)
  BY <1>1, MoveCounts, ZenonT(60)
<1> QED BY <1>2 DEF Inside, Doubting, Certain

\* The four ways a client's move can affect the count of a set of labels.
LEMMA Shift ==
  ASSUME Typed, NEW c \in Clients, NEW l \in Labels, pc' = [pc EXCEPT ![c] = l], NEW L
  PROVE  /\ Count(pc, L) \in Nat /\ Count(pc', L) \in Nat
         /\ c \notin Callers \/ (pc[c] \in L <=> l \in L) => Count(pc', L) = Count(pc, L)
         /\ c \in Callers /\ pc[c] \in L /\ l \notin L => Count(pc', L) = Count(pc, L) - 1
         /\ c \in Callers /\ pc[c] \notin L /\ l \in L => Count(pc', L) = Count(pc, L) + 1
<1>1. pc \in [Clients -> Labels]
  BY DEF Typed, TypeOK, Labels
<1>2. /\ Count(pc, L) \in Nat /\ Count(pc', L) \in Nat
      /\ Count(pc', L) = Count(pc, L) - One(c, pc[c], L) + One(c, l, L)
  BY <1>1, MoveCounts, ZenonT(60)
<1> QED BY <1>2 DEF One

\* The same for the owner of a lock that stays what it is.
LEMMA JumpOwner ==
  ASSUME Typed, NEW c \in Clients, NEW l \in Labels, pc' = [pc EXCEPT ![c] = l],
         lock' = lock, NEW L
  PROVE  One(lock', pc'[lock'], L) =
           IF lock = c THEN One(c, l, L) ELSE OwnerIn(L)
BY DEF Typed, TypeOK, OwnerIn, One, Clients

Overlap == Inside + Free <= unlocked + 1

Slots ==
  /\ computed + Certain <= Allowed
  /\ value # "good" => computed + Certain + Doubting + Free + OwnerIn(Leaving) <= Allowed
  /\ value = "good" => computed + Certain + Doubting + Free + OwnerIn(Due) <= Allowed + 1

LEMMA InitCounts == Init => Overlap /\ Slots
<1> SUFFICES ASSUME Init PROVE Overlap /\ Slots
  OBVIOUS
<1>1. Among(pc, Working) = {} /\ Among(pc, Undecided) = {} /\ Among(pc, {"compute"}) = {}
  BY DEF Init, Among, Working, Undecided, Clients
<1>2. Inside = 0 /\ Doubting = 0 /\ Certain = 0
  BY <1>1, FS_EmptySet DEF Inside, Doubting, Certain, Count
<1>3. lock = Nobody /\ Nobody \notin Callers
  BY CacheAssumption DEF Init, Clients
<1> QED BY <1>2, <1>3 DEF Init, Overlap, Slots, Free, OwnerIn, One, Allowed

\* The steps that leave lock, value and history alone.
LEMMA QuietStep ==
  ASSUME Typed, Overlap, Slots, NEW c \in Clients, NEW l \in Labels,
         pc' = [pc EXCEPT ![c] = l],
         UNCHANGED <<value, lock, computed, lapses, unlocked, stolen>>,
         c \in Callers =>
           /\ l \in Working => pc[c] \in Working
           /\ l \in Undecided => pc[c] \in Undecided
           /\ l = "compute" => pc[c] \in Undecided /\ value # "good"
           /\ l \in Leaving => pc[c] \in Leaving \cup Undecided
           /\ l # "store"
  PROVE  Overlap' /\ Slots'
<1> USE DEF One, Inside, Doubting, Certain, Free, OwnerIn, Allowed
<1>1. /\ computed \in Nat /\ lapses \in Nat /\ unlocked \in Nat /\ stolen \in Nat
      /\ UNCHANGED <<computed, lapses, unlocked, stolen, value, lock>>
  BY DEF Typed, TypeOK
<1>2. /\ Count(pc, Working) \in Nat /\ Count(pc', Working) \in Nat
      /\ Count(pc', Working) = Count(pc, Working) - One(c, pc[c], Working) + One(c, l, Working)
  BY Jump
<1>3. /\ Count(pc, Undecided) \in Nat /\ Count(pc', Undecided) \in Nat
      /\ Count(pc', Undecided) = Count(pc, Undecided) - One(c, pc[c], Undecided) + One(c, l, Undecided)
  BY Jump
<1>4. /\ Count(pc, {"compute"}) \in Nat /\ Count(pc', {"compute"}) \in Nat
      /\ Count(pc', {"compute"}) =
           Count(pc, {"compute"}) - One(c, pc[c], {"compute"}) + One(c, l, {"compute"})
  BY Jump
<1>5. /\ One(lock', pc'[lock'], Leaving) =
           IF lock = c THEN One(c, l, Leaving) ELSE One(lock, pc[lock], Leaving)
      /\ One(lock', pc'[lock'], Due) = IF lock = c THEN One(c, l, Due) ELSE One(lock, pc[lock], Due)
  BY JumpOwner, <1>1
<1>6. Overlap'
  BY <1>1, <1>2 DEF Overlap
<1>7. CASE c \notin Callers
  BY <1>1, <1>3, <1>4, <1>5, <1>6, <1>7 DEF Slots
<1>8. CASE c \in Callers /\ value = "good"
  BY <1>1, <1>3, <1>4, <1>5, <1>6, <1>8 DEF Slots, Due, Leaving, Undecided
<1>9. CASE c \in Callers /\ value # "good"
  BY <1>1, <1>3, <1>4, <1>5, <1>6, <1>9 DEF Slots, Due, Leaving, Undecided
<1> QED BY <1>6, <1>7, <1>8, <1>9

\* SET NX of a free lock.
LEMMA TakeStep ==
  ASSUME Typed, Overlap, Slots, NEW c \in Callers, pc[c] = "setnx", lock = Nobody,
         pc' = [pc EXCEPT ![c] = "lockExpire"], lock' = c,
         UNCHANGED <<value, computed, lapses, unlocked, stolen>>
  PROVE  Overlap' /\ Slots'
<1> USE DEF One, Inside, Doubting, Certain, Free, OwnerIn, Allowed
<1>1. /\ computed \in Nat /\ lapses \in Nat /\ unlocked \in Nat /\ stolen \in Nat
      /\ UNCHANGED <<computed, lapses, unlocked, stolen, value>>
      /\ c \in Clients /\ c # Nobody /\ "lockExpire" \in Labels
      /\ pc[c] = "setnx" /\ pc'[c] = "lockExpire" /\ lock' = c
  BY CacheAssumption DEF Typed, TypeOK, Clients, Labels, Working
<1>2. /\ Count(pc, Working) \in Nat /\ Count(pc', Working) = Count(pc, Working) + 1
      /\ Count(pc, Undecided) \in Nat /\ Count(pc', Undecided) = Count(pc, Undecided) + 1
      /\ Count(pc, {"compute"}) \in Nat /\ Count(pc', {"compute"}) = Count(pc, {"compute"})
  <2>1. /\ pc[c] \notin Working /\ "lockExpire" \in Working
        /\ pc[c] \notin Undecided /\ "lockExpire" \in Undecided
        /\ pc[c] \notin {"compute"} /\ "lockExpire" \notin {"compute"}
    BY <1>1 DEF Working, Undecided
  <2> QED BY <1>1, <2>1, Shift, ZenonT(60)
<1>3. Overlap'
  BY <1>1, <1>2 DEF Overlap
<1> QED BY <1>1, <1>2, <1>3 DEF Slots, Due, Leaving

\* A computation under the lock succeeds.
LEMMA ComputedStep ==
  ASSUME Typed, Overlap, Slots, NEW c \in Callers, pc[c] = "compute",
         pc' = [pc EXCEPT ![c] = "store"], computed' = computed + 1,
         UNCHANGED <<value, lock, lapses, unlocked, stolen>>
  PROVE  Overlap' /\ Slots'
<1> USE DEF One, Inside, Doubting, Certain, Free, OwnerIn, Allowed
<1>1. /\ computed \in Nat /\ lapses \in Nat /\ unlocked \in Nat /\ stolen \in Nat
      /\ UNCHANGED <<lapses, unlocked, stolen, value, lock>>
      /\ c \in Clients /\ "store" \in Labels
      /\ pc[c] = "compute" /\ pc'[c] = "store" /\ computed' = computed + 1
  BY DEF Typed, TypeOK, Clients, Labels, Computing
<1>2. /\ Count(pc, Working) \in Nat /\ Count(pc', Working) = Count(pc, Working)
      /\ Count(pc, Undecided) \in Nat /\ Count(pc', Undecided) = Count(pc, Undecided)
      /\ Count(pc, {"compute"}) \in Nat /\ Count(pc', {"compute"}) = Count(pc, {"compute"}) - 1
  <2>1. /\ pc[c] \in Working /\ "store" \in Working
        /\ pc[c] \notin Undecided /\ "store" \notin Undecided
        /\ pc[c] \in {"compute"} /\ "store" \notin {"compute"}
    BY <1>1 DEF Working, Undecided
  <2> QED BY <1>1, <2>1, Shift
<1>3. /\ One(lock', pc'[lock'], Leaving) = One(lock, pc[lock], Leaving)
      /\ One(lock', pc'[lock'], Due) = One(lock, pc[lock], Due)
  BY <1>1, JumpOwner DEF Leaving, Due
<1>4. Overlap'
  BY <1>1, <1>2 DEF Overlap
<1> HIDE DEF One
<1> QED BY <1>1, <1>2, <1>3, <1>4 DEF Slots

\* A value is stored, with the lock held or after waiting in vain.
LEMMA StoredStep ==
  ASSUME Typed, Overlap, Slots, NEW c \in Clients, NEW l \in Labels,
         \/ pc[c] = "store" /\ l = "unlock"
         \/ pc[c] = "storeAnyway" /\ l = "idle",
         pc' = [pc EXCEPT ![c] = l], value' = "good",
         UNCHANGED <<lock, computed, lapses, unlocked, stolen>>
  PROVE  Overlap' /\ Slots'
<1> USE DEF One, Inside, Doubting, Certain, Free, OwnerIn, Allowed
<1>1. /\ computed \in Nat /\ lapses \in Nat /\ unlocked \in Nat /\ stolen \in Nat
      /\ UNCHANGED <<lapses, unlocked, stolen, computed, lock>> /\ value' = "good"
  BY DEF Typed, TypeOK
<1>2. /\ Count(pc, Working) \in Nat /\ Count(pc', Working) = Count(pc, Working)
      /\ Count(pc, Undecided) \in Nat /\ Count(pc', Undecided) = Count(pc, Undecided)
      /\ Count(pc, {"compute"}) \in Nat /\ Count(pc', {"compute"}) = Count(pc, {"compute"})
  <2>1. /\ pc[c] \in Working <=> l \in Working
        /\ pc[c] \notin Undecided /\ l \notin Undecided
        /\ pc[c] \notin {"compute"} /\ l \notin {"compute"}
    BY DEF Working, Undecided
  <2> QED BY <2>1, Shift
<1>3. One(lock', pc'[lock'], Due) = One(lock, pc[lock], Due)
  BY <1>1, JumpOwner DEF Leaving, Due
<1>4. One(lock, pc[lock], Due) \in {0, 1} /\ One(lock, pc[lock], Leaving) \in {0, 1}
  OBVIOUS
<1>5. Overlap'
  BY <1>1, <1>2 DEF Overlap
<1> HIDE DEF One
<1> QED BY <1>1, <1>2, <1>3, <1>4, <1>5 DEF Slots

\* DEL of the lock by a caller that leaves.
LEMMA UnlockStep ==
  ASSUME Typed, Overlap, Slots, NEW c \in Callers, pc[c] \in Leaving,
         pc' = [pc EXCEPT ![c] = "idle"], lock' = Nobody,
         stolen' = IF lock \in {c, Nobody} THEN stolen ELSE stolen + 1,
         UNCHANGED <<value, computed, lapses, unlocked>>
  PROVE  Overlap' /\ Slots'
<1> USE DEF One, Inside, Doubting, Certain, Free, OwnerIn, Allowed
<1>1. /\ computed \in Nat /\ lapses \in Nat /\ unlocked \in Nat /\ stolen \in Nat /\ stolen' \in Nat
      /\ UNCHANGED <<lapses, unlocked, computed, value>>
      /\ stolen' = IF lock \in {c, Nobody} THEN stolen ELSE stolen + 1
      /\ c \in Clients /\ "idle" \in Labels /\ Nobody \notin Callers /\ lock' = Nobody
  BY CacheAssumption DEF Typed, TypeOK, Clients, Labels
<1>2. /\ Count(pc, Working) \in Nat /\ Count(pc', Working) = Count(pc, Working) - 1
      /\ Count(pc, Undecided) \in Nat /\ Count(pc', Undecided) = Count(pc, Undecided)
      /\ Count(pc, {"compute"}) \in Nat /\ Count(pc', {"compute"}) = Count(pc, {"compute"})
  <2>1. /\ pc[c] \in Working /\ "idle" \notin Working
        /\ pc[c] \notin Undecided /\ "idle" \notin Undecided
        /\ pc[c] \notin {"compute"} /\ "idle" \notin {"compute"}
    BY DEF Working, Undecided, Leaving
  <2> QED BY <1>1, <2>1, Shift
<1>3. /\ One(lock', pc'[lock'], Leaving) = 0 /\ One(lock', pc'[lock'], Due) = 0
      /\ One(lock, pc[lock], Leaving) \in {0, 1} /\ One(lock, pc[lock], Due) \in {0, 1}
      /\ lock = c => One(lock, pc[lock], Leaving) = 1 /\ One(lock, pc[lock], Due) = 1
  BY <1>1 DEF Due
<1>4. Overlap'
  BY <1>1, <1>2 DEF Overlap
<1> HIDE DEF One
<1> QED BY <1>1, <1>2, <1>3, <1>4 DEF Slots

\* The value is lost, or the lock: each makes room for one more.
LEMMA LapseStep == Typed /\ Overlap /\ Slots /\ ExpireValue => Overlap' /\ Slots'
<1> SUFFICES ASSUME Typed, Overlap, Slots, ExpireValue PROVE Overlap' /\ Slots'
  OBVIOUS
<1> USE DEF Inside, Doubting, Certain, Free, OwnerIn, Allowed
<1>1. /\ computed \in Nat /\ lapses \in Nat /\ unlocked \in Nat /\ stolen \in Nat
      /\ UNCHANGED <<lock, pc, computed, unlocked, stolen>>
      /\ value = "good" /\ value' = "absent" /\ lapses' = lapses + 1
  BY DEF Typed, TypeOK, ExpireValue, breaks
<1>2. pc \in [Clients -> Labels]
  BY DEF Typed, TypeOK, Labels
<1>3. \A L : Count(pc, L) \in Nat
  <2> TAKE L
  <2>1. Count(pc, L) = Cardinality(Among(pc, L)) /\ Among(pc, L) \subseteq Callers
    BY DEF Count, Among
  <2>2. IsFiniteSet(Callers)
    BY CacheAssumption, FS_Subset DEF Clients
  <2> QED BY <2>1, <2>2, FS_Subset, FS_CardinalityType
<1>4. Count(pc, Working) \in Nat /\ Count(pc, Undecided) \in Nat /\ Count(pc, {"compute"}) \in Nat
  BY <1>3
<1>5. /\ One(lock, pc[lock], Leaving) \in {0, 1} /\ One(lock, pc[lock], Due) \in {0, 1}
      /\ One(lock, pc[lock], Leaving) <= One(lock, pc[lock], Due)
  BY DEF One, Due
<1>6. Overlap'
  BY <1>1, <1>4 DEF Overlap
<1> QED BY <1>1, <1>4, <1>5, <1>6 DEF Slots

LEMMA LoseStep == Typed /\ Overlap /\ Slots /\ LoseLock => Overlap' /\ Slots'
<1> SUFFICES ASSUME Typed, Overlap, Slots, LoseLock PROVE Overlap' /\ Slots'
  OBVIOUS
<1> USE DEF Inside, Doubting, Certain, Free, OwnerIn, Allowed
<1>1. /\ computed \in Nat /\ lapses \in Nat /\ unlocked \in Nat /\ stolen \in Nat
  BY DEF Typed, TypeOK
<1>2. /\ UNCHANGED <<value, pc, computed, lapses, stolen>>
      /\ lock' = Nobody /\ unlocked' = unlocked + 1
  BY DEF LoseLock
<1>3. \A L : Count(pc, L) \in Nat
  <2> TAKE L
  <2>1. Count(pc, L) = Cardinality(Among(pc, L)) /\ Among(pc, L) \subseteq Callers
    BY DEF Count, Among
  <2>2. IsFiniteSet(Callers)
    BY CacheAssumption, FS_Subset DEF Clients
  <2> QED BY <2>1, <2>2, FS_Subset, FS_CardinalityType
<1>4. Count(pc, Working) \in Nat /\ Count(pc, Undecided) \in Nat /\ Count(pc, {"compute"}) \in Nat
  BY <1>3
<1>5. Nobody \notin Callers
  BY CacheAssumption DEF Clients
<1>6. /\ One(lock, pc[lock], Leaving) \in {0, 1} /\ One(lock, pc[lock], Due) \in {0, 1}
      /\ One(lock', pc'[lock'], Leaving) = 0 /\ One(lock', pc'[lock'], Due) = 0
  BY <1>2, <1>5 DEF One
<1>7. Overlap'
  BY <1>1, <1>2, <1>4 DEF Overlap
<1> QED BY <1>1, <1>2, <1>4, <1>6, <1>7 DEF Slots

LEMMA CountsStep == Typed /\ Overlap /\ Slots /\ [Next]_vars => Overlap' /\ Slots'
<1> SUFFICES ASSUME Typed, Overlap, Slots, [Next]_vars PROVE Overlap' /\ Slots'
  OBVIOUS
<1> USE DEF Goto, Return, breaks
<1>1. pc \in [Clients -> Labels] /\ Callers \subseteq Clients /\ Memoizers \subseteq Clients
      /\ Memoizers \cap Callers = {} /\ Clients \subseteq Callers \cup Memoizers
  BY CacheAssumption DEF Typed, TypeOK, Labels, Clients
<1>2. ASSUME NEW c \in Clients, NEW l \in Labels, pc' = [pc EXCEPT ![c] = l],
             UNCHANGED <<value, lock, computed, lapses, unlocked, stolen>>,
             \/ l \notin Working
             \/ pc[c] = "lockExpire" /\ l = "existsAgain"
             \/ pc[c] = "existsAgain" /\ l = "getAgain"
             \/ pc[c] \in {"existsAgain", "getAgain"} /\ l = "compute" /\ value # "good"
             \/ pc[c] = "getAgain" /\ l \in Leaving
      PROVE  Overlap' /\ Slots'
  <2>1. /\ l \in Working => pc[c] \in Working
        /\ l \in Undecided => pc[c] \in Undecided
        /\ l = "compute" => pc[c] \in Undecided /\ value # "good"
        /\ l \in Leaving => pc[c] \in Leaving \cup Undecided
        /\ l # "store"
    BY <1>2 DEF Working, Undecided, Leaving
  <2> QED BY <1>2, <2>1, QuietStep
<1>3. \A c \in Clients : pc[c] \in Working \cup {"setnx"} => c \in Callers
  BY <1>1 DEF Typed, Apart, Working
<1>4. ASSUME NEW c \in Clients, Begin(c) PROVE Overlap' /\ Slots'
  <2>1. "exists" \in Labels /\ "exists" \notin Working
    BY DEF Labels, Working
  <2> QED BY <1>2, <1>4, <2>1 DEF Begin
<1>5. ASSUME NEW c \in Clients, Lookup(c) PROVE Overlap' /\ Slots'
  <2>1. PICK l \in {"get", "idle", "computeAnyway", "lockExists"} : pc' = [pc EXCEPT ![c] = l]
    BY <1>5 DEF Lookup, Exists, Get, Miss
  <2>2. UNCHANGED <<value, lock, computed, lapses, unlocked, stolen>>
    BY <1>5 DEF Lookup, Exists, Get
  <2>3. l \in Labels /\ l \notin Working
    BY DEF Labels, Working, Computing
  <2> QED BY <1>2, <2>1, <2>2, <2>3
<1>6. ASSUME NEW c \in Clients, LockExists(c) PROVE Overlap' /\ Slots'
  <2>1. PICK l \in {"setnx", "wait"} : pc' = [pc EXCEPT ![c] = l]
    BY <1>6 DEF LockExists
  <2>2. l \in Labels /\ l \notin Working
    BY DEF Labels, Working
  <2> QED BY <1>2, <1>6, <2>1, <2>2 DEF LockExists
<1>7. ASSUME NEW c \in Clients, SetNX(c) PROVE Overlap' /\ Slots'
  <2>1. c \in Callers
    BY <1>3, <1>7 DEF SetNX
  <2>2. CASE lock = Nobody
    BY <1>7, <2>1, <2>2, TakeStep DEF SetNX
  <2>3. CASE lock # Nobody
    <3>1. "idle" \in Labels /\ "idle" \notin Working
      BY DEF Labels, Working
    <3> QED BY <1>2, <1>7, <2>3, <3>1 DEF SetNX
  <2> QED BY <2>2, <2>3
<1>8. ASSUME NEW c \in Clients, ExpireLock(c) PROVE Overlap' /\ Slots'
  <2>1. "existsAgain" \in Labels
    BY DEF Labels, Working
  <2> QED BY <1>2, <1>8, <2>1 DEF ExpireLock
<1>9. ASSUME NEW c \in Clients, DoubleCheck(c) PROVE Overlap' /\ Slots'
  <2>1. PICK l \in Labels :
          /\ pc' = [pc EXCEPT ![c] = l]
          /\ \/ pc[c] = "existsAgain" /\ l = "getAgain"
             \/ pc[c] \in {"existsAgain", "getAgain"} /\ l = "compute" /\ value # "good"
             \/ pc[c] = "getAgain" /\ l \in Leaving
    BY <1>9 DEF DoubleCheck, Exists, Get, Leaving, Labels, Working
  <2>2. UNCHANGED <<value, lock, computed, lapses, unlocked, stolen>>
    BY <1>9 DEF DoubleCheck, Exists, Get
  <2> QED BY <1>2, <2>1, <2>2
<1>10. ASSUME NEW c \in Clients, Unlock(c) PROVE Overlap' /\ Slots'
  <2>1. c \in Callers
    BY <1>3, <1>10 DEF Unlock, Working
  <2>2. pc[c] \in Leaving
    BY <1>10 DEF Unlock, Leaving
  <2>3. /\ pc' = [pc EXCEPT ![c] = "idle"] /\ lock' = Nobody
        /\ stolen' = IF lock \in {c, Nobody} THEN stolen ELSE stolen + 1
        /\ UNCHANGED <<value, computed, lapses, unlocked>>
    BY <1>10 DEF Unlock
  <2> QED BY <2>1, <2>2, <2>3, UnlockStep
<1>11. ASSUME NEW c \in Clients, Compute(c) PROVE Overlap' /\ Slots'
  <2>1. /\ pc[c] \in {"compute", "computeAnyway"}
        /\ UNCHANGED <<value, lock, lapses, unlocked, stolen>>
        /\ \/ /\ pc' = [pc EXCEPT ![c] = IF pc[c] = "compute" THEN "store" ELSE "storeAnyway"]
              /\ computed' = IF pc[c] = "compute" THEN computed + 1 ELSE computed
           \/ pc' = [pc EXCEPT ![c] = "idle"] /\ computed' = computed
    BY <1>11 DEF Compute
  <2>2. "storeAnyway" \in Labels \ Working /\ "idle" \in Labels \ Working
    BY DEF Labels, Working, Computing
  <2>3. CASE pc' = [pc EXCEPT ![c] = "idle"] /\ computed' = computed
    BY <1>2, <2>1, <2>2, <2>3
  <2>4. CASE pc[c] = "computeAnyway" /\ pc' = [pc EXCEPT ![c] = "storeAnyway"] /\ computed' = computed
    BY <1>2, <2>1, <2>2, <2>4
  <2>5. CASE pc[c] = "compute" /\ pc' = [pc EXCEPT ![c] = "store"] /\ computed' = computed + 1
    <3>1. c \in Callers
      BY <1>3, <2>5 DEF Working
    <3> QED BY <2>1, <2>5, <3>1, ComputedStep
  <2> QED BY <2>1, <2>3, <2>4, <2>5
<1>12. ASSUME NEW c \in Clients, Store(c) PROVE Overlap' /\ Slots'
  <2>1. PICK l \in Labels : /\ pc' = [pc EXCEPT ![c] = l]
                            /\ \/ pc[c] = "store" /\ l = "unlock"
                               \/ pc[c] = "storeAnyway" /\ l = "idle"
    BY <1>12 DEF Store, Labels, Working
  <2>2. value' = "good" /\ UNCHANGED <<lock, computed, lapses, unlocked, stolen>>
    BY <1>12 DEF Store
  <2> QED BY <2>1, <2>2, StoredStep
<1>13. ASSUME NEW c \in Clients, WaitAndRetry(c) PROVE Overlap' /\ Slots'
  <2>1. PICK l \in {"computeAnyway", "waitExists", "waitGet", "wait", "idle"} : pc' = [pc EXCEPT ![c] = l]
    BY <1>13 DEF WaitAndRetry, Wait, Exists, Get
  <2>2. UNCHANGED <<value, lock, computed, lapses, unlocked, stolen>>
    BY <1>13 DEF WaitAndRetry, Wait, Exists, Get
  <2>3. l \in Labels /\ l \notin Working
    BY DEF Labels, Working, Computing
  <2> QED BY <1>2, <2>1, <2>2, <2>3
<1>14. ASSUME NEW c \in Clients, Stop(c) PROVE Overlap' /\ Slots'
  <2>1. "idle" \in Labels /\ "idle" \notin Working
    BY DEF Labels, Working
  <2> QED BY <1>2, <1>14, <2>1 DEF Stop
<1>15. CASE ExpireValue \/ LoseLock
  BY <1>15, LapseStep, LoseStep
<1>16. CASE UNCHANGED vars
  BY <1>16 DEF vars, Overlap, Slots, Inside, Doubting, Certain, Free, OwnerIn, Allowed, Count, Among
<1> QED
  BY <1>4, <1>5, <1>6, <1>7, <1>8, <1>9, <1>10, <1>11, <1>12, <1>13, <1>14, <1>15, <1>16
     DEF Next, Step, ComputeWithLock

LEMMA SpecCounts == Spec => [](Typed /\ Overlap /\ Slots)
<1>1. Init => Typed /\ Overlap /\ Slots
  BY InitTyped, InitCounts
<1>2. Typed /\ Overlap /\ Slots /\ [Next]_vars => (Typed /\ Overlap /\ Slots)'
  BY NextTyped, CountsStep
<1> QED BY <1>1, <1>2, PTL DEF Spec

\* However many callers miss the value together, at most one of them is past the
\* lock, and one more for every lock that ran out before its owner was done.
THEOREM OneCallerComputes == Spec => []OneComputes
<1>1. Typed /\ Overlap /\ Slots => OneComputes
  <2> SUFFICES ASSUME Typed, Overlap PROVE OneComputes
    OBVIOUS
  <2>1. IsFiniteSet(Callers) /\ Among(pc, Working) \subseteq Callers
    BY CacheAssumption, FS_Subset DEF Clients, Among
  <2>2. Cardinality(Among(pc, Working)) \in Nat /\ unlocked \in Nat
    BY <2>1, FS_Subset, FS_CardinalityType DEF Typed, TypeOK
  <2>3. Cardinality(Among(pc, Working)) <= unlocked + 1
    BY <2>2 DEF Overlap, Inside, Free, Count
  <2> QED BY <2>3 DEF OneComputes, Among
<1> QED BY <1>1, SpecCounts, PTL

\* There is no stampede: a value is computed under the lock once for every time
\* it was missing, and once more for every lock that ran out or was deleted by a
\* late owner, whatever expires, throws or stops.
THEOREM NoStampede == Spec => []ComputedOnce
<1>1. Typed /\ Overlap /\ Slots => ComputedOnce
  <2> SUFFICES ASSUME Typed, Slots PROVE ComputedOnce
    OBVIOUS
  <2>1. IsFiniteSet(Callers) /\ Among(pc, {"compute"}) \subseteq Callers
    BY CacheAssumption, FS_Subset DEF Clients, Among
  <2>2. /\ Cardinality(Among(pc, {"compute"})) \in Nat
        /\ unlocked \in Nat /\ computed \in Nat /\ lapses \in Nat /\ stolen \in Nat
    BY <2>1, FS_Subset, FS_CardinalityType DEF Typed, TypeOK
  <2> QED BY <2>2 DEF Slots, Certain, Count, Allowed, ComputedOnce
<1> QED BY <1>1, SpecCounts, PTL

-----------------------------------------------------------------------------
(* A call ends after so many steps.                                        *)

\* A step of another client leaves a call where it is.
Stays(c) == pc'[c] = pc[c] /\ retry'[c] = retry[c]

\* What the code does at one label: the call goes on to one of the labels given.
GoesOn(c, here, next) == pc[c] \in here /\ pc'[c] \in next /\ retry'[c] = retry[c]

LEMMA ClientMoves ==
  ASSUME Typed, NEW c \in Clients, NEW d \in Clients, d # c, Begin(d) \/ Step(d) \/ Stop(d)
  PROVE  Stays(c)
<1> USE DEF Stays, Typed, TypeOK, Goto, Return
<1>1. CASE Begin(d)
  BY <1>1 DEF Begin
<1>2. CASE Lookup(d) \/ DoubleCheck(d)
  BY <1>2 DEF Lookup, DoubleCheck, Exists, Get
<1>3. CASE LockExists(d) \/ SetNX(d) \/ ExpireLock(d) \/ Unlock(d)
  BY <1>3 DEF LockExists, SetNX, ExpireLock, Unlock
<1>4. CASE Compute(d) \/ Store(d) \/ Stop(d)
  BY <1>4 DEF Compute, Store, Stop
<1>5. CASE WaitAndRetry(d)
  BY <1>5 DEF WaitAndRetry, Wait, Exists, Get
<1> QED BY <1>1, <1>2, <1>3, <1>4, <1>5 DEF Step, ComputeWithLock

\* Where each step takes the call: forward, or back to the counter.
Forward(c) ==
  \/ GoesOn(c, {"exists"}, {"get", "lockExists", "computeAnyway"})
  \/ GoesOn(c, {"get"}, {"idle", "lockExists", "computeAnyway"})
  \/ GoesOn(c, {"lockExists"}, {"setnx", "wait"})
  \/ GoesOn(c, {"setnx"}, {"lockExpire", "idle"})
  \/ GoesOn(c, {"lockExpire"}, {"existsAgain"})
  \/ GoesOn(c, {"existsAgain"}, {"getAgain", "compute"})
  \/ GoesOn(c, {"getAgain"}, {"unlock", "unlockThrow", "compute"})
  \/ GoesOn(c, {"compute"}, {"store", "idle"})
  \/ GoesOn(c, {"computeAnyway"}, {"storeAnyway", "idle"})
  \/ GoesOn(c, {"store"}, {"unlock"})
  \/ GoesOn(c, {"storeAnyway", "unlock", "unlockThrow"}, {"idle"})
  \/ GoesOn(c, {"wait"}, {"computeAnyway"})
  \/ GoesOn(c, {"waitExists"}, {"waitGet", "wait"})
  \/ GoesOn(c, {"waitGet"}, {"wait", "idle"})
CountsRetry(c) == pc[c] = "wait" /\ pc'[c] = "waitExists" /\ retry'[c] = retry[c] + 1

LEMMA CallMoves ==
  ASSUME Typed, NEW c \in Clients, Step(c)
  PROVE  Forward(c) \/ CountsRetry(c)
<1> USE DEF Forward, GoesOn, Typed, TypeOK, Goto, Return
<1>1. CASE Lookup(c)
  BY <1>1 DEF Lookup, Exists, Get, Miss
<1>2. CASE DoubleCheck(c)
  BY <1>2 DEF DoubleCheck, Exists, Get
<1>3. CASE LockExists(c) \/ SetNX(c) \/ ExpireLock(c)
  BY <1>3 DEF LockExists, SetNX, ExpireLock
<1>4. CASE Unlock(c)
  BY <1>4 DEF Unlock
<1>5. CASE Compute(c)
  BY <1>5 DEF Compute
<1>6. CASE Store(c)
  BY <1>6 DEF Store
<1>7. CASE WaitAndRetry(c)
  BY <1>7 DEF WaitAndRetry, Wait, Exists, Get, CountsRetry
<1> QED BY <1>1, <1>2, <1>3, <1>4, <1>5, <1>6, <1>7 DEF Step, ComputeWithLock

\* The measure falls with each of these moves, the count of a retry included.
LEMMA MovesShorten ==
  ASSUME NEW r \in 0 .. MaxRetries, NEW n \in 0 .. MaxRetries, NEW here \in Labels, NEW next \in Labels,
         NEW c, pc[c] = here, pc'[c] = next, retry[c] = r, retry'[c] = n,
         Forward(c) \/ CountsRetry(c) \/ (here # "idle" /\ next = "idle")
  PROVE  StepsLeft(c)' < StepsLeft(c)
<1>1. MaxRetries - r \in Nat /\ MaxRetries - n \in Nat
  BY CacheAssumption
<1>2. /\ StepsLeft(c) = Ahead[here] + IF here \in Settling THEN 0 ELSE 3 * (MaxRetries - r)
      /\ StepsLeft(c)' = Ahead[next] + IF next \in Settling THEN 0 ELSE 3 * (MaxRetries - n)
  BY DEF StepsLeft
<1>3. CASE Forward(c)
  <2>1. r = n
    BY <1>3 DEF Forward, GoesOn
  <2> QED
    BY <1>1, <1>2, <1>3, <2>1 DEF Forward, GoesOn, Ahead, Settling, Working, Computing
<1>4. CASE CountsRetry(c)
  <2>1. n = r + 1 /\ here = "wait" /\ next = "waitExists"
    BY <1>4 DEF CountsRetry
  <2>2. StepsLeft(c) = 3 + 3 * (MaxRetries - r) /\ StepsLeft(c)' = 5 + 3 * (MaxRetries - n)
    BY <1>2, <2>1 DEF Ahead, Settling, Working, Computing
  <2> QED BY <1>1, <2>1, <2>2, CacheAssumption
<1>5. CASE here # "idle" /\ next = "idle"
  <2>1. StepsLeft(c)' = 0
    BY <1>2, <1>5 DEF Ahead, Settling
  <2>2. Ahead[here] \in Nat /\ Ahead[here] > 0
    BY <1>5 DEF Ahead, Labels, Working, Computing
  <2> QED BY <1>1, <1>2, <2>1, <2>2
<1> QED BY <1>3, <1>4, <1>5

\* For any maxRetries and whatever the others do, every step of a call brings it
\* nearer to its end: it ends after at most 3 * maxRetries + 10 steps of its own.
THEOREM NoneIsThrownBack == Spec => NeverThrownBack
<1>1. ASSUME Typed, Typed', Next, NEW c \in Clients, pc[c] # "idle"
      PROVE  Nearer(c)
  <2>1. /\ pc[c] \in Labels /\ pc'[c] \in Labels
        /\ retry[c] \in 0 .. MaxRetries /\ retry'[c] \in 0 .. MaxRetries
    BY <1>1 DEF Typed, TypeOK, Labels
  <2>2. CASE \E d \in Clients : d # c /\ (Begin(d) \/ Step(d) \/ Stop(d))
    <3>1. Stays(c)
      BY <1>1, <2>2, ClientMoves
    <3> QED BY <3>1 DEF Stays, Nearer
  <2>3. CASE Step(c)
    <3>1. Forward(c) \/ CountsRetry(c)
      BY <1>1, <2>3, CallMoves
    <3> QED BY <2>1, <3>1, MovesShorten DEF Nearer
  <2>4. CASE Stop(c)
    <3>1. pc'[c] = "idle"
      BY <1>1, <2>4 DEF Stop, Return, Goto, Typed, TypeOK
    <3> QED BY <1>1, <2>1, <3>1, MovesShorten DEF Nearer
  <2>5. CASE ExpireValue \/ LoseLock
    BY <2>5 DEF ExpireValue, LoseLock, Nearer
  <2>6. ~Begin(c)
    BY <1>1 DEF Begin
  <2> QED BY <1>1, <2>2, <2>3, <2>4, <2>5, <2>6 DEF Next
<1>2. Typed /\ Typed' /\ [Next]_vars => [\A c \in Clients : pc[c] # "idle" => Nearer(c)]_vars
  BY <1>1
<1>3. Spec => []Typed
  BY InitTyped, NextTyped, PTL DEF Spec
<1> QED BY <1>2, <1>3, PTL DEF Spec, NeverThrownBack

=============================================================================
