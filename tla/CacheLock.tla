------------------------------ MODULE CacheLock -----------------------------
(***************************************************************************)
(* getOrComputeWithLock and memoize of RedisLean/Cache.lean: callers that  *)
(* share one cache key and one lock key, one Redis command per step.       *)
(*                                                                         *)
(* The value is abstracted to whether the key exists and can be decoded,   *)
(* the lock to the caller that set it (all write the same "locked").       *)
(***************************************************************************)
EXTENDS Integers, FiniteSets

CONSTANTS Callers,     \* callers of getOrComputeWithLock
          Memoizers,   \* callers of memoize
          Nobody,
          MaxRetries,  \* maxRetries
          ValueExpiry, LockExpiry,  \* may the TTL of the value, the lock run out?
          Failures,    \* may compute throw, may a caller stop half-way?
          Budget       \* bound on calls, expiries and failures

Clients == Callers \cup Memoizers

ASSUME CacheAssumption ==
  /\ IsFiniteSet(Clients) /\ Callers \cap Memoizers = {} /\ Nobody \notin Clients
  /\ MaxRetries \in Nat /\ Budget \in Nat
  /\ {ValueExpiry, LockExpiry, Failures} \subseteq BOOLEAN

VARIABLES
  value,     \* the key: absent, corrupt (not decodable) or good
  lock,      \* who set the lock key, or Nobody when it is absent
  lockTtl,   \* does the lock key carry an expiry?
  pc, retry, \* locals of each client; retry is currentRetry
  out,       \* how the last call of each client ended
  computed,  \* values computed under the lock
  lapses,    \* values that were lost from the cache
  unlocked,  \* locks that ran out before they were deleted
  stolen,    \* locks that were deleted by another caller than the one that set them
  orphaned,  \* did a call end between SET NX and DEL?
  spent      \* how much of Budget is used

breaks == <<unlocked, stolen>>
vars == <<value, lock, lockTtl, pc, retry, out, computed, lapses, breaks, orphaned, spent>>

Working == {"lockExpire", "existsAgain", "getAgain", "compute", "store", "unlock", "unlockThrow"}
Computing == {"compute", "store", "computeAnyway", "storeAnyway"}

Goto(c, label) == pc' = [pc EXCEPT ![c] = label]
Return(c, result) == Goto(c, "idle") /\ out' = [out EXCEPT ![c] = result]
Spend == spent < Budget /\ spent' = spent + 1

\* What follows a miss: memoize computes, getOrComputeWithLock goes for the lock.
Miss(c) == IF c \in Memoizers THEN "computeAnyway" ELSE "lockExists"

Init ==
  /\ value \in {"absent", "corrupt"}
  /\ lock = Nobody /\ lockTtl = FALSE
  /\ pc = [c \in Clients |-> "idle"]
  /\ retry = [c \in Clients |-> 0]
  /\ out = [c \in Clients |-> "none"]
  /\ computed = 0 /\ lapses = 0 /\ unlocked = 0 /\ stolen = 0 /\ orphaned = FALSE /\ spent = 0

Begin(c) ==
  /\ pc[c] = "idle" /\ Spend
  /\ Goto(c, "exists")
  /\ retry' = [retry EXCEPT ![c] = 0]
  /\ out' = [out EXCEPT ![c] = "none"]
  /\ UNCHANGED <<value, lock, lockTtl, computed, lapses, breaks, orphaned>>

\* EXISTS of the key.
Exists(c, label, hit, miss) ==
  /\ pc[c] = label
  /\ Goto(c, IF value = "absent" THEN miss ELSE hit)
  /\ UNCHANGED <<value, lock, lockTtl, retry, out, computed, lapses, breaks, spent, orphaned>>

\* GET and decode; a key that is gone since EXISTS throws keyNotFound.
Get(c, label, good, corrupt, gone) ==
  /\ pc[c] = label
  /\ \/ value = "good" /\ good
     \/ value = "corrupt" /\ Goto(c, corrupt) /\ UNCHANGED out
     \/ value = "absent" /\ gone
  /\ UNCHANGED <<value, lock, lockTtl, retry, computed, lapses, breaks, spent, orphaned>>

Lookup(c) ==
  \/ Exists(c, "exists", "get", Miss(c))
  \/ Get(c, "get", Return(c, "value"), Miss(c), Return(c, "keyNotFound"))

-----------------------------------------------------------------------------
(* acquireLock: EXISTS, SET NX, EXPIRE, outside the try of computeWithLock.*)

LockExists(c) ==
  /\ pc[c] = "lockExists"
  /\ Goto(c, IF lock = Nobody THEN "setnx" ELSE "wait")
  /\ UNCHANGED <<value, lock, lockTtl, retry, out, computed, lapses, breaks, spent, orphaned>>

\* Mutant: a plain SET.
SetLock(c) ==
  /\ pc[c] = "setnx"
  /\ lock' = c /\ lockTtl' = FALSE /\ Goto(c, "lockExpire")
  /\ UNCHANGED <<value, retry, out, computed, lapses, breaks, spent, orphaned>>

SetNX(c) ==
  /\ pc[c] = "setnx"
  /\ IF lock = Nobody
       THEN lock' = c /\ lockTtl' = FALSE /\ Goto(c, "lockExpire") /\ UNCHANGED out
       ELSE Return(c, "lockTaken") /\ UNCHANGED <<lock, lockTtl>>
  /\ UNCHANGED <<value, retry, computed, lapses, breaks, spent, orphaned>>

\* Mutant: the double check is left out.
ExpireLockAndCompute(c) ==
  /\ pc[c] = "lockExpire"
  /\ lockTtl' = (lock # Nobody) /\ Goto(c, "compute")
  /\ UNCHANGED <<value, lock, retry, out, computed, lapses, breaks, spent, orphaned>>

ExpireLock(c) ==
  /\ pc[c] = "lockExpire"
  /\ lockTtl' = (lock # Nobody)
  /\ Goto(c, "existsAgain")
  /\ UNCHANGED <<value, lock, retry, out, computed, lapses, breaks, spent, orphaned>>

DoubleCheck(c) ==
  \/ Exists(c, "existsAgain", "getAgain", "compute")
  \/ Get(c, "getAgain", Goto(c, "unlock") /\ UNCHANGED out, "compute",
         Goto(c, "unlockThrow") /\ UNCHANGED out)

\* An IO error of compute is not an Error of RedisM: no catch sees it.
Compute(c) ==
  /\ pc[c] \in {"compute", "computeAnyway"}
  /\ \/ /\ Goto(c, IF pc[c] = "compute" THEN "store" ELSE "storeAnyway")
        /\ computed' = IF pc[c] = "compute" THEN computed + 1 ELSE computed
        /\ UNCHANGED <<out, spent, orphaned>>
     \/ /\ Failures /\ Spend /\ Return(c, "ioError")
        /\ orphaned' = (orphaned \/ pc[c] \in Working)
        /\ UNCHANGED computed
  /\ UNCHANGED <<value, lock, lockTtl, retry, lapses, breaks>>

\* SETEX; without the lock this ends the call.
Store(c) ==
  /\ pc[c] \in {"store", "storeAnyway"}
  /\ value' = "good"
  /\ IF pc[c] = "store" THEN Goto(c, "unlock") /\ UNCHANGED out ELSE Return(c, "value")
  /\ UNCHANGED <<lock, lockTtl, retry, computed, lapses, breaks, spent, orphaned>>

\* Mutant: a failed double check returns with the lock held.
UnlockUnlessThrown(c) ==
  /\ pc[c] \in {"unlock", "unlockThrow"}
  /\ IF pc[c] = "unlock" THEN lock' = Nobody /\ lockTtl' = FALSE ELSE UNCHANGED <<lock, lockTtl>>
  /\ Return(c, IF pc[c] = "unlock" THEN "value" ELSE "keyNotFound")
  /\ UNCHANGED <<value, retry, computed, lapses, breaks, spent, orphaned>>

\* DEL of the lock key, whoever set it.
Unlock(c) ==
  /\ pc[c] \in {"unlock", "unlockThrow"}
  /\ lock' = Nobody /\ lockTtl' = FALSE
  /\ stolen' = IF lock \in {c, Nobody} THEN stolen ELSE stolen + 1
  /\ Return(c, IF pc[c] = "unlock" THEN "value" ELSE "keyNotFound")
  /\ UNCHANGED <<value, retry, computed, lapses, unlocked, spent, orphaned>>

ComputeWithLock(c) ==
  LockExists(c) \/ SetNX(c) \/ ExpireLock(c) \/ DoubleCheck(c) \/ Unlock(c)

-----------------------------------------------------------------------------
(* waitAndRetry                                                            *)

\* Mutant: the retries are not counted.
WaitForEver(c) ==
  /\ pc[c] = "wait" /\ Goto(c, "waitExists")
  /\ UNCHANGED <<value, lock, lockTtl, retry, out, computed, lapses, breaks, spent, orphaned>>

Wait(c) ==
  /\ pc[c] = "wait"
  /\ IF retry[c] >= MaxRetries
       THEN Goto(c, "computeAnyway") /\ UNCHANGED retry
       ELSE Goto(c, "waitExists") /\ retry' = [retry EXCEPT ![c] = @ + 1]
  /\ UNCHANGED <<value, lock, lockTtl, out, computed, lapses, breaks, spent, orphaned>>

WaitAndRetry(c) ==
  \/ Wait(c)
  \/ Exists(c, "waitExists", "waitGet", "wait")
  \/ Get(c, "waitGet", Return(c, "value"), "wait", Return(c, "keyNotFound"))

-----------------------------------------------------------------------------
(* The environment: TTLs run out, a caller throws or stops between two     *)
(* commands (only the try of computeWithLock would still delete the lock). *)

ExpireValue ==
  /\ ValueExpiry /\ value = "good" /\ Spend
  /\ value' = "absent" /\ lapses' = lapses + 1
  /\ UNCHANGED <<lock, lockTtl, pc, retry, out, computed, breaks, orphaned>>

LoseLock ==
  /\ LockExpiry /\ lockTtl /\ Spend
  /\ lock' = Nobody /\ lockTtl' = FALSE /\ unlocked' = unlocked + 1
  /\ UNCHANGED <<value, pc, retry, out, computed, lapses, stolen, orphaned>>

Stop(c) ==
  /\ Failures /\ pc[c] # "idle" /\ Spend
  /\ Return(c, "stopped")
  /\ orphaned' = (orphaned \/ pc[c] \in Working)
  /\ UNCHANGED <<value, lock, lockTtl, retry, computed, lapses, breaks>>

Step(c) == Lookup(c) \/ ComputeWithLock(c) \/ Compute(c) \/ Store(c) \/ WaitAndRetry(c)

Next ==
  \/ \E c \in Clients : Begin(c) \/ Step(c) \/ Stop(c)
  \/ ExpireValue \/ LoseLock

Spec == Init /\ [][Next]_vars
FairSpec == Spec /\ \A c \in Clients : WF_vars(Step(c))

-----------------------------------------------------------------------------
TypeOK ==
  /\ value \in {"absent", "corrupt", "good"}
  /\ lock \in Callers \cup {Nobody} /\ lockTtl \in BOOLEAN
  /\ pc \in [Clients -> Working \cup Computing \cup
               {"idle", "exists", "get", "lockExists", "setnx", "wait", "waitExists", "waitGet"}]
  /\ retry \in [Clients -> 0 .. MaxRetries]
  /\ out \in [Clients -> {"none", "value", "keyNotFound", "lockTaken", "ioError", "stopped"}]
  /\ orphaned \in BOOLEAN /\ computed \in Nat /\ lapses \in Nat /\ unlocked \in Nat /\ stolen \in Nat /\ spent \in Nat

\* "Only one caller will compute the value": at most one caller is past the
\* lock, and one more for every lock that ran out before its owner was done,
\* although an owner that is late deletes the lock of another.
OneComputes == Cardinality({c \in Callers : pc[c] \in Working}) <= unlocked + 1

\* No stampede: thanks to the check under the lock a value is computed there
\* once for every time it was missing, and once more for every lock that ran out
\* or that a late owner deleted, however many callers missed the value together.
ComputedOnce == computed <= lapses + unlocked + stolen + 1

\* A lock is only left behind by a caller that was stopped or whose computation
\* threw: every other path out of computeWithLock, the throwing one of the
\* double check included, deletes the lock key.
LockCleared == (\A c \in Callers : pc[c] \notin Working) /\ ~orphaned => lock = Nobody

\* A bound on the steps that a call has still ahead of it; each of its retries
\* left takes three, the test of the counter, EXISTS and GET.
Ahead == [idle |-> 0, storeAnyway |-> 1, computeAnyway |-> 2, wait |-> 3, waitGet |-> 4, waitExists |-> 5,
          unlock |-> 1, unlockThrow |-> 1, store |-> 2, compute |-> 3, getAgain |-> 4,
          existsAgain |-> 5, lockExpire |-> 6, setnx |-> 7, lockExists |-> 8, get |-> 9, exists |-> 10]
Settling == Working \cup Computing \cup {"idle"}
StepsLeft(c) == Ahead[pc[c]] + IF pc[c] \in Settling THEN 0 ELSE 3 * (MaxRetries - retry[c])

\* A step brings a call nearer to its end, or does not concern it.
Nearer(c) ==
  \/ StepsLeft(c)' < StepsLeft(c)
  \/ pc'[c] = pc[c] /\ retry'[c] = retry[c]

\* Whatever the other callers do to the value and the lock meanwhile, a call
\* comes nearer to its end with each step it takes and is thrown back by
\* none: it ends after at most 3 * maxRetries + 10 steps of its own.
NeverThrownBack == [][\A c \in Clients : pc[c] # "idle" => Nearer(c)]_vars

\* Every call returns or throws, even if the caller that has the lock fails:
\* waiting is bounded by maxRetries.
CallsEnd == \A c \in Clients : pc[c] # "idle" ~> pc[c] = "idle"

=============================================================================
