----------------------------- MODULE CacheWrite -----------------------------
(***************************************************************************)
(* RedisLean/Cache.lean, the functions without a lock: clients that keep   *)
(* one value both under a key of Redis and in a store of their own.  A     *)
(* value is its version.  cacheIf, which stores what its caller holds, is  *)
(* left out, and so are values that cannot be decoded.                     *)
(***************************************************************************)
EXTENDS Naturals

CONSTANTS Writers,     \* clients of writeThrough, writeThroughEx and writeBehind
          Readers,     \* clients of the other functions
          PersistFails,
          MaxVersion, MaxReads  \* bounds on the calls begun by either

Clients == Writers \cup Readers
Absent == 0

ASSUME WriteAssumption ==
  /\ Readers \cap Writers = {}
  /\ {MaxVersion, MaxReads} \subseteq Nat /\ PersistFails \in BOOLEAN

VARIABLES
  cache,   \* version under the key, or Absent
  mortal,  \* the key has a TTL
  store,   \* version in the persistent store
  pc, ver, \* each client's next step and the version in its hands
  brief,   \* whether the client's call sets a TTL
  version, reads, \* writes and reads begun
  alone,   \* a client's work has not overlapped with another's, see Conflict
  spoiled  \* the last work that is over was disturbed

key == <<cache, mortal>>
history == <<alone, spoiled>>
vars == <<key, store, pc, ver, brief, version, reads, history>>

Goto(c, label) == pc' = [pc EXCEPT ![c] = label]

Init ==
  /\ cache = Absent /\ mortal = FALSE /\ store = 1 /\ version = 1 /\ reads = 0
  /\ pc = [c \in Clients |-> "idle"] /\ ver = [c \in Clients |-> Absent]
  /\ brief = [c \in Clients |-> FALSE]
  /\ alone = [c \in Clients |-> TRUE] /\ spoiled = FALSE

\* A write works from its SET to its persist, a fill from its fetch to its SET.
Writes(c) == pc[c] = "persist"
Fills(c) == pc[c] = "fill"
Resting == \A c \in Clients : ~Writes(c) /\ ~Fills(c)

\* The work of c begins next to that of others it does not go together with.
Conflict(c, others) ==
  alone' = [d \in Clients |-> IF d = c THEN others = {} ELSE alone[d] /\ d \notin others]

\* SET clears a TTL that the key had, SETEX gives it one.
SetKey(c) == cache' = ver[c] /\ mortal' = brief[c]
DropKey == cache' = Absent /\ mortal' = FALSE

-----------------------------------------------------------------------------
(* writeThrough and writeBehind without a TTL, writeThroughEx with one.    *)

BeginWrite(c) ==
  /\ pc[c] = "idle" /\ version < MaxVersion
  /\ version' = version + 1
  /\ ver' = [ver EXCEPT ![c] = version + 1]
  /\ \E ttl \in BOOLEAN : brief' = [brief EXCEPT ![c] = ttl]
  /\ Goto(c, "write")
  /\ UNCHANGED <<key, store, reads, history>>

Write(c) ==
  /\ pc[c] = "write"
  /\ SetKey(c) /\ Goto(c, "persist")
  /\ Conflict(c, {d \in Clients \ {c} : Writes(d) \/ Fills(d)})
  /\ UNCHANGED <<store, ver, brief, version, reads, spoiled>>

\* An IO error of persist ends the call after the cache was written.  It is not
\* an Error of RedisM, so the catch of writeBehind does not see it either, and
\* writeBehind is writeThrough.
Persist(c) ==
  /\ pc[c] = "persist" /\ Goto(c, "idle")
  /\ \/ store' = ver[c] /\ spoiled' = ~alone[c]
     \/ PersistFails /\ spoiled' = TRUE /\ UNCHANGED store
  /\ UNCHANGED <<key, ver, brief, version, reads, alone>>

-----------------------------------------------------------------------------
(* cacheAside looks first and has a TTL or none, refreshCache fetches at   *)
(* once and has one; invalidate deletes, invalidatePattern looks first;    *)
(* touchCache gives the key a TTL.                                         *)

BeginRead(c) ==
  /\ pc[c] = "idle" /\ reads < MaxReads
  /\ reads' = reads + 1
  /\ \E first \in {"exists", "fetch", "keys", "del", "expire"}, ttl \in BOOLEAN :
       /\ first # "exists" => ttl
       /\ brief' = [brief EXCEPT ![c] = ttl] /\ Goto(c, first)
  /\ UNCHANGED <<key, store, ver, version, history>>

Look(c, label, found, missing) ==
  /\ pc[c] = label
  /\ Goto(c, IF cache = Absent THEN missing ELSE found)
  /\ UNCHANGED <<key, store, ver, brief, version, reads, history>>

Exists(c) == Look(c, "exists", "get", "fetch")

\* The value is returned, or the key is gone and get throws.
Get(c) == Look(c, "get", "idle", "idle")
Keys(c) == Look(c, "keys", "del", "idle")

Fetch(c) ==
  /\ pc[c] = "fetch"
  /\ ver' = [ver EXCEPT ![c] = store]
  /\ Goto(c, "fill")
  /\ Conflict(c, {d \in Clients \ {c} : Writes(d)})
  /\ UNCHANGED <<key, store, brief, version, reads, spoiled>>

\* Mutant: what is cached already is kept.
FillIfAbsent(c) ==
  /\ pc[c] = "fill" /\ Goto(c, "idle")
  /\ IF cache = Absent THEN SetKey(c) ELSE UNCHANGED key
  /\ spoiled' = ~alone[c]
  /\ UNCHANGED <<store, ver, brief, version, reads, alone>>

Fill(c) ==
  /\ pc[c] = "fill" /\ Goto(c, "idle")
  /\ SetKey(c) /\ spoiled' = ~alone[c]
  /\ UNCHANGED <<store, ver, brief, version, reads, alone>>

\* Nothing is left that could be stale, unless somebody is at work.
Invalidate(c) ==
  /\ pc[c] = "del" /\ Goto(c, "idle")
  /\ DropKey /\ spoiled' = (spoiled /\ ~Resting)
  /\ UNCHANGED <<store, ver, brief, version, reads, alone>>

Touch(c) ==
  /\ pc[c] = "expire" /\ Goto(c, "idle")
  /\ mortal' = (cache # Absent)
  /\ UNCHANGED <<cache, store, ver, brief, version, reads, history>>

\* Redis deletes a key whose TTL has run out.
Expire ==
  /\ mortal /\ DropKey /\ spoiled' = (spoiled /\ ~Resting)
  /\ UNCHANGED <<store, pc, ver, brief, version, reads, alone>>

Next ==
  \/ \E c \in Writers : BeginWrite(c) \/ Write(c) \/ Persist(c)
  \/ \E c \in Readers :
       \/ BeginRead(c) \/ Exists(c) \/ Get(c) \/ Keys(c)
       \/ Fetch(c) \/ Fill(c) \/ Invalidate(c) \/ Touch(c)
  \/ Expire

Spec == Init /\ [][Next]_vars

-----------------------------------------------------------------------------
\* However often calls have overlapped and persists have thrown: the next write
\* or fill that nothing disturbs, and the next invalidation or expiry while no
\* such work is going on, leave nothing under the key but what the store holds,
\* and it stays so until the next disturbance.
PutRight == Resting /\ ~spoiled => cache \in {Absent, store}

=============================================================================
