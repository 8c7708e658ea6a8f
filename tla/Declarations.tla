----------------------------- MODULE Declarations ---------------------------
(***************************************************************************)
(* DeclStorage of RedisLean/Mathlib/Declaration.lean: the record of each   *)
(* declaration, the set of what it depends on, and for each declaration    *)
(* the set of those that depend on it.  The fields of a record are left    *)
(* out, and so are snapshots, which are single SETs and DELs.              *)
(***************************************************************************)
EXTENDS StoreCalls

CONSTANT Names

VARIABLES
  record,   \* the names with a hash {prefix}:decl:<name>
  deps,     \* {prefix}:decl:deps:<name>
  rdeps,    \* {prefix}:decl:rdeps:<name>
  mortal,   \* keys that carry a TTL: <<"record", n>>, <<"deps", n>>
  lapsed,   \* names whose dependencies have expired
  dropped   \* names whose dependents deleteDecl has dropped

declarations == <<record, deps, rdeps, mortal, lapsed, dropped>>
declHistory  == <<lapsed, dropped>>

DInit ==
  /\ record = {} /\ mortal = {} /\ lapsed = {} /\ dropped = {}
  /\ deps = [n \in Names |-> {}] /\ rdeps = [n \in Names |-> {}]

Subject(c) == CHOOSE n \in Names : n \in call[c].on

\* storeDecl: HSET of every field.
StoreDecl(c, n, D) == Begin(c, "storeDecl", "hset", {n}, D, {"deleteDecl"}) /\ UNCHANGED declarations

EndStore(c) == IF Expiring THEN Goto(c, "expireRecord", {}) ELSE Return(c)

PutRecord(c) ==
  /\ At(c, "hset")
  /\ record' = record \cup {Subject(c)}
  /\ IF call[c].arg = {} THEN EndStore(c) ELSE Goto(c, "addDeps", call[c].arg)
  /\ UNCHANGED <<deps, rdeps, mortal, declHistory>>

\* SADD of each dependency ...
AddDep(c) ==
  /\ At(c, "addDeps")
  /\ \E d \in call[c].todo :
       /\ deps' = [deps EXCEPT ![Subject(c)] = @ \cup {d}]
       /\ IF call[c].todo = {d} THEN Goto(c, "addRdeps", call[c].arg)
          ELSE Goto(c, "addDeps", call[c].todo \ {d})
  /\ UNCHANGED <<record, rdeps, mortal, declHistory>>

\* ... and then of the name to the dependents of each.
AddRdep(c) ==
  /\ At(c, "addRdeps")
  /\ \E d \in call[c].todo :
       /\ rdeps' = [rdeps EXCEPT ![d] = @ \cup {Subject(c)}]
       /\ IF call[c].todo = {d} THEN EndStore(c)
          ELSE Goto(c, "addRdeps", call[c].todo \ {d})
  /\ UNCHANGED <<record, deps, mortal, declHistory>>

\* EXPIRE of the record and of the dependencies, if there are any; the
\* dependents never expire.
ExpireDecl(c) ==
  /\ \/ /\ At(c, "expireRecord") /\ Goto(c, "expireDeps", {})
        /\ mortal' = mortal \cup ({"record"} \X (record \cap {Subject(c)}))
     \/ /\ At(c, "expireDeps") /\ Return(c)
        /\ mortal' = mortal \cup {<<"deps", n>> : n \in {n \in {Subject(c)} : deps[n] # {}}}
  /\ UNCHANGED <<record, deps, rdeps, declHistory>>

\* deleteDecl: SMEMBERS.
DeleteDecl(c, n) == Begin(c, "deleteDecl", "smembers", {n}, {}, {"storeDecl"}) /\ UNCHANGED declarations

\* Mutant: the dependents of the dependencies keep the name.
KeepRdeps(c) ==
  /\ At(c, "smembers") /\ Goto(c, "del", {})
  /\ UNCHANGED declarations

ReadDeps(c) ==
  /\ At(c, "smembers")
  /\ LET D == deps[Subject(c)] IN Goto(c, IF D = {} THEN "del" ELSE "remRdeps", D)
  /\ UNCHANGED declarations

\* SREM of the name from the dependents of each dependency.
RemoveRdep(c) ==
  /\ At(c, "remRdeps")
  /\ \E d \in call[c].todo :
       /\ rdeps' = [rdeps EXCEPT ![d] = @ \ {Subject(c)}]
       /\ Goto(c, IF call[c].todo = {d} THEN "del" ELSE "remRdeps", call[c].todo \ {d})
  /\ UNCHANGED <<record, deps, mortal, declHistory>>

\* One DEL of the record, its dependencies and its dependents.
DropKeys(c) ==
  /\ At(c, "del") /\ Return(c)
  /\ LET n == Subject(c)
     IN /\ record' = record \ {n}
        /\ deps' = [deps EXCEPT ![n] = {}] /\ rdeps' = [rdeps EXCEPT ![n] = {}]
        /\ mortal' = mortal \ {<<"record", n>>, <<"deps", n>>}
        /\ dropped' = dropped \cup {n}
  /\ UNCHANGED lapsed

\* A TTL runs out.
LapseDecl ==
  /\ Instant
  /\ \E key \in mortal :
       /\ mortal' = mortal \ {key}
       /\ IF key[1] = "record"
            THEN record' = record \ {key[2]} /\ UNCHANGED <<deps, lapsed>>
            ELSE /\ deps' = [deps EXCEPT ![key[2]] = {}] /\ lapsed' = lapsed \cup {key[2]}
                 /\ UNCHANGED record
  /\ UNCHANGED <<rdeps, dropped>>

DNext ==
  \/ \E c \in Clients, n \in Names : DeleteDecl(c, n) \/ \E D \in SUBSET Names : StoreDecl(c, n, D)
  \/ \E c \in Clients : PutRecord(c) \/ AddDep(c) \/ AddRdep(c) \/ ExpireDecl(c)
                          \/ ReadDeps(c) \/ RemoveRdep(c) \/ DropKeys(c)
  \/ LapseDecl

-----------------------------------------------------------------------------
DTypeOK ==
  /\ record \subseteq Names /\ lapsed \subseteq Names /\ dropped \subseteq Names
  /\ deps \in [Names -> SUBSET Names] /\ rdeps \in [Names -> SUBSET Names]
  /\ mortal \subseteq {"record", "deps"} \X Names

\* The two directions of the dependency graph agree.  Whoever getDependents
\* names does depend on the declaration, at every moment and whatever call was
\* stopped half-way, unless it was stored and deleted at once or its
\* dependencies expired.  Whatever getDependencies names knows the dependent,
\* once no call on it is in progress, unless one was stopped, or the
\* dependency was deleted: deleteDecl drops the dependents with it.
EdgesAgree ==
  \A n, d \in Names :
    /\ n \in rdeps[d] /\ n \notin raced \cup lapsed => d \in deps[n]
    /\ d \in deps[n] /\ Quiet(n) /\ Clean(n) /\ d \notin dropped => n \in rdeps[d]
=============================================================================
