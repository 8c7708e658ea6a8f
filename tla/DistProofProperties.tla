------------------------ MODULE DistProofProperties -------------------------
(***************************************************************************)
(* What DistProof promises, what it implements, and the invariants that    *)
(* the proofs of DistProofProofs rest on.                                  *)
(***************************************************************************)
EXTENDS DistProof


Labels == {"idle", "done", "module", "enqueue", "addDep", "setPending",
           "setInProgress", "setCompleted", "setFailed",
           "scan", "checkDeps", "setnx", "getLock", "expire", "loadClaim",
           "storeClaim", "loadSelf", "storeSelf", "decPending", "incProgress",
           "working", "storeProgress",
           "loadComplete", "storeComplete", "unlock", "decProgress", "count",
           "addComplete", "dequeue", "loadRelease", "storeRelease", "rezadd",
           "unlockRelease", "decRelease", "incPending", "loadOwner", "storeOwner",
           "inspect", "requeue"}

\* The types, with labels L: DistWorkers adds labels of its own.
Typed(L) ==
  /\ job \in [Jobs -> JobRecord]
  /\ queue \subseteq Jobs /\ complete \subseteq Jobs
  /\ deps \in [Jobs -> SUBSET Modules]
  /\ lock \in [Jobs -> Workers \cup {Nobody}]
  /\ ttl \in [Jobs -> BOOLEAN]
  /\ progress \in [Counters -> Int]
  /\ claimedJobs \in [Workers -> SUBSET Jobs]
  /\ pc \in [Clients -> L]
  /\ cj \in [Clients -> Jobs]
  /\ cand \in [Clients -> SUBSET Jobs]
  /\ left \in [Clients -> SUBSET Modules]
  /\ rec \in [Clients -> JobRecord]
  /\ wloc \in [Clients -> SUBSET Jobs]
  /\ ok \in [Clients -> BOOLEAN]
  /\ stale \in [Clients -> SUBSET [id : Jobs, retries : Nat]]
  /\ spent \in Nat /\ dropped \in Nat

TypeOK == Typed(Labels)

\* From a successful SET NX until the DEL of completeJob or releaseJob.
Holding == {"getLock", "expire", "loadClaim", "storeClaim", "loadSelf", "storeSelf",
            "decPending", "incProgress", "working", "storeProgress",
            "loadComplete", "storeComplete", "unlock",
            "loadRelease", "storeRelease", "rezadd", "unlockRelease"}

\* From the claim's SET of the record until the next one that ends the claim.
OnRecord == {"loadSelf", "storeSelf", "decPending", "incProgress", "working",
             "storeProgress", "loadComplete", "storeComplete",
             "loadRelease", "storeRelease"}

\* Two workers never hold the same module: the lock taken with SET NX lets one
\* claimJob through, and only its holder's completeJob or releaseJob deletes it.
\* Holds while no lock expires and no monitor interferes.
MutualExclusion ==
  \A v, w \in Workers :
    v # w /\ pc[v] \in Holding /\ pc[w] \in Holding => cj[v] # cj[w]

\* The record of a module that a worker has claimed names that worker as its
\* claimed or checking owner, through updateProgress and up to the write that
\* ends the claim, and claimedJobs lists the module while it is being checked.
HolderOnRecord ==
  \A w \in Workers :
    /\ pc[w] \in OnRecord => job[cj[w]].st \in Active /\ job[cj[w]].by = w
    /\ pc[w] = "working" => cj[w] \in claimedJobs[w]

\* No lock is left behind: while no call is aborted, whoever set a lock is on
\* the way to the DEL that ends its claim, although several paths of claimJob
\* give up after SET NX, and the lock carries an expiry but for the moments
\* between SET NX and EXPIRE.
LockOwned ==
  \A j \in Jobs : lock[j] # Nobody =>
    /\ pc[lock[j]] \in Holding /\ cj[lock[j]] = j
    /\ ttl[j] \/ pc[lock[j]] \in {"getLock", "expire"}

\* claimJob respects dependencies: a module is recorded as claimed, checking
\* or completed only if all of its dependencies are in the complete set.
DepsRespected ==
  \A j \in Jobs :
    job[j].st \in Active \cup {"completed"} => Deps[j] \subseteq complete

\* The complete set is closed under dependencies: no module is published as
\* checked before the modules it imports.
CompleteClosed == \A j \in complete : Deps[j] \subseteq complete

\* The four counters add up to the number of modules, but for the calls that
\* are between a decrement and its increment, now or when they were aborted.
InGap == {c \in Clients : pc[c] \in Gap}
CountersConserved ==
  pc[Coord] = "done" =>
    progress["pending"] + progress["inProgress"] + progress["completed"]
      + progress["failed"] + Cardinality(InGap) + dropped = Cardinality(Jobs)

\* completeJob counts a completion before it publishes it, so the completed
\* counter never falls behind the complete set.
CompletedCounted ==
  pc[Coord] = "done" =>
    progress["completed"] >= Cardinality(complete \cup
      {cj[c] : c \in {d \in Clients : pc[d] = "addComplete"}})

\* completeJob and releaseJob by the lock's holder, and nothing else, hand a
\* module on: the code implements the lease that JobLease specifies.
Publishing == {w \in Workers : ok[w] /\ pc[w] \in {"decProgress", "count", "addComplete"}}
Lease == INSTANCE JobLease WITH
           holder <- lock,
           passed <- {<<w, cj[w]>> : w \in Publishing},
           done <- complete
LeaseSpec == Lease!Spec

\* Every module ends up checked, failed, or behind a dependency that is not
\* checked: no claim that loses a race and no report of progress keeps a
\* module from being settled for good.
Settled ==
  <>[](\A j \in Jobs : \/ j \in complete
                       \/ job[j].st = "failed"
                       \/ ~(Deps[j] \subseteq complete))

-----------------------------------------------------------------------------
(* The inductive invariants behind the theorems of DistProofProofs.        *)

\* No monitor requeues jobs and no lock expires.
Undisturbed == Monitors = {} /\ ~LockExpiry

\* The lock key of a held module carries the holder's name.
LockHeld == \A w \in Workers : pc[w] \in Holding => lock[cj[w]] = w

\* A client that has yet to take the module off its owner's record.
Leaving == {"unlock", "decProgress", "count", "addComplete", "dequeue", "rezadd",
            "unlockRelease", "decRelease", "incPending", "loadOwner", "storeOwner"}

\* What a holder read of the job record is still what the record says, and a
\* worker only ever writes its own worker record.
OwnRecord ==
  \A w \in Workers :
    /\ pc[w] \in OnRecord => job[cj[w]].st \in Active /\ job[cj[w]].by = w
    /\ pc[w] \in {"storeProgress", "storeComplete", "storeRelease"} => rec[w] = job[cj[w]]
    /\ pc[w] \in {"decPending", "incProgress", "working", "storeProgress"}
         => cj[w] \in claimedJobs[w]
    /\ pc[w] \in Leaving => Owner(rec[w]) = w

\* initializeJobs has stored part of the dependencies, and the rest is ahead.
Storing == {"enqueue", "addDep"}
DepsStored ==
  /\ \A j \in Jobs : deps[j] \subseteq Deps[j]
  /\ pc[Coord] \in Storing => deps[cj[Coord]] \cup left[Coord] = Deps[cj[Coord]]
  /\ \A j \in Jobs : \/ j \in cand[Coord]
                     \/ deps[j] = Deps[j]
                     \/ j = cj[Coord] /\ pc[Coord] \in Storing
  /\ pc[Coord] \notin Storing \cup {"module"} => cand[Coord] = {}

\* Until initializeJobs returns no worker claims.
WorkersWait == pc[Coord] # "done" => \A w \in Workers : pc[w] = "idle"

\* A worker past its dependency check, up to the SADD to the complete set.
Ready == Holding \cup {"setnx", "decProgress", "count", "addComplete"}
DepsChecked ==
  /\ \A w \in Workers :
       /\ pc[w] = "checkDeps" => Deps[cj[w]] \ left[w] \subseteq complete
       /\ pc[w] \in Ready => Deps[cj[w]] \subseteq complete
  /\ \A m \in Monitors : ~ok[m] /\ pc[m] # "addComplete"

\* Until initializeJobs returns nothing is claimed or published, and it alone
\* sets the counters.  (L is the set of labels; only DistWorkers has "list".)
Initializing == {"module", "enqueue", "addDep", "setPending", "setInProgress",
                 "setCompleted", "setFailed"}
Resting == {"idle", "inspect", "requeue", "list"}
CountersStart(L) ==
  /\ pc[Coord] \in Initializing \cup {"done"}
  /\ pc[Coord] # "done" =>
       /\ \A c \in Workers \cup Monitors :
            pc[c] \in L \cap Resting /\ stale[c] = {}
       /\ \A j \in Jobs : job[j].st \notin Active
       /\ complete = {} /\ dropped = 0
       /\ \A f \in {"inProgress", "completed", "failed"} : progress[f] = 0
  /\ pc[Coord] \in {"setInProgress", "setCompleted", "setFailed"}
       => progress["pending"] = Cardinality(Jobs)

-----------------------------------------------------------------------------
(* What comments and examples say, and the code does not do.               *)

\* "Re-add to jobs queue": a module that has been released, and that no call
\* is working on, is in the queue.
ReleasedIsQueued ==
  \A j \in Jobs :
    job[j].st = "pending" /\ pc[Coord] = "done"
      /\ (\A c \in Workers \cup Monitors : pc[c] = "idle" \/ cj[c] # j) => j \in queue
=============================================================================
