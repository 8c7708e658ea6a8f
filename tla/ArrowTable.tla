------------------------------ MODULE ArrowTable ----------------------------
(***************************************************************************)
(* RedisArrow/Table.lean: the batches of a table, the manifest that lists  *)
(* them by time, and the pointer to the latest batch.  Ids and times are   *)
(* read from the monotonic clock of the client's machine, which starts     *)
(* anywhere and starts again when the machine does, so that the clocks of  *)
(* two clients, or of one before and after a restart, have no order.  That *)
(* two machines read the same nanosecond, ids of different length, callers *)
(* that choose ids themselves and the reads are left out.                  *)
(***************************************************************************)
EXTENDS StoreCalls

CONSTANTS MaxBatches, MaxTime, KeepCounts

ASSUME ArrowAssumption ==
  MaxBatches \in Nat /\ MaxTime \in Nat \ {0} /\ KeepCounts \subseteq Nat

VARIABLES
  schema,   \* arrow:schema:<table> exists
  stored,   \* ids with a key arrow:batch:<table>:<id>
  score,    \* arrow:manifest:<table>: the score of each id, 0 for none
  head,     \* arrow:head:<table>, 0 for none
  clock,    \* the last id and the last time read by each client
  made,     \* ids generated
  removed   \* ids that deleteBatch was called for

table == <<schema, stored, score, head, clock, made, removed>>

Ids == 1..MaxBatches
Times == 1..MaxTime
Booted == [id |-> 0, ms |-> 1]
Listing == {i \in Ids : score[i] > 0}
\* ZRANGE sorts by score, then by id.
After(i, j) == score[i] > score[j] \/ (score[i] = score[j] /\ i > j)
Newer(i) == {j \in Listing : After(j, i)}

AInit ==
  /\ schema = FALSE /\ stored = {} /\ score = [i \in Ids |-> 0] /\ head = 0
  /\ clock = [c \in Clients |-> Booted] /\ made = {} /\ removed = {}

\* storeSchema, called once when the table is created.
StoreSchema ==
  /\ ~schema /\ Instant
  /\ schema' = TRUE
  /\ UNCHANGED <<stored, score, head, clock, made, removed>>

\* storeBatch: an id from IO.monoNanosNow, SET of the batch ...
StoreBatch(c) ==
  \E id \in Ids \ made :
    /\ id > clock[c].id
    /\ Begin(c, "storeBatch", "setBatch", {"table"}, id, {"storeBatch", "deleteTable"})
    /\ made' = made \cup {id} /\ clock' = [clock EXCEPT ![c].id = id]
    /\ UNCHANGED <<schema, stored, score, head, removed>>

\* Mutant: the batch is listed at a time that has not come.
PutBatchAhead(c) ==
  /\ At(c, "setBatch")
  /\ stored' = stored \cup {call[c].arg}
  /\ Goto(c, "zaddBatch", MaxTime + 1)
  /\ UNCHANGED <<schema, score, head, clock, made, removed>>

\* ... IO.monoMsNow is read after it ...
PutBatch(c) ==
  /\ At(c, "setBatch")
  /\ stored' = stored \cup {call[c].arg}
  /\ \E ms \in clock[c].ms..MaxTime :
       clock' = [clock EXCEPT ![c].ms = ms] /\ Goto(c, "zaddBatch", ms)
  /\ UNCHANGED <<schema, score, head, made, removed>>

\* ... ZADD to the manifest ...
ListBatch(c) ==
  /\ At(c, "zaddBatch")
  /\ score' = [score EXCEPT ![call[c].arg] = call[c].todo]
  /\ Goto(c, "setHead", {})
  /\ UNCHANGED <<schema, stored, head, clock, made, removed>>

\* ... and SET of the pointer.
MoveHead(c) ==
  /\ At(c, "setHead") /\ Return(c)
  /\ head' = call[c].arg
  /\ UNCHANGED <<schema, stored, score, clock, made, removed>>

\* deleteBatch: DEL of the batch, and nothing else.
DeleteBatch(i) ==
  /\ i \in stored /\ Instant
  /\ stored' = stored \ {i} /\ removed' = removed \cup {i}
  /\ UNCHANGED <<schema, score, head, clock, made>>

\* deleteTable: ZRANGE, then one DEL of every key that it knows of.
DeleteTable(c) ==
  Begin(c, "deleteTable", "zrangeAll", {"table"}, {}, {"storeBatch"}) /\ UNCHANGED table

ReadManifest(c) ==
  /\ At(c, "zrangeAll") /\ Goto(c, "delTable", Listing)
  /\ UNCHANGED table

DropTable(c) ==
  /\ At(c, "delTable") /\ Return(c)
  /\ schema' = FALSE /\ stored' = stored \ call[c].todo
  /\ score' = [i \in Ids |-> 0] /\ head' = 0
  /\ UNCHANGED <<clock, made, removed>>

\* compactToRecent: ZRANGE; the batches that keep or more others follow ...
CompactToRecent(c, keep) == Begin(c, "compactToRecent", "zrangeOld", {}, keep, {}) /\ UNCHANGED table

\* Mutant: one too many.
FindOldAndOneMore(c) ==
  /\ At(c, "zrangeOld") /\ UNCHANGED table
  /\ LET old == {i \in Listing : Cardinality(Newer(i)) + 1 >= call[c].arg}
     IN IF old = {} THEN Return(c) ELSE Goto(c, "delOld", old)

FindOld(c) ==
  /\ At(c, "zrangeOld") /\ UNCHANGED table
  /\ LET old == {i \in Listing : Cardinality(Newer(i)) >= call[c].arg}
     IN IF old = {} THEN Return(c) ELSE Goto(c, "delOld", old)

\* ... are DELeted one by one, oldest first; the manifest keeps listing them.
DropOld(c) ==
  /\ At(c, "delOld")
  /\ \E i \in call[c].todo :
       /\ stored' = stored \ {i}
       /\ IF call[c].todo = {i} THEN Return(c) ELSE Goto(c, "delOld", call[c].todo \ {i})
  /\ UNCHANGED <<schema, score, head, clock, made, removed>>

\* The machine of a client starts again.
Reboot(c) ==
  /\ At(c, "idle") /\ clock[c] # Booted /\ Instant
  /\ clock' = [clock EXCEPT ![c] = Booted]
  /\ UNCHANGED <<schema, stored, score, head, made, removed>>

ANext ==
  \/ StoreSchema \/ \E i \in Ids : DeleteBatch(i)
  \/ \E c \in Clients :
       \/ Reboot(c) \/ StoreBatch(c) \/ PutBatch(c) \/ ListBatch(c) \/ MoveHead(c)
       \/ DeleteTable(c) \/ ReadManifest(c) \/ DropTable(c)
       \/ (\E keep \in KeepCounts : CompactToRecent(c, keep)) \/ FindOld(c) \/ DropOld(c)

-----------------------------------------------------------------------------
ATypeOK ==
  /\ schema \in BOOLEAN /\ stored \cup removed \cup Listing \subseteq made /\ made \subseteq Ids
  /\ score \in [Ids -> 0..MaxTime] /\ head \in made \cup {0}
  /\ clock \in [Clients -> [id : Ids \cup {0}, ms : Times]]

\* Whatever overlaps, wherever calls are stopped and whatever the clocks show:
\* a batch that the manifest lists can be read, unless it was deleted itself
\* or as many batches as a compaction keeps are listed after it.
RecentReadable ==
  \A i \in Listing \ (stored \cup removed) :
    \E keep \in KeepCounts : Cardinality(Newer(i)) >= keep

=============================================================================
