----------------------------- MODULE TheoremIndex ---------------------------
(***************************************************************************)
(* TheoremSearch of RedisLean/Mathlib/TheoremSearch.lean: the record of    *)
(* each theorem and the sets that find it, by conclusion, hypotheses, tags *)
(* and module, and the set of all.  Searches change nothing; scores are    *)
(* left out.                                                               *)
(***************************************************************************)
EXTENDS StoreCalls

CONSTANTS Theorems,
          Infos  \* concl and hyps are patterns; hyps and tags are sequences

VARIABLES
  info,     \* {prefix}:thm:name:<name>, or NoInfo
  entries,  \* <<key, theorem>> for every member of every index set
  versions  \* the infos each theorem has been indexed with

index == <<info, entries, versions>>

NoInfo == [concl |-> <<>>, hyps |-> <<>>, tags |-> <<>>, module |-> "none"]

\* A record is not the absence of one, and lists its hypotheses and tags.
ASSUME IndexAssumption ==
  /\ NoInfo \notin Infos
  /\ \A i \in Infos : /\ i.hyps \in Seq({i.hyps[k] : k \in DOMAIN i.hyps})
                      /\ i.tags \in Seq({i.tags[k] : k \in DOMAIN i.tags})

TInit ==
  /\ info = [t \in Theorems |-> NoInfo] /\ entries = {}
  /\ versions = [t \in Theorems |-> {}]

Theorem(c) == CHOOSE t \in Theorems : t \in call[c].on

\* The sets that hold a theorem, in the order in which indexTheorem fills them.
AllKey == <<"all", "all">>
Keys(kind, ofs) == [i \in DOMAIN ofs |-> <<kind, ofs[i]>>]
TaggedKeys(i) == Keys("tag", i.tags) \o <<<<"module", i.module>>, AllKey>>
IndexKeys(i) == <<<<"concl", i.concl>>>> \o Keys("hyp", i.hyps) \o TaggedKeys(i)

\* A pattern comes back from its record as a constant named by its text, which
\* hashes to another key.
Decoded(pattern) == <<"C">> \o pattern
RemovalKeys(i) ==
  <<<<"concl", Decoded(i.concl)>>>>
    \o Keys("hyp", [k \in DOMAIN i.hyps |-> Decoded(i.hyps[k])]) \o TaggedKeys(i)

\* indexTheorem: SET of the record ...
IndexTheorem(c, t, i) ==
  /\ Begin(c, "indexTheorem", "set", {t}, i, {"removeTheorem", "clear"})
  /\ versions' = [versions EXCEPT ![t] = @ \cup {i}]
  /\ UNCHANGED <<info, entries>>

SetInfo(c) ==
  /\ At(c, "set") /\ Goto(c, "add", IndexKeys(call[c].arg))
  /\ info' = [info EXCEPT ![Theorem(c)] = call[c].arg]
  /\ UNCHANGED <<entries, versions>>

\* ... then ZADD or SADD to each set.
AddEntry(c) ==
  /\ At(c, "add")
  /\ entries' = entries \cup {<<Head(call[c].todo), Theorem(c)>>}
  /\ IF Len(call[c].todo) = 1 THEN Return(c) ELSE Goto(c, "add", Tail(call[c].todo))
  /\ UNCHANGED <<info, versions>>

\* removeTheorem: EXISTS and GET of the record.
RemoveTheorem(c, t) ==
  Begin(c, "removeTheorem", "exists", {t}, {}, {"indexTheorem"}) /\ UNCHANGED index

FindTheorem(c) ==
  /\ At(c, "exists")
  /\ IF info[Theorem(c)] = NoInfo THEN Return(c) ELSE Goto(c, "getInfo", {})
  /\ UNCHANGED index

\* Mutant: the tags are forgotten.
GetInfoNoTags(c) ==
  /\ At(c, "getInfo")
  /\ LET i == info[Theorem(c)] IN
       IF i = NoInfo THEN Return(c) ELSE Goto(c, "remove", RemovalKeys([i EXCEPT !.tags = <<>>]))
  /\ UNCHANGED index

\* A record that is gone by now throws.
GetInfo(c) ==
  /\ At(c, "getInfo")
  /\ LET i == info[Theorem(c)] IN
       IF i = NoInfo THEN Return(c) ELSE Goto(c, "remove", RemovalKeys(i))
  /\ UNCHANGED index

\* ZREM or SREM from each set.
RemoveEntry(c) ==
  /\ At(c, "remove")
  /\ entries' = entries \ {<<Head(call[c].todo), Theorem(c)>>}
  /\ IF Len(call[c].todo) = 1 THEN Goto(c, "delInfo", {}) ELSE Goto(c, "remove", Tail(call[c].todo))
  /\ UNCHANGED <<info, versions>>

\* DEL of the record.
DelInfo(c) ==
  /\ At(c, "delInfo") /\ Return(c)
  /\ info' = [info EXCEPT ![Theorem(c)] = NoInfo]
  /\ UNCHANGED <<entries, versions>>

\* clear: KEYS, then one DEL of what there was.
Clear(c) == Begin(c, "clear", "keys", Theorems, {}, {"indexTheorem"}) /\ UNCHANGED index

ListKeys(c) ==
  /\ At(c, "keys")
  /\ LET found == {<<"name", t>> : t \in {t \in Theorems : info[t] # NoInfo}} \cup {e[1] : e \in entries}
     IN IF found = {} THEN Return(c) ELSE Goto(c, "delKeys", found)
  /\ UNCHANGED index

DelKeys(c) ==
  /\ At(c, "delKeys") /\ Return(c)
  /\ info' = [t \in Theorems |-> IF <<"name", t>> \in call[c].todo THEN NoInfo ELSE info[t]]
  /\ entries' = {e \in entries : e[1] \notin call[c].todo}
  /\ UNCHANGED versions

TNext ==
  \/ \E c \in Clients, t \in Theorems : RemoveTheorem(c, t) \/ \E i \in Infos : IndexTheorem(c, t, i)
  \/ \E c \in Clients : Clear(c) \/ SetInfo(c) \/ AddEntry(c) \/ FindTheorem(c) \/ GetInfo(c)
                          \/ RemoveEntry(c) \/ DelInfo(c) \/ ListKeys(c) \/ DelKeys(c)

-----------------------------------------------------------------------------
TTypeOK ==
  /\ info \in [Theorems -> Infos \cup {NoInfo}]
  /\ \A e \in entries : e[2] \in Theorems
  /\ versions \in [Theorems -> SUBSET Infos]

\* Records and index sets agree.  Every theorem of the set of all has a record,
\* at every moment, also when calls are stopped half-way: the record is written
\* first and deleted last.  A theorem with a record and no call in progress is
\* found by each of its keys.  One without a record is left in the sets of its
\* conclusion and hypotheses at most (removal looks for them under the hash of
\* what it decodes), or in those of an earlier version.
IndexAgrees ==
  \A t \in Theorems :
    /\ <<AllKey, t>> \in entries => info[t] # NoInfo \/ t \in raced
    /\ Quiet(t) /\ Clean(t) =>
         IF info[t] # NoInfo
           THEN \A k \in DOMAIN IndexKeys(info[t]) : <<IndexKeys(info[t])[k], t>> \in entries
           ELSE \A e \in entries :
                  e[2] = t => e[1][1] \in {"concl", "hyp"} \/ Cardinality(versions[t]) > 1
=============================================================================
