----------------------------- MODULE IndexProofs ----------------------------
(***************************************************************************)
(* Proofs about records and the sets that list them: the index of          *)
(* theorems and the proof sessions, for every set of clients, theorems,    *)
(* records, sessions and steps, whichever calls overlap, wherever they are *)
(* stopped and whichever keys expire.                                      *)
(***************************************************************************)
EXTENDS Stores, SequenceTheorems, FiniteSetTheorems, TLAPS

-----------------------------------------------------------------------------
(* The index of theorems.                                                  *)

Indexing == {"set", "add"}
Removals == {"exists", "getInfo", "remove", "delInfo"}
Clearing == {"keys", "delKeys"}
TLabels == {"idle"} \cup Indexing \cup Removals \cup Clearing
TOps == {"none", "indexTheorem", "removeTheorem", "clear"}

\* The keys that index sets can have, and those that clear can find.
Kinds == {"concl", "hyp", "tag", "module", "all"}
Values ==
  {"all"} \cup UNION {{i.concl, Decoded(i.concl), i.module} \cup {i.tags[k] : k \in DOMAIN i.tags}
                      \cup UNION {{i.hyps[k], Decoded(i.hyps[k])} : k \in DOMAIN i.hyps} : i \in Infos}
IndexKey == Kinds \X Values
Found == IndexKey \cup {<<"name", t>> : t \in Theorems}
Todos == Seq(IndexKey) \cup SUBSET Found
TCall == [op : TOps, at : TLabels, on : SUBSET Theorems, arg : Infos \cup {{}}, todo : Todos]

\* Keys to work through, the set of all last.
KeySeq(s) == s \in Seq(IndexKey) /\ s # <<>> /\ s[Len(s)] = AllKey
IsKeyOf(key, i) == \E m \in DOMAIN IndexKeys(i) : IndexKeys(i)[m] = key

\* What a call looks like.
Built(k) ==
  /\ k.at = "idle" => k.op = "none" /\ k.on = {}
  /\ k.at \in Indexing \cup Removals => \E t \in Theorems : k.on = {t}
  /\ k.at \in Clearing => k.op = "clear" /\ k.on = Theorems
  /\ k.at \in Indexing => k.op = "indexTheorem" /\ k.arg \in Infos
  /\ k.at \in Removals => k.op = "removeTheorem"
  /\ k.at \in {"add", "remove"} => KeySeq(k.todo)
  /\ k.at = "add" => \A j \in DOMAIN k.todo : IsKeyOf(k.todo[j], k.arg)
  /\ k.at = "delKeys" => k.todo \in SUBSET Found
TCalls == call \in [Clients -> TCall] /\ \A c \in Clients : Built(call[c])

TBase ==
  /\ TTypeOK /\ TCalls
  /\ entries \subseteq IndexKey \X Theorems
  /\ \A t \in Theorems : IsFiniteSet(versions[t])

\* An index call and a removal of the same theorem have noticed each other.
Noticed(t) ==
  t \notin raced =>
    \A c, e \in Clients :
      t \in call[c].on \cap call[e].on /\ call[c].at \in Indexing => call[e].at \in Indexing

\* The set of all holds no theorem without a record.
Caught(k, t) ==
  /\ \A key \in IndexKey : <<key, t>> \in entries => key \in k.todo
  /\ info[t] # NoInfo => <<"name", t>> \in k.todo
Recorded(t) ==
  t \notin raced =>
    /\ <<AllKey, t>> \in entries => info[t] # NoInfo
    /\ \A c \in Clients : t \in call[c].on =>
         /\ call[c].at = "add" => info[t] # NoInfo
         /\ call[c].at = "delInfo" => <<AllKey, t>> \notin entries
         /\ call[c].at = "delKeys" => Caught(call[c], t)

\* Whatever is indexed was indexed with a version that is known.
Sourced(t) ==
  /\ info[t] # NoInfo => info[t] \in versions[t]
  /\ \A key \in IndexKey : <<key, t>> \in entries => \E i \in versions[t] : IsKeyOf(key, i)
  /\ \A c \in Clients : t \in call[c].on /\ call[c].at \in Indexing => call[c].arg \in versions[t]

\* A theorem with a record is found by each of its keys, or will be, or is
\* being removed.
InSets(i, t) == \A m \in DOMAIN IndexKeys(i) : <<IndexKeys(i)[m], t>> \in entries
Adds(k, t) ==
  \A m \in DOMAIN IndexKeys(k.arg) :
    <<IndexKeys(k.arg)[m], t>> \in entries \/ \E j \in DOMAIN k.todo : k.todo[j] = IndexKeys(k.arg)[m]
Complete(t) ==
  Clean(t) =>
    /\ \A c \in Clients : t \in call[c].on /\ call[c].at = "add" => Adds(call[c], t)
    /\ info[t] # NoInfo =>
         \/ InSets(info[t], t)
         \/ \E c \in Clients : t \in call[c].on /\ call[c].at = "add" /\ call[c].arg = info[t]
         \/ \E c \in Clients : t \in call[c].on /\ call[c].at \in {"remove", "delInfo", "delKeys"}

\* One without a record is left where removal cannot find it at most.
OneVersion(t) == \A i, j \in versions[t] : i = j
Lasting(key) == key[1] \in {"concl", "hyp"}
Bare(t) == \A key \in IndexKey : <<key, t>> \in entries => Lasting(key)
Erases(k, t) ==
  \A key \in IndexKey : <<key, t>> \in entries => Lasting(key) \/ \E j \in DOMAIN k.todo : k.todo[j] = key
Erased(t) ==
  Clean(t) /\ OneVersion(t) =>
    /\ info[t] = NoInfo => Bare(t)
    /\ \A c \in Clients : t \in call[c].on =>
         /\ call[c].at = "remove" => Erases(call[c], t)
         /\ call[c].at = "delInfo" => Bare(t)

Agreed(t) == Noticed(t) /\ Recorded(t) /\ Sourced(t) /\ Complete(t) /\ Erased(t)
TInv == TBase /\ \A t \in Theorems : Agreed(t)

-----------------------------------------------------------------------------
(* The sequences of keys that a call works through.                        *)

LEMMA Concatenated ==
  ASSUME NEW s \in Seq(IndexKey), NEW t \in Seq(IndexKey)
  PROVE  /\ s \o t \in Seq(IndexKey) /\ Len(s \o t) = Len(s) + Len(t)
         /\ \A m \in 1..Len(s) : (s \o t)[m] = s[m]
         /\ \A m \in 1..Len(t) : (s \o t)[Len(s) + m] = t[m]
<1>1. s \o t \in Seq(IndexKey) /\ \A m \in 1..Len(s) : (s \o t)[m] = s[m]
  OBVIOUS
<1>2. Len(s \o t) = Len(s) + Len(t)
  BY ConcatProperties
<1>3. ASSUME NEW m \in 1..Len(t) PROVE (s \o t)[Len(s) + m] = t[m]
  OBVIOUS
<1> QED BY <1>1, <1>2, <1>3

LEMMA KeysAre ==
  ASSUME NEW kind \in Kinds, NEW ofs \in Seq(Values)
  PROVE  /\ Keys(kind, ofs) \in Seq(IndexKey)
         /\ \A k \in DOMAIN Keys(kind, ofs) : Keys(kind, ofs)[k][1] = kind
<1>1. DOMAIN ofs = 1..Len(ofs) /\ Len(ofs) \in Nat /\ \A k \in 1..Len(ofs) : ofs[k] \in Values
  OBVIOUS
<1>2. Keys(kind, ofs) \in [1..Len(ofs) -> IndexKey]
  BY <1>1 DEF Keys, IndexKey
<1>3. Keys(kind, ofs) \in Seq(IndexKey)
  BY <1>1, <1>2, SeqDef
<1> QED BY <1>1, <1>3 DEF Keys

LEMMA ValuesAre ==
  ASSUME NEW i \in Infos
  PROVE  /\ i.concl \in Values /\ Decoded(i.concl) \in Values /\ i.module \in Values
         /\ i.hyps \in Seq(Values) /\ i.tags \in Seq(Values)
         /\ [k \in DOMAIN i.hyps |-> Decoded(i.hyps[k])] \in Seq(Values)
<1> DEFINE H == {i.hyps[k] : k \in DOMAIN i.hyps}  T == {i.tags[k] : k \in DOMAIN i.tags}
<1>1. i.hyps \in Seq(H) /\ i.tags \in Seq(T)
  BY IndexAssumption
<1>2. H \subseteq Values /\ T \subseteq Values /\ \A k \in DOMAIN i.hyps : Decoded(i.hyps[k]) \in Values
  BY DEF Values
<1>3. i.concl \in Values /\ Decoded(i.concl) \in Values /\ i.module \in Values
  BY DEF Values
<1> HIDE DEF H, T
<1>4. i.hyps \in Seq(Values) /\ i.tags \in Seq(Values)
  BY <1>1, <1>2
<1>5. /\ DOMAIN i.hyps = 1..Len(i.hyps) /\ Len(i.hyps) \in Nat
      /\ [k \in DOMAIN i.hyps |-> Decoded(i.hyps[k])] \in [1..Len(i.hyps) -> Values]
  BY <1>1, <1>2
<1>6. [k \in DOMAIN i.hyps |-> Decoded(i.hyps[k])] \in Seq(Values)
  BY <1>5, SeqDef
<1> QED BY <1>3, <1>4, <1>6

LEMMA TaggedKeysAre ==
  ASSUME NEW i \in Infos
  PROVE  /\ TaggedKeys(i) \in Seq(IndexKey) /\ Len(TaggedKeys(i)) > 0
         /\ TaggedKeys(i)[Len(TaggedKeys(i))] = AllKey
<1> DEFINE tags == Keys("tag", i.tags)  tail == <<<<"module", i.module>>, AllKey>>
<1>1. tags \in Seq(IndexKey)
  BY KeysAre, ValuesAre DEF Kinds
<1>2. tail \in Seq(IndexKey) /\ Len(tail) = 2 /\ tail[2] = AllKey
  <2>1. <<"module", i.module>> \in IndexKey /\ AllKey \in IndexKey
    BY ValuesAre DEF IndexKey, Kinds, AllKey, Values
  <2> QED BY <2>1
<1>3. TaggedKeys(i) = tags \o tail
  BY DEF TaggedKeys
<1> HIDE DEF tags, tail
<1>4. /\ tags \o tail \in Seq(IndexKey) /\ Len(tags \o tail) = Len(tags) + Len(tail)
      /\ \A m \in 1..Len(tail) : (tags \o tail)[Len(tags) + m] = tail[m]
  BY <1>1, <1>2, Concatenated, Zenon
<1>5. Len(tags) \in Nat /\ 2 \in 1..Len(tail)
  BY <1>1, <1>2
<1>6. (tags \o tail)[Len(tags) + 2] = AllKey /\ Len(tags \o tail) = Len(tags) + 2
  BY <1>2, <1>4, <1>5
<1> QED BY <1>3, <1>4, <1>5, <1>6

\* The keys of a conclusion and of hypotheses, then those of tags and module.
KeyList(i, p, ofs) == <<<<"concl", p>>>> \o Keys("hyp", ofs) \o TaggedKeys(i)

LEMMA KeyListIs ==
  ASSUME NEW i \in Infos, NEW p \in Values, NEW ofs \in Seq(Values)
  PROVE  /\ KeySeq(KeyList(i, p, ofs))
         /\ \A m \in DOMAIN KeyList(i, p, ofs) :
              \/ Lasting(KeyList(i, p, ofs)[m])
              \/ \E j \in DOMAIN TaggedKeys(i) : KeyList(i, p, ofs)[m] = TaggedKeys(i)[j]
         /\ \A j \in DOMAIN TaggedKeys(i) :
              \E m \in DOMAIN KeyList(i, p, ofs) : KeyList(i, p, ofs)[m] = TaggedKeys(i)[j]
<1> DEFINE first == <<<<"concl", p>>>>  hyps == Keys("hyp", ofs)  tagged == TaggedKeys(i)
           front == first \o hyps  s == KeyList(i, p, ofs)
<1>1. /\ first \in Seq(IndexKey) /\ Len(first) = 1
      /\ \A m \in 1..Len(first) : Lasting(first[m])
  BY DEF IndexKey, Kinds, Lasting
<1>2. hyps \in Seq(IndexKey) /\ \A m \in 1..Len(hyps) : Lasting(hyps[m])
  BY KeysAre DEF Kinds, Lasting
<1>3. tagged \in Seq(IndexKey) /\ Len(tagged) \in Nat \ {0} /\ tagged[Len(tagged)] = AllKey
  BY TaggedKeysAre
<1>4. s = front \o tagged
  BY DEF KeyList
<1> HIDE DEF first, hyps, tagged, s
<1>5. /\ front \in Seq(IndexKey) /\ Len(front) = Len(first) + Len(hyps)
      /\ \A m \in 1..Len(first) : front[m] = first[m]
      /\ \A m \in 1..Len(hyps) : front[Len(first) + m] = hyps[m]
  BY <1>1, <1>2, Concatenated
<1> HIDE DEF front
<1>6. /\ s \in Seq(IndexKey) /\ Len(s) = Len(front) + Len(tagged)
      /\ \A m \in 1..Len(front) : s[m] = front[m]
      /\ \A m \in 1..Len(tagged) : s[Len(front) + m] = tagged[m]
  BY <1>3, <1>4, <1>5, Concatenated
<1>7. Len(first) \in Nat /\ Len(hyps) \in Nat /\ Len(front) \in Nat /\ Len(tagged) \in Nat
  BY <1>1, <1>2, <1>3, <1>5
<1>8. ASSUME NEW m \in 1..Len(front) PROVE Lasting(front[m])
  <2>1. CASE m \in 1..Len(first)
    BY <1>1, <1>5, <2>1
  <2>2. CASE m \notin 1..Len(first)
    <3>1. PICK j \in 1..Len(hyps) : m = Len(first) + j
      <4>1. m - Len(first) \in 1..Len(hyps) /\ m = Len(first) + (m - Len(first))
        BY <1>5, <1>7, <2>2
      <4> QED BY <4>1
    <3> QED BY <1>2, <1>5, <3>1
  <2> QED BY <2>1, <2>2
<1>9. s # <<>> /\ s[Len(s)] = AllKey
  <2>1. Len(tagged) \in 1..Len(tagged) /\ Len(s) > 0
    BY <1>3, <1>6, <1>7
  <2>2. s[Len(s)] = tagged[Len(tagged)]
    BY <1>6, <2>1
  <2> QED BY <1>3, <2>1, <2>2
<1>10. ASSUME NEW m \in 1..Len(s) PROVE Lasting(s[m]) \/ \E j \in 1..Len(tagged) : s[m] = tagged[j]
  <2>1. CASE m \in 1..Len(front)
    BY <1>6, <1>8, <2>1
  <2>2. CASE m \notin 1..Len(front)
    <3>1. PICK j \in 1..Len(tagged) : m = Len(front) + j
      <4>1. m - Len(front) \in 1..Len(tagged) /\ m = Len(front) + (m - Len(front))
        BY <1>6, <1>7, <2>2
      <4> QED BY <4>1
    <3> QED BY <1>6, <3>1
  <2> QED BY <2>1, <2>2
<1>11. ASSUME NEW j \in 1..Len(tagged) PROVE \E m \in 1..Len(s) : s[m] = tagged[j]
  <2>1. Len(front) + j \in 1..Len(s)
    BY <1>6, <1>7
  <2> QED BY <1>6, <2>1
<1>12. DOMAIN s = 1..Len(s) /\ DOMAIN tagged = 1..Len(tagged)
  BY <1>3, <1>6
<1>13. /\ \A m \in DOMAIN s : Lasting(s[m]) \/ \E j \in DOMAIN tagged : s[m] = tagged[j]
       /\ \A j \in DOMAIN tagged : \E m \in DOMAIN s : s[m] = tagged[j]
  BY <1>10, <1>11, <1>12
<1> QED BY <1>6, <1>9, <1>13 DEF s, tagged, KeySeq

\* The sets that hold a theorem are those of a record, and removal looks into
\* all of them but those of the conclusion and the hypotheses.
LEMMA IndexKeysAre ==
  ASSUME NEW i \in Infos
  PROVE  KeySeq(IndexKeys(i))
<1>1. IndexKeys(i) = KeyList(i, i.concl, i.hyps)
  BY DEF IndexKeys, KeyList
<1>2. i.concl \in Values /\ i.hyps \in Seq(Values)
  BY ValuesAre
<1> QED BY <1>1, <1>2, KeyListIs, Zenon

LEMMA RemovalKeysAre ==
  ASSUME NEW i \in Infos
  PROVE  /\ KeySeq(RemovalKeys(i))
         /\ \A key : IsKeyOf(key, i) =>
              Lasting(key) \/ \E j \in DOMAIN RemovalKeys(i) : RemovalKeys(i)[j] = key
<1> DEFINE hyps == [k \in DOMAIN i.hyps |-> Decoded(i.hyps[k])]  concl == Decoded(i.concl)
<1>1. hyps \in Seq(Values) /\ concl \in Values /\ i.hyps \in Seq(Values) /\ i.concl \in Values
  BY ValuesAre
<1>2. RemovalKeys(i) = KeyList(i, concl, hyps) /\ IndexKeys(i) = KeyList(i, i.concl, i.hyps)
  BY DEF RemovalKeys, IndexKeys, KeyList
<1> HIDE DEF hyps, concl
<1>3. /\ KeySeq(RemovalKeys(i))
      /\ \A j \in DOMAIN TaggedKeys(i) :
           \E m \in DOMAIN RemovalKeys(i) : RemovalKeys(i)[m] = TaggedKeys(i)[j]
  BY <1>1, <1>2, KeyListIs
<1>4. \A m \in DOMAIN IndexKeys(i) :
        Lasting(IndexKeys(i)[m]) \/ \E j \in DOMAIN TaggedKeys(i) : IndexKeys(i)[m] = TaggedKeys(i)[j]
  BY <1>1, <1>2, KeyListIs
<1>5. ASSUME NEW key, IsKeyOf(key, i)
      PROVE  Lasting(key) \/ \E j \in DOMAIN RemovalKeys(i) : RemovalKeys(i)[j] = key
  <2>1. PICK m \in DOMAIN IndexKeys(i) : IndexKeys(i)[m] = key
    BY <1>5 DEF IsKeyOf
  <2> QED BY <1>3, <1>4, <2>1
<1> QED BY <1>3, <1>5

\* One key less to work through.
LEMMA TailIs ==
  ASSUME NEW s, KeySeq(s)
  PROVE  /\ Head(s) \in IndexKey
         /\ Len(s) = 1 => Head(s) = AllKey /\ \A j \in DOMAIN s : s[j] = Head(s)
         /\ Len(s) # 1 =>
              /\ KeySeq(Tail(s))
              /\ \A j \in DOMAIN s : s[j] = Head(s) \/ \E m \in DOMAIN Tail(s) : Tail(s)[m] = s[j]
<1>1. Len(s) \in Nat \ {0} /\ DOMAIN s = 1..Len(s) /\ Head(s) = s[1] /\ Head(s) \in IndexKey
      /\ s[Len(s)] = AllKey
  BY DEF KeySeq
<1>2. CASE Len(s) = 1
  BY <1>1, <1>2
<1>3. CASE Len(s) # 1
  <2>1. /\ Tail(s) \in Seq(IndexKey) /\ Len(Tail(s)) = Len(s) - 1 /\ Len(Tail(s)) > 0
        /\ \A m \in 1..Len(Tail(s)) : Tail(s)[m] = s[m + 1]
    BY <1>1, <1>3 DEF KeySeq
  <2>2. KeySeq(Tail(s))
    BY <1>1, <2>1 DEF KeySeq
  <2>3. ASSUME NEW j \in DOMAIN s, s[j] # Head(s) PROVE \E m \in DOMAIN Tail(s) : Tail(s)[m] = s[j]
    <3>1. j - 1 \in 1..Len(Tail(s)) /\ (j - 1) + 1 = j
      BY <1>1, <2>1, <2>3
    <3> QED BY <2>1, <3>1
  <2> QED BY <1>1, <1>3, <2>1, <2>2, <2>3
<1> QED BY <1>2, <1>3

\* Two versions of a theorem, or at most one.
LEMMA VersionsCount ==
  ASSUME NEW S, IsFiniteSet(S), ~(Cardinality(S) > 1)
  PROVE  \A i, j \in S : i = j
<1> SUFFICES ASSUME NEW i \in S, NEW j \in S, i # j PROVE FALSE
  OBVIOUS
<1>1. IsFiniteSet({i}) /\ Cardinality({i}) = 1
  BY FS_Singleton
<1>2. Cardinality({i} \cup {j}) = 2
  BY <1>1, FS_AddElement
<1>3. {i} \cup {j} \subseteq S
  OBVIOUS
<1>4. Cardinality({i} \cup {j}) <= Cardinality(S)
  BY <1>3, FS_Subset
<1>5. Cardinality(S) \in Nat
  BY FS_CardinalityType
<1> QED BY <1>2, <1>4, <1>5

-----------------------------------------------------------------------------
(* The invariant, call by call.                                            *)

LEMMA TInvInit == CInit /\ TInit => TInv
<1> SUFFICES ASSUME CInit, TInit PROVE TInv
  OBVIOUS
<1>1. call = [c \in Clients |-> Resting] /\ Resting \in TCall /\ Built(Resting)
  BY DEF CInit, Resting, TCall, TOps, TLabels, Todos, Built, Indexing, Removals, Clearing
<1>2. TBase
  BY <1>1, FS_EmptySet DEF TInit, TBase, TTypeOK, TCalls
<1>3. ASSUME NEW t \in Theorems PROVE Agreed(t)
  <2>1. \A c \in Clients : call[c].on = {}
    BY <1>1 DEF Resting
  <2> QED BY <2>1 DEF TInit, Agreed, Noticed, Recorded, Sourced, Complete, Erased, Bare
<1> QED BY <1>2, <1>3 DEF TInv

LEMMA TheoremIs ==
  ASSUME TCalls, NEW c \in Clients, call[c].at \in Indexing \cup Removals
  PROVE  Theorem(c) \in Theorems /\ call[c].on = {Theorem(c)}
BY DEF TCalls, Built, Theorem

\* A call that goes on within its operation, or ends, stays well formed.
LEMMA TGoesOn ==
  ASSUME TInv, NEW c \in Clients, call[c].at # "idle", NEW label \in TLabels \ {"idle"},
         NEW todo \in Todos, Goto(c, label, todo),
         label \in Indexing <=> call[c].at \in Indexing,
         label \in Removals <=> call[c].at \in Removals,
         label \in Clearing <=> call[c].at \in Clearing,
         label \in {"add", "remove"} => KeySeq(todo),
         label = "add" => \A j \in DOMAIN todo : IsKeyOf(todo[j], call[c].arg),
         label = "delKeys" => todo \in SUBSET Found
  PROVE  /\ TCalls' /\ raced' = raced /\ torn' = torn
         /\ \A e \in Clients \ {c} : call'[e] = call[e]
         /\ call'[c].on = call[c].on /\ call'[c].arg = call[c].arg
         /\ call'[c].at = label /\ call'[c].todo = todo
<1>1. /\ call' \in [Clients -> TCall] /\ raced' = raced /\ torn' = torn
      /\ \A e \in Clients \ {c} : call'[e] = call[e]
      /\ call'[c].op = call[c].op /\ call'[c].on = call[c].on /\ call'[c].arg = call[c].arg
      /\ call'[c].at = label /\ call'[c].todo = todo
  BY DEF TInv, TBase, TCalls, TCall, Goto, history
<1>2. Built(call'[c])
  BY <1>1 DEF TInv, TBase, TCalls, Built
<1> QED BY <1>1, <1>2 DEF TInv, TBase, TCalls

LEMMA TEnds ==
  ASSUME TInv, NEW c \in Clients, call' = [call EXCEPT ![c] = Resting]
  PROVE  /\ TCalls' /\ \A e \in Clients \ {c} : call'[e] = call[e]
         /\ call'[c].at = "idle" /\ call'[c].on = {}
<1>1. {} \in Todos
  BY DEF Todos
<1>2. /\ call' \in [Clients -> TCall]
      /\ \A e \in Clients \ {c} : call'[e] = call[e]
      /\ call'[c].op = "none" /\ call'[c].at = "idle" /\ call'[c].on = {}
  BY <1>1 DEF TInv, TBase, TCalls, TCall, TOps, TLabels, Resting
<1>3. Built(call'[c])
  BY <1>2 DEF Built, Indexing, Removals, Clearing
<1> QED BY <1>2, <1>3 DEF TInv, TBase, TCalls

\* A theorem whose calls, record and sets stay as they are.
LEMMA TElsewhere ==
  ASSUME NEW t \in Theorems, Agreed(t),
         \A e \in Clients : t \in call[e].on \cup call'[e].on => call'[e] = call[e],
         info'[t] = info[t], versions'[t] = versions[t],
         \A key \in IndexKey : <<key, t>> \in entries <=> <<key, t>> \in entries',
         AllKey \in IndexKey, \A i \in versions[t] : i \in Infos,
         \A i \in Infos : \A m \in DOMAIN IndexKeys(i) : IndexKeys(i)[m] \in IndexKey,
         \A e \in Clients : call[e].at \in Indexing => call[e].arg \in Infos,
         t \in raced <=> t \in raced', t \in torn <=> t \in torn'
  PROVE  Agreed(t)'
<1>1. Noticed(t)'
  BY DEF Agreed, Noticed
<1>2. Recorded(t)'
  BY DEF Agreed, Recorded, Caught
<1>3. Sourced(t)'
  BY DEF Agreed, Sourced
<1>4. Complete(t)'
  <2>1. \A i \in Infos : InSets(i, t) => InSets(i, t)'
    BY DEF InSets
  <2>2. ASSUME NEW e \in Clients, t \in call'[e].on, call'[e].at = "add" PROVE Clean(t) => Adds(call[e], t)'
    <3>1. call'[e] = call[e] /\ call[e].arg \in Infos
      BY <2>2 DEF Indexing
    <3> QED BY <2>2, <3>1, SMTT(30) DEF Agreed, Complete, Adds
  <2> QED BY <2>1, <2>2 DEF Agreed, Complete, Sourced, Clean
<1>5. Erased(t)'
  BY DEF Agreed, Erased, Bare, Erases, OneVersion, Clean
<1> QED BY <1>1, <1>2, <1>3, <1>4, <1>5 DEF Agreed

LEMMA KeysTyped ==
  /\ AllKey \in IndexKey
  /\ \A i \in Infos : \A m \in DOMAIN IndexKeys(i) : IndexKeys(i)[m] \in IndexKey
<1>1. AllKey \in IndexKey
  BY DEF AllKey, IndexKey, Kinds, Values
<1>2. ASSUME NEW i \in Infos, NEW m \in DOMAIN IndexKeys(i) PROVE IndexKeys(i)[m] \in IndexKey
  BY IndexKeysAre DEF KeySeq
<1> QED BY <1>1, <1>2

\* What a step of c on theorem n leaves as it is.
LEMMA TOthers ==
  ASSUME TInv, NEW c \in Clients, NEW n \in Theorems, call[c].on \subseteq {n}, call'[c].on \subseteq {n},
         \A e \in Clients \ {c} : call'[e] = call[e],
         \A t \in Theorems \ {n} :
           /\ info'[t] = info[t] /\ versions'[t] = versions[t]
           /\ \A key \in IndexKey : <<key, t>> \in entries <=> <<key, t>> \in entries'
           /\ t \in raced <=> t \in raced'
           /\ t \in torn <=> t \in torn'
  PROVE  \A t \in Theorems \ {n} : Agreed(t)'
<1> SUFFICES ASSUME NEW t \in Theorems \ {n} PROVE Agreed(t)'
  OBVIOUS
<1>1. \A e \in Clients : t \in call[e].on \cup call'[e].on => call'[e] = call[e]
  OBVIOUS
<1>2. /\ \A i \in versions[t] : i \in Infos
      /\ \A e \in Clients : call[e].at \in Indexing => call[e].arg \in Infos
      /\ Agreed(t)
  BY DEF TInv, TBase, TTypeOK, TCalls, Built
<1> QED BY <1>1, <1>2, TElsewhere, KeysTyped

\* While a theorem is indexed that has not raced, nobody removes it, and the
\* other way round.
LEMMA TAlone ==
  ASSUME TInv, NEW c \in Clients, NEW n \in Theorems, n \in call[c].on, n \notin raced
  PROVE  /\ call[c].at \in Indexing => \A e \in Clients : n \in call[e].on => call[e].at \in Indexing
         /\ call[c].at \notin Indexing => \A e \in Clients : n \in call[e].on => call[e].at \notin Indexing
BY DEF TInv, Agreed, Noticed

-----------------------------------------------------------------------------
(* Calls begin.                                                            *)

\* A call that begins races with its rivals, and nobody else notices.
TBegun(c, label, on, arg, rivals) ==
  /\ TCalls' /\ torn' = torn
  /\ call[c].at = "idle" /\ call[c].on = {}
  /\ \A e \in Clients \ {c} : call'[e] = call[e]
  /\ call'[c].at = label /\ call'[c].on = on /\ call'[c].arg = arg
  /\ raced \subseteq raced' /\ raced' \subseteq raced \cup on
  /\ \A e \in Clients, t \in on : call[e].op \in rivals /\ t \in call[e].on => t \in raced'

LEMMA TBegins ==
  ASSUME TCalls, NEW c \in Clients, NEW on \in SUBSET Theorems, NEW arg \in Infos \cup {{}}, NEW rivals,
         NEW op \in TOps, NEW label \in TLabels,
         \/ op = "indexTheorem" /\ label = "set" /\ arg \in Infos /\ \E t \in Theorems : on = {t}
         \/ op = "removeTheorem" /\ label = "exists" /\ \E t \in Theorems : on = {t}
         \/ op = "clear" /\ label = "keys" /\ on = Theorems,
         Begin(c, op, label, on, arg, rivals)
  PROVE  TBegun(c, label, on, arg, rivals)
<1>1. raced' = raced \cup UNION {call[d].on \cap on : d \in {d \in Clients : call[d].op \in rivals}}
  BY DEF Begin
<1>2. /\ raced \subseteq raced' /\ raced' \subseteq raced \cup on
      /\ \A e \in Clients, t \in on : call[e].op \in rivals /\ t \in call[e].on => t \in raced'
  BY <1>1
<1>3. /\ call[c].at = "idle" /\ torn' = torn
      /\ call' = [call EXCEPT ![c] = [op |-> op, at |-> label, on |-> on, arg |-> arg, todo |-> {}]]
  BY DEF Begin, At
<1>4. [op |-> op, at |-> label, on |-> on, arg |-> arg, todo |-> {}] \in TCall
  <2>1. {} \in Todos
    BY DEF Todos
  <2> QED BY <2>1 DEF TCall
<1>5. /\ call' \in [Clients -> TCall] /\ call[c].on = {}
      /\ \A e \in Clients \ {c} : call'[e] = call[e]
      /\ call'[c].op = op /\ call'[c].at = label /\ call'[c].on = on /\ call'[c].arg = arg
  BY <1>3, <1>4 DEF TCalls, Built
<1>6. Built(call'[c])
  BY <1>5 DEF Built, Indexing, Removals, Clearing
<1> QED BY <1>2, <1>3, <1>5, <1>6 DEF TBegun, TCalls

\* A removal that begins notices every call that indexes.
LEMMA RemovalBegins ==
  ASSUME TInv, NEW c \in Clients, NEW on \in SUBSET Theorems, NEW label \in {"exists", "keys"},
         TBegun(c, label, on, {}, {"indexTheorem"}), UNCHANGED index
  PROVE  TInv'
<1>1. /\ TCalls' /\ torn' = torn
      /\ call[c].at = "idle" /\ call[c].on = {}
      /\ \A e \in Clients \ {c} : call'[e] = call[e]
      /\ call'[c].at = label /\ call'[c].on = on
      /\ raced \subseteq raced' /\ raced' \subseteq raced \cup on
  BY DEF TBegun
<1>2. info' = info /\ entries' = entries /\ versions' = versions
  BY DEF index
<1>3. TBase'
  BY <1>1, <1>2 DEF TInv, TBase, TTypeOK
<1>4. ASSUME NEW t \in Theorems, t \notin on PROVE Agreed(t)'
  <2>1. \A e \in Clients : t \in call[e].on \cup call'[e].on => call'[e] = call[e]
    BY <1>1, <1>4
  <2>2. /\ \A i \in versions[t] : i \in Infos
        /\ \A e \in Clients : call[e].at \in Indexing => call[e].arg \in Infos
        /\ Agreed(t)
    BY DEF TInv, TBase, TTypeOK, TCalls, Built
  <2> QED BY <1>1, <1>2, <1>4, <2>1, <2>2, TElsewhere, KeysTyped
<1>5. ASSUME NEW t \in Theorems, t \in on PROVE Agreed(t)'
  <2>1. Noticed(t)'
    <3> SUFFICES ASSUME t \notin raced', NEW d \in Clients, t \in call'[d].on, call'[d].at \in Indexing
                 PROVE  FALSE
      BY DEF Noticed
    <3>1. d # c
      BY <1>1 DEF Indexing
    <3>2. call[d].op = "indexTheorem" /\ t \in call[d].on
      BY <1>1, <3>1 DEF TInv, TBase, TCalls, Built
    <3> QED BY <1>5, <3>2 DEF TBegun
  <2>2. Recorded(t)'
    BY <1>1, <1>2 DEF TInv, Agreed, Recorded, Caught
  <2>3. Sourced(t)'
    BY <1>1, <1>2 DEF TInv, Agreed, Sourced, Indexing
  <2>4. Complete(t)'
    BY <1>1, <1>2 DEF TInv, Agreed, Complete, Clean, Adds, InSets
  <2>5. Erased(t)'
    BY <1>1, <1>2 DEF TInv, Agreed, Erased, Clean, Bare, Erases, OneVersion
  <2> QED BY <2>1, <2>2, <2>3, <2>4, <2>5 DEF Agreed
<1> QED BY <1>3, <1>4, <1>5 DEF TInv

LEMMA RemoveTheoremKeeps ==
  ASSUME TInv, NEW c \in Clients, NEW n \in Theorems, RemoveTheorem(c, n)
  PROVE  TInv'
<1>1. Begin(c, "removeTheorem", "exists", {n}, {}, {"indexTheorem"}) /\ UNCHANGED index
  BY DEF RemoveTheorem
<1>2. /\ "removeTheorem" \in TOps /\ "exists" \in TLabels /\ {} \in Infos \cup {{}} /\ TCalls
      /\ {n} \in SUBSET Theorems /\ "exists" \in {"exists", "keys"}
  BY DEF TOps, TLabels, Removals, TInv, TBase
<1>3. TBegun(c, "exists", {n}, {}, {"indexTheorem"})
  BY <1>1, <1>2, TBegins, Zenon
<1> QED BY <1>1, <1>2, <1>3, RemovalBegins, Zenon

LEMMA ClearKeeps ==
  ASSUME TInv, NEW c \in Clients, Clear(c)
  PROVE  TInv'
<1>1. Begin(c, "clear", "keys", Theorems, {}, {"indexTheorem"}) /\ UNCHANGED index
  BY DEF Clear
<1>2. /\ "clear" \in TOps /\ "keys" \in TLabels /\ {} \in Infos \cup {{}} /\ TCalls
      /\ Theorems \in SUBSET Theorems /\ "keys" \in {"exists", "keys"}
  BY DEF TOps, TLabels, Clearing, TInv, TBase
<1>3. TBegun(c, "keys", Theorems, {}, {"indexTheorem"})
  BY <1>1, <1>2, TBegins, Zenon
<1> QED BY <1>1, <1>2, <1>3, RemovalBegins, Zenon

LEMMA IndexTheoremKeeps ==
  ASSUME TInv, NEW c \in Clients, NEW n \in Theorems, NEW i \in Infos, IndexTheorem(c, n, i)
  PROVE  TInv'
<1> DEFINE rivals == {"removeTheorem", "clear"}
<1>1. /\ Begin(c, "indexTheorem", "set", {n}, i, rivals)
      /\ versions' = [versions EXCEPT ![n] = @ \cup {i}]
      /\ info' = info /\ entries' = entries
  BY DEF IndexTheorem
<1>2. /\ "indexTheorem" \in TOps /\ "set" \in TLabels /\ i \in Infos \cup {{}} /\ TCalls
      /\ {n} \in SUBSET Theorems
  BY DEF TOps, TLabels, Indexing, TInv, TBase
<1> HIDE DEF rivals
<1>3. TBegun(c, "set", {n}, i, rivals)
  BY <1>1, <1>2, TBegins, Zenon
<1>4. /\ TCalls' /\ torn' = torn
      /\ call[c].at = "idle" /\ call[c].on = {}
      /\ \A e \in Clients \ {c} : call'[e] = call[e]
      /\ call'[c].at = "set" /\ call'[c].on = {n} /\ call'[c].arg = i
      /\ raced \subseteq raced' /\ raced' \subseteq raced \cup {n}
  BY <1>3 DEF TBegun
<1>5. /\ versions' \in [Theorems -> SUBSET Infos]
      /\ versions'[n] = versions[n] \cup {i} /\ \A t \in Theorems \ {n} : versions'[t] = versions[t]
      /\ \A t \in Theorems : IsFiniteSet(versions'[t])
  <2>1. /\ versions' \in [Theorems -> SUBSET Infos]
        /\ versions'[n] = versions[n] \cup {i} /\ \A t \in Theorems \ {n} : versions'[t] = versions[t]
    BY <1>1 DEF TInv, TBase, TTypeOK
  <2>2. IsFiniteSet(versions[n] \cup {i})
    BY FS_AddElement DEF TInv, TBase
  <2> QED BY <2>1, <2>2 DEF TInv, TBase
<1>6. TBase'
  BY <1>1, <1>4, <1>5 DEF TInv, TBase, TTypeOK
<1>7. \A t \in Theorems \ {n} : Agreed(t)'
  BY <1>1, <1>4, <1>5, TOthers
<1>8. Noticed(n)'
  <2> SUFFICES ASSUME n \notin raced', NEW e \in Clients, n \in call'[e].on
               PROVE  call'[e].at \in Indexing
    BY DEF Noticed
  <2>1. CASE e = c
    BY <1>4, <2>1 DEF Indexing
  <2>2. CASE e # c
    <3>1. call[e].op \notin rivals /\ n \in call[e].on /\ call'[e] = call[e]
      BY <1>3, <1>4, <2>2 DEF TBegun
    <3> QED BY <3>1 DEF rivals, TInv, TBase, TCalls, TCall, TLabels, Built
  <2> QED BY <2>1, <2>2
<1>9. Recorded(n)'
  BY <1>1, <1>4 DEF TInv, Agreed, Recorded, Caught
<1>10. Sourced(n)'
  BY <1>1, <1>4, <1>5 DEF TInv, Agreed, Sourced
<1>11. Complete(n)'
  BY <1>1, <1>4, SMTT(30) DEF TInv, Agreed, Complete, Clean, Adds, InSets
<1>12. Erased(n)'
  BY <1>1, <1>4, <1>5 DEF TInv, Agreed, Erased, Clean, Bare, Erases, OneVersion
<1> QED BY <1>6, <1>7, <1>8, <1>9, <1>10, <1>11, <1>12 DEF TInv, Agreed

-----------------------------------------------------------------------------
(* Calls go on.                                                            *)

LEMMA SetInfoKeeps ==
  ASSUME TInv, NEW c \in Clients, SetInfo(c)
  PROVE  TInv'
<1>0. PICK n, i : n = Theorem(c) /\ i = call[c].arg
  OBVIOUS
<1>1. /\ call[c].at = "set" /\ Goto(c, "add", IndexKeys(i))
      /\ info' = [info EXCEPT ![n] = i] /\ entries' = entries /\ versions' = versions
  BY <1>0 DEF SetInfo, At
<1>2. /\ n \in Theorems /\ call[c].on = {n}
      /\ i \in Infos /\ i # NoInfo /\ i \in versions[n]
  <2>1. n \in Theorems /\ call[c].on = {n}
    BY <1>0, <1>1, TheoremIs DEF TInv, TBase, Indexing
  <2>2. i \in Infos /\ i \in versions[n]
    BY <1>0, <1>1, <2>1 DEF TInv, TBase, TCalls, Built, Agreed, Sourced, Indexing
  <2> QED BY <2>1, <2>2, IndexAssumption
<1>3. /\ TCalls' /\ raced' = raced /\ torn' = torn
      /\ \A e \in Clients \ {c} : call'[e] = call[e]
      /\ call'[c].on = {n} /\ call'[c].arg = i
      /\ call'[c].at = "add" /\ call'[c].todo = IndexKeys(i)
  <2>1. KeySeq(IndexKeys(i)) /\ IndexKeys(i) \in Todos
    BY <1>2, IndexKeysAre DEF KeySeq, Todos
  <2>2. /\ "add" \in TLabels \ {"idle"} /\ call[c].at # "idle"
        /\ "add" \in Indexing /\ call[c].at \in Indexing
        /\ "add" \notin Removals /\ call[c].at \notin Removals
        /\ "add" \notin Clearing /\ call[c].at \notin Clearing
    BY <1>1 DEF TLabels, Indexing, Removals, Clearing
  <2>3. \A j \in DOMAIN IndexKeys(i) : IsKeyOf(IndexKeys(i)[j], i)
    BY DEF IsKeyOf
  <2> QED BY <1>0, <1>1, <1>2, <2>1, <2>2, <2>3, TGoesOn
<1>4. /\ info' \in [Theorems -> Infos \cup {NoInfo}] /\ info'[n] = i
      /\ \A t \in Theorems \ {n} : info'[t] = info[t]
  BY <1>1, <1>2 DEF TInv, TBase, TTypeOK
<1>5. TBase'
  BY <1>1, <1>3, <1>4 DEF TInv, TBase, TTypeOK
<1>6. \A t \in Theorems \ {n} : Agreed(t)'
  BY <1>1, <1>2, <1>3, <1>4, TOthers
<1>7. n \notin raced => \A e \in Clients : n \in call'[e].on => call'[e].at \in Indexing
  BY <1>1, <1>2, <1>3, TAlone DEF Indexing
<1>8. Noticed(n)'
  BY <1>2, <1>3, <1>7 DEF Noticed
<1>9. Recorded(n)'
  BY <1>2, <1>3, <1>4, <1>7 DEF Recorded, Indexing
<1>10. Sourced(n)'
  BY <1>1, <1>2, <1>3, <1>4 DEF TInv, Agreed, Sourced
<1>11. Complete(n)'
  <2>1. ASSUME NEW e \in Clients, n \in call'[e].on, call'[e].at = "add", Clean(n) PROVE Adds(call[e], n)'
    BY <1>1, <1>2, <1>3, <2>1, SMTT(30) DEF TInv, Agreed, Complete, Adds
  <2> QED BY <1>2, <1>3, <1>4, <2>1 DEF Complete, Clean
<1>12. Erased(n)'
  BY <1>2, <1>3, <1>4, <1>7 DEF Erased, Clean, Indexing
<1> QED BY <1>2, <1>5, <1>6, <1>8, <1>9, <1>10, <1>11, <1>12 DEF TInv, Agreed

LEMMA AddEntryKeeps ==
  ASSUME TInv, NEW c \in Clients, AddEntry(c)
  PROVE  TInv'
<1>0. PICK n, i, s, key : n = Theorem(c) /\ i = call[c].arg /\ s = call[c].todo /\ key = Head(s)
  OBVIOUS
<1>1. /\ call[c].at = "add" /\ entries' = entries \cup {<<key, n>>}
      /\ IF Len(s) = 1 THEN Return(c) ELSE Goto(c, "add", Tail(s))
      /\ info' = info /\ versions' = versions
  BY <1>0 DEF AddEntry, At
<1>2. n \in Theorems /\ call[c].on = {n} /\ i \in Infos /\ i \in versions[n] /\ KeySeq(s)
  <2>1. n \in Theorems /\ call[c].on = {n}
    BY <1>0, <1>1, TheoremIs DEF TInv, TBase, Indexing
  <2> QED BY <1>0, <1>1, <2>1 DEF TInv, TBase, TCalls, Built, Agreed, Sourced, Indexing
<1>3. /\ key \in IndexKey /\ IsKeyOf(key, i)
      /\ Len(s) = 1 => \A j \in DOMAIN s : s[j] = key
      /\ Len(s) # 1 => /\ KeySeq(Tail(s))
                       /\ \A j \in DOMAIN s : s[j] = key \/ \E m \in DOMAIN Tail(s) : Tail(s)[m] = s[j]
                       /\ \A j \in DOMAIN Tail(s) : IsKeyOf(Tail(s)[j], i)
  <2>1. /\ \A j \in DOMAIN s : IsKeyOf(s[j], i)
        /\ DOMAIN s = 1..Len(s) /\ Len(s) \in Nat \ {0} /\ key = s[1]
        /\ \A j \in DOMAIN Tail(s) : Tail(s)[j] = s[j + 1] /\ j + 1 \in DOMAIN s
    BY <1>0, <1>1, <1>2 DEF TInv, TBase, TCalls, Built, KeySeq
  <2>2. IsKeyOf(key, i) /\ \A j \in DOMAIN Tail(s) : IsKeyOf(Tail(s)[j], i)
    BY <2>1
  <2> QED BY <1>0, <1>2, <2>2, TailIs
<1>4. /\ TCalls' /\ raced' = raced /\ torn' = torn
      /\ \A e \in Clients \ {c} : call'[e] = call[e]
      /\ \/ call'[c].on = {} /\ call'[c].at = "idle" /\ Len(s) = 1
         \/ /\ call'[c].on = {n} /\ call'[c].arg = i /\ call'[c].at = "add"
            /\ call'[c].todo = Tail(s) /\ Len(s) # 1
  <2>1. CASE Len(s) = 1
    BY <1>1, <2>1, TEnds DEF Return, history
  <2>2. CASE Len(s) # 1
    <3>1. /\ "add" \in TLabels \ {"idle"} /\ call[c].at # "idle"
          /\ "add" \in Indexing /\ call[c].at \in Indexing
          /\ "add" \notin Removals /\ call[c].at \notin Removals
          /\ "add" \notin Clearing /\ call[c].at \notin Clearing
      BY <1>1 DEF TLabels, Indexing, Removals, Clearing
    <3>2. KeySeq(Tail(s)) /\ Tail(s) \in Todos /\ Goto(c, "add", Tail(s))
      BY <1>1, <1>3, <2>2 DEF KeySeq, Todos
    <3>3. \A j \in DOMAIN Tail(s) : IsKeyOf(Tail(s)[j], call[c].arg)
      BY <1>0, <1>3, <2>2
    <3>4. /\ TCalls' /\ raced' = raced /\ torn' = torn
          /\ \A e \in Clients \ {c} : call'[e] = call[e]
          /\ call'[c].on = call[c].on /\ call'[c].arg = call[c].arg
          /\ call'[c].at = "add" /\ call'[c].todo = Tail(s)
      BY <3>1, <3>2, <3>3, TGoesOn
    <3> QED BY <1>0, <1>2, <2>2, <3>4
  <2> QED BY <2>1, <2>2
<1>5. TBase'
  BY <1>1, <1>2, <1>3, <1>4 DEF TInv, TBase, TTypeOK
<1>6. \A t \in Theorems \ {n} : Agreed(t)'
  BY <1>1, <1>2, <1>4, TOthers
<1>7. n \notin raced => /\ info[n] # NoInfo
                       /\ \A e \in Clients : n \in call'[e].on => call'[e].at \in Indexing
  <2>1. n \notin raced => \A e \in Clients : n \in call[e].on => call[e].at \in Indexing
    BY <1>1, <1>2, TAlone DEF Indexing
  <2> QED BY <1>1, <1>2, <1>4, <2>1 DEF Indexing, TInv, Agreed, Recorded
<1>8. Noticed(n)'
  BY <1>4, <1>7 DEF Noticed
<1>9. Recorded(n)'
  BY <1>1, <1>4, <1>7 DEF Recorded, Indexing
<1>10. Sourced(n)'
  <2>1. \A k \in IndexKey : <<k, n>> \in entries' => k = key \/ <<k, n>> \in entries
    BY <1>1
  <2>2. \A e \in Clients : n \in call'[e].on /\ call'[e].at \in Indexing => call'[e].arg \in versions[n]
    BY <1>2, <1>4 DEF TInv, Agreed, Sourced
  <2> QED BY <1>1, <1>2, <1>3, <2>1, <2>2 DEF TInv, Agreed, Sourced
<1>11. Complete(n)'
  <2> SUFFICES ASSUME Clean(n)
               PROVE  /\ \A e \in Clients : n \in call'[e].on /\ call'[e].at = "add" => Adds(call[e], n)'
                      /\ \/ InSets(info[n], n)'
                         \/ \E e \in Clients : /\ n \in call'[e].on /\ call'[e].at = "add"
                                               /\ call'[e].arg = info[n]
                         \/ \E e \in Clients : /\ n \in call'[e].on
                                               /\ call'[e].at \in {"remove", "delInfo", "delKeys"}
    BY <1>1, <1>4 DEF Complete, Clean, InSets
  <2>1. Complete(n) /\ info[n] # NoInfo /\ \A x : x \in entries => x \in entries'
    BY <1>1, <1>2, <1>7 DEF TInv, Agreed, Clean
  <2>2. \A m \in DOMAIN IndexKeys(i) :
          <<IndexKeys(i)[m], n>> \in entries \/ \E j \in DOMAIN s : s[j] = IndexKeys(i)[m]
    BY <1>0, <1>1, <1>2, <2>1 DEF Complete, Adds
  <2>3. <<key, n>> \in entries'
    BY <1>1
  <2>4. ASSUME NEW e \in Clients, n \in call'[e].on, call'[e].at = "add" PROVE Adds(call[e], n)'
    <3>1. CASE e # c
      BY <1>4, <2>1, <2>4, <3>1 DEF Complete, Adds
    <3>2. CASE e = c
      BY <1>3, <1>4, <2>1, <2>2, <2>3, <2>4, <3>2 DEF Adds
    <3> QED BY <3>1, <3>2
  <2>5. CASE InSets(info[n], n)
    BY <1>1, <2>1, <2>4, <2>5 DEF InSets
  <2>6. ASSUME NEW e \in Clients, n \in call[e].on, call[e].at = "add", call[e].arg = info[n]
        PROVE  \/ InSets(info[n], n)'
               \/ \E d \in Clients : n \in call'[d].on /\ call'[d].at = "add" /\ call'[d].arg = info[n]
    <3>1. CASE e # c \/ Len(s) # 1
      BY <1>0, <1>4, <2>6, <3>1
    <3>2. CASE e = c /\ Len(s) = 1
      <4>1. info'[n] = i
        BY <1>0, <1>1, <2>6, <3>2
      <4>2. \A m \in DOMAIN IndexKeys(i) : <<IndexKeys(i)[m], n>> \in entries'
        BY <1>3, <2>1, <2>2, <2>3, <3>2
      <4> QED BY <4>1, <4>2 DEF InSets
    <3> QED BY <3>1, <3>2
  <2>7. ASSUME NEW e \in Clients, n \in call[e].on, call[e].at \in {"remove", "delInfo", "delKeys"}
        PROVE  n \in call'[e].on /\ call'[e].at \in {"remove", "delInfo", "delKeys"}
    BY <1>1, <1>4, <2>7
  <2> QED BY <2>1, <2>4, <2>5, <2>6, <2>7 DEF Complete
<1>12. Erased(n)'
  BY <1>1, <1>4, <1>7 DEF Erased, Clean, Indexing
<1> QED BY <1>2, <1>5, <1>6, <1>8, <1>9, <1>10, <1>11, <1>12 DEF TInv, Agreed

\* A call that reads, and has deleted nothing yet.
LEMMA TReads ==
  ASSUME TInv, NEW c \in Clients, TCalls', UNCHANGED <<info, entries, versions, raced, torn>>,
         \A e \in Clients \ {c} : call'[e] = call[e],
         call[c].at \in {"exists", "getInfo", "keys"}, call'[c].on \subseteq call[c].on,
         call'[c].at \in {"idle", "getInfo", "remove", "delKeys"},
         \A t \in call'[c].on :
           /\ call'[c].at = "remove" /\ OneVersion(t) /\ Clean(t) => Erases(call'[c], t)
           /\ call'[c].at = "delKeys" => Caught(call'[c], t)
  PROVE  TInv'
<1>1. TBase'
  BY DEF TInv, TBase, TTypeOK
<1>2. ASSUME NEW t \in Theorems PROVE Agreed(t)'
  <2>1. Noticed(t)'
    BY DEF TInv, Agreed, Noticed, Indexing
  <2>2. Recorded(t)'
    BY DEF TInv, Agreed, Recorded, Caught
  <2>3. Sourced(t)'
    BY DEF TInv, Agreed, Sourced, Indexing
  <2>4. Complete(t)'
    BY DEF TInv, Agreed, Complete, Clean, Adds, InSets
  <2>5. Erased(t)'
    BY DEF TInv, Agreed, Erased, Clean, Bare, Erases, OneVersion
  <2> QED BY <2>1, <2>2, <2>3, <2>4, <2>5 DEF Agreed
<1> QED BY <1>1, <1>2 DEF TInv

LEMMA FindTheoremKeeps ==
  ASSUME TInv, NEW c \in Clients, FindTheorem(c)
  PROVE  TInv'
<1>1. call[c].at = "exists" /\ (Return(c) \/ Goto(c, "getInfo", {})) /\ UNCHANGED <<info, entries, versions>>
  BY DEF FindTheorem, At, index
<1>2. /\ TCalls' /\ raced' = raced /\ torn' = torn
      /\ \A e \in Clients \ {c} : call'[e] = call[e]
      /\ call'[c].on \subseteq call[c].on /\ call'[c].at \in {"idle", "getInfo"}
  <2>1. CASE Return(c)
    BY <2>1, TEnds DEF Return, history
  <2>2. CASE Goto(c, "getInfo", {})
    <3>1. /\ "getInfo" \in TLabels \ {"idle"} /\ call[c].at # "idle" /\ {} \in Todos
          /\ "getInfo" \notin Indexing /\ call[c].at \notin Indexing
          /\ "getInfo" \in Removals /\ call[c].at \in Removals
          /\ "getInfo" \notin Clearing /\ call[c].at \notin Clearing
      BY <1>1 DEF TLabels, Indexing, Removals, Clearing, Todos
    <3> QED BY <2>2, <3>1, TGoesOn
  <2> QED BY <1>1, <2>1, <2>2
<1> QED BY <1>1, <1>2, TReads

LEMMA GetInfoKeeps ==
  ASSUME TInv, NEW c \in Clients, GetInfo(c)
  PROVE  TInv'
<1>0. PICK n, i : n = Theorem(c) /\ i = info[n]
  OBVIOUS
<1>1. /\ call[c].at = "getInfo" /\ UNCHANGED <<info, entries, versions>>
      /\ IF i = NoInfo THEN Return(c) ELSE Goto(c, "remove", RemovalKeys(i))
  BY <1>0 DEF GetInfo, At, index
<1>2. n \in Theorems /\ call[c].on = {n}
  BY <1>0, <1>1, TheoremIs DEF TInv, TBase, Removals
<1>3. CASE i = NoInfo
  <2>1. /\ TCalls' /\ raced' = raced /\ torn' = torn
        /\ \A e \in Clients \ {c} : call'[e] = call[e]
        /\ call'[c].on = {} /\ call'[c].at = "idle"
    BY <1>1, <1>3, TEnds DEF Return, history
  <2> QED BY <1>1, <2>1, TReads
<1>4. CASE i # NoInfo
  <2>1. i \in Infos /\ i \in versions[n]
    BY <1>0, <1>2, <1>4 DEF TInv, TBase, TTypeOK, Agreed, Sourced
  <2>2. /\ KeySeq(RemovalKeys(i)) /\ RemovalKeys(i) \in Todos
        /\ \A key : IsKeyOf(key, i) => Lasting(key) \/ \E j \in DOMAIN RemovalKeys(i) : RemovalKeys(i)[j] = key
    BY <2>1, RemovalKeysAre DEF KeySeq, Todos
  <2>3. /\ TCalls' /\ raced' = raced /\ torn' = torn
        /\ \A e \in Clients \ {c} : call'[e] = call[e]
        /\ call'[c].on = {n} /\ call'[c].at = "remove" /\ call'[c].todo = RemovalKeys(i)
    <3>1. /\ "remove" \in TLabels \ {"idle"} /\ call[c].at # "idle"
          /\ "remove" \notin Indexing /\ call[c].at \notin Indexing
          /\ "remove" \in Removals /\ call[c].at \in Removals
          /\ "remove" \notin Clearing /\ call[c].at \notin Clearing
      BY <1>1 DEF TLabels, Indexing, Removals, Clearing
    <3>2. Goto(c, "remove", RemovalKeys(i))
      BY <1>1, <1>4
    <3> QED BY <1>2, <2>2, <3>1, <3>2, TGoesOn
  <2>4. OneVersion(n) => Erases(call'[c], n)
    <3>1. \A key \in IndexKey : <<key, n>> \in entries => \E v \in versions[n] : IsKeyOf(key, v)
      BY <1>2 DEF TInv, Agreed, Sourced
    <3> QED BY <2>1, <2>2, <2>3, <3>1 DEF Erases, OneVersion
  <2> QED BY <1>1, <1>2, <2>3, <2>4, TReads
<1> QED BY <1>3, <1>4

LEMMA ListKeysKeeps ==
  ASSUME TInv, NEW c \in Clients, ListKeys(c)
  PROVE  TInv'
<1>0. PICK found : found = {<<"name", t>> : t \in {t \in Theorems : info[t] # NoInfo}} \cup {e[1] : e \in entries}
  OBVIOUS
<1>1. /\ call[c].at = "keys" /\ UNCHANGED <<info, entries, versions>>
      /\ Return(c) \/ Goto(c, "delKeys", found)
  BY <1>0 DEF ListKeys, At, index
<1>2. CASE Return(c)
  <2>1. /\ TCalls' /\ raced' = raced /\ torn' = torn
        /\ \A e \in Clients \ {c} : call'[e] = call[e]
        /\ call'[c].on = {} /\ call'[c].at = "idle"
    BY <1>2, TEnds DEF Return, history
  <2> QED BY <1>1, <2>1, TReads
<1>3. CASE Goto(c, "delKeys", found)
  <2>1. found \in SUBSET Found /\ found \in Todos
    <3>1. \A e \in entries : e[1] \in IndexKey
      BY DEF TInv, TBase
    <3> QED BY <1>0, <3>1 DEF Found, Todos
  <2>2. /\ TCalls' /\ raced' = raced /\ torn' = torn
        /\ \A e \in Clients \ {c} : call'[e] = call[e]
        /\ call'[c].on = call[c].on /\ call'[c].at = "delKeys" /\ call'[c].todo = found
    <3>1. /\ "delKeys" \in TLabels \ {"idle"} /\ call[c].at # "idle"
          /\ "delKeys" \notin Indexing /\ call[c].at \notin Indexing
          /\ "delKeys" \notin Removals /\ call[c].at \notin Removals
          /\ "delKeys" \in Clearing /\ call[c].at \in Clearing
          /\ "delKeys" \notin {"add", "remove"}
      BY <1>1 DEF TLabels, Indexing, Removals, Clearing
    <3> QED BY <1>3, <2>1, <3>1, TGoesOn
  <2>3. ASSUME NEW t \in Theorems PROVE Caught(call'[c], t)
    <3>1. ASSUME NEW key \in IndexKey, <<key, t>> \in entries PROVE key \in found
      <4>1. <<key, t>>[1] = key
        OBVIOUS
      <4> QED BY <1>0, <3>1, <4>1
    <3> QED BY <1>0, <2>2, <3>1 DEF Caught
  <2>4. call[c].on \subseteq Theorems
    BY DEF TInv, TBase, TCalls, TCall
  <2> QED BY <1>1, <2>2, <2>3, <2>4, TReads
<1> QED BY <1>1, <1>2, <1>3

LEMMA RemoveEntryKeeps ==
  ASSUME TInv, NEW c \in Clients, RemoveEntry(c)
  PROVE  TInv'
<1>0. PICK n, s, key : n = Theorem(c) /\ s = call[c].todo /\ key = Head(s)
  OBVIOUS
<1>1. /\ call[c].at = "remove" /\ entries' = entries \ {<<key, n>>}
      /\ IF Len(s) = 1 THEN Goto(c, "delInfo", {}) ELSE Goto(c, "remove", Tail(s))
      /\ info' = info /\ versions' = versions
  BY <1>0 DEF RemoveEntry, At
<1>2. n \in Theorems /\ call[c].on = {n} /\ KeySeq(s)
  <2>1. n \in Theorems /\ call[c].on = {n}
    BY <1>0, <1>1, TheoremIs DEF TInv, TBase, Removals
  <2> QED BY <1>0, <1>1, <2>1 DEF TInv, TBase, TCalls, Built
<1>3. /\ key \in IndexKey
      /\ Len(s) = 1 => key = AllKey /\ \A j \in DOMAIN s : s[j] = key
      /\ Len(s) # 1 => /\ KeySeq(Tail(s))
                       /\ \A j \in DOMAIN s : s[j] = key \/ \E m \in DOMAIN Tail(s) : Tail(s)[m] = s[j]
  BY <1>0, <1>2, TailIs
<1>4. /\ TCalls' /\ raced' = raced /\ torn' = torn
      /\ \A e \in Clients \ {c} : call'[e] = call[e]
      /\ call'[c].on = {n}
      /\ \/ call'[c].at = "delInfo" /\ Len(s) = 1
         \/ call'[c].at = "remove" /\ call'[c].todo = Tail(s) /\ Len(s) # 1
  <2>0. /\ call[c].at # "idle"
        /\ call[c].at \notin Indexing /\ call[c].at \in Removals /\ call[c].at \notin Clearing
    BY <1>1 DEF Indexing, Removals, Clearing
  <2>1. CASE Len(s) = 1
    <3>1. /\ "delInfo" \in TLabels \ {"idle"} /\ {} \in Todos
          /\ "delInfo" \notin Indexing /\ "delInfo" \in Removals /\ "delInfo" \notin Clearing
      BY DEF TLabels, Indexing, Removals, Clearing, Todos
    <3>2. Goto(c, "delInfo", {})
      BY <1>1, <2>1
    <3> QED BY <1>2, <2>0, <2>1, <3>1, <3>2, TGoesOn
  <2>2. CASE Len(s) # 1
    <3>1. /\ "remove" \in TLabels \ {"idle"}
          /\ "remove" \notin Indexing /\ "remove" \in Removals /\ "remove" \notin Clearing
      BY DEF TLabels, Indexing, Removals, Clearing
    <3>2. KeySeq(Tail(s)) /\ Tail(s) \in Todos /\ Goto(c, "remove", Tail(s))
      BY <1>1, <1>3, <2>2 DEF KeySeq, Todos
    <3> QED BY <1>2, <2>0, <2>2, <3>1, <3>2, TGoesOn
  <2> QED BY <2>1, <2>2
<1>5. TBase'
  BY <1>1, <1>4 DEF TInv, TBase, TTypeOK
<1>6. \A t \in Theorems \ {n} : Agreed(t)'
  BY <1>1, <1>2, <1>4, TOthers
<1>7. n \notin raced => \A e \in Clients : n \in call'[e].on => call'[e].at \notin Indexing
  BY <1>1, <1>2, <1>4, TAlone DEF Indexing
<1>8. Noticed(n)'
  BY <1>4, <1>7 DEF Noticed
<1>9. Recorded(n)'
  <2>1. call'[c].at = "delInfo" => <<AllKey, n>> \notin entries'
    BY <1>1, <1>3, <1>4
  <2>2. n \notin raced => \A e \in Clients : n \in call'[e].on => call'[e].at # "add"
    BY <1>7 DEF Indexing
  <2>3. Recorded(n)
    BY <1>2 DEF TInv, Agreed
  <2> QED BY <1>1, <1>4, <2>1, <2>2, <2>3 DEF Recorded, Caught
<1>10. Sourced(n)'
  BY <1>1, <1>2, <1>4 DEF TInv, Agreed, Sourced, Indexing
<1>11. Complete(n)'
  BY <1>1, <1>4, <1>7 DEF Complete, Clean, Indexing
<1>12. Erased(n)'
  <2> SUFFICES ASSUME Clean(n), OneVersion(n)
               PROVE  /\ info[n] = NoInfo => Bare(n)'
                      /\ \A e \in Clients : n \in call'[e].on =>
                           /\ call'[e].at = "remove" => Erases(call[e], n)'
                           /\ call'[e].at = "delInfo" => Bare(n)'
    BY <1>1, <1>4 DEF Erased, Clean, OneVersion
  <2>1. /\ Erased(n) /\ \A x : x \in entries' => x \in entries
        /\ <<key, n>> \notin entries'
    BY <1>1, <1>2 DEF TInv, Agreed
  <2>2. Bare(n) => Bare(n)'
    BY <2>1 DEF Bare
  <2>3. \A k \in IndexKey : <<k, n>> \in entries' => Lasting(k) \/ \E j \in DOMAIN s : s[j] = k /\ k # key
    BY <1>0, <1>1, <1>2, <2>1 DEF Erased, Erases
  <2>4. ASSUME NEW e \in Clients \ {c}, n \in call'[e].on
        PROVE  /\ call'[e].at = "remove" => Erases(call[e], n)'
               /\ call'[e].at = "delInfo" => Bare(n)'
    BY <1>4, <2>1, <2>2, <2>4 DEF Erased, Erases
  <2>5. call'[c].at = "delInfo" => Bare(n)'
    BY <1>3, <1>4, <2>3 DEF Bare
  <2>6. call'[c].at = "remove" => Erases(call[c], n)'
    BY <1>3, <1>4, <2>3 DEF Erases
  <2> QED BY <2>1, <2>2, <2>4, <2>5, <2>6 DEF Erased
<1> QED BY <1>2, <1>5, <1>6, <1>8, <1>9, <1>10, <1>11, <1>12 DEF TInv, Agreed

LEMMA DelInfoKeeps ==
  ASSUME TInv, NEW c \in Clients, DelInfo(c)
  PROVE  TInv'
<1>0. PICK n : n = Theorem(c)
  OBVIOUS
<1>1. /\ call[c].at = "delInfo" /\ Return(c)
      /\ info' = [info EXCEPT ![n] = NoInfo] /\ entries' = entries /\ versions' = versions
  BY <1>0 DEF DelInfo, At
<1>2. n \in Theorems /\ call[c].on = {n}
  BY <1>0, <1>1, TheoremIs DEF TInv, TBase, Removals
<1>3. /\ TCalls' /\ raced' = raced /\ torn' = torn
      /\ \A e \in Clients \ {c} : call'[e] = call[e]
      /\ call'[c].at = "idle" /\ call'[c].on = {}
  BY <1>1, TEnds DEF Return, history
<1>4. /\ info' \in [Theorems -> Infos \cup {NoInfo}] /\ info'[n] = NoInfo
      /\ \A t \in Theorems \ {n} : info'[t] = info[t]
  BY <1>1, <1>2 DEF TInv, TBase, TTypeOK
<1>5. TBase'
  BY <1>1, <1>3, <1>4 DEF TInv, TBase, TTypeOK
<1>6. \A t \in Theorems \ {n} : Agreed(t)'
  BY <1>1, <1>2, <1>3, <1>4, TOthers
<1>7. n \notin raced => /\ <<AllKey, n>> \notin entries
                       /\ \A e \in Clients : n \in call'[e].on => call'[e].at \notin Indexing
  <2>1. n \notin raced => \A e \in Clients : n \in call[e].on => call[e].at \notin Indexing
    BY <1>1, <1>2, TAlone DEF Indexing
  <2> QED BY <1>1, <1>2, <1>3, <2>1 DEF TInv, Agreed, Recorded
<1>8. Noticed(n)'
  BY <1>3, <1>7 DEF Noticed
<1>9. Recorded(n)'
  <2>1. n \notin raced => \A e \in Clients : n \in call'[e].on => call'[e].at # "add"
    BY <1>7 DEF Indexing
  <2>2. Recorded(n)
    BY <1>2 DEF TInv, Agreed
  <2> QED BY <1>1, <1>3, <1>4, <1>7, <2>1, <2>2 DEF Recorded, Caught
<1>10. Sourced(n)'
  BY <1>1, <1>2, <1>3, <1>4 DEF TInv, Agreed, Sourced, Indexing
<1>11. Complete(n)'
  BY <1>3, <1>4, <1>7 DEF Complete, Clean, Indexing
<1>12. Erased(n)'
  BY <1>1, <1>2, <1>3 DEF TInv, Agreed, Erased, Clean, Bare, Erases, OneVersion
<1> QED BY <1>2, <1>5, <1>6, <1>8, <1>9, <1>10, <1>11, <1>12 DEF TInv, Agreed

LEMMA DelKeysKeeps ==
  ASSUME TInv, NEW c \in Clients, DelKeys(c)
  PROVE  TInv'
<1>0. PICK todo : todo = call[c].todo
  OBVIOUS
<1>1. /\ call[c].at = "delKeys" /\ Return(c)
      /\ info' = [t \in Theorems |-> IF <<"name", t>> \in todo THEN NoInfo ELSE info[t]]
      /\ entries' = {e \in entries : e[1] \notin todo} /\ versions' = versions
  BY <1>0 DEF DelKeys, At
<1>2. /\ TCalls' /\ raced' = raced /\ torn' = torn
      /\ \A e \in Clients \ {c} : call'[e] = call[e]
      /\ call'[c].at = "idle" /\ call'[c].on = {}
  BY <1>1, TEnds DEF Return, history
<1>3. /\ info' \in [Theorems -> Infos \cup {NoInfo}]
      /\ \A t \in Theorems : info'[t] # NoInfo => info'[t] = info[t]
      /\ \A x : x \in entries' => x \in entries
  BY <1>1 DEF TInv, TBase, TTypeOK
<1>4. TBase'
  BY <1>1, <1>2, <1>3 DEF TInv, TBase, TTypeOK
<1>5. ASSUME NEW t \in Theorems PROVE Agreed(t)'
  <2>1. t \in call[c].on
    BY <1>1 DEF TInv, TBase, TCalls, Built, Clearing
  <2>2. t \notin raced => /\ info'[t] = NoInfo
                         /\ \A key \in IndexKey : <<key, t>> \notin entries'
    <3> SUFFICES ASSUME t \notin raced
                 PROVE  /\ info'[t] = NoInfo
                        /\ \A key \in IndexKey : <<key, t>> \notin entries'
      OBVIOUS
    <3>1. /\ \A key \in IndexKey : <<key, t>> \in entries => key \in todo
          /\ info[t] # NoInfo => <<"name", t>> \in todo
      BY <1>0, <1>1, <2>1 DEF TInv, Agreed, Recorded, Caught
    <3>2. ASSUME NEW key \in IndexKey, <<key, t>> \in entries' PROVE FALSE
      <4>1. <<key, t>>[1] = key
        OBVIOUS
      <4> QED BY <1>1, <3>1, <3>2, <4>1
    <3> QED BY <1>1, <3>1, <3>2
  <2>3. t \notin raced => \A e \in Clients : t \in call'[e].on => call'[e].at \notin Indexing
    <3>1. t \notin raced => \A e \in Clients : t \in call[e].on => call[e].at \notin Indexing
      BY <1>1, <2>1, TAlone DEF Indexing
    <3> QED BY <1>2, <3>1
  <2>4. Noticed(t)'
    BY <1>2, <2>3 DEF Noticed
  <2>5. Recorded(t)'
    <3>1. AllKey \in IndexKey
      BY KeysTyped
    <3> QED BY <1>2, <2>2, <2>3, <3>1 DEF Recorded, Caught, Indexing
  <2>6. Sourced(t)'
    BY <1>1, <1>2, <1>3 DEF TInv, Agreed, Sourced, Indexing
  <2>7. Complete(t)'
    BY <1>2, <2>2, <2>3 DEF Complete, Clean, Indexing
  <2>8. Erased(t)'
    BY <1>2, <2>2 DEF Erased, Clean, Bare, Erases
  <2> QED BY <2>4, <2>5, <2>6, <2>7, <2>8 DEF Agreed
<1> QED BY <1>4, <1>5 DEF TInv

LEMMA TStopKeeps ==
  ASSUME TInv, NEW c \in Clients, Stop(c), UNCHANGED index
  PROVE  TInv'
<1>1. /\ call' = [call EXCEPT ![c] = Resting] /\ raced' = raced /\ torn' = torn \cup call[c].on
      /\ info' = info /\ entries' = entries /\ versions' = versions
  BY DEF Stop, index
<1>2. /\ TCalls' /\ \A e \in Clients \ {c} : call'[e] = call[e]
      /\ call'[c].at = "idle" /\ call'[c].on = {}
  BY <1>1, TEnds
<1>3. TBase'
  BY <1>1, <1>2 DEF TInv, TBase, TTypeOK
<1>4. ASSUME NEW t \in Theorems, t \notin call[c].on PROVE Agreed(t)'
  <2>1. \A e \in Clients : t \in call[e].on \cup call'[e].on => call'[e] = call[e]
    BY <1>2, <1>4
  <2>2. /\ \A i \in versions[t] : i \in Infos
        /\ \A e \in Clients : call[e].at \in Indexing => call[e].arg \in Infos
        /\ Agreed(t)
    BY DEF TInv, TBase, TTypeOK, TCalls, Built
  <2> QED BY <1>1, <1>4, <2>1, <2>2, TElsewhere, KeysTyped
<1>5. ASSUME NEW t \in Theorems, t \in call[c].on PROVE Agreed(t)'
  <2>1. ~Clean(t)'
    BY <1>1, <1>5 DEF Clean
  <2>2. Noticed(t)' /\ Recorded(t)' /\ Sourced(t)'
    BY <1>1, <1>2 DEF TInv, Agreed, Noticed, Recorded, Caught, Sourced, Indexing
  <2> QED BY <2>1, <2>2 DEF Agreed, Complete, Erased
<1> QED BY <1>3, <1>4, <1>5 DEF TInv

LEMMA TNextKeeps ==
  ASSUME TInv, TNext
  PROVE  TInv'
<1>1. ASSUME NEW c \in Clients, NEW t \in Theorems, RemoveTheorem(c, t) \/ \E i \in Infos : IndexTheorem(c, t, i)
      PROVE  TInv'
  BY <1>1, RemoveTheoremKeeps, IndexTheoremKeeps
<1>2. ASSUME NEW c \in Clients, Clear(c) \/ SetInfo(c) \/ AddEntry(c) \/ FindTheorem(c) \/ GetInfo(c)
      PROVE  TInv'
  BY <1>2, ClearKeeps, SetInfoKeeps, AddEntryKeeps, FindTheoremKeeps, GetInfoKeeps
<1>3. ASSUME NEW c \in Clients, RemoveEntry(c) \/ DelInfo(c) \/ ListKeys(c) \/ DelKeys(c)
      PROVE  TInv'
  BY <1>3, RemoveEntryKeeps, DelInfoKeeps, ListKeysKeeps, DelKeysKeeps
<1> QED BY <1>1, <1>2, <1>3 DEF TNext

-----------------------------------------------------------------------------
\* A behaviour that uses another store indexes no theorem.
NoIndex == entries = {} /\ info = [t \in Theorems |-> NoInfo] /\ TTypeOK
IndexInv == IF store = "theorems" THEN TInv ELSE NoIndex

LEMMA IndexInvStep ==
  ASSUME IndexInv, [Next]_vars
  PROVE  IndexInv'
<1>1. CASE UNCHANGED vars
  <2>1. UNCHANGED <<call, raced, torn, info, entries, versions, store>>
    BY <1>1 DEF vars, calls, history, index
  <2>2. ASSUME TInv PROVE TInv'
    <3>1. TBase'
      BY <2>1, <2>2 DEF TInv, TBase, TTypeOK, TCalls
    <3>2. ASSUME NEW t \in Theorems PROVE Agreed(t)'
      <4>1. /\ \A i \in versions[t] : i \in Infos
            /\ \A e \in Clients : call[e].at \in Indexing => call[e].arg \in Infos
            /\ Agreed(t)
        BY <2>2 DEF TInv, TBase, TTypeOK, TCalls, Built
      <4> QED BY <2>1, <4>1, TElsewhere, KeysTyped
    <3> QED BY <3>1, <3>2 DEF TInv
  <2> QED BY <2>1, <2>2 DEF IndexInv, NoIndex, TTypeOK
<1>2. CASE Next /\ store # "theorems"
  <2>1. UNCHANGED <<info, entries, versions, store>>
    BY <1>2 DEF Next, index
  <2> QED BY <1>2, <2>1 DEF IndexInv, NoIndex, TTypeOK
<1>3. CASE Next /\ store = "theorems"
  <2>1. TInv /\ store' = "theorems"
    BY <1>3 DEF Next, IndexInv
  <2>2. CASE TNext
    BY <2>1, <2>2, TNextKeeps DEF IndexInv
  <2>3. ASSUME NEW c \in Clients, Stop(c), UNCHANGED index PROVE IndexInv'
    BY <2>1, <2>3, TStopKeeps DEF IndexInv
  <2> QED BY <1>3, <2>2, <2>3 DEF Next
<1> QED BY <1>1, <1>2, <1>3

\* The set of all holds no theorem without a record, a theorem with a record is
\* found by each of its keys, and a removal leaves it in the sets of its
\* conclusion and hypotheses at most, whichever calls overlap on other theorems
\* or go together on this one: IndexAgrees, for every number of clients and
\* theorems and every set of records.
THEOREM IndexIsRight == Spec => []IndexAgrees
<1>1. Init => IndexInv
  <2>1. Init => TInv /\ NoIndex
    BY TInvInit DEF Init, TInit, NoIndex, TTypeOK
  <2> QED BY <2>1 DEF IndexInv
<1>2. IndexInv /\ [Next]_vars => IndexInv'
  BY IndexInvStep
<1>3. IndexInv => IndexAgrees
  <2>1. CASE NoIndex
    BY <2>1 DEF NoIndex, IndexAgrees
  <2>2. CASE TInv
    <3> SUFFICES ASSUME NEW t \in Theorems
                 PROVE  /\ <<AllKey, t>> \in entries => info[t] # NoInfo \/ t \in raced
                        /\ Quiet(t) /\ Clean(t) =>
                             IF info[t] # NoInfo
                               THEN \A k \in DOMAIN IndexKeys(info[t]) : <<IndexKeys(info[t])[k], t>> \in entries
                               ELSE \A e \in entries :
                                      e[2] = t => e[1][1] \in {"concl", "hyp"} \/ Cardinality(versions[t]) > 1
      BY DEF IndexAgrees
    <3>1. TBase /\ Agreed(t)
      BY <2>2 DEF TInv
    <3>2. <<AllKey, t>> \in entries => info[t] # NoInfo \/ t \in raced
      BY <3>1 DEF Agreed, Recorded
    <3>3. ASSUME Quiet(t), Clean(t), info[t] # NoInfo PROVE InSets(info[t], t)
      BY <3>1, <3>3 DEF Agreed, Complete, Quiet
    <3>4. ASSUME Clean(t), info[t] = NoInfo, ~(Cardinality(versions[t]) > 1),
                 NEW e \in entries, e[2] = t
          PROVE  e[1][1] \in {"concl", "hyp"}
      <4>1. OneVersion(t)
        BY <3>1, <3>4, VersionsCount DEF TBase, OneVersion
      <4>2. e[1] \in IndexKey /\ e = <<e[1], t>>
        BY <3>1, <3>4 DEF TBase
      <4> QED BY <3>1, <3>4, <4>1, <4>2 DEF Agreed, Erased, Bare, Lasting
    <3> QED BY <3>2, <3>3, <3>4 DEF InSets
  <2> QED BY <2>1, <2>2 DEF IndexInv
<1> QED BY <1>1, <1>2, <1>3, PTL DEF Spec

-----------------------------------------------------------------------------
(* Proof sessions.                                                         *)

Starting  == {"setNew", "expireNew", "addActive"}
Recording == {"setStep", "expireStep", "setCount", "zadd", "expireList"}
Tracing   == {"lpush", "expireTrace"}
Ending    == {"hsetDone", "hsetTime", "remActive", "addCompleted"}
Removing  == {"zrangeSteps", "delSession", "leaveActive", "leaveCompleted"}
PLabels == {"idle"} \cup Starting \cup Recording \cup Tracing \cup Ending \cup Removing
POps == {"none", "startSession", "recordStep", "recordTrace", "endSession", "deleteSession"}
PCall == [op : POps,
          at : PLabels, on : SUBSET Sessions, arg : Steps \cup {{}}, todo : SUBSET Steps]

\* What a call looks like.
Shaped(k) ==
  /\ k.at = "idle" => k.op = "none" /\ k.on = {}
  /\ k.at # "idle" => \E s \in Sessions : k.on = {s}
  /\ k.at \in Starting => k.op = "startSession"
  /\ k.at \in Recording => k.op = "recordStep" /\ k.arg \in Steps
  /\ k.at \in Tracing => k.op = "recordTrace"
  /\ k.at \in Ending => k.op = "endSession"
  /\ k.at \in Removing => k.op = "deleteSession"
PCalls == call \in [Clients -> PCall] /\ \A c \in Clients : Shaped(call[c])

\* Keys that ever carry a TTL.
Perishable == {StepKey(k) : k \in Steps} \cup {Key("session"), Key("list"), Key("trace")}
PBase == PTypeOK /\ PCalls /\ \A s \in Sessions : ttl[s] \subseteq Perishable

\* A session belongs to the call that starts it, and is known afterwards.
Owned(s) ==
  \A c \in Clients : s \in call[c].on =>
    /\ call[c].at \in Starting => s \notin known /\ \A e \in Clients \ {c} : s \notin call[e].on
    /\ call[c].at \notin Starting => s \in known
    /\ call[c].at \in Removing => s \in doomed
Unborn(s) == s \notin known => s \notin active \cup completed /\ data[s] = {}

\* Nobody works on a session that is being deleted and has not raced.
Isolated(s) ==
  s \notin raced =>
    \A c, e \in Clients :
      s \in call[c].on \cap call[e].on /\ call[c].at \in Removing => call[e].at \in Removing

\* Among the active ones or the completed ones, or about to be.
Placed(s) ==
  /\ s \notin active \cap completed
  /\ s \in active => \A c \in Clients : s \in call[c].on => call[c].at # "addCompleted"
  /\ s \in known \ doomed /\ s \notin torn =>
       s \in active \cup completed \/ \E c \in Clients : s \in call[c].on /\ call[c].at = "addCompleted"

\* A step with a record is in the list, or about to be.
Lists(k, s, n) == s \in k.on /\ k.at \in Recording \ {"expireList"} /\ k.arg = n
Indexed(s) ==
  Clean(s) /\ s \notin unlisted =>
    \A n \in Steps :
      StepKey(n) \in data[s] => Listed(n) \in data[s] \/ \E c \in Clients : Lists(call[c], s, n)

\* What a deletion has done of its work so far, and what has ended.
Gone(s) ==
  session[s] = "none" /\ data[s] \subseteq {StepKey(n) : n \in IF s \in unlisted THEN Steps ELSE {}}
Vanishing(k, s) ==
  /\ k.at = "delSession" /\ s \notin unlisted => \A n \in Steps : StepKey(n) \in data[s] => n \in k.todo
  /\ k.at \in {"leaveActive", "leaveCompleted"} => Gone(s)
  /\ k.at = "leaveCompleted" => s \notin active
Deletion(s) ==
  Clean(s) =>
    /\ \A c \in Clients : s \in call[c].on => Vanishing(call[c], s)
    /\ s \in deleted =>
         /\ Gone(s) /\ s \notin active \cup completed
         /\ \A c \in Clients : s \in call[c].on => call[c].at \in Removing

Accounted(s) == Owned(s) /\ Unborn(s) /\ Isolated(s) /\ Placed(s) /\ Indexed(s) /\ Deletion(s)
PInv == PBase /\ \A s \in Sessions : Accounted(s)

LEMMA PInvInit == CInit /\ PInit => PInv
<1> SUFFICES ASSUME CInit, PInit PROVE PInv
  OBVIOUS
<1>1. call = [c \in Clients |-> Resting] /\ Resting \in PCall /\ Shaped(Resting)
  BY DEF CInit, Resting, PCall, POps, PLabels, Shaped, Starting, Recording, Tracing, Ending, Removing
<1>2. PBase
  BY <1>1 DEF PInit, PBase, PTypeOK, PCalls
<1>3. ASSUME NEW s \in Sessions PROVE Accounted(s)
  <2>1. \A c \in Clients : call[c].on = {}
    BY <1>1 DEF Resting
  <2> QED BY <2>1 DEF PInit, Accounted, Owned, Unborn, Isolated, Placed, Indexed, Deletion
<1> QED BY <1>2, <1>3 DEF PInv

LEMMA SessionIs ==
  ASSUME PCalls, NEW c \in Clients, call[c].at # "idle"
  PROVE  Session(c) \in Sessions /\ call[c].on = {Session(c)}
BY DEF PCalls, Shaped, Session

\* The effect of the two ways in which a call goes on.
LEMMA PGoto ==
  ASSUME PCalls, NEW c \in Clients, NEW label \in PLabels, NEW todo \in SUBSET Steps,
         Goto(c, label, todo)
  PROVE  /\ call' \in [Clients -> PCall] /\ raced' = raced /\ torn' = torn
         /\ \A e \in Clients \ {c} : call'[e] = call[e]
         /\ call'[c].op = call[c].op /\ call'[c].on = call[c].on /\ call'[c].arg = call[c].arg
         /\ call'[c].at = label /\ call'[c].todo = todo
BY DEF PCalls, PCall, Goto, history

LEMMA PRest ==
  ASSUME PCalls, NEW c \in Clients, call' = [call EXCEPT ![c] = Resting]
  PROVE  /\ call' \in [Clients -> PCall]
         /\ \A e \in Clients \ {c} : call'[e] = call[e]
         /\ call'[c].op = "none" /\ call'[c].at = "idle" /\ call'[c].on = {}
BY DEF PCalls, PCall, POps, PLabels, Resting

\* A session whose calls and keys stay as they are stays accounted for.
LEMMA Elsewhere ==
  ASSUME NEW s \in Sessions, Accounted(s),
         \A e \in Clients : s \in call[e].on \cup call'[e].on => call'[e] = call[e],
         session'[s] = session[s], data'[s] = data[s],
         s \in raced <=> s \in raced', s \in torn <=> s \in torn',
         s \in active <=> s \in active', s \in completed <=> s \in completed',
         s \in known <=> s \in known', s \in doomed <=> s \in doomed',
         s \in deleted <=> s \in deleted', s \in unlisted <=> s \in unlisted'
  PROVE  Accounted(s)'
<1>1. Owned(s)' /\ Isolated(s)'
  BY DEF Accounted, Owned, Isolated
<1>2. Unborn(s)'
  BY DEF Accounted, Unborn
<1>3. Placed(s)'
  BY DEF Accounted, Placed
<1>4. Indexed(s)'
  BY DEF Accounted, Indexed, Lists, Clean
<1>5. Gone(s)' <=> Gone(s)
  BY DEF Gone
<1>6. Deletion(s)'
  BY <1>5 DEF Accounted, Deletion, Vanishing, Clean
<1> QED BY <1>1, <1>2, <1>3, <1>4, <1>6 DEF Accounted

\* What a step of a call that does not delete leaves as it is: the other
\* sessions, and of its own one who may work on it and what a deletion did.
LEMMA WorkKeeps ==
  ASSUME PInv, NEW c \in Clients, NEW n \in Sessions, call[c].on = {n},
         call[c].at \notin Removing \cup {"idle"}, call'[c].at \notin Removing,
         call'[c].on \subseteq {n},
         call'[c].on = {} \/ (call'[c].at \in Starting <=> call[c].at \in Starting),
         \A e \in Clients \ {c} : call'[e] = call[e],
         UNCHANGED <<raced, torn, known, doomed, deleted, unlisted>>,
         \A s \in Sessions \ {n} :
           /\ session'[s] = session[s] /\ data'[s] = data[s]
           /\ s \in active <=> s \in active'
           /\ s \in completed <=> s \in completed'
  PROVE  /\ \A s \in Sessions \ {n} : Accounted(s)'
         /\ Owned(n)' /\ Isolated(n)' /\ Deletion(n)'
<1>1. ASSUME NEW s \in Sessions \ {n} PROVE Accounted(s)'
  <2>1. \A e \in Clients : s \in call[e].on \cup call'[e].on => call'[e] = call[e]
    OBVIOUS
  <2> QED BY <2>1, Elsewhere DEF PInv
<1>2. Owned(n) /\ Isolated(n) /\ Deletion(n)
  BY DEF PInv, Accounted
<1>3. Owned(n)'
  BY <1>2 DEF Owned
<1>4. Isolated(n)'
  BY <1>2 DEF Isolated
<1>5. Deletion(n)'
  <2> SUFFICES ASSUME Clean(n) PROVE Deletion(n)'
    BY DEF Deletion, Clean
  <2>1. \A e \in Clients : n \in call[e].on => call[e].at \notin Removing
    BY <1>2 DEF Isolated, Clean
  <2>2. \A e \in Clients : n \in call'[e].on => call'[e].at \notin Removing
    BY <2>1
  <2>3. n \notin deleted
    BY <1>2, <2>1 DEF Deletion
  <2> QED BY <2>2, <2>3 DEF Deletion, Vanishing, Removing
<1> QED BY <1>1, <1>3, <1>4, <1>5

\* A call that begins races with its rivals, and nobody else notices.
Begun(c, op, label, n, arg, rivals) ==
  /\ PCalls' /\ torn' = torn
  /\ call[c].at = "idle" /\ call[c].on = {}
  /\ \A e \in Clients \ {c} : call'[e] = call[e]
  /\ call'[c].op = op /\ call'[c].at = label /\ call'[c].on = {n} /\ call'[c].arg = arg
  /\ raced \subseteq raced' /\ raced' \subseteq raced \cup {n}
  /\ \A e \in Clients : call[e].op \in rivals /\ n \in call[e].on => n \in raced'

LEMMA PBegins ==
  ASSUME PCalls, NEW c \in Clients, NEW n \in Sessions, NEW arg \in Steps \cup {{}}, NEW rivals,
         NEW op \in POps, NEW label \in PLabels,
         \/ op = "startSession" /\ label = "setNew"
         \/ op = "recordStep" /\ label = "setStep" /\ arg \in Steps
         \/ op = "recordTrace" /\ label = "lpush"
         \/ op = "endSession" /\ label = "hsetDone"
         \/ op = "deleteSession" /\ label = "zrangeSteps",
         Begin(c, op, label, {n}, arg, rivals)
  PROVE  Begun(c, op, label, n, arg, rivals)
<1>1. raced' = raced \cup UNION {call[d].on \cap {n} : d \in {d \in Clients : call[d].op \in rivals}}
  BY DEF Begin
<1>2. /\ raced \subseteq raced' /\ raced' \subseteq raced \cup {n}
      /\ \A e \in Clients : call[e].op \in rivals /\ n \in call[e].on => n \in raced'
  BY <1>1
<1>3. /\ call[c].at = "idle" /\ torn' = torn
      /\ call' = [call EXCEPT ![c] = [op |-> op, at |-> label, on |-> {n}, arg |-> arg, todo |-> {}]]
  BY DEF Begin, At
<1>4. [op |-> op, at |-> label, on |-> {n}, arg |-> arg, todo |-> {}] \in PCall
  BY DEF PCall
<1>5. /\ call' \in [Clients -> PCall] /\ call[c].on = {}
      /\ \A e \in Clients \ {c} : call'[e] = call[e]
      /\ call'[c].op = op /\ call'[c].at = label /\ call'[c].on = {n} /\ call'[c].arg = arg
  BY <1>3, <1>4 DEF PCalls, Shaped
<1>6. Shaped(call'[c])
  BY <1>5 DEF Shaped, Starting, Recording, Tracing, Ending, Removing
<1> QED BY <1>2, <1>3, <1>5, <1>6 DEF Begun, PCalls

LEMMA StartSessionKeeps ==
  ASSUME PInv, NEW c \in Clients, NEW n \in Sessions, StartSession(c, n)
  PROVE  PInv'
<1>1. /\ n \notin known /\ Quiet(n) /\ Clean(n) /\ UNCHANGED proofs
      /\ Begin(c, "startSession", "setNew", {n}, {}, {})
  BY DEF StartSession
<1>2. "startSession" \in POps /\ "setNew" \in PLabels /\ {} \in Steps \cup {{}} /\ PCalls
  BY DEF POps, PLabels, Starting, PInv, PBase
<1>3. Begun(c, "startSession", "setNew", n, {}, {})
  BY <1>1, <1>2, PBegins, Zenon
<1>4. /\ PCalls' /\ torn' = torn
      /\ call[c].at = "idle" /\ call[c].on = {}
      /\ \A e \in Clients \ {c} : call'[e] = call[e]
      /\ call'[c].at = "setNew" /\ call'[c].on = {n}
      /\ raced \subseteq raced' /\ raced' \subseteq raced \cup {n}
  BY <1>3 DEF Begun
<1>5. PBase'
  BY <1>1, <1>4 DEF PInv, PBase, PTypeOK, proofs, proofSets
<1>6. ASSUME NEW s \in Sessions \ {n} PROVE Accounted(s)'
  <2>1. \A e \in Clients : s \in call[e].on \cup call'[e].on => call'[e] = call[e]
    BY <1>4
  <2> QED BY <1>1, <1>4, <2>1, Elsewhere DEF PInv, proofs, proofSets
<1>7. Accounted(n)'
  <2>1. \A e \in Clients \ {c} : n \notin call'[e].on
    BY <1>1, <1>4 DEF Quiet
  <2>2. Owned(n)' /\ Isolated(n)'
    BY <1>1, <1>4, <2>1 DEF Owned, Isolated, Removing, Starting, proofs
  <2>3. n \notin active \cup completed /\ data[n] = {} /\ n \notin deleted
    BY <1>1 DEF PInv, PBase, PTypeOK, Accounted, Unborn
  <2>4. Unborn(n)' /\ Placed(n)' /\ Indexed(n)'
    BY <1>1, <2>3 DEF Unborn, Placed, Indexed, proofs, proofSets
  <2>5. Deletion(n)'
    BY <1>1, <1>4, <2>1, <2>3 DEF Deletion, Vanishing, proofs
  <2> QED BY <2>2, <2>4, <2>5 DEF Accounted
<1> QED BY <1>5, <1>6, <1>7 DEF PInv

\* A call begins that works on a session, without deleting it.
LEMMA UseKeeps ==
  ASSUME PInv, NEW c \in Clients, NEW n \in Sessions,
         \/ RecordTrace(c, n) \/ EndSession(c, n)
         \/ \E k \in Steps : RecordStep(c, n, k)
  PROVE  PInv'
<1>1. PICK op \in {"recordStep", "recordTrace", "endSession"},
           label \in {"setStep", "lpush", "hsetDone"}, k \in Steps \cup {{}} :
        /\ n \in known /\ Begin(c, op, label, {n}, k, {"deleteSession"})
        /\ deleted' = deleted \ {n}
        /\ UNCHANGED <<session, data, ttl, active, completed, known, doomed, unlisted>>
        /\ \/ op = "recordStep" /\ label = "setStep" /\ k \in Steps
           \/ op = "recordTrace" /\ label = "lpush"
           \/ op = "endSession" /\ label = "hsetDone"
  BY DEF RecordStep, RecordTrace, EndSession, Use, proofSets
<1>2. op \in POps /\ label \in PLabels /\ PCalls
  BY DEF POps, PLabels, Recording, Tracing, Ending, PInv, PBase
<1>3. Begun(c, op, label, n, k, {"deleteSession"})
  BY <1>1, <1>2, PBegins, Zenon
<1>4. /\ PCalls' /\ torn' = torn
      /\ call[c].at = "idle" /\ call[c].on = {}
      /\ \A e \in Clients \ {c} : call'[e] = call[e]
      /\ call'[c].op = op /\ call'[c].at = label /\ call'[c].on = {n} /\ call'[c].arg = k
      /\ raced \subseteq raced' /\ raced' \subseteq raced \cup {n}
      /\ \A e \in Clients : call[e].op = "deleteSession" /\ n \in call[e].on => n \in raced'
  BY <1>3 DEF Begun
<1>5. PBase'
  BY <1>1, <1>4 DEF PInv, PBase, PTypeOK
<1>6. ASSUME NEW s \in Sessions \ {n} PROVE Accounted(s)'
  <2>1. \A e \in Clients : s \in call[e].on \cup call'[e].on => call'[e] = call[e]
    BY <1>4
  <2> QED BY <1>1, <1>4, <2>1, Elsewhere DEF PInv
<1>7. Accounted(n)'
  <2>0. Accounted(n) /\ label \notin Starting \cup Removing /\ label # "addCompleted"
    BY DEF PInv, Starting, Removing
  <2>1. Owned(n)'
    BY <1>1, <1>4, <2>0 DEF Accounted, Owned, Starting, Removing
  <2>2. Isolated(n)'
    <3>1. \A e \in Clients : n \in call[e].on /\ call[e].at \in Removing => n \in raced'
      BY <1>4 DEF PInv, PBase, PCalls, Shaped
    <3> QED BY <1>4, <2>0, <3>1 DEF Accounted, Isolated
  <2>3. Unborn(n)'
    BY <1>1 DEF Unborn
  <2>4. Placed(n)'
    <3>1. \A e \in Clients : n \in call[e].on => n \in call'[e].on /\ call'[e] = call[e]
      BY <1>4
    <3> QED BY <1>1, <1>4, <2>0, <3>1 DEF Accounted, Placed
  <2>5. Indexed(n)'
    <3>1. \A e \in Clients, i \in Steps : Lists(call[e], n, i) => Lists(call'[e], n, i)
      BY <1>4 DEF Lists
    <3> QED BY <1>1, <1>4, <2>0, <3>1 DEF Accounted, Indexed, Clean
  <2>6. Deletion(n)'
    <3>1. Gone(n)' <=> Gone(n)
      BY <1>1 DEF Gone
    <3>2. Vanishing(call[c], n)'
      BY <1>4, <2>0 DEF Vanishing, Removing
    <3>3. ASSUME NEW e \in Clients \ {c}, Vanishing(call[e], n) PROVE Vanishing(call[e], n)'
      BY <1>1, <1>4, <3>1, <3>3 DEF Vanishing
    <3> QED BY <1>1, <1>4, <2>0, <3>2, <3>3 DEF Accounted, Deletion, Clean
  <2> QED BY <2>1, <2>2, <2>3, <2>4, <2>5, <2>6 DEF Accounted
<1> QED BY <1>5, <1>6, <1>7 DEF PInv

LEMMA DeleteSessionKeeps ==
  ASSUME PInv, NEW c \in Clients, NEW n \in Sessions, DeleteSession(c, n)
  PROVE  PInv'
<1> DEFINE rivals == {"recordStep", "recordTrace", "endSession"}
<1>1. /\ n \in known /\ Begin(c, "deleteSession", "zrangeSteps", {n}, {}, rivals)
      /\ deleted' = deleted \ {n} /\ doomed' = doomed \cup {n}
      /\ UNCHANGED <<session, data, ttl, active, completed, known, unlisted>>
  BY DEF DeleteSession, Use, proofSets
<1>2. /\ "deleteSession" \in POps /\ "zrangeSteps" \in PLabels /\ {} \in Steps \cup {{}} /\ PCalls
      /\ \A rival : rival \in rivals <=> rival \in {"recordStep", "recordTrace", "endSession"}
  BY DEF POps, PLabels, Removing, PInv, PBase
<1> HIDE DEF rivals
<1>3. Begun(c, "deleteSession", "zrangeSteps", n, {}, rivals)
  BY <1>1, <1>2, PBegins, Zenon
<1>4. /\ PCalls' /\ torn' = torn
      /\ call[c].at = "idle" /\ call[c].on = {}
      /\ \A e \in Clients \ {c} : call'[e] = call[e]
      /\ call'[c].op = "deleteSession" /\ call'[c].at = "zrangeSteps" /\ call'[c].on = {n}
      /\ raced \subseteq raced' /\ raced' \subseteq raced \cup {n}
      /\ \A e \in Clients : call[e].op \in rivals /\ n \in call[e].on => n \in raced'
  BY <1>3 DEF Begun
<1>5. PBase'
  BY <1>1, <1>4 DEF PInv, PBase, PTypeOK
<1>6. ASSUME NEW s \in Sessions \ {n} PROVE Accounted(s)'
  <2>1. \A e \in Clients : s \in call[e].on \cup call'[e].on => call'[e] = call[e]
    BY <1>4
  <2> QED BY <1>1, <1>4, <2>1, Elsewhere DEF PInv
<1>7. Accounted(n)'
  <2>0. Accounted(n)
    BY DEF PInv
  <2>1. Owned(n)'
    BY <1>1, <1>4, <2>0 DEF Accounted, Owned, Starting
  <2>2. Isolated(n)'
    <3>1. ASSUME NEW e \in Clients, n \in call[e].on, call[e].at \notin Removing PROVE n \in raced'
      <4>1. call[e].at \notin Starting
        BY <1>1, <2>0, <3>1 DEF Accounted, Owned
      <4>2. call[e].op \in rivals
        BY <1>2, <3>1, <4>1 DEF PInv, PBase, PCalls, PCall, POps, PLabels, Shaped
      <4> QED BY <1>4, <3>1, <4>2
    <3>2. "zrangeSteps" \in Removing
      BY DEF Removing
    <3> QED BY <1>4, <2>0, <3>1, <3>2 DEF Accounted, Isolated
  <2>3. Unborn(n)'
    BY <1>1 DEF Unborn
  <2>4. Placed(n)'
    <3>1. \A e \in Clients : n \in call'[e].on /\ call'[e].at = "addCompleted" => call'[e] = call[e]
      BY <1>4
    <3> QED BY <1>1, <1>4, <2>0, <3>1 DEF Accounted, Placed
  <2>5. Indexed(n)'
    <3>1. \A e \in Clients, i \in Steps : Lists(call[e], n, i) => Lists(call'[e], n, i)
      BY <1>4 DEF Lists
    <3> QED BY <1>1, <1>4, <2>0, <3>1 DEF Accounted, Indexed, Clean
  <2>6. Deletion(n)'
    <3>1. Gone(n)' <=> Gone(n)
      BY <1>1 DEF Gone
    <3>2. Vanishing(call[c], n)'
      BY <1>4, <2>0 DEF Vanishing
    <3>3. ASSUME NEW e \in Clients \ {c}, Vanishing(call[e], n) PROVE Vanishing(call[e], n)'
      BY <1>1, <1>4, <3>1, <3>3 DEF Vanishing
    <3> QED BY <1>1, <1>4, <2>0, <3>2, <3>3 DEF Accounted, Deletion, Clean
  <2> QED BY <2>1, <2>2, <2>3, <2>4, <2>5, <2>6 DEF Accounted
<1> QED BY <1>5, <1>6, <1>7 DEF PInv

\* A call that goes on within its operation, or ends, stays well formed.
LEMMA PGoesOn ==
  ASSUME PInv, NEW c \in Clients, call[c].at # "idle", NEW label \in PLabels \ {"idle"},
         NEW todo \in SUBSET Steps, Goto(c, label, todo),
         label \in Starting <=> call[c].at \in Starting,
         label \in Recording <=> call[c].at \in Recording,
         label \in Tracing <=> call[c].at \in Tracing,
         label \in Ending <=> call[c].at \in Ending,
         label \in Removing <=> call[c].at \in Removing
  PROVE  /\ PCalls' /\ raced' = raced /\ torn' = torn
         /\ \A e \in Clients \ {c} : call'[e] = call[e]
         /\ call'[c].on = call[c].on /\ call'[c].arg = call[c].arg
         /\ call'[c].at = label /\ call'[c].todo = todo
<1>1. /\ call' \in [Clients -> PCall] /\ raced' = raced /\ torn' = torn
      /\ \A e \in Clients \ {c} : call'[e] = call[e]
      /\ call'[c].op = call[c].op /\ call'[c].on = call[c].on /\ call'[c].arg = call[c].arg
      /\ call'[c].at = label /\ call'[c].todo = todo
  BY PGoto DEF PInv, PBase
<1>2. Shaped(call'[c])
  BY <1>1 DEF PInv, PBase, PCalls, Shaped
<1> QED BY <1>1, <1>2 DEF PInv, PBase, PCalls

LEMMA PEnds ==
  ASSUME PInv, NEW c \in Clients, call' = [call EXCEPT ![c] = Resting]
  PROVE  /\ PCalls' /\ \A e \in Clients \ {c} : call'[e] = call[e]
         /\ call'[c].at = "idle" /\ call'[c].on = {}
<1>1. /\ call' \in [Clients -> PCall]
      /\ \A e \in Clients \ {c} : call'[e] = call[e]
      /\ call'[c].op = "none" /\ call'[c].at = "idle" /\ call'[c].on = {}
  BY PRest DEF PInv, PBase
<1>2. Shaped(call'[c])
  BY <1>1 DEF Shaped, Starting, Recording, Tracing, Ending, Removing
<1> QED BY <1>1, <1>2 DEF PInv, PBase, PCalls

LEMMA PerishableData ==
  ASSUME NEW f \in [Sessions -> SUBSET Perishable]
  PROVE  f \in [Sessions -> SUBSET (Data \cup {Key("session"), Key("list")})]
<1>1. Perishable \subseteq Data \cup {Key("session"), Key("list")}
  BY DEF Perishable, Data, Key
<1> QED BY <1>1

LEMMA TtlType == PBase => ttl \in [Sessions -> SUBSET Perishable]
BY DEF PBase, PTypeOK

\* A step of a call that changes the record of its session and TTLs at most.
LEMMA RecordOnly ==
  ASSUME PInv, NEW c \in Clients, NEW n \in Sessions, call[c].on = {n},
         call[c].at \notin Removing \cup {"idle", "addCompleted"},
         call'[c].at \notin Removing \cup {"addCompleted"},
         PCalls', call'[c].on \subseteq {n},
         call'[c].on = {} \/ (call'[c].at \in Starting <=> call[c].at \in Starting),
         \A e \in Clients \ {c} : call'[e] = call[e],
         \A i \in Steps : Lists(call[c], n, i) => Lists(call'[c], n, i),
         session' \in [Sessions -> {"none", "json", "hash"}],
         ttl' \in [Sessions -> SUBSET Perishable],
         \A s \in Sessions \ {n} : session'[s] = session[s],
         UNCHANGED <<raced, torn, data, active, completed, known, doomed, deleted, unlisted>>
  PROVE  PInv'
<1>1. PBase'
  BY PerishableData DEF PInv, PBase, PTypeOK
<1>2. /\ \A s \in Sessions \ {n} : Accounted(s)'
      /\ Owned(n)' /\ Isolated(n)' /\ Deletion(n)'
  BY WorkKeeps
<1>3. Unborn(n)' /\ Placed(n)' /\ Indexed(n)'
  <2>1. Accounted(n)
    BY DEF PInv
  <2>2. Unborn(n)'
    BY <2>1 DEF Accounted, Unborn
  <2>3. Placed(n)'
    BY <2>1 DEF Accounted, Placed
  <2>4. Indexed(n)'
    <3>1. \A e \in Clients, i \in Steps : Lists(call[e], n, i) => Lists(call'[e], n, i)
      OBVIOUS
    <3> QED BY <2>1, <3>1 DEF Accounted, Indexed, Clean
  <2> QED BY <2>2, <2>3, <2>4
<1> QED BY <1>1, <1>2, <1>3 DEF PInv, Accounted

LEMMA SetSessionMoves ==
  ASSUME PBase, NEW n \in Sessions, NEW type \in {"none", "json", "hash"}, SetSession(n, type)
  PROVE  /\ session' \in [Sessions -> {"none", "json", "hash"}] /\ ttl' \in [Sessions -> SUBSET Perishable]
         /\ \A s \in Sessions \ {n} : session'[s] = session[s]
BY TtlType DEF SetSession, PBase, PTypeOK

LEMMA ExpireKeyMoves ==
  ASSUME PBase, NEW n \in Sessions, NEW key \in Perishable, ExpireKey(n, key) \/ UNCHANGED ttl
  PROVE  ttl' \in [Sessions -> SUBSET Perishable]
BY TtlType DEF ExpireKey

LEMMA PutSessionKeeps ==
  ASSUME PInv, NEW c \in Clients, PutSession(c) \/ PutCount(c)
  PROVE  PInv'
<1>1. /\ \/ call[c].at = "setNew" /\ Goto(c, "expireNew", {})
         \/ call[c].at = "setCount" /\ Goto(c, "zadd", {})
      /\ SetSession(Session(c), "json")
      /\ UNCHANGED <<data, active, completed, known, doomed, deleted, unlisted>>
  BY DEF PutSession, PutCount, At, proofSets, proofHistory
<1>2. PICK n \in Sessions : n = Session(c) /\ call[c].on = {n}
  BY <1>1, SessionIs DEF PInv, PBase
<1>3. /\ PCalls' /\ raced' = raced /\ torn' = torn
      /\ \A e \in Clients \ {c} : call'[e] = call[e]
      /\ call'[c].on = call[c].on /\ call'[c].arg = call[c].arg
      /\ \/ call[c].at = "setNew" /\ call'[c].at = "expireNew"
         \/ call[c].at = "setCount" /\ call'[c].at = "zadd"
  BY <1>1, PGoesOn DEF PLabels, Starting, Recording, Tracing, Ending, Removing
<1>4. /\ session' \in [Sessions -> {"none", "json", "hash"}] /\ ttl' \in [Sessions -> SUBSET Perishable]
      /\ \A s \in Sessions \ {n} : session'[s] = session[s]
  BY <1>1, <1>2, SetSessionMoves DEF PInv
<1>5. \A i \in Steps : Lists(call[c], n, i) => Lists(call'[c], n, i)
  BY <1>3 DEF Lists, Recording
<1> QED BY <1>1, <1>2, <1>3, <1>4, <1>5, RecordOnly DEF Starting, Removing

LEMMA ExpireSessionKeeps ==
  ASSUME PInv, NEW c \in Clients, ExpireSession(c)
  PROVE  PInv'
<1>1. /\ call[c].at = "expireNew" /\ Goto(c, "addActive", {}) /\ ExpireKey(Session(c), Key("session"))
      /\ UNCHANGED <<session, data, active, completed, known, doomed, deleted, unlisted>>
  BY DEF ExpireSession, At, proofSets, proofHistory
<1>2. PICK n \in Sessions : n = Session(c) /\ call[c].on = {n}
  BY <1>1, SessionIs DEF PInv, PBase
<1>3. /\ PCalls' /\ raced' = raced /\ torn' = torn
      /\ \A e \in Clients \ {c} : call'[e] = call[e]
      /\ call'[c].on = call[c].on /\ call'[c].at = "addActive"
  BY <1>1, PGoesOn DEF PLabels, Starting, Recording, Tracing, Ending, Removing
<1>4. ttl' \in [Sessions -> SUBSET Perishable] /\ session \in [Sessions -> {"none", "json", "hash"}]
  <2>1. Key("session") \in Perishable
    BY DEF Perishable
  <2> QED BY <1>1, <1>2, <2>1, ExpireKeyMoves DEF PInv, PBase, PTypeOK
<1>5. \A i \in Steps : ~Lists(call[c], n, i)
  BY <1>1 DEF Lists, Recording
<1> QED BY <1>1, <1>2, <1>3, <1>4, <1>5, RecordOnly DEF Starting, Removing

LEMMA ExpireStepKeeps ==
  ASSUME PInv, NEW c \in Clients, ExpireStep(c)
  PROVE  PInv'
<1>1. /\ call[c].at = "expireStep" /\ Goto(c, "setCount", {})
      /\ ExpireKey(Session(c), StepKey(call[c].arg)) \/ UNCHANGED ttl
      /\ UNCHANGED <<session, data, active, completed, known, doomed, deleted, unlisted>>
  BY DEF ExpireStep, At, proofSets, proofHistory
<1>2. PICK n \in Sessions : n = Session(c) /\ call[c].on = {n}
  BY <1>1, SessionIs DEF PInv, PBase
<1>3. /\ PCalls' /\ raced' = raced /\ torn' = torn
      /\ \A e \in Clients \ {c} : call'[e] = call[e]
      /\ call'[c].on = call[c].on /\ call'[c].arg = call[c].arg /\ call'[c].at = "setCount"
  BY <1>1, PGoesOn DEF PLabels, Starting, Recording, Tracing, Ending, Removing
<1>4. ttl' \in [Sessions -> SUBSET Perishable] /\ session \in [Sessions -> {"none", "json", "hash"}]
  <2>1. StepKey(call[c].arg) \in Perishable
    BY <1>1 DEF PInv, PBase, PCalls, Shaped, Recording, Perishable
  <2> QED BY <1>1, <1>2, <2>1, ExpireKeyMoves DEF PInv, PBase, PTypeOK
<1>5. \A i \in Steps : Lists(call[c], n, i) => Lists(call'[c], n, i)
  BY <1>1, <1>3 DEF Lists, Recording
<1> QED BY <1>1, <1>2, <1>3, <1>4, <1>5, RecordOnly DEF Starting, Removing

LEMMA MarkEndedKeeps ==
  ASSUME PInv, NEW c \in Clients, MarkEnded(c)
  PROVE  PInv'
<1>1. /\ call[c].at \in {"hsetDone", "hsetTime"}
      /\ UNCHANGED <<data, ttl, active, completed, known, doomed, deleted, unlisted>>
      /\ \/ Return(c) /\ UNCHANGED session
         \/ /\ Goto(c, "hsetTime", {}) \/ Goto(c, "remActive", {})
            /\ session' = [session EXCEPT ![Session(c)] = "hash"]
  BY DEF MarkEnded, At, proofSets, proofHistory
<1>2. PICK n \in Sessions : n = Session(c) /\ call[c].on = {n}
  BY <1>1, SessionIs DEF PInv, PBase
<1>3. /\ PCalls' /\ raced' = raced /\ torn' = torn
      /\ \A e \in Clients \ {c} : call'[e] = call[e]
      /\ call'[c].on \in {{}, {n}} /\ call'[c].at \in {"idle", "hsetTime", "remActive"}
      /\ call'[c].at = "idle" => call'[c].on = {}
  <2>1. CASE Return(c)
    <3>1. call' = [call EXCEPT ![c] = Resting] /\ raced' = raced /\ torn' = torn
      BY <2>1 DEF Return, history
    <3> QED BY <3>1, PEnds
  <2>2. CASE Goto(c, "hsetTime", {}) \/ Goto(c, "remActive", {})
    BY <1>1, <1>2, <2>2, PGoesOn DEF PLabels, Starting, Recording, Tracing, Ending, Removing
  <2> QED BY <1>1, <2>1, <2>2
<1>4. /\ session' \in [Sessions -> {"none", "json", "hash"}] /\ ttl' \in [Sessions -> SUBSET Perishable]
      /\ \A s \in Sessions \ {n} : session'[s] = session[s]
  BY <1>1, <1>2, TtlType DEF PInv, PBase, PTypeOK
<1>5. \A i \in Steps : ~Lists(call[c], n, i)
  BY <1>1 DEF Lists, Recording
<1>6. /\ call[c].at \notin Removing \cup Starting \cup {"idle", "addCompleted"}
      /\ call'[c].at \notin Removing \cup Starting \cup {"addCompleted"}
  BY <1>1, <1>3 DEF Starting, Removing
<1> QED BY <1>1, <1>2, <1>3, <1>4, <1>5, <1>6, RecordOnly

\* A step of recordStep or recordTrace that writes data of its session.
LEMMA DataOnly ==
  ASSUME PInv, NEW c \in Clients, NEW n \in Sessions, call[c].on = {n},
         call[c].at \in Recording \cup Tracing, call'[c].at \in Recording \cup Tracing \cup {"idle"},
         PCalls', call'[c].on \subseteq {n},
         \A e \in Clients \ {c} : call'[e] = call[e],
         data' \in [Sessions -> SUBSET Data], ttl' \in [Sessions -> SUBSET Perishable],
         \A s \in Sessions \ {n} : data'[s] = data[s],
         \A i \in Steps : Listed(i) \in data[n] => Listed(i) \in data'[n],
         n \notin unlisted => \A i \in Steps : StepKey(i) \in data'[n] =>
           \/ StepKey(i) \in data[n] /\ ~Lists(call[c], n, i)
           \/ Listed(i) \in data'[n]
           \/ Lists(call'[c], n, i),
         UNCHANGED <<raced, torn, session, active, completed, known, doomed, deleted, unlisted>>
  PROVE  PInv'
<1>0. /\ call[c].at \notin Removing \cup Starting \cup {"idle", "addCompleted"}
      /\ call'[c].at \notin Removing \cup Starting \cup {"addCompleted"}
  BY DEF Recording, Tracing, Removing, Starting
<1>1. PBase'
  BY PerishableData DEF PInv, PBase, PTypeOK
<1>2. /\ \A s \in Sessions \ {n} : Accounted(s)'
      /\ Owned(n)' /\ Isolated(n)' /\ Deletion(n)'
  BY <1>0, WorkKeeps
<1>3. Accounted(n)
  BY DEF PInv
<1>4. Unborn(n)'
  <2>1. n \in known
    BY <1>0, <1>3 DEF Accounted, Owned
  <2> QED BY <2>1 DEF Unborn
<1>5. Placed(n)'
  BY <1>0, <1>3 DEF Accounted, Placed
<1>6. Indexed(n)'
  <2> SUFFICES ASSUME Clean(n), n \notin unlisted, NEW i \in Steps, StepKey(i) \in data'[n],
                      Listed(i) \notin data'[n], ~Lists(call'[c], n, i)
               PROVE  \E e \in Clients : Lists(call'[e], n, i)
    BY DEF Indexed, Clean
  <2>1. PICK e \in Clients : Lists(call[e], n, i)
    BY <1>3 DEF Accounted, Indexed
  <2> QED BY <2>1
<1> QED BY <1>1, <1>2, <1>4, <1>5, <1>6 DEF PInv, Accounted

LEMMA PutDataMoves ==
  ASSUME PBase, NEW n \in Sessions, NEW key \in Data, PutData(n, {key})
  PROVE  /\ data' \in [Sessions -> SUBSET Data] /\ data'[n] = data[n] \cup {key}
         /\ \A s \in Sessions \ {n} : data'[s] = data[s]
BY DEF PutData, PBase, PTypeOK

LEMMA PutStepKeeps ==
  ASSUME PInv, NEW c \in Clients, PutStep(c)
  PROVE  PInv'
<1>1. /\ call[c].at = "setStep" /\ Goto(c, "expireStep", {})
      /\ PutData(Session(c), {StepKey(call[c].arg)})
      /\ ttl' = [ttl EXCEPT ![Session(c)] = @ \ {StepKey(call[c].arg)}]
      /\ UNCHANGED <<session, active, completed, known, doomed, deleted, unlisted>>
  BY DEF PutStep, At, proofSets, proofHistory
<1>2. PICK n \in Sessions : n = Session(c) /\ call[c].on = {n}
  BY <1>1, SessionIs DEF PInv, PBase
<1>3. /\ PCalls' /\ raced' = raced /\ torn' = torn
      /\ \A e \in Clients \ {c} : call'[e] = call[e]
      /\ call'[c].on = call[c].on /\ call'[c].arg = call[c].arg /\ call'[c].at = "expireStep"
  BY <1>1, PGoesOn DEF PLabels, Starting, Recording, Tracing, Ending, Removing
<1>4. call[c].arg \in Steps /\ StepKey(call[c].arg) \in Data
  BY <1>1 DEF PInv, PBase, PCalls, Shaped, Recording, Data
<1>5. /\ data' \in [Sessions -> SUBSET Data] /\ data'[n] = data[n] \cup {StepKey(call[c].arg)}
      /\ \A s \in Sessions \ {n} : data'[s] = data[s]
  BY <1>1, <1>2, <1>4, PutDataMoves DEF PInv
<1>6. ttl' \in [Sessions -> SUBSET Perishable]
  BY <1>1, <1>2, TtlType DEF PInv
<1>7. \A i \in Steps : (i = call[c].arg) <=> Lists(call'[c], n, i)
  BY <1>1, <1>2, <1>3 DEF Lists, Recording
<1>8. \A i \in Steps : StepKey(i) \in data'[n] =>
        (StepKey(i) \in data[n] /\ ~Lists(call[c], n, i)) \/ Lists(call'[c], n, i)
  BY <1>1, <1>2, <1>4, <1>5, <1>7 DEF StepKey, Lists
<1>9. call[c].at \in Recording /\ call'[c].at \in Recording
  BY <1>1, <1>3 DEF Recording
<1> QED BY <1>1, <1>2, <1>3, <1>5, <1>6, <1>8, <1>9, DataOnly

LEMMA ListStepKeeps ==
  ASSUME PInv, NEW c \in Clients, ListStep(c)
  PROVE  PInv'
<1>1. /\ call[c].at = "zadd" /\ Goto(c, "expireList", {})
      /\ PutData(Session(c), {Listed(call[c].arg)})
      /\ UNCHANGED <<session, ttl, active, completed, known, doomed, deleted, unlisted>>
  BY DEF ListStep, At, proofSets, proofHistory
<1>2. PICK n \in Sessions : n = Session(c) /\ call[c].on = {n}
  BY <1>1, SessionIs DEF PInv, PBase
<1>3. /\ PCalls' /\ raced' = raced /\ torn' = torn
      /\ \A e \in Clients \ {c} : call'[e] = call[e]
      /\ call'[c].on = call[c].on /\ call'[c].arg = call[c].arg /\ call'[c].at = "expireList"
  BY <1>1, PGoesOn DEF PLabels, Starting, Recording, Tracing, Ending, Removing
<1>4. call[c].arg \in Steps /\ Listed(call[c].arg) \in Data
  BY <1>1 DEF PInv, PBase, PCalls, Shaped, Recording, Data
<1>5. /\ data' \in [Sessions -> SUBSET Data] /\ data'[n] = data[n] \cup {Listed(call[c].arg)}
      /\ \A s \in Sessions \ {n} : data'[s] = data[s]
  BY <1>1, <1>2, <1>4, PutDataMoves DEF PInv
<1>6. ttl' \in [Sessions -> SUBSET Perishable]
  BY <1>1, TtlType DEF PInv
<1>7. \A i \in Steps : StepKey(i) \in data'[n] =>
        (StepKey(i) \in data[n] /\ ~Lists(call[c], n, i)) \/ Listed(i) \in data'[n]
  BY <1>5 DEF StepKey, Listed, Lists
<1>8. call[c].at \in Recording /\ call'[c].at \in Recording
  BY <1>1, <1>3 DEF Recording
<1> QED BY <1>1, <1>2, <1>3, <1>5, <1>6, <1>7, <1>8, DataOnly

LEMMA ExpireListKeeps ==
  ASSUME PInv, NEW c \in Clients, ExpireList(c)
  PROVE  PInv'
<1>1. /\ call[c].at = "expireList" /\ call' = [call EXCEPT ![c] = Resting]
      /\ raced' = raced /\ torn' = torn
      /\ ExpireKey(Session(c), Key("list")) \/ UNCHANGED ttl
      /\ UNCHANGED <<session, data, active, completed, known, doomed, deleted, unlisted>>
  BY DEF ExpireList, At, Return, history, proofSets, proofHistory
<1>2. PICK n \in Sessions : n = Session(c) /\ call[c].on = {n}
  BY <1>1, SessionIs DEF PInv, PBase
<1>3. /\ PCalls' /\ \A e \in Clients \ {c} : call'[e] = call[e]
      /\ call'[c].at = "idle" /\ call'[c].on = {}
  BY <1>1, PEnds
<1>4. ttl' \in [Sessions -> SUBSET Perishable] /\ data \in [Sessions -> SUBSET Data]
  <2>1. Key("list") \in Perishable
    BY DEF Perishable
  <2> QED BY <1>1, <1>2, <2>1, ExpireKeyMoves DEF PInv, PBase, PTypeOK
<1>5. \A i \in Steps : ~Lists(call[c], n, i)
  BY <1>1 DEF Lists
<1>6. call[c].at \in Recording
  BY <1>1 DEF Recording
<1> QED BY <1>1, <1>2, <1>3, <1>4, <1>5, <1>6, DataOnly

LEMMA PushTraceKeeps ==
  ASSUME PInv, NEW c \in Clients, PushTrace(c)
  PROVE  PInv'
<1>1. /\ \/ /\ call[c].at = "lpush" /\ Goto(c, "expireTrace", {})
            /\ PutData(Session(c), {Key("trace")}) /\ UNCHANGED ttl
         \/ /\ call[c].at = "expireTrace" /\ Return(c) /\ UNCHANGED data
            /\ ExpireKey(Session(c), Key("trace")) \/ UNCHANGED ttl
      /\ UNCHANGED <<session, active, completed, known, doomed, deleted, unlisted>>
  BY DEF PushTrace, At, proofSets, proofHistory
<1>2. PICK n \in Sessions : n = Session(c) /\ call[c].on = {n}
  BY <1>1, SessionIs DEF PInv, PBase
<1>3. Key("trace") \in Perishable \cap Data
  BY DEF Perishable, Data, Key
<1>4. call[c].at \in Tracing /\ \A i \in Steps : ~Lists(call[c], n, i)
  BY <1>1 DEF Tracing, Recording, Lists
<1>5. CASE call[c].at = "lpush"
  <2>1. /\ PCalls' /\ raced' = raced /\ torn' = torn
        /\ \A e \in Clients \ {c} : call'[e] = call[e]
        /\ call'[c].on = call[c].on /\ call'[c].at = "expireTrace"
    BY <1>1, <1>5, PGoesOn DEF PLabels, Starting, Recording, Tracing, Ending, Removing
  <2>2. /\ data' \in [Sessions -> SUBSET Data] /\ data'[n] = data[n] \cup {Key("trace")}
        /\ \A s \in Sessions \ {n} : data'[s] = data[s]
    BY <1>1, <1>2, <1>3, <1>5, PutDataMoves DEF PInv
  <2>3. \A i \in Steps : StepKey(i) \in data'[n] => StepKey(i) \in data[n]
    BY <2>2 DEF StepKey, Key
  <2>4. call'[c].at \in Tracing /\ ttl' \in [Sessions -> SUBSET Perishable]
    BY <1>1, <1>5, <2>1, TtlType DEF PInv, Tracing
  <2> QED BY <1>1, <1>2, <1>4, <2>1, <2>2, <2>3, <2>4, DataOnly
<1>6. CASE call[c].at = "expireTrace"
  <2>1. call' = [call EXCEPT ![c] = Resting] /\ raced' = raced /\ torn' = torn
    BY <1>1, <1>6 DEF Return, history
  <2>2. /\ PCalls' /\ \A e \in Clients \ {c} : call'[e] = call[e]
        /\ call'[c].at = "idle" /\ call'[c].on = {}
    BY <2>1, PEnds
  <2>3. data' = data /\ data \in [Sessions -> SUBSET Data]
    BY <1>1, <1>6 DEF PInv, PBase, PTypeOK
  <2>4. ttl' \in [Sessions -> SUBSET Perishable]
    BY <1>1, <1>2, <1>3, <1>6, ExpireKeyMoves DEF PInv
  <2> QED BY <1>1, <1>2, <1>4, <2>1, <2>2, <2>3, <2>4, DataOnly
<1> QED BY <1>1, <1>5, <1>6

\* endSession moves a session from the active ones to the completed ones.
LEMMA EndSessionKeeps ==
  ASSUME PInv, NEW c \in Clients, RemoveActive(c) \/ AddCompleted(c)
  PROVE  PInv'
<1>1. /\ \/ /\ call[c].at = "remActive" /\ Goto(c, "addCompleted", {})
            /\ active' = active \ {Session(c)} /\ completed' = completed
         \/ /\ call[c].at = "addCompleted" /\ Return(c)
            /\ active' = active /\ completed' = completed \cup {Session(c)}
      /\ UNCHANGED <<session, data, ttl, known, doomed, deleted, unlisted>>
  BY DEF RemoveActive, AddCompleted, At, proofHistory
<1>2. PICK n \in Sessions : n = Session(c) /\ call[c].on = {n}
  BY <1>1, SessionIs DEF PInv, PBase
<1>3. /\ PCalls' /\ raced' = raced /\ torn' = torn
      /\ \A e \in Clients \ {c} : call'[e] = call[e]
      /\ \/ call'[c].on = {n} /\ call'[c].at = "addCompleted" /\ call[c].at = "remActive"
         \/ call'[c].on = {} /\ call'[c].at = "idle" /\ call[c].at = "addCompleted"
  <2>1. CASE call[c].at = "remActive"
    BY <1>1, <1>2, <2>1, PGoesOn DEF PLabels, Starting, Recording, Tracing, Ending, Removing
  <2>2. CASE call[c].at = "addCompleted"
    <3>1. call' = [call EXCEPT ![c] = Resting] /\ raced' = raced /\ torn' = torn
      BY <1>1, <2>2 DEF Return, history
    <3> QED BY <2>2, <3>1, PEnds
  <2> QED BY <1>1, <2>1, <2>2
<1>4. /\ call[c].at \notin Removing \cup Starting \cup Recording \cup {"idle"}
      /\ call'[c].at \notin Removing \cup Starting
  BY <1>3 DEF Removing, Starting, Recording
<1>5. PBase'
  BY <1>1, <1>2, <1>3 DEF PInv, PBase, PTypeOK
<1>6. /\ \A s \in Sessions \ {n} : Accounted(s)'
      /\ Owned(n)' /\ Isolated(n)' /\ Deletion(n)'
  <2>1. \A s \in Sessions \ {n} : /\ s \in active <=> s \in active'
                                  /\ s \in completed <=> s \in completed'
    BY <1>1, <1>2
  <2> QED BY <1>1, <1>2, <1>3, <1>4, <2>1, WorkKeeps
<1>7. Accounted(n) /\ n \in known
  BY <1>2, <1>4 DEF PInv, Accounted, Owned
<1>8. Unborn(n)'
  BY <1>1, <1>7 DEF Unborn
<1>9. Placed(n)'
  BY <1>1, <1>2, <1>3, <1>7 DEF Accounted, Placed
<1>10. Indexed(n)'
  <2>1. \A i \in Steps : ~Lists(call[c], n, i)
    BY <1>4 DEF Lists
  <2>2. \A e \in Clients, i \in Steps : Lists(call[e], n, i) => Lists(call'[e], n, i)
    BY <1>3, <2>1
  <2> QED BY <1>1, <1>3, <1>7, <2>2 DEF Accounted, Indexed, Clean
<1> QED BY <1>5, <1>6, <1>8, <1>9, <1>10 DEF PInv, Accounted

LEMMA AddActiveKeeps ==
  ASSUME PInv, NEW c \in Clients, AddActive(c)
  PROVE  PInv'
<1>1. /\ call[c].at = "addActive" /\ call' = [call EXCEPT ![c] = Resting]
      /\ active' = active \cup {Session(c)} /\ known' = known \cup {Session(c)}
      /\ UNCHANGED <<raced, torn, session, data, ttl, completed, doomed, deleted, unlisted>>
  BY DEF AddActive, At, Return, history
<1>2. PICK n \in Sessions : n = Session(c) /\ call[c].on = {n}
  BY <1>1, SessionIs DEF PInv, PBase
<1>3. /\ PCalls' /\ \A e \in Clients \ {c} : call'[e] = call[e]
      /\ call'[c].at = "idle" /\ call'[c].on = {}
  BY <1>1, PEnds
<1>4. PBase'
  BY <1>1, <1>2, <1>3 DEF PInv, PBase, PTypeOK
<1>5. ASSUME NEW s \in Sessions \ {n} PROVE Accounted(s)'
  <2>1. \A e \in Clients : s \in call[e].on \cup call'[e].on => call'[e] = call[e]
    BY <1>2, <1>3
  <2> QED BY <1>1, <1>2, <2>1, Elsewhere DEF PInv
<1>6. Accounted(n)'
  <2>1. n \notin known /\ \A e \in Clients \ {c} : n \notin call[e].on
    <3>1. call[c].at \in Starting
      BY <1>1 DEF Starting
    <3> QED BY <1>2, <3>1 DEF PInv, Accounted, Owned
  <2>2. n \notin active \cup completed /\ data[n] = {} /\ n \notin deleted
    BY <2>1 DEF PInv, PBase, PTypeOK, Accounted, Unborn
  <2>3. \A e \in Clients : n \notin call'[e].on
    BY <1>3, <2>1
  <2>4. Owned(n)' /\ Isolated(n)' /\ Unborn(n)'
    BY <1>1, <1>2, <2>3 DEF Owned, Isolated, Unborn
  <2>5. Placed(n)' /\ Indexed(n)' /\ Deletion(n)'
    BY <1>1, <1>2, <2>2, <2>3 DEF Placed, Indexed, Deletion
  <2> QED BY <2>4, <2>5 DEF Accounted
<1> QED BY <1>4, <1>5, <1>6 DEF PInv

\* What a step of deleteSession leaves as it is.
LEMMA RemovalKeeps ==
  ASSUME PInv, NEW c \in Clients, NEW n \in Sessions, call[c].on = {n},
         call[c].at \in Removing, call'[c].at \in Removing \/ call'[c].on = {}, call'[c].on \subseteq {n},
         \A e \in Clients \ {c} : call'[e] = call[e],
         UNCHANGED <<raced, torn, known, doomed, unlisted>>,
         active' \subseteq active, completed' \subseteq completed,
         \A s \in Sessions \ {n} :
           /\ session'[s] = session[s] /\ data'[s] = data[s]
           /\ s \in active => s \in active'
           /\ s \in completed => s \in completed'
           /\ s \in deleted <=> s \in deleted'
  PROVE  /\ \A s \in Sessions \ {n} : Accounted(s)'
         /\ Owned(n)' /\ Unborn(n)' /\ Isolated(n)' /\ Placed(n)'
<1>1. ASSUME NEW s \in Sessions \ {n} PROVE Accounted(s)'
  <2>1. \A e \in Clients : s \in call[e].on \cup call'[e].on => call'[e] = call[e]
    OBVIOUS
  <2>2. /\ s \in active <=> s \in active'
        /\ s \in completed <=> s \in completed'
    OBVIOUS
  <2> QED BY <2>1, <2>2, Elsewhere DEF PInv
<1>2. Accounted(n) /\ n \in known /\ n \in doomed
  BY DEF PInv, Accounted, Owned, Removing, Starting
<1>3. /\ \A e \in Clients \ {c} : call'[e] = call[e]
      /\ n \in call'[c].on => call'[c].at \in Removing
      /\ call'[c].at \in Removing => call'[c].at \notin Starting /\ call'[c].at # "addCompleted"
  BY DEF Removing, Starting
<1>4. Owned(n)'
  BY <1>2, <1>3 DEF Accounted, Owned
<1>5. Isolated(n)'
  BY <1>2, <1>3 DEF Accounted, Isolated
<1>6. Unborn(n)' /\ Placed(n)'
  BY <1>2, <1>3 DEF Accounted, Unborn, Placed
<1> QED BY <1>1, <1>4, <1>5, <1>6

\* While a session is deleted that has not raced, nobody records a step.
LEMMA Alone ==
  ASSUME PInv, NEW c \in Clients, NEW n \in Sessions, n \in call[c].on, call[c].at \in Removing,
         n \notin raced
  PROVE  \A e \in Clients : n \in call[e].on =>
           call[e].at \in Removing /\ \A i \in Steps : ~Lists(call[e], n, i)
<1>1. \A e \in Clients : n \in call[e].on => call[e].at \in Removing
  BY DEF PInv, Accounted, Isolated
<1> QED BY <1>1 DEF Lists, Recording, Removing

LEMMA ReadStepsKeeps ==
  ASSUME PInv, NEW c \in Clients, ReadSteps(c)
  PROVE  PInv'
<1> DEFINE found == {k \in Steps : Listed(k) \in data[Session(c)]}
<1>1. call[c].at = "zrangeSteps" /\ Goto(c, "delSession", found) /\ UNCHANGED proofs
  BY DEF ReadSteps, At
<1>2. PICK n \in Sessions : n = Session(c) /\ call[c].on = {n}
  BY <1>1, SessionIs DEF PInv, PBase
<1>3. found \in SUBSET Steps /\ \A k \in Steps : Listed(k) \in data[n] => k \in found
  BY <1>2
<1> HIDE DEF found
<1>4. /\ PCalls' /\ raced' = raced /\ torn' = torn
      /\ \A e \in Clients \ {c} : call'[e] = call[e]
      /\ call'[c].on = call[c].on /\ call'[c].at = "delSession" /\ call'[c].todo = found
  BY <1>1, <1>3, PGoesOn DEF PLabels, Starting, Recording, Tracing, Ending, Removing
<1>5. PBase'
  BY <1>1, <1>4 DEF PInv, PBase, PTypeOK, proofs, proofSets
<1>6. call[c].at \in Removing /\ call'[c].at \in Removing
  BY <1>1, <1>4 DEF Removing
<1>7. /\ \A s \in Sessions \ {n} : Accounted(s)'
      /\ Owned(n)' /\ Unborn(n)' /\ Isolated(n)' /\ Placed(n)'
  BY <1>1, <1>2, <1>4, <1>6, RemovalKeeps DEF proofs, proofSets
<1>8. Indexed(n)'
  <2>1. \A e \in Clients, i \in Steps : Lists(call[e], n, i) => Lists(call'[e], n, i)
    BY <1>4, <1>6 DEF Lists, Removing, Recording
  <2> QED BY <1>1, <1>4, <2>1 DEF PInv, Accounted, Indexed, Clean, proofs, proofSets
<1>9. Deletion(n)'
  <2> SUFFICES ASSUME Clean(n) PROVE Deletion(n)'
    BY <1>4 DEF Deletion, Clean
  <2>1. n \notin unlisted => \A i \in Steps : StepKey(i) \in data[n] => i \in found
    BY <1>2, <1>3, <1>6, Alone DEF PInv, Accounted, Indexed, Clean, Lists
  <2>2. Gone(n)' <=> Gone(n)
    BY <1>1 DEF Gone, proofs
  <2>3. Vanishing(call[c], n)'
    BY <1>1, <1>4, <2>1 DEF Vanishing, proofs
  <2>4. ASSUME NEW e \in Clients \ {c}, Vanishing(call[e], n) PROVE Vanishing(call[e], n)'
    BY <1>1, <1>4, <2>2, <2>4 DEF Vanishing, proofs, proofSets
  <2> QED BY <1>1, <1>4, <1>6, <2>2, <2>3, <2>4 DEF PInv, Accounted, Deletion, Clean, proofs, proofSets
<1> QED BY <1>5, <1>7, <1>8, <1>9 DEF PInv, Accounted

LEMMA DropSessionKeeps ==
  ASSUME PInv, NEW c \in Clients, DropSession(c)
  PROVE  PInv'
<1>1. /\ call[c].at = "delSession" /\ Goto(c, "leaveActive", {})
      /\ UNCHANGED <<active, completed, known, doomed, deleted, unlisted>>
  BY DEF DropSession, At, proofSets, proofHistory
<1>2. PICK n \in Sessions : n = Session(c) /\ call[c].on = {n}
  BY <1>1, SessionIs DEF PInv, PBase
<1> DEFINE items == {Key("trace")} \cup {Listed(k) : k \in Steps} \cup {StepKey(k) : k \in call[c].todo}
<1>3. /\ session' = [session EXCEPT ![n] = "none"]
      /\ data' = [data EXCEPT ![n] = @ \ items]
      /\ ttl' = [ttl EXCEPT ![n] = @ \ ({Key("session"), Key("list")} \cup items)]
  BY <1>2 DEF DropSession
<1>4. /\ PCalls' /\ raced' = raced /\ torn' = torn
      /\ \A e \in Clients \ {c} : call'[e] = call[e]
      /\ call'[c].on = call[c].on /\ call'[c].at = "leaveActive"
  BY <1>1, PGoesOn DEF PLabels, Starting, Recording, Tracing, Ending, Removing
<1>5. /\ data[n] \subseteq Data /\ data'[n] = data[n] \ items
      /\ session'[n] = "none" /\ \A s \in Sessions \ {n} : session'[s] = session[s] /\ data'[s] = data[s]
  BY <1>3 DEF PInv, PBase, PTypeOK
<1>6. PBase'
  <2>1. ttl' \in [Sessions -> SUBSET Perishable]
    BY <1>3, TtlType DEF PInv
  <2>2. data' \in [Sessions -> SUBSET Data]
    BY <1>3 DEF PInv, PBase, PTypeOK
  <2> QED BY <1>1, <1>3, <1>4, <2>1, <2>2, PerishableData DEF PInv, PBase, PTypeOK
<1>7. \A d \in data'[n] : \E i \in Steps : d = StepKey(i) /\ i \notin call[c].todo
  BY <1>5 DEF Data, Key
<1>8. \A i \in Steps : StepKey(i) \in data'[n] => StepKey(i) \in data[n] /\ i \notin call[c].todo
  BY <1>5
<1> HIDE DEF items
<1>9. call[c].at \in Removing /\ call'[c].at \in Removing
  BY <1>1, <1>4 DEF Removing
<1>10. /\ \A s \in Sessions \ {n} : Accounted(s)'
       /\ Owned(n)' /\ Unborn(n)' /\ Isolated(n)' /\ Placed(n)'
  BY <1>1, <1>2, <1>4, <1>5, <1>9, RemovalKeeps
<1>11. Clean(n) /\ n \notin unlisted => \A i \in Steps : StepKey(i) \notin data'[n]
  BY <1>1, <1>2, <1>8 DEF PInv, Accounted, Deletion, Vanishing
<1>12. Indexed(n)'
  BY <1>1, <1>4, <1>11 DEF Indexed, Clean
<1>13. Deletion(n)'
  <2> SUFFICES ASSUME Clean(n) PROVE Deletion(n)'
    BY <1>4 DEF Deletion, Clean
  <2>1. Gone(n)'
    BY <1>1, <1>5, <1>7, <1>11 DEF Gone
  <2>2. Vanishing(call[c], n)'
    BY <1>4, <2>1 DEF Vanishing
  <2>3. ASSUME NEW e \in Clients \ {c}, Vanishing(call[e], n) PROVE Vanishing(call[e], n)'
    BY <1>1, <1>4, <1>8, <2>1, <2>3 DEF Vanishing
  <2> QED BY <1>1, <1>4, <1>9, <2>1, <2>2, <2>3 DEF PInv, Accounted, Deletion, Clean
<1> QED BY <1>6, <1>10, <1>12, <1>13 DEF PInv, Accounted

LEMMA LeaveSetsKeeps ==
  ASSUME PInv, NEW c \in Clients, LeaveSets(c)
  PROVE  PInv'
<1>1. /\ \/ /\ call[c].at = "leaveActive" /\ Goto(c, "leaveCompleted", {})
            /\ active' = active \ {Session(c)} /\ UNCHANGED <<completed, deleted>>
         \/ /\ call[c].at = "leaveCompleted" /\ Return(c)
            /\ completed' = completed \ {Session(c)} /\ deleted' = deleted \cup {Session(c)}
            /\ UNCHANGED active
      /\ UNCHANGED <<session, data, ttl, known, doomed, unlisted>>
  BY DEF LeaveSets, At
<1>2. PICK n \in Sessions : n = Session(c) /\ call[c].on = {n}
  BY <1>1, SessionIs DEF PInv, PBase
<1>3. /\ PCalls' /\ raced' = raced /\ torn' = torn
      /\ \A e \in Clients \ {c} : call'[e] = call[e]
      /\ \/ call'[c].on = {n} /\ call'[c].at = "leaveCompleted" /\ call[c].at = "leaveActive"
         \/ call'[c].on = {} /\ call'[c].at = "idle" /\ call[c].at = "leaveCompleted"
  <2>1. CASE call[c].at = "leaveActive"
    BY <1>1, <1>2, <2>1, PGoesOn DEF PLabels, Starting, Recording, Tracing, Ending, Removing
  <2>2. CASE call[c].at = "leaveCompleted"
    <3>1. call' = [call EXCEPT ![c] = Resting] /\ raced' = raced /\ torn' = torn
      BY <1>1, <2>2 DEF Return, history
    <3> QED BY <2>2, <3>1, PEnds
  <2> QED BY <1>1, <2>1, <2>2
<1>4. call[c].at \in Removing /\ call'[c].at \in Removing \cup {"idle"}
  BY <1>3 DEF Removing
<1>5. Accounted(n) /\ n \in doomed
  BY <1>2, <1>4 DEF PInv, Accounted, Owned
<1>6. PBase'
  BY <1>1, <1>2, <1>3, <1>5 DEF PInv, PBase, PTypeOK
<1>7. /\ \A s \in Sessions \ {n} : Accounted(s)'
      /\ Owned(n)' /\ Unborn(n)' /\ Isolated(n)' /\ Placed(n)'
  <2>1. \A s \in Sessions \ {n} :
          /\ s \in active => s \in active'
          /\ s \in completed => s \in completed'
          /\ s \in deleted <=> s \in deleted'
    BY <1>1, <1>2
  <2>2. active' \subseteq active /\ completed' \subseteq completed
    BY <1>1
  <2> QED BY <1>1, <1>2, <1>3, <1>4, <2>1, <2>2, RemovalKeeps
<1>8. Indexed(n)'
  <2>1. \A e \in Clients, i \in Steps : Lists(call[e], n, i) => Lists(call'[e], n, i)
    BY <1>3 DEF Lists, Recording
  <2> QED BY <1>1, <1>3, <1>5, <2>1 DEF Accounted, Indexed, Clean
<1>9. Deletion(n)'
  <2> SUFFICES ASSUME Clean(n) PROVE Deletion(n)'
    BY <1>3 DEF Deletion, Clean
  <2>1. Gone(n) /\ (call[c].at = "leaveCompleted" => n \notin active)
    BY <1>2, <1>3, <1>5 DEF Accounted, Deletion, Vanishing
  <2>2. Gone(n)'
    BY <1>1, <2>1 DEF Gone
  <2>3. call'[c].at = "leaveCompleted" => n \notin active'
    BY <1>1, <1>2, <1>3
  <2>4. Vanishing(call[c], n)'
    BY <1>3, <2>2, <2>3 DEF Vanishing
  <2>5. ASSUME NEW e \in Clients \ {c}, Vanishing(call[e], n) PROVE Vanishing(call[e], n)'
    BY <1>1, <1>3, <2>2, <2>5 DEF Vanishing
  <2>6. \A e \in Clients : n \in call'[e].on => call'[e].at \in Removing
    BY <1>2, <1>3, <1>4, Alone DEF Clean
  <2>7. n \in deleted' => n \notin active' \cup completed'
    BY <1>1, <1>2, <1>5, <2>1 DEF Accounted, Deletion
  <2> QED BY <1>3, <1>5, <2>2, <2>4, <2>5, <2>6, <2>7 DEF Accounted, Deletion
<1> QED BY <1>6, <1>7, <1>8, <1>9 DEF PInv, Accounted

LEMMA PStopKeeps ==
  ASSUME PInv, NEW c \in Clients, Stop(c), UNCHANGED proofs
  PROVE  PInv'
<1>1. /\ call[c].at # "idle" /\ call' = [call EXCEPT ![c] = Resting]
      /\ raced' = raced /\ torn' = torn \cup call[c].on
      /\ UNCHANGED <<session, data, ttl, active, completed, known, doomed, deleted, unlisted>>
  BY DEF Stop, At, proofs, proofSets
<1>2. PICK n \in Sessions : call[c].on = {n}
  BY <1>1, SessionIs DEF PInv, PBase
<1>3. /\ PCalls' /\ \A e \in Clients \ {c} : call'[e] = call[e]
      /\ call'[c].at = "idle" /\ call'[c].on = {}
  BY <1>1, PEnds
<1>4. PBase'
  BY <1>1, <1>3 DEF PInv, PBase, PTypeOK
<1>5. ASSUME NEW s \in Sessions \ {n} PROVE Accounted(s)'
  <2>1. \A e \in Clients : s \in call[e].on \cup call'[e].on => call'[e] = call[e]
    BY <1>2, <1>3
  <2> QED BY <1>1, <1>2, <2>1, Elsewhere DEF PInv
<1>6. Accounted(n)'
  <2>1. Accounted(n) /\ n \in torn'
    BY <1>1, <1>2 DEF PInv
  <2>2. Owned(n)' /\ Unborn(n)'
    BY <1>1, <1>3, <2>1 DEF Accounted, Owned, Unborn
  <2>3. Isolated(n)' /\ Placed(n)'
    BY <1>1, <1>3, <2>1 DEF Accounted, Isolated, Placed
  <2>4. Indexed(n)' /\ Deletion(n)'
    BY <2>1 DEF Indexed, Deletion, Clean
  <2> QED BY <2>2, <2>3, <2>4 DEF Accounted
<1> QED BY <1>4, <1>5, <1>6 DEF PInv

\* The list of steps expires after the steps, or is noted in unlisted.
LEMMA LapseSessionKeeps ==
  ASSUME PInv, LapseSession
  PROVE  PInv'
<1>1. PICK n \in Sessions : \E key \in ttl[n] :
        /\ ttl' = [ttl EXCEPT ![n] = @ \ {key}]
        /\ session' = IF key = Key("session") THEN [session EXCEPT ![n] = "none"] ELSE session
        /\ data' = [data EXCEPT ![n] =
                      IF key = Key("list") THEN {d \in @ : d[1] # "listed"} ELSE @ \ {key}]
        /\ key = Key("list") /\ n \notin torn => \A k \in Outlived(n) : \E c \in Clients : Records(c, n, k)
        /\ unlisted' = IF key = Key("list") /\ \E c \in Clients : At(c, "expireList") /\ n \in call[c].on
                         THEN unlisted \cup {n} ELSE unlisted
  BY DEF LapseSession
<1>2. PICK key \in ttl[n] :
        /\ ttl' = [ttl EXCEPT ![n] = @ \ {key}]
        /\ session' = IF key = Key("session") THEN [session EXCEPT ![n] = "none"] ELSE session
        /\ data' = [data EXCEPT ![n] =
                      IF key = Key("list") THEN {d \in @ : d[1] # "listed"} ELSE @ \ {key}]
        /\ key = Key("list") /\ n \notin torn => \A k \in Outlived(n) : \E c \in Clients : Records(c, n, k)
        /\ unlisted' = IF key = Key("list") /\ \E c \in Clients : At(c, "expireList") /\ n \in call[c].on
                         THEN unlisted \cup {n} ELSE unlisted
  BY <1>1
<1>3. UNCHANGED <<call, raced, torn, active, completed, known, doomed, deleted>>
  BY DEF LapseSession, Instant, proofSets
<1>4. key \in Perishable /\ data[n] \subseteq Data
  BY DEF PInv, PBase, PTypeOK
<1>5. Accounted(n)
  BY DEF PInv
<1>6. /\ data'[n] \subseteq data[n] /\ session'[n] \in {session[n], "none"}
      /\ unlisted \subseteq unlisted' /\ unlisted' \subseteq unlisted \cup {n}
      /\ \A s \in Sessions \ {n} : session'[s] = session[s] /\ data'[s] = data[s]
  BY <1>2 DEF PInv, PBase, PTypeOK
<1>7. PBase'
  <2>1. ttl' \in [Sessions -> SUBSET Perishable]
    BY <1>2, TtlType DEF PInv
  <2>2. data' \in [Sessions -> SUBSET Data] /\ session' \in [Sessions -> {"none", "json", "hash"}]
    BY <1>2 DEF PInv, PBase, PTypeOK
  <2>3. unlisted' \subseteq known
    <3>1. ASSUME NEW c \in Clients, call[c].at = "expireList", n \in call[c].on PROVE n \in known
      BY <1>5, <3>1 DEF Accounted, Owned, Starting
    <3> QED BY <1>2, <3>1 DEF At, PInv, PBase, PTypeOK
  <2> QED BY <1>3, <2>1, <2>2, <2>3, PerishableData DEF PInv, PBase, PTypeOK, PCalls
<1>8. ASSUME NEW s \in Sessions \ {n} PROVE Accounted(s)'
  BY <1>3, <1>6, Elsewhere DEF PInv
<1>9. Owned(n)' /\ Isolated(n)' /\ Placed(n)'
  BY <1>3, <1>5 DEF Accounted, Owned, Isolated, Placed
<1>10. Unborn(n)'
  BY <1>3, <1>5, <1>6 DEF Accounted, Unborn
<1>11. Indexed(n)'
  <2> SUFFICES ASSUME Clean(n), n \notin unlisted', NEW i \in Steps, StepKey(i) \in data'[n],
                      Listed(i) \notin data'[n]
               PROVE  \E e \in Clients : Lists(call[e], n, i)
    BY <1>3 DEF Indexed, Clean
  <2>1. CASE Listed(i) \notin data[n]
    BY <1>5, <1>6, <2>1 DEF Accounted, Indexed
  <2>2. CASE Listed(i) \in data[n] /\ key # Key("list")
    <3>1. data'[n] = data[n] \ {key}
      BY <1>2, <2>2 DEF PInv, PBase, PTypeOK
    <3>2. key # Listed(i)
      BY <1>4 DEF Perishable, Key, StepKey, Listed
    <3> QED BY <2>2, <3>1, <3>2
  <2>3. CASE Listed(i) \in data[n] /\ key = Key("list")
    <3>1. i \in Outlived(n) /\ n \notin torn
      BY <1>6, <2>3 DEF Outlived, Clean
    <3>2. PICK e \in Clients : Records(e, n, i)
      BY <1>2, <2>3, <3>1
    <3>3. call[e].at # "expireList"
      BY <1>2, <2>3, <3>2 DEF At, Records
    <3>4. call[e].at \in Recording
      BY <3>2 DEF PInv, PBase, PCalls, PCall, POps, PLabels, Shaped, Records
    <3> QED BY <3>2, <3>3, <3>4 DEF Lists, Records
  <2> QED BY <2>1, <2>2, <2>3
<1>12. Deletion(n)'
  <2>1. Gone(n) => Gone(n)'
    BY <1>6 DEF Gone
  <2>2. ASSUME NEW e \in Clients, Vanishing(call[e], n) PROVE Vanishing(call[e], n)'
    BY <1>3, <1>6, <2>1, <2>2 DEF Vanishing
  <2> QED BY <1>3, <1>5, <2>1, <2>2 DEF Accounted, Deletion, Clean
<1> QED BY <1>7, <1>8, <1>9, <1>10, <1>11, <1>12 DEF PInv, Accounted

LEMMA PNextKeeps ==
  ASSUME PInv, PNext
  PROVE  PInv'
<1>1. ASSUME NEW c \in Clients, NEW s \in Sessions,
             \/ StartSession(c, s) \/ RecordTrace(c, s) \/ EndSession(c, s) \/ DeleteSession(c, s)
             \/ \E k \in Steps : RecordStep(c, s, k)
      PROVE  PInv'
  BY <1>1, StartSessionKeeps, UseKeeps, DeleteSessionKeeps
<1>2. ASSUME NEW c \in Clients,
             \/ PutSession(c) \/ ExpireSession(c) \/ AddActive(c)
             \/ PutStep(c) \/ ExpireStep(c) \/ PutCount(c) \/ ListStep(c) \/ ExpireList(c)
      PROVE  PInv'
  BY <1>2, PutSessionKeeps, ExpireSessionKeeps, AddActiveKeeps, PutStepKeeps, ExpireStepKeeps,
     ListStepKeeps, ExpireListKeeps
<1>3. ASSUME NEW c \in Clients,
             \/ PushTrace(c) \/ MarkEnded(c) \/ RemoveActive(c) \/ AddCompleted(c)
             \/ ReadSteps(c) \/ DropSession(c) \/ LeaveSets(c)
      PROVE  PInv'
  BY <1>3, PushTraceKeeps, MarkEndedKeeps, EndSessionKeeps, ReadStepsKeeps, DropSessionKeeps,
     LeaveSetsKeeps
<1> QED BY <1>1, <1>2, <1>3, LapseSessionKeeps DEF PNext

\* A behaviour that uses another store starts no session.
SessionInv == IF store = "sessions" THEN PInv ELSE known = {} /\ PTypeOK

LEMMA SessionInvStep ==
  ASSUME SessionInv, [Next]_vars
  PROVE  SessionInv'
<1>1. CASE UNCHANGED vars
  <2>1. UNCHANGED <<call, raced, torn, session, data, ttl, active, completed, known, doomed, deleted,
                    unlisted, store>>
    BY <1>1 DEF vars, calls, history, proofs, proofSets
  <2>2. ASSUME PInv PROVE PInv'
    <3>1. PBase'
      BY <2>1, <2>2 DEF PInv, PBase, PTypeOK, PCalls
    <3>2. ASSUME NEW s \in Sessions PROVE Accounted(s)'
      BY <2>1, <2>2, Elsewhere DEF PInv
    <3> QED BY <3>1, <3>2 DEF PInv
  <2> QED BY <2>1, <2>2 DEF SessionInv, PTypeOK
<1>2. CASE Next /\ store # "sessions"
  BY <1>2 DEF Next, SessionInv, PTypeOK, proofs, proofSets
<1>3. CASE Next /\ store = "sessions"
  <2>1. PInv /\ store' = "sessions"
    BY <1>3 DEF Next, SessionInv
  <2>2. CASE PNext
    BY <2>1, <2>2, PNextKeeps DEF SessionInv
  <2>3. ASSUME NEW c \in Clients, Stop(c), UNCHANGED proofs PROVE SessionInv'
    BY <2>1, <2>3, PStopKeeps DEF SessionInv
  <2> QED BY <1>3, <2>2, <2>3 DEF Next
<1> QED BY <1>1, <1>2, <1>3

\* A session that was started is among the active or the completed ones until
\* it is deleted, and a deletion leaves nothing behind but what expired out of
\* its list, whichever calls overlap on other sessions or go together on this
\* one: SessionsAccounted, for every number of clients, sessions and steps.
THEOREM SessionsAreAccounted == Spec => []SessionsAccounted
<1>1. Init => SessionInv
  BY PInvInit DEF Init, SessionInv, PInit, PInv, PBase
<1>2. SessionInv /\ [Next]_vars => SessionInv'
  BY SessionInvStep
<1>3. SessionInv => SessionsAccounted
  <2> SUFFICES ASSUME SessionInv, NEW s \in known, Quiet(s), Clean(s)
               PROVE  /\ s \notin doomed => (s \in active <=> s \notin completed)
                      /\ s \in deleted =>
                           /\ session[s] = "none" /\ s \notin active \cup completed
                           /\ data[s] \subseteq {StepKey(k) : k \in IF s \in unlisted THEN Steps ELSE {}}
    BY DEF SessionsAccounted
  <2>1. PInv /\ s \in Sessions
    BY DEF SessionInv, PInv, PBase, PTypeOK
  <2>2. Placed(s) /\ Deletion(s)
    BY <2>1 DEF PInv, Accounted
  <2> QED BY <2>2 DEF Placed, Deletion, Gone, Quiet, Clean
<1> QED BY <1>1, <1>2, <1>3, PTL DEF Spec
=============================================================================
