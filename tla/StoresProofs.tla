---------------------------- MODULE StoresProofs ----------------------------
(***************************************************************************)
(* Proofs about the stores, for every set of clients, whichever of their   *)
(* calls overlap and wherever they are stopped.                            *)
(***************************************************************************)
EXTENDS IndexProofs

-----------------------------------------------------------------------------
(* The dependency graph.                                                   *)

Storing  == {"hset", "addDeps", "addRdeps", "expireRecord", "expireDeps"}
Deleting == {"smembers", "remRdeps", "del"}
DCall == [op : {"none", "storeDecl", "deleteDecl"},
          at : {"idle"} \cup Storing \cup Deleting,
          on : SUBSET Names, arg : SUBSET Names, todo : SUBSET Names]

\* What a call of storeDecl or deleteDecl looks like.
Formed(k) ==
  /\ k.at = "idle" => k.op = "none" /\ k.on = {}
  /\ k.at \in Storing => k.op = "storeDecl"
  /\ k.at \in Deleting => k.op = "deleteDecl"
  /\ k.at # "idle" => \E n \in Names : k.on = {n}
  /\ k.at \in {"addDeps", "addRdeps"} => k.todo \subseteq k.arg
DCalls == call \in [Clients -> DCall] /\ \A c \in Clients : Formed(call[c])

\* Two calls that do not go together have noticed each other.
Rivals ==
  \A c, e \in Clients : \A n \in call[c].on \cap call[e].on :
    call[c].at \in Storing /\ call[e].at \in Deleting => n \in raced

\* What call k has done of its work so far.
Done(k) ==
  \A n \in k.on : n \notin raced \cup lapsed =>
    /\ k.at = "addDeps" => k.arg \ k.todo \subseteq deps[n]
    /\ k.at = "addRdeps" => k.arg \subseteq deps[n]
    /\ k.at = "remRdeps" => \A d \in Names : n \in rdeps[d] => d \in k.todo
    /\ k.at = "del" => \A d \in Names : n \notin rdeps[d]
AllDone == \A c \in Clients : Done(call[c])

\* Whoever is known as a dependent depends.
Linked ==
  \A n, d \in Names : n \in rdeps[d] /\ n \notin raced \cup lapsed => d \in deps[n]

\* Call k will still make n a dependent of d, or removes n.
Owes(k, n, d) ==
  /\ n \in k.on
  /\ \/ k.at = "addDeps" /\ d \in k.arg
     \/ k.at = "addRdeps" /\ d \in k.todo
     \/ k.at \in {"remRdeps", "del"}
Known ==
  \A n, d \in Names :
    d \in deps[n] /\ Clean(n) /\ d \notin dropped
      => n \in rdeps[d] \/ \E c \in Clients : Owes(call[c], n, d)

DInv == DTypeOK /\ DCalls /\ Rivals /\ AllDone /\ Linked /\ Known

LEMMA DInvInit == CInit /\ DInit => DInv
<1> SUFFICES ASSUME CInit, DInit PROVE DInv
  OBVIOUS
<1> QED BY DEF CInit, DInit, DInv, DTypeOK, DCalls, DCall, Formed, Rivals, AllDone, Done,
                Linked, Known, Resting, Storing, Deleting

LEMMA SubjectIs ==
  ASSUME DCalls, NEW c \in Clients, call[c].at # "idle"
  PROVE  Subject(c) \in Names /\ call[c].on = {Subject(c)}
BY DEF DCalls, Formed, Subject

\* The effect of the three ways in which a call goes on.
LEMMA GotoMoves ==
  ASSUME DCalls, NEW c \in Clients, NEW label \in {"idle"} \cup Storing \cup Deleting,
         NEW todo \in SUBSET Names, Goto(c, label, todo)
  PROVE  /\ call' \in [Clients -> DCall] /\ raced' = raced /\ torn' = torn
         /\ \A e \in Clients \ {c} : call'[e] = call[e]
         /\ call'[c].op = call[c].op /\ call'[c].on = call[c].on /\ call'[c].arg = call[c].arg
         /\ call'[c].at = label /\ call'[c].todo = todo
BY DEF DCalls, DCall, Goto, history

LEMMA RestMoves ==
  ASSUME DCalls, NEW c \in Clients, call' = [call EXCEPT ![c] = Resting]
  PROVE  /\ call' \in [Clients -> DCall]
         /\ \A e \in Clients \ {c} : call'[e] = call[e]
         /\ call'[c] = Resting
BY DEF DCalls, DCall, Resting

LEMMA RivalsKept ==
  ASSUME DCalls, Rivals, NEW c \in Clients, raced \subseteq raced',
         \A e \in Clients \ {c} : call'[e] = call[e],
         call'[c].on \subseteq call[c].on,
         call'[c].at \in Storing => call[c].at \in Storing,
         call'[c].at \in Deleting => call[c].at \in Deleting
  PROVE  Rivals'
<1> SUFFICES ASSUME NEW a \in Clients, NEW b \in Clients, NEW n \in call'[a].on \cap call'[b].on,
                    call'[a].at \in Storing, call'[b].at \in Deleting
             PROVE  n \in raced'
  BY DEF Rivals
<1>1. \A e \in Clients :
        /\ call'[e].on \subseteq call[e].on
        /\ call'[e].at \in Storing => call[e].at \in Storing
        /\ call'[e].at \in Deleting => call[e].at \in Deleting
  OBVIOUS
<1>2. n \in call[a].on \cap call[b].on /\ call[a].at \in Storing /\ call[b].at \in Deleting
  BY <1>1
<1> QED BY <1>2 DEF Rivals

\* While a name that has not raced is stored, nobody deletes it.
LEMMA Apart ==
  ASSUME DCalls, Rivals, NEW c \in Clients, NEW e \in Clients, NEW n \in call[c].on,
         n \notin raced, n \in call[e].on, call[c].at \in Storing
  PROVE  call[e].at \notin Deleting
BY DEF Rivals

\* What a step of c must do for the others' work, if it stays well formed.
LEMMA OthersDone ==
  ASSUME AllDone, NEW c \in Clients, raced \subseteq raced', lapsed \subseteq lapsed',
         \A e \in Clients \ {c} : call'[e] = call[e],
         \A e \in Clients \ {c} : \A n \in call[e].on : n \notin raced' \cup lapsed' =>
            /\ call[e].at \in {"addDeps", "addRdeps"} => deps[n] \subseteq deps'[n]
            /\ call[e].at \in {"remRdeps", "del"} =>
                 \A d \in Names : n \in rdeps'[d] => n \in rdeps[d],
         Done(call[c])'
  PROVE  AllDone'
<1> SUFFICES ASSUME NEW e \in Clients \ {c}, NEW n \in call[e].on, n \notin raced' \cup lapsed'
             PROVE  /\ call[e].at = "addDeps" => call[e].arg \ call[e].todo \subseteq deps'[n]
                    /\ call[e].at = "addRdeps" => call[e].arg \subseteq deps'[n]
                    /\ call[e].at = "remRdeps" => \A d \in Names : n \in rdeps'[d] => d \in call[e].todo
                    /\ call[e].at = "del" => \A d \in Names : n \notin rdeps'[d]
  BY DEF AllDone, Done
<1>1. /\ call[e].at = "addDeps" => call[e].arg \ call[e].todo \subseteq deps[n]
      /\ call[e].at = "addRdeps" => call[e].arg \subseteq deps[n]
      /\ call[e].at = "remRdeps" => \A d \in Names : n \in rdeps[d] => d \in call[e].todo
      /\ call[e].at = "del" => \A d \in Names : n \notin rdeps[d]
  BY DEF AllDone, Done
<1> QED BY <1>1

LEMMA BeginKeeps ==
  ASSUME DInv, DTypeOK', NEW c \in Clients, NEW n \in Names,
         DeleteDecl(c, n) \/ \E D \in SUBSET Names : StoreDecl(c, n, D)
  PROVE  DInv'
<1>1. PICK op \in {"storeDecl", "deleteDecl"}, label \in {"hset", "smembers"}, D \in SUBSET Names,
           rivals \in {{"storeDecl"}, {"deleteDecl"}} :
        /\ Begin(c, op, label, {n}, D, rivals)
        /\ op = "storeDecl" <=> label = "hset"
        /\ op \notin rivals
  BY DEF DeleteDecl, StoreDecl
<1>2. UNCHANGED declarations
  BY DEF DeleteDecl, StoreDecl
<1>3. /\ call' \in [Clients -> DCall] /\ torn' = torn
      /\ \A e \in Clients \ {c} : call'[e] = call[e]
      /\ call'[c] = [op |-> op, at |-> label, on |-> {n}, arg |-> D, todo |-> {}]
      /\ call[c].at = "idle"
      /\ raced \subseteq raced'
      /\ \A e \in Clients : call[e].op \in rivals /\ n \in call[e].on => n \in raced'
  <2>1. raced' = raced \cup UNION {call[d].on \cap {n} : d \in {d \in Clients : call[d].op \in rivals}}
    BY <1>1 DEF Begin
  <2>2. \A e \in Clients : call[e].op \in rivals /\ n \in call[e].on => n \in raced'
    BY <2>1
  <2>3. /\ call[c].at = "idle" /\ torn' = torn
        /\ call' = [call EXCEPT ![c] = [op |-> op, at |-> label, on |-> {n}, arg |-> D, todo |-> {}]]
    BY <1>1 DEF Begin, At
  <2>4. [op |-> op, at |-> label, on |-> {n}, arg |-> D, todo |-> {}] \in DCall
    BY DEF DCall, Storing, Deleting
  <2> QED BY <2>1, <2>2, <2>3, <2>4 DEF DInv, DCalls
<1>4. DCalls'
  BY <1>1, <1>3 DEF DInv, DCalls, Formed, Storing, Deleting
<1>5. Rivals'
  <2> SUFFICES ASSUME NEW a \in Clients, NEW b \in Clients, NEW m \in call'[a].on \cap call'[b].on,
                      call'[a].at \in Storing, call'[b].at \in Deleting
               PROVE  m \in raced'
    BY DEF Rivals
  <2>1. CASE a # c /\ b # c
    BY <1>3, <2>1 DEF DInv, Rivals
  <2>2. CASE a = c /\ b # c
    <3>1. m = n /\ label = "hset" /\ call[b].op = "deleteDecl" /\ n \in call[b].on
      BY <1>1, <1>3, <2>2 DEF DInv, DCalls, Formed, Storing
    <3> QED BY <1>1, <1>3, <3>1
  <2>3. CASE a # c /\ b = c
    <3>1. m = n /\ label = "smembers" /\ call[a].op = "storeDecl" /\ n \in call[a].on
      BY <1>1, <1>3, <2>3 DEF DInv, DCalls, Formed, Deleting
    <3> QED BY <1>1, <1>3, <3>1
  <2>4. CASE a = c /\ b = c
    BY <1>1, <1>3, <2>4 DEF Storing, Deleting
  <2> QED BY <2>1, <2>2, <2>3, <2>4
<1>6. AllDone'
  <2>1. Done(call[c])'
    BY <1>1, <1>3 DEF Done
  <2> QED BY <1>2, <1>3, <2>1, OthersDone DEF DInv, declarations
<1>7. Linked'
  BY <1>2, <1>3 DEF DInv, Linked, declarations
<1>8. Known'
  <2> SUFFICES ASSUME NEW m \in Names, NEW d \in Names, d \in deps[m], Clean(m), d \notin dropped,
                      m \notin rdeps[d]
               PROVE  \E e \in Clients : Owes(call'[e], m, d)
    BY <1>2, <1>3 DEF Known, Clean, declarations
  <2>1. PICK e \in Clients : Owes(call[e], m, d)
    BY DEF DInv, Known
  <2>2. e # c
    BY <1>3, <2>1 DEF Owes
  <2> QED BY <1>3, <2>1, <2>2
<1> QED BY <1>4, <1>5, <1>6, <1>7, <1>8 DEF DInv

\* What a step of c must do for the dependents that are still to be told.
LEMMA KnownKept ==
  ASSUME Known, NEW c \in Clients, torn \subseteq torn', raced \subseteq raced',
         dropped \subseteq dropped', \A e \in Clients \ {c} : call'[e] = call[e],
         \A n, d \in Names :
           d \in deps'[n] /\ n \notin raced' \cup torn' /\ d \notin dropped' /\ n \notin rdeps'[d]
             => \/ Owes(call'[c], n, d)
                \/ d \in deps[n] /\ n \notin rdeps[d] /\ ~Owes(call[c], n, d)
  PROVE  Known'
<1> SUFFICES ASSUME NEW n \in Names, NEW d \in Names, d \in deps'[n], n \notin raced' \cup torn',
                    d \notin dropped', n \notin rdeps'[d], ~Owes(call'[c], n, d)
             PROVE  \E e \in Clients : Owes(call'[e], n, d)
  BY DEF Known, Clean
<1>1. d \in deps[n] /\ n \notin rdeps[d] /\ ~Owes(call[c], n, d)
  OBVIOUS
<1>2. PICK e \in Clients : Owes(call[e], n, d)
  BY <1>1 DEF Known, Clean
<1>3. e # c
  BY <1>1, <1>2
<1> QED BY <1>2, <1>3

\* A call ends or stops that owes nothing, or whose work is given up.
LEMMA RestKeeps ==
  ASSUME DInv, NEW c \in Clients, call' = [call EXCEPT ![c] = Resting], raced' = raced,
         UNCHANGED <<deps, rdeps, lapsed, dropped>>, torn \subseteq torn',
         \/ call[c].at \notin {"addDeps", "addRdeps", "remRdeps", "del"}
         \/ call[c].on \subseteq torn'
  PROVE  /\ DCalls' /\ Rivals' /\ AllDone' /\ Linked' /\ Known'
<1>1. /\ call' \in [Clients -> DCall] /\ call'[c] = Resting
      /\ \A e \in Clients \ {c} : call'[e] = call[e]
  BY RestMoves DEF DInv
<1>2. DCalls'
  BY <1>1 DEF DInv, DCalls, Formed, Resting, Storing, Deleting
<1>3. Rivals'
  <2>1. call'[c].on = {} /\ call'[c].at \notin Storing \cup Deleting
    BY <1>1 DEF Resting, Storing, Deleting
  <2> QED BY <1>1, <2>1, RivalsKept DEF DInv
<1>4. AllDone'
  <2>1. Done(call[c])'
    BY <1>1 DEF Done, Resting
  <2> QED BY <1>1, <2>1, OthersDone DEF DInv
<1>5. Linked'
  BY DEF DInv, Linked
<1>6. Known'
  <2>1. \A n, d \in Names : n \notin torn' => ~Owes(call[c], n, d)
    BY DEF Owes
  <2> QED BY <1>1, <2>1, KnownKept DEF DInv
<1> QED BY <1>2, <1>3, <1>4, <1>5, <1>6

LEMMA StopKeeps ==
  ASSUME DInv, NEW c \in Clients, Stop(c), UNCHANGED declarations
  PROVE  DInv'
<1>1. /\ call' = [call EXCEPT ![c] = Resting] /\ raced' = raced
      /\ torn \subseteq torn' /\ call[c].on \subseteq torn'
  BY DEF Stop
<1>2. DTypeOK'
  BY DEF DInv, DTypeOK, declarations, declHistory
<1> QED BY <1>1, <1>2, RestKeeps DEF DInv, declarations

\* A call that goes on stays well formed, and races no more than before.
LEMMA GotoKeeps ==
  ASSUME DInv, NEW c \in Clients, NEW label \in Storing \cup Deleting, NEW todo \in SUBSET Names,
         Goto(c, label, todo),
         label \in Storing <=> call[c].at \in Storing, call[c].at # "idle",
         label \in {"addDeps", "addRdeps"} => todo \subseteq call[c].arg
  PROVE  DCalls' /\ Rivals'
<1>1. /\ call' \in [Clients -> DCall] /\ raced' = raced
      /\ \A e \in Clients \ {c} : call'[e] = call[e]
      /\ call'[c].op = call[c].op /\ call'[c].on = call[c].on /\ call'[c].arg = call[c].arg
      /\ call'[c].at = label /\ call'[c].todo = todo
  BY GotoMoves DEF DInv
<1>2. label \in Deleting <=> call[c].at \in Deleting
  BY DEF DInv, DCalls, DCall, Storing, Deleting
<1>3. DCalls'
  <2>1. label # "idle" /\ (label \in Storing => label \notin Deleting)
    BY DEF Storing, Deleting
  <2>2. Formed(call'[c])
    BY <1>1, <1>2, <2>1 DEF DInv, DCalls, Formed
  <2> QED BY <1>1, <2>2 DEF DInv, DCalls
<1>4. Rivals'
  BY <1>1, <1>2, RivalsKept DEF DInv
<1> QED BY <1>3, <1>4

LEMMA ReadDepsKeeps ==
  ASSUME DInv, NEW c \in Clients, ReadDeps(c)
  PROVE  DInv'
<1> DEFINE n == Subject(c)  D == deps[n]  label == IF D = {} THEN "del" ELSE "remRdeps"
<1>1. /\ call[c].at = "smembers" /\ Goto(c, label, D) /\ UNCHANGED declarations
  BY DEF ReadDeps, At
<1>2. n \in Names /\ call[c].on = {n} /\ D \in SUBSET Names
  BY <1>1, SubjectIs DEF DInv, DTypeOK
<1>3. label \in Storing \cup Deleting /\ label \in {"del", "remRdeps"} /\ label \notin Storing
  BY DEF Storing, Deleting
<1> HIDE DEF label, n
<1>4. DCalls' /\ Rivals'
  <2>1. call[c].at \notin Storing /\ call[c].at # "idle"
    BY <1>1 DEF Storing
  <2> QED BY <1>1, <1>2, <1>3, <2>1, GotoKeeps
<1>5. /\ raced' = raced /\ torn' = torn
      /\ \A e \in Clients \ {c} : call'[e] = call[e]
      /\ call'[c].on = call[c].on /\ call'[c].at = label /\ call'[c].todo = D
  BY <1>1, <1>2, <1>3, GotoMoves DEF DInv
<1>6. AllDone'
  <2>1. Done(call[c])'
    BY <1>1, <1>2, <1>3, <1>5 DEF DInv, Done, Linked, declarations, declHistory, label
  <2> QED BY <1>1, <1>5, <2>1, OthersDone DEF DInv, declarations, declHistory
<1>7. Linked' /\ DTypeOK'
  BY <1>1, <1>5 DEF DInv, Linked, DTypeOK, declarations, declHistory
<1>8. Known'
  <2>1. \A m, d \in Names : ~Owes(call[c], m, d)
    BY <1>1 DEF Owes
  <2> QED BY <1>1, <1>5, <2>1, KnownKept DEF DInv, declarations, declHistory
<1> QED BY <1>4, <1>6, <1>7, <1>8 DEF DInv

LEMMA EndKeeps ==
  ASSUME DInv, NEW c \in Clients, EndStore(c), call[c].at = "hset",
         UNCHANGED <<deps, rdeps, lapsed, dropped>>
  PROVE  /\ DCalls' /\ Rivals' /\ AllDone' /\ Linked' /\ Known'
<1>1. CASE Expiring
  <2>1. Goto(c, "expireRecord", {})
    BY <1>1 DEF EndStore
  <2>2. "expireRecord" \in Storing /\ call[c].at \in Storing /\ call[c].at # "idle"
    BY DEF Storing
  <2>3. DCalls' /\ Rivals'
    BY <2>1, <2>2, GotoKeeps
  <2>4. /\ raced' = raced /\ torn' = torn
        /\ \A e \in Clients \ {c} : call'[e] = call[e]
        /\ call'[c].at = "expireRecord"
    BY <2>1, <2>2, GotoMoves DEF DInv
  <2>5. AllDone'
    <3>1. Done(call[c])'
      BY <2>4 DEF Done
    <3> QED BY <2>4, <3>1, OthersDone DEF DInv
  <2>6. Linked'
    BY <2>4 DEF DInv, Linked
  <2>7. Known'
    <3>1. \A m, d \in Names : ~Owes(call[c], m, d)
      BY DEF Owes
    <3> QED BY <2>4, <3>1, KnownKept DEF DInv
  <2> QED BY <2>3, <2>5, <2>6, <2>7
<1>2. CASE ~Expiring
  <2>1. call' = [call EXCEPT ![c] = Resting] /\ raced' = raced /\ torn' = torn
    BY <1>2 DEF EndStore, Return, history
  <2> QED BY <2>1, RestKeeps
<1> QED BY <1>1, <1>2

LEMMA PutRecordKeeps ==
  ASSUME DInv, NEW c \in Clients, PutRecord(c)
  PROVE  DInv'
<1>1. /\ call[c].at = "hset" /\ UNCHANGED <<deps, rdeps, mortal, lapsed, dropped>>
      /\ record' = record \cup {Subject(c)}
  BY DEF PutRecord, At, declHistory
<1>2. Subject(c) \in Names /\ call[c].on = {Subject(c)} /\ call[c].arg \in SUBSET Names
  BY <1>1, SubjectIs DEF DInv, DCalls, DCall
<1>3. DTypeOK'
  BY <1>1, <1>2 DEF DInv, DTypeOK
<1>4. CASE call[c].arg = {}
  BY <1>1, <1>3, <1>4, EndKeeps DEF PutRecord, DInv
<1>5. CASE call[c].arg # {}
  <2>1. Goto(c, "addDeps", call[c].arg)
    BY <1>5 DEF PutRecord
  <2>2. "addDeps" \in Storing /\ call[c].at \in Storing /\ call[c].at # "idle"
    BY <1>1 DEF Storing
  <2>3. DCalls' /\ Rivals'
    BY <1>2, <2>1, <2>2, GotoKeeps
  <2>4. /\ raced' = raced /\ torn' = torn
        /\ \A e \in Clients \ {c} : call'[e] = call[e]
        /\ call'[c].on = call[c].on /\ call'[c].arg = call[c].arg
        /\ call'[c].at = "addDeps" /\ call'[c].todo = call[c].arg
    BY <1>2, <2>1, <2>2, GotoMoves DEF DInv
  <2>5. AllDone'
    <3>1. Done(call[c])'
      BY <2>4 DEF Done
    <3> QED BY <1>1, <2>4, <3>1, OthersDone DEF DInv
  <2>6. Linked'
    BY <1>1, <2>4 DEF DInv, Linked
  <2>7. Known'
    <3>1. \A m, d \in Names : ~Owes(call[c], m, d)
      BY <1>1 DEF Owes
    <3> QED BY <1>1, <2>4, <3>1, KnownKept DEF DInv
  <2> QED BY <1>3, <2>3, <2>5, <2>6, <2>7 DEF DInv
<1> QED BY <1>4, <1>5

LEMMA AddDepKeeps ==
  ASSUME DInv, NEW c \in Clients, AddDep(c)
  PROVE  DInv'
<1> DEFINE n == Subject(c)
<1>1. PICK d \in call[c].todo :
        /\ call[c].at = "addDeps" /\ UNCHANGED <<record, rdeps, mortal, lapsed, dropped>>
        /\ deps' = [deps EXCEPT ![n] = @ \cup {d}]
        /\ IF call[c].todo = {d} THEN Goto(c, "addRdeps", call[c].arg)
           ELSE Goto(c, "addDeps", call[c].todo \ {d})
  BY DEF AddDep, At, declHistory
<1>2. /\ n \in Names /\ call[c].on = {n} /\ call[c].arg \in SUBSET Names
      /\ call[c].todo \subseteq call[c].arg /\ d \in Names
  BY <1>1, SubjectIs DEF DInv, DCalls, DCall, Formed
<1>3. PICK label \in {"addDeps", "addRdeps"}, todo \in SUBSET Names :
        /\ Goto(c, label, todo) /\ todo \subseteq call[c].arg
        /\ label = "addDeps" => todo = call[c].todo \ {d}
        /\ label = "addRdeps" => todo = call[c].arg /\ call[c].todo = {d}
  BY <1>1, <1>2
<1>4. label \in Storing /\ call[c].at \in Storing /\ call[c].at # "idle"
  BY <1>1 DEF Storing
<1> HIDE DEF n
<1>5. DCalls' /\ Rivals'
  BY <1>3, <1>4, GotoKeeps
<1>6. /\ raced' = raced /\ torn' = torn
      /\ \A e \in Clients \ {c} : call'[e] = call[e]
      /\ call'[c].on = call[c].on /\ call'[c].arg = call[c].arg
      /\ call'[c].at = label /\ call'[c].todo = todo
  BY <1>3, <1>4, GotoMoves DEF DInv
<1>7. /\ DTypeOK' /\ deps'[n] = deps[n] \cup {d}
      /\ \A m \in Names \ {n} : deps'[m] = deps[m]
  BY <1>1, <1>2 DEF DInv, DTypeOK
<1>8. \A m \in Names : deps[m] \subseteq deps'[m]
  BY <1>7
<1>9. AllDone'
  <2>1. Done(call[c])'
    <3> SUFFICES ASSUME n \notin raced' \cup lapsed'
                 PROVE  /\ label = "addDeps" => call[c].arg \ todo \subseteq deps'[n]
                        /\ label = "addRdeps" => call[c].arg \subseteq deps'[n]
      BY <1>2, <1>6 DEF Done
    <3>1. call[c].arg \ call[c].todo \subseteq deps[n]
      BY <1>1, <1>2, <1>6 DEF DInv, AllDone, Done
    <3> QED BY <1>3, <1>7, <3>1
  <2>2. \A e \in Clients : call[e].on \subseteq Names
    BY DEF DInv, DCalls, DCall
  <2> QED BY <1>1, <1>6, <1>8, <2>1, <2>2, OthersDone DEF DInv
<1>10. Linked'
  BY <1>1, <1>6, <1>8 DEF DInv, Linked
<1>11. Known'
  <2>1. \A m, e \in Names : Owes(call[c], m, e) => Owes(call'[c], m, e)
    BY <1>1, <1>3, <1>6 DEF Owes
  <2>2. Owes(call'[c], n, d)
    BY <1>2, <1>3, <1>6 DEF Owes
  <2>3. \A m, e \in Names : e \in deps'[m] => e \in deps[m] \/ (m = n /\ e = d)
    BY <1>2, <1>7
  <2> QED BY <1>1, <1>6, <2>1, <2>2, <2>3, KnownKept DEF DInv
<1> QED BY <1>5, <1>7, <1>9, <1>10, <1>11 DEF DInv

LEMMA AddRdepKeeps ==
  ASSUME DInv, NEW c \in Clients, AddRdep(c)
  PROVE  DInv'
<1> DEFINE n == Subject(c)
<1>1. PICK d \in call[c].todo :
        /\ call[c].at = "addRdeps" /\ UNCHANGED <<record, deps, mortal, lapsed, dropped>>
        /\ rdeps' = [rdeps EXCEPT ![d] = @ \cup {n}]
        /\ IF call[c].todo = {d} THEN EndStore(c)
           ELSE Goto(c, "addRdeps", call[c].todo \ {d})
  BY DEF AddRdep, At, declHistory
<1>2. /\ n \in Names /\ call[c].on = {n} /\ call[c].arg \in SUBSET Names
      /\ call[c].todo \subseteq call[c].arg /\ d \in Names
      /\ call[c].at \in Storing /\ call[c].at # "idle"
  BY <1>1, SubjectIs DEF DInv, DCalls, DCall, Formed, Storing
<1> HIDE DEF n
<1>3. /\ DTypeOK' /\ rdeps'[d] = rdeps[d] \cup {n}
      /\ \A m \in Names \ {d} : rdeps'[m] = rdeps[m]
  BY <1>1, <1>2 DEF DInv, DTypeOK
\* What the call does next: n stays to be told to the others, if any.
<1>4. /\ DCalls' /\ Rivals' /\ raced' = raced /\ torn' = torn
      /\ \A e \in Clients \ {c} : call'[e] = call[e]
      /\ call'[c].at \in {"addRdeps", "expireRecord", "idle"}
      /\ call'[c].at = "addRdeps" =>
           /\ call'[c].on = call[c].on /\ call'[c].arg = call[c].arg
           /\ call'[c].todo = call[c].todo \ {d}
      /\ call'[c].at # "addRdeps" => call[c].todo = {d}
  <2>1. CASE call[c].todo # {d}
    <3>1. Goto(c, "addRdeps", call[c].todo \ {d}) /\ "addRdeps" \in Storing
      BY <1>1, <2>1 DEF Storing
    <3>2. call[c].todo \ {d} \in SUBSET Names /\ call[c].todo \ {d} \subseteq call[c].arg
      BY <1>2
    <3>3. DCalls' /\ Rivals'
      BY <1>2, <3>1, <3>2, GotoKeeps
    <3> QED BY <3>1, <3>2, <3>3, GotoMoves DEF DInv
  <2>2. CASE call[c].todo = {d} /\ Expiring
    <3>1. Goto(c, "expireRecord", {}) /\ "expireRecord" \in Storing
      BY <1>1, <2>2 DEF EndStore, Storing
    <3>2. DCalls' /\ Rivals'
      BY <1>2, <3>1, GotoKeeps
    <3> QED BY <2>2, <3>1, <3>2, GotoMoves DEF DInv
  <2>3. CASE call[c].todo = {d} /\ ~Expiring
    <3>1. call' = [call EXCEPT ![c] = Resting] /\ raced' = raced /\ torn' = torn
      BY <1>1, <2>3 DEF EndStore, Return, history
    <3>2. /\ call' \in [Clients -> DCall] /\ call'[c] = Resting
          /\ \A e \in Clients \ {c} : call'[e] = call[e]
      BY <3>1, RestMoves DEF DInv
    <3>3. DCalls'
      BY <3>2 DEF DInv, DCalls, Formed, Resting, Storing, Deleting
    <3>4. call'[c].on = {} /\ call'[c].at = "idle" /\ call'[c].at \notin Storing \cup Deleting
      BY <3>2 DEF Resting, Storing, Deleting
    <3>5. Rivals'
      BY <3>1, <3>2, <3>4, RivalsKept DEF DInv
    <3> QED BY <2>3, <3>1, <3>2, <3>3, <3>4, <3>5
  <2> QED BY <2>1, <2>2, <2>3
<1>5. n \notin raced \cup lapsed => call[c].arg \subseteq deps[n]
  BY <1>1, <1>2 DEF DInv, AllDone, Done
<1>6. AllDone'
  <2>1. Done(call[c])'
    BY <1>1, <1>2, <1>4, <1>5 DEF Done
  <2>2. ASSUME NEW e \in Clients \ {c}, NEW m \in call[e].on, m \notin raced' \cup lapsed',
               call[e].at \in {"remRdeps", "del"}, NEW b \in Names, m \in rdeps'[b]
        PROVE  m \in rdeps[b]
    <3>1. m # n
      BY <1>2, <1>4, <2>2, Apart DEF DInv, Deleting
    <3> QED BY <1>3, <2>2, <3>1
  <2> QED BY <1>1, <1>4, <2>1, <2>2, OthersDone DEF DInv
<1>7. Linked'
  <2>1. \A m, b \in Names : m \in rdeps'[b] => m \in rdeps[b] \/ (m = n /\ b = d)
    BY <1>3
  <2>2. n \notin raced \cup lapsed => d \in deps[n]
    BY <1>2, <1>5
  <2> QED BY <1>1, <1>4, <2>1, <2>2 DEF DInv, Linked
<1>8. Known'
  <2>1. \A m, b \in Names : m \notin rdeps'[b] => m \notin rdeps[b] /\ ~(m = n /\ b = d)
    BY <1>3
  <2>2. \A m, b \in Names : Owes(call[c], m, b) /\ ~(m = n /\ b = d) => Owes(call'[c], m, b)
    BY <1>1, <1>2, <1>4 DEF Owes
  <2> QED BY <1>1, <1>4, <2>1, <2>2, KnownKept DEF DInv
<1> QED BY <1>3, <1>4, <1>6, <1>7, <1>8 DEF DInv

LEMMA ExpireKeeps ==
  ASSUME DInv, NEW c \in Clients, ExpireDecl(c)
  PROVE  DInv'
<1>1. /\ call[c].at \in {"expireRecord", "expireDeps"}
      /\ UNCHANGED <<record, deps, rdeps, lapsed, dropped>>
      /\ \/ call[c].at = "expireRecord" /\ Goto(c, "expireDeps", {})
         \/ Return(c)
  BY DEF ExpireDecl, At, declHistory
<1>2. Subject(c) \in Names /\ call[c].at \in Storing /\ call[c].at # "idle"
  BY <1>1, SubjectIs DEF DInv, Storing
<1>3. DTypeOK'
  BY <1>1, <1>2 DEF DInv, DTypeOK, ExpireDecl
<1>4. CASE Return(c)
  <2>1. call' = [call EXCEPT ![c] = Resting] /\ raced' = raced /\ torn' = torn
    BY <1>4 DEF Return, history
  <2> QED BY <1>1, <1>3, <2>1, RestKeeps DEF DInv
<1>5. CASE Goto(c, "expireDeps", {})
  <2>1. "expireDeps" \in Storing
    BY DEF Storing
  <2>2. DCalls' /\ Rivals'
    BY <1>2, <1>5, <2>1, GotoKeeps
  <2>3. /\ raced' = raced /\ torn' = torn /\ call'[c].at = "expireDeps"
        /\ \A e \in Clients \ {c} : call'[e] = call[e]
    BY <1>5, <2>1, GotoMoves DEF DInv
  <2>4. AllDone'
    <3>1. Done(call[c])'
      BY <2>3 DEF Done
    <3> QED BY <1>1, <2>3, <3>1, OthersDone DEF DInv
  <2>5. Linked'
    BY <1>1, <2>3 DEF DInv, Linked
  <2>6. Known'
    <3>1. \A m, d \in Names : ~Owes(call[c], m, d)
      BY <1>1 DEF Owes
    <3> QED BY <1>1, <2>3, <3>1, KnownKept DEF DInv
  <2> QED BY <1>3, <2>2, <2>4, <2>5, <2>6 DEF DInv
<1> QED BY <1>1, <1>4, <1>5

LEMMA RemoveRdepKeeps ==
  ASSUME DInv, NEW c \in Clients, RemoveRdep(c)
  PROVE  DInv'
<1> DEFINE n == Subject(c)
<1>1. PICK d \in call[c].todo :
        /\ call[c].at = "remRdeps" /\ UNCHANGED <<record, deps, mortal, lapsed, dropped>>
        /\ rdeps' = [rdeps EXCEPT ![d] = @ \ {n}]
        /\ Goto(c, IF call[c].todo = {d} THEN "del" ELSE "remRdeps", call[c].todo \ {d})
  BY DEF RemoveRdep, At, declHistory
<1>2. /\ n \in Names /\ call[c].on = {n} /\ call[c].todo \ {d} \in SUBSET Names /\ d \in Names
      /\ call[c].at \notin Storing /\ call[c].at # "idle"
  BY <1>1, SubjectIs DEF DInv, DCalls, DCall, Storing
<1>3. PICK label \in {"del", "remRdeps"} :
        /\ Goto(c, label, call[c].todo \ {d})
        /\ label = "del" => call[c].todo = {d}
  BY <1>1
<1>4. label \in Storing \cup Deleting /\ label \notin Storing
  BY DEF Storing, Deleting
<1> HIDE DEF n
<1>5. DCalls' /\ Rivals'
  <2>1. label \notin {"addDeps", "addRdeps"}
    OBVIOUS
  <2> QED BY <1>2, <1>3, <1>4, <2>1, GotoKeeps
<1>6. /\ raced' = raced /\ torn' = torn
      /\ \A e \in Clients \ {c} : call'[e] = call[e]
      /\ call'[c].on = call[c].on
      /\ call'[c].at = label /\ call'[c].todo = call[c].todo \ {d}
  BY <1>2, <1>3, <1>4, GotoMoves DEF DInv
<1>7. /\ DTypeOK' /\ rdeps'[d] = rdeps[d] \ {n}
      /\ \A m \in Names \ {d} : rdeps'[m] = rdeps[m]
  BY <1>1, <1>2 DEF DInv, DTypeOK
<1>8. \A m, b \in Names : m \in rdeps'[b] <=> m \in rdeps[b] /\ ~(m = n /\ b = d)
  BY <1>2, <1>7
<1>9. AllDone'
  <2>1. Done(call[c])'
    <3>1. n \notin raced \cup lapsed => \A b \in Names : n \in rdeps[b] => b \in call[c].todo
      BY <1>1, <1>2 DEF DInv, AllDone, Done
    <3> QED BY <1>1, <1>2, <1>3, <1>6, <1>8, <3>1 DEF Done
  <2>2. \A e \in Clients : call[e].on \subseteq Names
    BY DEF DInv, DCalls, DCall
  <2> QED BY <1>1, <1>6, <1>8, <2>1, <2>2, OthersDone DEF DInv
<1>10. Linked'
  BY <1>1, <1>6, <1>8 DEF DInv, Linked
<1>11. Known'
  <2>1. \A b \in Names : Owes(call'[c], n, b)
    BY <1>2, <1>6 DEF Owes
  <2>2. \A m, b \in Names : Owes(call[c], m, b) => m = n
    BY <1>2 DEF Owes
  <2> QED BY <1>1, <1>6, <1>8, <2>1, <2>2, KnownKept DEF DInv
<1> QED BY <1>5, <1>7, <1>9, <1>10, <1>11 DEF DInv

LEMMA DropKeysKeeps ==
  ASSUME DInv, NEW c \in Clients, DropKeys(c)
  PROVE  DInv'
<1> DEFINE n == Subject(c)
<1>1. /\ call[c].at = "del" /\ lapsed' = lapsed /\ dropped' = dropped \cup {n}
      /\ deps' = [deps EXCEPT ![n] = {}] /\ rdeps' = [rdeps EXCEPT ![n] = {}]
      /\ record' = record \ {n} /\ mortal' \subseteq mortal
      /\ call' = [call EXCEPT ![c] = Resting] /\ raced' = raced /\ torn' = torn
  BY DEF DropKeys, At, Return, history
<1>2. n \in Names /\ call[c].on = {n} /\ call[c].at \in Deleting
  BY <1>1, SubjectIs DEF DInv, Deleting
<1> HIDE DEF n
<1>3. /\ call' \in [Clients -> DCall] /\ call'[c] = Resting
      /\ \A e \in Clients \ {c} : call'[e] = call[e]
  BY <1>1, RestMoves DEF DInv
<1>4. /\ DTypeOK' /\ deps'[n] = {} /\ rdeps'[n] = {}
      /\ \A m \in Names \ {n} : deps'[m] = deps[m] /\ rdeps'[m] = rdeps[m]
  BY <1>1, <1>2 DEF DInv, DTypeOK
<1>5. DCalls'
  BY <1>3 DEF DInv, DCalls, Formed, Resting, Storing, Deleting
<1>6. Rivals'
  <2>1. call'[c].on = {} /\ call'[c].at \notin Storing \cup Deleting
    BY <1>3 DEF Resting, Storing, Deleting
  <2> QED BY <1>1, <1>3, <2>1, RivalsKept DEF DInv
<1>7. AllDone'
  <2>1. Done(call[c])'
    BY <1>3 DEF Done, Resting
  <2>2. ASSUME NEW e \in Clients \ {c}, NEW m \in call[e].on, m \notin raced' \cup lapsed',
               call[e].at \in {"addDeps", "addRdeps"}
        PROVE  deps[m] \subseteq deps'[m]
    <3>1. m # n
      BY <1>1, <1>2, <2>2, Apart DEF DInv, Storing
    <3>2. m \in Names
      BY DEF DInv, DCalls, DCall
    <3> QED BY <1>4, <3>1, <3>2
  <2>3. \A m, b \in Names : m \in rdeps'[b] => m \in rdeps[b]
    BY <1>4
  <2>4. \A e \in Clients : call[e].on \subseteq Names
    BY DEF DInv, DCalls, DCall
  <2> QED BY <1>1, <1>3, <2>1, <2>2, <2>3, <2>4, OthersDone DEF DInv
<1>8. Linked'
  <2> SUFFICES ASSUME NEW m \in Names, NEW b \in Names, m \in rdeps'[b], m \notin raced' \cup lapsed'
               PROVE  b \in deps'[m]
    BY DEF Linked
  <2>1. b # n /\ m \in rdeps[b]
    BY <1>4
  <2>2. m # n
    BY <1>1, <1>2, <2>1 DEF DInv, AllDone, Done
  <2>3. b \in deps[m]
    BY <1>1, <2>1 DEF DInv, Linked
  <2> QED BY <1>4, <2>2, <2>3
<1>9. Known'
  <2>1. \A m, b \in Names : Owes(call[c], m, b) => m = n
    BY <1>2 DEF Owes
  <2>2. \A m, b \in Names : b \in deps'[m] => m # n /\ b \in deps[m]
    BY <1>4
  <2>3. \A m, b \in Names : b \notin dropped' /\ m \notin rdeps'[b] => m \notin rdeps[b]
    BY <1>1, <1>4
  <2> QED BY <1>1, <1>3, <2>1, <2>2, <2>3, KnownKept DEF DInv
<1> QED BY <1>4, <1>5, <1>6, <1>7, <1>8, <1>9 DEF DInv

LEMMA LapseKeeps ==
  ASSUME DInv, LapseDecl
  PROVE  DInv'
<1>1. /\ UNCHANGED <<call, raced, torn, rdeps, dropped>> /\ mortal' \subseteq mortal
      /\ lapsed \subseteq lapsed'
  BY DEF LapseDecl, Instant
<1>2. /\ DTypeOK'
      /\ \A m \in Names : deps'[m] \subseteq deps[m] /\ (m \notin lapsed' => deps'[m] = deps[m])
  <2>1. PICK key \in mortal :
          IF key[1] = "record"
            THEN record' = record \ {key[2]} /\ UNCHANGED <<deps, lapsed>>
            ELSE /\ deps' = [deps EXCEPT ![key[2]] = {}] /\ lapsed' = lapsed \cup {key[2]}
                 /\ record' = record
    BY DEF LapseDecl
  <2>2. key[2] \in Names
    BY <2>1 DEF DInv, DTypeOK
  <2> QED BY <1>1, <2>1, <2>2 DEF DInv, DTypeOK
<1>3. DCalls' /\ Rivals'
  BY <1>1 DEF DInv, DCalls, Rivals
<1>4. AllDone'
  <2>1. \A e \in Clients : call[e].on \subseteq Names
    BY DEF DInv, DCalls, DCall
  <2> QED BY <1>1, <1>2, <2>1 DEF DInv, AllDone, Done
<1>5. Linked'
  BY <1>1, <1>2 DEF DInv, Linked
<1>6. Known'
  BY <1>1, <1>2 DEF DInv, Known, Clean, Owes
<1> QED BY <1>2, <1>3, <1>4, <1>5, <1>6 DEF DInv

-----------------------------------------------------------------------------
LEMMA DNextKeeps ==
  ASSUME DInv, DNext
  PROVE  DInv'
<1>1. ASSUME NEW c \in Clients, NEW n \in Names,
             DeleteDecl(c, n) \/ \E D \in SUBSET Names : StoreDecl(c, n, D)
      PROVE  DInv'
  <2>1. DTypeOK'
    BY <1>1 DEF DInv, DTypeOK, DeleteDecl, StoreDecl, declarations, declHistory
  <2> QED BY <1>1, <2>1, BeginKeeps
<1>2. ASSUME NEW c \in Clients,
             PutRecord(c) \/ AddDep(c) \/ AddRdep(c) \/ ExpireDecl(c)
               \/ ReadDeps(c) \/ RemoveRdep(c) \/ DropKeys(c)
      PROVE  DInv'
  BY <1>2, PutRecordKeeps, AddDepKeeps, AddRdepKeeps, ExpireKeeps, ReadDepsKeeps,
     RemoveRdepKeeps, DropKeysKeeps
<1> QED BY <1>1, <1>2, LapseKeeps DEF DNext

\* A behaviour that uses another store has no declarations.
StoreInv ==
  IF store = "declarations" THEN DInv
  ELSE deps = [n \in Names |-> {}] /\ rdeps = [n \in Names |-> {}]

LEMMA StoreInvStep ==
  ASSUME StoreInv, [Next]_vars
  PROVE  StoreInv'
<1>1. CASE UNCHANGED vars
  BY <1>1 DEF vars, StoreInv, calls, history, declarations, declHistory, DInv, DTypeOK, DCalls,
              Rivals, AllDone, Done, Linked, Known, Clean
<1>2. CASE Next /\ store # "declarations"
  BY <1>2 DEF Next, StoreInv, declarations
<1>3. CASE Next /\ store = "declarations"
  <2>1. DInv /\ store' = "declarations"
    BY <1>3 DEF Next, StoreInv
  <2>2. CASE DNext
    BY <2>1, <2>2, DNextKeeps DEF StoreInv
  <2>3. ASSUME NEW c \in Clients, Stop(c), UNCHANGED declarations PROVE DInv'
    BY <2>1, <2>3, StopKeeps
  <2> QED BY <1>3, <2>1, <2>2, <2>3 DEF Next, StoreInv
<1> QED BY <1>1, <1>2, <1>3

\* The two directions of the dependency graph agree, whichever calls of
\* storeDecl and deleteDecl overlap, wherever they are stopped and whatever
\* expires.
THEOREM GraphAgrees == Spec => []EdgesAgree
<1>1. Init => StoreInv
  BY DInvInit DEF Init, StoreInv, DInit
<1>2. StoreInv /\ [Next]_vars => StoreInv'
  BY StoreInvStep
<1>3. StoreInv => EdgesAgree
  <2> SUFFICES ASSUME StoreInv, NEW n \in Names, NEW d \in Names
               PROVE  /\ n \in rdeps[d] /\ n \notin raced \cup lapsed => d \in deps[n]
                      /\ d \in deps[n] /\ Quiet(n) /\ Clean(n) /\ d \notin dropped => n \in rdeps[d]
    BY DEF EdgesAgree
  <2>1. CASE store # "declarations"
    BY <2>1 DEF StoreInv
  <2>2. CASE store = "declarations"
    BY <2>2 DEF StoreInv, DInv, Linked, Known, Owes, Quiet
  <2> QED BY <2>1, <2>2
<1> QED BY <1>1, <1>2, <1>3, PTL DEF Spec

-----------------------------------------------------------------------------
(* The table.                                                              *)

Unlisting  == {"setBatch", "zaddBatch"}
Writing    == Unlisting \cup {"setHead"}
Dropping   == {"zrangeAll", "delTable"}
Compacting == {"zrangeOld", "delOld"}
ACall == [op : {"none", "storeBatch", "deleteTable", "compactToRecent"},
          at : {"idle"} \cup Writing \cup Dropping \cup Compacting,
          on : SUBSET {"table"}, arg : Nat \cup {{}}, todo : Nat \cup SUBSET Ids]

\* What a call on the table has read and done so far: a compaction only has
\* batches to delete that enough others follow, if they are listed at all.
AFormed(k) ==
  /\ k.at \in Writing => k.arg \in made
  /\ k.at \in Unlisting => k.arg \notin Listing
  /\ k.at = "zaddBatch" => k.todo \in Times /\ k.arg \in stored \cup removed
  /\ k.at \in Compacting => k.arg \in KeepCounts
  /\ k.at \in {"delTable", "delOld"} => k.todo \subseteq made
  /\ k.at = "delOld" => \A i \in k.todo \cap Listing : Cardinality(Newer(i)) >= k.arg

\* The batch that call k is about to list is not listed or deleted by call l.
Disjoint(k, l) ==
  k.at \in Unlisting =>
    /\ l.at \in Unlisting => k.arg # l.arg
    /\ l.at \in {"delTable", "delOld"} => k.arg \notin l.todo

AInv ==
  /\ ATypeOK /\ RecentReadable
  /\ call \in [Clients -> ACall] /\ \A c \in Clients : AFormed(call[c])
  /\ \A c, e \in Clients : c # e => Disjoint(call[c], call[e])

LEMMA ATypeInit == AInit => ATypeOK
<1> SUFFICES ASSUME AInit PROVE ATypeOK
  OBVIOUS
<1>1. 0 \in 0..MaxTime /\ 1 \in Times
  BY ArrowAssumption DEF Times
<1>2. Listing = {} /\ score \in [Ids -> 0..MaxTime]
  BY <1>1 DEF AInit, Listing
<1>3. clock \in [Clients -> [id : Ids \cup {0}, ms : Times]]
  BY <1>1 DEF AInit, Booted
<1> QED BY <1>2, <1>3 DEF AInit, ATypeOK

LEMMA AInvInit == CInit /\ AInit => AInv
<1> SUFFICES ASSUME CInit, AInit PROVE AInv
  OBVIOUS
<1>1. Listing = {} /\ \A c \in Clients : call[c] = Resting
  BY DEF AInit, CInit, Listing
<1>2. call \in [Clients -> ACall]
  <2>1. {} \in Nat \cup {{}} /\ {} \in Nat \cup SUBSET Ids /\ {} \in SUBSET {"table"}
    OBVIOUS
  <2>2. Resting \in ACall
    BY <2>1, Zenon DEF ACall, Resting
  <2> QED BY <2>2 DEF CInit
<1>3. AFormed(Resting) /\ Disjoint(Resting, Resting)
  BY DEF AFormed, Disjoint, Resting, Unlisting, Writing, Compacting
<1>4. RecentReadable
  BY <1>1 DEF RecentReadable
<1> QED BY <1>1, <1>2, <1>3, <1>4, ATypeInit DEF AInv

\* How Goto and Return change the calls.
LEMMA AGoto ==
  ASSUME AInv, NEW c \in Clients, NEW label \in Writing \cup Dropping \cup Compacting,
         NEW left \in Nat \cup SUBSET Ids, Goto(c, label, left)
  PROVE  /\ call' \in [Clients -> ACall]
         /\ \A e \in Clients \ {c} : call'[e] = call[e]
         /\ call'[c].arg = call[c].arg /\ call'[c].at = label /\ call'[c].todo = left
<1>1. call \in [Clients -> ACall] /\ call' = [call EXCEPT ![c].at = label, ![c].todo = left]
  BY DEF AInv, Goto
<1> QED BY <1>1, Zenon DEF ACall

LEMMA AReturn ==
  ASSUME AInv, NEW c \in Clients, call' = [call EXCEPT ![c] = Resting]
  PROVE  /\ call' \in [Clients -> ACall]
         /\ \A e \in Clients \ {c} : call'[e] = call[e]
         /\ call'[c].at = "idle"
<1>1. Resting \in ACall
  <2>1. {} \in Nat \cup {{}} /\ {} \in Nat \cup SUBSET Ids /\ {} \in SUBSET {"table"}
    OBVIOUS
  <2> QED BY <2>1, Zenon DEF ACall, Resting
<1> QED BY <1>1 DEF AInv, Resting

LEMMA ABegin ==
  ASSUME AInv, NEW c \in Clients, NEW op \in {"storeBatch", "deleteTable", "compactToRecent"},
         NEW label \in {"setBatch", "zrangeAll", "zrangeOld"}, NEW on \in SUBSET {"table"},
         NEW arg \in Nat \cup {{}}, NEW rivals, Begin(c, op, label, on, arg, rivals)
  PROVE  /\ call' \in [Clients -> ACall]
         /\ \A e \in Clients \ {c} : call'[e] = call[e]
         /\ call'[c].at = label /\ call'[c].arg = arg
<1>1. call' = [call EXCEPT ![c] = [op |-> op, at |-> label, on |-> on, arg |-> arg, todo |-> {}]]
  BY DEF Begin
<1>2. [op |-> op, at |-> label, on |-> on, arg |-> arg, todo |-> {}] \in ACall
  <2>1. {} \in Nat \cup SUBSET Ids
    OBVIOUS
  <2> QED BY <2>1 DEF ACall, Unlisting, Writing, Dropping, Compacting
<1> QED BY <1>1, <1>2 DEF AInv

\* The manifest is what the scores say.
LEMMA SameManifest ==
  ASSUME UNCHANGED score
  PROVE  /\ Listing' = Listing /\ \A i : Newer(i)' = Newer(i)
BY DEF Listing, Newer, After

LEMMA AtLeast ==
  ASSUME NEW B \in SUBSET Ids, NEW A \in SUBSET B, NEW k \in Nat, Cardinality(A) >= k
  PROVE  Cardinality(B) >= k
<1>1. IsFiniteSet(B)
  <2>1. 1 \in Int /\ MaxBatches \in Int
    BY ArrowAssumption
  <2>2. IsFiniteSet(1..MaxBatches)
    BY <2>1, FS_Interval
  <2> QED BY <2>2, FS_Subset DEF Ids
<1>2. IsFiniteSet(A) /\ Cardinality(A) <= Cardinality(B) /\ Cardinality(A) \in Nat /\ Cardinality(B) \in Nat
  BY <1>1, FS_Subset, FS_CardinalityType
<1> QED BY <1>2

\* A step of c that leaves the manifest alone and deletes nothing, but by
\* deleteBatch.
LEMMA ManifestLeft ==
  ASSUME AInv, NEW c \in Clients, UNCHANGED score, ATypeOK',
         stored \cup removed \subseteq stored' \cup removed', made \subseteq made',
         call' \in [Clients -> ACall], \A e \in Clients \ {c} : call'[e] = call[e],
         AFormed(call[c])',
         \A e \in Clients \ {c} : Disjoint(call[c], call[e])' /\ Disjoint(call[e], call[c])'
  PROVE  AInv'
<1>1. Listing' = Listing /\ \A i : Newer(i)' = Newer(i)
  BY SameManifest
<1>2. RecentReadable'
  BY <1>1 DEF AInv, RecentReadable
<1>3. ASSUME NEW e \in Clients \ {c} PROVE AFormed(call[e])'
  BY <1>1 DEF AInv, AFormed
<1>4. ASSUME NEW d \in Clients \ {c}, NEW e \in Clients \ {c}, d # e PROVE Disjoint(call[d], call[e])'
  BY <1>4 DEF AInv, Disjoint
<1> QED BY <1>2, <1>3, <1>4 DEF AInv

\* A call that is not about to list a batch, and that has no batches to delete,
\* is apart from the others.
LEMMA Harmless ==
  ASSUME NEW k, NEW l, k.at \notin Unlisting \cup {"delTable", "delOld"}
  PROVE  Disjoint(k, l) /\ Disjoint(l, k)
BY DEF Disjoint

LEMMA RestIsFine ==
  ASSUME AInv, NEW c \in Clients, call' = [call EXCEPT ![c] = Resting], UNCHANGED score,
         ATypeOK', stored \cup removed \subseteq stored' \cup removed', made \subseteq made'
  PROVE  AInv'
<1>1. /\ call' \in [Clients -> ACall] /\ call'[c].at = "idle"
      /\ \A e \in Clients \ {c} : call'[e] = call[e]
  BY AReturn
<1>2. AFormed(call[c])'
  BY <1>1 DEF AFormed, Unlisting, Writing, Compacting
<1>3. \A e \in Clients \ {c} : Disjoint(call[c], call[e])' /\ Disjoint(call[e], call[c])'
  BY <1>1 DEF Disjoint, Unlisting
<1> QED BY <1>1, <1>2, <1>3, ManifestLeft

LEMMA TableCallBegins ==
  ASSUME AInv, NEW c \in Clients,
         \/ DeleteTable(c) \/ \E keep \in KeepCounts : CompactToRecent(c, keep)
  PROVE  AInv'
<1>1. UNCHANGED table /\ ATypeOK'
  BY DEF DeleteTable, CompactToRecent, AInv, ATypeOK, table, Listing
<1>2. CASE DeleteTable(c)
  <2>1. Begin(c, "deleteTable", "zrangeAll", {"table"}, {}, {"storeBatch"})
    BY <1>2 DEF DeleteTable
  <2>2. /\ call' \in [Clients -> ACall] /\ call'[c].at = "zrangeAll"
        /\ \A e \in Clients \ {c} : call'[e] = call[e]
    BY <2>1, ABegin
  <2>3. AFormed(call[c])' /\ \A e \in Clients \ {c} : Disjoint(call[c], call[e])' /\ Disjoint(call[e], call[c])'
    BY <2>2 DEF AFormed, Disjoint, Unlisting, Writing, Compacting
  <2> QED BY <1>1, <2>2, <2>3, ManifestLeft DEF table
<1>3. ASSUME NEW keep \in KeepCounts, CompactToRecent(c, keep) PROVE AInv'
  <2>1. Begin(c, "compactToRecent", "zrangeOld", {}, keep, {}) /\ keep \in Nat
    BY <1>3, ArrowAssumption DEF CompactToRecent
  <2>2. /\ call' \in [Clients -> ACall] /\ call'[c].at = "zrangeOld" /\ call'[c].arg = keep
        /\ \A e \in Clients \ {c} : call'[e] = call[e]
    BY <2>1, ABegin
  <2>3. AFormed(call[c])' /\ \A e \in Clients \ {c} : Disjoint(call[c], call[e])' /\ Disjoint(call[e], call[c])'
    BY <2>2 DEF AFormed, Disjoint, Unlisting, Writing, Compacting
  <2> QED BY <1>1, <2>2, <2>3, ManifestLeft DEF table
<1> QED BY <1>2, <1>3

LEMMA ReadManifestKeeps ==
  ASSUME AInv, NEW c \in Clients, ReadManifest(c)
  PROVE  AInv'
<1>1. Goto(c, "delTable", Listing) /\ UNCHANGED table
  BY DEF ReadManifest
<1>2. Listing \in Nat \cup SUBSET Ids /\ "delTable" \in Writing \cup Dropping \cup Compacting
  BY DEF Listing, Dropping
<1>3. /\ call' \in [Clients -> ACall] /\ call'[c].at = "delTable" /\ call'[c].todo = Listing
      /\ \A e \in Clients \ {c} : call'[e] = call[e]
  BY <1>1, <1>2, AGoto
<1>4. ATypeOK' /\ Listing' = Listing /\ Listing \subseteq made
  BY <1>1, SameManifest DEF AInv, ATypeOK, table
<1>5. AFormed(call[c])'
  BY <1>1, <1>3, <1>4 DEF AFormed, Unlisting, Writing, Compacting, table
<1>6. ASSUME NEW e \in Clients \ {c} PROVE Disjoint(call[c], call[e])' /\ Disjoint(call[e], call[c])'
  <2>1. call[e].at \in Unlisting => call[e].arg \notin Listing
    BY DEF AInv, AFormed
  <2> QED BY <1>3, <2>1 DEF Disjoint, Unlisting
<1> QED BY <1>1, <1>3, <1>4, <1>5, <1>6, ManifestLeft DEF table

LEMMA FindOldKeeps ==
  ASSUME AInv, NEW c \in Clients, FindOld(c)
  PROVE  AInv'
<1> DEFINE old == {i \in Listing : Cardinality(Newer(i)) >= call[c].arg}
<1>1. /\ call[c].at = "zrangeOld" /\ UNCHANGED table
      /\ IF old = {} THEN Return(c) ELSE Goto(c, "delOld", old)
  BY DEF FindOld, At
<1>2. ATypeOK' /\ Listing' = Listing /\ (\A i : Newer(i)' = Newer(i)) /\ Listing \subseteq made
  BY <1>1, SameManifest DEF AInv, ATypeOK, table
<1>3. call[c].arg \in KeepCounts
  BY <1>1 DEF AInv, AFormed, Compacting
<1>4. /\ old \subseteq made /\ old \subseteq Listing /\ old \in Nat \cup SUBSET Ids
      /\ \A i \in old : Cardinality(Newer(i)) >= call[c].arg
  BY <1>2 DEF Listing
<1> HIDE DEF old
<1>5. CASE old = {}
  BY <1>1, <1>2, <1>5, RestIsFine DEF Return, table
<1>6. CASE old # {}
  <2>1. Goto(c, "delOld", old) /\ "delOld" \in Writing \cup Dropping \cup Compacting
    BY <1>1, <1>6 DEF Compacting
  <2>2. /\ call' \in [Clients -> ACall] /\ call'[c].at = "delOld" /\ call'[c].todo = old
        /\ call'[c].arg = call[c].arg /\ \A e \in Clients \ {c} : call'[e] = call[e]
    BY <1>4, <2>1, AGoto
  <2>3. AFormed(call[c])'
    BY <1>1, <1>2, <1>3, <1>4, <2>2 DEF AFormed, Unlisting, Writing, Compacting, table
  <2>4. ASSUME NEW e \in Clients \ {c} PROVE Disjoint(call[c], call[e])' /\ Disjoint(call[e], call[c])'
    <3>1. call[e].at \in Unlisting => call[e].arg \notin Listing
      BY DEF AInv, AFormed
    <3> QED BY <1>4, <2>2, <3>1 DEF Disjoint, Unlisting
  <2> QED BY <1>1, <1>2, <2>2, <2>3, <2>4, ManifestLeft DEF table
<1> QED BY <1>5, <1>6

LEMMA StoreBatchKeeps ==
  ASSUME AInv, NEW c \in Clients, StoreBatch(c)
  PROVE  AInv'
<1>1. PICK id \in Ids \ made :
        /\ Begin(c, "storeBatch", "setBatch", {"table"}, id, {"storeBatch", "deleteTable"})
        /\ made' = made \cup {id} /\ clock' = [clock EXCEPT ![c].id = id]
        /\ UNCHANGED <<schema, stored, score, head, removed>>
  BY DEF StoreBatch
<1>2. id \in Nat
  BY DEF Ids
<1>3. /\ call' \in [Clients -> ACall] /\ call'[c].at = "setBatch" /\ call'[c].arg = id
      /\ \A e \in Clients \ {c} : call'[e] = call[e]
  BY <1>1, <1>2, ABegin
<1>4. Listing' = Listing /\ Listing \subseteq made
  BY <1>1, SameManifest DEF AInv, ATypeOK
<1>5. ATypeOK'
  <2>1. clock' \in [Clients -> [id : Ids \cup {0}, ms : Times]]
    BY <1>1 DEF AInv, ATypeOK
  <2> QED BY <1>1, <1>4, <2>1 DEF AInv, ATypeOK
<1>6. AFormed(call[c])'
  BY <1>1, <1>3, <1>4 DEF AFormed, Unlisting, Writing, Compacting
<1>7. ASSUME NEW e \in Clients \ {c} PROVE Disjoint(call[c], call[e])' /\ Disjoint(call[e], call[c])'
  <2>1. /\ call[e].at \in Unlisting => call[e].arg \in made
        /\ call[e].at \in {"delTable", "delOld"} => call[e].todo \subseteq made
    BY DEF AInv, AFormed, Writing
  <2> QED BY <1>3, <2>1 DEF Disjoint, Unlisting
<1> QED BY <1>1, <1>3, <1>5, <1>6, <1>7, ManifestLeft

LEMMA PutBatchKeeps ==
  ASSUME AInv, NEW c \in Clients, PutBatch(c)
  PROVE  AInv'
<1>1. PICK ms \in clock[c].ms..MaxTime :
        /\ call[c].at = "setBatch" /\ stored' = stored \cup {call[c].arg}
        /\ clock' = [clock EXCEPT ![c].ms = ms] /\ Goto(c, "zaddBatch", ms)
        /\ UNCHANGED <<schema, score, head, made, removed>>
  BY DEF PutBatch, At
<1>2. ms \in Times /\ ms \in Nat \cup SUBSET Ids
  BY ArrowAssumption DEF Times, AInv, ATypeOK
<1>3. "zaddBatch" \in Writing \cup Dropping \cup Compacting
  BY DEF Writing, Unlisting
<1>4. /\ call' \in [Clients -> ACall] /\ call'[c].at = "zaddBatch" /\ call'[c].todo = ms
      /\ call'[c].arg = call[c].arg /\ \A e \in Clients \ {c} : call'[e] = call[e]
  BY <1>1, <1>2, <1>3, AGoto
<1>5. Listing' = Listing /\ call[c].arg \in made \ Listing
  BY <1>1, SameManifest DEF AInv, AFormed, Writing, Unlisting
<1>6. ATypeOK'
  <2>1. clock' \in [Clients -> [id : Ids \cup {0}, ms : Times]]
    BY <1>1, <1>2 DEF AInv, ATypeOK
  <2> QED BY <1>1, <1>5, <2>1 DEF AInv, ATypeOK
<1>7. AFormed(call[c])'
  BY <1>1, <1>2, <1>4, <1>5 DEF AFormed, Unlisting, Writing, Compacting
<1>8. \A e \in Clients \ {c} : Disjoint(call[c], call[e])' /\ Disjoint(call[e], call[c])'
  BY <1>1, <1>4 DEF AInv, Disjoint, Unlisting
<1> QED BY <1>1, <1>4, <1>6, <1>7, <1>8, ManifestLeft

LEMMA MoveHeadKeeps ==
  ASSUME AInv, NEW c \in Clients, MoveHead(c)
  PROVE  AInv'
<1>1. /\ call[c].at = "setHead" /\ call' = [call EXCEPT ![c] = Resting] /\ head' = call[c].arg
      /\ UNCHANGED <<schema, stored, score, clock, made, removed>>
  BY DEF MoveHead, At, Return
<1>2. Listing' = Listing /\ call[c].arg \in made
  BY <1>1, SameManifest DEF AInv, AFormed, Writing
<1>3. ATypeOK'
  BY <1>1, <1>2 DEF AInv, ATypeOK
<1> QED BY <1>1, <1>3, RestIsFine

LEMMA InstantKeeps ==
  ASSUME AInv, StoreSchema \/ (\E i \in Ids : DeleteBatch(i)) \/ \E c \in Clients : Reboot(c)
  PROVE  AInv'
<1>1. /\ UNCHANGED <<score, head, made, call>> /\ schema' \in BOOLEAN
      /\ stored \cup removed \subseteq stored' \cup removed'
      /\ stored' \cup removed' \subseteq stored \cup removed
  BY DEF StoreSchema, DeleteBatch, Reboot, Instant, AInv, ATypeOK
<1>2. clock' \in [Clients -> [id : Ids \cup {0}, ms : Times]]
  <2>1. Booted \in [id : Ids \cup {0}, ms : Times]
    BY ArrowAssumption DEF Booted, Times
  <2> QED BY <2>1 DEF StoreSchema, DeleteBatch, Reboot, AInv, ATypeOK
<1>3. Listing' = Listing /\ \A i : Newer(i)' = Newer(i)
  BY <1>1, SameManifest
<1>4. ATypeOK' /\ RecentReadable'
  BY <1>1, <1>2, <1>3 DEF AInv, ATypeOK, RecentReadable
<1>5. \A c \in Clients : AFormed(call[c])'
  BY <1>1, <1>3 DEF AInv, AFormed
<1> QED BY <1>1, <1>4, <1>5 DEF AInv, Disjoint

\* A batch that becomes listed pushes the others down.
LEMMA ListBatchKeeps ==
  ASSUME AInv, NEW c \in Clients, ListBatch(c)
  PROVE  AInv'
<1> DEFINE n == call[c].arg
<1>1. /\ call[c].at = "zaddBatch" /\ score' = [score EXCEPT ![n] = call[c].todo]
      /\ Goto(c, "setHead", {}) /\ UNCHANGED <<schema, stored, head, clock, made, removed>>
  BY DEF ListBatch, At
<1>2. n \in made \ Listing /\ made \subseteq Ids /\ call[c].todo \in Times /\ n \in stored \cup removed
  BY <1>1 DEF AInv, AFormed, ATypeOK, Writing, Unlisting
<1>3. /\ call' \in [Clients -> ACall] /\ call'[c].at = "setHead" /\ call'[c].arg = n
      /\ \A e \in Clients \ {c} : call'[e] = call[e]
  <2>1. {} \in Nat \cup SUBSET Ids /\ "setHead" \in Writing \cup Dropping \cup Compacting
    BY DEF Writing
  <2> QED BY <1>1, <2>1, AGoto
<1> HIDE DEF n
<1>4. /\ score' \in [Ids -> 0..MaxTime] /\ score'[n] > 0
      /\ \A i \in Ids \ {n} : score'[i] = score[i]
  BY <1>1, <1>2, ArrowAssumption DEF AInv, ATypeOK, Times
<1>5. Listing' = Listing \cup {n}
  BY <1>2, <1>4 DEF Listing
<1>6. ASSUME NEW i \in Listing PROVE Newer(i) \subseteq Newer(i)' /\ Newer(i)' \subseteq Ids
  <2>1. i # n /\ i \in Ids
    BY <1>2 DEF Listing
  <2>2. \A j \in Listing : j # n /\ j \in Ids
    BY <1>2 DEF Listing
  <2> QED BY <1>4, <1>5, <2>1, <2>2 DEF Newer, After, Listing
<1>7. ASSUME NEW i \in Listing, NEW k \in KeepCounts, Cardinality(Newer(i)) >= k
      PROVE  Cardinality(Newer(i)') >= k
  BY <1>6, <1>7, AtLeast, ArrowAssumption
<1>8. ATypeOK'
  BY <1>1, <1>2, <1>4, <1>5 DEF AInv, ATypeOK
<1>9. RecentReadable'
  <2> SUFFICES ASSUME NEW i \in Listing' \ (stored \cup removed)
               PROVE  \E k \in KeepCounts : Cardinality(Newer(i)') >= k
    BY <1>1 DEF RecentReadable
  <2>1. i \in Listing
    BY <1>2, <1>5
  <2>2. PICK k \in KeepCounts : Cardinality(Newer(i)) >= k
    BY <2>1 DEF AInv, RecentReadable
  <2> QED BY <1>7, <2>1, <2>2
<1>10. AFormed(call[c])'
  BY <1>1, <1>2, <1>3 DEF AFormed, Unlisting, Writing, Compacting
<1>11. ASSUME NEW e \in Clients \ {c} PROVE AFormed(call[e])'
  <2>1. AFormed(call[e]) /\ call'[e] = call[e]
    BY <1>3 DEF AInv
  <2>2. call[e].at \in Unlisting => call[e].arg \notin Listing'
    BY <1>1, <1>5, <2>1 DEF AInv, Disjoint, AFormed, Unlisting, n
  <2>3. ASSUME call[e].at = "delOld", NEW i \in call[e].todo \cap Listing'
        PROVE  Cardinality(Newer(i)') >= call[e].arg
    <3>1. i # n
      BY <1>1, <2>3 DEF AInv, Disjoint, Unlisting, n
    <3>2. i \in Listing /\ call[e].arg \in KeepCounts /\ Cardinality(Newer(i)) >= call[e].arg
      BY <1>5, <2>1, <2>3, <3>1 DEF AFormed, Compacting
    <3> QED BY <1>7, <3>2
  <2> QED BY <1>1, <2>1, <2>2, <2>3 DEF AFormed
<1>12. \A d, e \in Clients : d # e => Disjoint(call[d], call[e])'
  BY <1>3 DEF AInv, Disjoint, Unlisting
<1> QED BY <1>3, <1>8, <1>9, <1>10, <1>11, <1>12 DEF AInv

LEMMA DropTableKeeps ==
  ASSUME AInv, NEW c \in Clients, DropTable(c)
  PROVE  AInv'
<1>1. /\ call[c].at = "delTable" /\ schema' = FALSE /\ stored' = stored \ call[c].todo
      /\ score' = [i \in Ids |-> 0] /\ head' = 0 /\ UNCHANGED <<clock, made, removed>>
      /\ call' = [call EXCEPT ![c] = Resting]
  BY DEF DropTable, At, Return
<1>2. /\ call' \in [Clients -> ACall] /\ call'[c].at = "idle"
      /\ \A e \in Clients \ {c} : call'[e] = call[e]
  BY <1>1, AReturn
<1>3. Listing' = {}
  BY <1>1 DEF Listing
<1>4. ATypeOK'
  <2>1. 0 \in 0..MaxTime
    BY ArrowAssumption
  <2>2. score' \in [Ids -> 0..MaxTime]
    BY <1>1, <2>1
  <2> QED BY <1>1, <1>3, <2>2 DEF AInv, ATypeOK
<1>5. RecentReadable'
  BY <1>3 DEF RecentReadable
<1>6. AFormed(call[c])'
  BY <1>2 DEF AFormed, Unlisting, Writing, Compacting
<1>7. ASSUME NEW e \in Clients \ {c} PROVE AFormed(call[e])'
  <2>1. AFormed(call[e]) /\ call'[e] = call[e]
    BY <1>2 DEF AInv
  <2>2. call[e].at = "zaddBatch" => call[e].arg \in stored' \cup removed'
    BY <1>1, <2>1 DEF AInv, AFormed, Disjoint, Unlisting
  <2> QED BY <1>1, <1>3, <2>1, <2>2 DEF AFormed
<1>8. \A d, e \in Clients : d # e => Disjoint(call[d], call[e])'
  BY <1>2 DEF AInv, Disjoint, Unlisting
<1> QED BY <1>2, <1>4, <1>5, <1>6, <1>7, <1>8 DEF AInv

LEMMA DropOldKeeps ==
  ASSUME AInv, NEW c \in Clients, DropOld(c)
  PROVE  AInv'
<1>1. PICK i \in call[c].todo :
        /\ call[c].at = "delOld" /\ stored' = stored \ {i}
        /\ UNCHANGED <<schema, score, head, clock, made, removed>>
        /\ IF call[c].todo = {i} THEN Return(c) ELSE Goto(c, "delOld", call[c].todo \ {i})
  BY DEF DropOld, At
<1>2. /\ call[c].arg \in KeepCounts /\ call[c].todo \subseteq made
      /\ \A j \in call[c].todo \cap Listing : Cardinality(Newer(j)) >= call[c].arg
  BY <1>1 DEF AInv, AFormed, Compacting
<1>3. /\ call' \in [Clients -> ACall] /\ \A e \in Clients \ {c} : call'[e] = call[e]
      /\ \/ call'[c].at = "idle"
         \/ call'[c].at = "delOld" /\ call'[c].arg = call[c].arg /\ call'[c].todo \subseteq call[c].todo
  <2>1. CASE call[c].todo = {i}
    BY <1>1, <2>1, AReturn DEF Return
  <2>2. CASE call[c].todo # {i}
    <3> DEFINE left == call[c].todo \ {i}
    <3>1. /\ left \in Nat \cup SUBSET Ids /\ left \subseteq call[c].todo /\ Goto(c, "delOld", left)
          /\ "delOld" \in Writing \cup Dropping \cup Compacting
      BY <1>1, <1>2, <2>2 DEF Compacting, AInv, ATypeOK
    <3> HIDE DEF left
    <3> QED BY <3>1, AGoto
  <2> QED BY <2>1, <2>2
<1>4. Listing' = Listing /\ \A j : Newer(j)' = Newer(j)
  BY <1>1, SameManifest
<1>5. ATypeOK'
  BY <1>1, <1>4 DEF AInv, ATypeOK
<1>6. RecentReadable'
  BY <1>1, <1>2, <1>4 DEF AInv, RecentReadable
<1>7. AFormed(call[c])'
  BY <1>1, <1>2, <1>3, <1>4 DEF AFormed, Unlisting, Writing, Compacting
<1>8. ASSUME NEW e \in Clients \ {c} PROVE AFormed(call[e])'
  <2>1. AFormed(call[e]) /\ call'[e] = call[e]
    BY <1>3 DEF AInv
  <2>2. call[e].at = "zaddBatch" => call[e].arg \in stored' \cup removed'
    BY <1>1, <2>1 DEF AInv, AFormed, Disjoint, Unlisting
  <2> QED BY <1>1, <1>4, <2>1, <2>2 DEF AFormed
<1>9. \A d, e \in Clients : d # e => Disjoint(call[d], call[e])'
  BY <1>1, <1>3 DEF AInv, Disjoint, Unlisting
<1> QED BY <1>3, <1>5, <1>6, <1>7, <1>8, <1>9 DEF AInv

LEMMA AStopKeeps ==
  ASSUME AInv, NEW c \in Clients, Stop(c), UNCHANGED table
  PROVE  AInv'
<1>1. ATypeOK'
  BY SameManifest DEF AInv, ATypeOK, table
<1> QED BY <1>1, RestIsFine DEF Stop, table

LEMMA ANextKeeps ==
  ASSUME AInv, ANext
  PROVE  AInv'
<1>1. ASSUME NEW c \in Clients,
             StoreBatch(c) \/ PutBatch(c) \/ ListBatch(c) \/ MoveHead(c)
               \/ ReadManifest(c) \/ DropTable(c) \/ FindOld(c) \/ DropOld(c)
      PROVE  AInv'
  BY <1>1, StoreBatchKeeps, PutBatchKeeps, ListBatchKeeps, MoveHeadKeeps,
     ReadManifestKeeps, DropTableKeeps, FindOldKeeps, DropOldKeeps
<1>2. ASSUME NEW c \in Clients, DeleteTable(c) \/ \E keep \in KeepCounts : CompactToRecent(c, keep)
      PROVE AInv'
  BY <1>2, TableCallBegins
<1> QED BY <1>1, <1>2, InstantKeeps DEF ANext

\* A behaviour that uses another store has no batches.
TableInv ==
  IF store = "table" THEN AInv ELSE Listing = {}

LEMMA TableInvStep ==
  ASSUME TableInv, [Next]_vars
  PROVE  TableInv'
<1>1. CASE UNCHANGED vars
  <2>1. UNCHANGED <<call, schema, stored, score, head, clock, made, removed, store>>
    BY <1>1 DEF vars, calls, table
  <2>2. Listing' = Listing /\ (\A i : Newer(i)' = Newer(i))
    BY <2>1, SameManifest
  <2> QED BY <2>1, <2>2 DEF TableInv, AInv, ATypeOK, AFormed, Disjoint, RecentReadable
<1>2. CASE Next /\ store # "table"
  BY <1>2 DEF Next, TableInv, table, Listing
<1>3. CASE Next /\ store = "table"
  <2>1. AInv /\ store' = "table"
    BY <1>3 DEF Next, TableInv
  <2>2. CASE ANext
    BY <2>1, <2>2, ANextKeeps DEF TableInv
  <2>3. ASSUME NEW c \in Clients, Stop(c), UNCHANGED table PROVE TableInv'
    BY <2>1, <2>3, AStopKeeps DEF TableInv
  <2> QED BY <1>3, <2>2, <2>3 DEF Next
<1> QED BY <1>1, <1>2, <1>3

\* Whichever calls of storeBatch, deleteTable and compactToRecent overlap,
\* wherever they are stopped and whatever the clocks of their machines show,
\* the newest batches of the manifest, as many as every compaction keeps, can
\* be read unless they were deleted themselves.
THEOREM RecentIsReadable == Spec => []RecentReadable
<1>1. Init => TableInv
  BY AInvInit DEF Init, TableInv, AInit, Listing
<1>2. TableInv /\ [Next]_vars => TableInv'
  BY TableInvStep
<1>3. TableInv => RecentReadable
  BY DEF TableInv, AInv, RecentReadable
<1> QED BY <1>1, <1>2, <1>3, PTL DEF Spec

-----------------------------------------------------------------------------
(* All stores.                                                             *)

\* Every step spends nothing, or one unit of what is left.
Thrifty == spent' = spent \/ (spent < Budget /\ spent' = spent + 1)

LEMMA EveryStepIsThrifty ==
  ASSUME Next
  PROVE  Thrifty
<1> USE DEF Thrifty, Begin, Spend, Instant, Goto, Return, history
<1>1. CASE DNext
  BY <1>1 DEF DNext, DeleteDecl, StoreDecl, PutRecord, EndStore, AddDep, AddRdep, ExpireDecl, ReadDeps,
              RemoveRdep, DropKeys, LapseDecl
<1>2. CASE TNext
  BY <1>2 DEF TNext, RemoveTheorem, IndexTheorem, Clear, SetInfo, AddEntry, FindTheorem, GetInfo,
              RemoveEntry, DelInfo, ListKeys, DelKeys
<1>3. CASE PNext
  <2>1. ASSUME NEW c \in Clients, NEW s \in Sessions, NEW op, NEW label, NEW k, NEW rivals,
               StartSession(c, s) \/ Use(c, op, label, s, k, rivals)
        PROVE  Thrifty
    BY <2>1 DEF StartSession, Use
  <2>2. ASSUME NEW c \in Clients,
               \/ PutSession(c) \/ ExpireSession(c) \/ AddActive(c)
               \/ PutStep(c) \/ ExpireStep(c) \/ PutCount(c) \/ ListStep(c) \/ ExpireList(c)
        PROVE  Thrifty
    BY <2>2 DEF PutSession, ExpireSession, AddActive, PutStep, ExpireStep, PutCount, ListStep, ExpireList
  <2>3. ASSUME NEW c \in Clients,
               \/ PushTrace(c) \/ MarkEnded(c) \/ RemoveActive(c) \/ AddCompleted(c)
               \/ ReadSteps(c) \/ DropSession(c) \/ LeaveSets(c)
        PROVE  Thrifty
    BY <2>3 DEF PushTrace, MarkEnded, RemoveActive, AddCompleted, ReadSteps, DropSession, LeaveSets
  <2>4. LapseSession => Thrifty
    BY DEF LapseSession
  <2> HIDE DEF Thrifty, Begin, Spend, Instant, Goto, Return, history
  <2> QED BY <1>3, <2>1, <2>2, <2>3, <2>4
          DEF PNext, RecordTrace, EndSession, DeleteSession, RecordStep
<1>4. CASE ANext
  BY <1>4 DEF ANext, StoreSchema, DeleteBatch, Reboot, StoreBatch, PutBatch, ListBatch, MoveHead, DeleteTable,
              ReadManifest, DropTable, CompactToRecent, FindOld, DropOld
<1>5. ASSUME NEW c \in Clients, Stop(c) PROVE Thrifty
  BY <1>5 DEF Stop
<1> HIDE DEF Thrifty
<1> QED BY <1>1, <1>2, <1>3, <1>4, <1>5 DEF Next

AllInv == StoreInv /\ TableInv /\ SessionInv /\ IndexInv

LEMMA TypesKept ==
  ASSUME AllInv, AllInv', TypeOK, [Next]_vars
  PROVE  TypeOK'
<1>1. CASE UNCHANGED vars
  BY <1>1 DEF vars, calls, history, declarations, index, proofs, proofSets, table, TypeOK, DTypeOK, TTypeOK,
              PTypeOK, ATypeOK, Listing
<1>2. CASE Next
  <2>1. spent' \in 0..Budget
    BY <1>2, EveryStepIsThrifty, CallsAssumption DEF Thrifty, TypeOK
  <2>2. DTypeOK'
    BY <1>2 DEF Next, AllInv, StoreInv, DInv, TypeOK, DTypeOK, declarations
  <2>3. TTypeOK'
    BY <1>2 DEF Next, AllInv, IndexInv, TInv, TBase, NoIndex, TypeOK
  <2>4. PTypeOK'
    BY <1>2 DEF Next, AllInv, SessionInv, PInv, PBase, TypeOK
  <2>5. ATypeOK'
    BY <1>2 DEF Next, AllInv, TableInv, AInv, TypeOK, ATypeOK, Listing, table
  <2> QED BY <2>1, <2>2, <2>3, <2>4, <2>5 DEF TypeOK
<1> QED BY <1>1, <1>2

\* Nothing leaves its type, whichever store is used: a member of an index set
\* is a theorem, a session that was deleted was once started, the pointer of a
\* table names an id that was generated, and no bound is exceeded.
THEOREM StoresAreTyped == Spec => []TypeOK
<1>1. Init => AllInv /\ TypeOK
  <2> SUFFICES ASSUME Init PROVE AllInv /\ TypeOK
    OBVIOUS
  <2>1. StoreInv /\ TableInv
    BY DInvInit, AInvInit DEF Init, StoreInv, DInit, TableInv, AInit, Listing
  <2>2. SessionInv /\ PTypeOK
    BY PInvInit DEF Init, SessionInv, PInit, PInv, PBase
  <2>3. IndexInv /\ TTypeOK
    BY TInvInit DEF Init, TInit, IndexInv, NoIndex, TTypeOK
  <2>4. DTypeOK
    BY DEF Init, DInit, DTypeOK
  <2>5. ATypeOK
    BY ATypeInit DEF Init
  <2>6. spent \in 0..Budget
    BY CallsAssumption DEF Init, CInit
  <2> QED BY <2>1, <2>2, <2>3, <2>4, <2>5, <2>6 DEF AllInv, TypeOK
<1>2. AllInv /\ [Next]_vars => AllInv'
  BY StoreInvStep, TableInvStep, SessionInvStep, IndexInvStep DEF AllInv
<1>3. AllInv /\ AllInv' /\ TypeOK /\ [Next]_vars => TypeOK'
  BY TypesKept
<1> QED BY <1>1, <1>2, <1>3, PTL DEF Spec
=============================================================================
