------------------------------- MODULE Stores -------------------------------
(***************************************************************************)
(* The stores that the mathlib tools and RedisArrow keep in Redis.  They   *)
(* share no keys, so that each is explored by itself.                      *)
(***************************************************************************)
EXTENDS Declarations, TheoremIndex, ProofSessions, ArrowTable

VARIABLE store  \* the store that this behaviour uses

vars == <<calls, declarations, index, proofs, table, store>>

Init ==
  /\ store \in {"declarations", "theorems", "sessions", "table"}
  /\ CInit /\ DInit /\ TInit /\ PInit /\ AInit

Next ==
  /\ \/ store = "declarations" /\ DNext /\ UNCHANGED <<index, proofs, table>>
     \/ store = "theorems" /\ TNext /\ UNCHANGED <<declarations, proofs, table>>
     \/ store = "sessions" /\ PNext /\ UNCHANGED <<declarations, index, table>>
     \/ store = "table" /\ ANext /\ UNCHANGED <<declarations, index, proofs>>
     \/ (\E c \in Clients : Stop(c)) /\ UNCHANGED <<declarations, index, proofs, table>>
  /\ UNCHANGED store

Spec == Init /\ [][Next]_vars

TypeOK ==
  /\ spent \in 0..Budget /\ DTypeOK /\ TTypeOK /\ PTypeOK /\ ATypeOK
=============================================================================
