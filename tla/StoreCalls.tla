------------------------------ MODULE StoreCalls ----------------------------
(***************************************************************************)
(* Calls of the mathlib tools and of RedisArrow on keys that several       *)
(* clients share.  A call is a sequence of Redis commands, one per step,   *)
(* without transaction; its client may stop before any of them.            *)
(***************************************************************************)
EXTENDS Naturals, Sequences, FiniteSets

CONSTANTS Clients,
          Expiring,  \* are the keys that the code gives a TTL to given one?
          Budget     \* bound on calls, on clients that stop and on expiries

ASSUME CallsAssumption == Budget \in Nat /\ Expiring \in BOOLEAN

VARIABLES
  call,   \* the call in progress of each client and its locals
  raced,  \* what two calls worked on at once that do not go together
  torn,   \* what calls worked on that were stopped half-way
  spent   \* how much of Budget is used

history == <<raced, torn, spent>>
calls == <<call, history>>

\* at: the next command; on: what the call works on; arg: its argument;
\* todo: what its loop has left to do.
Resting == [op |-> "none", at |-> "idle", on |-> {}, arg |-> {}, todo |-> {}]

CInit == call = [c \in Clients |-> Resting] /\ raced = {} /\ torn = {} /\ spent = 0

Spend == spent < Budget /\ spent' = spent + 1
At(c, label) == call[c].at = label
Quiet(x) == \A c \in Clients : x \notin call[c].on
Clean(x) == x \notin raced \cup torn

\* A call begins; rivals are the calls that it does not go together with.
Begin(c, op, label, on, arg, rivals) ==
  /\ At(c, "idle") /\ Spend
  /\ call' = [call EXCEPT ![c] = [op |-> op, at |-> label, on |-> on, arg |-> arg, todo |-> {}]]
  /\ raced' = raced \cup UNION {call[d].on \cap on : d \in {d \in Clients : call[d].op \in rivals}}
  /\ UNCHANGED torn

Goto(c, label, todo) ==
  /\ call' = [call EXCEPT ![c].at = label, ![c].todo = todo]
  /\ UNCHANGED history

Return(c) == call' = [call EXCEPT ![c] = Resting] /\ UNCHANGED history

\* A process stops, or a command throws.
Stop(c) ==
  /\ ~At(c, "idle") /\ Spend
  /\ torn' = torn \cup call[c].on
  /\ call' = [call EXCEPT ![c] = Resting]
  /\ UNCHANGED raced

\* A command that is a call by itself, or a key that expires.
Instant == Spend /\ UNCHANGED <<call, raced, torn>>
=============================================================================
