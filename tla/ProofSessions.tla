---------------------------- MODULE ProofSessions ---------------------------
(***************************************************************************)
(* RedisLean/Mathlib/ProofState.lean: the records of proof sessions, their *)
(* steps, the list of the steps and the trace, and the sets of active and  *)
(* completed sessions.  Goals, tactics and times are left out; so are the  *)
(* reads, getPathToStep included, which change nothing.                    *)
(***************************************************************************)
EXTENDS StoreCalls

CONSTANTS Sessions, Steps

VARIABLES
  session,    \* {prefix}:proof:session:<id>: none, json or hash
  data,       \* the other keys and members of a session: see Data
  ttl,        \* the keys of a session that carry a TTL
  active,     \* {prefix}:proof:active
  completed,  \* {prefix}:proof:completed
  known,      \* sessions that startSession has returned
  doomed,     \* sessions that deleteSession was called for
  deleted,    \* and whose deletion has ended, without another call since
  unlisted    \* whose list of steps expired between a ZADD and its EXPIRE

proofSets == <<active, completed>>
proofs == <<session, data, ttl, proofSets, known, doomed, deleted, unlisted>>
proofHistory == <<known, doomed, deleted, unlisted>>

\* The record of a step, its place in the sorted set of steps, the trace.
StepKey(k) == <<"step", k>>
Listed(k)  == <<"listed", k>>
Data == {StepKey(k) : k \in Steps} \cup {Listed(k) : k \in Steps} \cup {<<"trace", 0>>}
Key(kind) == <<kind, 0>>

PInit ==
  /\ session = [s \in Sessions |-> "none"]
  /\ data = [s \in Sessions |-> {}] /\ ttl = [s \in Sessions |-> {}]
  /\ active = {} /\ completed = {} /\ known = {} /\ doomed = {} /\ deleted = {}
  /\ unlisted = {}

Session(c) == CHOOSE s \in Sessions : s \in call[c].on

SetSession(s, type) ==
  /\ session' = [session EXCEPT ![s] = type]
  /\ ttl' = [ttl EXCEPT ![s] = @ \ {Key("session")}]
PutData(s, items) == data' = [data EXCEPT ![s] = @ \cup items]
ExpireKey(s, key) == ttl' = [ttl EXCEPT ![s] = IF Expiring THEN @ \cup {key} ELSE @]

\* startSession, with a new id: SET, EXPIRE, SADD.
StartSession(c, s) ==
  /\ s \notin known /\ Quiet(s) /\ Clean(s)
  /\ Begin(c, "startSession", "setNew", {s}, {}, {})
  /\ UNCHANGED proofs

PutSession(c) ==
  /\ At(c, "setNew") /\ Goto(c, "expireNew", {})
  /\ SetSession(Session(c), "json")
  /\ UNCHANGED <<data, proofSets, proofHistory>>

ExpireSession(c) ==
  /\ At(c, "expireNew") /\ Goto(c, "addActive", {})
  /\ ExpireKey(Session(c), Key("session"))
  /\ UNCHANGED <<session, data, proofSets, proofHistory>>

AddActive(c) ==
  /\ At(c, "addActive") /\ Return(c)
  /\ active' = active \cup {Session(c)} /\ known' = known \cup {Session(c)}
  /\ UNCHANGED <<session, data, ttl, completed, doomed, deleted, unlisted>>

\* A call for a session that startSession has returned.
Use(c, op, label, s, k, rivals) ==
  /\ s \in known
  /\ Begin(c, op, label, {s}, k, rivals)
  /\ deleted' = deleted \ {s} /\ UNCHANGED unlisted

\* recordStep: SET and EXPIRE of the step, SET of the record (which drops its
\* TTL), ZADD and EXPIRE of the list of steps.
RecordStep(c, s, k) ==
  Use(c, "recordStep", "setStep", s, k, {"deleteSession"})
    /\ UNCHANGED <<session, data, ttl, proofSets, known, doomed>>

PutStep(c) ==
  /\ At(c, "setStep") /\ Goto(c, "expireStep", {})
  /\ PutData(Session(c), {StepKey(call[c].arg)})
  /\ ttl' = [ttl EXCEPT ![Session(c)] = @ \ {StepKey(call[c].arg)}]
  /\ UNCHANGED <<session, proofSets, proofHistory>>

ExpireStep(c) ==
  /\ At(c, "expireStep") /\ Goto(c, "setCount", {})
  /\ LET s == Session(c) key == StepKey(call[c].arg)
     IN IF key \in data[s] THEN ExpireKey(s, key) ELSE UNCHANGED ttl
  /\ UNCHANGED <<session, data, proofSets, proofHistory>>

PutCount(c) ==
  /\ At(c, "setCount") /\ Goto(c, "zadd", {})
  /\ SetSession(Session(c), "json")
  /\ UNCHANGED <<data, proofSets, proofHistory>>

ListStep(c) ==
  /\ At(c, "zadd") /\ Goto(c, "expireList", {})
  /\ PutData(Session(c), {Listed(call[c].arg)})
  /\ UNCHANGED <<session, ttl, proofSets, proofHistory>>

IsListed(s, key) == key[1] = "listed" /\ key \in data[s]

ExpireList(c) ==
  /\ At(c, "expireList") /\ Return(c)
  /\ LET s == Session(c)
     IN IF \E key \in Data : IsListed(s, key) THEN ExpireKey(s, Key("list")) ELSE UNCHANGED ttl
  /\ UNCHANGED <<session, data, proofSets, proofHistory>>

\* recordTrace: LPUSH, EXPIRE.
RecordTrace(c, s) ==
  Use(c, "recordTrace", "lpush", s, {}, {"deleteSession"})
    /\ UNCHANGED <<session, data, ttl, proofSets, known, doomed>>

PushTrace(c) ==
  /\ \/ At(c, "lpush") /\ Goto(c, "expireTrace", {}) /\ PutData(Session(c), {Key("trace")}) /\ UNCHANGED ttl
     \/ /\ At(c, "expireTrace") /\ Return(c) /\ UNCHANGED data
        /\ IF Key("trace") \in data[Session(c)] THEN ExpireKey(Session(c), Key("trace")) ELSE UNCHANGED ttl
  /\ UNCHANGED <<session, proofSets, proofHistory>>

\* endSession: two HSETs, which throw if the record is the string that the
\* other calls SET and make a hash if there is none; SREM, SADD.
EndSession(c, s) ==
  Use(c, "endSession", "hsetDone", s, {}, {"deleteSession"})
    /\ UNCHANGED <<session, data, ttl, proofSets, known, doomed>>

MarkEnded(c) ==
  /\ At(c, "hsetDone") \/ At(c, "hsetTime")
  /\ IF session[Session(c)] = "json"
       THEN Return(c) /\ UNCHANGED session
       ELSE /\ Goto(c, IF At(c, "hsetDone") THEN "hsetTime" ELSE "remActive", {})
            /\ session' = [session EXCEPT ![Session(c)] = "hash"]
  /\ UNCHANGED <<data, ttl, proofSets, proofHistory>>

\* Mutant: the session stays among the active ones.
KeepActive(c) ==
  /\ At(c, "remActive") /\ Goto(c, "addCompleted", {})
  /\ UNCHANGED proofs

RemoveActive(c) ==
  /\ At(c, "remActive") /\ Goto(c, "addCompleted", {})
  /\ active' = active \ {Session(c)}
  /\ UNCHANGED <<session, data, ttl, completed, proofHistory>>

AddCompleted(c) ==
  /\ At(c, "addCompleted") /\ Return(c)
  /\ completed' = completed \cup {Session(c)}
  /\ UNCHANGED <<session, data, ttl, active, proofHistory>>

\* deleteSession: ZRANGE, one DEL, SREM from both sets.
DeleteSession(c, s) ==
  /\ Use(c, "deleteSession", "zrangeSteps", s, {},
         {"recordStep", "recordTrace", "endSession"})
  /\ doomed' = doomed \cup {s}
  /\ UNCHANGED <<session, data, ttl, proofSets, known>>

ReadSteps(c) ==
  /\ At(c, "zrangeSteps") /\ UNCHANGED proofs
  /\ Goto(c, "delSession", {k \in Steps : Listed(k) \in data[Session(c)]})

DropSession(c) ==
  /\ At(c, "delSession") /\ Goto(c, "leaveActive", {})
  /\ LET s == Session(c)
         dropped == {Key("trace")} \cup {Listed(k) : k \in Steps} \cup {StepKey(k) : k \in call[c].todo}
     IN /\ session' = [session EXCEPT ![s] = "none"]
        /\ data' = [data EXCEPT ![s] = @ \ dropped]
        /\ ttl' = [ttl EXCEPT ![s] = @ \ ({Key("session"), Key("list")} \cup dropped)]
  /\ UNCHANGED <<proofSets, proofHistory>>

LeaveSets(c) ==
  /\ \/ At(c, "leaveActive") /\ Goto(c, "leaveCompleted", {})
        /\ active' = active \ {Session(c)} /\ UNCHANGED <<completed, deleted>>
     \/ At(c, "leaveCompleted") /\ Return(c)
        /\ completed' = completed \ {Session(c)} /\ deleted' = deleted \cup {Session(c)}
        /\ UNCHANGED active
  /\ UNCHANGED <<session, data, ttl, known, doomed, unlisted>>

Outlived(s) == {k \in Steps : {StepKey(k), Listed(k)} \subseteq data[s]}
Records(c, s, k) == call[c].op = "recordStep" /\ s \in call[c].on /\ call[c].arg = k

\* A TTL runs out.  The list of the steps gets its TTL after each of them and
\* outlives them, unless a call is about to renew it or was stopped before.
LapseSession ==
  /\ Instant
  /\ \E s \in Sessions : \E key \in ttl[s] :
       /\ ttl' = [ttl EXCEPT ![s] = @ \ {key}]
       /\ session' = IF key = Key("session") THEN [session EXCEPT ![s] = "none"] ELSE session
       /\ data' = [data EXCEPT ![s] =
                     IF key = Key("list") THEN {d \in @ : d[1] # "listed"} ELSE @ \ {key}]
       /\ key = Key("list") /\ s \notin torn => \A k \in Outlived(s) : \E c \in Clients : Records(c, s, k)
       /\ unlisted' = IF key = Key("list") /\ \E c \in Clients : At(c, "expireList") /\ s \in call[c].on
                        THEN unlisted \cup {s} ELSE unlisted
  /\ UNCHANGED <<proofSets, known, doomed, deleted>>

PNext ==
  \/ \E c \in Clients, s \in Sessions :
       \/ StartSession(c, s) \/ RecordTrace(c, s) \/ EndSession(c, s) \/ DeleteSession(c, s)
       \/ \E k \in Steps : RecordStep(c, s, k)
  \/ \E c \in Clients :
       \/ PutSession(c) \/ ExpireSession(c) \/ AddActive(c)
       \/ PutStep(c) \/ ExpireStep(c) \/ PutCount(c) \/ ListStep(c) \/ ExpireList(c) \/ PushTrace(c)
       \/ MarkEnded(c) \/ RemoveActive(c) \/ AddCompleted(c)
       \/ ReadSteps(c) \/ DropSession(c) \/ LeaveSets(c)
  \/ LapseSession

-----------------------------------------------------------------------------
PTypeOK ==
  /\ session \in [Sessions -> {"none", "json", "hash"}]
  /\ data \in [Sessions -> SUBSET Data]
  /\ ttl \in [Sessions -> SUBSET (Data \cup {Key("session"), Key("list")})]
  /\ active \subseteq Sessions /\ completed \subseteq Sessions
  /\ deleted \subseteq doomed /\ doomed \subseteq known /\ known \subseteq Sessions /\ unlisted \subseteq known

\* A session that was started is among the active or the completed ones, and
\* not among both, until it is deleted; and then nothing is left of it, no
\* step either, in whatever order its keys have expired, unless a call was
\* stopped half-way or another call worked on it while it was deleted.  Steps
\* are left that were unlisted by an expiry in the middle of recordStep.
SessionsAccounted ==
  \A s \in known :
    Quiet(s) /\ Clean(s) =>
      /\ s \notin doomed => (s \in active <=> s \notin completed)
      /\ s \in deleted => /\ session[s] = "none" /\ s \notin active \cup completed
                         /\ data[s] \subseteq {StepKey(k) : k \in IF s \in unlisted THEN Steps ELSE {}}
=============================================================================
