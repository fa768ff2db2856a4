---------------------------- MODULE ResponseCache --------------------------
(***************************************************************************)
(* The cached answer of one public GET (app.py:607-827): Redis, shared, and *)
(* a copy in the memory of each process for when Redis does not answer.    *)
(* A reader that misses computes the answer from the database and stores   *)
(* it in both; an edit changes the database and then deletes what is       *)
(* cached, in Redis and in its own process only.                           *)
(*                                                                         *)
(* An answer is the version of the data it was computed from.              *)
(***************************************************************************)
EXTENDS Integers

CONSTANTS
    Processes,          \* gunicorn's, and the worker
    Readers, Editors,   \* requests at a time
    Process(_),         \* the one in Processes that each of them runs in
    Locking,            \* the Readers that go through _with_cache
    MaxVersion,         \* bound: edits
    MaxFaults,          \* bound: outages of Redis and crashes
    Null

VARIABLES
    version,    \* of the data in the database
    redis,      \* the entry in Redis
    memory,     \* the entry of each process
    lock,       \* the recompute lock, which only expires
    outage,     \* Redis does not answer
    reader,     \* where each reader is, and what it has computed
    editor,
    late,       \* history: the entry in Redis was stored after the deletion
    faults

vars == <<version, redis, memory, lock, outage, reader, editor, late, faults>>

Init ==
    /\ version = 0
    /\ redis = Null /\ memory = [p \in Processes |-> Null]
    /\ lock = FALSE /\ outage = FALSE
    /\ reader = [r \in Readers |-> [pc |-> "idle", got |-> Null]]
    /\ editor = [e \in Editors |-> "idle"]
    /\ late = FALSE
    /\ faults = 0

At(r, pc) == reader[r].pc = pc

Go(r, pc, got) == reader' = [reader EXCEPT ![r] = [pc |-> pc, got |-> got]]

\* What _api_cache_get finds: a miss of Redis is a miss.
Found(r) == IF outage THEN memory[Process(r)] ELSE redis

Hit(r) == Go(r, "idle", Null)

Miss(r) == IF r \in Locking THEN "acquire" ELSE "compute"

Look(r) ==
    /\ At(r, "idle")
    /\ IF Found(r) # Null THEN Hit(r) ELSE Go(r, Miss(r), Null)
    /\ UNCHANGED <<version, redis, memory, lock, outage, editor, late, faults>>

Acquire(r) ==
    /\ At(r, "acquire")
    /\ Go(r, IF lock /\ ~outage THEN "wait" ELSE "compute", Null)
    /\ lock' = (lock \/ ~outage)
    /\ UNCHANGED <<version, redis, memory, outage, editor, late, faults>>

StillMissing == "compute"

LookAgain(r) ==
    /\ At(r, "wait")
    /\ IF Found(r) # Null THEN Go(r, "idle", Null) ELSE Go(r, StillMissing, Null)
    /\ UNCHANGED <<version, redis, memory, lock, outage, editor, late, faults>>

\* The second disjunct is an error of the database, which is not stored.
Compute(r) ==
    /\ At(r, "compute")
    /\ Go(r, "store", version) \/ Go(r, "idle", Null)
    /\ UNCHANGED <<version, redis, memory, lock, outage, editor, late, faults>>

Deleting == \E e \in Editors : editor[e] = "delete"

Store(r) ==
    /\ At(r, "store")
    /\ Go(r, "keep", reader[r].got)
    /\ IF outage THEN UNCHANGED <<redis, late>>
       ELSE /\ redis' = reader[r].got
            /\ late' = (reader[r].got # version /\ ~Deleting)
    /\ UNCHANGED <<version, memory, lock, outage, editor, faults>>

Keep(r) ==
    /\ At(r, "keep")
    /\ memory' = [memory EXCEPT ![Process(r)] = reader[r].got]
    /\ Go(r, "idle", Null)
    /\ UNCHANGED <<version, redis, lock, outage, editor, late, faults>>

----------------------------------------------------------------------------

Write(e) ==
    /\ editor[e] = "idle" /\ version < MaxVersion
    /\ version' = version + 1
    /\ editor' = [editor EXCEPT ![e] = "delete"]
    /\ UNCHANGED <<redis, memory, lock, outage, reader, late, faults>>

\* Mutant: the key does not match the prefix.
AfterDeleteSame == redis

AfterDelete == IF outage THEN redis ELSE Null

Delete(e) ==
    /\ editor[e] = "delete"
    /\ redis' = AfterDelete
    /\ late' = (late /\ outage)
    /\ editor' = [editor EXCEPT ![e] = "drop"]
    /\ UNCHANGED <<version, memory, lock, outage, reader, faults>>

Drop(e) ==
    /\ editor[e] = "drop"
    /\ memory' = [memory EXCEPT ![Process(e)] = Null]
    /\ editor' = [editor EXCEPT ![e] = "idle"]
    /\ UNCHANGED <<version, redis, lock, outage, reader, late, faults>>

----------------------------------------------------------------------------

ExpireRedis ==
    /\ redis # Null
    /\ redis' = Null /\ late' = FALSE
    /\ UNCHANGED <<version, memory, lock, outage, reader, editor, faults>>

ExpireMemory(p) ==
    /\ memory[p] # Null
    /\ memory' = [memory EXCEPT ![p] = Null]
    /\ UNCHANGED <<version, redis, lock, outage, reader, editor, late, faults>>

ExpireLock ==
    /\ lock
    /\ lock' = FALSE
    /\ UNCHANGED <<version, redis, memory, outage, reader, editor, late, faults>>

Fault == faults < MaxFaults /\ faults' = faults + 1

Outage ==
    /\ ~outage /\ Fault
    /\ outage' = TRUE
    /\ UNCHANGED <<version, redis, memory, lock, reader, editor, late>>

\* Redis comes back with what it had, or empty.
Restore ==
    /\ outage
    /\ outage' = FALSE
    /\ \/ UNCHANGED <<redis, lock, late>>
       \/ redis' = Null /\ lock' = FALSE /\ late' = FALSE
    /\ UNCHANGED <<version, memory, reader, editor, faults>>

Crash(p) ==
    /\ Fault
    /\ memory' = [memory EXCEPT ![p] = Null]
    /\ reader' = [r \in Readers |-> IF Process(r) = p THEN [pc |-> "idle", got |-> Null] ELSE reader[r]]
    /\ editor' = [e \in Editors |-> IF Process(e) = p THEN "idle" ELSE editor[e]]
    /\ UNCHANGED <<version, redis, lock, outage, late>>

Answer(r) == LookAgain(r) \/ Acquire(r) \/ Compute(r) \/ Store(r) \/ Keep(r)
Invalidate(e) == Delete(e) \/ Drop(e)

Next ==
    \/ \E r \in Readers : Look(r) \/ Answer(r)
    \/ \E e \in Editors : Write(e) \/ Invalidate(e)
    \/ ExpireRedis \/ ExpireLock \/ (\E p \in Processes : ExpireMemory(p) \/ Crash(p))
    \/ Outage \/ Restore

\* Requests that have begun go on, and entries expire.
Spec ==
    /\ Init /\ [][Next]_vars
    /\ \A r \in Readers : WF_vars(Answer(r))
    /\ \A e \in Editors : WF_vars(Invalidate(e))
    /\ WF_vars(ExpireRedis) /\ \A p \in Processes : WF_vars(ExpireMemory(p))

----------------------------------------------------------------------------

Entries == {Null} \cup 0 .. version

TypeOK ==
    /\ version \in 0 .. MaxVersion
    /\ redis \in Entries /\ \A p \in Processes : memory[p] \in Entries
    /\ {lock, outage, late} \subseteq BOOLEAN
    /\ \A r \in Readers :
        /\ reader[r].pc \in {"idle", "acquire", "wait", "compute", "store", "keep"}
        /\ reader[r].got \in Entries
        /\ reader[r].pc \in {"store", "keep"} <=> reader[r].got # Null
    /\ editor \in [Editors -> {"idle", "delete", "drop"}]
    /\ faults \in 0 .. MaxFaults

Stale(entry) == entry # Null /\ entry # version

\* Without an outage or a crash the shared entry is old for two reasons only:
\* the edit is about to delete it, or a reader that had computed before the
\* edit stored after the deletion.
StaleExplained == Stale(redis) /\ faults = 0 => late \/ Deleting

\* Once the edits end, so do the old answers, in Redis and in every process:
\* nothing hands an old entry on.
SettlesFresh == <>[](~Stale(redis) /\ \A p \in Processes : ~Stale(memory[p]))

\* Every request is answered, also one that waits for another's computation.
AllAnswered == \A r \in Readers : ~At(r, "idle") ~> At(r, "idle")

\* app.py:768 "no-store: server-side Redis/memory cache handles performance;
\* browser must always re-fetch so admin approvals appear immediately": once
\* the invalidation is over a re-fetch shows the edit.
AppearsImmediately == (\A e \in Editors : editor[e] = "idle") => outage \/ ~Stale(redis)
=============================================================================
