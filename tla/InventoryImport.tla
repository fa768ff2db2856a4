-------------------------- MODULE InventoryImport --------------------------
(***************************************************************************)
(* The cars of one dealership as two workers bring them in:                *)
(* workers/inventory_import_worker.py works off the queued files,          *)
(* workers/dealer_api_source_poller.py polls the dealer's own system.      *)
(* Both look up which external ids exist, insert the others in one         *)
(* request, insert the rows without an id, and patch what existed.         *)
(*                                                                         *)
(* The threads overlap, and so do two processes while one replaces the     *)
(* other: a file is claimed by its status, the source by its               *)
(* last_pulled_at, which is also the lease.                                *)
(***************************************************************************)
EXTENDS Integers, FiniteSets

CONSTANTS
    Importers, Pollers,     \* threads of the two kinds
    Jobs,                   \* dealer_inventory_jobs, numbered by created_at
    File(_),                \* what a job's file holds
    Feeds,                  \* what the dealer's system may answer
    Ids,                    \* external ids
    Stamps,                 \* values of last_pulled_at; only equality matters
    MaxFaults,              \* bound: crashes and lost requests
    Source

\* ids: rows with an external id; twice: those listed twice; anon: rows
\* without one; invalid: there are rows validate_row refuses; typed: a year or
\* a price is a number of JSON, which validate_row tries to strip.
Listings == [ids : SUBSET Ids, twice : SUBSET Ids, anon : BOOLEAN,
             invalid : BOOLEAN, typed : BOOLEAN]

ASSUME FeedsAssumption ==
    Feeds \cup {File(j) : j \in Jobs} \subseteq {f \in Listings : f.twice \subseteq f.ids}
ASSUME NumbersAssumption == Jobs \subseteq Nat /\ Stamps \subseteq Nat \ {0} /\ MaxFaults \in Nat
ASSUME SourceAssumption == Source \notin Jobs
\* The clock is finer than the polls are many: a new stamp is nobody's yet.
ASSUME StampsAssumption == /\ IsFiniteSet(Stamps) /\ IsFiniteSet(Pollers)
                           /\ Cardinality(Stamps) > Cardinality(Pollers) + 1

Workers == Importers \cup Pollers

VARIABLES
    job,        \* status of each file
    source,     \* enabled, last_status and last_pulled_at of the source
    aged,       \* the poll interval, or the stale time of a claim, has passed
    cars,       \* external ids of the dealership's cars
    removed,    \* history: ids whose car was deleted since it was there
    anon,       \* how often a file's rows without an id have been inserted
    worker,
    prior,      \* history: what the last finished poll recorded, and had read
    faults

vars == <<job, source, aged, cars, removed, anon, worker, prior, faults>>

Never == 0
NoFeed == [ids |-> {}, twice |-> {}, anon |-> FALSE, invalid |-> FALSE,
           typed |-> FALSE]
NoPoll == [status |-> "none", ids |-> {}, usable |-> TRUE]

Idle == [pc |-> "idle", task |-> Source, seen |-> "none", stamp |-> Never,
         feed |-> NoFeed, known |-> {}, good |-> FALSE, bad |-> FALSE, error |-> FALSE]

Init ==
    /\ job = [j \in Jobs |-> "queued"]
    /\ source = [enabled |-> TRUE, status |-> "none", stamp |-> Never]
    /\ aged = FALSE
    /\ cars \in SUBSET Ids /\ removed = {}
    /\ anon = [j \in Jobs |-> 0]
    /\ worker = [w \in Workers |-> Idle]
    /\ prior = NoPoll
    /\ faults = 0

Go(w, r) == worker' = [worker EXCEPT ![w] = r]
At(w, pc) == worker[w].pc = pc
OfSource(w) == worker[w].task = Source

FreshStamp ==
    CHOOSE s \in Stamps : s # source.stamp /\ \A w \in Workers : s # worker[w].stamp

Fault == faults < MaxFaults /\ faults' = faults + 1

\* An exception: run() of the import marks the file failed, run() of the
\* poller leaves the source to its lease.
Thrown(w) ==
    Go(w, IF OfSource(w) THEN Idle ELSE [worker[w] EXCEPT !.pc = "record", !.error = TRUE])

----------------------------------------------------------------------------
(* Finding and claiming work. *)

SeeJob(w, j) ==
    /\ At(w, "idle") /\ w \in Importers
    /\ job[j] = "queued" /\ \A i \in Jobs : job[i] = "queued" => j <= i
    /\ Go(w, [Idle EXCEPT !.pc = "claim", !.task = j])
    /\ UNCHANGED <<job, source, aged, cars, removed, anon, prior, faults>>

Due == source.stamp = Never \/ aged

SeeSource(w) ==
    /\ At(w, "idle") /\ w \in Pollers
    /\ source.enabled /\ Due
    /\ Go(w, [Idle EXCEPT !.pc = "claim", !.seen = source.status, !.stamp = source.stamp])
    /\ UNCHANGED <<job, source, aged, cars, removed, anon, prior, faults>>

\* Mutant: a file is started whatever became of it since.
JobFreeAlways(w) == TRUE

JobFree(w) == job[worker[w].task] = "queued"

\* The last disjuncts are a request that is lost, and one whose answer is.
ClaimJob(w) ==
    /\ At(w, "claim") /\ ~OfSource(w)
    /\ \/ /\ JobFree(w)
          /\ job' = [job EXCEPT ![worker[w].task] = "running"]
          /\ \/ Go(w, [worker[w] EXCEPT !.pc = "fetch"]) /\ UNCHANGED faults
             \/ Fault /\ Go(w, Idle)
       \/ ~JobFree(w) /\ Go(w, Idle) /\ UNCHANGED <<job, faults>>
       \/ Fault /\ Go(w, Idle) /\ UNCHANGED job
    /\ UNCHANGED <<source, aged, cars, removed, anon, prior>>

SourceFree(w) == source.enabled /\ source.stamp = worker[w].stamp

ClaimSource(w) ==
    /\ At(w, "claim") /\ OfSource(w)
    /\ \/ /\ SourceFree(w)
          /\ source' = [source EXCEPT !.status = "polling", !.stamp = FreshStamp]
          /\ aged' = FALSE
          /\ \/ /\ Go(w, [worker[w] EXCEPT !.pc = "fetch", !.stamp = FreshStamp])
                /\ UNCHANGED faults
             \/ Fault /\ Go(w, Idle)
       \/ ~SourceFree(w) /\ Go(w, Idle) /\ UNCHANGED <<source, aged, faults>>
       \/ Fault /\ Go(w, Idle) /\ UNCHANGED <<source, aged>>
    /\ UNCHANGED <<job, cars, removed, anon, prior>>

----------------------------------------------------------------------------
(* The rows. *)

\* A download that fails, an unreadable file or credential, or an error of
\* the dealer's system ends in a record of it; numbers throw.
Fetch(w) ==
    /\ At(w, "fetch")
    /\ \/ \E f \in IF OfSource(w) THEN Feeds ELSE {File(worker[w].task)} :
            /\ IF f.typed THEN Thrown(w)
               ELSE Go(w, [worker[w] EXCEPT !.pc = "look", !.feed = f, !.bad = f.invalid])
            /\ UNCHANGED faults
       \/ Go(w, [worker[w] EXCEPT !.pc = "record", !.error = TRUE]) /\ UNCHANGED faults
       \/ Fault /\ Thrown(w)
    /\ UNCHANGED <<job, source, aged, cars, removed, anon, prior>>

\* A refused look-up is not told from an empty one.
Look(w) ==
    /\ At(w, "look")
    /\ \/ \E known \in {worker[w].feed.ids \cap cars, {}} :
            Go(w, [worker[w] EXCEPT !.pc = "insert", !.known = known])
          /\ UNCHANGED faults
       \/ Fault /\ Thrown(w)
    /\ UNCHANGED <<job, source, aged, cars, removed, anon, prior>>

New(w) == worker[w].feed.ids \ worker[w].known

\* idx_cars_dealership_external_id refuses the whole request.
Conflict(w) == New(w) \cap (cars \cup worker[w].feed.twice) # {}

\* Mutant: a refused request counts as rows created.
RefusedGood(w, pc) == [worker[w] EXCEPT !.pc = pc, !.good = TRUE]

Refused(w, pc) == [worker[w] EXCEPT !.pc = pc, !.bad = TRUE]

Insert(w) ==
    /\ At(w, "insert")
    /\ \/ /\ New(w) = {}
          /\ Go(w, [worker[w] EXCEPT !.pc = "anonymous"]) /\ UNCHANGED <<cars, removed, faults>>
       \/ /\ New(w) # {} /\ ~Conflict(w)
          /\ cars' = cars \cup New(w) /\ removed' = removed \ New(w)
          /\ \/ Go(w, [worker[w] EXCEPT !.pc = "anonymous", !.good = TRUE]) /\ UNCHANGED faults
             \/ Fault /\ Thrown(w)
       \/ /\ New(w) # {}
          /\ Go(w, Refused(w, "anonymous")) /\ UNCHANGED <<cars, removed, faults>>
       \/ New(w) # {} /\ Fault /\ Thrown(w) /\ UNCHANGED <<cars, removed>>
    /\ UNCHANGED <<job, source, aged, anon, prior>>

Counted(w) ==
    anon' = IF OfSource(w) THEN anon ELSE [anon EXCEPT ![worker[w].task] = @ + 1]

InsertAnonymous(w) ==
    /\ At(w, "anonymous")
    /\ \/ /\ ~worker[w].feed.anon
          /\ Go(w, [worker[w] EXCEPT !.pc = "patch"]) /\ UNCHANGED <<anon, faults>>
       \/ /\ worker[w].feed.anon
          /\ Counted(w)
          /\ \/ Go(w, [worker[w] EXCEPT !.pc = "patch", !.good = TRUE]) /\ UNCHANGED faults
             \/ Fault /\ Thrown(w)
       \/ /\ worker[w].feed.anon
          /\ Go(w, Refused(w, "patch")) /\ UNCHANGED <<anon, faults>>
       \/ worker[w].feed.anon /\ Fault /\ Thrown(w) /\ UNCHANGED anon
    /\ UNCHANGED <<job, source, aged, cars, removed, prior>>

\* One request a row, each of which may fail by itself.  That of a row whose car
\* has been deleted meanwhile succeeds too, and changes nothing.
Patch(w) ==
    /\ At(w, "patch")
    /\ \E patched \in SUBSET worker[w].known :
            Go(w, [worker[w] EXCEPT !.pc = "record",
                                    !.good = @ \/ patched # {},
                                    !.bad = @ \/ patched # worker[w].known])
    /\ UNCHANGED <<job, source, aged, cars, removed, anon, prior, faults>>

----------------------------------------------------------------------------
(* The outcome. *)

Usable(f) == f.ids # {} \/ f.anon
Rows(f) == Usable(f) \/ f.invalid

JobStatus(w) ==
    CASE worker[w].error -> "failed"
      [] ~worker[w].error /\ ~worker[w].bad /\ Rows(worker[w].feed) -> "succeeded"
      [] ~worker[w].error /\ worker[w].bad /\ worker[w].good -> "partial"
      [] OTHER -> "failed"

\* The answer is not looked at; a lost request leaves the file running.
RecordJob(w) ==
    /\ At(w, "record") /\ ~OfSource(w)
    /\ Go(w, Idle)
    /\ \/ job' = [job EXCEPT ![worker[w].task] = JobStatus(w)] /\ UNCHANGED faults
       \/ Fault /\ UNCHANGED job
    /\ UNCHANGED <<source, aged, cars, removed, anon, prior>>

PollStatus(w) ==
    CASE worker[w].error -> "error"
      [] ~worker[w].error /\ ~worker[w].bad -> "ok"
      [] ~worker[w].error /\ worker[w].bad /\ worker[w].good -> "partial"
      [] OTHER -> "failed"

Disables(w) == PollStatus(w) = "failed" /\ worker[w].seen = "failed"

\* Mutant: the claim is not compared.
HoldsAlways(w) == TRUE

Holds(w) == source.status = "polling" /\ source.stamp = worker[w].stamp

RecordPoll(w) ==
    /\ At(w, "record") /\ OfSource(w)
    /\ Go(w, Idle)
    /\ \/ /\ Holds(w)
          /\ source' = [enabled |-> source.enabled /\ ~Disables(w),
                        status |-> PollStatus(w), stamp |-> FreshStamp]
          /\ aged' = FALSE
          /\ prior' = [status |-> PollStatus(w), ids |-> worker[w].feed.ids,
                       usable |-> Usable(worker[w].feed)]
          /\ UNCHANGED faults
       \/ ~Holds(w) /\ UNCHANGED <<source, aged, prior, faults>>
       \/ Fault /\ UNCHANGED <<source, aged, prior>>
    /\ UNCHANGED <<job, cars, removed, anon>>

----------------------------------------------------------------------------

Crash(w) ==
    /\ ~At(w, "idle") /\ Fault
    /\ Go(w, Idle)
    /\ UNCHANGED <<job, source, aged, cars, removed, anon, prior>>

Age ==
    /\ source.stamp # Never /\ ~aged
    /\ aged' = TRUE
    /\ UNCHANGED <<job, source, cars, removed, anon, worker, prior, faults>>

\* The dealer's PATCH of the source.
Toggle ==
    /\ source' = [source EXCEPT !.enabled = ~@]
    /\ UNCHANGED <<job, aged, cars, removed, anon, worker, prior, faults>>

\* The sweep deletes a car whose retention is over.
Remove(c) ==
    /\ c \in cars
    /\ cars' = cars \ {c} /\ removed' = removed \cup {c}
    /\ UNCHANGED <<job, source, aged, anon, worker, prior, faults>>

Step(w) ==
    \/ (\E j \in Jobs : SeeJob(w, j)) \/ SeeSource(w)
    \/ ClaimJob(w) \/ ClaimSource(w)
    \/ Fetch(w) \/ Look(w) \/ Insert(w) \/ InsertAnonymous(w) \/ Patch(w)
    \/ RecordJob(w) \/ RecordPoll(w)

Next == (\E w \in Workers : Step(w) \/ Crash(w)) \/ Age \/ Toggle \/ \E c \in Ids : Remove(c)

\* scheduled_loop runs both workers for ever, and time passes.
Spec == Init /\ [][Next]_vars /\ WF_vars(Age) /\ \A w \in Workers : WF_vars(Step(w))

----------------------------------------------------------------------------

Statuses == {"none", "polling", "error", "ok", "partial", "failed"}

\* What a thread holds between two requests.
Work == [pc : {"idle", "claim", "fetch", "look", "insert", "anonymous", "patch", "record"},
         task : Jobs \cup {Source}, seen : Statuses, stamp : Stamps \cup {Never},
         feed : Listings, known : SUBSET Ids, good : BOOLEAN, bad : BOOLEAN,
         error : BOOLEAN]

TypeOK ==
    /\ job \in [Jobs -> {"queued", "running", "succeeded", "partial", "failed"}]
    /\ source \in [enabled : BOOLEAN, status : Statuses, stamp : Stamps \cup {Never}]
    /\ aged \in BOOLEAN /\ cars \subseteq Ids /\ removed \subseteq Ids \ cars
    /\ anon \in [Jobs -> {0, 1}]
    /\ worker \in [Workers -> Work]
    /\ prior \in [status : Statuses, ids : SUBSET Ids, usable : BOOLEAN]
    /\ faults \in 0 .. MaxFaults

\* The cars that have come in, but for those the sweep took and nobody brought
\* again.
Arrived == cars \cup removed

\* A source said to be fine has all its rows among the cars, although other
\* workers insert, and refuse each other's rows, at the same time; the sweep
\* alone may have taken some since.
OkComplete == source.status = "ok" => prior.ids \subseteq Arrived

\* A file said to be imported has, and its rows without an id only once.
SucceededComplete ==
    \A j \in Jobs : job[j] = "succeeded" =>
        File(j).ids \subseteq Arrived /\ anon[j] = IF File(j).anon THEN 1 ELSE 0

Disabled(w) == source.enabled /\ ~source'.enabled /\ RecordPoll(w)

\* A poll disables the source only when the poll recorded before it failed as
\* well, although `seen' was read before the claim.
DisabledAfterTwo ==
    [][\A w \in Pollers : Disabled(w) => prior.status = "failed" /\ prior'.status = "failed"]_vars

\* A claim is taken over only when it has gone stale, although both pollers
\* may have read the source before either claimed it.
LeaseRespected ==
    [][source.status = "polling" /\ source'.status = "polling" /\ source'.stamp # source.stamp
        => aged]_vars

\* A source left behind by a crash is polled again.
SourceFreed == source.status = "polling" ~> source.status # "polling" \/ ~source.enabled

\* inventory_import_worker.py:4 "claim one queued job, parse its file from
\* storage, run rows through the import pipeline ..., record per-row errors,
\* set the final job status".
JobsFinish == \A j \in Jobs : job[j] = "running" ~> job[j] \notin {"queued", "running"}

\* dealer_api_source_poller.py:363 "A feed that returns zero usable rows twice
\* in a row isn't a transient blip (the fetch succeeded - its own data is
\* unparseable)".
DisabledUnusable ==
    [][\A w \in Pollers : Disabled(w) => ~prior.usable /\ ~prior'.usable]_vars
=============================================================================
