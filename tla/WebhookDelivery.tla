-------------------------- MODULE WebhookDelivery ---------------------------
(***************************************************************************)
(* services/webhook_dispatcher.py and workers/webhook_delivery_worker.py:  *)
(* an event becomes one row of dealer_webhook_deliveries per webhook, and  *)
(* any number of workers POST the due rows.  A worker owns a row by moving *)
(* its next_retry_at to the end of a lease; every later PATCH of the row   *)
(* is conditional on that very timestamp.                                  *)
(*                                                                         *)
(* A timestamp is the time left until it (wait) and a stamp that tells it  *)
(* apart from every other timestamp of the row: two of them, microseconds  *)
(* apart, are never equal.  Time passes by Tick.                           *)
(***************************************************************************)
EXTENDS Integers, FiniteSets, Sequences

CONSTANTS
    Hooks,         \* rows of dealer_webhooks
    Events,        \* events to dispatch
    Workers,       \* processes that run the delivery worker
    BATCH_LIMIT,
    BACKOFF_SECONDS,
    MAX_ATTEMPTS,
    LEASE_SECONDS,
    MaxFaults,     \* bound: crashes, lost requests and overrun leases
    None           \* no job

ASSUME DeliveryAssumption ==
    /\ BATCH_LIMIT \in Nat \ {0}
    /\ BACKOFF_SECONDS \in Seq(Nat \ {0}) /\ BACKOFF_SECONDS # <<>>
    /\ MAX_ATTEMPTS \in Nat \ {0}
    /\ LEASE_SECONDS \in Nat \ {0}
    /\ MaxFaults \in Nat

Deliveries == Events \X Hooks

VARIABLES
    hooks,     \* webhooks that exist
    targets,   \* per event: the webhooks its dispatch selected
    dispatched, \* events whose dispatch is over
    row,       \* dealer_webhook_deliveries
    pc,        \* per worker
    batch,     \* per worker: the due rows it fetched and has not tried
    job,       \* per worker: the row it works on
    faults,
    posts,     \* history: POSTs made, per delivery
    excused,   \* history: POSTs whose outcome was not recorded
    accepted,  \* history: deliveries a receiver answered with a 2xx
    cool       \* history: what is left of the back-off after a failure

dvars   == <<hooks, targets, dispatched, row, pc, batch, job, faults, posts,
             excused, accepted, cool>>
history == <<posts, excused, accepted, cool>>

Statuses == {"absent", "pending", "succeeded", "dead_letter", "gone"}
Verdicts == {"none", "success", "retry", "doomed"}
Steps    == {"idle", "claim", "lookup", "post", "mark", "abort"}

Row  == [status : Statuses, attempts : Nat, wait : Nat, stamp : Nat]
Seen == [id : Deliveries, attempts : Nat, stamp : Nat]
Job  == [id : Deliveries, attempts : Nat, stamp : Nat,
         verdict : Verdicts,
         posted : BOOLEAN,   \* a POST is made and not yet accounted for
         left : Nat]         \* what is left of the lease

\* None tells a worker without a job from one at work.
ASSUME NoJobAssumption == None \notin Job

TypeOK ==
    /\ hooks \subseteq Hooks
    /\ targets \in [Events -> SUBSET Hooks]
    /\ dispatched \subseteq Events
    /\ row \in [Deliveries -> Row]
    /\ pc \in [Workers -> Steps]
    /\ batch \in [Workers -> SUBSET Seen]
    /\ job \in [Workers -> Job \cup {None}]
    /\ \A w \in Workers : pc[w] \notin {"idle", "claim"} => job[w] \in Job
    /\ faults \in 0 .. MaxFaults
    /\ posts \in [Deliveries -> Nat]
    /\ excused \in [Deliveries -> Nat]
    /\ accepted \subseteq Deliveries
    /\ cool \in [Deliveries -> Nat]

Init ==
    /\ hooks = Hooks
    /\ targets = [e \in Events |-> {}]
    /\ dispatched = {}
    /\ row = [d \in Deliveries |-> [status |-> "absent", attempts |-> 0,
                                    wait |-> 0, stamp |-> 0]]
    /\ pc = [w \in Workers |-> "idle"]
    /\ batch = [w \in Workers |-> {}]
    /\ job = [w \in Workers |-> None]
    /\ faults = 0
    /\ posts = [d \in Deliveries |-> 0]
    /\ excused = [d \in Deliveries |-> 0]
    /\ accepted = {}
    /\ cool = [d \in Deliveries |-> 0]

Fault ==
    /\ faults < MaxFaults
    /\ faults' = faults + 1

-----------------------------------------------------------------------------
(***************************************************************************)
(* dispatch: GET the enabled webhooks that subscribe to the event, then    *)
(* insert one row per webhook in a single POST.                            *)
(***************************************************************************)
DispatchRead(e) ==
    /\ e \notin dispatched /\ targets[e] = {}
    /\ \E hs \in SUBSET hooks \ {{}} : targets' = [targets EXCEPT ![e] = hs]
    /\ UNCHANGED <<hooks, dispatched, row, pc, batch, job, faults, history>>

\* The insert fails as a whole when one of the webhooks is gone by now.
DispatchInsert(e) ==
    /\ targets[e] # {}
    /\ targets' = [targets EXCEPT ![e] = {}]
    /\ dispatched' = dispatched \cup {e}
    /\ row' = [d \in Deliveries |->
                  IF d \in {e} \X targets[e] /\ targets[e] \subseteq hooks
                  THEN [row[d] EXCEPT !.status = "pending"]
                  ELSE row[d]]
    /\ UNCHANGED <<hooks, pc, batch, job, faults, history>>

\* delete_webhook; its deliveries go with it (ON DELETE CASCADE).
DeleteWebhook(h) ==
    /\ h \in hooks
    /\ hooks' = hooks \ {h}
    /\ row' = [d \in Deliveries |->
                  IF d[2] = h /\ row[d].status # "absent"
                  THEN [row[d] EXCEPT !.status = "gone"] ELSE row[d]]
    /\ UNCHANGED <<targets, dispatched, pc, batch, job, faults, history>>

-----------------------------------------------------------------------------
(***************************************************************************)
(* One run of a worker.                                                    *)
(***************************************************************************)

\* Mutant: only rows that were never tried are due.
DueOnce(d) == row[d].status = "pending" /\ row[d].stamp = 0

\* Mutant: next_retry_at is not compared with the clock.
DueAlways(d) == row[d].status = "pending"

Due(d) == row[d].status = "pending" /\ row[d].wait = 0

\* _due_deliveries.
FetchDue(w) ==
    LET due == {d \in Deliveries : Due(d)}
    IN  /\ pc[w] = "idle" /\ due # {}
        /\ \E ds \in SUBSET due :
              /\ \/ Cardinality(ds) = BATCH_LIMIT
                 \/ ds = due /\ Cardinality(due) < BATCH_LIMIT
              /\ batch' = [batch EXCEPT ![w] =
                    {[id |-> d, attempts |-> row[d].attempts,
                      stamp |-> row[d].stamp] : d \in ds}]
        /\ pc' = [pc EXCEPT ![w] = "claim"]
        /\ UNCHANGED <<hooks, targets, dispatched, row, job, faults, history>>

\* The next row of the batch, or the end of the run.
Proceed(w, rest) ==
    /\ pc' = [pc EXCEPT ![w] = IF rest = {} THEN "idle" ELSE "claim"]
    /\ job' = [job EXCEPT ![w] = None]

\* next_retry_at becomes t ticks from now.
Timestamp(r, t) == [r EXCEPT !.wait = t, !.stamp = @ + 1]

\* Mutant: the claim does not compare next_retry_at.
ClaimablePending(s) == row[s.id].status = "pending"

\* The compare-and-set of _claim, for the row s as it was fetched.
Claimable(s) ==
    row[s.id].status = "pending" /\ row[s.id].stamp = s.stamp

Claim(w) ==
    /\ pc[w] = "claim"
    /\ \E s \in batch[w] :
          /\ batch' = [batch EXCEPT ![w] = @ \ {s}]
          /\ \/ /\ Claimable(s)
                /\ row' = [row EXCEPT ![s.id] = Timestamp(@, LEASE_SECONDS)]
                /\ pc' = [pc EXCEPT ![w] = "lookup"]
                /\ job' = [job EXCEPT ![w] =
                      [id |-> s.id, attempts |-> s.attempts,
                       stamp |-> row'[s.id].stamp, verdict |-> "none",
                       posted |-> FALSE, left |-> LEASE_SECONDS]]
             \/ ~Claimable(s) /\ Proceed(w, batch'[w]) /\ UNCHANGED row
    /\ UNCHANGED <<hooks, targets, dispatched, faults, history>>

\* The answer to the claim is lost: the worker goes on without a lease.
ClaimLost(w) ==
    /\ pc[w] = "claim"
    /\ Fault
    /\ \E s \in batch[w] :
          /\ batch' = [batch EXCEPT ![w] = @ \ {s}]
          /\ Proceed(w, batch'[w])
          /\ \/ /\ Claimable(s)
                /\ row' = [row EXCEPT ![s.id] = Timestamp(@, LEASE_SECONDS)]
             \/ UNCHANGED row
    /\ UNCHANGED <<hooks, targets, dispatched, history>>

\* The next step of _process and what it found out.
Resolve(w, step, verdict) ==
    /\ pc' = [pc EXCEPT ![w] = step]
    /\ job' = [job EXCEPT ![w].verdict = verdict]

\* The webhook, its secret or its URL may be unusable.
Lookup(w) ==
    /\ pc[w] = "lookup"
    /\ \/ job[w].id[2] \in hooks /\ Resolve(w, "post", "none")
       \/ Resolve(w, "mark", "doomed")
    /\ UNCHANGED <<hooks, targets, dispatched, row, batch, faults, history>>

\* The POST, answered with a 2xx, with anything else or not at all.
Post(w) ==
    LET d == job[w].id
    IN  /\ pc[w] = "post"
        /\ pc' = [pc EXCEPT ![w] = "mark"]
        /\ \E verdict \in {"success", "retry"} :
              /\ job' = [job EXCEPT ![w].verdict = verdict,
                                    ![w].posted = TRUE]
              /\ accepted' = IF verdict = "success" THEN accepted \cup {d}
                             ELSE accepted
        /\ posts' = [posts EXCEPT ![d] = @ + 1]
        /\ UNCHANGED <<hooks, targets, dispatched, row, batch, faults,
                       excused, cool>>

\* An exception in a lookup or while the answer is read; run() finalises.
Raise(w) ==
    /\ pc[w] \in {"lookup", "mark"}
    /\ Fault
    /\ pc' = [pc EXCEPT ![w] = "abort"]
    /\ UNCHANGED <<hooks, targets, dispatched, row, batch, job, history>>

-----------------------------------------------------------------------------
(***************************************************************************)
(* _mark.                                                                  *)
(***************************************************************************)
BackoffAt(n) ==
    BACKOFF_SECONDS[IF n < 1 THEN 1
                    ELSE IF n > Len(BACKOFF_SECONDS)
                    THEN Len(BACKOFF_SECONDS) ELSE n]

\* Mutant: the PATCH names the row by id only.
OwnsById(w) == row[job[w].id].status \notin {"absent", "gone"}

\* The PATCH matches the row: it is pending and its lease is still the one
\* this worker took.
Owns(w) ==
    /\ row[job[w].id].status = "pending"
    /\ row[job[w].id].stamp = job[w].stamp

\* The row after a finalisation.
Marked(r, j) ==
    LET n == j.attempts + 1
    IN  CASE j.verdict = "success" ->
                [r EXCEPT !.status = "succeeded", !.attempts = n]
          [] j.verdict = "retry" /\ n >= MAX_ATTEMPTS ->
                [r EXCEPT !.status = "dead_letter", !.attempts = n]
          [] j.verdict = "retry" /\ n < MAX_ATTEMPTS ->
                [Timestamp(r, BackoffAt(n)) EXCEPT !.attempts = n]
          [] OTHER -> [r EXCEPT !.status = "dead_letter"]

\* The PATCH reaches the row.
MarkRow(w) ==
    LET d == job[w].id
    IN  /\ row' = [row EXCEPT ![d] = Marked(@, job[w])]
        /\ cool' = [cool EXCEPT ![d] =
                       IF row'[d].status = "pending" THEN row'[d].wait ELSE 0]
        /\ UNCHANGED excused

\* It does not; a POST that was made stays unrecorded.
MarkNothing(w) ==
    /\ excused' = [excused EXCEPT ![job[w].id] =
                      IF job[w].posted THEN @ + 1 ELSE @]
    /\ UNCHANGED <<row, cool>>

Mark(w) ==
    /\ pc[w] = "mark"
    /\ IF Owns(w) THEN MarkRow(w) ELSE MarkNothing(w)
    /\ Proceed(w, batch[w])
    /\ UNCHANGED <<hooks, targets, dispatched, batch, faults, posts, accepted>>

\* The PATCH is refused, or its answer is lost after it was applied; in the
\* latter case the exception takes the worker to run()'s finalisation.
MarkLost(w) ==
    /\ pc[w] = "mark"
    /\ Fault
    /\ \/ MarkNothing(w) /\ Proceed(w, batch[w])
       \/ /\ Owns(w) /\ MarkRow(w)
          /\ pc' = [pc EXCEPT ![w] = "abort"]
          /\ job' = [job EXCEPT ![w].posted = FALSE, ![w].left = 0]
    /\ UNCHANGED <<hooks, targets, dispatched, batch, posts, accepted>>

\* run()'s finalisation: dead_letter "worker_exception".
Abort(w) ==
    LET d == job[w].id
    IN  /\ pc[w] = "abort"
        /\ row' = IF Owns(w) THEN [row EXCEPT ![d].status = "dead_letter"]
                  ELSE row
        /\ excused' = [excused EXCEPT ![d] =
                          IF job[w].posted THEN @ + 1 ELSE @]
        /\ Proceed(w, batch[w])
        /\ UNCHANGED <<hooks, targets, dispatched, batch, faults, posts,
                       accepted, cool>>

\* The process restarts, or run()'s finalisation raises and ends the run.
Crash(w) ==
    /\ pc[w] # "idle"
    /\ Fault
    /\ pc' = [pc EXCEPT ![w] = "idle"]
    /\ batch' = [batch EXCEPT ![w] = {}]
    /\ job' = [job EXCEPT ![w] = None]
    /\ excused' = IF job[w] # None /\ job[w].posted
                  THEN [excused EXCEPT ![job[w].id] = @ + 1] ELSE excused
    /\ UNCHANGED <<hooks, targets, dispatched, row, posts, accepted, cool>>

-----------------------------------------------------------------------------
Less(n) == IF n > 0 THEN n - 1 ELSE 0

Working(w) == pc[w] \notin {"idle", "claim"}

\* A lease runs out although its worker is still at work: a slow receiver.
Overrun == \E w \in Workers : Working(w) /\ job[w].left = 1

Tick ==
    /\ \E d \in Deliveries : row[d].status = "pending" /\ row[d].wait > 0
    /\ IF Overrun THEN Fault ELSE UNCHANGED faults
    /\ row' = [d \in Deliveries |->
                  IF row[d].status = "pending"
                  THEN [row[d] EXCEPT !.wait = Less(@)] ELSE row[d]]
    /\ job' = [w \in Workers |->
                  IF Working(w) THEN [job[w] EXCEPT !.left = Less(@)]
                  ELSE job[w]]
    /\ cool' = [d \in Deliveries |-> Less(cool[d])]
    /\ UNCHANGED <<hooks, targets, dispatched, pc, batch, posts, excused,
                   accepted>>

WorkerStep(w) ==
    FetchDue(w) \/ Claim(w) \/ Lookup(w) \/ Post(w) \/ Mark(w) \/ Abort(w)

WorkerFault(w) == ClaimLost(w) \/ Raise(w) \/ MarkLost(w) \/ Crash(w)

Next ==
    \/ \E e \in Events : DispatchRead(e) \/ DispatchInsert(e)
    \/ \E h \in Hooks : DeleteWebhook(h)
    \/ \E w \in Workers : WorkerStep(w) \/ WorkerFault(w)
    \/ Tick

Spec == Init /\ [][Next]_dvars

\* Time passes, and the loop of every worker goes on.
FairSpec ==
    /\ Spec
    /\ WF_dvars(Tick)
    /\ \A w \in Workers : WF_dvars(WorkerStep(w))

-----------------------------------------------------------------------------
(***************************************************************************)
(* Properties.                                                             *)
(***************************************************************************)

\* Two workers never hold a lease that has not run out on one delivery, so
\* only a worker slower than its lease can cause a concurrent POST (_claim).
ExclusiveLease ==
    \A v, w \in Workers :
        /\ v # w /\ Working(v) /\ Working(w)
        /\ job[v].id = job[w].id
        => job[v].left = 0 \/ job[w].left = 0

\* Every POST of a delivery is counted in attempt_count, is being made, or
\* went unrecorded because of a crash, a lost PATCH or a lost lease: without
\* those a delivery is POSTed at most MAX_ATTEMPTS times.
PostsAccounted ==
    \A d \in Deliveries :
        /\ posts[d] = row[d].attempts + excused[d]
                + Cardinality({w \in Workers : /\ Working(w)
                                               /\ job[w].id = d
                                               /\ job[w].posted})
        /\ row[d].attempts <= MAX_ATTEMPTS

\* A worker that owns its delivery POSTs it only when the back-off after the
\* last recorded failure is over (_backoff_at, the next_retry_at filter).
BackoffRespected ==
    [][\A w \in Workers :
          pc[w] = "post" /\ pc'[w] = "mark" /\ Owns(w)
             => cool[job[w].id] = 0]_dvars

\* The contract every delivery is kept to.
Contract == INSTANCE DeliveryContract
                WITH phase <- [d \in Deliveries |-> row[d].status]

\* Settled once, and succeeded only if a receiver accepted it: whatever
\* workers, leases and faults do, each step is a step of the contract.
KeepsContract == Contract!ContractSpec

\* Every queued delivery is settled in the end.
EveryDeliverySettles ==
    \A d \in Deliveries :
        row[d].status = "pending" ~> row[d].status # "pending"
=============================================================================
