----------------------- MODULE WebhookDelivery_proofs -----------------------
(***************************************************************************)
(* Proofs about WebhookDelivery, for any number of webhooks, events and    *)
(* workers, any back-off table, lease length and number of faults: types,  *)
(* exclusive leases, back-off, the contract every delivery is kept to, and *)
(* the account of its POSTs.                                               *)
(***************************************************************************)
EXTENDS WebhookDelivery, FiniteSetTheorems, TLAPS

-----------------------------------------------------------------------------
(***************************************************************************)
(* Types.                                                                  *)
(***************************************************************************)

\* A back-off is a positive number of ticks, whatever the attempt.
LEMMA BackoffType ==
    ASSUME NEW n \in Nat
    PROVE  BackoffAt(n) \in Nat
<1>1. Len(BACKOFF_SECONDS) \in Nat /\ Len(BACKOFF_SECONDS) > 0
  BY DeliveryAssumption
<1>2. \A i \in 1 .. Len(BACKOFF_SECONDS) : BACKOFF_SECONDS[i] \in Nat
  BY DeliveryAssumption
<1> QED
  BY <1>1, <1>2 DEF BackoffAt

\* A new timestamp keeps the type of the row.
LEMMA TimestampType ==
    ASSUME NEW r \in Row, NEW t \in Nat
    PROVE  /\ Timestamp(r, t) \in Row
           /\ Timestamp(r, t).status = r.status
           /\ Timestamp(r, t).wait = t
           /\ Timestamp(r, t).stamp = r.stamp + 1
<1>1. r.stamp \in Nat /\ r.stamp + 1 \in Nat
  BY DEF Row
<1>2. Timestamp(r, t) = [r EXCEPT !.wait = t, !.stamp = r.stamp + 1]
  BY DEF Timestamp
<1> QED
  BY <1>1, <1>2 DEF Row

\* A finalised row is a row, and what it becomes depends on the verdict.
LEMMA MarkedType ==
    ASSUME NEW r \in Row, NEW j \in Job
    PROVE  /\ Marked(r, j) \in Row
           /\ Marked(r, j).stamp \in {r.stamp, r.stamp + 1}
           /\ Marked(r, j).status \in {"succeeded", "dead_letter", r.status}
           /\ Marked(r, j).status = "succeeded" /\ r.status = "pending"
                => j.verdict = "success"
           /\ Marked(r, j).status = "pending" /\ r.status = "pending"
                => Marked(r, j).stamp = r.stamp + 1
<1> DEFINE n == j.attempts + 1
<1>1. n \in Nat /\ BackoffAt(n) \in Nat /\ MAX_ATTEMPTS \in Nat
  <2>1. j.attempts \in Nat
    BY DEF Job
  <2>2. n \in Nat
    BY <2>1
  <2> QED
    BY <2>2, BackoffType, DeliveryAssumption
<1>2. CASE j.verdict = "success"
  <2>1. Marked(r, j) = [r EXCEPT !.status = "succeeded", !.attempts = n]
    BY <1>2 DEF Marked
  <2> HIDE DEF n
  <2> QED
    BY <1>1, <1>2, <2>1 DEF Row, Statuses
<1>3. CASE j.verdict = "retry" /\ n >= MAX_ATTEMPTS
  <2>1. Marked(r, j) = [r EXCEPT !.status = "dead_letter", !.attempts = n]
    <3>1. ~(n < MAX_ATTEMPTS) /\ j.verdict # "success"
      BY <1>1, <1>3
    <3> QED
      BY <1>3, <3>1, Zenon DEF Marked
  <2> HIDE DEF n
  <2> QED
    BY <1>1, <1>3, <2>1 DEF Row, Statuses
<1>4. CASE j.verdict = "retry" /\ n < MAX_ATTEMPTS
  <2> DEFINE q == Timestamp(r, BackoffAt(n))
  <2>1. Marked(r, j) = [q EXCEPT !.attempts = n]
    BY <1>1, <1>4 DEF Marked
  <2>2. q \in Row /\ q.status = r.status /\ q.stamp = r.stamp + 1
    BY <1>1, TimestampType
  <2> HIDE DEF q, n
  <2> QED
    BY <1>1, <1>4, <2>1, <2>2 DEF Row
<1>5. CASE j.verdict \notin {"success", "retry"}
  <2>1. Marked(r, j) = [r EXCEPT !.status = "dead_letter"]
    BY <1>5 DEF Marked
  <2> QED
    BY <1>5, <2>1 DEF Row, Statuses
<1> QED
  BY <1>1, <1>2, <1>3, <1>4, <1>5

\* Going on with the batch keeps the types of the worker's state.
LEMMA ProceedType ==
    ASSUME TypeOK, NEW w \in Workers, NEW rest, Proceed(w, rest)
    PROVE  /\ pc' \in [Workers -> Steps]
           /\ job' \in [Workers -> Job \cup {None}]
           /\ pc'[w] \in {"idle", "claim"}
           /\ \A v \in Workers : pc'[v] \notin {"idle", "claim"}
                => v # w /\ pc'[v] = pc[v] /\ job'[v] = job[v]
                         /\ job'[v] \in Job
BY DEF TypeOK, Proceed, Steps

\* The job of a worker at work.
LEMMA JobType ==
    ASSUME TypeOK, NEW w \in Workers, Working(w)
    PROVE  /\ job[w] \in Job
           /\ job[w].id \in Deliveries
           /\ row[job[w].id] \in Row
BY DEF TypeOK, Working, Job

\* The faults stay within their bound.
LEMMA FaultType ==
    ASSUME TypeOK, Fault
    PROVE  faults' \in 0 .. MaxFaults
BY DeliveryAssumption DEF TypeOK, Fault

\* Dispatch and deletion.
LEMMA DispatchType ==
    ASSUME TypeOK,
           \/ \E e \in Events : DispatchRead(e) \/ DispatchInsert(e)
           \/ \E h \in Hooks : DeleteWebhook(h)
    PROVE  TypeOK'
<1> USE DEF TypeOK
<1>1. ASSUME NEW e \in Events, DispatchRead(e)
      PROVE  TypeOK'
  BY <1>1 DEF DispatchRead, history
<1>2. ASSUME NEW e \in Events, DispatchInsert(e)
      PROVE  TypeOK'
  <2>1. row' \in [Deliveries -> Row]
    <3>1. \A d \in Deliveries : [row[d] EXCEPT !.status = "pending"] \in Row
      BY DEF Row, Statuses
    <3> QED
      BY <1>2, <3>1 DEF DispatchInsert
  <2>2. targets' \in [Events -> SUBSET Hooks] /\ dispatched' \subseteq Events
    BY <1>2 DEF DispatchInsert
  <2>3. UNCHANGED <<hooks, pc, batch, job, faults, posts, excused, accepted,
                    cool>>
    BY <1>2 DEF DispatchInsert, history
  <2> QED
    BY <2>1, <2>2, <2>3
<1>3. ASSUME NEW h \in Hooks, DeleteWebhook(h)
      PROVE  TypeOK'
  <2>1. row' \in [Deliveries -> Row]
    <3>1. \A d \in Deliveries : [row[d] EXCEPT !.status = "gone"] \in Row
      BY DEF Row, Statuses
    <3> QED
      BY <1>3, <3>1 DEF DeleteWebhook
  <2>2. hooks' \subseteq Hooks
    BY <1>3 DEF DeleteWebhook
  <2>3. UNCHANGED <<targets, dispatched, pc, batch, job, faults, posts,
                    excused, accepted, cool>>
    BY <1>3 DEF DeleteWebhook, history
  <2> QED
    BY <2>1, <2>2, <2>3
<1> QED
  BY <1>1, <1>2, <1>3

\* Fetching and claiming.
LEMMA ClaimType ==
    ASSUME TypeOK, NEW w \in Workers,
           FetchDue(w) \/ Claim(w) \/ ClaimLost(w)
    PROVE  TypeOK'
<1> USE DEF TypeOK
<1>1. CASE FetchDue(w)
  <2>1. \A d \in Deliveries :
          [id |-> d, attempts |-> row[d].attempts, stamp |-> row[d].stamp]
            \in Seen
    BY DEF Seen, Row
  <2>2. PICK ds \in SUBSET Deliveries : batch' = [batch EXCEPT ![w] =
          {[id |-> d, attempts |-> row[d].attempts,
            stamp |-> row[d].stamp] : d \in ds}]
    BY <1>1 DEF FetchDue
  <2>3. batch' \in [Workers -> SUBSET Seen]
    BY <2>1, <2>2
  <2>4. pc' = [pc EXCEPT ![w] = "claim"] /\ "claim" \in Steps
    BY <1>1 DEF FetchDue, Steps
  <2>5. UNCHANGED <<hooks, targets, dispatched, row, job, faults, posts,
                    excused, accepted, cool>>
    BY <1>1 DEF FetchDue, history
  <2> QED
    BY <2>3, <2>4, <2>5
<1>2. ASSUME NEW s \in batch[w]
      PROVE  /\ s \in Seen /\ s.id \in Deliveries
             /\ [row EXCEPT ![s.id] = Timestamp(@, LEASE_SECONDS)]
                  \in [Deliveries -> Row]
  <2>1. s \in Seen /\ s.id \in Deliveries
    BY DEF Seen
  <2>2. Timestamp(row[s.id], LEASE_SECONDS) \in Row
    BY <2>1, TimestampType, DeliveryAssumption
  <2> QED
    BY <2>1, <2>2
<1>3. CASE Claim(w)
  <2>1. PICK s \in batch[w] :
          /\ batch' = [batch EXCEPT ![w] = @ \ {s}]
          /\ \/ /\ Claimable(s)
                /\ row' = [row EXCEPT ![s.id] = Timestamp(@, LEASE_SECONDS)]
                /\ pc' = [pc EXCEPT ![w] = "lookup"]
                /\ job' = [job EXCEPT ![w] =
                      [id |-> s.id, attempts |-> s.attempts,
                       stamp |-> row'[s.id].stamp, verdict |-> "none",
                       posted |-> FALSE, left |-> LEASE_SECONDS]]
             \/ Proceed(w, batch'[w]) /\ UNCHANGED row
    BY <1>3 DEF Claim
  <2>2. batch' \in [Workers -> SUBSET Seen]
    BY <2>1
  <2>3. UNCHANGED <<hooks, targets, dispatched, faults, posts, excused,
                    accepted, cool>>
    BY <1>3 DEF Claim, history
  <2>4. CASE Proceed(w, batch'[w]) /\ UNCHANGED row
    BY <2>2, <2>3, <2>4, ProceedType
  <2>5. CASE /\ row' = [row EXCEPT ![s.id] = Timestamp(@, LEASE_SECONDS)]
             /\ pc' = [pc EXCEPT ![w] = "lookup"]
             /\ job' = [job EXCEPT ![w] =
                   [id |-> s.id, attempts |-> s.attempts,
                    stamp |-> row'[s.id].stamp, verdict |-> "none",
                    posted |-> FALSE, left |-> LEASE_SECONDS]]
    <3>1. row' \in [Deliveries -> Row] /\ s \in Seen
      BY <1>2, <2>5
    <3>2. row'[s.id].stamp \in Nat
      BY <3>1 DEF Row, Seen
    <3>3. [id |-> s.id, attempts |-> s.attempts,
           stamp |-> row'[s.id].stamp, verdict |-> "none",
           posted |-> FALSE, left |-> LEASE_SECONDS] \in Job
      BY <3>1, <3>2, DeliveryAssumption DEF Job, Seen, Verdicts
    <3>4. "lookup" \in Steps
      BY DEF Steps
    <3> QED
      BY <2>2, <2>3, <2>5, <3>1, <3>3, <3>4
  <2> QED
    BY <2>1, <2>4, <2>5
<1>4. CASE ClaimLost(w)
  <2>1. PICK s \in batch[w] :
          /\ batch' = [batch EXCEPT ![w] = @ \ {s}]
          /\ Proceed(w, batch'[w])
          /\ \/ row' = [row EXCEPT ![s.id] = Timestamp(@, LEASE_SECONDS)]
             \/ UNCHANGED row
    BY <1>4 DEF ClaimLost
  <2>2. batch' \in [Workers -> SUBSET Seen]
    BY <2>1
  <2>3. row' \in [Deliveries -> Row]
    BY <1>2, <2>1
  <2>4. faults' \in 0 .. MaxFaults
    BY <1>4, FaultType DEF ClaimLost
  <2>5. UNCHANGED <<hooks, targets, dispatched, posts, excused, accepted,
                    cool>>
    BY <1>4 DEF ClaimLost, history
  <2> QED
    BY <2>1, <2>2, <2>3, <2>4, <2>5, ProceedType
<1> QED
  BY <1>1, <1>3, <1>4

\* Looking up, posting and failing.
LEMMA PostType ==
    ASSUME TypeOK, NEW w \in Workers,
           Lookup(w) \/ Post(w) \/ Raise(w) \/ Crash(w)
    PROVE  TypeOK'
<1> USE DEF TypeOK
<1>1. CASE Lookup(w)
  <2>1. job[w] \in Job
    BY <1>1 DEF Lookup
  <2>2. PICK step \in {"post", "mark"}, verdict \in {"none", "doomed"} :
          Resolve(w, step, verdict)
    BY <1>1 DEF Lookup
  <2>3. [job[w] EXCEPT !.verdict = verdict] \in Job
    BY <2>1 DEF Job, Verdicts
  <2>4. /\ job' = [job EXCEPT ![w] = [job[w] EXCEPT !.verdict = verdict]]
        /\ pc' = [pc EXCEPT ![w] = step] /\ step \in Steps
    BY <2>2 DEF Resolve, Steps
  <2>5. UNCHANGED <<hooks, targets, dispatched, row, batch, faults, posts,
                    excused, accepted, cool>>
    BY <1>1 DEF Lookup, history
  <2> QED
    BY <2>3, <2>4, <2>5
<1>2. CASE Post(w)
  <2>1. job[w] \in Job /\ job[w].id \in Deliveries
    BY <1>2 DEF Post, Job
  <2>2. PICK verdict \in {"success", "retry"} :
          /\ job' = [job EXCEPT ![w].verdict = verdict, ![w].posted = TRUE]
          /\ accepted' = IF verdict = "success"
                         THEN accepted \cup {job[w].id} ELSE accepted
    BY <1>2 DEF Post
  <2>3. [job[w] EXCEPT !.verdict = verdict, !.posted = TRUE] \in Job
    BY <2>1 DEF Job, Verdicts
  <2>4. /\ job' = [job EXCEPT ![w] = [job[w] EXCEPT !.verdict = verdict,
                                                    !.posted = TRUE]]
        /\ accepted' \subseteq Deliveries
    BY <2>1, <2>2
  <2>5. posts' \in [Deliveries -> Nat]
    BY <1>2, <2>1 DEF Post
  <2>6. pc' = [pc EXCEPT ![w] = "mark"] /\ "mark" \in Steps
    BY <1>2 DEF Post, Steps
  <2>7. UNCHANGED <<hooks, targets, dispatched, row, batch, faults, excused,
                    cool>>
    BY <1>2 DEF Post
  <2> QED
    BY <2>3, <2>4, <2>5, <2>6, <2>7
<1>3. CASE Raise(w)
  <2>1. faults' \in 0 .. MaxFaults
    BY <1>3, FaultType DEF Raise
  <2>2. /\ pc' = [pc EXCEPT ![w] = "abort"] /\ "abort" \in Steps
        /\ pc[w] \notin {"idle", "claim"}
    BY <1>3 DEF Raise, Steps
  <2>3. UNCHANGED <<hooks, targets, dispatched, row, batch, job, posts,
                    excused, accepted, cool>>
    BY <1>3 DEF Raise, history
  <2> QED
    BY <2>1, <2>2, <2>3
<1>4. CASE Crash(w)
  <2>1. faults' \in 0 .. MaxFaults
    BY <1>4, FaultType DEF Crash
  <2>2. excused' \in [Deliveries -> Nat]
    <3>1. CASE job[w] # None /\ job[w].posted
      <4>1. job[w].id \in Deliveries
        BY <3>1 DEF Job
      <4> QED
        BY <1>4, <3>1, <4>1 DEF Crash
    <3> QED
      BY <1>4, <3>1 DEF Crash
  <2>3. /\ pc' = [pc EXCEPT ![w] = "idle"] /\ "idle" \in Steps
        /\ batch' = [batch EXCEPT ![w] = {}]
        /\ job' = [job EXCEPT ![w] = None]
    BY <1>4 DEF Crash, Steps
  <2>4. UNCHANGED <<hooks, targets, dispatched, row, posts, accepted, cool>>
    BY <1>4 DEF Crash
  <2> QED
    BY <2>1, <2>2, <2>3, <2>4
<1> QED
  BY <1>1, <1>2, <1>3, <1>4

\* The two outcomes of a finalisation keep the types they touch.
LEMMA OutcomeType ==
    ASSUME TypeOK, NEW w \in Workers, Working(w),
           MarkRow(w) \/ MarkNothing(w)
    PROVE  /\ row' \in [Deliveries -> Row]
           /\ cool' \in [Deliveries -> Nat]
           /\ excused' \in [Deliveries -> Nat]
<1> DEFINE d == job[w].id
<1>1. job[w] \in Job /\ d \in Deliveries /\ row[d] \in Row
  BY JobType
<1>2. CASE MarkRow(w)
  <2>1. row' = [row EXCEPT ![d] = Marked(row[d], job[w])]
    BY <1>2 DEF MarkRow
  <2>2. Marked(row[d], job[w]) \in Row
    BY <1>1, MarkedType
  <2>3. row' \in [Deliveries -> Row] /\ row'[d] \in Row
    BY <1>1, <2>1, <2>2 DEF TypeOK
  <2>4. row'[d].wait \in Nat
    BY <2>3 DEF Row
  <2>5. cool' = [cool EXCEPT ![d] =
                   IF row'[d].status = "pending" THEN row'[d].wait ELSE 0]
    BY <1>2 DEF MarkRow
  <2>6. cool' \in [Deliveries -> Nat]
    BY <1>1, <2>4, <2>5 DEF TypeOK
  <2> QED
    BY <1>2, <2>3, <2>6 DEF MarkRow, TypeOK
<1>3. CASE MarkNothing(w)
  <2>1. excused[d] \in Nat /\ excused[d] + 1 \in Nat
    BY <1>1 DEF TypeOK
  <2> QED
    BY <1>1, <1>3, <2>1 DEF MarkNothing, TypeOK
<1> QED
  BY <1>2, <1>3

\* Finalising.
LEMMA MarkType ==
    ASSUME TypeOK, NEW w \in Workers, Mark(w) \/ MarkLost(w) \/ Abort(w)
    PROVE  TypeOK'
<1>1. Working(w) /\ job[w] \in Job /\ job[w].id \in Deliveries
  <2>1. Working(w)
    BY DEF Mark, MarkLost, Abort, Working
  <2> QED
    BY <2>1, JobType
<1>2. CASE Mark(w)
  <2>1. /\ row' \in [Deliveries -> Row]
        /\ cool' \in [Deliveries -> Nat]
        /\ excused' \in [Deliveries -> Nat]
    BY <1>1, <1>2, OutcomeType DEF Mark
  <2>2. Proceed(w, batch[w])
    BY <1>2 DEF Mark
  <2>3. UNCHANGED <<hooks, targets, dispatched, batch, faults, posts,
                    accepted>>
    BY <1>2 DEF Mark
  <2> QED
    BY <2>1, <2>2, <2>3, ProceedType DEF TypeOK
<1>3. CASE MarkLost(w)
  <2>1. /\ row' \in [Deliveries -> Row]
        /\ cool' \in [Deliveries -> Nat]
        /\ excused' \in [Deliveries -> Nat]
    BY <1>1, <1>3, OutcomeType DEF MarkLost
  <2>2. faults' \in 0 .. MaxFaults
    BY <1>3, FaultType DEF MarkLost
  <2>3. UNCHANGED <<hooks, targets, dispatched, batch, posts, accepted>>
    BY <1>3 DEF MarkLost
  <2>4. CASE Proceed(w, batch[w])
    BY <2>1, <2>2, <2>3, <2>4, ProceedType DEF TypeOK
  <2>5. CASE /\ pc' = [pc EXCEPT ![w] = "abort"]
             /\ job' = [job EXCEPT ![w].posted = FALSE, ![w].left = 0]
    <3>1. [job[w] EXCEPT !.posted = FALSE, !.left = 0] \in Job
      BY <1>1 DEF Job
    <3>2. job' = [job EXCEPT ![w] = [job[w] EXCEPT !.posted = FALSE,
                                                   !.left = 0]]
      BY <1>1, <2>5 DEF TypeOK
    <3>3. "abort" \in Steps
      BY DEF Steps
    <3> QED
      BY <2>1, <2>2, <2>3, <2>5, <3>1, <3>2, <3>3 DEF TypeOK
  <2> QED
    BY <1>3, <2>4, <2>5 DEF MarkLost
<1>4. CASE Abort(w)
  <2>1. row' \in [Deliveries -> Row]
    <3>1. [row[job[w].id] EXCEPT !.status = "dead_letter"] \in Row
      BY <1>1, JobType DEF Row, Statuses
    <3> QED
      BY <1>1, <1>4, <3>1 DEF Abort, TypeOK
  <2>2. excused' \in [Deliveries -> Nat]
    <3>1. excused[job[w].id] \in Nat /\ excused[job[w].id] + 1 \in Nat
      BY <1>1 DEF TypeOK
    <3> QED
      BY <1>1, <1>4, <3>1 DEF Abort, TypeOK
  <2>3. Proceed(w, batch[w])
    BY <1>4 DEF Abort
  <2>4. UNCHANGED <<hooks, targets, dispatched, batch, faults, posts,
                    accepted, cool>>
    BY <1>4 DEF Abort
  <2> QED
    BY <2>1, <2>2, <2>3, <2>4, ProceedType DEF TypeOK
<1> QED
  BY <1>2, <1>3, <1>4

\* Less takes one from a natural number, and nothing from zero.
LEMMA LessFacts ==
    ASSUME NEW n \in Nat
    PROVE  Less(n) \in Nat /\ Less(n) <= n /\ (n <= 1 => Less(n) = 0)
BY DEF Less

\* The passing of time.
LEMMA TickType ==
    ASSUME TypeOK, Tick
    PROVE  TypeOK'
<1>1. row' \in [Deliveries -> Row]
  <2>1. \A d \in Deliveries :
          [row[d] EXCEPT !.wait = Less(row[d].wait)] \in Row
    BY LessFacts DEF TypeOK, Row
  <2> QED
    BY <2>1 DEF Tick, TypeOK
<1>2. /\ job' \in [Workers -> Job \cup {None}]
      /\ \A w \in Workers : pc[w] \notin {"idle", "claim"} => job'[w] \in Job
  <2>1. \A w \in Workers : Working(w) =>
          [job[w] EXCEPT !.left = Less(job[w].left)] \in Job
    BY LessFacts, JobType DEF Job
  <2> QED
    BY <2>1 DEF Tick, TypeOK, Working
<1>3. cool' \in [Deliveries -> Nat]
  BY LessFacts DEF Tick, TypeOK
<1>4. faults' \in 0 .. MaxFaults
  BY FaultType DEF Tick, TypeOK
<1>5. UNCHANGED <<hooks, targets, dispatched, pc, batch, posts, excused,
                  accepted>>
  BY DEF Tick
<1> QED
  BY <1>1, <1>2, <1>3, <1>4, <1>5 DEF TypeOK

\* Every step keeps the types.
LEMMA StepType ==
    ASSUME TypeOK, [Next]_dvars
    PROVE  TypeOK'
<1>1. CASE UNCHANGED dvars
  BY <1>1 DEF dvars, TypeOK
<1>2. CASE Next
  BY <1>2, DispatchType, ClaimType, PostType, MarkType, TickType
     DEF Next, WorkerStep, WorkerFault
<1> QED
  BY <1>1, <1>2

\* The initial state is well typed.
LEMMA InitType == Init => TypeOK
BY DeliveryAssumption
   DEF Init, TypeOK, Row, Statuses, Steps, Deliveries

\* The state of the dispatcher, the deliveries table and the workers is
\* always well typed; in particular a worker at work always has a job.
THEOREM DeliveryTypeCorrect == Spec => []TypeOK
<1>1. Init => TypeOK
  BY InitType
<1>2. TypeOK /\ [Next]_dvars => TypeOK'
  BY StepType
<1> QED
  BY <1>1, <1>2, PTL DEF Spec

-----------------------------------------------------------------------------
(***************************************************************************)
(* The inductive invariant.  Stamps only grow, and a job keeps the stamp   *)
(* its claim wrote; so a worker whose lease still runs on a pending row    *)
(* has the row's own stamp, no other worker has it, and the row cannot be  *)
(* due before the lease is over.                                           *)
(***************************************************************************)

\* Before its dispatch is over, an event has no rows.
QueueInv ==
    /\ \A e \in Events : targets[e] # {} => e \notin dispatched
    /\ \A d \in Deliveries : d[1] \notin dispatched
                                => row[d].status = "absent"

\* A row in a batch was due when it was fetched; it still is, or has changed.
SeenInv(s) ==
    /\ row[s.id].status # "absent"
    /\ s.stamp <= row[s.id].stamp
    /\ Claimable(s) => row[s.id].wait = 0

BatchInv == \A w \in Workers : \A s \in batch[w] : SeenInv(s)

\* A lease that still runs is the one the pending row has.
LeaseHeld(w) ==
    row[job[w].id].status = "pending" /\ job[w].left > 0
      => /\ row[job[w].id].stamp = job[w].stamp
         /\ row[job[w].id].wait >= job[w].left

JobInv(w) ==
    /\ row[job[w].id].status # "absent"
    /\ job[w].stamp <= row[job[w].id].stamp
    /\ job[w].verdict = "success" => job[w].id \in accepted
    /\ LeaseHeld(w)
    /\ Owns(w) => cool[job[w].id] = 0

JobsInv == \A w \in Workers : Working(w) => JobInv(w)

\* No two workers have the same claim.
ClaimsDiffer ==
    \A v, w \in Workers :
        v # w /\ Working(v) /\ Working(w) /\ job[v].id = job[w].id
          => job[v].stamp # job[w].stamp

\* A row waiting to be delivered waits at least as long as its back-off.
CoolInv ==
    \A d \in Deliveries :
        row[d].status \in {"absent", "pending"} => cool[d] <= row[d].wait

LeaseInv ==
    /\ TypeOK
    /\ QueueInv
    /\ BatchInv
    /\ JobsInv
    /\ ClaimsDiffer
    /\ ExclusiveLease
    /\ CoolInv

\* What a step may do to a row and its back-off: nothing, insert it, settle
\* it, or give a pending row a later stamp and a new wait.
RowMoves(d) ==
    \/ row'[d] = row[d] /\ cool'[d] = cool[d]
    \/ /\ row[d].status = "absent" /\ row'[d].status = "pending"
       /\ row'[d].stamp = row[d].stamp
       /\ row'[d].wait = row[d].wait
       /\ cool'[d] = cool[d]
    \/ /\ row[d].status # "absent"
       /\ row'[d].status \notin {"absent", "pending"}
       /\ row'[d].stamp >= row[d].stamp
    \/ /\ row[d].status = "pending" /\ row'[d].status = "pending"
       /\ row'[d].stamp > row[d].stamp
       /\ cool'[d] <= row'[d].wait

\* A step that moves rows keeps what is known of batches, of back-offs and
\* of the workers U that it does not touch, provided none of them has a
\* running lease on a row that gets a new stamp.
LEMMA MovesKeep ==
    ASSUME LeaseInv, TypeOK', NEW U \in SUBSET Workers,
           \A d \in Deliveries : RowMoves(d),
           \A w \in Workers : batch'[w] \subseteq batch[w],
           \A v \in U : Working(v)' => Working(v) /\ job'[v] = job[v],
           \A v \in U : /\ Working(v)
                        /\ row[job[v].id].status = "pending"
                        /\ row'[job[v].id].status = "pending"
                        /\ row'[job[v].id].stamp > row[job[v].id].stamp
                        => job[v].left = 0,
           accepted \subseteq accepted'
    PROVE  /\ BatchInv'
           /\ CoolInv'
           /\ \A v \in U : Working(v)' => JobInv(v)'
<1> USE DEF LeaseInv
<1>1. \A d \in Deliveries :
        /\ row[d] \in Row /\ row'[d] \in Row
        /\ row[d].stamp \in Nat /\ row'[d].stamp \in Nat
        /\ row[d].wait \in Nat /\ row'[d].wait \in Nat
        /\ cool[d] \in Nat /\ cool'[d] \in Nat
  BY DEF TypeOK, Row
<1>2. BatchInv'
  <2> SUFFICES ASSUME NEW w \in Workers, NEW s \in batch'[w]
               PROVE  SeenInv(s)'
    BY DEF BatchInv
  <2>1. SeenInv(s)
    BY DEF BatchInv
  <2>2. s.id \in Deliveries /\ s.stamp \in Nat
    BY DEF TypeOK, Seen
  <2>3. RowMoves(s.id)
    BY <2>2
  <2> QED
    BY <1>1, <2>1, <2>2, <2>3 DEF SeenInv, Claimable, RowMoves
<1>3. CoolInv'
  <2> SUFFICES ASSUME NEW d \in Deliveries,
                      row'[d].status \in {"absent", "pending"}
               PROVE  cool'[d] <= row'[d].wait
    BY DEF CoolInv
  <2>1. RowMoves(d) /\ (row[d].status \in {"absent", "pending"}
                          => cool[d] <= row[d].wait)
    BY DEF CoolInv
  <2> QED
    BY <1>1, <2>1 DEF RowMoves
<1>4. ASSUME NEW v \in U, Working(v)'
      PROVE  JobInv(v)'
  <2> DEFINE d == job[v].id
  <2>1. Working(v) /\ job'[v] = job[v] /\ JobInv(v)
    BY <1>4 DEF JobsInv
  <2>2. job[v] \in Job /\ d \in Deliveries
    BY <2>1, JobType
  <2>3. job[v].stamp \in Nat /\ job[v].left \in Nat
    BY <2>2 DEF Job
  <2>4. RowMoves(d)
    BY <2>2
  <2>5. /\ row[d].status # "absent"
        /\ job[v].stamp <= row[d].stamp
    BY <2>1 DEF JobInv
  <2>6. row'[d].status # "absent" /\ job[v].stamp <= row'[d].stamp
    BY <1>1, <2>2, <2>3, <2>4, <2>5 DEF RowMoves
  <2>7. job[v].verdict = "success" => d \in accepted'
    BY <2>1 DEF JobInv
  <2>8. ASSUME row'[d].status = "pending", job[v].left > 0
        PROVE  row'[d].stamp = job[v].stamp /\ row'[d].wait >= job[v].left
    <3>1. row'[d] = row[d]
      BY <1>1, <2>1, <2>2, <2>3, <2>4, <2>5, <2>8 DEF RowMoves
    <3> QED
      BY <2>1, <2>8, <3>1 DEF JobInv, LeaseHeld
  <2>9. ASSUME row'[d].status = "pending", row'[d].stamp = job[v].stamp
        PROVE  cool'[d] = 0
    <3>1. row'[d] = row[d] /\ cool'[d] = cool[d]
      BY <1>1, <2>2, <2>3, <2>4, <2>5, <2>9 DEF RowMoves
    <3> QED
      BY <2>1, <2>9, <3>1 DEF JobInv, Owns
  <2> QED
    BY <2>1, <2>6, <2>7, <2>8, <2>9 DEF JobInv, LeaseHeld, Owns
<1> QED
  BY <1>2, <1>3, <1>4

\* Workers that a step leaves alone keep their claims apart.
LEMMA ClaimsKept ==
    ASSUME LeaseInv,
           \A v \in Workers : Working(v)' =>
               /\ Working(v) /\ job'[v].id = job[v].id
               /\ job'[v].stamp = job[v].stamp
               /\ job'[v].left = job[v].left \/ job'[v].left = 0
    PROVE  ClaimsDiffer' /\ ExclusiveLease'
BY DEF LeaseInv, ClaimsDiffer, ExclusiveLease

\* Dispatch and deletion keep the invariant.
LEMMA DispatchStep ==
    ASSUME LeaseInv, TypeOK',
           \/ \E e \in Events : DispatchRead(e) \/ DispatchInsert(e)
           \/ \E h \in Hooks : DeleteWebhook(h)
    PROVE  LeaseInv'
<1>1. UNCHANGED <<pc, batch, job, accepted, cool>>
  BY DEF DispatchRead, DispatchInsert, DeleteWebhook, history
<1>2. \A v \in Workers : Working(v)' => Working(v) /\ job'[v] = job[v]
  BY <1>1 DEF Working
<1>3. QueueInv' /\ \A d \in Deliveries :
        /\ RowMoves(d)
        /\ row[d].status # "absent" => row'[d].stamp = row[d].stamp
  <2>1. CASE \E e \in Events : DispatchRead(e)
    BY <1>1, <2>1 DEF LeaseInv, TypeOK, QueueInv, DispatchRead, RowMoves
  <2>2. CASE \E e \in Events : DispatchInsert(e)
    <3>1. PICK e \in Events : DispatchInsert(e)
      BY <2>2
    <3>2. /\ e \notin dispatched
          /\ targets' = [targets EXCEPT ![e] = {}]
          /\ dispatched' = dispatched \cup {e}
      BY <3>1 DEF DispatchInsert, LeaseInv, QueueInv
    <3>3. ASSUME NEW d \in Deliveries
          PROVE  \/ row'[d] = row[d]
                 \/ /\ d[1] = e
                    /\ row'[d] = [row[d] EXCEPT !.status = "pending"]
      BY <3>1 DEF DispatchInsert
    <3>4. \A d \in Deliveries : row[d] \in Row /\ row[d].stamp \in Nat
      BY DEF LeaseInv, TypeOK, Row
    <3>5. \A d \in Deliveries : d[1] = e => row[d].status = "absent"
      BY <3>2 DEF LeaseInv, QueueInv
    <3>6. \A d \in Deliveries :
            /\ RowMoves(d)
            /\ row[d].status # "absent" => row'[d].stamp = row[d].stamp
      BY <1>1, <3>3, <3>4, <3>5 DEF RowMoves, Row
    <3>7. QueueInv'
      BY <3>2, <3>3 DEF LeaseInv, TypeOK, QueueInv
    <3> QED
      BY <3>6, <3>7
  <2>3. CASE \E h \in Hooks : DeleteWebhook(h)
    <3>1. PICK h \in Hooks : DeleteWebhook(h)
      BY <2>3
    <3>2. \A d \in Deliveries :
            \/ row'[d] = row[d]
            \/ /\ row[d].status # "absent"
               /\ row'[d] = [row[d] EXCEPT !.status = "gone"]
      BY <3>1 DEF DeleteWebhook
    <3>3. \A d \in Deliveries : row[d] \in Row /\ row[d].stamp \in Nat
      BY DEF LeaseInv, TypeOK, Row
    <3>4. ASSUME NEW d \in Deliveries
          PROVE  RowMoves(d) /\ row'[d].stamp = row[d].stamp
      <4>1. CASE row'[d] = row[d]
        BY <1>1, <4>1 DEF RowMoves
      <4>2. CASE /\ row[d].status # "absent"
                 /\ row'[d] = [row[d] EXCEPT !.status = "gone"]
        <5>1. row'[d].status = "gone" /\ row'[d].stamp = row[d].stamp
          BY <3>3, <4>2 DEF Row
        <5> QED
          BY <3>3, <4>2, <5>1 DEF RowMoves
      <4> QED
        BY <3>2, <4>1, <4>2
    <3>5. UNCHANGED <<targets, dispatched>>
      BY <3>1 DEF DeleteWebhook
    <3>6. QueueInv'
      BY <3>2, <3>5 DEF LeaseInv, QueueInv
    <3> QED
      BY <3>4, <3>6
  <2> QED
    BY <2>1, <2>2, <2>3
<1>4. \A v \in Workers : Working(v) =>
        /\ job[v].id \in Deliveries
        /\ row[job[v].id].status # "absent"
        /\ row[job[v].id].stamp \in Nat
  BY JobType DEF LeaseInv, JobsInv, JobInv, Row
<1>5. BatchInv' /\ CoolInv' /\ JobsInv'
  BY <1>1, <1>2, <1>3, <1>4, MovesKeep DEF JobsInv
<1>6. ClaimsDiffer' /\ ExclusiveLease'
  BY <1>2, ClaimsKept
<1> QED
  BY <1>3, <1>5, <1>6 DEF LeaseInv

\* Reading the due rows keeps the invariant.
LEMMA FetchStep ==
    ASSUME LeaseInv, TypeOK', NEW w \in Workers, FetchDue(w)
    PROVE  LeaseInv'
<1>1. /\ pc[w] = "idle" /\ pc' = [pc EXCEPT ![w] = "claim"]
      /\ UNCHANGED <<targets, dispatched, row, job, accepted, cool>>
  BY DEF FetchDue, history
<1>2. \A v \in Workers : Working(v)' => Working(v) /\ job'[v] = job[v]
  BY <1>1 DEF LeaseInv, TypeOK, Working
<1>3. BatchInv'
  <2>1. PICK ds \in SUBSET Deliveries :
          /\ \A d \in ds : Due(d)
          /\ batch' = [batch EXCEPT ![w] =
                {[id |-> d, attempts |-> row[d].attempts,
                  stamp |-> row[d].stamp] : d \in ds}]
    BY DEF FetchDue
  <2> SUFFICES ASSUME NEW v \in Workers, NEW s \in batch'[v]
               PROVE  SeenInv(s)'
    BY DEF BatchInv
  <2>2. CASE s \in batch[v]
    BY <1>1, <2>2 DEF LeaseInv, BatchInv, SeenInv, Claimable
  <2>3. CASE s \notin batch[v]
    <3>1. PICK d \in ds : s = [id |-> d, attempts |-> row[d].attempts,
                               stamp |-> row[d].stamp]
      BY <2>1, <2>3 DEF LeaseInv, TypeOK
    <3>2. s.id = d /\ s.stamp = row[d].stamp /\ Due(d)
      BY <2>1, <3>1
    <3>3. row[d].stamp \in Nat
      BY <2>1 DEF LeaseInv, TypeOK, Row
    <3> QED
      BY <1>1, <3>2, <3>3 DEF SeenInv, Claimable, Due
  <2> QED
    BY <2>2, <2>3
<1>4. QueueInv' /\ CoolInv'
  BY <1>1 DEF LeaseInv, QueueInv, CoolInv
<1>5. JobsInv'
  BY <1>1, <1>2 DEF LeaseInv, JobsInv, JobInv, LeaseHeld, Owns
<1>6. ClaimsDiffer' /\ ExclusiveLease'
  BY <1>2, ClaimsKept
<1> QED
  BY <1>3, <1>4, <1>5, <1>6 DEF LeaseInv

\* A row moved by one new timestamp of a delivery some worker may claim.
LEMMA NewLease ==
    ASSUME LeaseInv, NEW w \in Workers, NEW s \in batch[w], Claimable(s),
           row' = [row EXCEPT ![s.id] = Timestamp(@, LEASE_SECONDS)],
           UNCHANGED <<targets, dispatched, accepted, cool>>
    PROVE  /\ s.id \in Deliveries
           /\ row'[s.id].status = "pending"
           /\ row'[s.id].stamp = row[s.id].stamp + 1
           /\ row[s.id].stamp \in Nat
           /\ row'[s.id].wait = LEASE_SECONDS
           /\ cool'[s.id] = 0
           /\ \A d \in Deliveries : RowMoves(d)
           /\ \A d \in Deliveries : d # s.id => row'[d] = row[d]
           /\ QueueInv'
           /\ \A v \in Workers : Working(v) /\ job[v].id = s.id
                => job[v].left = 0 /\ job[v].stamp <= row[s.id].stamp
<1> USE DEF LeaseInv
<1>1. s.id \in Deliveries /\ row[s.id] \in Row /\ cool[s.id] \in Nat
  BY DEF TypeOK, Seen
<1>2. row[s.id].status = "pending" /\ row[s.id].wait = 0
  BY DEF Claimable, BatchInv, SeenInv
<1>3. row'[s.id] = Timestamp(row[s.id], LEASE_SECONDS)
  BY <1>1 DEF TypeOK
<1>4. /\ row'[s.id].status = "pending"
      /\ row'[s.id].stamp = row[s.id].stamp + 1
      /\ row[s.id].stamp \in Nat
      /\ row'[s.id].wait = LEASE_SECONDS /\ LEASE_SECONDS \in Nat
  <2>1. LEASE_SECONDS \in Nat
    BY DeliveryAssumption
  <2>2. row[s.id].stamp \in Nat
    BY <1>1 DEF Row
  <2>3. LET q == Timestamp(row[s.id], LEASE_SECONDS)
        IN  /\ q.status = row[s.id].status /\ q.wait = LEASE_SECONDS
            /\ q.stamp = row[s.id].stamp + 1
    BY <1>1, <2>1, TimestampType
  <2> QED
    BY <1>2, <1>3, <2>1, <2>2, <2>3
<1>5. cool'[s.id] = 0
  <2>1. cool[s.id] <= row[s.id].wait
    BY <1>1, <1>2 DEF CoolInv
  <2> QED
    BY <1>1, <1>2, <2>1
<1>6. \A d \in Deliveries : d # s.id => row'[d] = row[d]
  BY <1>1 DEF TypeOK
<1>7. \A d \in Deliveries : RowMoves(d)
  <2>1. RowMoves(s.id)
    BY <1>2, <1>4, <1>5 DEF RowMoves
  <2> QED
    BY <1>6, <2>1 DEF RowMoves
<1>8. QueueInv'
  BY <1>2, <1>6, <1>1 DEF QueueInv
<1>9. ASSUME NEW v \in Workers, Working(v), job[v].id = s.id
      PROVE  job[v].left = 0 /\ job[v].stamp <= row[s.id].stamp
  <2>1. job[v].left \in Nat
    BY <1>9, JobType DEF Job
  <2>2. JobInv(v)
    BY <1>9 DEF JobsInv
  <2> QED
    BY <1>2, <1>9, <2>1, <2>2 DEF JobInv, LeaseHeld
<1> QED
  BY <1>1, <1>4, <1>5, <1>6, <1>7, <1>8, <1>9

\* Claiming keeps the invariant.
LEMMA ClaimStep ==
    ASSUME LeaseInv, TypeOK', NEW w \in Workers, Claim(w) \/ ClaimLost(w)
    PROVE  LeaseInv'
<1>1. /\ pc[w] = "claim" /\ ~Working(w)
      /\ UNCHANGED <<targets, dispatched, accepted, cool>>
  BY DEF Claim, ClaimLost, history, Working
<1>2. PICK s \in batch[w] :
        /\ batch' = [batch EXCEPT ![w] = @ \ {s}]
        /\ \/ /\ Claimable(s)
              /\ row' = [row EXCEPT ![s.id] = Timestamp(@, LEASE_SECONDS)]
              /\ pc' = [pc EXCEPT ![w] = "lookup"]
              /\ job' = [job EXCEPT ![w] =
                    [id |-> s.id, attempts |-> s.attempts,
                     stamp |-> row'[s.id].stamp, verdict |-> "none",
                     posted |-> FALSE, left |-> LEASE_SECONDS]]
           \/ /\ Claimable(s)
              /\ row' = [row EXCEPT ![s.id] = Timestamp(@, LEASE_SECONDS)]
              /\ Proceed(w, batch'[w])
           \/ Proceed(w, batch'[w]) /\ UNCHANGED row
  BY DEF Claim, ClaimLost
<1>3. \A v \in Workers : batch'[v] \subseteq batch[v]
  BY <1>2 DEF LeaseInv, TypeOK
<1>4. \A v \in Workers \ {w} : Working(v)' => Working(v) /\ job'[v] = job[v]
  BY <1>2 DEF LeaseInv, TypeOK, Working, Proceed
<1>5. ASSUME Proceed(w, batch'[w])
      PROVE  \A v \in Workers : Working(v)' =>
                v # w /\ Working(v) /\ job'[v] = job[v]
  BY <1>4, <1>5 DEF Proceed, Working, LeaseInv, TypeOK
<1>6. CASE Proceed(w, batch'[w]) /\ UNCHANGED row
  <2>1. \A d \in Deliveries : RowMoves(d)
    BY <1>1, <1>6 DEF RowMoves
  <2>2. \A v \in Workers : Working(v) => row[job[v].id].stamp \in Nat
    BY JobType DEF LeaseInv, Row
  <2>3. BatchInv' /\ CoolInv' /\ JobsInv'
    BY <1>1, <1>3, <1>5, <1>6, <2>1, <2>2, MovesKeep DEF JobsInv
  <2>4. QueueInv'
    BY <1>1, <1>6 DEF LeaseInv, QueueInv
  <2>5. ClaimsDiffer' /\ ExclusiveLease'
    BY <1>5, <1>6, ClaimsKept
  <2> QED
    BY <2>3, <2>4, <2>5 DEF LeaseInv
<1>7. CASE /\ Claimable(s)
           /\ row' = [row EXCEPT ![s.id] = Timestamp(@, LEASE_SECONDS)]
  <2> DEFINE d == s.id
  <2>1. /\ d \in Deliveries
        /\ row'[d].status = "pending"
        /\ row'[d].stamp = row[d].stamp + 1
        /\ row[d].stamp \in Nat
        /\ row'[d].wait = LEASE_SECONDS
        /\ cool'[d] = 0
    BY <1>1, <1>7, NewLease
  <2>2. /\ \A x \in Deliveries : RowMoves(x)
        /\ \A x \in Deliveries : x # d => row'[x] = row[x]
        /\ QueueInv'
        /\ \A v \in Workers : Working(v) /\ job[v].id = d
             => job[v].left = 0 /\ job[v].stamp <= row[d].stamp
    BY <1>1, <1>7, NewLease
  <2>3. \A v \in Workers : Working(v) => /\ job[v].id \in Deliveries
                                         /\ row[job[v].id].stamp \in Nat
                                         /\ job[v].stamp \in Nat
    BY JobType DEF LeaseInv, Row, Job
  <2>4. \A v \in Workers : Working(v) =>
          (row'[job[v].id].stamp > row[job[v].id].stamp => job[v].left = 0)
    BY <2>2, <2>3
  <2>5. /\ BatchInv' /\ CoolInv'
        /\ \A v \in Workers \ {w} : Working(v)' => JobInv(v)'
    BY <1>1, <1>3, <1>4, <2>2, <2>4, MovesKeep
  <2>6. CASE Proceed(w, batch'[w])
    <3>1. JobsInv'
      BY <1>5, <2>5, <2>6 DEF JobsInv
    <3>2. ClaimsDiffer' /\ ExclusiveLease'
      BY <1>5, <2>6, ClaimsKept
    <3> QED
      BY <2>2, <2>5, <3>1, <3>2 DEF LeaseInv
  <2>7. CASE /\ pc' = [pc EXCEPT ![w] = "lookup"]
             /\ job' = [job EXCEPT ![w] =
                   [id |-> s.id, attempts |-> s.attempts,
                    stamp |-> row'[s.id].stamp, verdict |-> "none",
                    posted |-> FALSE, left |-> LEASE_SECONDS]]
    <3>1. /\ job'[w].id = d /\ job'[w].stamp = row'[d].stamp
          /\ job'[w].verdict = "none" /\ job'[w].left = LEASE_SECONDS
      BY <2>7 DEF LeaseInv, TypeOK
    <3>2. LEASE_SECONDS \in Nat
      BY DeliveryAssumption
    <3>3. JobInv(w)'
      BY <2>1, <3>1, <3>2 DEF JobInv, LeaseHeld, Owns
    <3>4. JobsInv'
      BY <2>5, <3>3 DEF JobsInv
    <3>5. \A v \in Workers \ {w} : Working(v)' /\ job'[v].id = d =>
            /\ job'[v].left = 0
            /\ job'[v].stamp # job'[w].stamp
      BY <1>4, <2>1, <2>2, <2>3, <3>1
    <3>6. ClaimsDiffer'
      BY <1>4, <3>1, <3>5 DEF LeaseInv, ClaimsDiffer
    <3>7. ExclusiveLease'
      BY <1>4, <3>1, <3>5 DEF LeaseInv, ExclusiveLease
    <3> QED
      BY <2>2, <2>5, <3>4, <3>6, <3>7 DEF LeaseInv
  <2> QED
    BY <1>2, <1>6, <2>6, <2>7
<1> QED
  BY <1>2, <1>6, <1>7

\* Looking up, posting, failing and restarting keep the invariant.
LEMMA PostStep ==
    ASSUME LeaseInv, TypeOK', NEW w \in Workers,
           Lookup(w) \/ Post(w) \/ Raise(w) \/ Crash(w)
    PROVE  LeaseInv'
<1>1. /\ UNCHANGED <<targets, dispatched, row, cool>>
      /\ accepted \subseteq accepted'
  BY DEF Lookup, Post, Raise, Crash, history
<1>2. \A v \in Workers : batch'[v] \subseteq batch[v]
  BY DEF Lookup, Post, Raise, Crash, LeaseInv, TypeOK
<1>3. \A v \in Workers \ {w} : Working(v)' => Working(v) /\ job'[v] = job[v]
  BY DEF Lookup, Post, Raise, Crash, Resolve, Working, LeaseInv, TypeOK
<1>4. Working(w)' =>
        /\ Working(w)
        /\ job'[w].id = job[w].id /\ job'[w].stamp = job[w].stamp
        /\ job'[w].left = job[w].left
        /\ job'[w].verdict = "success" => \/ job[w].verdict = "success"
                                          \/ job[w].id \in accepted'
  <2>1. CASE Crash(w)
    BY <2>1 DEF Crash, Working, LeaseInv, TypeOK
  <2>2. CASE Raise(w)
    BY <2>2 DEF Raise, Working
  <2>3. CASE Lookup(w)
    <3>1. Working(w) /\ job[w] \in Job
      BY <2>3, JobType DEF Lookup, Working, LeaseInv
    <3>2. PICK verdict \in {"none", "doomed"} :
            job' = [job EXCEPT ![w].verdict = verdict]
      BY <2>3 DEF Lookup, Resolve
    <3>3. job'[w] = [job[w] EXCEPT !.verdict = verdict]
      BY <3>2 DEF LeaseInv, TypeOK
    <3> QED
      BY <3>1, <3>3 DEF Job
  <2>4. CASE Post(w)
    <3>1. Working(w) /\ job[w] \in Job
      BY <2>4, JobType DEF Post, Working, LeaseInv
    <3>2. PICK verdict \in {"success", "retry"} :
            /\ job' = [job EXCEPT ![w].verdict = verdict, ![w].posted = TRUE]
            /\ verdict = "success" => job[w].id \in accepted'
      BY <2>4 DEF Post
    <3>3. job'[w] = [job[w] EXCEPT !.verdict = verdict, !.posted = TRUE]
      BY <3>2 DEF LeaseInv, TypeOK
    <3>4. /\ job'[w].id = job[w].id /\ job'[w].stamp = job[w].stamp
          /\ job'[w].left = job[w].left /\ job'[w].verdict = verdict
      BY <3>1, <3>3 DEF Job
    <3> QED
      BY <3>1, <3>2, <3>4
  <2> QED
    BY <2>1, <2>2, <2>3, <2>4
<1>5. \A d \in Deliveries : RowMoves(d)
  BY <1>1 DEF RowMoves
<1>6. \A v \in Workers : Working(v) =>
        ~(row'[job[v].id].stamp > row[job[v].id].stamp)
  <2>1. \A v \in Workers : Working(v) => row[job[v].id].stamp \in Nat
    BY JobType DEF LeaseInv, Row
  <2>2. \A n \in Nat : ~(n > n)
    OBVIOUS
  <2> QED
    BY <1>1, <2>1, <2>2
<1>7. /\ BatchInv' /\ CoolInv'
      /\ \A v \in Workers \ {w} : Working(v)' => JobInv(v)'
  BY <1>1, <1>2, <1>3, <1>5, <1>6, MovesKeep
<1>8. Working(w)' => JobInv(w)'
  <2> SUFFICES ASSUME Working(w)'
               PROVE  JobInv(w)'
    OBVIOUS
  <2>1. JobInv(w)
    BY <1>4 DEF LeaseInv, JobsInv
  <2>2. LeaseHeld(w)'
    BY <1>1, <1>4, <2>1 DEF JobInv, LeaseHeld
  <2> QED
    BY <1>1, <1>4, <2>1, <2>2 DEF JobInv, Owns
<1>9. JobsInv'
  BY <1>7, <1>8 DEF JobsInv
<1>10. ClaimsDiffer' /\ ExclusiveLease'
  BY <1>3, <1>4, ClaimsKept
<1>11. QueueInv'
  BY <1>1 DEF LeaseInv, QueueInv
<1> QED
  BY <1>7, <1>9, <1>10, <1>11 DEF LeaseInv

\* What a finalisation does to the rows, to the owner and to the others.
LEMMA Finalise ==
    ASSUME LeaseInv, TypeOK', NEW w \in Workers, Working(w),
           UNCHANGED <<targets, dispatched>>,
           \/ UNCHANGED <<row, cool>>
           \/ Owns(w) /\ MarkRow(w)
           \/ /\ Owns(w) /\ UNCHANGED cool
              /\ row' = [row EXCEPT ![job[w].id].status = "dead_letter"]
    PROVE  /\ \A d \in Deliveries : RowMoves(d)
           /\ QueueInv'
           /\ \A v \in Workers \ {w} : /\ Working(v)
                 /\ row[job[v].id].status = "pending"
                 /\ row'[job[v].id].stamp > row[job[v].id].stamp
                 => job[v].left = 0
           /\ Owns(w) /\ MarkRow(w) =>
                \/ row'[job[w].id].status \notin {"absent", "pending"}
                   /\ row'[job[w].id].stamp >= job[w].stamp
                \/ row'[job[w].id].status = "pending"
                   /\ row'[job[w].id].stamp > job[w].stamp
<1> DEFINE d == job[w].id
<1>1. /\ job[w] \in Job /\ d \in Deliveries /\ row[d] \in Row
      /\ row[d].stamp \in Nat
  BY JobType DEF LeaseInv, Row
<1>2. \A x \in Deliveries : row[x].stamp \in Nat
  BY DEF LeaseInv, TypeOK, Row
<1>3. CASE UNCHANGED <<row, cool>> /\ ~(Owns(w) /\ MarkRow(w))
  <2>1. \A x \in Deliveries : RowMoves(x)
    BY <1>3 DEF RowMoves
  <2>2. \A v \in Workers : Working(v) => job[v].id \in Deliveries
    BY JobType DEF LeaseInv
  <2>3. QueueInv'
    BY <1>3 DEF LeaseInv, QueueInv
  <2> QED
    BY <1>2, <1>3, <2>1, <2>2, <2>3
<1>4. ASSUME Owns(w), \A x \in Deliveries \ {d} : row'[x] = row[x]
                                              /\ cool'[x] = cool[x],
             \/ /\ row'[d].status \notin {"absent", "pending"}
                /\ row'[d].stamp >= row[d].stamp
             \/ /\ row'[d].status = "pending"
                /\ row'[d].stamp > row[d].stamp
                /\ cool'[d] <= row'[d].wait
      PROVE  /\ \A x \in Deliveries : RowMoves(x)
             /\ QueueInv'
             /\ \A v \in Workers \ {w} : /\ Working(v)
                   /\ row[job[v].id].status = "pending"
                   /\ row'[job[v].id].stamp > row[job[v].id].stamp
                   => job[v].left = 0
  <2>1. row[d].status = "pending" /\ row[d].stamp = job[w].stamp
    BY <1>4 DEF Owns
  <2>2. \A x \in Deliveries : RowMoves(x)
    BY <1>4, <2>1 DEF RowMoves
  <2>3. QueueInv'
    BY <1>4, <2>1, <1>1 DEF LeaseInv, QueueInv
  <2>4. ASSUME NEW v \in Workers \ {w}, Working(v),
               row'[job[v].id].stamp > row[job[v].id].stamp
        PROVE  job[v].left = 0
    <3>1. job[v].id \in Deliveries /\ job[v].left \in Nat
      BY <2>4, JobType DEF LeaseInv, Job
    <3>2. job[v].id = d
      BY <1>2, <1>4, <2>4, <3>1
    <3>3. job[v].stamp # job[w].stamp
      BY <2>4, <3>2 DEF LeaseInv, ClaimsDiffer
    <3>4. LeaseHeld(v)
      BY <2>4 DEF LeaseInv, JobsInv, JobInv
    <3> QED
      BY <2>1, <3>1, <3>2, <3>3, <3>4 DEF LeaseHeld
  <2> QED
    BY <2>2, <2>3, <2>4
<1>5. CASE Owns(w) /\ MarkRow(w)
  <2>1. /\ row' = [row EXCEPT ![d] = Marked(row[d], job[w])]
        /\ cool' = [cool EXCEPT ![d] =
                      IF row'[d].status = "pending" THEN row'[d].wait ELSE 0]
    BY <1>5 DEF MarkRow
  <2>2. /\ row'[d] = Marked(row[d], job[w])
        /\ cool'[d] = IF row'[d].status = "pending" THEN row'[d].wait ELSE 0
        /\ \A x \in Deliveries \ {d} : row'[x] = row[x] /\ cool'[x] = cool[x]
    BY <1>1, <2>1 DEF LeaseInv, TypeOK
  <2>3. row[d].status = "pending" /\ row[d].stamp = job[w].stamp
    BY <1>5 DEF Owns
  <2>4. row'[d].wait \in Nat /\ row'[d].stamp \in Nat
    BY <1>1 DEF TypeOK, Row
  <2>5. /\ row'[d].stamp \in {row[d].stamp, row[d].stamp + 1}
        /\ row'[d].status \in {"succeeded", "dead_letter", "pending"}
        /\ row'[d].status = "pending" => row'[d].stamp = row[d].stamp + 1
    BY <1>1, <2>2, <2>3, MarkedType
  <2>6. \/ /\ row'[d].status \notin {"absent", "pending"}
           /\ row'[d].stamp >= row[d].stamp
        \/ /\ row'[d].status = "pending"
           /\ row'[d].stamp > row[d].stamp
           /\ cool'[d] <= row'[d].wait
    BY <1>1, <2>2, <2>4, <2>5
  <2> QED
    BY <1>4, <1>5, <2>2, <2>3, <2>6
<1>6. CASE /\ Owns(w) /\ UNCHANGED cool /\ ~MarkRow(w)
           /\ row' = [row EXCEPT ![job[w].id].status = "dead_letter"]
  <2>1. row'[d] = [row[d] EXCEPT !.status = "dead_letter"]
    BY <1>1, <1>6 DEF LeaseInv, TypeOK
  <2>2. row'[d].status = "dead_letter" /\ row'[d].stamp = row[d].stamp
    BY <1>1, <2>1 DEF Row
  <2>3. \A x \in Deliveries \ {d} : row'[x] = row[x] /\ cool'[x] = cool[x]
    BY <1>6 DEF LeaseInv, TypeOK
  <2> QED
    BY <1>1, <1>4, <1>6, <2>2, <2>3
<1> QED
  BY <1>3, <1>5, <1>6

\* Finalising keeps the invariant.
LEMMA MarkStep ==
    ASSUME LeaseInv, TypeOK', NEW w \in Workers,
           Mark(w) \/ MarkLost(w) \/ Abort(w)
    PROVE  LeaseInv'
<1>1. Working(w) /\ UNCHANGED <<targets, dispatched, batch, accepted>>
  BY DEF Mark, MarkLost, Abort, Working
<1>2. \/ UNCHANGED <<row, cool>> /\ Proceed(w, batch[w])
      \/ Owns(w) /\ MarkRow(w) /\ Proceed(w, batch[w])
      \/ /\ Owns(w) /\ MarkRow(w) /\ pc' = [pc EXCEPT ![w] = "abort"]
         /\ job' = [job EXCEPT ![w].posted = FALSE, ![w].left = 0]
      \/ /\ Owns(w) /\ UNCHANGED cool /\ Proceed(w, batch[w])
         /\ row' = [row EXCEPT ![job[w].id].status = "dead_letter"]
  BY DEF Mark, MarkLost, Abort, MarkNothing
<1>3. \A v \in Workers \ {w} : Working(v)' => Working(v) /\ job'[v] = job[v]
  BY <1>2 DEF LeaseInv, TypeOK, Working, Proceed
<1>4. /\ \A d \in Deliveries : RowMoves(d)
      /\ QueueInv'
      /\ \A v \in Workers \ {w} : /\ Working(v)
            /\ row[job[v].id].status = "pending"
            /\ row'[job[v].id].stamp > row[job[v].id].stamp
            => job[v].left = 0
      /\ Owns(w) /\ MarkRow(w) =>
           \/ row'[job[w].id].status \notin {"absent", "pending"}
              /\ row'[job[w].id].stamp >= job[w].stamp
           \/ row'[job[w].id].status = "pending"
              /\ row'[job[w].id].stamp > job[w].stamp
  BY <1>1, <1>2, Finalise
<1>5. /\ BatchInv' /\ CoolInv'
      /\ \A v \in Workers \ {w} : Working(v)' => JobInv(v)'
  BY <1>1, <1>3, <1>4, MovesKeep
<1>6. CASE Proceed(w, batch[w])
  <2>1. ~Working(w)'
    BY <1>6 DEF Proceed, Working, LeaseInv, TypeOK
  <2>2. JobsInv'
    BY <1>5, <2>1 DEF JobsInv
  <2>3. ClaimsDiffer' /\ ExclusiveLease'
    BY <1>3, <2>1, ClaimsKept
  <2> QED
    BY <1>4, <1>5, <2>2, <2>3 DEF LeaseInv
<1>7. CASE /\ Owns(w) /\ MarkRow(w) /\ pc' = [pc EXCEPT ![w] = "abort"]
           /\ job' = [job EXCEPT ![w].posted = FALSE, ![w].left = 0]
  <2>1. job[w] \in Job /\ job[w].stamp \in Nat
    BY <1>1, JobType DEF LeaseInv, Job
  <2>2. job'[w] = [job[w] EXCEPT !.posted = FALSE, !.left = 0]
    BY <1>7 DEF LeaseInv, TypeOK
  <2>3. /\ job'[w].id = job[w].id /\ job'[w].stamp = job[w].stamp
        /\ job'[w].verdict = job[w].verdict /\ job'[w].left = 0
    BY <2>1, <2>2 DEF Job
  <2>4. row'[job[w].id].stamp \in Nat
    BY <1>1, JobType DEF LeaseInv, TypeOK, Row
  <2>5. job[w].verdict = "success" => job[w].id \in accepted'
    BY <1>1 DEF LeaseInv, JobsInv, JobInv
  <2>6. JobInv(w)'
    BY <1>4, <1>7, <2>1, <2>3, <2>4, <2>5 DEF JobInv, LeaseHeld, Owns
  <2>7. JobsInv'
    BY <1>5, <2>6 DEF JobsInv
  <2>8. ClaimsDiffer' /\ ExclusiveLease'
    BY <1>1, <1>3, <2>3, ClaimsKept
  <2> QED
    BY <1>4, <1>5, <2>7, <2>8 DEF LeaseInv
<1> QED
  BY <1>2, <1>6, <1>7

\* The passing of time keeps the invariant.
LEMMA TickStep ==
    ASSUME LeaseInv, TypeOK', Tick
    PROVE  LeaseInv'
<1>1. UNCHANGED <<targets, dispatched, pc, batch, accepted>>
  BY DEF Tick
<1>2. ASSUME NEW d \in Deliveries
      PROVE  /\ row[d].stamp \in Nat /\ row[d].wait \in Nat
             /\ cool[d] \in Nat
             /\ row'[d].status = row[d].status
             /\ row'[d].stamp = row[d].stamp
             /\ row'[d].wait = IF row[d].status = "pending"
                               THEN Less(row[d].wait) ELSE row[d].wait
             /\ cool'[d] = Less(cool[d])
  <2>1. row[d] \in Row /\ cool[d] \in Nat
    BY DEF LeaseInv, TypeOK
  <2>2. row'[d] = IF row[d].status = "pending"
                  THEN [row[d] EXCEPT !.wait = Less(@)] ELSE row[d]
    BY DEF Tick
  <2>3. cool'[d] = Less(cool[d])
    BY DEF Tick
  <2> QED
    BY <2>1, <2>2, <2>3 DEF Row
<1>3. ASSUME NEW w \in Workers, Working(w)
      PROVE  /\ job[w].id \in Deliveries /\ job[w].left \in Nat
             /\ job'[w].id = job[w].id /\ job'[w].stamp = job[w].stamp
             /\ job'[w].verdict = job[w].verdict
             /\ job'[w].left = Less(job[w].left)
  <2>1. job[w] \in Job
    BY <1>3, JobType DEF LeaseInv
  <2>2. job'[w] = [job[w] EXCEPT !.left = Less(@)]
    BY <1>3 DEF Tick
  <2> QED
    BY <2>1, <2>2 DEF Job
<1>4. \A w \in Workers : Working(w)' <=> Working(w)
  BY <1>1 DEF Working
<1>5. QueueInv'
  BY <1>1, <1>2 DEF LeaseInv, QueueInv
<1>6. BatchInv'
  <2> SUFFICES ASSUME NEW w \in Workers, NEW s \in batch[w]
               PROVE  SeenInv(s)'
    BY <1>1 DEF BatchInv
  <2>1. s.id \in Deliveries
    BY DEF LeaseInv, TypeOK, Seen
  <2>2. SeenInv(s)
    BY DEF LeaseInv, BatchInv
  <2>3. Less(0) = 0
    BY DEF Less
  <2> QED
    BY <1>2, <2>1, <2>2, <2>3 DEF SeenInv, Claimable
<1>7. JobsInv'
  <2> SUFFICES ASSUME NEW w \in Workers, Working(w)
               PROVE  JobInv(w)'
    BY <1>4 DEF JobsInv
  <2>1. JobInv(w)
    BY DEF LeaseInv, JobsInv
  <2>2. LeaseHeld(w)'
    BY <1>2, <1>3, <2>1 DEF JobInv, LeaseHeld, Less
  <2>3. Owns(w)' => cool'[job'[w].id] = 0
    BY <1>2, <1>3, <2>1 DEF JobInv, Owns, Less
  <2> QED
    BY <1>1, <1>2, <1>3, <2>1, <2>2, <2>3 DEF JobInv
<1>8. ClaimsDiffer'
  BY <1>3, <1>4 DEF LeaseInv, ClaimsDiffer
<1>9. ExclusiveLease'
  <2>1. Less(0) = 0
    BY DEF Less
  <2> QED
    BY <1>3, <1>4, <2>1 DEF LeaseInv, ExclusiveLease
<1>10. CoolInv'
  BY <1>2 DEF LeaseInv, CoolInv, Less
<1> QED
  BY <1>5, <1>6, <1>7, <1>8, <1>9, <1>10 DEF LeaseInv

\* LeaseInv is inductive.
LEMMA LeaseInduction ==
    /\ Init => LeaseInv
    /\ LeaseInv /\ [Next]_dvars => LeaseInv'
<1>1. Init => LeaseInv
  <2> SUFFICES ASSUME Init
               PROVE  LeaseInv
    OBVIOUS
  <2>1. TypeOK
    BY InitType
  <2>2. \A w \in Workers : ~Working(w) /\ batch[w] = {}
    BY DEF Init, Working
  <2>3. BatchInv /\ JobsInv /\ ClaimsDiffer /\ ExclusiveLease
    BY <2>2 DEF BatchInv, JobsInv, ClaimsDiffer, ExclusiveLease
  <2>4. QueueInv /\ CoolInv
    BY DEF Init, QueueInv, CoolInv
  <2> QED
    BY <2>1, <2>3, <2>4 DEF LeaseInv
<1>2. ASSUME LeaseInv, [Next]_dvars
      PROVE  LeaseInv'
  <2>1. TypeOK'
    BY <1>2, StepType DEF LeaseInv
  <2>2. CASE UNCHANGED dvars
    BY <1>2, <2>2
       DEF dvars, LeaseInv, TypeOK, QueueInv, BatchInv, SeenInv, Claimable,
           JobsInv, JobInv, LeaseHeld, Owns, Working, ClaimsDiffer,
           ExclusiveLease, CoolInv
  <2>3. CASE Next
    BY <1>2, <2>1, <2>3, DispatchStep, FetchStep, ClaimStep, PostStep,
       MarkStep, TickStep
       DEF Next, WorkerStep, WorkerFault
  <2> QED
    BY <1>2, <2>2, <2>3
<1> QED
  BY <1>1, <1>2

-----------------------------------------------------------------------------
(***************************************************************************)
(* What follows from the invariant.                                        *)
(***************************************************************************)

\* Two workers never hold a lease that has not run out on one delivery,
\* whatever is lost, crashes or is slow.
THEOREM LeasesExclusive == Spec => []ExclusiveLease
<1>1. LeaseInv => ExclusiveLease
  BY DEF LeaseInv
<1> QED
  BY <1>1, LeaseInduction, PTL DEF Spec

\* A worker that owns its delivery POSTs it only when the back-off after the
\* last recorded failure is over.
THEOREM BackoffKept == Spec => BackoffRespected
<1>1. ASSUME LeaseInv, NEW w \in Workers, pc[w] = "post", Owns(w)
      PROVE  cool[job[w].id] = 0
  BY <1>1 DEF LeaseInv, JobsInv, JobInv, Working
<1>2. LeaseInv /\ [Next]_dvars =>
        [\A w \in Workers :
            pc[w] = "post" /\ pc'[w] = "mark" /\ Owns(w)
               => cool[job[w].id] = 0]_dvars
  BY <1>1
<1> QED
  BY <1>2, LeaseInduction, PTL DEF Spec, BackoffRespected

\* The contract's phase of every delivery before and after a step.
LEMMA PhaseStep ==
    ASSUME TypeOK, NEW d \in Deliveries,
           row' = [row EXCEPT ![d] = row'[d]]
    PROVE  [x \in Deliveries |-> row'[x].status]
             = [[x \in Deliveries |-> row[x].status]
                  EXCEPT ![d] = row'[d].status]
<1>1. \A x \in Deliveries : x # d => row'[x] = row[x]
  BY DEF TypeOK
<1> QED
  BY <1>1

\* A step that leaves every status and the acceptances alone is a stutter of
\* the contract.
LEMMA ContractStutter ==
    ASSUME \A d \in Deliveries : row'[d].status = row[d].status,
           UNCHANGED accepted
    PROVE  UNCHANGED Contract!cvars
BY DEF Contract!cvars

\* The steps of the contract.
LEMMA ContractSteps ==
    /\ \A ds \in SUBSET Deliveries :
          Contract!Queue(ds) \/ Contract!Cancel(ds) => Contract!ContractNext
    /\ \A d \in Deliveries :
          Contract!Accept(d) \/ Contract!Succeed(d) \/ Contract!GiveUp(d)
            => Contract!ContractNext
BY Zenon DEF Contract!ContractNext

\* Every step of the code is a step of the contract.
LEMMA ContractStep ==
    ASSUME LeaseInv, [Next]_dvars
    PROVE  [Contract!ContractNext]_(Contract!cvars)
<1> USE DEF LeaseInv
<1>1. CASE UNCHANGED dvars
  BY <1>1, ContractStutter DEF dvars
<1>2. ASSUME NEW e \in Events, DispatchRead(e)
      PROVE  UNCHANGED Contract!cvars
  BY <1>2, ContractStutter DEF DispatchRead, history
<1>3. ASSUME NEW e \in Events, DispatchInsert(e)
      PROVE  [Contract!ContractNext]_(Contract!cvars)
  <2>1. UNCHANGED accepted
    BY <1>3 DEF DispatchInsert, history
  <2>2. CASE ~(targets[e] \subseteq hooks)
    <3>1. \A d \in Deliveries : row'[d] = row[d]
      BY <1>3, <2>2 DEF DispatchInsert
    <3> QED
      BY <2>1, <3>1, ContractStutter
  <2>3. CASE targets[e] \subseteq hooks
    <3>1. PICK ds \in SUBSET Deliveries : ds = {e} \X targets[e]
      BY DEF TypeOK, Deliveries
    <3>2. \A d \in ds : row[d].status = "absent"
      BY <1>3, <3>1 DEF DispatchInsert, QueueInv
    <3>3. \A d \in Deliveries :
            row'[d].status = IF d \in ds THEN "pending" ELSE row[d].status
      <4>1. \A d \in Deliveries : row[d] \in Row
        BY DEF TypeOK
      <4>2. \A d \in Deliveries :
              row'[d] = IF d \in ds THEN [row[d] EXCEPT !.status = "pending"]
                        ELSE row[d]
        BY <1>3, <2>3, <3>1 DEF DispatchInsert
      <4> QED
        BY <4>1, <4>2 DEF Row
    <3>4. Contract!Queue(ds)
      BY <2>1, <3>1, <3>2, <3>3 DEF Contract!Queue
    <3>5. Contract!ContractNext
      BY <3>1, <3>4, ContractSteps
    <3> QED
      BY <3>5
  <2> QED
    BY <2>2, <2>3
<1>4. ASSUME NEW h \in Hooks, DeleteWebhook(h)
      PROVE  Contract!ContractNext
  <2> DEFINE ds == {d \in Deliveries : d[2] = h}
  <2>1. \A d \in Deliveries :
          row'[d].status = IF d \in ds /\ row[d].status # "absent"
                           THEN "gone" ELSE row[d].status
    <3>1. \A d \in Deliveries : row[d] \in Row
      BY DEF TypeOK
    <3>2. \A d \in Deliveries :
            row'[d] = IF d \in ds /\ row[d].status # "absent"
                      THEN [row[d] EXCEPT !.status = "gone"] ELSE row[d]
      BY <1>4 DEF DeleteWebhook
    <3> QED
      BY <3>1, <3>2 DEF Row
  <2>2. UNCHANGED accepted /\ ds \subseteq Deliveries
    BY <1>4 DEF DeleteWebhook, history
  <2> HIDE DEF ds
  <2>3. Contract!Cancel(ds)
    BY <2>1, <2>2 DEF Contract!Cancel
  <2> QED
    BY <2>2, <2>3, ContractSteps
<1>5. ASSUME NEW w \in Workers,
             FetchDue(w) \/ Lookup(w) \/ Raise(w) \/ Crash(w)
      PROVE  UNCHANGED Contract!cvars
  <2>1. UNCHANGED <<row, accepted>>
    BY <1>5 DEF FetchDue, Lookup, Raise, Crash, history
  <2> QED
    BY <2>1, ContractStutter
<1>6. ASSUME NEW w \in Workers, Claim(w) \/ ClaimLost(w)
      PROVE  UNCHANGED Contract!cvars
  <2>1. UNCHANGED accepted
    BY <1>6 DEF Claim, ClaimLost, history
  <2>2. PICK s \in batch[w] :
          \/ row' = [row EXCEPT ![s.id] = Timestamp(@, LEASE_SECONDS)]
          \/ UNCHANGED row
    BY <1>6 DEF Claim, ClaimLost
  <2>3. \A d \in Deliveries :
          Timestamp(row[d], LEASE_SECONDS).status = row[d].status
    BY TimestampType, DeliveryAssumption DEF TypeOK
  <2>4. s.id \in Deliveries
    BY DEF TypeOK, Seen
  <2>5. \A d \in Deliveries : row'[d].status = row[d].status
    BY <2>2, <2>3, <2>4 DEF TypeOK
  <2> QED
    BY <2>1, <2>5, ContractStutter
<1>7. ASSUME NEW w \in Workers, Post(w)
      PROVE  [Contract!ContractNext]_(Contract!cvars)
  <2>1. Working(w) /\ UNCHANGED row
    BY <1>7 DEF Post, Working
  <2>2. job[w].id \in Deliveries /\ row[job[w].id].status # "absent"
    BY <2>1, JobType DEF JobsInv, JobInv
  <2>3. CASE UNCHANGED accepted
    BY <2>1, <2>3, ContractStutter
  <2>4. CASE accepted' = accepted \cup {job[w].id}
    <3>1. Contract!Accept(job[w].id)
      BY <2>1, <2>2, <2>4 DEF Contract!Accept
    <3> QED
      BY <2>2, <3>1, ContractSteps
  <2> QED
    BY <1>7, <2>3, <2>4 DEF Post
<1>8. ASSUME NEW w \in Workers, Mark(w) \/ MarkLost(w) \/ Abort(w)
      PROVE  [Contract!ContractNext]_(Contract!cvars)
  <2>1. Working(w) /\ UNCHANGED accepted
    BY <1>8 DEF Mark, MarkLost, Abort, Working
  <2>2. PICK d \in Deliveries :
          /\ d = job[w].id /\ job[w] \in Job /\ row[d] \in Row
          /\ job[w].verdict = "success" => d \in accepted
    BY <2>1, JobType DEF JobsInv, JobInv
  <2>3. ASSUME row[d].status = "pending",
               row' = [row EXCEPT ![d] = row'[d]],
               \/ row'[d].status = "succeeded" /\ d \in accepted
               \/ row'[d].status = "dead_letter"
               \/ row'[d].status = "pending"
        PROVE  [Contract!ContractNext]_(Contract!cvars)
    <3>1. [x \in Deliveries |-> row'[x].status]
            = [[x \in Deliveries |-> row[x].status]
                 EXCEPT ![d] = row'[d].status]
      BY <2>2, <2>3, PhaseStep
    <3>2. CASE row'[d].status = "succeeded" /\ d \in accepted
      <4>1. Contract!Succeed(d)
        BY <2>1, <2>2, <2>3, <3>1, <3>2 DEF Contract!Succeed
      <4>2. Contract!ContractNext
        BY <2>2, <4>1, ContractSteps
      <4> QED
        BY <4>2
    <3>3. CASE row'[d].status = "dead_letter"
      <4>1. Contract!GiveUp(d)
        BY <2>1, <2>2, <2>3, <3>1, <3>3 DEF Contract!GiveUp
      <4>2. Contract!ContractNext
        BY <2>2, <4>1, ContractSteps
      <4> QED
        BY <4>2
    <3>4. CASE row'[d].status = "pending"
      <4>1. \A x \in Deliveries : row'[x].status = row[x].status
        BY <2>2, <2>3, <3>4 DEF TypeOK
      <4> QED
        BY <2>1, <4>1, ContractStutter
    <3> QED
      BY <2>3, <3>2, <3>3, <3>4
  <2>4. CASE UNCHANGED row
    BY <2>1, <2>4, ContractStutter
  <2>5. CASE Owns(w) /\ MarkRow(w)
    <3>1. row[d].status = "pending"
      BY <2>2, <2>5 DEF Owns
    <3>2. row' = [row EXCEPT ![d] = Marked(row[d], job[w])]
      BY <2>2, <2>5 DEF MarkRow
    <3>3. row'[d] = Marked(row[d], job[w])
      BY <2>2, <3>2 DEF TypeOK
    <3>4. /\ row'[d].status \in {"succeeded", "dead_letter", "pending"}
          /\ row'[d].status = "succeeded" => job[w].verdict = "success"
      BY <2>2, <3>1, <3>3, MarkedType
    <3> QED
      BY <2>2, <2>3, <3>1, <3>2, <3>3, <3>4
  <2>6. CASE /\ Owns(w)
             /\ row' = [row EXCEPT ![job[w].id].status = "dead_letter"]
    <3>1. row[d].status = "pending"
      BY <2>2, <2>6 DEF Owns
    <3>2. row'[d] = [row[d] EXCEPT !.status = "dead_letter"]
      BY <2>2, <2>6 DEF TypeOK
    <3>3. row'[d].status = "dead_letter"
      BY <2>2, <3>2 DEF Row
    <3>4. row' = [row EXCEPT ![d] = row'[d]]
      BY <2>2, <2>6, <3>2 DEF TypeOK
    <3> QED
      BY <2>3, <3>1, <3>3, <3>4
  <2> QED
    BY <1>8, <2>4, <2>5, <2>6 DEF Mark, MarkLost, Abort, MarkNothing
<1>9. ASSUME Tick
      PROVE  UNCHANGED Contract!cvars
  <2>1. \A d \in Deliveries : row[d] \in Row
    BY DEF TypeOK
  <2>2. \A d \in Deliveries : row'[d].status = row[d].status
    BY <1>9, <2>1 DEF Tick, Row
  <2>3. UNCHANGED accepted
    BY <1>9 DEF Tick
  <2> QED
    BY <2>2, <2>3, ContractStutter
<1> QED
  BY <1>1, <1>2, <1>3, <1>4, <1>5, <1>6, <1>7, <1>8, <1>9
     DEF Next, WorkerStep, WorkerFault

\* The workers keep the delivery contract: a delivery is settled once, and
\* as succeeded only if its receiver accepted it.
THEOREM ContractKept == Spec => KeepsContract
<1>1. Init => Contract!ContractInit
  BY DEF Init, Contract!ContractInit
<1>2. LeaseInv /\ [Next]_dvars => [Contract!ContractNext]_(Contract!cvars)
  BY ContractStep
<1> QED
  BY <1>1, <1>2, LeaseInduction, PTL
     DEF Spec, KeepsContract, Contract!ContractSpec

-----------------------------------------------------------------------------
(***************************************************************************)
(* Every POST is accounted for.                                            *)
(***************************************************************************)

\* The workers with a POST of d in hand.
Posting(d) ==
    {w \in Workers : Working(w) /\ job[w].id = d /\ job[w].posted}

\* The books balance for d.
Balance(d) ==
    /\ IsFiniteSet(Posting(d))
    /\ posts[d] = row[d].attempts + excused[d] + Cardinality(Posting(d))

\* A row that may still be delivered has an attempt left.
AttemptsLeft(d) ==
    /\ row[d].attempts <= MAX_ATTEMPTS
    /\ row[d].status \in {"absent", "pending"}
         => row[d].attempts < MAX_ATTEMPTS

\* Whoever can still claim or finalise a row knows its attempt count.
AttemptsKnown ==
    /\ \A w \in Workers : \A s \in batch[w] :
          Claimable(s) => row[s.id].attempts = s.attempts
    /\ \A w \in Workers :
          Working(w) /\ Owns(w) => row[job[w].id].attempts = job[w].attempts

\* A worker has a POST in hand exactly when its verdict is a receiver's.
PostInHand(w) ==
    /\ ~Working(w) => job[w] = None
    /\ pc[w] \in {"lookup", "post"} => ~job[w].posted
    /\ pc[w] = "mark"
         => (job[w].posted <=> job[w].verdict \in {"success", "retry"})

CountInv ==
    /\ LeaseInv
    /\ \A d \in Deliveries : Balance(d) /\ AttemptsLeft(d)
    /\ AttemptsKnown
    /\ \A w \in Workers : PostInHand(w)

\* What a step may do to a row as far as its attempts go: leave them and its
\* stamp, or put it out of reach of whoever read it before.
AttemptMoves(d) ==
    \/ row'[d].status # "pending"
    \/ row'[d].stamp > row[d].stamp
    \/ row[d].status = "absent"
    \/ /\ row[d].status = "pending"
       /\ row'[d].attempts = row[d].attempts
       /\ row'[d].stamp = row[d].stamp

\* The workers U, which such a step does not touch, and the batches still
\* know the attempts.
LEMMA AttemptsKept ==
    ASSUME LeaseInv, LeaseInv', AttemptsKnown, NEW U \in SUBSET Workers,
           \A d \in Deliveries : AttemptMoves(d),
           \A v \in U : Working(v)' =>
               /\ Working(v) /\ job'[v].id = job[v].id
               /\ job'[v].stamp = job[v].stamp
               /\ job'[v].attempts = job[v].attempts
    PROVE  /\ \A w \in Workers : \A s \in batch[w] :
                 Claimable(s)' => row'[s.id].attempts = s.attempts
           /\ \A v \in U : Working(v)' /\ Owns(v)'
                 => row'[job'[v].id].attempts = job'[v].attempts
<1>1. \A d \in Deliveries : row[d].stamp \in Nat /\ row'[d].stamp \in Nat
  BY DEF LeaseInv, TypeOK, Row
<1>2. ASSUME NEW w \in Workers, NEW s \in batch[w], Claimable(s)'
      PROVE  row'[s.id].attempts = s.attempts
  <2>1. s.id \in Deliveries /\ s.stamp \in Nat
    BY DEF LeaseInv, TypeOK, Seen
  <2>2. SeenInv(s) /\ AttemptMoves(s.id)
    BY <2>1 DEF LeaseInv, BatchInv
  <2>3. row'[s.id].status = "pending" /\ row'[s.id].stamp = s.stamp
    BY <1>2 DEF Claimable
  <2>4. /\ row[s.id].status = "pending" /\ row[s.id].stamp = s.stamp
        /\ row'[s.id].attempts = row[s.id].attempts
    BY <1>1, <2>1, <2>2, <2>3 DEF SeenInv, AttemptMoves
  <2> QED
    BY <2>4 DEF AttemptsKnown, Claimable
<1>3. ASSUME NEW v \in U, Working(v)', Owns(v)'
      PROVE  row'[job'[v].id].attempts = job'[v].attempts
  <2> DEFINE d == job[v].id
  <2>1. /\ Working(v) /\ job'[v].id = d
        /\ job'[v].stamp = job[v].stamp
        /\ job'[v].attempts = job[v].attempts
    BY <1>3
  <2>2. d \in Deliveries /\ job[v].stamp \in Nat
    BY <2>1, JobType DEF LeaseInv, Job
  <2>3. JobInv(v) /\ AttemptMoves(d)
    BY <2>1, <2>2 DEF LeaseInv, JobsInv
  <2>4. row'[d].status = "pending" /\ row'[d].stamp = job[v].stamp
    BY <1>3, <2>1 DEF Owns
  <2>5. /\ row[d].status # "absent" /\ job[v].stamp <= row[d].stamp
    BY <2>3 DEF JobInv
  <2> HIDE DEF d
  <2>6. /\ row[d].status = "pending" /\ row[d].stamp = job[v].stamp
        /\ row'[d].attempts = row[d].attempts
    BY <1>1, <2>2, <2>3, <2>4, <2>5 DEF AttemptMoves
  <2> QED
    BY <2>1, <2>6 DEF AttemptsKnown, Owns, d
<1> QED
  BY <1>2, <1>3

\* A step that makes and records no POST keeps the books balanced.
LEMMA BalanceKept ==
    ASSUME \A d \in Deliveries : Balance(d) /\ AttemptsLeft(d),
           UNCHANGED <<posts, excused>>,
           \A d \in Deliveries : row'[d].attempts = row[d].attempts,
           \A d \in Deliveries : row'[d].status \in {"absent", "pending"}
                                    => row[d].status \in {"absent", "pending"},
           \A v \in Workers :
               (Working(v)' /\ job'[v].posted) <=> (Working(v) /\ job[v].posted),
           \A v \in Workers :
               Working(v)' /\ job'[v].posted => job'[v].id = job[v].id
    PROVE  \A d \in Deliveries : Balance(d)' /\ AttemptsLeft(d)'
<1> SUFFICES ASSUME NEW d \in Deliveries
             PROVE  Balance(d)' /\ AttemptsLeft(d)'
  OBVIOUS
<1>1. Posting(d)' = Posting(d)
  BY DEF Posting
<1>2. Balance(d)'
  BY <1>1 DEF Balance
<1>3. AttemptsLeft(d)'
  BY DEF AttemptsLeft
<1> QED
  BY <1>2, <1>3

\* A step after which w has no POST in hand any more balances the books if it
\* has recorded or excused the one it had.
LEMMA BalanceSettled ==
    ASSUME TypeOK, TypeOK', \A d \in Deliveries : Balance(d),
           NEW w \in Workers, Working(w),
           \A v \in Workers \ {w} :
               /\ Working(v)' <=> Working(v)
               /\ job'[v] = job[v],
           ~(Working(w)' /\ job'[w].posted),
           UNCHANGED posts,
           \A d \in Deliveries \ {job[w].id} :
               /\ row'[d].attempts = row[d].attempts
               /\ excused'[d] = excused[d],
           LET d == job[w].id
           IN  row'[d].attempts + excused'[d] =
                 row[d].attempts + excused[d]
                   + (IF job[w].posted THEN 1 ELSE 0)
    PROVE  \A d \in Deliveries : Balance(d)'
<1> SUFFICES ASSUME NEW d \in Deliveries
             PROVE  Balance(d)'
  OBVIOUS
<1>1. Posting(d)' = Posting(d) \ {w}
  BY DEF Posting
<1>2. /\ IsFiniteSet(Posting(d)) /\ Cardinality(Posting(d)) \in Nat
      /\ posts[d] = row[d].attempts + excused[d] + Cardinality(Posting(d))
  BY FS_CardinalityType DEF Balance
<1>3. /\ IsFiniteSet(Posting(d)')
      /\ Cardinality(Posting(d)') = IF w \in Posting(d)
                                    THEN Cardinality(Posting(d)) - 1
                                    ELSE Cardinality(Posting(d))
  BY <1>1, <1>2, FS_RemoveElement
<1>4. w \in Posting(d) <=> (job[w].id = d /\ job[w].posted)
  BY DEF Posting
<1>5. /\ posts[d] \in Nat /\ row[d].attempts \in Nat /\ excused[d] \in Nat
      /\ row'[d].attempts \in Nat /\ excused'[d] \in Nat
  BY DEF TypeOK, Row
<1>6. posts'[d] = row'[d].attempts + excused'[d] + Cardinality(Posting(d)')
  <2>1. CASE d # job[w].id
    BY <1>2, <1>3, <1>4, <1>5, <2>1
  <2>2. CASE d = job[w].id /\ job[w].posted
    BY <1>2, <1>3, <1>4, <1>5, <2>2
  <2>3. CASE d = job[w].id /\ ~job[w].posted
    BY <1>2, <1>3, <1>4, <1>5, <2>3
  <2> QED
    BY <2>1, <2>2, <2>3
<1> QED
  BY <1>3, <1>6 DEF Balance

\* Dispatch and deletion keep the count.
LEMMA DispatchCount ==
    ASSUME CountInv, LeaseInv',
           \/ \E e \in Events : DispatchRead(e) \/ DispatchInsert(e)
           \/ \E h \in Hooks : DeleteWebhook(h)
    PROVE  CountInv'
<1>1. UNCHANGED <<pc, batch, job, posts, excused>>
  BY DEF DispatchRead, DispatchInsert, DeleteWebhook, history
<1>2. /\ LeaseInv /\ TypeOK
      /\ \A d \in Deliveries : row[d] \in Row
  BY DEF CountInv, LeaseInv, TypeOK
<1>3. ASSUME NEW d \in Deliveries
      PROVE  \/ row'[d] = row[d]
             \/ /\ row[d].status = "absent"
                /\ row'[d] = [row[d] EXCEPT !.status = "pending"]
             \/ row'[d] = [row[d] EXCEPT !.status = "gone"]
  <2>1. CASE \E e \in Events : DispatchRead(e)
    BY <2>1 DEF DispatchRead
  <2>2. CASE \E h \in Hooks : DeleteWebhook(h)
    BY <2>2 DEF DeleteWebhook
  <2>3. CASE \E e \in Events : DispatchInsert(e)
    <3>1. PICK e \in Events : DispatchInsert(e)
      BY <2>3
    <3>2. e \notin dispatched
      BY <1>2, <3>1 DEF LeaseInv, QueueInv, DispatchInsert
    <3>3. d[1] = e => row[d].status = "absent"
      BY <1>2, <3>2 DEF LeaseInv, QueueInv
    <3>4. d \in {e} \X targets[e] => d[1] = e
      OBVIOUS
    <3> QED
      BY <3>1, <3>3, <3>4 DEF DispatchInsert
  <2> QED
    BY <2>1, <2>2, <2>3
<1>4. ASSUME NEW d \in Deliveries
      PROVE  /\ AttemptMoves(d)
             /\ row'[d].attempts = row[d].attempts
             /\ row'[d].status \in {"absent", "pending"}
                  => row[d].status \in {"absent", "pending"}
  <2>1. row[d] \in Row
    BY <1>2
  <2>2. CASE row'[d] = row[d]
    BY <2>1, <2>2 DEF AttemptMoves, Row, Statuses
  <2>3. CASE /\ row[d].status = "absent"
             /\ row'[d] = [row[d] EXCEPT !.status = "pending"]
    BY <2>1, <2>3 DEF AttemptMoves, Row
  <2>4. CASE row'[d] = [row[d] EXCEPT !.status = "gone"]
    BY <2>1, <2>4 DEF AttemptMoves, Row
  <2> QED
    BY <1>3, <2>2, <2>3, <2>4
<1>5. \A v \in Workers : Working(v)' <=> Working(v)
  BY <1>1 DEF Working
<1>6. AttemptsKnown'
  BY <1>1, <1>2, <1>4, <1>5, AttemptsKept DEF CountInv, AttemptsKnown
<1>7. \A d \in Deliveries : Balance(d)' /\ AttemptsLeft(d)'
  BY <1>1, <1>4, <1>5, BalanceKept DEF CountInv
<1>8. \A w \in Workers : PostInHand(w)'
  BY <1>1, <1>5 DEF CountInv, PostInHand
<1> QED
  BY <1>6, <1>7, <1>8 DEF CountInv

\* Fetching keeps the count: the attempts of a fetched row are the row's.
LEMMA FetchCount ==
    ASSUME CountInv, LeaseInv', NEW w \in Workers, FetchDue(w)
    PROVE  CountInv'
<1>1. /\ LeaseInv /\ TypeOK /\ TypeOK' /\ pc[w] = "idle"
      /\ UNCHANGED <<row, job, posts, excused>>
  BY DEF CountInv, LeaseInv, FetchDue, history
<1>2. PICK ds : batch' = [batch EXCEPT ![w] =
                    {[id |-> d, attempts |-> row[d].attempts,
                      stamp |-> row[d].stamp] : d \in ds}]
  BY DEF FetchDue
<1>3. pc' = [pc EXCEPT ![w] = "claim"]
  BY DEF FetchDue
<1>4. \A v \in Workers : Working(v)' <=> Working(v)
  BY <1>1, <1>3 DEF Working, TypeOK
<1>5. AttemptsKnown'
  <2>1. ASSUME NEW v \in Workers, NEW s \in batch'[v], Claimable(s)'
        PROVE  row'[s.id].attempts = s.attempts
    <3>1. CASE v = w
      BY <1>1, <1>2, <2>1, <3>1 DEF TypeOK
    <3>2. CASE v # w
      BY <1>1, <1>2, <2>1, <3>2
         DEF TypeOK, CountInv, AttemptsKnown, Claimable
    <3> QED
      BY <3>1, <3>2
  <2>2. \A v \in Workers : Working(v)' /\ Owns(v)'
          => row'[job'[v].id].attempts = job'[v].attempts
    BY <1>1, <1>4 DEF CountInv, AttemptsKnown, Owns
  <2> QED
    BY <2>1, <2>2 DEF AttemptsKnown
<1>6. \A d \in Deliveries : Balance(d)' /\ AttemptsLeft(d)'
  BY <1>1, <1>4, BalanceKept DEF CountInv
<1>7. \A v \in Workers : PostInHand(v)'
  BY <1>1, <1>3, <1>4 DEF TypeOK, CountInv, PostInHand
<1> QED
  BY <1>5, <1>6, <1>7 DEF CountInv

\* Claiming keeps the count: the new stamp puts the row out of reach of
\* whoever fetched it before, and the claimer takes over the attempts.
LEMMA ClaimCount ==
    ASSUME CountInv, LeaseInv', NEW w \in Workers, Claim(w) \/ ClaimLost(w)
    PROVE  CountInv'
<1>1. /\ pc[w] = "claim" /\ ~Working(w) /\ TypeOK /\ TypeOK' /\ LeaseInv
      /\ UNCHANGED <<posts, excused>>
  BY DEF Claim, ClaimLost, history, Working, CountInv, LeaseInv
<1>2. PICK s \in batch[w] :
        /\ batch' = [batch EXCEPT ![w] = @ \ {s}]
        /\ \/ /\ Claimable(s)
              /\ row' = [row EXCEPT ![s.id] = Timestamp(@, LEASE_SECONDS)]
              /\ pc' = [pc EXCEPT ![w] = "lookup"]
              /\ job' = [job EXCEPT ![w] =
                    [id |-> s.id, attempts |-> s.attempts,
                     stamp |-> row'[s.id].stamp, verdict |-> "none",
                     posted |-> FALSE, left |-> LEASE_SECONDS]]
           \/ /\ Claimable(s)
              /\ row' = [row EXCEPT ![s.id] = Timestamp(@, LEASE_SECONDS)]
              /\ Proceed(w, batch'[w])
           \/ Proceed(w, batch'[w]) /\ UNCHANGED row
  BY DEF Claim, ClaimLost
<1>3. \A v \in Workers : batch'[v] \subseteq batch[v]
  BY <1>1, <1>2 DEF TypeOK
<1>4. \A v \in Workers \ {w} : /\ pc'[v] = pc[v] /\ job'[v] = job[v]
                               /\ Working(v)' <=> Working(v)
  BY <1>1, <1>2 DEF TypeOK, Working, Proceed
<1>5. s.id \in Deliveries /\ row[s.id] \in Row /\ s \in Seen
  BY <1>1 DEF TypeOK, Seen
<1>6. ASSUME NEW d \in Deliveries
      PROVE  /\ AttemptMoves(d)
             /\ row'[d].attempts = row[d].attempts
             /\ row'[d].status = row[d].status
  <2>1. row[d] \in Row
    BY <1>1 DEF TypeOK
  <2>2. CASE row'[d] = row[d]
    BY <2>1, <2>2 DEF AttemptMoves, Row, Statuses
  <2>3. CASE d = s.id /\ row'[d] = Timestamp(row[d], LEASE_SECONDS)
    <3>1. /\ row'[d].status = row[d].status
          /\ row'[d].stamp = row[d].stamp + 1 /\ row[d].stamp \in Nat
      BY <2>1, <2>3, TimestampType, DeliveryAssumption DEF Row
    <3>2. row'[d].attempts = row[d].attempts
      BY <2>1, <2>3 DEF Timestamp, Row
    <3> QED
      BY <3>1, <3>2 DEF AttemptMoves
  <2> QED
    BY <1>1, <1>2, <1>5, <2>2, <2>3 DEF TypeOK
<1>7. /\ \A v \in Workers : \A x \in batch[v] :
           Claimable(x)' => row'[x.id].attempts = x.attempts
      /\ \A v \in Workers \ {w} : Working(v)' /\ Owns(v)'
           => row'[job'[v].id].attempts = job'[v].attempts
  BY <1>1, <1>4, <1>6, AttemptsKept DEF CountInv
<1>8. CASE Proceed(w, batch'[w])
  <2>1. ~Working(w)' /\ job'[w] = None /\ pc'[w] \in {"idle", "claim"}
    BY <1>1, <1>8 DEF Proceed, Working, TypeOK
  <2>2. AttemptsKnown'
    BY <1>3, <1>7, <2>1 DEF AttemptsKnown
  <2>3. \A d \in Deliveries : Balance(d)' /\ AttemptsLeft(d)'
    BY <1>1, <1>4, <1>6, <2>1, BalanceKept DEF CountInv
  <2>4. \A v \in Workers : PostInHand(v)'
    BY <1>4, <2>1 DEF CountInv, PostInHand
  <2> QED
    BY <2>2, <2>3, <2>4 DEF CountInv
<1>9. CASE /\ Claimable(s)
           /\ row' = [row EXCEPT ![s.id] = Timestamp(@, LEASE_SECONDS)]
           /\ pc' = [pc EXCEPT ![w] = "lookup"]
           /\ job' = [job EXCEPT ![w] =
                 [id |-> s.id, attempts |-> s.attempts,
                  stamp |-> row'[s.id].stamp, verdict |-> "none",
                  posted |-> FALSE, left |-> LEASE_SECONDS]]
  <2>1. /\ Working(w)' /\ pc'[w] = "lookup" /\ ~job'[w].posted
        /\ job'[w].id = s.id /\ job'[w].attempts = s.attempts
    BY <1>1, <1>9 DEF Working, TypeOK
  <2>2. row'[s.id].attempts = s.attempts
    BY <1>1, <1>5, <1>6, <1>9 DEF CountInv, AttemptsKnown
  <2>3. AttemptsKnown'
    BY <1>3, <1>7, <2>1, <2>2 DEF AttemptsKnown
  <2>4. \A d \in Deliveries : Balance(d)' /\ AttemptsLeft(d)'
    BY <1>1, <1>4, <1>6, <2>1, BalanceKept DEF CountInv
  <2>5. \A v \in Workers : PostInHand(v)'
    BY <1>4, <2>1 DEF CountInv, PostInHand
  <2> QED
    BY <2>3, <2>4, <2>5 DEF CountInv
<1> QED
  BY <1>2, <1>8, <1>9

\* Looking up and failing keep the count.
LEMMA LookupCount ==
    ASSUME CountInv, LeaseInv', NEW w \in Workers, Lookup(w) \/ Raise(w)
    PROVE  CountInv'
<1>1. /\ UNCHANGED <<row, batch, posts, excused>> /\ TypeOK /\ TypeOK'
      /\ LeaseInv /\ Working(w) /\ job[w] \in Job
  <2>1. /\ UNCHANGED <<row, batch, posts, excused>> /\ LeaseInv /\ TypeOK
        /\ Working(w) /\ TypeOK'
    BY DEF Lookup, Raise, history, CountInv, LeaseInv, Working
  <2> QED
    BY <2>1, JobType
<1>2. \A v \in Workers \ {w} : /\ pc'[v] = pc[v] /\ job'[v] = job[v]
                               /\ Working(v)' <=> Working(v)
  BY <1>1 DEF Lookup, Raise, Resolve, Working, TypeOK
<1>3. /\ Working(w)' /\ job'[w].id = job[w].id
      /\ job'[w].stamp = job[w].stamp /\ job'[w].attempts = job[w].attempts
      /\ job'[w].posted = job[w].posted
      /\ \/ pc'[w] = "post" /\ ~job[w].posted
         \/ /\ pc'[w] = "mark" /\ ~job[w].posted
            /\ job'[w].verdict = "doomed"
         \/ pc'[w] = "abort"
  <2>1. CASE Raise(w)
    BY <1>1, <2>1 DEF Raise, Working, TypeOK
  <2>2. CASE Lookup(w)
    <3>1. PICK step \in {"post", "mark"}, verdict \in {"none", "doomed"} :
            /\ Resolve(w, step, verdict)
            /\ step = "mark" => verdict = "doomed"
      BY <2>2 DEF Lookup
    <3>2. /\ pc'[w] = step
          /\ job'[w] = [job[w] EXCEPT !.verdict = verdict]
      BY <1>1, <3>1 DEF Resolve, TypeOK
    <3>3. ~job[w].posted
      BY <2>2 DEF Lookup, CountInv, PostInHand
    <3>4. Working(w)'
      BY <3>2 DEF Working
    <3>5. /\ job'[w].id = job[w].id /\ job'[w].stamp = job[w].stamp
          /\ job'[w].attempts = job[w].attempts
          /\ job'[w].posted = job[w].posted /\ job'[w].verdict = verdict
      BY <1>1, <3>2 DEF Job
    <3> QED
      BY <3>1, <3>2, <3>3, <3>4, <3>5
  <2> QED
    BY <2>1, <2>2
<1>4. \A d \in Deliveries : AttemptMoves(d)
  BY <1>1 DEF AttemptMoves, TypeOK, Row, Statuses
<1>5. AttemptsKnown'
  BY <1>1, <1>2, <1>3, <1>4, AttemptsKept DEF CountInv, AttemptsKnown
<1>6. \A d \in Deliveries : Balance(d)' /\ AttemptsLeft(d)'
  BY <1>1, <1>2, <1>3, BalanceKept DEF CountInv
<1>7. \A v \in Workers : PostInHand(v)'
  BY <1>2, <1>3 DEF CountInv, PostInHand
<1> QED
  BY <1>5, <1>6, <1>7 DEF CountInv

\* A POST is in hand once it is made.
LEMMA PostCount ==
    ASSUME CountInv, LeaseInv', NEW w \in Workers, Post(w)
    PROVE  CountInv'
<1> DEFINE e == job[w].id
<1>1. /\ UNCHANGED <<row, batch, excused>> /\ TypeOK /\ TypeOK'
      /\ LeaseInv /\ Working(w) /\ job[w] \in Job /\ ~job[w].posted
      /\ e \in Deliveries
  <2>1. /\ UNCHANGED <<row, batch, excused>> /\ LeaseInv /\ TypeOK
        /\ Working(w) /\ TypeOK' /\ ~job[w].posted
    BY DEF Post, CountInv, LeaseInv, Working, PostInHand
  <2> QED
    BY <2>1, JobType
<1>2. \A v \in Workers \ {w} : /\ pc'[v] = pc[v] /\ job'[v] = job[v]
                               /\ Working(v)' <=> Working(v)
  BY <1>1 DEF Post, Working, TypeOK
<1>3. /\ Working(w)' /\ job'[w].id = e /\ pc'[w] = "mark"
      /\ job'[w].stamp = job[w].stamp /\ job'[w].attempts = job[w].attempts
      /\ job'[w].posted /\ job'[w].verdict \in {"success", "retry"}
  <2>1. PICK verdict \in {"success", "retry"} :
          job' = [job EXCEPT ![w].verdict = verdict, ![w].posted = TRUE]
    BY DEF Post
  <2>2. job'[w] = [job[w] EXCEPT !.verdict = verdict, !.posted = TRUE]
    BY <1>1, <2>1 DEF TypeOK
  <2>3. pc'[w] = "mark" /\ Working(w)'
    BY <1>1 DEF Post, TypeOK, Working
  <2> QED
    BY <1>1, <2>1, <2>2, <2>3 DEF Job
<1>4. \A d \in Deliveries : AttemptMoves(d)
  BY <1>1 DEF AttemptMoves, TypeOK, Row, Statuses
<1>5. AttemptsKnown'
  BY <1>1, <1>2, <1>3, <1>4, AttemptsKept DEF CountInv, AttemptsKnown
<1>6. ASSUME NEW d \in Deliveries
      PROVE  Balance(d)'
  <2>1. /\ IsFiniteSet(Posting(d)) /\ Cardinality(Posting(d)) \in Nat
        /\ posts[d] = row[d].attempts + excused[d] + Cardinality(Posting(d))
    BY FS_CardinalityType DEF CountInv, Balance
  <2>2. posts'[d] = IF d = e THEN posts[d] + 1 ELSE posts[d]
    BY <1>1 DEF Post, TypeOK
  <2>3. row[d].attempts \in Nat /\ excused[d] \in Nat
    BY <1>1 DEF TypeOK, Row
  <2>4. CASE d = e
    <3>1. Posting(d)' = Posting(d) \cup {w} /\ w \notin Posting(d)
      BY <1>1, <1>2, <1>3, <2>4 DEF Posting
    <3>2. /\ IsFiniteSet(Posting(d)')
          /\ Cardinality(Posting(d)') = Cardinality(Posting(d)) + 1
      BY <2>1, <3>1, FS_AddElement
    <3> QED
      BY <1>1, <2>1, <2>2, <2>3, <2>4, <3>2 DEF Balance
  <2>5. CASE d # e
    <3>1. Posting(d)' = Posting(d)
      BY <1>1, <1>2, <1>3, <2>5 DEF Posting
    <3> QED
      BY <1>1, <2>1, <2>2, <2>5, <3>1 DEF Balance
  <2> QED
    BY <2>4, <2>5
<1>7. \A d \in Deliveries : AttemptsLeft(d)'
  BY <1>1 DEF CountInv, AttemptsLeft
<1>8. \A v \in Workers : PostInHand(v)'
  BY <1>2, <1>3 DEF CountInv, PostInHand
<1> QED
  BY <1>5, <1>6, <1>7, <1>8 DEF CountInv

\* A crash excuses the POST in hand.
LEMMA CrashCount ==
    ASSUME CountInv, LeaseInv', NEW w \in Workers, Crash(w)
    PROVE  CountInv'
<1>1. /\ UNCHANGED <<row, posts>> /\ TypeOK /\ TypeOK' /\ LeaseInv
      /\ pc' = [pc EXCEPT ![w] = "idle"]
      /\ job' = [job EXCEPT ![w] = None]
      /\ batch' = [batch EXCEPT ![w] = {}]
      /\ excused' = IF job[w] # None /\ job[w].posted
                    THEN [excused EXCEPT ![job[w].id] = @ + 1] ELSE excused
  BY DEF Crash, CountInv, LeaseInv
<1>2. \A v \in Workers \ {w} : /\ pc'[v] = pc[v] /\ job'[v] = job[v]
                               /\ Working(v)' <=> Working(v)
                               /\ batch'[v] = batch[v]
  BY <1>1 DEF Working, TypeOK
<1>3. /\ ~Working(w)' /\ job'[w] = None /\ batch'[w] = {}
      /\ pc'[w] = "idle"
  BY <1>1 DEF Working, TypeOK
<1>4. AttemptsKnown'
  BY <1>1, <1>2, <1>3 DEF CountInv, AttemptsKnown, Claimable, Owns
<1>5. \A v \in Workers : PostInHand(v)'
  BY <1>2, <1>3 DEF CountInv, PostInHand
<1>6. \A d \in Deliveries : AttemptsLeft(d)'
  BY <1>1 DEF CountInv, AttemptsLeft
<1>7. CASE ~Working(w)
  <2>1. job[w] = None
    BY <1>7 DEF CountInv, PostInHand
  <2>2. UNCHANGED excused
    BY <1>1, <2>1
  <2>3. \A d \in Deliveries : Balance(d)'
    BY <1>1, <1>2, <1>3, <1>7, <2>2, BalanceKept DEF CountInv
  <2> QED
    BY <1>4, <1>5, <1>6, <2>3 DEF CountInv
<1>8. CASE Working(w)
  <2>1. job[w] \in Job /\ job[w] # None /\ job[w].id \in Deliveries
    BY <1>1, <1>8, JobType, NoJobAssumption
  <2>2. \A d \in Deliveries :
          excused'[d] = IF d = job[w].id /\ job[w].posted
                        THEN excused[d] + 1 ELSE excused[d]
    BY <1>1, <2>1 DEF TypeOK
  <2>3. \A d \in Deliveries : excused[d] \in Nat /\ row[d].attempts \in Nat
    BY <1>1 DEF TypeOK, Row
  <2>4. LET d == job[w].id
        IN  row'[d].attempts + excused'[d] =
              row[d].attempts + excused[d]
                + (IF job[w].posted THEN 1 ELSE 0)
    BY <1>1, <2>1, <2>2, <2>3
  <2>5. \A d \in Deliveries \ {job[w].id} :
               /\ row'[d].attempts = row[d].attempts
               /\ excused'[d] = excused[d]
    BY <1>1, <2>2
  <2>6. \A d \in Deliveries : Balance(d)'
    BY <1>1, <1>2, <1>3, <1>8, <2>4, <2>5, BalanceSettled DEF CountInv
  <2> QED
    BY <1>4, <1>5, <1>6, <2>6 DEF CountInv
<1> QED
  BY <1>7, <1>8

\* What a finalisation writes: one attempt more exactly when a receiver's
\* verdict is recorded, and a row that stays pending has attempts left.
LEMMA MarkedAttempts ==
    ASSUME NEW r \in Row, NEW j \in Job, r.attempts = j.attempts,
           r.status = "pending", r.attempts < MAX_ATTEMPTS
    PROVE  /\ Marked(r, j).attempts =
                r.attempts + (IF j.verdict \in {"success", "retry"}
                              THEN 1 ELSE 0)
           /\ Marked(r, j).attempts <= MAX_ATTEMPTS
           /\ Marked(r, j).status \in {"absent", "pending"}
                => Marked(r, j).attempts < MAX_ATTEMPTS
<1> DEFINE n == j.attempts + 1
<1>1. n \in Nat /\ BackoffAt(n) \in Nat /\ MAX_ATTEMPTS \in Nat
      /\ j.attempts \in Nat /\ n <= MAX_ATTEMPTS
  <2>1. j.attempts \in Nat /\ MAX_ATTEMPTS \in Nat
    BY DeliveryAssumption DEF Job
  <2>2. n \in Nat
    BY <2>1
  <2> QED
    BY <2>1, <2>2, BackoffType
<1>2. CASE j.verdict = "success"
  <2>1. Marked(r, j) = [r EXCEPT !.status = "succeeded", !.attempts = n]
    BY <1>2 DEF Marked
  <2>2. Marked(r, j).attempts = n /\ Marked(r, j).status = "succeeded"
    BY <2>1 DEF Row
  <2> QED
    BY <1>1, <1>2, <2>2
<1>3. CASE j.verdict = "retry" /\ n >= MAX_ATTEMPTS
  <2>1. Marked(r, j) = [r EXCEPT !.status = "dead_letter", !.attempts = n]
    <3>1. ~(n < MAX_ATTEMPTS) /\ j.verdict # "success"
      BY <1>1, <1>3
    <3> QED
      BY <1>3, <3>1, Zenon DEF Marked
  <2>2. Marked(r, j).attempts = n /\ Marked(r, j).status = "dead_letter"
    BY <2>1 DEF Row
  <2> QED
    BY <1>1, <1>3, <2>2
<1>4. CASE j.verdict = "retry" /\ n < MAX_ATTEMPTS
  <2> DEFINE q == Timestamp(r, BackoffAt(n))
  <2>1. Marked(r, j) = [q EXCEPT !.attempts = n]
    BY <1>1, <1>4 DEF Marked
  <2>2. q \in Row
    BY <1>1, TimestampType
  <2>3. Marked(r, j).attempts = n
    <3> HIDE DEF q, n
    <3> QED
      BY <2>1, <2>2 DEF Row
  <2> QED
    BY <1>1, <1>4, <2>3
<1>5. CASE j.verdict \notin {"success", "retry"}
  <2>1. Marked(r, j) = [r EXCEPT !.status = "dead_letter"]
    BY <1>5 DEF Marked
  <2>2. /\ Marked(r, j).attempts = r.attempts
        /\ Marked(r, j).status = "dead_letter"
    BY <2>1 DEF Row
  <2> QED
    BY <1>1, <1>5, <2>2
<1> QED
  BY <1>1, <1>2, <1>3, <1>4, <1>5

\* What a finalisation of w does to the books: a POST in hand is recorded
\* when the PATCH reaches the row, and excused when it does not.
LEMMA FinaliseCount ==
    ASSUME CountInv, LeaseInv', NEW w \in Workers, Working(w),
           \/ pc[w] = "mark" /\ Owns(w) /\ MarkRow(w)
           \/ MarkNothing(w)
           \/ /\ Owns(w)
              /\ row' = [row EXCEPT ![job[w].id].status = "dead_letter"]
              /\ excused' = [excused EXCEPT ![job[w].id] =
                                IF job[w].posted THEN @ + 1 ELSE @]
           \/ /\ UNCHANGED row
              /\ excused' = [excused EXCEPT ![job[w].id] =
                                IF job[w].posted THEN @ + 1 ELSE @]
    PROVE  /\ \A d \in Deliveries : AttemptMoves(d) /\ AttemptsLeft(d)'
           /\ \A d \in Deliveries \ {job[w].id} :
                 /\ row'[d].attempts = row[d].attempts
                 /\ excused'[d] = excused[d]
           /\ LET d == job[w].id
              IN  row'[d].attempts + excused'[d] =
                    row[d].attempts + excused[d]
                      + (IF job[w].posted THEN 1 ELSE 0)
<1>0. PICK e \in Deliveries : e = job[w].id
  BY JobType DEF CountInv, LeaseInv
<1>1. /\ TypeOK /\ TypeOK' /\ LeaseInv /\ e = job[w].id
      /\ job[w] \in Job /\ e \in Deliveries /\ row[e] \in Row
      /\ \A d \in Deliveries : AttemptsLeft(d)
      /\ \A d \in Deliveries : row[d] \in Row /\ row[d].attempts \in Nat
                               /\ excused[d] \in Nat
  BY <1>0, JobType DEF CountInv, LeaseInv, TypeOK, Row
<1>2. ASSUME NEW d \in Deliveries, row'[d] = row[d]
      PROVE  AttemptMoves(d) /\ AttemptsLeft(d)'
  BY <1>1, <1>2 DEF AttemptMoves, AttemptsLeft, Row, Statuses
<1>3. CASE pc[w] = "mark" /\ Owns(w) /\ MarkRow(w)
  <2>1. /\ row'[e] = Marked(row[e], job[w])
        /\ \A d \in Deliveries \ {e} : row'[d] = row[d]
        /\ excused' = excused
    BY <1>1, <1>3 DEF MarkRow, TypeOK
  <2>2. /\ row[e].status = "pending" /\ row[e].attempts = job[w].attempts
        /\ row[e].attempts < MAX_ATTEMPTS
    BY <1>1, <1>3 DEF Owns, CountInv, AttemptsKnown, AttemptsLeft
  <2>3. job[w].posted <=> job[w].verdict \in {"success", "retry"}
    BY <1>3 DEF CountInv, PostInHand
  <2>4. /\ row'[e].attempts = row[e].attempts
                                + (IF job[w].posted THEN 1 ELSE 0)
        /\ AttemptsLeft(e)'
    BY <1>1, <2>1, <2>2, <2>3, MarkedAttempts DEF AttemptsLeft
  <2>5. AttemptMoves(e)
    <3>1. row'[e].status = "pending" => row'[e].stamp = row[e].stamp + 1
      BY <1>1, <2>1, <2>2, MarkedType
    <3>2. row[e].stamp \in Nat
      BY <1>1 DEF Row
    <3> QED
      BY <3>1, <3>2 DEF AttemptMoves
  <2> QED
    BY <1>1, <1>2, <2>1, <2>4, <2>5
<1>4. ASSUME excused' = [excused EXCEPT ![e] =
                            IF job[w].posted THEN @ + 1 ELSE @],
             \A d \in Deliveries : row'[d].attempts = row[d].attempts
      PROVE  /\ \A d \in Deliveries \ {e} : excused'[d] = excused[d]
             /\ row'[e].attempts + excused'[e] = row[e].attempts + excused[e]
                      + (IF job[w].posted THEN 1 ELSE 0)
  <2>1. excused'[e] = IF job[w].posted THEN excused[e] + 1 ELSE excused[e]
    BY <1>1, <1>4 DEF TypeOK
  <2>2. \A d \in Deliveries \ {e} : excused'[d] = excused[d]
    BY <1>1, <1>4 DEF TypeOK
  <2> QED
    BY <1>1, <1>4, <2>1, <2>2
<1>5. CASE MarkNothing(w) \/ ( /\ UNCHANGED row
              /\ excused' = [excused EXCEPT ![job[w].id] =
                                IF job[w].posted THEN @ + 1 ELSE @])
  <2>1. /\ UNCHANGED row
        /\ excused' = [excused EXCEPT ![e] =
                          IF job[w].posted THEN @ + 1 ELSE @]
    BY <1>1, <1>5 DEF MarkNothing
  <2>2. \A d \in Deliveries : AttemptMoves(d) /\ AttemptsLeft(d)'
    BY <1>2, <2>1
  <2> QED
    BY <1>1, <1>4, <2>1, <2>2
<1>6. CASE /\ row' = [row EXCEPT ![job[w].id].status = "dead_letter"]
           /\ excused' = [excused EXCEPT ![job[w].id] =
                             IF job[w].posted THEN @ + 1 ELSE @]
  <2>1. /\ row'[e] = [row[e] EXCEPT !.status = "dead_letter"]
        /\ \A d \in Deliveries \ {e} : row'[d] = row[d]
    BY <1>1, <1>6 DEF TypeOK
  <2>2. row'[e].status = "dead_letter" /\ row'[e].attempts = row[e].attempts
    BY <1>1, <2>1 DEF Row
  <2>3. \A d \in Deliveries : row'[d].attempts = row[d].attempts
    BY <2>1, <2>2
  <2>4. AttemptMoves(e) /\ AttemptsLeft(e)'
    BY <1>1, <2>2 DEF AttemptMoves, AttemptsLeft
  <2>5. \A d \in Deliveries : AttemptMoves(d) /\ AttemptsLeft(d)'
    BY <1>2, <2>1, <2>4
  <2> QED
    BY <1>1, <1>4, <1>6, <2>3, <2>5
<1> QED
  BY <1>3, <1>5, <1>6

\* Finalising keeps the count.
LEMMA MarkCount ==
    ASSUME CountInv, LeaseInv', NEW w \in Workers,
           Mark(w) \/ MarkLost(w) \/ Abort(w)
    PROVE  CountInv'
<1>1. /\ Working(w) /\ UNCHANGED <<batch, posts>> /\ TypeOK /\ TypeOK'
      /\ LeaseInv /\ job[w] \in Job
  <2>1. /\ Working(w) /\ UNCHANGED <<batch, posts>> /\ TypeOK /\ TypeOK'
        /\ LeaseInv
    BY DEF Mark, MarkLost, Abort, Working, CountInv, LeaseInv
  <2> QED
    BY <2>1, JobType
<1>2. \/ Proceed(w, batch[w])
      \/ /\ pc' = [pc EXCEPT ![w] = "abort"]
         /\ job' = [job EXCEPT ![w].posted = FALSE, ![w].left = 0]
  BY DEF Mark, MarkLost, Abort
<1>3. \/ pc[w] = "mark" /\ Owns(w) /\ MarkRow(w)
      \/ MarkNothing(w)
      \/ /\ Owns(w)
         /\ row' = [row EXCEPT ![job[w].id].status = "dead_letter"]
         /\ excused' = [excused EXCEPT ![job[w].id] =
                           IF job[w].posted THEN @ + 1 ELSE @]
      \/ /\ UNCHANGED row
         /\ excused' = [excused EXCEPT ![job[w].id] =
                           IF job[w].posted THEN @ + 1 ELSE @]
  BY DEF Mark, MarkLost, Abort
<1>4. \A v \in Workers \ {w} : /\ pc'[v] = pc[v] /\ job'[v] = job[v]
                               /\ Working(v)' <=> Working(v)
  BY <1>1, <1>2 DEF Proceed, Working, TypeOK
<1>5. /\ ~(Working(w)' /\ job'[w].posted)
      /\ \/ pc'[w] \in {"idle", "claim"} /\ job'[w] = None
         \/ pc'[w] = "abort" /\ Working(w)'
      /\ Working(w)' => /\ job'[w].id = job[w].id
                        /\ job'[w].stamp = job[w].stamp
                        /\ job'[w].attempts = job[w].attempts
  <2>1. CASE Proceed(w, batch[w])
    BY <1>1, <2>1 DEF Proceed, Working, TypeOK
  <2>2. CASE /\ pc' = [pc EXCEPT ![w] = "abort"]
             /\ job' = [job EXCEPT ![w].posted = FALSE, ![w].left = 0]
    <3>1. job'[w] = [job[w] EXCEPT !.posted = FALSE, !.left = 0]
      BY <1>1, <2>2 DEF TypeOK
    <3>2. /\ ~job'[w].posted /\ job'[w].id = job[w].id
          /\ job'[w].stamp = job[w].stamp
          /\ job'[w].attempts = job[w].attempts
      BY <1>1, <3>1 DEF Job
    <3>3. pc'[w] = "abort" /\ Working(w)'
      BY <1>1, <2>2 DEF TypeOK, Working
    <3> QED
      BY <3>2, <3>3
  <2> QED
    BY <1>2, <2>1, <2>2
<1>6. /\ \A d \in Deliveries : AttemptMoves(d) /\ AttemptsLeft(d)'
      /\ \A d \in Deliveries \ {job[w].id} :
            /\ row'[d].attempts = row[d].attempts
            /\ excused'[d] = excused[d]
      /\ LET d == job[w].id
         IN  row'[d].attempts + excused'[d] =
               row[d].attempts + excused[d]
                 + (IF job[w].posted THEN 1 ELSE 0)
  BY <1>1, <1>3, FinaliseCount
<1>7. \A d \in Deliveries : Balance(d)'
  BY <1>1, <1>4, <1>5, <1>6, BalanceSettled DEF CountInv
<1>8. AttemptsKnown'
  BY <1>1, <1>4, <1>5, <1>6, AttemptsKept DEF CountInv, AttemptsKnown
<1>9. \A v \in Workers : PostInHand(v)'
  BY <1>4, <1>5 DEF CountInv, PostInHand, Working
<1> QED
  BY <1>6, <1>7, <1>8, <1>9 DEF CountInv

\* So does the passing of time.
LEMMA TickCount ==
    ASSUME CountInv, LeaseInv', Tick
    PROVE  CountInv'
<1>1. /\ UNCHANGED <<pc, batch, posts, excused>> /\ TypeOK /\ TypeOK'
      /\ LeaseInv
  BY DEF Tick, CountInv, LeaseInv
<1>2. ASSUME NEW d \in Deliveries
      PROVE  /\ row'[d].attempts = row[d].attempts
             /\ row'[d].status = row[d].status
             /\ AttemptMoves(d)
  <2>1. row[d] \in Row
    BY <1>1 DEF TypeOK
  <2>2. row'[d] = IF row[d].status = "pending"
                  THEN [row[d] EXCEPT !.wait = Less(@)] ELSE row[d]
    BY DEF Tick
  <2>3. /\ row'[d].attempts = row[d].attempts
        /\ row'[d].status = row[d].status
        /\ row'[d].stamp = row[d].stamp
    BY <2>1, <2>2 DEF Row
  <2> QED
    BY <2>3 DEF AttemptMoves
<1>3. \A v \in Workers : Working(v)' <=> Working(v)
  BY <1>1 DEF Working
<1>4. ASSUME NEW v \in Workers
      PROVE  /\ ~Working(v) => job'[v] = job[v]
             /\ Working(v) => /\ job'[v].id = job[v].id
                              /\ job'[v].stamp = job[v].stamp
                              /\ job'[v].attempts = job[v].attempts
                              /\ job'[v].posted = job[v].posted
                              /\ job'[v].verdict = job[v].verdict
  <2>1. Working(v) => job[v] \in Job
    BY <1>1, JobType
  <2>2. job'[v] = IF Working(v) THEN [job[v] EXCEPT !.left = Less(@)]
                  ELSE job[v]
    BY DEF Tick
  <2> QED
    BY <2>1, <2>2 DEF Job
<1>5. AttemptsKnown'
  BY <1>1, <1>2, <1>3, <1>4, AttemptsKept DEF CountInv, AttemptsKnown
<1>6. \A d \in Deliveries : Balance(d)' /\ AttemptsLeft(d)'
  BY <1>1, <1>2, <1>3, <1>4, BalanceKept DEF CountInv
<1>7. \A w \in Workers : PostInHand(w)'
  BY <1>1, <1>3, <1>4 DEF CountInv, PostInHand, Working
<1> QED
  BY <1>5, <1>6, <1>7 DEF CountInv

\* CountInv is inductive.
LEMMA CountInduction ==
    /\ Init => CountInv
    /\ CountInv /\ [Next]_dvars => CountInv'
<1>1. Init => CountInv
  <2> SUFFICES ASSUME Init
               PROVE  CountInv
    OBVIOUS
  <2>1. LeaseInv
    BY LeaseInduction
  <2>2. \A w \in Workers : ~Working(w) /\ batch[w] = {} /\ job[w] = None
                           /\ pc[w] = "idle"
    BY DEF Init, Working
  <2>3. \A d \in Deliveries : Posting(d) = {}
    BY <2>2 DEF Posting
  <2>4. \A d \in Deliveries : posts[d] = 0 /\ excused[d] = 0
                              /\ row[d].attempts = 0
    BY DEF Init
  <2>5. \A d \in Deliveries : Balance(d) /\ AttemptsLeft(d)
    <3>1. IsFiniteSet({}) /\ Cardinality({}) = 0
      BY FS_EmptySet
    <3>2. MAX_ATTEMPTS \in Nat /\ 0 < MAX_ATTEMPTS
      BY DeliveryAssumption
    <3> SUFFICES ASSUME NEW d \in Deliveries
                 PROVE  Balance(d) /\ AttemptsLeft(d)
      OBVIOUS
    <3>3. Balance(d)
      BY <2>3, <2>4, <3>1 DEF Balance
    <3>4. AttemptsLeft(d)
      BY <2>4, <3>2 DEF AttemptsLeft
    <3> QED
      BY <3>3, <3>4
  <2>6. AttemptsKnown /\ \A w \in Workers : PostInHand(w)
    BY <2>2 DEF AttemptsKnown, PostInHand
  <2> QED
    BY <2>1, <2>5, <2>6 DEF CountInv
<1>2. ASSUME CountInv, [Next]_dvars
      PROVE  CountInv'
  <2>1. LeaseInv'
    BY <1>2, LeaseInduction DEF CountInv
  <2>2. CASE UNCHANGED dvars
    BY <1>2, <2>1, <2>2
       DEF dvars, CountInv, Balance, AttemptsLeft, AttemptsKnown,
           PostInHand, Posting, Working, Claimable, Owns
  <2>3. CASE Next
    BY <1>2, <2>1, <2>3, DispatchCount, FetchCount, ClaimCount, LookupCount,
       PostCount, CrashCount, MarkCount, TickCount
       DEF Next, WorkerStep, WorkerFault
  <2> QED
    BY <1>2, <2>2, <2>3
<1> QED
  BY <1>1, <1>2

\* For any number of workers and faults, every POST of a delivery is counted
\* in attempt_count, is being made, or went unrecorded because of a crash, a
\* lost PATCH or a lost lease, and the count never passes MAX_ATTEMPTS: the
\* retries of _mark are bounded although several workers share a row.
THEOREM PostsAccountedFor == Spec => []PostsAccounted
<1>1. CountInv => PostsAccounted
  BY DEF CountInv, Balance, AttemptsLeft, PostsAccounted, Posting
<1> QED
  BY <1>1, CountInduction, PTL DEF Spec
=============================================================================
