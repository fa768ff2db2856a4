---------------------------- MODULE Server_proofs ----------------------------
(***************************************************************************)
(* Proofs about the parts of ServerParts: the import of an inventory, the  *)
(* cached answer, the push token of a device, and the form of the app with *)
(* its drafts.  Each part has its own inductive invariant.                 *)
(***************************************************************************)
EXTENDS ServerParts, Sequences, FiniteSetTheorems, TLAPS

\* The threads that have claimed work, and those that have a file.
Started == {"fetch", "look", "insert", "anonymous", "patch", "record"}
On(w, j) == worker[w].task = j /\ worker[w].pc \in Started
Clean(w) == ~worker[w].error /\ ~worker[w].bad

\* What a thread found has come in, and unless a request was refused all its
\* rows are by the time it is done with them.
RowsOf(w) ==
    /\ worker[w].pc \in {"insert", "anonymous", "patch"} => worker[w].known \subseteq Arrived
    /\ worker[w].pc \in {"anonymous", "patch", "record"} /\ Clean(w) =>
         worker[w].feed.ids \subseteq Arrived

RowsInv == \A w \in Workers : RowsOf(w)

\* A file is worked off by one thread, whose claim made it a running one, and its
\* rows without an id are inserted once.
FileOf(w, j) ==
    /\ worker[w].pc \in {"fetch", "look", "insert", "anonymous"} => anon[j] = 0
    /\ worker[w].pc \in {"look", "insert", "anonymous", "patch"} => worker[w].feed = File(j)
    /\ worker[w].pc = "record" /\ ~worker[w].error => worker[w].feed = File(j)
    /\ worker[w].pc \in {"patch", "record"} /\ Clean(w) =>
         anon[j] = IF File(j).anon THEN 1 ELSE 0

FileInv ==
    /\ \A j \in Jobs : job[j] = "queued" => anon[j] = 0
    /\ \A w \in Workers, j \in Jobs : On(w, j) =>
        /\ job[j] = "running"
        /\ \A v \in Workers : On(v, j) => v = w
        /\ FileOf(w, j)

\* What a poller has seen of the source is so for as long as its stamp is.
ClaimOf(w) ==
    OfSource(w) /\ worker[w].stamp = source.stamp =>
        /\ worker[w].pc = "claim" => worker[w].seen = source.status
        /\ worker[w].pc \in Started /\ source.status = "polling" /\ worker[w].seen = "failed" =>
             prior.status = "failed"

ClaimInv ==
    /\ source.status # "polling" => prior.status = source.status
    /\ \A w \in Workers :
        /\ w \notin Pollers =>
             worker[w].stamp = Never /\ (worker[w].pc = "idle" \/ ~OfSource(w))
        /\ worker[w].pc = "idle" => worker[w] = Idle
        /\ ClaimOf(w)

-----------------------------------------------------------------------------
(* Types *)

\* What happens to the threads when one goes on.
LEMMA GoFacts ==
    ASSUME TypeOK, NEW w \in Workers, NEW r, Go(w, r)
    PROVE  /\ worker'[w] = r /\ \A v \in Workers : v # w => worker'[v] = worker[v]
           /\ r \in Work => worker' \in [Workers -> Work]
BY DEF Go, TypeOK

\* What the files and the polls bring is of the type of a listing.
LEMMA FeedTypes ==
    /\ NoFeed \in Listings
    /\ \A f \in Feeds : f \in Listings
    /\ \A j \in Jobs : File(j) \in Listings
BY FeedsAssumption DEF NoFeed, Listings

\* A thread without work holds nothing.
LEMMA IdleType == Idle \in Work /\ Idle.pc = "idle" /\ Idle.stamp = Never /\ Idle.task = Source
BY FeedTypes DEF Idle, Work, Statuses

\* A fault is counted within the bound.
LEMMA FaultType ==
    ASSUME TypeOK, Fault
    PROVE  faults' \in 0 .. MaxFaults
BY NumbersAssumption DEF TypeOK, Fault

\* There is a stamp that neither the source nor a poller has.
LEMMA FreshType ==
    ASSUME TypeOK, ClaimInv
    PROVE  /\ FreshStamp \in Stamps /\ FreshStamp # Never /\ FreshStamp # source.stamp
           /\ \A w \in Workers : FreshStamp # worker[w].stamp
<1> DEFINE f == [w \in Pollers |-> worker[w].stamp]
           P == {f[w] : w \in Pollers}
           T == P \cup {source.stamp}
<1>1. IsFiniteSet(P) /\ Cardinality(P) <= Cardinality(Pollers)
  <2>1. f \in Surjection(Pollers, P)
    BY DEF Surjection
  <2> HIDE DEF P, f
  <2> QED
    BY <2>1, StampsAssumption, FS_Surjection
<1>2. IsFiniteSet(T) /\ Cardinality(T) <= Cardinality(Pollers) + 1
  <2> HIDE DEF P
  <2>1. Cardinality(P) \in Nat /\ Cardinality(Pollers) \in Nat
    BY <1>1, StampsAssumption, FS_CardinalityType
  <2>2. IsFiniteSet(T) /\ (Cardinality(T) = Cardinality(P) \/ Cardinality(T) = Cardinality(P) + 1)
    BY <1>1, FS_AddElement
  <2> QED
    BY <1>1, <2>1, <2>2
<1> HIDE DEF T
<1>3. ~ (Stamps \subseteq T)
  <2>1. SUFFICES ASSUME Stamps \subseteq T
                 PROVE  FALSE
    OBVIOUS
  <2>2. Cardinality(Stamps) <= Cardinality(T)
    BY <1>2, <2>1, FS_Subset
  <2>3. Cardinality(Stamps) \in Nat /\ Cardinality(T) \in Nat /\ Cardinality(Pollers) \in Nat
    BY <1>2, StampsAssumption, FS_CardinalityType
  <2> QED
    BY <1>2, <2>2, <2>3, StampsAssumption
<1>4. PICK s \in Stamps : s \notin T
  BY <1>3
<1>5. s # Never /\ s # source.stamp /\ \A w \in Workers : s # worker[w].stamp
  BY <1>4, NumbersAssumption DEF ClaimInv, T, Never
<1>6. \E t \in Stamps : t # source.stamp /\ \A w \in Workers : t # worker[w].stamp
  BY <1>5
<1>7. /\ FreshStamp \in Stamps /\ FreshStamp # source.stamp
      /\ \A w \in Workers : FreshStamp # worker[w].stamp
  BY <1>6 DEF FreshStamp
<1> QED
  BY <1>7, NumbersAssumption DEF Never

\* A thread that an exception ends keeps to its types.
LEMMA ThrownType ==
    ASSUME TypeOK, NEW w \in Workers, Thrown(w)
    PROVE  /\ worker' \in [Workers -> Work]
           /\ \A v \in Workers : v # w => worker'[v] = worker[v]
           /\ OfSource(w) => worker'[w] = Idle
           /\ ~OfSource(w) => worker'[w] = [worker[w] EXCEPT !.pc = "record", !.error = TRUE]
<1> DEFINE r == IF OfSource(w) THEN Idle ELSE [worker[w] EXCEPT !.pc = "record", !.error = TRUE]
<1>1. r \in Work
  BY IdleType DEF TypeOK, Work
<1>2. Go(w, r)
  BY DEF Thrown
<1> HIDE DEF r
<1>3. worker' \in [Workers -> Work] /\ worker'[w] = r /\ \A v \in Workers : v # w => worker'[v] = worker[v]
  BY <1>1, <1>2, GoFacts
<1> QED
  BY <1>3 DEF r

\* A step of a thread goes on from its own record only.
LEMMA StepTypes ==
    ASSUME TypeOK, ClaimInv, FileInv, NEW w \in Workers, Step(w) \/ Crash(w)
    PROVE  TypeOK'
<1>0. worker[w] \in Work /\ worker[w].task \in Jobs \cup {Source}
  BY DEF TypeOK, Work
<1>1. ASSUME NEW j \in Jobs, SeeJob(w, j)
      PROVE  TypeOK'
  <2>1. [Idle EXCEPT !.pc = "claim", !.task = j] \in Work
    BY IdleType DEF Work
  <2> QED
    BY <1>1, <2>1, GoFacts DEF SeeJob, TypeOK
<1>2. CASE SeeSource(w)
  <2>1. [Idle EXCEPT !.pc = "claim", !.seen = source.status, !.stamp = source.stamp] \in Work
    BY IdleType DEF Work, TypeOK
  <2> QED
    BY <1>2, <2>1, GoFacts DEF SeeSource, TypeOK
<1>3. CASE ClaimJob(w)
  <2>1. [worker[w] EXCEPT !.pc = "fetch"] \in Work
    BY <1>0 DEF Work
  <2>2. worker' \in [Workers -> Work]
    BY <1>3, <2>1, IdleType, GoFacts DEF ClaimJob
  <2>3. job' \in [Jobs -> {"queued", "running", "succeeded", "partial", "failed"}]
    BY <1>3 DEF ClaimJob, TypeOK
  <2>4. faults' \in 0 .. MaxFaults
    BY <1>3, FaultType DEF ClaimJob, TypeOK
  <2> QED
    BY <1>3, <2>2, <2>3, <2>4 DEF ClaimJob, TypeOK
<1>4. CASE ClaimSource(w)
  <2>1. [worker[w] EXCEPT !.pc = "fetch", !.stamp = FreshStamp] \in Work
    BY <1>0, FreshType DEF Work
  <2>2. worker' \in [Workers -> Work]
    BY <1>4, <2>1, IdleType, GoFacts DEF ClaimSource
  <2>3. source' \in [enabled : BOOLEAN, status : Statuses, stamp : Stamps \cup {Never}]
    BY <1>4, FreshType DEF ClaimSource, TypeOK, Statuses
  <2>4. faults' \in 0 .. MaxFaults /\ aged' \in BOOLEAN
    BY <1>4, FaultType DEF ClaimSource, TypeOK
  <2> QED
    BY <1>4, <2>2, <2>3, <2>4 DEF ClaimSource, TypeOK
<1>5. CASE Fetch(w)
  <2>1. faults' \in 0 .. MaxFaults
    BY <1>5, FaultType DEF Fetch, TypeOK
  <2>2. worker' \in [Workers -> Work]
    <3>1. ASSUME NEW f \in IF OfSource(w) THEN Feeds ELSE {File(worker[w].task)},
                 Go(w, [worker[w] EXCEPT !.pc = "look", !.feed = f, !.bad = f.invalid])
          PROVE  worker' \in [Workers -> Work]
      <4>1. f \in Listings
        BY <1>0, FeedTypes DEF OfSource
      <4>2. [worker[w] EXCEPT !.pc = "look", !.feed = f, !.bad = f.invalid] \in Work
        BY <1>0, <4>1 DEF Work, Listings
      <4> QED
        BY <3>1, <4>2, GoFacts
    <3>2. CASE Go(w, [worker[w] EXCEPT !.pc = "record", !.error = TRUE])
      <4>1. [worker[w] EXCEPT !.pc = "record", !.error = TRUE] \in Work
        BY <1>0 DEF Work
      <4> QED
        BY <3>2, <4>1, GoFacts
    <3> QED
      BY <1>5, <3>1, <3>2, ThrownType DEF Fetch
  <2> QED
    BY <1>5, <2>1, <2>2 DEF Fetch, TypeOK
<1>6. CASE Look(w)
  <2>1. faults' \in 0 .. MaxFaults
    BY <1>6, FaultType DEF Look, TypeOK
  <2>2. worker' \in [Workers -> Work]
    <3>1. ASSUME NEW known \in {worker[w].feed.ids \cap cars, {}},
                 Go(w, [worker[w] EXCEPT !.pc = "insert", !.known = known])
          PROVE  worker' \in [Workers -> Work]
      <4>1. known \in SUBSET Ids
        BY DEF TypeOK
      <4>2. [worker[w] EXCEPT !.pc = "insert", !.known = known] \in Work
        BY <1>0, <4>1 DEF Work
      <4> QED
        BY <3>1, <4>2, GoFacts
    <3> QED
      BY <1>6, <3>1, ThrownType DEF Look
  <2> QED
    BY <1>6, <2>1, <2>2 DEF Look, TypeOK
<1>7. CASE Insert(w)
  <2>1. faults' \in 0 .. MaxFaults
    BY <1>7, FaultType DEF Insert, TypeOK
  <2>2. cars' \subseteq Ids /\ removed' \subseteq Ids \ cars'
    BY <1>0, <1>7 DEF Insert, New, Work, Listings, TypeOK
  <2>3. worker' \in [Workers -> Work]
    <3>1. /\ [worker[w] EXCEPT !.pc = "anonymous"] \in Work
          /\ [worker[w] EXCEPT !.pc = "anonymous", !.good = TRUE] \in Work
          /\ Refused(w, "anonymous") \in Work
      BY <1>0 DEF Work, Refused
    <3> QED
      BY <1>7, <3>1, GoFacts, ThrownType DEF Insert
  <2> QED
    BY <1>7, <2>1, <2>2, <2>3 DEF Insert, TypeOK
<1>8. CASE InsertAnonymous(w)
  <2>1. faults' \in 0 .. MaxFaults
    BY <1>8, FaultType DEF InsertAnonymous, TypeOK
  <2>2. anon' \in [Jobs -> {0, 1}]
    <3>1. CASE OfSource(w)
      BY <1>8, <3>1 DEF InsertAnonymous, Counted, TypeOK
    <3>2. CASE ~OfSource(w)
      <4>1. worker[w].task \in Jobs /\ anon[worker[w].task] = 0
        BY <1>0, <1>8, <3>2 DEF OfSource, FileInv, FileOf, InsertAnonymous, At, On, Started
      <4> QED
        BY <1>8, <3>2, <4>1 DEF InsertAnonymous, Counted, TypeOK
    <3> QED
      BY <3>1, <3>2
  <2>3. worker' \in [Workers -> Work]
    <3>1. /\ [worker[w] EXCEPT !.pc = "patch"] \in Work
          /\ [worker[w] EXCEPT !.pc = "patch", !.good = TRUE] \in Work
          /\ Refused(w, "patch") \in Work
      BY <1>0 DEF Work, Refused
    <3> QED
      BY <1>8, <3>1, GoFacts, ThrownType DEF InsertAnonymous
  <2> QED
    BY <1>8, <2>1, <2>2, <2>3 DEF InsertAnonymous, TypeOK
<1>9. CASE Patch(w)
  <2>1. PICK patched \in SUBSET worker[w].known :
          Go(w, [worker[w] EXCEPT !.pc = "record", !.good = @ \/ patched # {},
                                  !.bad = @ \/ patched # worker[w].known])
    BY <1>9 DEF Patch
  <2>2. [worker[w] EXCEPT !.pc = "record", !.good = @ \/ patched # {},
                          !.bad = @ \/ patched # worker[w].known] \in Work
    <3> DEFINE g == worker[w].good \/ patched # {}
               b == worker[w].bad \/ patched # worker[w].known
    <3>1. g \in BOOLEAN /\ b \in BOOLEAN
      BY <1>0 DEF Work
    <3> HIDE DEF g, b
    <3>2. [worker[w] EXCEPT !.pc = "record", !.good = g, !.bad = b] \in Work
      BY <1>0, <3>1 DEF Work
    <3> QED
      BY <3>2 DEF g, b
  <2> QED
    BY <1>9, <2>1, <2>2, GoFacts DEF Patch, TypeOK
<1>10. CASE RecordJob(w)
  <2>1. JobStatus(w) \in {"queued", "running", "succeeded", "partial", "failed"}
    BY DEF JobStatus
  <2>2. faults' \in 0 .. MaxFaults
    BY <1>10, FaultType DEF RecordJob, TypeOK
  <2> QED
    BY <1>10, <2>1, <2>2, IdleType, GoFacts DEF RecordJob, TypeOK
<1>11. CASE RecordPoll(w)
  <2>1. PollStatus(w) \in Statuses
    BY DEF PollStatus, Statuses
  <2>2. faults' \in 0 .. MaxFaults /\ aged' \in BOOLEAN
    BY <1>11, FaultType DEF RecordPoll, TypeOK
  <2>3. source' \in [enabled : BOOLEAN, status : Statuses, stamp : Stamps \cup {Never}]
    <3> DEFINE e == source.enabled /\ ~Disables(w)
    <3>1. e \in BOOLEAN
      OBVIOUS
    <3> HIDE DEF e
    <3>2. [enabled |-> e, status |-> PollStatus(w), stamp |-> FreshStamp]
            \in [enabled : BOOLEAN, status : Statuses, stamp : Stamps \cup {Never}]
      BY <2>1, <3>1, FreshType
    <3>3. source' = source \/ source' = [enabled |-> e, status |-> PollStatus(w), stamp |-> FreshStamp]
      BY <1>11 DEF RecordPoll, e
    <3> QED
      BY <3>2, <3>3 DEF TypeOK
  <2>4. prior' \in [status : Statuses, ids : SUBSET Ids, usable : BOOLEAN]
    <3>1. Usable(worker[w].feed) \in BOOLEAN /\ worker[w].feed.ids \in SUBSET Ids
      BY <1>0 DEF Usable, Work, Listings
    <3> QED
      BY <1>11, <2>1, <3>1 DEF RecordPoll, TypeOK
  <2> QED
    BY <1>11, <2>2, <2>3, <2>4, IdleType, GoFacts DEF RecordPoll, TypeOK
<1>12. CASE Crash(w)
  BY <1>12, FaultType, IdleType, GoFacts DEF Crash, TypeOK
<1> QED
  BY <1>1, <1>2, <1>3, <1>4, <1>5, <1>6, <1>7, <1>8, <1>9, <1>10, <1>11, <1>12 DEF Step

\* Types are kept.  The claims are needed for what a poller restores.
LEMMA TypeStep ==
    ASSUME TypeOK, ClaimInv, FileInv, [Next]_vars
    PROVE  TypeOK'
<1>1. CASE Age
  BY <1>1 DEF Age, TypeOK
<1>2. CASE Toggle
  <2> DEFINE e == ~source.enabled
  <2>1. e \in BOOLEAN
    BY DEF TypeOK
  <2> HIDE DEF e
  <2>2. source' = [source EXCEPT !.enabled = e]
    BY <1>2 DEF Toggle, e
  <2>3. source' \in [enabled : BOOLEAN, status : Statuses, stamp : Stamps \cup {Never}]
    BY <2>1, <2>2 DEF TypeOK
  <2> QED
    BY <1>2, <2>3 DEF Toggle, TypeOK
<1>3. ASSUME NEW c \in Ids, Remove(c)
      PROVE  TypeOK'
  BY <1>3 DEF Remove, TypeOK
<1>4. CASE UNCHANGED vars
  BY <1>4 DEF vars, TypeOK
<1> QED
  BY <1>1, <1>2, <1>3, <1>4, StepTypes DEF Next

-----------------------------------------------------------------------------
(* Rows *)

\* What is not a thread's doing.
Outside == Age \/ Toggle \/ (\E c \in Ids : Remove(c)) \/ UNCHANGED vars

\* It changes no file, no thread and no record, and what has come in has.
LEMMA OutsideKeeps ==
    ASSUME TypeOK, Outside
    PROVE  /\ Arrived' = Arrived /\ UNCHANGED <<job, anon, worker, prior>>
           /\ source'.status = source.status /\ source'.stamp = source.stamp
<1>1. CASE Age \/ UNCHANGED vars
  BY <1>1 DEF Age, vars, Arrived
<1>2. CASE Toggle
  BY <1>2 DEF Toggle, Arrived, TypeOK
<1>3. ASSUME NEW c \in Ids, Remove(c)
      PROVE  /\ Arrived' = Arrived /\ UNCHANGED <<job, anon, worker, prior>>
             /\ source'.status = source.status /\ source'.stamp = source.stamp
  BY <1>3 DEF Remove, Arrived
<1> QED
  BY <1>1, <1>2, <1>3 DEF Outside

\* A step of a thread leaves the others' records alone, and what has come in has.
LEMMA OthersStay ==
    ASSUME TypeOK, NEW w \in Workers, Step(w) \/ Crash(w)
    PROVE  /\ \A v \in Workers : v # w => worker'[v] = worker[v]
           /\ Arrived \subseteq Arrived'
<1>1. ASSUME NEW r, Go(w, r)
      PROVE  \A v \in Workers : v # w => worker'[v] = worker[v]
  BY <1>1, GoFacts
<1>2. \E r : Go(w, r)
  BY DEF Step, Crash, SeeJob, SeeSource, ClaimJob, ClaimSource, Fetch, Look, Insert,
         InsertAnonymous, Patch, RecordJob, RecordPoll, Thrown
<1>3. Arrived \subseteq Arrived'
  <2>1. UNCHANGED <<cars, removed>> \/ (cars' = cars \cup New(w) /\ removed' = removed \ New(w))
    BY DEF Step, Crash, SeeJob, SeeSource, ClaimJob, ClaimSource, Fetch, Look, Insert,
           InsertAnonymous, Patch, RecordJob, RecordPoll
  <2> QED
    BY <2>1 DEF Arrived
<1> QED
  BY <1>1, <1>2, <1>3

\* Rows: by the exception, by a step of one thread, by any step.
LEMMA ThrownRows ==
    ASSUME TypeOK, NEW w \in Workers, Thrown(w)
    PROVE  RowsOf(w)'
<1>1. worker[w] \in Work
  BY DEF TypeOK
<1>2. CASE OfSource(w)
  BY <1>2, ThrownType, IdleType DEF RowsOf
<1>3. CASE ~OfSource(w)
  <2>1. worker'[w] = [worker[w] EXCEPT !.pc = "record", !.error = TRUE]
    BY <1>3, ThrownType
  <2>2. worker'[w].pc = "record" /\ worker'[w].error
    BY <1>1, <2>1 DEF Work
  <2> QED
    BY <2>2 DEF RowsOf, Clean
<1> QED
  BY <1>2, <1>3

LEMMA StepRows ==
    ASSUME TypeOK, RowsInv, NEW w \in Workers, Step(w) \/ Crash(w)
    PROVE  RowsOf(w)'
<1>0. worker[w] \in Work /\ RowsOf(w) /\ Arrived \subseteq Arrived'
  BY OthersStay DEF TypeOK, RowsInv
<1>1. ASSUME NEW r, Go(w, r)
      PROVE  worker'[w] = r
  BY <1>1, GoFacts
<1>2. CASE worker'[w].pc \in {"idle", "claim", "fetch", "look"}
  BY <1>2 DEF RowsOf
<1>3. ASSUME NEW j \in Jobs, SeeJob(w, j)
      PROVE  RowsOf(w)'
  BY <1>2, <1>3, <1>1, IdleType DEF SeeJob, Idle
<1>4. CASE SeeSource(w)
  BY <1>2, <1>4, <1>1 DEF SeeSource, Idle
<1>5. CASE ClaimJob(w) \/ ClaimSource(w)
  <2>1. worker'[w] = Idle \/ worker'[w].pc = "fetch"
    BY <1>0, <1>1, <1>5 DEF ClaimJob, ClaimSource, Work
  <2> QED
    BY <1>2, <2>1, IdleType
<1>6. CASE Fetch(w)
  <2>1. Thrown(w) \/ worker'[w].pc = "look" \/ (worker'[w].pc = "record" /\ worker'[w].error)
    BY <1>0, <1>1, <1>6 DEF Fetch, Work
  <2> QED
    BY <1>2, <2>1, ThrownRows DEF RowsOf, Clean
<1>7. CASE Look(w)
  <2>1. CASE Thrown(w)
    BY <2>1, ThrownRows
  <2>2. CASE \E known \in {worker[w].feed.ids \cap cars, {}} :
               Go(w, [worker[w] EXCEPT !.pc = "insert", !.known = known])
    <3>0. PICK known \in {worker[w].feed.ids \cap cars, {}} :
            Go(w, [worker[w] EXCEPT !.pc = "insert", !.known = known])
      BY <2>2
    <3> DEFINE r == [worker[w] EXCEPT !.pc = "insert", !.known = known]
    <3>a. worker'[w] = r
      BY <1>1, <3>0
    <3>b. r.pc = "insert" /\ r.known = known
      BY <1>0 DEF Work
    <3>1. worker'[w].pc = "insert" /\ worker'[w].known \subseteq cars
      <4> HIDE DEF r
      <4> QED
        BY <3>0, <3>a, <3>b
    <3>2. worker'[w].known \subseteq Arrived'
      BY <1>0, <3>1 DEF Arrived
    <3> QED
      BY <3>1, <3>2 DEF RowsOf
  <2> QED
    BY <1>7, <2>1, <2>2 DEF Look
<1>8. CASE Insert(w)
  <2>1. CASE Thrown(w)
    BY <2>1, ThrownRows
  <2>2. CASE New(w) = {} /\ Go(w, [worker[w] EXCEPT !.pc = "anonymous"])
    <3>1. worker[w].feed.ids \subseteq Arrived' /\ worker[w].known \subseteq Arrived'
      BY <1>0, <1>8, <2>2 DEF RowsOf, Insert, At, New
    <3>2. worker'[w] = [worker[w] EXCEPT !.pc = "anonymous"]
      BY <1>1, <2>2
    <3> QED
      BY <1>0, <3>1, <3>2 DEF RowsOf, Work
  <2>3. CASE cars' = cars \cup New(w) /\ Go(w, [worker[w] EXCEPT !.pc = "anonymous", !.good = TRUE])
    <3>1. worker[w].feed.ids \subseteq Arrived' /\ worker[w].known \subseteq Arrived'
      BY <1>0, <1>8, <2>3 DEF RowsOf, Insert, At, New, Arrived
    <3>2. worker'[w] = [worker[w] EXCEPT !.pc = "anonymous", !.good = TRUE]
      BY <1>1, <2>3
    <3> QED
      BY <1>0, <3>1, <3>2 DEF RowsOf, Work
  <2>4. CASE Go(w, Refused(w, "anonymous"))
    <3>1. worker[w].known \subseteq Arrived'
      BY <1>0, <1>8 DEF RowsOf, Insert, At
    <3>2. worker'[w] = [worker[w] EXCEPT !.pc = "anonymous", !.bad = TRUE]
      BY <1>1, <2>4 DEF Refused
    <3> QED
      BY <1>0, <3>1, <3>2 DEF RowsOf, Work, Clean
  <2> QED
    BY <1>8, <2>1, <2>2, <2>3, <2>4 DEF Insert
<1>9. CASE InsertAnonymous(w)
  <2>1. CASE Thrown(w)
    BY <2>1, ThrownRows
  <2>2. worker[w].known \subseteq Arrived' /\ (Clean(w) => worker[w].feed.ids \subseteq Arrived')
    BY <1>0, <1>9 DEF RowsOf, InsertAnonymous, At
  <2>3. CASE \/ Go(w, [worker[w] EXCEPT !.pc = "patch"])
             \/ Go(w, [worker[w] EXCEPT !.pc = "patch", !.good = TRUE])
    <3>1. \/ worker'[w] = [worker[w] EXCEPT !.pc = "patch"]
          \/ worker'[w] = [worker[w] EXCEPT !.pc = "patch", !.good = TRUE]
      BY <1>1, <2>3
    <3> QED
      BY <1>0, <2>2, <3>1 DEF RowsOf, Work, Clean
  <2>4. CASE Go(w, Refused(w, "patch"))
    <3>1. worker'[w] = [worker[w] EXCEPT !.pc = "patch", !.bad = TRUE]
      BY <1>1, <2>4 DEF Refused
    <3> QED
      BY <1>0, <2>2, <3>1 DEF RowsOf, Work, Clean
  <2> QED
    BY <1>9, <2>1, <2>3, <2>4 DEF InsertAnonymous
<1>10. CASE Patch(w)
  <2>1. PICK patched \in SUBSET worker[w].known :
          Go(w, [worker[w] EXCEPT !.pc = "record", !.good = @ \/ patched # {},
                                  !.bad = @ \/ patched # worker[w].known])
    BY <1>10 DEF Patch
  <2>2. /\ worker'[w].pc = "record" /\ worker'[w].feed = worker[w].feed
        /\ worker'[w].error = worker[w].error /\ (worker[w].bad => worker'[w].bad)
    BY <1>0, <1>1, <2>1 DEF Work
  <2>3. Clean(w) => worker[w].feed.ids \subseteq Arrived'
    BY <1>0, <1>10 DEF RowsOf, Patch, At
  <2> QED
    BY <2>2, <2>3 DEF RowsOf, Clean
<1>11. CASE RecordJob(w) \/ RecordPoll(w) \/ Crash(w)
  <2>1. worker'[w] = Idle
    BY <1>1, <1>11 DEF RecordJob, RecordPoll, Crash
  <2> QED
    BY <1>2, <2>1, IdleType
<1> QED
  BY <1>3, <1>4, <1>5, <1>6, <1>7, <1>8, <1>9, <1>10, <1>11 DEF Step

LEMMA RowsStep ==
    ASSUME TypeOK, RowsInv, [Next]_vars
    PROVE  RowsInv'
<1>1. CASE Outside
  BY <1>1, OutsideKeeps DEF RowsInv, RowsOf, Clean
<1>2. ASSUME NEW w \in Workers, Step(w) \/ Crash(w)
      PROVE  RowsInv'
  <2>1. ASSUME NEW v \in Workers, v # w
        PROVE  RowsOf(v)'
    BY <1>2, <2>1, OthersStay DEF RowsInv, RowsOf, Clean
  <2> QED
    BY <1>2, <2>1, StepRows DEF RowsInv, Workers
<1> QED
  BY <1>1, <1>2 DEF Next, Outside

\* A poll says ok only when its rows have come in.
LEMMA OkStep ==
    ASSUME TypeOK, RowsInv, OkComplete, [Next]_vars
    PROVE  OkComplete'
<1>1. CASE Outside
  BY <1>1, OutsideKeeps DEF OkComplete
<1>2. ASSUME NEW w \in Workers, Step(w) \/ Crash(w)
      PROVE  OkComplete'
  <2>1. Arrived \subseteq Arrived'
    BY <1>2, OthersStay
  <2>2. CASE source' = source /\ prior' = prior
    BY <2>1, <2>2 DEF OkComplete
  <2>3. CASE source'.status = "polling"
    BY <2>3 DEF OkComplete
  <2>4. CASE RecordPoll(w)
    <3>1. CASE /\ source'.status = PollStatus(w) /\ prior'.ids = worker[w].feed.ids
      <4>1. PollStatus(w) = "ok" => Clean(w)
        BY DEF PollStatus, Clean
      <4>2. Clean(w) => worker[w].feed.ids \subseteq Arrived
        BY <2>4 DEF RecordPoll, At, RowsInv, RowsOf
      <4> QED
        BY <2>1, <3>1, <4>1, <4>2 DEF OkComplete
    <3>2. CASE UNCHANGED <<source, prior>>
      BY <2>2, <3>2
    <3> QED
      BY <2>4, <3>1, <3>2 DEF RecordPoll
  <2>5. CASE ClaimSource(w)
    BY <2>2, <2>3, <2>5 DEF ClaimSource, TypeOK
  <2> QED
    BY <1>2, <2>2, <2>4, <2>5 DEF Step, Crash, SeeJob, SeeSource, ClaimJob, Fetch, Look, Insert,
         InsertAnonymous, Patch, RecordJob
<1> QED
  BY <1>1, <1>2 DEF Next, Outside

-----------------------------------------------------------------------------
(* Files *)

\* A thread that goes on with the file it had keeps it to itself, as long as no
\* file's status or count changes with it.
LEMMA FileFrame ==
    ASSUME FileInv, NEW w \in Workers,
           \A v \in Workers : v # w => worker'[v] = worker[v],
           job' = job, anon' = anon,
           \A j \in Jobs : On(w, j)' => On(w, j) /\ FileOf(w, j)'
    PROVE  FileInv'
<1>1. ASSUME NEW v \in Workers, NEW j \in Jobs
      PROVE  /\ On(v, j)' => On(v, j)
             /\ On(v, j)' => FileOf(v, j)'
  BY DEF FileInv, On, FileOf, Clean
<1> QED
  BY <1>1 DEF FileInv

\* Files: by the exception, by a step of one thread, by any step.
LEMMA ThrownFile ==
    ASSUME TypeOK, FileInv, NEW w \in Workers, Thrown(w), worker[w].pc \in Started,
           NEW j \in Jobs, On(w, j)'
    PROVE  On(w, j) /\ FileOf(w, j)'
<1>1. worker[w] \in Work
  BY DEF TypeOK
<1>2. ~OfSource(w)
  BY ThrownType, IdleType DEF On, Started
<1>3. worker'[w] = [worker[w] EXCEPT !.pc = "record", !.error = TRUE]
  BY <1>2, ThrownType
<1>4. worker'[w].pc = "record" /\ worker'[w].error /\ worker'[w].task = worker[w].task
  BY <1>1, <1>3 DEF Work
<1> QED
  BY <1>4 DEF On, FileOf, Clean

LEMMA StepFile ==
    ASSUME TypeOK, FileInv, NEW w \in Workers, Step(w) \/ Crash(w)
    PROVE  FileInv'
<1>0. worker[w] \in Work /\ \A v \in Workers : v # w => worker'[v] = worker[v]
  BY OthersStay DEF TypeOK
<1>1. ASSUME NEW r, Go(w, r)
      PROVE  worker'[w] = r
  BY <1>1, GoFacts
<1>2. ASSUME job' = job, anon' = anon, worker'[w].pc \in {"idle", "claim"}
      PROVE  FileInv'
  BY <1>0, <1>2, FileFrame DEF On, Started
<1>3. ASSUME NEW j \in Jobs, SeeJob(w, j)
      PROVE  FileInv'
  BY <1>2, <1>3, <1>1, IdleType DEF SeeJob, Idle
<1>4. CASE SeeSource(w)
  BY <1>2, <1>4, <1>1 DEF SeeSource, Idle
<1>5. CASE ClaimJob(w)
  <2> DEFINE t == worker[w].task
  <2>1. CASE job' = job
    <3>1. worker'[w] = Idle \/ (worker'[w] = [worker[w] EXCEPT !.pc = "fetch"] /\ JobFree(w))
      BY <1>1, <1>5 DEF ClaimJob
    <3>2. CASE worker'[w] = Idle
      BY <1>2, <1>5, <2>1, <3>2, IdleType DEF ClaimJob
    <3>3. CASE worker'[w] = [worker[w] EXCEPT !.pc = "fetch"] /\ JobFree(w)
      <4>1. t \in Jobs /\ job[t] = "queued"
        BY <1>0, <1>5, <3>3 DEF ClaimJob, OfSource, Work, JobFree
      <4>2. job'[t] = "running"
        BY <1>5, <3>3, <4>1, <1>1, <1>0, IdleType DEF ClaimJob, TypeOK, Work
      <4> QED
        BY <2>1, <4>1, <4>2
    <3> QED
      BY <3>1, <3>2, <3>3
  <2>2. CASE JobFree(w) /\ job' = [job EXCEPT ![t] = "running"]
    <3>1. t \in Jobs /\ job[t] = "queued" /\ anon[t] = 0 /\ anon' = anon
      BY <1>0, <1>5, <2>2 DEF ClaimJob, OfSource, Work, JobFree, FileInv
    <3>2. job'[t] = "running" /\ \A j \in Jobs : j # t => job'[j] = job[j]
      BY <2>2, <3>1 DEF TypeOK
    <3>3. worker'[w] = Idle \/ worker'[w] = [worker[w] EXCEPT !.pc = "fetch"]
      BY <1>1, <1>5 DEF ClaimJob
    <3>4. worker'[w].pc = "idle" \/ (worker'[w].pc = "fetch" /\ worker'[w].task = t)
      BY <1>0, <3>3, IdleType DEF Work
    <3>5. \A v \in Workers : ~On(v, t)
      BY <3>1 DEF FileInv
    <3>6. \A v \in Workers, j \in Jobs : v # w /\ On(v, j)' => On(v, j) /\ j # t /\ FileOf(v, j)'
      <4>1. ASSUME NEW v \in Workers, NEW j \in Jobs, v # w, On(v, j)'
            PROVE  On(v, j) /\ j # t /\ FileOf(v, j)'
        <5>1. On(v, j)
          BY <1>0, <4>1 DEF On
        <5>2. FileOf(v, j)
          BY <5>1 DEF FileInv
        <5> QED
          BY <1>0, <3>1, <3>5, <4>1, <5>1, <5>2 DEF FileOf, Clean
      <4> QED
        BY <4>1
    <3>7. \A j \in Jobs : On(w, j)' => j = t /\ FileOf(w, j)'
      BY <3>1, <3>4 DEF On, Started, FileOf
    <3>8. \A j \in Jobs : job'[j] = "queued" => anon'[j] = 0
      BY <3>1, <3>2 DEF FileInv
    <3> HIDE DEF t
    <3>9. ASSUME NEW v \in Workers, NEW j \in Jobs, On(v, j)'
          PROVE  job'[j] = "running" /\ FileOf(v, j)' /\ \A u \in Workers : On(u, j)' => u = v
      <4>1. CASE v = w
        BY <3>2, <3>6, <3>7, <3>9, <4>1
      <4>2. CASE v # w
        <5>1. On(v, j) /\ j # t /\ FileOf(v, j)'
          BY <3>6, <3>9, <4>2
        <5>2. job'[j] = "running"
          BY <3>2, <5>1 DEF FileInv
        <5>3. ASSUME NEW u \in Workers, On(u, j)'
              PROVE  u = v
          BY <3>6, <3>7, <5>1, <5>3 DEF FileInv
        <5> QED
          BY <5>1, <5>2, <5>3
      <4> QED
        BY <4>1, <4>2
    <3> QED
      BY <3>8, <3>9 DEF FileInv
  <2> QED
    BY <1>5, <2>1, <2>2 DEF ClaimJob
<1>6. CASE ClaimSource(w)
  <2>1. worker'[w].task = worker[w].task \/ worker'[w].pc = "idle"
    BY <1>0, <1>1, <1>6, IdleType DEF ClaimSource, Work
  <2>2. \A j \in Jobs : ~On(w, j)'
    BY <1>6, <2>1, SourceAssumption DEF ClaimSource, OfSource, On, Started
  <2> QED
    BY <1>0, <1>6, <2>2, FileFrame DEF ClaimSource
<1>7. CASE Fetch(w)
  <2>1. worker[w].pc \in Started /\ job' = job /\ anon' = anon
    BY <1>7 DEF Fetch, At, Started
  <2>2. ASSUME NEW j \in Jobs, On(w, j)'
        PROVE  On(w, j) /\ FileOf(w, j)'
    <3>1. CASE Thrown(w)
      BY <2>1, <2>2, <3>1, ThrownFile
    <3>2. CASE Go(w, [worker[w] EXCEPT !.pc = "record", !.error = TRUE])
      <4>1. worker'[w].pc = "record" /\ worker'[w].error /\ worker'[w].task = worker[w].task
        BY <1>0, <1>1, <3>2 DEF Work
      <4> QED
        BY <2>1, <2>2, <4>1 DEF On, FileOf, Clean
    <3>3. ASSUME NEW f \in IF OfSource(w) THEN Feeds ELSE {File(worker[w].task)},
                 Go(w, [worker[w] EXCEPT !.pc = "look", !.feed = f, !.bad = f.invalid])
          PROVE  On(w, j) /\ FileOf(w, j)'
      <4>1. worker'[w] = [worker[w] EXCEPT !.pc = "look", !.feed = f, !.bad = f.invalid]
        BY <1>1, <3>3
      <4>2. /\ worker'[w].pc = "look" /\ worker'[w].task = worker[w].task
            /\ worker'[w].feed = f
        BY <1>0, <4>1 DEF Work
      <4>3. On(w, j) /\ worker[w].pc = "fetch"
        BY <1>7, <2>1, <2>2, <4>2 DEF On, Fetch, At
      <4>4. f = File(j) /\ anon[j] = 0
        BY <4>3, <3>3, SourceAssumption DEF On, OfSource, FileInv, FileOf
      <4> QED
        BY <2>1, <4>2, <4>3, <4>4 DEF FileOf
    <3> QED
      BY <1>7, <3>1, <3>2, <3>3 DEF Fetch
  <2> QED
    BY <1>0, <2>1, <2>2, FileFrame
<1>8. CASE Look(w)
  <2>1. worker[w].pc = "look" /\ job' = job /\ anon' = anon
    BY <1>8 DEF Look, At
  <2>2. ASSUME NEW j \in Jobs, On(w, j)'
        PROVE  On(w, j) /\ FileOf(w, j)'
    <3>1. CASE Thrown(w)
      BY <2>1, <2>2, <3>1, ThrownFile DEF Started
    <3>2. ASSUME NEW known, Go(w, [worker[w] EXCEPT !.pc = "insert", !.known = known])
          PROVE  On(w, j) /\ FileOf(w, j)'
      <4>1. worker'[w] = [worker[w] EXCEPT !.pc = "insert", !.known = known]
        BY <1>1, <3>2
      <4>2. /\ worker'[w].pc = "insert" /\ worker'[w].task = worker[w].task
            /\ worker'[w].feed = worker[w].feed
        BY <1>0, <4>1 DEF Work
      <4>3. On(w, j)
        BY <2>1, <2>2, <4>2 DEF On, Started
      <4> QED
        BY <2>1, <4>2, <4>3 DEF FileInv, FileOf
    <3> QED
      BY <1>8, <3>1, <3>2 DEF Look
  <2> QED
    BY <1>0, <2>1, <2>2, FileFrame
<1>9. CASE Insert(w)
  <2>1. worker[w].pc = "insert" /\ job' = job /\ anon' = anon
    BY <1>9 DEF Insert, At
  <2>2. ASSUME NEW j \in Jobs, On(w, j)'
        PROVE  On(w, j) /\ FileOf(w, j)'
    <3>1. CASE Thrown(w)
      BY <2>1, <2>2, <3>1, ThrownFile DEF Started
    <3>2. CASE \/ Go(w, [worker[w] EXCEPT !.pc = "anonymous"])
               \/ Go(w, [worker[w] EXCEPT !.pc = "anonymous", !.good = TRUE])
               \/ Go(w, Refused(w, "anonymous"))
      <4>1. \/ worker'[w] = [worker[w] EXCEPT !.pc = "anonymous"]
            \/ worker'[w] = [worker[w] EXCEPT !.pc = "anonymous", !.good = TRUE]
            \/ worker'[w] = [worker[w] EXCEPT !.pc = "anonymous", !.bad = TRUE]
        BY <1>1, <3>2 DEF Refused
      <4>2. /\ worker'[w].pc = "anonymous" /\ worker'[w].task = worker[w].task
            /\ worker'[w].feed = worker[w].feed
        BY <1>0, <4>1 DEF Work
      <4>3. On(w, j)
        BY <2>1, <2>2, <4>2 DEF On, Started
      <4> QED
        BY <2>1, <4>2, <4>3 DEF FileInv, FileOf
    <3> QED
      BY <1>9, <3>1, <3>2 DEF Insert
  <2> QED
    BY <1>0, <2>1, <2>2, FileFrame
<1>10. CASE InsertAnonymous(w)
  <2>0. PICK t : t = worker[w].task
    OBVIOUS
  <2>1. worker[w].pc = "anonymous" /\ job' = job
    BY <1>10 DEF InsertAnonymous, At
  <2>2. \/ Thrown(w)
        \/ /\ worker'[w].pc = "patch" /\ worker'[w].task = t
           /\ worker'[w].feed = worker[w].feed /\ worker'[w].error = worker[w].error
    <3>1. \/ Thrown(w)
          \/ worker'[w] = [worker[w] EXCEPT !.pc = "patch"]
          \/ worker'[w] = [worker[w] EXCEPT !.pc = "patch", !.good = TRUE]
          \/ worker'[w] = [worker[w] EXCEPT !.pc = "patch", !.bad = TRUE]
      BY <1>1, <1>10 DEF InsertAnonymous, Refused
    <3> QED
      BY <1>0, <2>0, <3>1 DEF Work
  <2>3. CASE OfSource(w)
    <3>1. anon' = anon
      BY <1>10, <2>3 DEF InsertAnonymous, Counted
    <3>2. \A j \in Jobs : ~On(w, j)'
      BY <2>0, <2>2, <2>3, ThrownType, IdleType, SourceAssumption DEF On, OfSource
    <3> QED
      BY <1>0, <2>1, <3>1, <3>2, FileFrame
  <2>4. CASE ~OfSource(w)
    <3>1. t \in Jobs /\ On(w, t) /\ worker'[w].task = t
      BY <1>0, <2>0, <2>1, <2>2, <2>4, ThrownType DEF OfSource, On, Started, Work
    <3>2. /\ anon[t] = 0 /\ worker[w].feed = File(t) /\ job[t] = "running"
          /\ \A v \in Workers : On(v, t) => v = w
      BY <2>1, <3>1 DEF FileInv, FileOf
    <3>3. \A j \in Jobs : j # t => anon'[j] = anon[j]
      BY <1>10, <2>0, <2>4, <3>1 DEF InsertAnonymous, Counted, TypeOK
    <3>4. ASSUME On(w, t)'
          PROVE  FileOf(w, t)'
      <4>1. CASE Thrown(w)
        <5>1. worker'[w] = [worker[w] EXCEPT !.pc = "record", !.error = TRUE]
          BY <2>4, <4>1, ThrownType
        <5>2. worker'[w].pc = "record" /\ worker'[w].error
          BY <1>0, <5>1 DEF Work
        <5> QED
          BY <5>2 DEF FileOf, Clean
      <4>2. CASE ~worker[w].feed.anon /\ anon' = anon /\ worker'[w].pc = "patch"
                   /\ worker'[w].feed = worker[w].feed
        BY <3>2, <4>2 DEF FileOf
      <4>3. CASE worker[w].feed.anon /\ Counted(w) /\ worker'[w].pc = "patch"
                   /\ worker'[w].feed = worker[w].feed
        <5>1. anon'[t] = 1
          BY <2>0, <2>4, <3>1, <3>2, <4>3 DEF Counted, TypeOK
        <5> QED
          BY <3>2, <4>3, <5>1 DEF FileOf
      <4>4. CASE Go(w, Refused(w, "patch"))
        <5>1. worker'[w] = [worker[w] EXCEPT !.pc = "patch", !.bad = TRUE]
          BY <1>1, <4>4 DEF Refused
        <5>2. worker'[w].pc = "patch" /\ worker'[w].bad /\ worker'[w].feed = worker[w].feed
          BY <1>0, <5>1 DEF Work
        <5> QED
          BY <3>2, <5>2 DEF FileOf, Clean
      <4> QED
        BY <1>10, <2>2, <4>1, <4>2, <4>3, <4>4 DEF InsertAnonymous
    <3>5. \A v \in Workers, j \in Jobs : On(v, j)' => On(v, j) /\ FileOf(v, j)'
      <4>1. ASSUME NEW v \in Workers, NEW j \in Jobs, On(v, j)', v = w
            PROVE  On(v, j) /\ FileOf(v, j)'
        BY <3>1, <3>4, <4>1 DEF On
      <4>2. ASSUME NEW v \in Workers, NEW j \in Jobs, On(v, j)', v # w
            PROVE  On(v, j) /\ FileOf(v, j)'
        <5>1. On(v, j)
          BY <1>0, <4>2 DEF On
        <5>2. j # t
          BY <3>2, <4>2, <5>1
        <5>3. FileOf(v, j) /\ anon'[j] = anon[j]
          BY <3>3, <5>1, <5>2 DEF FileInv
        <5> QED
          BY <1>0, <4>2, <5>1, <5>3 DEF FileOf, Clean
      <4> QED
        BY <4>1, <4>2
    <3>6. \A j \in Jobs : job'[j] = "queued" => anon'[j] = 0
      BY <2>1, <3>2, <3>3 DEF FileInv
    <3> QED
      BY <2>1, <3>5, <3>6 DEF FileInv
  <2> QED
    BY <2>3, <2>4
<1>11. CASE Patch(w)
  <2>1. worker[w].pc = "patch" /\ job' = job /\ anon' = anon
    BY <1>11 DEF Patch, At
  <2>2. PICK patched \in SUBSET worker[w].known :
          Go(w, [worker[w] EXCEPT !.pc = "record", !.good = @ \/ patched # {},
                                  !.bad = @ \/ patched # worker[w].known])
    BY <1>11 DEF Patch
  <2>3. /\ worker'[w].pc = "record" /\ worker'[w].task = worker[w].task
        /\ worker'[w].feed = worker[w].feed
        /\ worker'[w].error = worker[w].error /\ (worker[w].bad => worker'[w].bad)
    BY <1>0, <1>1, <2>2 DEF Work
  <2>4. ASSUME NEW j \in Jobs, On(w, j)'
        PROVE  On(w, j) /\ FileOf(w, j)'
    <3>1. On(w, j)
      BY <2>1, <2>3, <2>4 DEF On, Started
    <3>2. worker[w].feed = File(j) /\ (Clean(w) => anon[j] = IF File(j).anon THEN 1 ELSE 0)
      BY <2>1, <3>1 DEF FileInv, FileOf
    <3> QED
      BY <2>1, <2>3, <3>1, <3>2 DEF FileOf, Clean
  <2> QED
    BY <1>0, <2>1, <2>4, FileFrame
<1>12. CASE RecordJob(w)
  <2> DEFINE t == worker[w].task
  <2>1. /\ worker'[w].pc = "idle" /\ anon' = anon /\ t \in Jobs /\ On(w, t)
        /\ \A j \in Jobs : j # t => job'[j] = job[j]
    BY <1>0, <1>1, <1>12, IdleType DEF RecordJob, OfSource, At, On, Started, Work, TypeOK
  <2>2. job'[t] # "queued"
    <3>1. job[t] = "running"
      BY <2>1 DEF FileInv
    <3>2. JobStatus(w) # "queued"
      BY DEF JobStatus
    <3> QED
      BY <1>12, <2>1, <3>1, <3>2 DEF RecordJob, TypeOK
  <2>3. ASSUME NEW v \in Workers, NEW j \in Jobs, On(v, j)'
        PROVE  /\ v # w /\ j # t /\ On(v, j) /\ job'[j] = "running" /\ FileOf(v, j)'
               /\ \A u \in Workers : On(u, j)' => u = v
    <3>1. v # w /\ On(v, j)
      BY <1>0, <2>1, <2>3 DEF On, Started
    <3>2. j # t
      BY <2>1, <3>1 DEF FileInv
    <3>3. FileOf(v, j) /\ job[j] = "running" /\ \A u \in Workers : On(u, j) => u = v
      BY <3>1 DEF FileInv
    <3>4. \A u \in Workers : On(u, j)' => On(u, j)
      BY <1>0, <2>1 DEF On, Started
    <3> QED
      BY <1>0, <2>1, <3>1, <3>2, <3>3, <3>4 DEF FileOf, Clean
  <2>4. \A j \in Jobs : job'[j] = "queued" => anon'[j] = 0
    BY <2>1, <2>2 DEF FileInv
  <2> QED
    BY <2>3, <2>4 DEF FileInv
<1>13. CASE RecordPoll(w) \/ Crash(w)
  <2>1. worker'[w] = Idle /\ job' = job /\ anon' = anon
    BY <1>1, <1>13 DEF RecordPoll, Crash
  <2> QED
    BY <1>2, <2>1, IdleType
<1> QED
  BY <1>3, <1>4, <1>5, <1>6, <1>7, <1>8, <1>9, <1>10, <1>11, <1>12, <1>13 DEF Step

LEMMA FileStep ==
    ASSUME TypeOK, FileInv, [Next]_vars
    PROVE  FileInv'
<1>1. CASE Outside
  BY <1>1, OutsideKeeps DEF FileInv, FileOf, On, Clean
<1> QED
  BY <1>1, StepFile DEF Next, Outside

\* A file done with is nobody's, so nothing is inserted for it any more.
LEMMA SucceededStep ==
    ASSUME TypeOK, RowsInv, FileInv, SucceededComplete, [Next]_vars
    PROVE  SucceededComplete'
<1>1. CASE Outside
  BY <1>1, OutsideKeeps DEF SucceededComplete
<1>2. ASSUME NEW w \in Workers, Step(w) \/ Crash(w), NEW j \in Jobs, job'[j] = "succeeded"
      PROVE  File(j).ids \subseteq Arrived' /\ anon'[j] = IF File(j).anon THEN 1 ELSE 0
  <2>1. worker[w] \in Work /\ Arrived \subseteq Arrived'
    BY <1>2, OthersStay DEF TypeOK
  <2>2. CASE job[j] = "succeeded" /\ anon'[j] = anon[j]
    BY <2>1, <2>2 DEF SucceededComplete
  <2>3. CASE InsertAnonymous(w)
    <3>1. On(w, j) => job[j] = "running"
      BY DEF FileInv
    <3>2. job' = job
      BY <2>3 DEF InsertAnonymous
    <3>3. ~OfSource(w) => worker[w].task # j
      BY <1>2, <2>3, <3>1, <3>2 DEF InsertAnonymous, At, On, Started
    <3>4. anon'[j] = anon[j]
      BY <2>1, <2>3, <3>3 DEF InsertAnonymous, Counted, TypeOK, Work, OfSource
    <3> QED
      BY <1>2, <2>2, <3>2, <3>4
  <2>4. CASE RecordJob(w)
    <3>1. CASE j = worker[w].task /\ job'[j] = JobStatus(w)
      <4>1. On(w, j) /\ worker[w].pc = "record" /\ anon' = anon
        BY <2>4, <3>1 DEF RecordJob, At, On, Started
      <4>2. Clean(w)
        BY <1>2, <3>1 DEF JobStatus, Clean
      <4>3. worker[w].feed = File(j) /\ anon[j] = IF File(j).anon THEN 1 ELSE 0
        BY <4>1, <4>2 DEF FileInv, FileOf, Clean
      <4>4. worker[w].feed.ids \subseteq Arrived
        BY <4>1, <4>2 DEF RowsInv, RowsOf
      <4> QED
        BY <2>1, <4>1, <4>3, <4>4
    <3>2. CASE job'[j] = job[j]
      BY <1>2, <2>2, <2>4, <3>2 DEF RecordJob
    <3> QED
      BY <2>1, <2>4, <3>1, <3>2 DEF RecordJob, TypeOK
  <2>5. CASE ClaimJob(w)
    BY <1>2, <2>2, <2>5 DEF ClaimJob, TypeOK
  <2> QED
    BY <1>2, <2>2, <2>3, <2>4, <2>5 DEF Step, Crash, SeeJob, SeeSource, ClaimSource, Fetch, Look,
         Insert, Patch, RecordPoll
<1> QED
  BY <1>1, <1>2 DEF Next, Outside, SucceededComplete

-----------------------------------------------------------------------------
(* The source *)

\* A poll that is over has no stamp, and the others keep theirs.
LEMMA ClaimFrame ==
    ASSUME TypeOK, ClaimInv, NEW w \in Workers,
           \A v \in Workers : v # w => worker'[v] = worker[v],
           worker'[w] = Idle, source' = source, prior' = prior
    PROVE  ClaimInv'
<1>1. ClaimOf(w)'
  BY IdleType DEF ClaimOf, Started
<1>2. \A v \in Workers : v # w => ClaimOf(v)'
  BY DEF ClaimInv, ClaimOf, OfSource
<1> QED
  BY <1>1, <1>2, IdleType DEF ClaimInv, OfSource

\* Where the source stays as it was, and a thread keeps its stamp, what it has
\* seen remains so.
LEMMA SameFrame ==
    ASSUME TypeOK, ClaimInv, NEW w \in Workers,
           \A v \in Workers : v # w => worker'[v] = worker[v],
           source' = source, prior' = prior,
           worker'[w].stamp = worker[w].stamp, worker'[w].pc \in Started,
           worker[w].pc \in Started \/ ~OfSource(w), worker'[w].task = worker[w].task,
           worker'[w].seen = worker[w].seen
    PROVE  ClaimInv'
<1>1. ClaimOf(w)'
  BY DEF ClaimInv, ClaimOf, OfSource, Started
<1>2. \A v \in Workers : v # w => ClaimOf(v)'
  BY DEF ClaimInv, ClaimOf, OfSource
<1> QED
  BY <1>1, <1>2 DEF ClaimInv, OfSource, Started

\* Claims: by the exception, by a step of one thread, by any step.
LEMMA ThrownClaim ==
    ASSUME TypeOK, ClaimInv, NEW w \in Workers, Thrown(w), worker[w].pc \in Started,
           source' = source, prior' = prior
    PROVE  ClaimInv'
<1>1. CASE OfSource(w)
  BY <1>1, ThrownType, ClaimFrame
<1>2. CASE ~OfSource(w)
  <2>1. worker'[w] = [worker[w] EXCEPT !.pc = "record", !.error = TRUE] /\ worker[w] \in Work
    BY <1>2, ThrownType DEF TypeOK
  <2>2. /\ worker'[w].pc \in Started /\ worker'[w].task = worker[w].task
        /\ worker'[w].stamp = worker[w].stamp /\ worker'[w].seen = worker[w].seen
    BY <2>1 DEF Work, Started
  <2> QED
    BY <1>2, <2>2, ThrownType, SameFrame
<1> QED
  BY <1>1, <1>2

LEMMA StepClaim ==
    ASSUME TypeOK, ClaimInv, NEW w \in Workers, Step(w) \/ Crash(w)
    PROVE  ClaimInv'
<1>0. worker[w] \in Work /\ \A v \in Workers : v # w => worker'[v] = worker[v]
  BY OthersStay DEF TypeOK
<1>1. ASSUME NEW r, Go(w, r)
      PROVE  worker'[w] = r
  BY <1>1, GoFacts
<1>2. ASSUME worker'[w] = Idle, source' = source, prior' = prior
      PROVE  ClaimInv'
  BY <1>0, <1>2, ClaimFrame
<1>3. ASSUME source' = source, prior' = prior, worker[w].pc \in Started \/ ~OfSource(w),
             worker'[w].pc \in Started, worker'[w].task = worker[w].task,
             worker'[w].stamp = worker[w].stamp, worker'[w].seen = worker[w].seen
      PROVE  ClaimInv'
  BY <1>0, <1>3, SameFrame
<1>4. ASSUME NEW j \in Jobs, SeeJob(w, j)
      PROVE  ClaimInv'
  <2>1. worker'[w] = [Idle EXCEPT !.pc = "claim", !.task = j] /\ source' = source /\ prior' = prior
    BY <1>1, <1>4 DEF SeeJob
  <2>2. /\ worker'[w].pc = "claim" /\ worker'[w].task = j
        /\ worker'[w].stamp = Never
    BY <2>1, IdleType DEF Work
  <2>3. ClaimOf(w)'
    BY <2>2, SourceAssumption DEF ClaimOf, OfSource
  <2>4. \A v \in Workers : v # w => ClaimOf(v)'
    BY <1>0, <2>1 DEF ClaimInv, ClaimOf, OfSource
  <2> QED
    BY <1>0, <2>1, <2>2, <2>3, <2>4, SourceAssumption DEF ClaimInv, OfSource, Started
<1>5. CASE SeeSource(w)
  <2>1. /\ worker'[w] = [Idle EXCEPT !.pc = "claim", !.seen = source.status, !.stamp = source.stamp]
        /\ source' = source /\ prior' = prior /\ w \in Pollers
    BY <1>1, <1>5 DEF SeeSource
  <2>2. worker'[w].pc = "claim" /\ worker'[w].seen = source.status
    BY <2>1, IdleType DEF Work
  <2>3. ClaimOf(w)'
    BY <2>1, <2>2 DEF ClaimOf, Started
  <2>4. \A v \in Workers : v # w => ClaimOf(v)'
    BY <1>0, <2>1 DEF ClaimInv, ClaimOf, OfSource
  <2> QED
    BY <1>0, <2>1, <2>2, <2>3, <2>4 DEF ClaimInv, OfSource
<1>6. CASE ClaimJob(w)
  <2>1. /\ worker'[w] = Idle \/ worker'[w] = [worker[w] EXCEPT !.pc = "fetch"]
        /\ source' = source /\ prior' = prior /\ ~OfSource(w)
    BY <1>1, <1>6 DEF ClaimJob
  <2>2. CASE worker'[w] = [worker[w] EXCEPT !.pc = "fetch"]
    BY <1>0, <1>3, <2>1, <2>2 DEF Work, Started
  <2> QED
    BY <1>2, <2>1, <2>2
<1>7. CASE ClaimSource(w)
  <2>1. \/ worker'[w] = Idle /\ source' = source /\ prior' = prior
        \/ /\ source' = [source EXCEPT !.status = "polling", !.stamp = FreshStamp]
           /\ prior' = prior /\ SourceFree(w)
           /\ \/ worker'[w] = [worker[w] EXCEPT !.pc = "fetch", !.stamp = FreshStamp]
              \/ worker'[w] = Idle
    BY <1>1, <1>7 DEF ClaimSource
  <2>2. CASE /\ source' = [source EXCEPT !.status = "polling", !.stamp = FreshStamp]
             /\ prior' = prior /\ SourceFree(w)
             /\ \/ worker'[w] = [worker[w] EXCEPT !.pc = "fetch", !.stamp = FreshStamp]
                \/ worker'[w] = Idle
    <3>1. source'.status = "polling" /\ source'.stamp = FreshStamp
      BY <2>2 DEF TypeOK
    <3>2. \A v \in Workers : v # w => ClaimOf(v)'
      BY <1>0, <3>1, FreshType DEF ClaimOf
    <3>3. worker[w].seen = source.status
      BY <1>7, <2>2 DEF ClaimSource, At, SourceFree, ClaimInv, ClaimOf
    <3>4. worker[w].seen = "failed" => prior.status = "failed"
      BY <3>3 DEF ClaimInv
    <3>5. ClaimOf(w)'
      <4>1. CASE worker'[w] = [worker[w] EXCEPT !.pc = "fetch", !.stamp = FreshStamp]
        BY <1>0, <2>2, <3>4, <4>1 DEF ClaimOf, Work
      <4>2. CASE worker'[w] = Idle
        BY <4>2, IdleType DEF ClaimOf, Started
      <4> QED
        BY <2>2, <4>1, <4>2
    <3>6. w \in Pollers
      BY <1>7, <2>2 DEF ClaimInv, ClaimSource, At
    <3>7. worker'[w].pc = "idle" => worker'[w] = Idle
      BY <1>0, <2>2 DEF Work
    <3> QED
      BY <1>0, <3>1, <3>2, <3>5, <3>6, <3>7 DEF ClaimInv, OfSource
  <2> QED
    BY <1>2, <2>1, <2>2
<1>8. CASE Fetch(w)
  <2>1. worker[w].pc \in Started /\ source' = source /\ prior' = prior
    BY <1>8 DEF Fetch, At, Started
  <2>2. \/ Thrown(w)
        \/ worker'[w] = [worker[w] EXCEPT !.pc = "record", !.error = TRUE]
        \/ \E f : worker'[w] = [worker[w] EXCEPT !.pc = "look", !.feed = f, !.bad = f.invalid]
    BY <1>1, <1>8 DEF Fetch
  <2>3. \/ Thrown(w)
        \/ /\ worker'[w].pc \in Started /\ worker'[w].task = worker[w].task
           /\ worker'[w].stamp = worker[w].stamp /\ worker'[w].seen = worker[w].seen
    BY <1>0, <2>2 DEF Work, Started
  <2> QED
    BY <1>3, <2>1, <2>3, ThrownClaim
<1>9. CASE Look(w)
  <2>1. worker[w].pc \in Started /\ source' = source /\ prior' = prior
    BY <1>9 DEF Look, At, Started
  <2>2. \/ Thrown(w)
        \/ \E k : worker'[w] = [worker[w] EXCEPT !.pc = "insert", !.known = k]
    BY <1>1, <1>9 DEF Look
  <2>3. \/ Thrown(w)
        \/ /\ worker'[w].pc \in Started /\ worker'[w].task = worker[w].task
           /\ worker'[w].stamp = worker[w].stamp /\ worker'[w].seen = worker[w].seen
    BY <1>0, <2>2 DEF Work, Started
  <2> QED
    BY <1>3, <2>1, <2>3, ThrownClaim
<1>10. CASE Insert(w) \/ InsertAnonymous(w)
  <2>1. worker[w].pc \in Started /\ source' = source /\ prior' = prior
    BY <1>10 DEF Insert, InsertAnonymous, At, Started
  <2>2. \/ Thrown(w)
        \/ \E pc \in {"anonymous", "patch"} :
             \/ worker'[w] = [worker[w] EXCEPT !.pc = pc]
             \/ worker'[w] = [worker[w] EXCEPT !.pc = pc, !.good = TRUE]
             \/ worker'[w] = [worker[w] EXCEPT !.pc = pc, !.bad = TRUE]
    BY <1>1, <1>10 DEF Insert, InsertAnonymous, Refused
  <2>3. \/ Thrown(w)
        \/ /\ worker'[w].pc \in Started /\ worker'[w].task = worker[w].task
           /\ worker'[w].stamp = worker[w].stamp /\ worker'[w].seen = worker[w].seen
    BY <1>0, <2>2 DEF Work, Started
  <2> QED
    BY <1>3, <2>1, <2>3, ThrownClaim
<1>11. CASE Patch(w)
  <2>1. worker[w].pc \in Started /\ source' = source /\ prior' = prior
    BY <1>11 DEF Patch, At, Started
  <2>2. PICK patched \in SUBSET worker[w].known :
          Go(w, [worker[w] EXCEPT !.pc = "record", !.good = @ \/ patched # {},
                                  !.bad = @ \/ patched # worker[w].known])
    BY <1>11 DEF Patch
  <2>3. /\ worker'[w].pc = "record" /\ worker'[w].task = worker[w].task
        /\ worker'[w].stamp = worker[w].stamp /\ worker'[w].seen = worker[w].seen
    BY <1>0, <1>1, <2>2 DEF Work
  <2> QED
    BY <1>3, <2>1, <2>3 DEF Started
<1>12. CASE RecordJob(w) \/ Crash(w)
  BY <1>1, <1>2, <1>12 DEF RecordJob, Crash
<1>13. CASE RecordPoll(w)
  <2>1. worker'[w] = Idle
    BY <1>1, <1>13 DEF RecordPoll
  <2>2. CASE source' = source /\ prior' = prior
    BY <1>2, <2>1, <2>2
  <2>3. CASE /\ source'.status = PollStatus(w) /\ source'.stamp = FreshStamp
             /\ prior'.status = PollStatus(w)
    <3>1. \A v \in Workers : v # w => ClaimOf(v)'
      BY <1>0, <2>3, FreshType DEF ClaimOf
    <3>2. ClaimOf(w)'
      BY <2>1, IdleType DEF ClaimOf, Started
    <3> QED
      BY <1>0, <2>1, <2>3, <3>1, <3>2, IdleType DEF ClaimInv, OfSource
  <2> QED
    BY <1>13, <2>2, <2>3 DEF RecordPoll
<1> QED
  BY <1>4, <1>5, <1>6, <1>7, <1>8, <1>9, <1>10, <1>11, <1>12, <1>13 DEF Step

LEMMA ClaimStep ==
    ASSUME TypeOK, ClaimInv, [Next]_vars
    PROVE  ClaimInv'
<1>1. CASE Outside
  BY <1>1, OutsideKeeps DEF ClaimInv, ClaimOf, OfSource
<1> QED
  BY <1>1, StepClaim DEF Next, Outside

-----------------------------------------------------------------------------
(* The invariant and the theorems *)

Inv == TypeOK /\ RowsInv /\ FileInv /\ ClaimInv /\ OkComplete /\ SucceededComplete

\* The invariant holds at first, is kept, and so holds always.
LEMMA Starts ==
    Init => Inv
<1> SUFFICES ASSUME Init
             PROVE  Inv
  OBVIOUS
<1>1. \A w \in Workers : worker[w] = Idle
  BY DEF Init
<1>2. TypeOK
  <2>1. worker \in [Workers -> Work]
    BY IdleType DEF Init
  <2>2. source \in [enabled : BOOLEAN, status : Statuses, stamp : Stamps \cup {Never}]
    BY DEF Init, Statuses
  <2>3. prior \in [status : Statuses, ids : SUBSET Ids, usable : BOOLEAN]
    BY DEF Init, Statuses, NoPoll
  <2>4. faults \in 0 .. MaxFaults
    BY NumbersAssumption DEF Init
  <2> QED
    BY <2>1, <2>2, <2>3, <2>4 DEF Init, TypeOK
<1>3. RowsInv /\ ClaimInv
  BY <1>1, IdleType DEF Init, RowsInv, RowsOf, ClaimInv, ClaimOf, NoPoll, Started, OfSource
<1>4. FileInv
  BY <1>1, IdleType DEF Init, FileInv, On, Started
<1>5. OkComplete /\ SucceededComplete
  BY DEF Init, OkComplete, SucceededComplete
<1> QED
  BY <1>2, <1>3, <1>4, <1>5 DEF Inv

LEMMA Inductive ==
    Inv /\ [Next]_vars => Inv'
BY TypeStep, RowsStep, FileStep, ClaimStep, OkStep, SucceededStep DEF Inv

LEMMA Always ==
    Spec => []Inv
BY Starts, Inductive, PTL DEF Spec

\* The source, the jobs, the rows and what every thread holds keep to their types,
\* whatever is refused and whichever thread crashes.
THEOREM WorkersTyped == Spec => []TypeOK
<1>1. Inv => TypeOK
  BY DEF Inv
<1> QED
  BY <1>1, Always, PTL

\* A source that says its last poll went well has every car of that poll.
THEOREM OkIsComplete == Spec => []OkComplete
<1>1. Inv => OkComplete
  BY DEF Inv
<1> QED
  BY <1>1, Always, PTL

\* A file that succeeded has all its rows, each of those without an id once.
THEOREM SucceededIsComplete == Spec => []SucceededComplete
<1>1. Inv => SucceededComplete
  BY DEF Inv
<1> QED
  BY <1>1, Always, PTL

\* A source is disabled only by a second failure in a row, though threads share it,
\* a stale poll is taken over and the dealer turns the source off and on.
THEOREM DisabledAfterTwoFailures == Spec => DisabledAfterTwo
<1>1. ASSUME Inv, [Next]_vars
      PROVE  [\A w \in Pollers : Disabled(w) => prior.status = "failed" /\ prior'.status = "failed"]_vars
  <2>1. ASSUME NEW w \in Pollers, Disabled(w)
        PROVE  prior.status = "failed" /\ prior'.status = "failed"
    <3>1. RecordPoll(w) /\ source.enabled /\ ~source'.enabled
      BY <2>1 DEF Disabled
    <3>2. /\ Holds(w) /\ OfSource(w) /\ worker[w].pc = "record"
          /\ source'.enabled = (source.enabled /\ ~Disables(w)) /\ prior'.status = PollStatus(w)
      BY <3>1 DEF RecordPoll, At
    <3>3. worker[w].seen = "failed" /\ PollStatus(w) = "failed"
      BY <3>1, <3>2 DEF Disables
    <3>4. ClaimOf(w)
      BY <2>1, <1>1 DEF Inv, ClaimInv, Workers
    <3> QED
      BY <3>2, <3>3, <3>4 DEF ClaimOf, Holds, Started
  <2> QED
    BY <2>1
<1> QED
  BY <1>1, Always, PTL DEF Spec, DisabledAfterTwo

-----------------------------------------------------------------------------
(* The cached answer: ResponseCache *)

\* Redis fails only when a fault is counted, and an editor is somewhere.
FaultsCounted ==
    /\ outages \in Nat /\ (outage => outages # 0)
    /\ editor \in [Editors -> {"idle", "delete", "drop"}]

\* An outage is never there without having been counted.
LEMMA OutagesStep ==
    ASSUME FaultsCounted, [Cache!Next]_(Cache!vars)
    PROVE  FaultsCounted'
<1>1. CASE UNCHANGED <<outages, outage, editor>>
  BY <1>1 DEF FaultsCounted
<1>2. CASE UNCHANGED <<outages, outage>> /\ editor' \in [Editors -> {"idle", "delete", "drop"}]
  BY <1>2 DEF FaultsCounted
<1>3. ASSUME NEW r \in Readers, Cache!Look(r) \/ Cache!Answer(r)
      PROVE  FaultsCounted'
  BY <1>1, <1>3 DEF Cache!Look, Cache!Answer, Cache!LookAgain, Cache!Acquire, Cache!Compute,
     Cache!Store, Cache!Keep
<1>4. ASSUME NEW e \in Editors, Cache!Write(e) \/ Cache!Invalidate(e)
      PROVE  FaultsCounted'
  BY <1>2, <1>4 DEF Cache!Write, Cache!Invalidate, Cache!Delete, Cache!Drop, FaultsCounted
<1>5. CASE Cache!ExpireRedis \/ Cache!ExpireLock
  BY <1>1, <1>5 DEF Cache!ExpireRedis, Cache!ExpireLock
<1>6. ASSUME NEW p \in Processes, Cache!ExpireMemory(p)
      PROVE  FaultsCounted'
  BY <1>1, <1>6 DEF Cache!ExpireMemory
<1>7. ASSUME NEW p \in Processes, Cache!Crash(p)
      PROVE  FaultsCounted'
  BY <1>7 DEF Cache!Crash, Cache!Fault, FaultsCounted
<1>8. CASE Cache!Outage
  BY <1>8 DEF Cache!Outage, Cache!Fault, FaultsCounted
<1>9. CASE Cache!Restore
  BY <1>9 DEF Cache!Restore, FaultsCounted
<1>10. CASE UNCHANGED Cache!vars
  BY <1>1, <1>10 DEF Cache!vars
<1> QED
  BY <1>3, <1>4, <1>5, <1>6, <1>7, <1>8, <1>9, <1>10 DEF Cache!Next

\* No step but an edit or a store makes the entry old.
LEMMA StaleStep ==
    ASSUME FaultsCounted, Cache!StaleExplained, [Cache!Next]_(Cache!vars)
    PROVE  Cache!StaleExplained'
<1>1. CASE outages' # 0
  BY <1>1 DEF Cache!StaleExplained
<1>2. CASE outages' = 0
  <2>0. outages = 0 /\ ~outage
    <3>1. outages' = outages \/ outages' = outages + 1
      BY DEF Cache!Next, Cache!Look, Cache!Answer, Cache!LookAgain, Cache!Acquire, Cache!Compute,
         Cache!Store, Cache!Keep, Cache!Write, Cache!Invalidate, Cache!Delete,
             Cache!Drop, Cache!ExpireRedis, Cache!ExpireLock, Cache!ExpireMemory, Cache!Crash,
             Cache!Outage, Cache!Restore, Cache!Fault, Cache!vars
    <3> QED
      BY <1>2, <3>1 DEF FaultsCounted
  <2>1. CASE UNCHANGED <<redis, version, late>> /\ (Cache!Deleting => Cache!Deleting')
    BY <2>0, <2>1 DEF Cache!StaleExplained, Cache!Stale
  <2>2. CASE redis' = Null
    BY <2>2 DEF Cache!StaleExplained, Cache!Stale
  <2>3. ASSUME NEW r \in Readers, Cache!Store(r)
        PROVE  Cache!StaleExplained'
    <3>1. /\ redis' = reader[r].got /\ late' = (reader[r].got # version /\ ~Cache!Deleting)
          /\ UNCHANGED <<version, editor>>
      BY <2>0, <2>3 DEF Cache!Store
    <3> QED
      BY <3>1 DEF Cache!StaleExplained, Cache!Stale, Cache!Deleting
  <2>4. ASSUME NEW r \in Readers,
  Cache!Look(r) \/ Cache!LookAgain(r) \/ Cache!Acquire(r) \/ Cache!Compute(r) \/ Cache!Keep(r)
        PROVE  Cache!StaleExplained'
    BY <2>1, <2>4 DEF Cache!Look, Cache!LookAgain, Cache!Acquire, Cache!Compute, Cache!Keep,
       Cache!Deleting
  <2>5. ASSUME NEW e \in Editors, Cache!Write(e)
        PROVE  Cache!StaleExplained'
    <3>1. Cache!Deleting'
      BY <2>5 DEF Cache!Write, Cache!Deleting, FaultsCounted
    <3> QED
      BY <3>1 DEF Cache!StaleExplained
  <2>6. ASSUME NEW e \in Editors, Cache!Delete(e)
        PROVE  Cache!StaleExplained'
    BY <2>0, <2>2, <2>6 DEF Cache!Delete, Cache!AfterDelete
  <2>7. ASSUME NEW e \in Editors, Cache!Drop(e)
        PROVE  Cache!StaleExplained'
    <3>1. Cache!Deleting => Cache!Deleting'
      BY <2>7 DEF Cache!Drop, Cache!Deleting, FaultsCounted
    <3> QED
      BY <2>1, <2>7, <3>1 DEF Cache!Drop
  <2>8. CASE Cache!ExpireRedis
    BY <2>2, <2>8 DEF Cache!ExpireRedis
  <2>9. CASE Cache!ExpireLock
    BY <2>1, <2>9 DEF Cache!ExpireLock, Cache!Deleting
  <2>10. ASSUME NEW p \in Processes, Cache!ExpireMemory(p)
         PROVE  Cache!StaleExplained'
    BY <2>1, <2>10 DEF Cache!ExpireMemory, Cache!Deleting
  <2>11. (\A p \in Processes : ~Cache!Crash(p)) /\ ~Cache!Outage /\ ~Cache!Restore
    BY <1>2, <2>0 DEF Cache!Crash, Cache!Outage, Cache!Restore, Cache!Fault
  <2>12. CASE UNCHANGED Cache!vars
    BY <2>1, <2>12 DEF Cache!vars, Cache!Deleting
  <2> QED
    BY <2>3, <2>4, <2>5, <2>6, <2>7, <2>8, <2>9, <2>10, <2>11, <2>12 DEF Cache!Next, Cache!Answer,
       Cache!Invalidate
<1> QED
  BY <1>1, <1>2

LEMMA CacheExplained == Cache!Spec => []Cache!StaleExplained
<1>1. Cache!Init => FaultsCounted /\ Cache!StaleExplained
  BY DEF Cache!Init, FaultsCounted, Cache!StaleExplained, Cache!Stale
<1>2. FaultsCounted /\ [Cache!Next]_(Cache!vars) => FaultsCounted'
  BY OutagesStep
<1>3. FaultsCounted /\ Cache!StaleExplained /\ [Cache!Next]_(Cache!vars) => Cache!StaleExplained'
  BY StaleStep
<1> QED
  BY <1>1, <1>2, <1>3, PTL DEF Cache!Spec

-----------------------------------------------------------------------------
(* The push token of a device: PushToken *)

\* What a job can be at, and a job.
Kinds == {"idle", "register", "token", "key", "post", "delete", "insert", "keep", "unregister", "remove",
          "forget"}
TaskType == [at : Kinds, who : Users \cup {Null}]

\* The three places that say who the user is agree.
UserSame == shown = user /\ pushUser = user

\* A job under way.
Busy(j) == task[j].at # "idle"

\* While the device is calm it is signed in or out, starts cold with a user whom it
\* has read but does not show yet, is being signed out, or has been.
Phase ==
    \/ /\ leaving = "no" /\ user = session
       /\ boot \in {Null, session} /\ asked \in {Null, session}
    \/ /\ leaving = "no" /\ user = Null /\ session # Null
       /\ boot = session /\ asked = session
       /\ Push!Quiet
    \/ /\ leaving \in {"server", "told", "failed"} /\ user = session /\ session # Null
       /\ boot = Null /\ asked = Null /\ Push!Quiet /\ row = Null
    \/ /\ leaving = "cleared" /\ session = Null
       /\ boot = Null /\ asked = Null /\ Push!Quiet

\* What a job has read is still so.
TaskOf(j) ==
    /\ task[j].at \in {"register", "token", "key", "post", "delete", "insert", "keep", "remove"} =>
         session # Null
    /\ task[j].at \in {"register", "token", "key"} => (saved <=> row = session)
    /\ task[j].at = "register" => pref \/ row = Null
    /\ task[j].at \in {"token", "key", "post", "delete", "insert", "keep"} => pref
    /\ task[j].at \in {"post", "delete", "insert"} => ~saved /\ row = Null
    /\ task[j].at = "keep" => row = session
    /\ task[j].at \in {"delete", "insert", "keep", "remove"} => task[j].who = session
    /\ task[j].at = "unregister" => (saved <=> row # Null)
    /\ task[j].at \in {"unregister", "remove", "forget"} => session = Null \/ ~pref
    /\ task[j].at = "remove" => row = session
    /\ task[j].at = "forget" => row = Null
    /\ Busy(j) => leaving = "no"

\* No two jobs are under way; without one, the key and the row agree, and the row is
\* there if the user wants it.
Single == \A i, j \in Tasks : Busy(i) /\ Busy(j) => i = j
Rested == /\ saved <=> row # Null
          /\ leaving = "no" /\ session # Null =>
               (row = session => pref) /\ (pref /\ ~barred => row = session)
CalmOf == /\ Single /\ Phase /\ row \in {session, Null}
          /\ \A j \in Tasks : TaskOf(j)
          /\ Push!Quiet => Rested
CalmInv == calm => CalmOf

\* The invariant: a device that was disturbed promises its types and one user.
PushInv == Push!TypeOK /\ UserSame /\ CalmInv

\* The types one by one, and those of the next state.
LEMMA PushTypes ==
    Push!TypeOK <=>
    /\ user \in Users \cup {Null} /\ shown \in Users \cup {Null} /\ boot \in Users \cup {Null}
    /\ asked \in Users \cup {Null} /\ session \in Users \cup {Null}
    /\ pushUser \in Users \cup {Null} /\ row \in Users \cup {Null}
    /\ leaving \in {"no", "server", "told", "failed", "cleared"}
    /\ pref \in BOOLEAN /\ saved \in BOOLEAN /\ calm \in BOOLEAN /\ barred \in BOOLEAN
    /\ task \in [Tasks -> TaskType]
    /\ \A j \in Tasks : task[j].at \in {"delete", "insert", "keep", "remove"} =>
                       task[j].who \in Users
    /\ visits \in 0 .. MaxVisits /\ losses \in 0 .. MaxLosses
BY DEF Push!TypeOK, TaskType, Kinds

LEMMA PushTypesNext ==
    Push!TypeOK' <=>
    /\ user' \in Users \cup {Null} /\ shown' \in Users \cup {Null} /\ boot' \in Users \cup {Null}
    /\ asked' \in Users \cup {Null} /\ session' \in Users \cup {Null}
    /\ pushUser' \in Users \cup {Null} /\ row' \in Users \cup {Null}
    /\ leaving' \in {"no", "server", "told", "failed", "cleared"}
    /\ pref' \in BOOLEAN /\ saved' \in BOOLEAN /\ calm' \in BOOLEAN /\ barred' \in BOOLEAN
    /\ task' \in [Tasks -> TaskType]
    /\ \A j \in Tasks : task'[j].at \in {"delete", "insert", "keep", "remove"} =>
                       task'[j].who \in Users
    /\ visits' \in 0 .. MaxVisits /\ losses' \in 0 .. MaxLosses
BY DEF Push!TypeOK, TaskType, Kinds

\* One job goes on, the others stay.
LEMMA TaskFacts ==
    ASSUME task \in [Tasks -> TaskType], NEW j \in Tasks, NEW r \in TaskType,
           task' = [task EXCEPT ![j] = r]
    PROVE  /\ task' \in [Tasks -> TaskType] /\ task'[j] = r
           /\ \A i \in Tasks : i # j => task'[i] = task[i]
OBVIOUS

\* A job goes on, or ends.
LEMMA ToFacts ==
    ASSUME task \in [Tasks -> TaskType], NEW j \in Tasks, NEW step \in Kinds,
           task' = [task EXCEPT ![j].at = step]
    PROVE  /\ task' \in [Tasks -> TaskType]
           /\ task'[j].at = step /\ task'[j].who = task[j].who
           /\ \A i \in Tasks : i # j => task'[i] = task[i]
<1>1. [task[j] EXCEPT !.at = step] \in TaskType
  BY DEF TaskType
<1>2. task' = [task EXCEPT ![j] = [task[j] EXCEPT !.at = step]]
  OBVIOUS
<1>3. task' \in [Tasks -> TaskType] /\ task'[j] = [task[j] EXCEPT !.at = step]
      /\ \A i \in Tasks : i # j => task'[i] = task[i]
  BY <1>1, <1>2, TaskFacts
<1> QED
  BY <1>3 DEF TaskType

LEMMA EndFacts ==
    ASSUME task \in [Tasks -> TaskType], NEW j \in Tasks, Push!End(j)
    PROVE  /\ task' \in [Tasks -> TaskType] /\ task'[j].at = "idle"
           /\ \A i \in Tasks : i # j => task'[i] = task[i]
<1>1. Push!Idle \in TaskType /\ Push!Idle.at = "idle"
  BY DEF Push!Idle, TaskType, Kinds
<1> QED
  BY <1>1, TaskFacts DEF Push!End

\* What setUser starts: nothing, or one job that was idle.
LEMMA ShownFacts ==
    ASSUME task \in [Tasks -> TaskType], NEW j \in Tasks, NEW u, Push!Shown(j, u)
    PROVE  /\ user' = u /\ shown' = u /\ pushUser' = u
           /\ task' \in [Tasks -> TaskType]
           /\ \A i \in Tasks : i # j => task'[i] = task[i]
           /\ \/ task' = task /\ u = pushUser
              \/ /\ task[j].at = "idle" /\ u # pushUser
                 /\ task'[j].at = IF u = Null THEN "unregister" ELSE "register"
<1>1. user' = u /\ shown' = u /\ pushUser' = u
  BY DEF Push!Shown
<1>2. CASE u # Null /\ u # pushUser
  <2>1. task[j].at = "idle" /\ task' = [task EXCEPT ![j].at = "register"]
    BY <1>2 DEF Push!Shown, Push!Start
  <2>2. "register" \in Kinds
    BY DEF Kinds
  <2> QED
    BY <1>1, <1>2, <2>1, <2>2, ToFacts
<1>3. CASE u = Null /\ pushUser # Null
  <2>1. task[j].at = "idle" /\ task' = [task EXCEPT ![j].at = "unregister"]
    BY <1>3 DEF Push!Shown, Push!Start
  <2>2. "unregister" \in Kinds
    BY DEF Kinds
  <2> QED
    BY <1>1, <1>3, <2>1, <2>2, ToFacts
<1>4. CASE ~(u # Null /\ u # pushUser) /\ ~(u = Null /\ pushUser # Null)
  <2>1. task' = task
    BY <1>4 DEF Push!Shown
  <2> QED
    BY <1>1, <1>4, <2>1
<1> QED
  BY <1>2, <1>3, <1>4

\* The counters keep within their bounds.
LEMMA PushCounts ==
    ASSUME Push!TypeOK
    PROVE  /\ Push!Act => visits' \in 0 .. MaxVisits
           /\ Push!Fault => losses' \in 0 .. MaxLosses
<1>1. \A n, m \in Nat : n \in 0 .. m /\ n < m => n + 1 \in 0 .. m
  OBVIOUS
<1>2. \A n, m \in Nat : n \in 0 .. m => n \in Nat
  OBVIOUS
<1> QED
  BY <1>1, BoundsAssumption DEF Push!TypeOK, Push!Act, Push!Fault

\* Types are kept, one action at a time.
LEMMA PushTypeStep ==
    ASSUME Push!TypeOK, [Push!Next]_(Push!vars)
    PROVE  Push!TypeOK'
<1> USE PushTypes, PushTypesNext
<1>0. task \in [Tasks -> TaskType]
  OBVIOUS
<1>1. ASSUME NEW j \in Tasks, NEW u \in Users, Push!SignIn(j, u)
      PROVE  Push!TypeOK'
  <2>1. Push!Shown(j, u) /\ calm' \in BOOLEAN
    BY <1>1 DEF Push!SignIn
  <2>2. /\ user' = u /\ shown' = u /\ pushUser' = u /\ task' \in [Tasks -> TaskType]
        /\ \A i \in Tasks : task'[i] = task[i] \/ task'[i].at = "register"
    BY <1>0, <2>1, ShownFacts, NobodyAssumption
  <2> QED
    BY <1>1, <2>1, <2>2, PushCounts DEF Push!SignIn
<1>2. CASE Push!SignOut
  <2>1. calm' \in BOOLEAN
    BY <1>2 DEF Push!SignOut
  <2> QED
    BY <1>2, <2>1, PushCounts DEF Push!SignOut
<1>3. ASSUME NEW j \in Tasks, Push!Toggle(j)
      PROVE  Push!TypeOK'
  <2>1. calm' \in BOOLEAN /\ pref' \in BOOLEAN
    BY <1>3 DEF Push!Toggle
  <2>2. PICK k \in {"unregister", "register"} : Push!Start(j, k)
    BY <1>3 DEF Push!Toggle
  <2>3. k \in Kinds /\ task' = [task EXCEPT ![j].at = k]
    BY <2>2 DEF Push!Start, Kinds
  <2>4. task' \in [Tasks -> TaskType] /\ \A i \in Tasks : task'[i] = task[i] \/ task'[i].at = k
    BY <1>0, <2>3, ToFacts
  <2> QED
    BY <1>3, <2>1, <2>4, PushCounts DEF Push!Toggle, Push!app
<1>4. CASE Push!Restart
  <2>1. calm' \in BOOLEAN
    BY <1>4 DEF Push!Restart
  <2>2. Push!Idle \in TaskType /\ Push!Idle.at = "idle"
    BY DEF Push!Idle, TaskType, Kinds
  <2> QED
    BY <1>4, <2>1, <2>2, PushCounts DEF Push!Restart
<1>5. ASSUME NEW ok \in BOOLEAN, Push!Answer(ok)
      PROVE  Push!TypeOK'
  BY <1>5, PushCounts DEF Push!Answer
<1>6. CASE Push!ClearSession
  BY <1>6 DEF Push!ClearSession
<1>7. ASSUME NEW j \in Tasks, Push!LeaveDone(j)
      PROVE  Push!TypeOK'
  <2>1. /\ user' = Null /\ shown' = Null /\ pushUser' = Null /\ task' \in [Tasks -> TaskType]
        /\ \A i \in Tasks : task'[i] = task[i] \/ task'[i].at = "unregister"
    BY <1>0, <1>7, ShownFacts DEF Push!LeaveDone
  <2> QED
    BY <1>7, <2>1 DEF Push!LeaveDone
<1>8. ASSUME NEW j \in Tasks, Push!Boot(j)
      PROVE  Push!TypeOK'
  <2>1. CASE UNCHANGED <<user, shown, pushUser, task>>
    BY <1>8, <2>1 DEF Push!Boot, Push!Rehydrate, Push!CheckSession
  <2>2. ASSUME NEW u \in {boot, asked}, u # Null, Push!Shown(j, u)
        PROVE  Push!TypeOK'
    <3>1. /\ user' = u /\ shown' = u /\ pushUser' = u /\ task' \in [Tasks -> TaskType]
          /\ \A i \in Tasks : task'[i] = task[i] \/ task'[i].at = "register"
      BY <1>0, <2>2, ShownFacts
    <3> QED
      BY <1>8, <2>2, <3>1 DEF Push!Boot, Push!Rehydrate, Push!CheckSession
  <2> QED
    BY <1>8, <2>1, <2>2 DEF Push!Boot, Push!Rehydrate, Push!CheckSession
<1>9. CASE Push!AskAgain
  BY <1>9, PushCounts DEF Push!AskAgain
<1>10. ASSUME NEW j \in Tasks, Push!Work(j) \/ Push!Lost(j)
       PROVE  Push!TypeOK'
  <2>1. task[j].at \in {"delete", "insert", "keep", "remove"} => task[j].who \in Users
    OBVIOUS
  <2>2. /\ task' \in [Tasks -> TaskType]
        /\ \A i \in Tasks : i # j => task'[i] = task[i]
        /\ task'[j].at \in {"delete", "insert", "keep", "remove"} => task'[j].who \in Users
    <3>1. ASSUME NEW step \in Kinds, Push!To(j, step),
                 step \in {"delete", "insert", "keep", "remove"} =>
                   task[j].at \in {"delete", "insert", "keep", "remove"}
          PROVE  /\ task' \in [Tasks -> TaskType]
                 /\ \A i \in Tasks : i # j => task'[i] = task[i]
                 /\ task'[j].at \in {"delete", "insert", "keep", "remove"} => task'[j].who \in Users
      BY <1>0, <2>1, <3>1, ToFacts DEF Push!To
    <3>2. CASE Push!End(j)
      BY <1>0, <3>2, EndFacts
    <3>3. CASE Push!Post(j) \/ Push!Withdraw(j)
      <4>1. PICK r : task' = [task EXCEPT ![j] = r] /\
               r \in {Push!Idle, [Push!Idle EXCEPT !.at = "forget"]}
                     \cup {[at |-> s, who |-> session] : s \in {"delete", "remove"}}
               /\ (session = Null => r \in {Push!Idle, [Push!Idle EXCEPT !.at = "forget"]})
        BY <3>3 DEF Push!Post, Push!Withdraw
      <4>2. r \in TaskType /\ (r.at \in {"delete", "insert", "keep", "remove"} => r.who \in Users)
        BY <4>1 DEF Push!Idle, TaskType, Kinds
      <4> QED
        BY <1>0, <4>1, <4>2, TaskFacts
    <3>4. "token" \in Kinds /\ "key" \in Kinds /\ "post" \in Kinds /\ "insert" \in Kinds /\ "keep" \in Kinds
          /\ "forget" \in Kinds
      BY DEF Kinds
    <3> QED
      BY <1>10, <3>1, <3>2, <3>3, <3>4 DEF Push!Work, Push!Lost, Push!CheckPref, Push!GetToken,
         Push!CheckKey, Push!RowDeleted,
           Push!RowInserted, Push!KeepKey, Push!RowRemoved, Push!ForgetKey
  <2>3. row' \in Users \cup {Null} /\ saved' \in BOOLEAN /\ calm' \in BOOLEAN
        /\ barred' \in BOOLEAN
        /\ losses' \in 0 .. MaxLosses
    BY <1>10, <2>1, PushCounts DEF Push!Work, Push!Lost, Push!CheckPref, Push!GetToken, Push!CheckKey,
       Push!Post, Push!RowDeleted,
         Push!RowInserted, Push!KeepKey, Push!Withdraw, Push!RowRemoved, Push!ForgetKey
  <2>4. UNCHANGED <<Push!app, pref, visits>>
    BY <1>10 DEF Push!Work, Push!Lost, Push!CheckPref, Push!GetToken, Push!CheckKey, Push!Post,
       Push!RowDeleted, Push!RowInserted, Push!KeepKey,
         Push!Withdraw, Push!RowRemoved, Push!ForgetKey
  <2> QED
    BY <2>2, <2>3, <2>4 DEF Push!app
<1>11. CASE UNCHANGED Push!vars
  BY <1>11 DEF Push!vars, Push!app
<1> QED
  BY <1>1, <1>2, <1>3, <1>4, <1>5, <1>6, <1>7, <1>8, <1>9, <1>10, <1>11 DEF Push!Next, Push!Leave

\* setUser changes the three together.
LEMMA SameStep ==
    ASSUME Push!TypeOK, UserSame, [Push!Next]_(Push!vars)
    PROVE  UserSame'
<1>1. ASSUME NEW j \in Tasks, NEW u, Push!Shown(j, u)
      PROVE  UserSame'
  BY <1>1 DEF Push!Shown, UserSame
<1>2. CASE UNCHANGED <<user, shown, pushUser>>
  BY <1>2 DEF UserSame
<1> QED
  BY <1>1, <1>2 DEF Push!Next, Push!Leave, Push!SignIn, Push!SignOut, Push!Answer, Push!ClearSession,
     Push!LeaveDone, Push!Restart,
       Push!AskAgain, Push!Toggle, Push!Boot, Push!Rehydrate, Push!CheckSession, Push!Work, Push!Lost,
       Push!CheckPref, Push!GetToken, Push!CheckKey, Push!Post,
       Push!RowDeleted, Push!RowInserted, Push!KeepKey, Push!Withdraw, Push!RowRemoved, Push!ForgetKey,
       Push!app, Push!vars, UserSame

\* A job that goes on, alone, with everything about the users as it was.
LEMMA WorkFrame ==
    ASSUME Push!TypeOK, CalmOf, NEW j \in Tasks, Busy(j),
           \A i \in Tasks : i # j => task'[i] = task[i],
           UNCHANGED Push!app, pref' = pref, row' \in {session, Null}, TaskOf(j)',
           task'[j].at = "idle" => Rested'
    PROVE  CalmOf'
<1>1. \A i \in Tasks : i # j => task[i].at = "idle" /\ task'[i].at = "idle"
  BY DEF CalmOf, Single, Busy
<1>2. leaving = "no" /\ user = session /\ boot \in {Null, session} /\ asked \in {Null, session}
  BY DEF CalmOf, Phase, Push!Quiet, Busy
<1>3. Phase' /\ row' \in {session', Null}
  BY <1>2 DEF Phase, Push!app
<1>4. Single' /\ \A i \in Tasks : TaskOf(i)'
  BY <1>1 DEF Single, Busy, TaskOf
<1>5. Push!Quiet' => Rested'
  BY DEF Push!Quiet
<1> QED
  BY <1>3, <1>4, <1>5 DEF CalmOf

\* When everything has settled.
LEMMA SettledFacts ==
    ASSUME Push!TypeOK, CalmOf, Push!Settled
    PROVE  /\ leaving = "no" /\ boot = Null /\ asked = Null /\ user = session
           /\ row \in {session, Null} /\ Rested /\ \A j \in Tasks : task[j].at = "idle"
BY DEF Push!Settled, CalmOf, Phase, Push!Quiet

\* Calm is kept: what the user does,
LEMMA ActStep ==
    ASSUME Push!TypeOK, UserSame, CalmInv, calm',
           \/ \E j \in Tasks, u \in Users : Push!SignIn(j, u)
           \/ Push!SignOut \/ Push!Restart \/ \E j \in Tasks : Push!Toggle(j)
    PROVE  CalmOf'
<1>0. calm /\ Push!Settled /\ CalmOf
  BY DEF CalmInv, Push!SignIn, Push!SignOut, Push!Restart, Push!Toggle
<1>1. /\ leaving = "no" /\ boot = Null /\ asked = Null /\ user = session
      /\ row \in {session, Null} /\ Rested /\ \A j \in Tasks : task[j].at = "idle"
  BY <1>0, SettledFacts
<1>2. task \in [Tasks -> TaskType]
  BY PushTypes
<1>3. ASSUME NEW j \in Tasks, NEW u \in Users, Push!SignIn(j, u)
      PROVE  CalmOf'
  <2>1. /\ session = Null /\ user = Null /\ session' = u /\ u # Null /\ pushUser = Null
        /\ Push!Shown(j, u) /\ UNCHANGED <<boot, asked, leaving, pref, saved, row, barred>>
    BY <1>3, NobodyAssumption DEF Push!SignIn, UserSame
  <2>2. user' = u /\ task'[j].at = "register" /\ \A i \in Tasks : i # j => task'[i] = task[i]
    BY <1>2, <2>1, ShownFacts
  <2>3. row = Null /\ ~saved
    BY <1>1, <2>1 DEF Rested
  <2>4. Phase' /\ row' \in {session', Null}
    BY <1>1, <2>1, <2>2, <2>3 DEF Phase
  <2>5. Single' /\ \A i \in Tasks : TaskOf(i)'
    BY <1>1, <2>1, <2>2, <2>3 DEF Single, Busy, TaskOf
  <2>6. ~Push!Quiet'
    BY <2>2 DEF Push!Quiet
  <2> QED
    BY <2>4, <2>5, <2>6 DEF CalmOf
<1>4. CASE Push!SignOut
  <2>1. /\ row = Null /\ leaving' = "server" /\ user # Null
        /\ UNCHANGED <<user, boot, asked, session, pref, saved, task, row, barred>>
    BY <1>4 DEF Push!SignOut
  <2>2. Push!Quiet /\ Push!Quiet'
    BY <1>1, <2>1 DEF Push!Quiet
  <2>3. Phase' /\ row' \in {session', Null}
    BY <1>1, <2>1, <2>2 DEF Phase
  <2>4. Single' /\ \A i \in Tasks : TaskOf(i)'
    BY <1>1, <2>1 DEF Single, Busy, TaskOf
  <2>5. Rested'
    BY <1>1, <2>1 DEF Rested
  <2> QED
    BY <2>3, <2>4, <2>5 DEF CalmOf
<1>5. CASE Push!Restart
  <2>1. /\ leaving' = "no" /\ user' = Null /\ boot' = user /\ asked' = session
        /\ UNCHANGED <<session, pref, saved, row, barred>>
        /\ \A j \in Tasks : task'[j].at = "idle"
    BY <1>5 DEF Push!Restart, UserSame, Push!Idle
  <2>2. Phase' /\ row' \in {session', Null}
    BY <1>1, <2>1 DEF Phase, Push!Quiet
  <2>3. Single' /\ \A i \in Tasks : TaskOf(i)'
    BY <2>1 DEF Single, Busy, TaskOf
  <2>4. Rested'
    BY <1>1, <2>1 DEF Rested
  <2> QED
    BY <2>2, <2>3, <2>4 DEF CalmOf
<1>6. ASSUME NEW j \in Tasks, Push!Toggle(j)
      PROVE  CalmOf'
  <2>1. /\ user # Null /\ pref' = ~pref
        /\ Push!Start(j, IF pref THEN "unregister" ELSE "register")
        /\ UNCHANGED <<user, boot, asked, session, leaving, saved, row, barred>>
    BY <1>6 DEF Push!Toggle, Push!app
  <2>2. /\ task'[j].at = IF pref THEN "unregister" ELSE "register"
        /\ \A i \in Tasks : i # j => task'[i] = task[i]
    <3>1. PICK k \in Kinds : /\ k = IF pref THEN "unregister" ELSE "register"
                             /\ Push!Start(j, k)
      BY <2>1 DEF Kinds
    <3>2. task' = [task EXCEPT ![j].at = k]
      BY <3>1 DEF Push!Start
    <3> QED
      BY <1>2, <3>1, <3>2, ToFacts
  <2>3. Phase' /\ row' \in {session', Null}
    BY <1>1, <2>1 DEF Phase
  <2>4. Single' /\ \A i \in Tasks : TaskOf(i)'
    <3>1. TaskOf(j)'
      <4>1. CASE pref
        BY <1>1, <2>1, <2>2, <4>1 DEF TaskOf, Rested, Busy
      <4>2. CASE ~pref
        BY <1>1, <2>1, <2>2, <4>2 DEF TaskOf, Rested, Busy
      <4> QED
        BY <4>1, <4>2
    <3>2. \A i \in Tasks : i # j => task'[i].at = "idle"
      BY <1>1, <2>2
    <3> QED
      BY <3>1, <3>2 DEF Single, Busy, TaskOf
  <2>5. ~Push!Quiet'
    BY <2>2 DEF Push!Quiet
  <2> QED
    BY <2>3, <2>4, <2>5 DEF CalmOf
<1> QED
  BY <1>3, <1>4, <1>5, <1>6

\* signing out,
LEMMA LeaveStep ==
    ASSUME Push!TypeOK, UserSame, CalmOf,
           \/ \E ok \in BOOLEAN : Push!Answer(ok)
           \/ Push!ClearSession \/ \E j \in Tasks : Push!LeaveDone(j)
    PROVE  CalmOf'
<1>1. leaving # "no" /\ boot = Null /\ asked = Null /\ Push!Quiet /\ row \in {session, Null}
  BY DEF CalmOf, Phase, Push!Answer, Push!ClearSession, Push!LeaveDone, Push!MayClear
<1>2. Single /\ Rested /\ \A j \in Tasks : task[j].at = "idle"
  BY <1>1 DEF CalmOf, Push!Quiet
<1>3. CASE \E ok \in BOOLEAN : Push!Answer(ok)
  <2>1. /\ leaving = "server" /\ leaving' \in {"told", "failed"}
        /\ UNCHANGED <<user, boot, asked, session, pref, saved, task, row, barred>>
    BY <1>3 DEF Push!Answer
  <2>2. Phase'
    BY <2>1 DEF CalmOf, Phase, Push!Quiet
  <2>3. Single' /\ \A i \in Tasks : TaskOf(i)'
    BY <1>2, <2>1 DEF Single, Busy, TaskOf
  <2>4. Rested'
    BY <1>2, <2>1 DEF Rested
  <2> QED
    BY <1>1, <2>1, <2>2, <2>3, <2>4 DEF CalmOf
<1>4. CASE Push!ClearSession
  <2>1. /\ leaving \in {"told", "failed"} /\ leaving' = "cleared" /\ session' = Null
        /\ UNCHANGED <<user, boot, asked, pref, saved, task, row, barred>>
    BY <1>4 DEF Push!ClearSession, Push!MayClear
  <2>2. row = Null
    BY <2>1 DEF CalmOf, Phase
  <2>3. Phase' /\ row' \in {session', Null}
    BY <1>1, <2>1, <2>2 DEF Phase, Push!Quiet
  <2>4. Single' /\ \A i \in Tasks : TaskOf(i)'
    BY <1>2, <2>1 DEF Single, Busy, TaskOf
  <2>5. Rested'
    BY <1>2, <2>1 DEF Rested
  <2> QED
    BY <2>3, <2>4, <2>5 DEF CalmOf
<1>5. ASSUME NEW j \in Tasks, Push!LeaveDone(j)
      PROVE  CalmOf'
  <2>1. /\ session = Null /\ leaving' = "no" /\ Push!Shown(j, Null)
        /\ UNCHANGED <<boot, asked, session, pref, saved, row, barred>>
    BY <1>5 DEF Push!LeaveDone, CalmOf, Phase
  <2>2. row = Null /\ ~saved
    BY <1>1, <1>2, <2>1 DEF Rested
  <2>3. /\ user' = Null /\ \A i \in Tasks : i # j => task'[i] = task[i]
        /\ task' = task \/ task'[j].at = "unregister"
    BY <2>1, PushTypes, ShownFacts
  <2>4. Phase' /\ row' \in {session', Null}
    BY <1>1, <2>1, <2>2, <2>3 DEF Phase
  <2>5. \A i \in Tasks : i # j => task'[i].at = "idle"
    BY <1>2, <2>3
  <2>6. task'[j].at \in {"idle", "unregister"}
    BY <1>2, <2>3
  <2>7. Single' /\ \A i \in Tasks : TaskOf(i)'
    BY <2>1, <2>2, <2>5, <2>6 DEF Single, Busy, TaskOf
  <2>8. Rested'
    BY <2>1, <2>2 DEF Rested
  <2> QED
    BY <2>4, <2>7, <2>8 DEF CalmOf
<1> QED
  BY <1>3, <1>4, <1>5

\* a cold start,
LEMMA BootStep ==
    ASSUME Push!TypeOK, UserSame, CalmOf,
           Push!AskAgain \/ \E j \in Tasks : Push!Boot(j)
    PROVE  CalmOf'
<1>1. /\ leaving = "no" /\ boot \in {Null, session} /\ asked \in {Null, session}
      /\ row \in {session, Null} /\ (boot # Null \/ asked # Null)
      /\ \/ user = session
         \/ user = Null /\ session # Null /\ boot = session /\ asked = session /\ Push!Quiet
  BY DEF CalmOf, Phase, Push!AskAgain, Push!Boot, Push!Rehydrate, Push!CheckSession
<1>2. ASSUME NEW j \in Tasks, Push!Shown(j, session), session # Null, leaving' = "no",
             UNCHANGED <<session, pref, saved, row, barred>>,
             boot' \in {Null, session}, asked' \in {Null, session}
      PROVE  CalmOf'
  <2>1. /\ user' = session /\ \A i \in Tasks : i # j => task'[i] = task[i]
        /\ \/ task' = task /\ session = user
           \/ task[j].at = "idle" /\ session # user /\ task'[j].at = "register"
    BY <1>2, PushTypes, ShownFacts DEF UserSame
  <2>2. Phase' /\ row' \in {session', Null}
    BY <1>1, <1>2, <2>1 DEF Phase
  <2>3. CASE task' = task
    <3>1. Single' /\ \A i \in Tasks : TaskOf(i)'
      BY <1>1, <1>2, <2>3 DEF CalmOf, Single, Busy, TaskOf
    <3>2. Push!Quiet' => Rested'
      BY <1>1, <1>2, <2>3 DEF CalmOf, Push!Quiet, Rested
    <3> QED
      BY <2>2, <3>1, <3>2 DEF CalmOf
  <2>4. CASE task[j].at = "idle" /\ session # user /\ task'[j].at = "register"
    <3>1. Push!Quiet /\ Rested
      BY <1>1, <2>4 DEF CalmOf
    <3>2. \A i \in Tasks : i # j => task'[i].at = "idle"
      BY <2>1, <3>1 DEF Push!Quiet
    <3>3. (saved <=> row = session) /\ (pref \/ row = Null)
      BY <1>1, <1>2, <3>1 DEF Rested
    <3>4. Single' /\ \A i \in Tasks : TaskOf(i)'
      BY <1>2, <2>4, <3>2, <3>3 DEF Single, Busy, TaskOf
    <3>5. ~Push!Quiet'
      BY <2>4 DEF Push!Quiet
    <3> QED
      BY <2>2, <3>4, <3>5 DEF CalmOf
  <2> QED
    BY <2>1, <2>3, <2>4
<1>3. CASE UNCHANGED <<user, task>> /\ user # Null /\ leaving' = "no" /\ boot' \in {Null, session}
             /\ asked' \in {Null, session} /\ UNCHANGED <<session, pref, saved, row, barred>>
  <2>1. user = session
    BY <1>1, <1>3
  <2>2. Phase' /\ row' \in {session', Null}
    BY <1>1, <1>3, <2>1 DEF Phase
  <2>3. Single' /\ \A i \in Tasks : TaskOf(i)'
    BY <1>1, <1>3 DEF CalmOf, Single, Busy, TaskOf
  <2>4. Push!Quiet' => Rested'
    BY <1>1, <1>3 DEF CalmOf, Push!Quiet, Rested
  <2> QED
    BY <2>2, <2>3, <2>4 DEF CalmOf
<1>4. ASSUME NEW j \in Tasks, Push!Rehydrate(j)
      PROVE  CalmOf'
  BY <1>1, <1>2, <1>3, <1>4 DEF Push!Rehydrate
<1>5. ASSUME NEW j \in Tasks, Push!CheckSession(j)
      PROVE  CalmOf'
  BY <1>1, <1>2, <1>5 DEF Push!CheckSession
<1>6. CASE Push!AskAgain
  <2>1. /\ asked = session /\ asked' = session
        /\ UNCHANGED <<user, boot, session, leaving, pref, saved, task, row, barred>>
    BY <1>1, <1>6 DEF Push!AskAgain
  <2>2. Phase'
    BY <2>1 DEF CalmOf, Phase, Push!Quiet
  <2>3. Single' /\ \A i \in Tasks : TaskOf(i)'
    BY <2>1 DEF CalmOf, Single, Busy, TaskOf
  <2>4. Push!Quiet' => Rested'
    BY <2>1 DEF CalmOf, Push!Quiet, Rested
  <2> QED
    BY <1>1, <2>1, <2>2, <2>3, <2>4 DEF CalmOf
<1> QED
  BY <1>4, <1>5, <1>6 DEF Push!Boot

\* a job,
LEMMA WorkStep ==
    ASSUME Push!TypeOK, CalmOf, NEW j \in Tasks, Push!Work(j)
    PROVE  CalmOf'
<1>0. /\ task \in [Tasks -> TaskType] /\ TaskOf(j) /\ Busy(j) /\ UNCHANGED Push!app /\ pref' = pref
      /\ row \in {session, Null} /\ leaving = "no"
  <2>1. Busy(j) /\ UNCHANGED Push!app /\ pref' = pref
    BY DEF Push!Work, Push!CheckPref, Push!GetToken, Push!CheckKey, Push!Post, Push!RowDeleted,
       Push!RowInserted, Push!KeepKey, Push!Withdraw,
         Push!RowRemoved, Push!ForgetKey, Busy
  <2> QED
    BY <2>1, PushTypes DEF CalmOf, TaskOf
<1>1. session' = session /\ leaving' = leaving
  BY <1>0 DEF Push!app
<1>2. ASSUME \A i \in Tasks : i # j => task'[i] = task[i],
             row' \in {session, Null}, TaskOf(j)', task'[j].at = "idle" => Rested'
      PROVE  CalmOf'
  BY <1>0, <1>2, WorkFrame
<1>3. ASSUME NEW step \in Kinds, Push!To(j, step)
      PROVE  /\ task'[j].at = step /\ task'[j].who = task[j].who
             /\ \A i \in Tasks : i # j => task'[i] = task[i]
  BY <1>0, <1>3, ToFacts DEF Push!To
<1>4. ASSUME Push!End(j)
      PROVE  /\ task'[j].at = "idle" /\ \A i \in Tasks : i # j => task'[i] = task[i]
  BY <1>0, <1>4, EndFacts
<1>5. CASE Push!CheckPref(j)
  <2>1. UNCHANGED <<row, saved>> /\ task[j].at = "register"
    BY <1>5 DEF Push!CheckPref
  <2>2. CASE pref
    <3>1. task'[j].at = "token" /\ \A i \in Tasks : i # j => task'[i] = task[i]
      BY <1>3, <1>5, <2>2 DEF Push!CheckPref, Push!Wanted, Kinds
    <3> QED
      BY <1>0, <1>1, <1>2, <2>1, <2>2, <3>1 DEF TaskOf, Busy
  <2>3. CASE ~pref
    <3>1. task'[j].at = "idle" /\ \A i \in Tasks : i # j => task'[i] = task[i]
      BY <1>4, <1>5, <2>3 DEF Push!CheckPref, Push!Wanted
    <3> QED
      BY <1>0, <1>1, <1>2, <2>1, <2>3, <3>1 DEF TaskOf, Busy, Rested
  <2> QED
    BY <2>2, <2>3
<1>6. CASE Push!CheckKey(j)
  <2>1. UNCHANGED <<row, saved>> /\ task[j].at = "key"
    BY <1>6 DEF Push!CheckKey
  <2>2. CASE ~saved
    <3>1. task'[j].at = "post" /\ \A i \in Tasks : i # j => task'[i] = task[i]
      BY <1>3, <1>6, <2>2 DEF Push!CheckKey, Kinds
    <3> QED
      BY <1>0, <1>1, <1>2, <2>1, <2>2, <3>1 DEF TaskOf, Busy
  <2>3. CASE saved
    <3>1. task'[j].at = "idle" /\ \A i \in Tasks : i # j => task'[i] = task[i]
      BY <1>4, <1>6, <2>3 DEF Push!CheckKey
    <3> QED
      BY <1>0, <1>1, <1>2, <2>1, <2>3, <3>1 DEF TaskOf, Busy, Rested
  <2> QED
    BY <2>2, <2>3
<1>7. CASE Push!Post(j)
  <2>1. UNCHANGED <<row, saved>> /\ task[j].at = "post" /\ session # Null
    BY <1>0, <1>7 DEF Push!Post, TaskOf
  <2>2. [at |-> "delete", who |-> session] \in TaskType
    BY PushTypes DEF TaskType, Kinds
  <2>3. task' = [task EXCEPT ![j] = [at |-> "delete", who |-> session]]
    BY <1>7, <2>1 DEF Push!Post
  <2>4. /\ task'[j] = [at |-> "delete", who |-> session]
        /\ \A i \in Tasks : i # j => task'[i] = task[i]
    BY <1>0, <2>2, <2>3, TaskFacts
  <2> QED
    BY <1>0, <1>1, <1>2, <2>1, <2>4 DEF TaskOf, Busy
<1>8. CASE Push!RowDeleted(j)
  <2>1. row' = Null /\ saved' = saved /\ task[j].at = "delete"
    BY <1>8 DEF Push!RowDeleted
  <2>2. task'[j].at = "insert" /\ task'[j].who = task[j].who /\ \A i \in Tasks : i # j => task'[i] = task[i]
    BY <1>3, <1>8 DEF Push!RowDeleted, Kinds
  <2> QED
    BY <1>0, <1>1, <1>2, <2>1, <2>2 DEF TaskOf, Busy
<1>9. CASE Push!RowInserted(j)
  <2>1. row = Null /\ task[j].who = session /\ session # Null
    BY <1>0, <1>9 DEF Push!RowInserted, TaskOf
  <2>2. row' = session /\ saved' = saved /\ task[j].at = "insert"
    BY <1>9, <2>1 DEF Push!RowInserted
  <2>3. task'[j].at = "keep" /\ task'[j].who = task[j].who /\ \A i \in Tasks : i # j => task'[i] = task[i]
    BY <1>3, <1>9, <2>1 DEF Push!RowInserted, Kinds
  <2> QED
    BY <1>0, <1>1, <1>2, <2>1, <2>2, <2>3 DEF TaskOf, Busy
<1>10. CASE Push!KeepKey(j)
  <2>1. row' = row /\ saved' = TRUE /\ task[j].at = "keep"
    BY <1>10 DEF Push!KeepKey
  <2>2. task'[j].at = "idle" /\ \A i \in Tasks : i # j => task'[i] = task[i]
    BY <1>4, <1>10 DEF Push!KeepKey
  <2> QED
    BY <1>0, <1>1, <1>2, <2>1, <2>2 DEF TaskOf, Busy, Rested
<1>11. CASE Push!Withdraw(j)
  <2>1. UNCHANGED <<row, saved>> /\ task[j].at = "unregister"
    BY <1>11 DEF Push!Withdraw
  <2>2. CASE ~saved
    <3>1. task' = [task EXCEPT ![j] = [Push!Idle EXCEPT !.at = "forget"]]
      BY <1>11, <2>2 DEF Push!Withdraw
    <3>2. [Push!Idle EXCEPT !.at = "forget"] \in TaskType /\ [Push!Idle EXCEPT !.at = "forget"].at = "forget"
      BY DEF Push!Idle, TaskType, Kinds
    <3>3. task'[j].at = "forget" /\ \A i \in Tasks : i # j => task'[i] = task[i]
      BY <1>0, <3>1, <3>2, TaskFacts
    <3> QED
      BY <1>0, <1>1, <1>2, <2>1, <2>2, <3>3 DEF TaskOf, Busy
  <2>3. CASE saved
    <3>1. session # Null /\ row = session
      BY <1>0, <2>1, <2>3 DEF TaskOf
    <3>2. task' = [task EXCEPT ![j] = [at |-> "remove", who |-> session]]
      BY <1>11, <2>3, <3>1 DEF Push!Withdraw
    <3>3. [at |-> "remove", who |-> session] \in TaskType
      BY PushTypes DEF TaskType, Kinds
    <3>4. /\ task'[j] = [at |-> "remove", who |-> session]
          /\ \A i \in Tasks : i # j => task'[i] = task[i]
      BY <1>0, <3>2, <3>3, TaskFacts
    <3> QED
      BY <1>0, <1>1, <1>2, <2>1, <2>3, <3>1, <3>4 DEF TaskOf, Busy
  <2> QED
    BY <2>2, <2>3
<1>12. CASE Push!RowRemoved(j)
  <2>1. row' = Null /\ saved' = saved /\ task[j].at = "remove"
    BY <1>0, <1>12 DEF Push!RowRemoved, TaskOf
  <2>2. task'[j].at = "forget" /\ \A i \in Tasks : i # j => task'[i] = task[i]
    BY <1>3, <1>12 DEF Push!RowRemoved, Kinds
  <2> QED
    BY <1>0, <1>1, <1>2, <2>1, <2>2 DEF TaskOf, Busy
<1>13. CASE Push!ForgetKey(j)
  <2>1. row' = row /\ saved' = FALSE /\ task[j].at = "forget"
    BY <1>13 DEF Push!ForgetKey
  <2>2. task'[j].at = "idle" /\ \A i \in Tasks : i # j => task'[i] = task[i]
    BY <1>4, <1>13 DEF Push!ForgetKey
  <2> QED
    BY <1>0, <1>1, <1>2, <2>1, <2>2 DEF TaskOf, Busy, Rested
<1>14. CASE Push!GetToken(j)
  <2>1. UNCHANGED <<row, saved>> /\ task[j].at = "token"
    BY <1>14 DEF Push!GetToken
  <2>2. CASE Push!To(j, "key")
    <3>1. task'[j].at = "key" /\ \A i \in Tasks : i # j => task'[i] = task[i]
      BY <1>3, <2>2 DEF Kinds
    <3> QED
      BY <1>0, <1>1, <1>2, <2>1, <3>1 DEF TaskOf, Busy
  <2>3. CASE Push!End(j) /\ barred' = TRUE
    <3>1. task'[j].at = "idle" /\ \A i \in Tasks : i # j => task'[i] = task[i]
      BY <1>4, <2>3
    <3> QED
      BY <1>0, <1>1, <1>2, <2>1, <2>3, <3>1 DEF TaskOf, Busy, Rested
  <2> QED
    BY <1>14, <2>2, <2>3 DEF Push!GetToken
<1> QED
  BY <1>5, <1>6, <1>7, <1>8, <1>9, <1>10, <1>11, <1>12, <1>13, <1>14 DEF Push!Work

\* and every other step.
LEMMA CalmStep ==
    ASSUME Push!TypeOK, UserSame, CalmInv, [Push!Next]_(Push!vars)
    PROVE  CalmInv'
<1>1. CASE UNCHANGED Push!vars
  BY <1>1 DEF Push!vars, Push!app, CalmInv, CalmOf, Single, Busy, Phase, TaskOf, Rested, Push!Quiet
<1>2. ASSUME calm', Push!Next
      PROVE  CalmOf'
  <2>1. CASE \/ \E j \in Tasks, u \in Users : Push!SignIn(j, u)
             \/ Push!SignOut \/ Push!Restart \/ \E j \in Tasks : Push!Toggle(j)
    BY <1>2, <2>1, ActStep
  <2>2. CASE Push!Leave \/ Push!Answer(FALSE)
    <3>1. calm' = calm
      BY <2>2 DEF Push!Leave, Push!Answer, Push!ClearSession, Push!LeaveDone
    <3> QED
      BY <1>2, <2>2, <3>1, LeaveStep DEF Push!Leave, CalmInv
  <2>3. CASE Push!AskAgain \/ \E j \in Tasks : Push!Boot(j)
    <3>1. calm' = calm
      BY <2>3 DEF Push!AskAgain, Push!Boot, Push!Rehydrate, Push!CheckSession
    <3> QED
      BY <1>2, <2>3, <3>1, BootStep DEF CalmInv
  <2>4. ASSUME NEW j \in Tasks, Push!Work(j)
        PROVE  CalmOf'
    <3>1. calm' = calm
      BY <2>4 DEF Push!Work, Push!CheckPref, Push!GetToken, Push!CheckKey, Push!Post, Push!RowDeleted,
         Push!RowInserted, Push!KeepKey, Push!Withdraw,
           Push!RowRemoved, Push!ForgetKey
    <3> QED
      BY <1>2, <2>4, <3>1, WorkStep DEF CalmInv
  <2>5. CASE \E j \in Tasks : Push!Lost(j)
    BY <1>2, <2>5 DEF Push!Lost
  <2> QED
    BY <1>2, <2>1, <2>2, <2>3, <2>4, <2>5 DEF Push!Next
<1> QED
  BY <1>1, <1>2 DEF CalmInv

\* The app as it is installed.
LEMMA PushStarts ==
    Push!Init => PushInv
<1> SUFFICES ASSUME Push!Init
             PROVE  PushInv
  OBVIOUS
<1>1. Push!Idle \in TaskType /\ Push!Idle.at = "idle"
  BY DEF Push!Idle, TaskType, Kinds
<1>2. Push!TypeOK
  <2>1. 0 \in 0 .. MaxVisits /\ 0 \in 0 .. MaxLosses
    BY BoundsAssumption
  <2>2. task \in [Tasks -> TaskType] /\ \A j \in Tasks : task[j].at = "idle"
    BY <1>1 DEF Push!Init
  <2> QED
    BY <2>1, <2>2, PushTypes DEF Push!Init
<1>3. UserSame
  BY DEF Push!Init, UserSame
<1>4. CalmOf
  BY <1>1 DEF Push!Init, CalmOf, Single, Phase, Busy, TaskOf, Rested
<1> QED
  BY <1>2, <1>3, <1>4 DEF PushInv, CalmInv

LEMMA PushAlways == Push!Spec => []PushInv
<1>1. PushInv /\ [Push!Next]_(Push!vars) => PushInv'
  BY PushTypeStep, SameStep, CalmStep DEF PushInv
<1> QED
  BY <1>1, PushStarts, PTL DEF Push!Spec

LEMMA DeviceFollows == Push!Spec => []Push!FollowsPreference
<1>1. PushInv => Push!FollowsPreference
  BY SettledFacts DEF PushInv, CalmInv, Push!FollowsPreference, Rested
<1> QED
  BY <1>1, PushAlways, PTL

-----------------------------------------------------------------------------
(* The form of the app: AppListingForm *)

\* What a call of saveDraft is, and what handleSubmit is.
SaverType == {Null} \cup [at : {"delete", "insert"}, draft : AppForm!Draft]
SubmissionType == {Null} \cup [at : {"upload", "post", "clear"}, draft : AppForm!Draft]

\* The snapshot is of the form.
LEMMA SnapshotType ==
    ASSUME AppForm!TypeOK, category # Null
    PROVE  /\ AppForm!Snapshot \in AppForm!Draft /\ AppForm!Snapshot.cat = category /\ AppForm!Snapshot.photos = images
<1> DEFINE f == category \in filled
<1>1. f \in BOOLEAN
  OBVIOUS
<1> HIDE DEF f
<1>2. AppForm!Snapshot = [cat |-> category, photos |-> images, full |-> f]
  BY DEF AppForm!Snapshot, f
<1>3. category \in Cats /\ images \in SUBSET Photos
  BY DEF AppForm!TypeOK
<1> QED
  BY <1>1, <1>2, <1>3 DEF AppForm!Draft

\* What the timer of the server's draft will store is of the form.
LEMMA ArmedType ==
    ASSUME NEW c \in Cats, NEW ps \in SUBSET Photos, NEW full
    PROVE  /\ AppForm!Armed(c, ps, full) \in AppForm!Drafts
           /\ AppForm!Armed(c, ps, full) # Null =>
                AppForm!Armed(c, ps, full).cat = c /\ AppForm!Armed(c, ps, full).photos = ps
<1>1. [cat |-> c, photos |-> ps, full |-> TRUE] \in AppForm!Draft
  BY DEF AppForm!Draft
<1> QED
  BY <1>1 DEF AppForm!Armed, AppForm!Drafts, AppForm!Draft

\* Without a category's draft the others are still there, and nothing else.
LEMMA WithoutType ==
    ASSUME AppForm!TypeOK, NEW c
    PROVE  /\ AppForm!Without(c) \in Seq(AppForm!Draft)
           /\ \A i \in DOMAIN AppForm!Without(c) : \E k \in DOMAIN remote : AppForm!Without(c)[i] = remote[k]
<1>1. remote \in Seq(AppForm!Draft)
  BY DEF AppForm!TypeOK
<1>2. CASE ~AppForm!Stored(c)
  BY <1>1, <1>2 DEF AppForm!Without
<1>3. CASE AppForm!Stored(c)
  <2>1. PICK i : i = CHOOSE k \in DOMAIN remote : remote[k].cat = c
    OBVIOUS
  <2>2. i \in DOMAIN remote
    BY <1>3, <2>1 DEF AppForm!Stored
  <2>3. i \in 1 .. Len(remote) /\ Len(remote) \in Nat
    BY <1>1, <2>2
  <2>4. AppForm!Without(c) = SubSeq(remote, 1, i - 1) \o SubSeq(remote, i + 1, Len(remote))
    BY <1>3, <2>1 DEF AppForm!Without
  <2> DEFINE a == SubSeq(remote, 1, i - 1)
             b == SubSeq(remote, i + 1, Len(remote))
  <2>5. /\ a \in Seq(AppForm!Draft) /\ Len(a) = i - 1
        /\ \A k \in 1 .. i - 1 : a[k] = remote[k]
    BY <1>1, <2>3
  <2>6. /\ b \in Seq(AppForm!Draft) /\ Len(b) = Len(remote) - i
        /\ \A k \in 1 .. Len(remote) - i : b[k] = remote[i + k]
    BY <1>1, <2>3
  <2> HIDE DEF a, b
  <2>7. /\ a \o b \in Seq(AppForm!Draft) /\ Len(a \o b) = Len(a) + Len(b)
        /\ \A k \in 1 .. Len(a) + Len(b) : (a \o b)[k] = IF k <= Len(a) THEN a[k] ELSE b[k - Len(a)]
    BY <2>5, <2>6
  <2>8. ASSUME NEW k \in 1 .. Len(a) + Len(b)
        PROVE  \E l \in DOMAIN remote : (a \o b)[k] = remote[l]
    <3>1. CASE k <= i - 1
      BY <1>1, <2>3, <2>5, <2>7, <3>1
    <3>2. CASE k > i - 1
      <4>1. (a \o b)[k] = b[k - (i - 1)] /\ k - (i - 1) \in 1 .. Len(remote) - i
        BY <2>3, <2>5, <2>6, <2>7, <3>2
      <4>2. (a \o b)[k] = remote[k + 1] /\ k + 1 \in 1 .. Len(remote)
        BY <2>3, <2>6, <4>1
      <4> QED
        BY <1>1, <4>2
    <3> QED
      BY <2>3, <3>1, <3>2
  <2>9. DOMAIN (a \o b) = 1 .. Len(a) + Len(b)
    BY <2>7
  <2> QED
    BY <2>4, <2>7, <2>8, <2>9 DEF a, b
<1> QED
  BY <1>2, <1>3

\* The counters keep within their bounds.
LEMMA FormCounts ==
    ASSUME AppForm!TypeOK
    PROVE  /\ AppForm!Act => taps' \in 0 .. MaxTaps
           /\ AppForm!Fault => failures' \in 0 .. MaxFailures
           /\ \A ok : AppForm!Outcome(ok) => failures' \in 0 .. MaxFailures
<1>1. \A n, m \in Nat : n \in 0 .. m /\ n < m => n + 1 \in 0 .. m
  OBVIOUS
<1>2. \A n, m \in Nat : n \in 0 .. m => n \in Nat
  OBVIOUS
<1> QED
  BY <1>1, BoundsAssumption DEF AppForm!TypeOK, AppForm!Act, AppForm!Fault, AppForm!Outcome

\* What Apply does with a draft.
LEMMA ApplyFacts ==
    ASSUME AppForm!TypeOK, NEW d \in AppForm!Draft, AppForm!Apply(d)
    PROVE  /\ category' = d.cat /\ category' \in Cats /\ images' = d.photos
           /\ images' \subseteq Photos
           /\ filled' \subseteq Cats /\ short' = TRUE /\ long' \in AppForm!Drafts
           /\ long' # Null => long'.cat = category' /\ long'.photos = images'
           /\ mixed' \in BOOLEAN /\ picking' = picking
           /\ mixed' \/ (picking = {} /\ ~mixed)
<1>1. d.cat \in Cats /\ d.photos \in SUBSET Photos
  BY DEF AppForm!Draft
<1>2. long' = AppForm!Armed(d.cat, d.photos, d.cat \in filled') /\ category' = d.cat /\ images' = d.photos
  BY DEF AppForm!Apply
<1>3. /\ long' \in AppForm!Drafts
      /\ long' # Null => long'.cat = d.cat /\ long'.photos = d.photos
  BY <1>1, <1>2, ArmedType
<1>4. filled' \subseteq Cats /\ short' = TRUE /\ picking' = picking
  BY <1>1 DEF AppForm!Apply, AppForm!TypeOK
<1>5. mixed' \in BOOLEAN /\ (mixed' \/ (picking = {} /\ ~mixed))
  BY DEF AppForm!Apply
<1> QED
  BY <1>1, <1>2, <1>3, <1>4, <1>5

\* A submission goes on with the photos that were stored.
LEMMA SubmissionTypes ==
    ASSUME NEW d \in AppForm!Draft, NEW at \in {"upload", "post", "clear"}, NEW ps \in SUBSET Photos
    PROVE  /\ [at |-> at, draft |-> d] \in SubmissionType
           /\ [d EXCEPT !.photos = ps] \in AppForm!Draft
           /\ [d EXCEPT !.photos = ps].cat = d.cat /\ [d EXCEPT !.photos = ps].photos = ps
BY DEF AppForm!Draft, SubmissionType

\* The user is asked about a draft that there is.
PromptInv == loading = "prompt" => offer # Null

\* The question is only asked with a draft.
LEMMA PromptStep ==
    ASSUME PromptInv, [AppForm!Next]_(AppForm!vars)
    PROVE  PromptInv'
BY DEF PromptInv, AppForm!Next, AppForm!vars, AppForm!form, AppForm!calls, AppForm!drafts,
   AppForm!history, AppForm!Choose, AppForm!Type, AppForm!Back, AppForm!Pick, AppForm!Picked,
   AppForm!Remove,
       AppForm!LocalSave, AppForm!SaveStart, AppForm!SaveDeleted, AppForm!SaveInserted,
       AppForm!SaveLost, AppForm!RemoteLoaded, AppForm!LocalLoaded,
       AppForm!OfferTaken, AppForm!OfferRefused, AppForm!Submit, AppForm!Uploaded, AppForm!Posted,
       AppForm!PostFailed, AppForm!Cleared, AppForm!Deleted, AppForm!Reopen

\* Types are kept, one action at a time.
LEMMA FormTypeStep ==
    ASSUME AppForm!TypeOK, PromptInv, [AppForm!Next]_(AppForm!vars)
    PROVE  AppForm!TypeOK'
<1> USE DEF SaverType, SubmissionType
<1>0. /\ \A d : d # Null /\ d \in AppForm!Drafts => d \in AppForm!Draft
      /\ Null \in AppForm!Drafts /\ AppForm!Draft \subseteq AppForm!Drafts
  BY DEF AppForm!Drafts
<1>1. ASSUME NEW c \in Cats, AppForm!Choose(c)
      PROVE  AppForm!TypeOK'
  <2>1. long' \in AppForm!Drafts
    BY <1>1, ArmedType DEF AppForm!Choose, AppForm!TypeOK
  <2> QED
    BY <1>1, <2>1, FormCounts DEF AppForm!Choose, AppForm!TypeOK, AppForm!calls, AppForm!drafts,
       AppForm!history
<1>2. CASE AppForm!Type
  <2>1. category \in Cats /\ images \in SUBSET Photos
    BY <1>2 DEF AppForm!Type, AppForm!TypeOK
  <2>2. long' \in AppForm!Drafts
    BY <1>2, <2>1, ArmedType DEF AppForm!Type
  <2> QED
    BY <1>2, <2>1, <2>2, FormCounts DEF AppForm!Type, AppForm!TypeOK, AppForm!calls, AppForm!drafts,
       AppForm!history
<1>3. CASE AppForm!Back
  BY <1>3, <1>0, FormCounts DEF AppForm!Back, AppForm!LeftEmpty, AppForm!TypeOK, AppForm!calls,
     AppForm!drafts, AppForm!history
<1>4. ASSUME NEW ps \in SUBSET Photos, AppForm!Pick(ps)
      PROVE  AppForm!TypeOK'
  BY <1>4, FormCounts DEF AppForm!Pick, AppForm!TypeOK, AppForm!calls, AppForm!drafts
<1>5. ASSUME NEW ok \in SUBSET Photos, AppForm!Picked(ok)
      PROVE  AppForm!TypeOK'
  <2>1. images' \subseteq Photos
    BY <1>5 DEF AppForm!Picked, AppForm!TypeOK
  <2>2. short' \in BOOLEAN
    BY <1>5 DEF AppForm!Picked
  <2> QED
    BY <1>5, <2>1, <2>2 DEF AppForm!Picked, AppForm!TypeOK, AppForm!calls, AppForm!drafts,
       AppForm!history
<1>6. ASSUME NEW p \in Photos, AppForm!Remove(p)
      PROVE  AppForm!TypeOK'
  BY <1>6, FormCounts DEF AppForm!Remove, AppForm!TypeOK, AppForm!calls, AppForm!drafts, AppForm!history
<1>7. CASE AppForm!LocalSave
  <2>1. local' \in [Cats -> AppForm!Drafts]
    <3>1. CASE category = Null
      BY <1>7, <3>1, NobodyAssumption, NoDraftAssumption DEF AppForm!LocalSave, AppForm!TypeOK
    <3>2. CASE category # Null
      BY <1>7, <3>2, <1>0, SnapshotType DEF AppForm!LocalSave, AppForm!TypeOK
    <3> QED
      BY <3>1, <3>2
  <2> QED
    BY <1>7, <2>1 DEF AppForm!LocalSave, AppForm!TypeOK, AppForm!calls
<1>8. ASSUME NEW s \in Saves, AppForm!SaveStart(s)
      PROVE  AppForm!TypeOK'
  <2>1. long \in AppForm!Draft /\ long.cat \in Cats
    BY <1>8, <1>0 DEF AppForm!SaveStart, AppForm!TypeOK, AppForm!Draft
  <2>2. local' \in [Cats -> AppForm!Drafts] /\ meta' \in Cats /\ long' \in AppForm!Drafts
    BY <1>8, <1>0, <2>1 DEF AppForm!SaveStart, AppForm!TypeOK
  <2>3. [at |-> "delete", draft |-> long] \in SaverType
    BY <2>1
  <2>4. saver' \in [Saves -> SaverType]
    BY <1>8, <2>3 DEF AppForm!SaveStart, AppForm!TypeOK
  <2>5. behind' \in BOOLEAN
    BY <1>8 DEF AppForm!SaveStart
  <2> QED
    BY <1>8, <2>2, <2>4, <2>5 DEF AppForm!SaveStart, AppForm!TypeOK
<1>9. ASSUME NEW s \in Saves, NEW ok \in BOOLEAN, AppForm!SaveDeleted(s, ok)
      PROVE  AppForm!TypeOK'
  <2>1. remote' \in Seq(AppForm!Draft) /\ failures' \in 0 .. MaxFailures
    BY <1>9, WithoutType, FormCounts DEF AppForm!SaveDeleted, AppForm!TypeOK
  <2>2. saver[s] \in [at : {"delete", "insert"}, draft : AppForm!Draft]
    BY <1>9 DEF AppForm!SaveDeleted, AppForm!TypeOK
  <2>3. [saver[s] EXCEPT !.at = "insert"] \in SaverType
    BY <2>2
  <2>4. saver' \in [Saves -> SaverType]
    BY <1>9, <2>3 DEF AppForm!SaveDeleted, AppForm!TypeOK
  <2> QED
    BY <1>9, <2>1, <2>4 DEF AppForm!SaveDeleted, AppForm!TypeOK, AppForm!form, AppForm!history
<1>10. ASSUME NEW s \in Saves, AppForm!SaveInserted(s)
       PROVE  AppForm!TypeOK'
  <2>1. saver[s].draft \in AppForm!Draft
    BY <1>10 DEF AppForm!SaveInserted, AppForm!TypeOK
  <2>2. remote' \in Seq(AppForm!Draft)
    BY <1>10, <2>1 DEF AppForm!SaveInserted, AppForm!TypeOK
  <2> QED
    BY <1>10, <2>2 DEF AppForm!SaveInserted, AppForm!TypeOK, AppForm!form, AppForm!history
<1>11. ASSUME NEW s \in Saves, AppForm!SaveLost(s)
       PROVE  AppForm!TypeOK'
  BY <1>11, FormCounts DEF AppForm!SaveLost, AppForm!TypeOK, AppForm!form, AppForm!drafts,
     AppForm!history
<1>12. CASE AppForm!RemoteLoaded
  <2>1. remote[1] \in AppForm!Draft
    BY <1>12 DEF AppForm!RemoteLoaded, AppForm!TypeOK
  <2>2. /\ category' \in Cats /\ images' \subseteq Photos /\ filled' \subseteq Cats
        /\ short' = TRUE /\ long' \in AppForm!Drafts /\ mixed' \in BOOLEAN /\ picking' = picking
    BY <1>12, <2>1, ApplyFacts DEF AppForm!RemoteLoaded
  <2> QED
    BY <1>12, <2>2 DEF AppForm!RemoteLoaded, AppForm!TypeOK, AppForm!drafts
<1>13. ASSUME NEW ok \in BOOLEAN, NEW young \in BOOLEAN, AppForm!LocalLoaded(ok, young)
       PROVE  AppForm!TypeOK'
  <2>1. failures' \in 0 .. MaxFailures
    BY <1>13, FormCounts DEF AppForm!LocalLoaded
  <2>2. offer' \in AppForm!Drafts /\ loading' \in {"asked", "prompt", "done"}
    BY <1>13 DEF AppForm!LocalLoaded, AppForm!TypeOK
  <2> QED
    BY <1>13, <2>1, <2>2 DEF AppForm!LocalLoaded, AppForm!TypeOK, AppForm!form, AppForm!drafts,
       AppForm!history
<1>14. CASE AppForm!OfferTaken \/ AppForm!OfferRefused
  <2>1. CASE offer \in AppForm!Draft
    <3>1. CASE AppForm!OfferTaken
      <4>1. /\ category' \in Cats /\ images' \subseteq Photos /\ filled' \subseteq Cats
            /\ short' = TRUE /\ long' \in AppForm!Drafts /\ mixed' \in BOOLEAN /\ picking' = picking
        BY <3>1, <2>1, ApplyFacts DEF AppForm!OfferTaken
      <4> QED
        BY <3>1, <4>1, <1>0 DEF AppForm!OfferTaken, AppForm!TypeOK, AppForm!drafts
    <3>2. CASE AppForm!OfferRefused
      <4>1. local' \in [Cats -> AppForm!Drafts]
        BY <3>2, <1>0 DEF AppForm!OfferRefused, AppForm!TypeOK
      <4>2. behind' \in BOOLEAN
        BY <3>2 DEF AppForm!OfferRefused
      <4> QED
        BY <3>2, <4>1, <4>2, <1>0 DEF AppForm!OfferRefused, AppForm!TypeOK, AppForm!form
    <3> QED
      BY <1>14, <3>1, <3>2
  <2>2. loading = "prompt" /\ offer # Null /\ offer \in AppForm!Drafts
    BY <1>14 DEF AppForm!OfferTaken, AppForm!OfferRefused, PromptInv, AppForm!TypeOK
  <2> QED
    BY <2>1, <2>2, <1>0
<1>15. CASE AppForm!Submit
  <2>1. AppForm!Snapshot \in AppForm!Draft
    BY <1>15, SnapshotType DEF AppForm!Submit
  <2>2. submit' \in SubmissionType
    BY <1>15, <2>1 DEF AppForm!Submit
  <2> QED
    BY <1>15, <2>2, FormCounts DEF AppForm!Submit, AppForm!TypeOK, AppForm!form, AppForm!drafts,
       AppForm!history
<1>16. ASSUME NEW got \in SUBSET Photos, AppForm!Uploaded(got)
       PROVE  AppForm!TypeOK'
  <2>1. submit.draft \in AppForm!Draft
    BY <1>16 DEF AppForm!Uploaded, AppForm!TypeOK
  <2>2. [at |-> "post", draft |-> [submit.draft EXCEPT !.photos = got]] \in SubmissionType
    BY <2>1, SubmissionTypes
  <2>3. submit' \in SubmissionType /\ failures' \in 0 .. MaxFailures
    BY <1>16, <2>2, FormCounts DEF AppForm!Uploaded
  <2> QED
    BY <1>16, <2>3 DEF AppForm!Uploaded, AppForm!TypeOK, AppForm!form, AppForm!drafts, AppForm!history
<1>17. CASE AppForm!Posted \/ AppForm!PostFailed
  <2>1. submit' \in SubmissionType /\ failures' \in 0 .. MaxFailures
    <3>1. CASE AppForm!Posted
      BY <3>1 DEF AppForm!Posted, AppForm!TypeOK
    <3>2. CASE AppForm!PostFailed
      BY <3>2, FormCounts DEF AppForm!PostFailed
    <3> QED
      BY <1>17, <3>1, <3>2
  <2> QED
    BY <1>17, <2>1 DEF AppForm!Posted, AppForm!PostFailed, AppForm!TypeOK, AppForm!form,
       AppForm!drafts, AppForm!history
<1>18. CASE AppForm!Cleared
  <2>1. submit.draft.cat \in Cats
    BY <1>18 DEF AppForm!Cleared, AppForm!TypeOK, AppForm!Draft
  <2>2. behind' \in BOOLEAN
    BY <1>18 DEF AppForm!Cleared
  <2>3. local' \in [Cats -> AppForm!Drafts]
    BY <1>18, <1>0 DEF AppForm!Cleared, AppForm!TypeOK
  <2> QED
    BY <1>18, <2>1, <2>2, <2>3 DEF AppForm!Cleared, AppForm!TypeOK, AppForm!form
<1>19. ASSUME NEW c \in Cats, NEW ok \in BOOLEAN, AppForm!Deleted(c, ok)
       PROVE  AppForm!TypeOK'
  <2>1. remote' \in Seq(AppForm!Draft) /\ failures' \in 0 .. MaxFailures
    BY <1>19, WithoutType, FormCounts DEF AppForm!Deleted, AppForm!TypeOK
  <2> QED
    BY <1>19, <2>1 DEF AppForm!Deleted, AppForm!TypeOK, AppForm!form, AppForm!history
<1>20. CASE AppForm!Reopen
  BY <1>20, <1>0, FormCounts DEF AppForm!Reopen, AppForm!TypeOK, AppForm!drafts
<1>21. CASE UNCHANGED AppForm!vars
  BY <1>21 DEF AppForm!vars, AppForm!form, AppForm!calls, AppForm!drafts, AppForm!history,
     AppForm!TypeOK
<1> QED
  BY <1>1, <1>2, <1>3, <1>4, <1>5, <1>6, <1>7, <1>8, <1>9, <1>10, <1>11, <1>12, <1>13, <1>14,
     <1>15, <1>16, <1>17, <1>18, <1>19, <1>20, <1>21 DEF AppForm!Next

-----------------------------------------------------------------------------
(* The draft of the device *)

\* A step that leaves the timer off leaves the draft what the form shows.
LEMMA KeepsUpStep ==
    ASSUME AppForm!TypeOK, AppForm!DraftKeepsUp, [AppForm!Next]_(AppForm!vars)
    PROVE  AppForm!DraftKeepsUp'
<1>1. CASE short' = TRUE \/ category' = Null \/ behind' = TRUE
  BY <1>1 DEF AppForm!DraftKeepsUp
<1>2. CASE UNCHANGED <<AppForm!form, local, behind>>
  BY <1>2 DEF AppForm!DraftKeepsUp, AppForm!Snapshot, AppForm!form
<1>3. ASSUME NEW c \in Cats, AppForm!Choose(c)
      PROVE  AppForm!DraftKeepsUp'
  BY <1>1, <1>3 DEF AppForm!Choose
<1>4. CASE AppForm!Type \/ AppForm!Back \/ AppForm!Reopen \/ AppForm!RemoteLoaded \/ AppForm!OfferTaken
  BY <1>1, <1>4 DEF AppForm!Type, AppForm!Back, AppForm!Reopen, AppForm!RemoteLoaded,
     AppForm!OfferTaken, AppForm!Apply
<1>5. ASSUME NEW ps \in SUBSET Photos, AppForm!Pick(ps)
      PROVE  AppForm!DraftKeepsUp'
  BY <1>5 DEF AppForm!Pick, AppForm!DraftKeepsUp, AppForm!Snapshot, AppForm!drafts
<1>6. ASSUME NEW ok \in SUBSET Photos, AppForm!Picked(ok)
      PROVE  AppForm!DraftKeepsUp'
  <2>1. ok # {} => short' = TRUE
    BY <1>6 DEF AppForm!Picked, AppForm!Changed
  <2>2. ok = {} => images' = images
    BY <1>6 DEF AppForm!Picked
  <2>3. ~short' => ~short
    BY <1>6 DEF AppForm!Picked
  <2>4. UNCHANGED <<category, filled, local, behind>>
    BY <1>6 DEF AppForm!Picked, AppForm!drafts, AppForm!history
  <2> QED
    BY <2>1, <2>2, <2>3, <2>4, <1>6 DEF AppForm!DraftKeepsUp, AppForm!Snapshot, AppForm!Picked,
       AppForm!Changed
<1>7. ASSUME NEW p \in Photos, AppForm!Remove(p)
      PROVE  AppForm!DraftKeepsUp'
  BY <1>1, <1>7 DEF AppForm!Remove
<1>8. CASE AppForm!LocalSave
  <2>1. category' # Null => local'[category'] = AppForm!Snapshot /\ AppForm!Snapshot' = AppForm!Snapshot
    BY <1>8 DEF AppForm!LocalSave, AppForm!TypeOK, AppForm!Snapshot
  <2> QED
    BY <2>1 DEF AppForm!DraftKeepsUp
<1>9. ASSUME NEW s \in Saves, AppForm!SaveStart(s)
      PROVE  AppForm!DraftKeepsUp'
  <2>1. ASSUME category' # Null, ~behind'
        PROVE  local'[category'] = AppForm!Snapshot'
    <3>1. long = AppForm!Snapshot /\ category # Null /\ category' = category /\ AppForm!Snapshot' = AppForm!Snapshot
      BY <1>9, <2>1 DEF AppForm!SaveStart, AppForm!Snapshot
    <3>2. AppForm!Snapshot.cat = category /\ category \in Cats
      BY <3>1, SnapshotType DEF AppForm!TypeOK
    <3> QED
      BY <1>9, <3>1, <3>2 DEF AppForm!SaveStart, AppForm!TypeOK
  <2> QED
    BY <2>1 DEF AppForm!DraftKeepsUp
<1>10. CASE AppForm!OfferRefused
  <2>1. ASSUME ~behind'
        PROVE  ~behind /\ offer.cat # category
    BY <1>10, <2>1 DEF AppForm!OfferRefused
  <2>2. local' = [local EXCEPT ![offer.cat] = Null] /\ UNCHANGED AppForm!form
    BY <1>10 DEF AppForm!OfferRefused
  <2>3. category # Null => category \in Cats
    BY DEF AppForm!TypeOK
  <2> QED
    BY <2>1, <2>2, <2>3 DEF AppForm!DraftKeepsUp, AppForm!Snapshot, AppForm!form, AppForm!TypeOK
<1>11. CASE AppForm!Cleared
  <2>1. ASSUME ~behind'
        PROVE  ~behind /\ submit.draft.cat # category
    BY <1>11, <2>1 DEF AppForm!Cleared
  <2>2. local' = [local EXCEPT ![submit.draft.cat] = Null] /\ UNCHANGED AppForm!form
    BY <1>11 DEF AppForm!Cleared
  <2>3. category # Null => category \in Cats
    BY DEF AppForm!TypeOK
  <2> QED
    BY <2>1, <2>2, <2>3 DEF AppForm!DraftKeepsUp, AppForm!Snapshot, AppForm!form, AppForm!TypeOK
<1>12. ASSUME NEW s \in Saves, NEW ok \in BOOLEAN,
              AppForm!SaveDeleted(s, ok) \/ AppForm!SaveInserted(s) \/ AppForm!SaveLost(s)
       PROVE  AppForm!DraftKeepsUp'
  BY <1>2, <1>12 DEF AppForm!SaveDeleted, AppForm!SaveInserted, AppForm!SaveLost, AppForm!history,
     AppForm!drafts
<1>13. ASSUME NEW ok \in BOOLEAN, NEW young \in BOOLEAN, AppForm!LocalLoaded(ok, young)
       PROVE  AppForm!DraftKeepsUp'
  BY <1>2, <1>13 DEF AppForm!LocalLoaded, AppForm!history, AppForm!drafts
<1>14. ASSUME NEW got \in SUBSET Photos, AppForm!Submit \/ AppForm!Uploaded(got) \/ AppForm!Posted \/ AppForm!PostFailed
       PROVE  AppForm!DraftKeepsUp'
  BY <1>2, <1>14 DEF AppForm!Submit, AppForm!Uploaded, AppForm!Posted, AppForm!PostFailed,
     AppForm!history, AppForm!drafts
<1>15. ASSUME NEW c \in Cats, NEW ok \in BOOLEAN, AppForm!Deleted(c, ok)
       PROVE  AppForm!DraftKeepsUp'
  BY <1>2, <1>15 DEF AppForm!Deleted, AppForm!history
<1>16. CASE UNCHANGED AppForm!vars
  BY <1>2, <1>16 DEF AppForm!vars, AppForm!drafts, AppForm!history
<1> QED
  BY <1>3, <1>4, <1>5, <1>6, <1>7, <1>8, <1>9, <1>10, <1>11, <1>12, <1>13, <1>14, <1>15, <1>16
     DEF AppForm!Next

-----------------------------------------------------------------------------
(* Own photos *)

\* What OwnCategory needs: also what is being checked, what a timer will store, what
\* a call of saveDraft carries and what the user is asked about are of one category,
\* and a form without a category has no photos.
OwnPhotosInv ==
    mixed \/
    /\ category = Null => images = {} /\ picking = {}
    /\ category # Null => \A p \in images \cup picking : chosen[p] = category
    /\ AppForm!OwnPhotos(long) /\ AppForm!OwnPhotos(offer)
    /\ \A s \in Saves : saver[s] # Null => AppForm!OwnPhotos(saver[s].draft)
    /\ submit # Null => AppForm!OwnPhotos(submit.draft)
    /\ \A c \in Cats : AppForm!OwnPhotos(local[c])
    /\ \A i \in DOMAIN remote : AppForm!OwnPhotos(remote[i])

\* Photos get their category when they are picked; every other step copies.
LEMMA OwnStep ==
    ASSUME AppForm!TypeOK, AppForm!TypeOK', PromptInv, OwnPhotosInv, [AppForm!Next]_(AppForm!vars)
    PROVE  OwnPhotosInv'
<1>0. CASE mixed' = TRUE
  BY <1>0 DEF OwnPhotosInv
<1>1. CASE mixed' = FALSE /\ mixed = FALSE
  <2> DEFINE Cs == chosen' = chosen
  <2>0. /\ category = Null => images = {} /\ picking = {}
        /\ category # Null => \A p \in images \cup picking : chosen[p] = category
        /\ AppForm!OwnPhotos(long) /\ AppForm!OwnPhotos(offer)
        /\ \A s \in Saves : saver[s] # Null => AppForm!OwnPhotos(saver[s].draft)
        /\ submit # Null => AppForm!OwnPhotos(submit.draft)
        /\ \A c \in Cats : AppForm!OwnPhotos(local[c])
        /\ \A i \in DOMAIN remote : AppForm!OwnPhotos(remote[i])
    BY <1>1 DEF OwnPhotosInv
  <2>1. ASSUME NEW c \in Cats, AppForm!Choose(c)
        PROVE  OwnPhotosInv'
    <3>1. images = {} /\ picking = {} /\ images' = {} /\ picking' = {}
      BY <2>0, <2>1 DEF AppForm!Choose
    <3>2. AppForm!OwnPhotos(long)'
      BY <2>1, <3>1, ArmedType DEF AppForm!Choose, AppForm!OwnPhotos
    <3> QED
      BY <2>0, <2>1, <3>1, <3>2 DEF AppForm!Choose, OwnPhotosInv, AppForm!OwnPhotos, AppForm!calls,
         AppForm!drafts, AppForm!history
  <2>2. CASE AppForm!Type
    <3>1. category \in Cats /\ images \in SUBSET Photos
      BY <2>2 DEF AppForm!Type, AppForm!TypeOK
    <3>2. AppForm!OwnPhotos(long)'
      BY <2>0, <2>2, <3>1, ArmedType DEF AppForm!Type, AppForm!OwnPhotos, AppForm!history
    <3> QED
      BY <2>0, <2>2, <3>2 DEF AppForm!Type, OwnPhotosInv, AppForm!OwnPhotos, AppForm!calls,
         AppForm!drafts, AppForm!history
  <2>3. CASE AppForm!Back
    BY <2>0, <2>3 DEF AppForm!Back, AppForm!LeftEmpty, AppForm!Act, OwnPhotosInv, AppForm!OwnPhotos,
       AppForm!calls, AppForm!drafts, AppForm!history
  <2>4. ASSUME NEW ps \in SUBSET Photos, AppForm!Pick(ps)
        PROVE  OwnPhotosInv'
    <3>1. \A p \in Photos : chosen[p] # Null => chosen'[p] = chosen[p]
      BY <2>4 DEF AppForm!Pick
    <3>2. ASSUME NEW d \in AppForm!Drafts, AppForm!OwnPhotos(d)
          PROVE  d # Null => \A p \in d.photos : chosen'[p] = d.cat
      BY <3>1, <3>2, NobodyAssumption, NoDraftAssumption DEF AppForm!OwnPhotos, AppForm!Drafts,
         AppForm!Draft
    <3>3. \A p \in images' \cup picking' : chosen'[p] = category'
      BY <2>0, <2>4, <3>1 DEF AppForm!Pick, AppForm!TypeOK
    <3>4. AppForm!OwnPhotos(long)' /\ AppForm!OwnPhotos(offer)'
      BY <2>0, <2>4, <3>2 DEF AppForm!Pick, AppForm!OwnPhotos, AppForm!TypeOK, AppForm!calls
    <3>5. ASSUME NEW s \in Saves, saver[s] # Null
          PROVE  AppForm!OwnPhotos(saver[s].draft)'
      <4>1. saver[s].draft \in AppForm!Drafts
        BY <3>5 DEF AppForm!TypeOK, AppForm!Drafts
      <4> QED
        BY <2>0, <2>4, <3>2, <3>5, <4>1 DEF AppForm!Pick, AppForm!OwnPhotos, AppForm!calls
    <3>6. submit # Null => AppForm!OwnPhotos(submit.draft)'
      <4>1. submit # Null => submit.draft \in AppForm!Drafts
        BY DEF AppForm!TypeOK, AppForm!Drafts
      <4> QED
        BY <2>0, <2>4, <3>2, <4>1 DEF AppForm!Pick, AppForm!OwnPhotos, AppForm!calls
    <3>7. \A c \in Cats : AppForm!OwnPhotos(local[c])'
      BY <2>0, <2>4, <3>2 DEF AppForm!Pick, AppForm!OwnPhotos, AppForm!TypeOK, AppForm!drafts
    <3>8. \A i \in DOMAIN remote : AppForm!OwnPhotos(remote[i])'
      <4>1. \A i \in DOMAIN remote : remote[i] \in AppForm!Drafts
        BY DEF AppForm!TypeOK, AppForm!Drafts
      <4> QED
        BY <2>0, <2>4, <3>2, <4>1 DEF AppForm!Pick, AppForm!OwnPhotos, AppForm!drafts
    <3>9. UNCHANGED <<category, saver, submit, local, remote>> /\ category # Null
      BY <2>4 DEF AppForm!Pick, AppForm!calls, AppForm!drafts
    <3> QED
      BY <3>3, <3>4, <3>5, <3>6, <3>7, <3>8, <3>9 DEF OwnPhotosInv
  <2>5. ASSUME NEW ok \in SUBSET Photos, AppForm!Picked(ok)
        PROVE  OwnPhotosInv'
    <3>1. images' \subseteq images \cup picking /\ picking' = {} /\ picking # {}
      BY <2>5 DEF AppForm!Picked
    <3> QED
      BY <2>0, <2>5, <3>1 DEF AppForm!Picked, OwnPhotosInv, AppForm!OwnPhotos, AppForm!calls,
         AppForm!drafts, AppForm!history
  <2>6. ASSUME NEW p \in Photos, AppForm!Remove(p)
        PROVE  OwnPhotosInv'
    BY <2>0, <2>6 DEF AppForm!Remove, OwnPhotosInv, AppForm!OwnPhotos, AppForm!calls, AppForm!drafts,
       AppForm!history
  <2>7. CASE AppForm!LocalSave
    <3>1. category # Null => AppForm!OwnPhotos(AppForm!Snapshot) /\ AppForm!Snapshot.cat = category
      BY <2>0, SnapshotType DEF AppForm!OwnPhotos
    <3>2. \A c \in Cats : AppForm!OwnPhotos(local'[c])
      BY <2>0, <2>7, <3>1, NobodyAssumption, NoDraftAssumption DEF AppForm!LocalSave, AppForm!TypeOK
    <3>3. \A c \in Cats : AppForm!OwnPhotos(local[c])'
      BY <2>7, <3>2 DEF AppForm!LocalSave, AppForm!OwnPhotos
    <3> QED
      BY <2>0, <2>7, <3>3 DEF AppForm!LocalSave, OwnPhotosInv, AppForm!OwnPhotos, AppForm!calls
  <2>8. ASSUME NEW s \in Saves, AppForm!SaveStart(s)
        PROVE  OwnPhotosInv'
    <3>1. \A c \in Cats : AppForm!OwnPhotos(local'[c])
      BY <2>0, <2>8 DEF AppForm!SaveStart, AppForm!TypeOK
    <3>2. \A t \in Saves : saver'[t] # Null => AppForm!OwnPhotos(saver'[t].draft)
      BY <2>0, <2>8 DEF AppForm!SaveStart, AppForm!TypeOK
    <3>3. chosen' = chosen /\ long' = Null
      BY <2>8 DEF AppForm!SaveStart
    <3>4. \A c \in Cats : AppForm!OwnPhotos(local[c])'
      BY <3>1, <3>3 DEF AppForm!OwnPhotos
    <3>5. \A t \in Saves : saver'[t] # Null => AppForm!OwnPhotos(saver[t].draft)'
      BY <3>2, <3>3 DEF AppForm!OwnPhotos
    <3>6. AppForm!OwnPhotos(long)' /\ AppForm!OwnPhotos(offer)' /\ (submit' # Null => AppForm!OwnPhotos(submit.draft)')
      BY <2>0, <2>8, <3>3 DEF AppForm!SaveStart, AppForm!OwnPhotos
    <3>7. \A i \in DOMAIN remote' : AppForm!OwnPhotos(remote[i])'
      BY <2>0, <2>8, <3>3 DEF AppForm!SaveStart, AppForm!OwnPhotos
    <3>8. UNCHANGED <<category, images, picking, chosen>>
      BY <2>8 DEF AppForm!SaveStart
    <3>9. /\ category' = Null => images' = {} /\ picking' = {}
          /\ category' # Null => \A p \in images' \cup picking' : chosen'[p] = category'
      BY <2>0, <3>8
    <3> QED
      BY <3>4, <3>5, <3>6, <3>7, <3>9 DEF OwnPhotosInv
  <2>9. ASSUME NEW s \in Saves, NEW ok \in BOOLEAN, AppForm!SaveDeleted(s, ok)
        PROVE  OwnPhotosInv'
    <3>1. chosen' = chosen
      BY <2>9 DEF AppForm!SaveDeleted, AppForm!history
    <3>2. \A i \in DOMAIN remote' : AppForm!OwnPhotos(remote'[i])
      BY <2>0, <2>9, WithoutType DEF AppForm!SaveDeleted
    <3>3. \A i \in DOMAIN remote' : AppForm!OwnPhotos(remote[i])'
      BY <3>1, <3>2 DEF AppForm!OwnPhotos
    <3>4. \A t \in Saves : saver'[t] # Null => saver[t] # Null /\ saver'[t].draft = saver[t].draft
      BY <2>9 DEF AppForm!SaveDeleted, AppForm!TypeOK
    <3>5. \A t \in Saves : saver'[t] # Null => AppForm!OwnPhotos(saver[t].draft)'
      BY <2>0, <3>1, <3>4 DEF AppForm!OwnPhotos
    <3> QED
      BY <2>0, <2>9, <3>1, <3>3, <3>5 DEF AppForm!SaveDeleted, OwnPhotosInv, AppForm!OwnPhotos,
         AppForm!form
  <2>10. ASSUME NEW s \in Saves, AppForm!SaveInserted(s)
         PROVE  OwnPhotosInv'
    <3>1. chosen' = chosen
      BY <2>10 DEF AppForm!SaveInserted, AppForm!history
    <3>2. saver[s].draft \in AppForm!Draft /\ remote \in Seq(AppForm!Draft)
      BY <2>10 DEF AppForm!SaveInserted, AppForm!TypeOK
    <3>3. \A i \in DOMAIN remote' : AppForm!OwnPhotos(remote'[i])
      <4>1. CASE remote' = remote
        BY <2>0, <4>1
      <4>2. CASE remote' = <<saver[s].draft>> \o remote
        <5>1. \A i \in DOMAIN remote' :
                remote'[i] = saver[s].draft \/ (i - 1 \in DOMAIN remote /\ remote'[i] = remote[i - 1])
          BY <3>2, <4>2
        <5> QED
          BY <2>0, <2>10, <5>1 DEF AppForm!SaveInserted
      <4> QED
        BY <2>10, <4>1, <4>2 DEF AppForm!SaveInserted
    <3>4. \A i \in DOMAIN remote' : AppForm!OwnPhotos(remote[i])'
      BY <3>1, <3>3 DEF AppForm!OwnPhotos
    <3>5. \A t \in Saves : saver'[t] # Null => saver'[t] = saver[t]
      BY <2>10 DEF AppForm!SaveInserted, AppForm!TypeOK
    <3>6. \A t \in Saves : saver'[t] # Null => AppForm!OwnPhotos(saver[t].draft)'
      BY <2>0, <3>1, <3>5 DEF AppForm!OwnPhotos
    <3> QED
      BY <2>0, <2>10, <3>1, <3>4, <3>6 DEF AppForm!SaveInserted, OwnPhotosInv, AppForm!OwnPhotos,
         AppForm!form
  <2>11. ASSUME NEW s \in Saves, AppForm!SaveLost(s)
         PROVE  OwnPhotosInv'
    <3>1. chosen' = chosen
      BY <2>11 DEF AppForm!SaveLost, AppForm!history
    <3>2. \A t \in Saves : saver'[t] # Null => saver'[t] = saver[t]
      BY <2>11 DEF AppForm!SaveLost, AppForm!TypeOK
    <3>3. \A t \in Saves : saver'[t] # Null => AppForm!OwnPhotos(saver[t].draft)'
      BY <2>0, <3>1, <3>2 DEF AppForm!OwnPhotos
    <3> QED
      BY <2>0, <2>11, <3>1, <3>3 DEF AppForm!SaveLost, OwnPhotosInv, AppForm!OwnPhotos, AppForm!form,
         AppForm!drafts
  <2>12. ASSUME NEW d \in AppForm!Draft, AppForm!OwnPhotos(d), AppForm!Apply(d), chosen' = chosen
         PROVE  /\ category' # Null /\ \A p \in images' \cup picking' : chosen'[p] = category'
                /\ AppForm!OwnPhotos(long)'
    <3>1. category' = d.cat /\ images' = d.photos /\ picking' = {} /\ d # Null
      <4>1. picking = {} /\ picking' = picking
        BY <1>1, <2>12, ApplyFacts
      <4> QED
        BY <2>12, <4>1, NobodyAssumption, NoDraftAssumption DEF AppForm!Apply
    <3>2. \A p \in images' : chosen'[p] = category'
      BY <2>12, <3>1 DEF AppForm!OwnPhotos
    <3>3. long' # Null => long'.cat = category' /\ long'.photos = images'
      BY <2>12, ApplyFacts
    <3>4. AppForm!OwnPhotos(long)'
      BY <3>2, <3>3 DEF AppForm!OwnPhotos
    <3>5. category' # Null
      BY <2>12, ApplyFacts, NobodyAssumption, NoDraftAssumption
    <3> QED
      BY <3>1, <3>2, <3>4, <3>5
  <2>13. CASE AppForm!RemoteLoaded
    <3>1. remote[1] \in AppForm!Draft /\ 1 \in DOMAIN remote
      BY <2>13 DEF AppForm!RemoteLoaded, AppForm!TypeOK
    <3>2. chosen' = chosen /\ AppForm!Apply(remote[1])
      BY <2>13 DEF AppForm!RemoteLoaded
    <3>3. /\ category' # Null /\ \A p \in images' \cup picking' : chosen'[p] = category'
          /\ AppForm!OwnPhotos(long)'
      BY <2>0, <2>12, <3>1, <3>2
    <3> QED
      BY <2>0, <2>13, <3>3 DEF AppForm!RemoteLoaded, OwnPhotosInv, AppForm!OwnPhotos, AppForm!drafts
  <2>14. ASSUME NEW ok \in BOOLEAN, NEW young \in BOOLEAN, AppForm!LocalLoaded(ok, young)
         PROVE  OwnPhotosInv'
    <3>1. chosen' = chosen
      BY <2>14 DEF AppForm!LocalLoaded, AppForm!history
    <3>2. AppForm!OwnPhotos(offer')
      <4>1. CASE meta # Null /\ local[meta] # Null /\ young
        <5>1. meta \in Cats /\ offer' = local[meta]
          BY <2>14, <4>1 DEF AppForm!LocalLoaded, AppForm!TypeOK
        <5> QED
          BY <2>0, <5>1
      <4>2. CASE ~(meta # Null /\ local[meta] # Null /\ young)
        BY <2>0, <2>14, <4>2 DEF AppForm!LocalLoaded
      <4> QED
        BY <4>1, <4>2
    <3>3. AppForm!OwnPhotos(offer)'
      BY <3>1, <3>2 DEF AppForm!OwnPhotos
    <3>4. UNCHANGED <<AppForm!form, saver, submit, AppForm!drafts, AppForm!history>>
      BY <2>14 DEF AppForm!LocalLoaded
    <3> QED
      BY <2>0, <3>3, <3>4 DEF OwnPhotosInv, AppForm!OwnPhotos, AppForm!form, AppForm!drafts,
         AppForm!history
  <2>15. CASE AppForm!OfferTaken
    <3>1. offer \in AppForm!Draft
      BY <2>15 DEF AppForm!OfferTaken, PromptInv, AppForm!TypeOK, AppForm!Drafts
    <3>2. chosen' = chosen /\ AppForm!Apply(offer)
      BY <2>15 DEF AppForm!OfferTaken
    <3>3. /\ category' # Null /\ \A p \in images' \cup picking' : chosen'[p] = category'
          /\ AppForm!OwnPhotos(long)'
      BY <2>0, <2>12, <3>1, <3>2
    <3> QED
      BY <2>0, <2>15, <3>3 DEF AppForm!OfferTaken, OwnPhotosInv, AppForm!OwnPhotos, AppForm!drafts
  <2>16. CASE AppForm!OfferRefused
    <3>1. \A c \in Cats : AppForm!OwnPhotos(local'[c])
      BY <2>0, <2>16 DEF AppForm!OfferRefused, AppForm!OwnPhotos, AppForm!TypeOK
    <3>2. chosen' = chosen
      BY <2>16 DEF AppForm!OfferRefused
    <3>3. \A c \in Cats : AppForm!OwnPhotos(local[c])'
      BY <3>1, <3>2 DEF AppForm!OwnPhotos
    <3> QED
      BY <2>0, <2>16, <3>3 DEF AppForm!OfferRefused, OwnPhotosInv, AppForm!OwnPhotos, AppForm!form
  <2>17. CASE AppForm!Submit
    <3>1. submit' # Null => submit'.draft = AppForm!Snapshot
      BY <2>17 DEF AppForm!Submit
    <3>2. AppForm!Snapshot.cat = category /\ AppForm!Snapshot.photos = images /\ category # Null
      BY <2>17, SnapshotType DEF AppForm!Submit
    <3>3. chosen' = chosen
      BY <2>17 DEF AppForm!Submit, AppForm!history
    <3>4. submit' # Null => AppForm!OwnPhotos(submit.draft)'
      BY <2>0, <3>1, <3>2, <3>3 DEF AppForm!OwnPhotos
    <3> QED
      BY <2>0, <2>17, <3>4 DEF AppForm!Submit, OwnPhotosInv, AppForm!OwnPhotos, AppForm!form,
         AppForm!drafts, AppForm!history
  <2>18. ASSUME NEW got \in SUBSET Photos, AppForm!Uploaded(got)
         PROVE  OwnPhotosInv'
    <3>1. submit # Null /\ submit.draft \in AppForm!Draft /\ got \subseteq submit.draft.photos
      BY <2>18 DEF AppForm!Uploaded, AppForm!TypeOK
    <3> DEFINE e == [submit.draft EXCEPT !.photos = got]
    <3>2. e.cat = submit.draft.cat /\ e.photos = got
      BY <3>1 DEF AppForm!Draft
    <3>3. submit' # Null => submit'.draft = e
      BY <2>18 DEF AppForm!Uploaded
    <3>4. chosen' = chosen
      BY <2>18 DEF AppForm!Uploaded, AppForm!history
    <3>5. \A p \in submit.draft.photos : chosen[p] = submit.draft.cat
      BY <2>0, <3>1, NobodyAssumption, NoDraftAssumption DEF AppForm!OwnPhotos, AppForm!Draft
    <3> HIDE DEF e
    <3>6. submit' # Null => AppForm!OwnPhotos(submit.draft)'
      BY <3>1, <3>2, <3>3, <3>4, <3>5 DEF AppForm!OwnPhotos
    <3> QED
      BY <2>0, <2>18, <3>6 DEF AppForm!Uploaded, OwnPhotosInv, AppForm!OwnPhotos, AppForm!form,
         AppForm!drafts, AppForm!history
  <2>19. CASE AppForm!Posted \/ AppForm!PostFailed
    <3>1. submit' # Null => submit # Null /\ submit'.draft = submit.draft
      BY <2>19 DEF AppForm!Posted, AppForm!PostFailed, AppForm!TypeOK
    <3>2. UNCHANGED <<AppForm!form, saver, offer, AppForm!drafts, AppForm!history>>
      BY <2>19 DEF AppForm!Posted, AppForm!PostFailed
    <3>3. submit' # Null => AppForm!OwnPhotos(submit.draft)'
      BY <2>0, <3>1, <3>2 DEF AppForm!OwnPhotos, AppForm!history
    <3> QED
      BY <2>0, <3>2, <3>3 DEF OwnPhotosInv, AppForm!OwnPhotos, AppForm!form, AppForm!drafts,
         AppForm!history
  <2>20. CASE AppForm!Cleared
    <3>1. \A c \in Cats : AppForm!OwnPhotos(local'[c])
      BY <2>0, <2>20 DEF AppForm!Cleared, AppForm!OwnPhotos, AppForm!TypeOK
    <3>2. chosen' = chosen
      BY <2>20 DEF AppForm!Cleared
    <3>3. \A c \in Cats : AppForm!OwnPhotos(local[c])'
      BY <3>1, <3>2 DEF AppForm!OwnPhotos
    <3> QED
      BY <2>0, <2>20, <3>3 DEF AppForm!Cleared, OwnPhotosInv, AppForm!OwnPhotos, AppForm!form
  <2>21. ASSUME NEW c \in Cats, NEW ok \in BOOLEAN, AppForm!Deleted(c, ok)
         PROVE  OwnPhotosInv'
    <3>1. chosen' = chosen
      BY <2>21 DEF AppForm!Deleted, AppForm!history
    <3>2. \A i \in DOMAIN remote' : AppForm!OwnPhotos(remote'[i])
      BY <2>0, <2>21, WithoutType DEF AppForm!Deleted
    <3>3. \A i \in DOMAIN remote' : AppForm!OwnPhotos(remote[i])'
      BY <3>1, <3>2 DEF AppForm!OwnPhotos
    <3> QED
      BY <2>0, <2>21, <3>1, <3>3 DEF AppForm!Deleted, OwnPhotosInv, AppForm!OwnPhotos, AppForm!form
  <2>22. CASE AppForm!Reopen
    BY <2>0, <2>22 DEF AppForm!Reopen, OwnPhotosInv, AppForm!OwnPhotos, AppForm!drafts
  <2>23. CASE UNCHANGED AppForm!vars
    BY <2>0, <2>23 DEF AppForm!vars, AppForm!form, AppForm!calls, AppForm!drafts, AppForm!history,
       OwnPhotosInv, AppForm!OwnPhotos
  <2> QED
    BY <2>1, <2>2, <2>3, <2>4, <2>5, <2>6, <2>7, <2>8, <2>9, <2>10, <2>11, <2>13, <2>14, <2>15,
       <2>16, <2>17, <2>18, <2>19, <2>20, <2>21, <2>22, <2>23 DEF AppForm!Next
<1>2. mixed = TRUE => mixed' = TRUE
  BY DEF AppForm!Next, AppForm!vars, AppForm!form, AppForm!calls, AppForm!drafts, AppForm!history,
     AppForm!Choose, AppForm!Type, AppForm!Back, AppForm!Pick, AppForm!Picked, AppForm!Remove,
       AppForm!LocalSave, AppForm!SaveStart, AppForm!SaveDeleted, AppForm!SaveInserted,
       AppForm!SaveLost, AppForm!RemoteLoaded, AppForm!LocalLoaded,
       AppForm!OfferTaken, AppForm!OfferRefused, AppForm!Submit, AppForm!Uploaded, AppForm!Posted,
       AppForm!PostFailed, AppForm!Cleared, AppForm!Deleted, AppForm!Reopen, AppForm!Apply
<1>3. mixed \in BOOLEAN /\ mixed' \in BOOLEAN
  BY DEF AppForm!TypeOK
<1> QED
  BY <1>0, <1>1, <1>2, <1>3

\* The screen as it is first shown.
LEMMA FormStarts ==
    ASSUME AppForm!Init
    PROVE  AppForm!TypeOK /\ PromptInv /\ AppForm!DraftKeepsUp /\ OwnPhotosInv
<1>1. AppForm!TypeOK
  <2>1. remote \in Seq(AppForm!Draft) /\ taps \in 0 .. MaxTaps /\ failures \in 0 .. MaxFailures
    BY BoundsAssumption DEF AppForm!Init
  <2> QED
    BY <2>1 DEF AppForm!Init, AppForm!Blank, AppForm!TypeOK, AppForm!Drafts
<1>2. PromptInv /\ AppForm!DraftKeepsUp
  BY DEF AppForm!Init, AppForm!Blank, PromptInv, AppForm!DraftKeepsUp
<1>3. OwnPhotosInv
  BY DEF AppForm!Init, AppForm!Blank, OwnPhotosInv, AppForm!OwnPhotos
<1> QED
  BY <1>1, <1>2, <1>3

\* The types and the question, which need each other.
LEMMA FormTyped == AppForm!Spec => [](AppForm!TypeOK /\ PromptInv)
<1>1. AppForm!Init => AppForm!TypeOK /\ PromptInv
  BY FormStarts
<1>2. AppForm!TypeOK /\ PromptInv /\ [AppForm!Next]_(AppForm!vars) => (AppForm!TypeOK /\ PromptInv)'
  BY FormTypeStep, PromptStep
<1> QED
  BY <1>1, <1>2, PTL DEF AppForm!Spec

LEMMA KeepsUp == AppForm!Spec => []AppForm!DraftKeepsUp
<1>1. AppForm!Init => AppForm!DraftKeepsUp
  BY FormStarts
<1>2. AppForm!TypeOK /\ AppForm!DraftKeepsUp /\ [AppForm!Next]_(AppForm!vars) => AppForm!DraftKeepsUp'
  BY KeepsUpStep
<1> QED
  BY <1>1, <1>2, FormTyped, PTL DEF AppForm!Spec

LEMMA Own == AppForm!Spec => []AppForm!OwnCategory
<1>1. AppForm!Init => OwnPhotosInv
  BY FormStarts
<1>2. AppForm!TypeOK /\ AppForm!TypeOK' /\ PromptInv /\ OwnPhotosInv /\ [AppForm!Next]_(AppForm!vars) => OwnPhotosInv'
  BY OwnStep
<1>3. OwnPhotosInv => AppForm!OwnCategory
  BY DEF OwnPhotosInv, AppForm!OwnCategory
<1> QED
  BY <1>1, <1>2, <1>3, FormTyped, PTL DEF AppForm!Spec

-----------------------------------------------------------------------------
(* The results, of the properties as ServerParts names them *)

\* Without an outage or a crash, the shared answer is older than the data only
\* while an edit is about to delete it or when a reader stored it afterwards.
THEOREM StaleIsExplained == Cache!Spec => []StaleExplained
BY CacheExplained, PTL DEF StaleExplained

\* The session, the jobs and the row of the device keep to their types.
THEOREM DeviceTyped == Push!Spec => []Push!TypeOK
<1>1. PushInv => Push!TypeOK
  BY DEF PushInv
<1> QED
  BY <1>1, PushAlways, PTL

\* When the jobs ran undisturbed and have ended, the device's row is of the
\* user it shows only if that user wants notifications, and then it is unless
\* the last registration got no token from the device.
THEOREM DeviceFollowsPreference == Push!Spec => []FollowsPreference
BY DeviceFollows, PTL DEF FollowsPreference

\* The app's form, its drafts and its requests keep to their types, whatever
\* arrives late, is refused or lost.
THEOREM FormTypesHold == AppForm!Spec => []AppForm!TypeOK
BY FormTyped, PTL

\* What the app shows, stores or posts as a category was chosen for it.
THEOREM PhotosKeepCategory == AppForm!Spec => []OwnCategory
BY Own, PTL DEF OwnCategory

\* The draft of the device is what the form shows once its timer has run.
THEOREM DeviceDraftKeepsUp == AppForm!Spec => []DraftKeepsUp
BY KeepsUp, PTL DEF DraftKeepsUp
=============================================================================
