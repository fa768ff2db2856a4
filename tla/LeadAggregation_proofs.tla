----------------------- MODULE LeadAggregation_proofs -----------------------
(***************************************************************************)
(* Proofs about LeadAggregation, for any events and visitors, batches of   *)
(* any size and any faults.                                                *)
(***************************************************************************)
EXTENDS LeadAggregation, FiniteSetTheorems, WellFoundedInduction, TLAPS

-----------------------------------------------------------------------------
(* The invariants *)

Running == worker.at \in {"next", "fold", "insert", "note"}
\* How far the worker has come: what it reads or repeats lies beyond.
Pos == IF Running THEN worker.last ELSE cursor
InHand(e) == \E i \in DOMAIN worker.batch : worker.batch[i] = e

\* The batch is in the order of the stamps, and beyond the cursor.
BatchInv ==
    /\ ~Running => worker.batch = <<>>
    /\ worker.at \in {"fold", "insert", "note"} =>
         worker.batch # <<>> /\ event[Current].who # Null
    /\ worker.at = "fetch" => worker.last = cursor
    /\ Running => cursor <= worker.last
    /\ \A i \in DOMAIN worker.batch :
         /\ Stored(worker.batch[i])
         /\ event[worker.batch[i]].at >= worker.last
         /\ event[worker.batch[i]].at > cursor
    /\ \A i, j \in DOMAIN worker.batch :
         i < j => /\ worker.batch[i] # worker.batch[j]
                  /\ event[worker.batch[i]].at <= event[worker.batch[j]].at

\* What is still to be read, or in hand, has been counted by repeated runs only.
CountInv ==
    \A e \in Events :
        /\ event[e].at <= now
        /\ ~Stored(e) => counted[e] = 0
        /\ counted[e] <= 1 + redo
        /\ InHand(e) => counted[e] <= redo
        /\ event[e].at > Pos => counted[e] <= redo

\* An event that makes a lead, is not counted and had no misfortune lies beyond
\* the cursor, and is in hand or later than all that is.
Missing(e) == /\ Stored(e) /\ event[e].who # Null /\ counted[e] = 0
              /\ e \notin unlucky /\ ~Shared(e)
DueInv ==
    \A e \in Events : Missing(e) =>
        /\ worker.at # "clock" /\ event[e].at > cursor
        /\ \/ InHand(e)
           \/ /\ event[e].at > Pos
              /\ \A i \in DOMAIN worker.batch : event[worker.batch[i]].at < event[e].at

\* While a lead is written its count, and then its history, are one behind.
TallyInv ==
    /\ worker.at \in {"fold", "note"} => worker.lead \in DOMAIN leads
    /\ worker.at = "fold" => worker.count = leads[worker.lead].count
    /\ TallyAgrees
    /\ worker.at = "note" => leads[worker.lead].notes + 1 <= leads[worker.lead].count + redo + lost

\* How far the leads may reach: to the event in hand while its lead is written.
Reach == IF worker.at = "note" THEN event[Current].at ELSE Pos

\* A new lead starts no earlier than any there is, and later than the window of
\* any lead of its visitor.
OrderInv ==
    /\ Pos <= now
    /\ redo = 0 /\ blind = 0 =>
         /\ LeadsApart
         /\ \A i \in DOMAIN leads : leads[i].first <= Reach
         /\ worker.at = "insert" =>
              \A i \in DOMAIN leads :
                leads[i].who = event[Current].who => event[Current].at - leads[i].first > Window

-----------------------------------------------------------------------------
(* Sequences and the worker's record *)

LEMMA TailFacts ==
    ASSUME NEW S, NEW s \in Seq(S), s # <<>>
    PROVE  /\ Head(s) \in S /\ Head(s) = s[1] /\ 1 \in DOMAIN s
           /\ Tail(s) \in Seq(S)
           /\ \A i \in DOMAIN Tail(s) : i + 1 \in DOMAIN s /\ Tail(s)[i] = s[i + 1]
           /\ \A i \in DOMAIN s : i # 1 => i - 1 \in DOMAIN Tail(s) /\ Tail(s)[i - 1] = s[i]
OBVIOUS

LEMMA Stamps ==
    ASSUME TypeOK
    PROVE  /\ \A i \in DOMAIN worker.batch : worker.batch[i] \in Events
           /\ \A e \in Events : event[e].at \in Nat
           /\ cursor \in Nat /\ worker.last \in Nat /\ now \in Nat
<1>1. worker.batch \in Seq(Events)
  BY DEF TypeOK
<1>2. \A i \in DOMAIN worker.batch : worker.batch[i] \in Events
  BY <1>1
<1> QED
  BY <1>2, NumbersAssumption DEF TypeOK, Times

LEMMA BatchSeq ==
    ASSUME NEW S \in SUBSET Events, NEW n \in Nat, NEW b \in [1 .. n -> S]
    PROVE  b \in Seq(Events) /\ Len(b) = n /\ DOMAIN b = 1 .. n
OBVIOUS

Workers(n) == [at : {"idle", "fetch", "clock", "next", "fold", "insert", "note"},
               batch : Seq(Events), last : Times, lead : 0 .. n, count : Nat]
Rows == [who : Visitors, first : Times, count : Nat, notes : Nat]
Leads == Seq(Rows)

LEMMA TimesInNat == Times \subseteq Nat /\ 0 \in Times
BY NumbersAssumption DEF Times

LEMMA IdleType == ASSUME NEW n \in Nat PROVE Idle \in Workers(n)
<1>1. <<>> \in Seq(Events)
  OBVIOUS
<1> QED
  BY <1>1, TimesInNat DEF Idle, Workers

LEMMA WorkerType ==
    ASSUME TypeOK
    PROVE  /\ leads \in Leads /\ Len(leads) \in Nat /\ DOMAIN leads = 1 .. Len(leads)
           /\ worker \in Workers(Len(leads))
           /\ worker.batch \in Seq(Events)
BY DEF TypeOK, Leads, Rows, Workers

LEMMA PutRow ==
    ASSUME NEW s \in Leads, NEW i \in DOMAIN s, NEW x \in Rows
    PROVE  [s EXCEPT ![i] = x] \in Leads /\ Len([s EXCEPT ![i] = x]) = Len(s)
BY DEF Leads

LEMMA AddRow ==
    ASSUME NEW s \in Leads, NEW x \in Rows
    PROVE  /\ Append(s, x) \in Leads /\ Len(Append(s, x)) = Len(s) + 1
           /\ DOMAIN Append(s, x) = 1 .. Len(s) + 1
           /\ \A i \in DOMAIN s : Append(s, x)[i] = s[i]
           /\ Append(s, x)[Len(s) + 1] = x
BY DEF Leads

\* What a write does to a lead, and an insert to the leads.
LEMMA LeadWrites ==
    ASSUME TypeOK, NEW i \in DOMAIN leads
    PROVE  /\ leads[i] \in Rows /\ leads[i].count \in Nat /\ leads[i].notes \in Nat
           /\ \A n \in Nat : /\ [leads EXCEPT ![i].count = n] \in Leads
                             /\ Len([leads EXCEPT ![i].count = n]) = Len(leads)
                             /\ [leads EXCEPT ![i].notes = n] \in Leads
                             /\ Len([leads EXCEPT ![i].notes = n]) = Len(leads)
<1>1. leads \in Leads /\ leads[i] \in Rows
  BY WorkerType DEF Leads
<1>2. leads[i].count \in Nat /\ leads[i].notes \in Nat
  BY <1>1 DEF Rows
<1>3. ASSUME NEW n \in Nat
      PROVE  /\ [leads EXCEPT ![i].count = n] \in Leads
             /\ Len([leads EXCEPT ![i].count = n]) = Len(leads)
             /\ [leads EXCEPT ![i].notes = n] \in Leads
             /\ Len([leads EXCEPT ![i].notes = n]) = Len(leads)
  <2>1. [leads[i] EXCEPT !.count = n] \in Rows /\ [leads[i] EXCEPT !.notes = n] \in Rows
    BY <1>1 DEF Rows
  <2>2. /\ [leads EXCEPT ![i].count = n] = [leads EXCEPT ![i] = [leads[i] EXCEPT !.count = n]]
        /\ [leads EXCEPT ![i].notes = n] = [leads EXCEPT ![i] = [leads[i] EXCEPT !.notes = n]]
    OBVIOUS
  <2> QED
    BY <1>1, <2>1, <2>2, PutRow
<1> QED
  BY <1>1, <1>2, <1>3

LEMMA OnwardType ==
    ASSUME TypeOK, worker.batch # <<>>
    PROVE  /\ Current \in Events /\ event[Current].at \in Times
           /\ Onward \in Workers(Len(leads))
           /\ Onward.at = "next" /\ Onward.batch = Tail(worker.batch)
           /\ Onward.last = event[Current].at
<1>1. worker.batch \in Seq(Events) /\ worker \in Workers(Len(leads)) /\ Len(leads) \in Nat
  BY WorkerType
<1>2. Current \in Events /\ Tail(worker.batch) \in Seq(Events)
  BY <1>1, TailFacts DEF Current
<1>3. event[Current].at \in Times
  BY <1>2 DEF TypeOK
<1>4. Onward = [worker EXCEPT !.at = "next", !.batch = Tail(worker.batch), !.lead = 0,
                              !.count = 0, !.last = event[Current].at]
  BY DEF Onward, LastProcessed
<1> QED
  <2> DEFINE t == Tail(worker.batch)
             u == event[Current].at
  <2>1. t \in Seq(Events) /\ u \in Times /\ 0 \in 0 .. Len(leads)
    BY <1>1, <1>2, <1>3
  <2>2. Onward = [worker EXCEPT !.at = "next", !.batch = t, !.lead = 0, !.count = 0, !.last = u]
    BY <1>4
  <2> HIDE DEF t, u
  <2>3. Onward \in Workers(Len(leads)) /\ Onward.at = "next" /\ Onward.batch = t /\ Onward.last = u
    BY <1>1, <2>1, <2>2 DEF Workers
  <2> QED
    BY <1>2, <1>3, <2>3 DEF t, u

LEMMA LookType ==
    ASSUME TypeOK, worker.batch # <<>>, NEW f \in {0} \cup DOMAIN leads, Look(f)
    PROVE  /\ worker' \in Workers(Len(leads))
           /\ worker'.batch = worker.batch /\ worker'.last = worker.last
           /\ worker'.at \in {"fold", "insert"}
           /\ worker'.at = "fold" => /\ worker'.lead \in DOMAIN leads
                                     /\ worker'.count = leads[worker'.lead].count
<1>1. worker \in Workers(Len(leads)) /\ leads \in Leads /\ DOMAIN leads = 1 .. Len(leads)
      /\ Len(leads) \in Nat
  BY WorkerType
<1>2. CASE worker' = [worker EXCEPT !.at = "insert"]
  BY <1>1, <1>2 DEF Workers
<1>3. CASE f # 0 /\ worker' = [worker EXCEPT !.at = "fold", !.lead = f, !.count = leads[f].count]
  <2>1. f \in DOMAIN leads
    BY <1>3
  <2>2. f \in 0 .. Len(leads) /\ leads[f].count \in Nat
    BY <1>1, <2>1, LeadWrites
  <2> QED
    BY <1>1, <1>3, <2>1, <2>2 DEF Workers
<1> QED
  BY <1>2, <1>3 DEF Look

\* The two ways to look a lead up.
LEMMA LookFound ==
    ASSUME TypeOK, Lookup \/ LookupFailed
    PROVE  \E f \in {0} \cup DOMAIN leads : Look(f)
BY DEF Lookup, LookupFailed

\* What a step of the worker may do to its record.
LEMMA FetchType ==
    ASSUME TypeOK, Fetch
    PROVE  /\ worker' \in Workers(Len(leads)) /\ worker'.last = worker.last
           /\ \E n \in 0 .. Limit : \E b \in [1 .. n -> Newer] :
                /\ IsBatch(b)
                /\ worker'.batch = b /\ worker'.at = IF n = 0 THEN "clock" ELSE "next"
<1>0. PICK n \in 0 .. Limit : \E b \in [1 .. n -> Newer] :
        /\ IsBatch(b)
        /\ worker' = [worker EXCEPT !.at = IF n = 0 THEN "clock" ELSE "next", !.batch = b]
  BY DEF Fetch
<1>1. PICK b \in [1 .. n -> Newer] :
        /\ IsBatch(b)
        /\ worker' = [worker EXCEPT !.at = IF n = 0 THEN "clock" ELSE "next", !.batch = b]
  BY <1>0
<1>2. n \in Nat /\ Newer \in SUBSET Events
  BY NumbersAssumption DEF Newer
<1>3. b \in Seq(Events)
  BY <1>2, BatchSeq
<1>4. worker \in Workers(Len(leads))
  BY WorkerType
<1> QED
  BY <1>1, <1>3, <1>4 DEF Workers

-----------------------------------------------------------------------------
(* Types *)

LEMMA CountTypes ==
    ASSUME TypeOK
    PROVE  /\ {redo, blind, lost} \subseteq Nat
           /\ MayFail => {redo + 1, blind + 1, lost + 1} \subseteq 0 .. MaxFaults
BY NumbersAssumption DEF TypeOK, MayFail

\* Only a step of the worker that inserts a lead, or writes to one, changes them.
LEMMA OutsideTypes ==
    ASSUME TypeOK,
           \/ Tick \/ \E e \in Events : Commit(e)
           \/ \E e \in Events, v \in Visitors \cup {Null} : Begin(e, v)
    PROVE  TypeOK'
<1>1. CASE Tick
  <2>1. now' \in Times
    BY <1>1, NumbersAssumption DEF Tick, TypeOK, Times
  <2> QED
    BY <1>1, <2>1 DEF Tick, TypeOK, history
<1>2. ASSUME NEW e \in Events, Commit(e)
      PROVE  TypeOK'
  BY <1>2 DEF Commit, TypeOK
<1>3. ASSUME NEW e \in Events, NEW v \in Visitors \cup {Null}, Begin(e, v)
      PROVE  TypeOK'
  BY <1>3 DEF Begin, TypeOK, history
<1> QED
  BY <1>1, <1>2, <1>3

LEMMA RunTypes ==
    ASSUME TypeOK, BatchInv, TallyInv, Run \/ Fail
    PROVE  TypeOK'
<1>1. /\ leads \in Leads /\ Len(leads) \in Nat /\ DOMAIN leads = 1 .. Len(leads)
      /\ worker \in Workers(Len(leads))
  BY WorkerType
<1>2. ASSUME worker' \in Workers(Len(leads)), UNCHANGED <<now, event, leads, counted>>,
             cursor' \in Times, unlucky' \subseteq Events,
             {redo', blind', lost'} \subseteq 0 .. MaxFaults
      PROVE  TypeOK'
  BY <1>2 DEF TypeOK, Workers
<1>3. CASE Load
  <2>1. worker' \in Workers(Len(leads))
    BY <1>1, <1>3, IdleType DEF Load, Workers, TypeOK
  <2> QED
    BY <1>2, <1>3, <2>1 DEF Load, history, TypeOK
<1>4. CASE Fetch
  BY <1>2, <1>4, FetchType DEF Fetch, history, TypeOK
<1>5. CASE FetchFailed
  <2>1. worker' \in Workers(Len(leads)) /\ unlucky' \subseteq Events
    BY <1>1, <1>5 DEF FetchFailed, Workers, Newer, TypeOK
  <2> QED
    BY <1>2, <1>5, <2>1, CountTypes DEF FetchFailed, TypeOK
<1>6. CASE SaveClock
  BY <1>1, <1>2, <1>6, IdleType DEF SaveClock, history, TypeOK
<1>7. CASE Skip
  BY <1>2, <1>7, OnwardType DEF Skip, history, TypeOK
<1>8. CASE Lookup
  <2>1. worker' \in Workers(Len(leads))
    BY <1>8, LookFound, LookType DEF Lookup
  <2> QED
    BY <1>2, <1>8, <2>1 DEF Lookup, history, TypeOK
<1>9. CASE LookupFailed
  <2>1. worker' \in Workers(Len(leads))
    BY <1>9, LookFound, LookType DEF LookupFailed
  <2> QED
    BY <1>2, <1>9, <2>1, CountTypes DEF LookupFailed, TypeOK
<1>10. ASSUME NEW ok \in BOOLEAN, Fold(ok)
       PROVE  TypeOK'
  <2>0. worker.lead \in DOMAIN leads /\ worker.count + 1 \in Nat
    BY <1>1, <1>10 DEF Fold, Workers, TallyInv
  <2>1. leads' \in Leads /\ Len(leads') = Len(leads)
    BY <1>1, <1>10, <2>0, LeadWrites DEF Fold
  <2>2. worker' \in Workers(Len(leads))
    BY <1>1, <1>10 DEF Fold, Workers
  <2>3. lost' \in 0 .. MaxFaults
    BY <1>10, CountTypes DEF Fold, TypeOK
  <2> QED
    BY <1>10, <2>1, <2>2, <2>3 DEF Fold, TypeOK, Leads, Rows, Workers
<1>11. CASE Insert
  <2>1. Current \in Events
    BY <1>11, OnwardType DEF Insert, BatchInv
  <2>2. event[Current].who \in Visitors /\ event[Current].at \in Times
    BY <1>11, <2>1 DEF Insert, BatchInv, TypeOK
  <2>3. leads' \in Leads /\ Len(leads') = Len(leads) + 1
    BY <1>1, <1>11, <2>2, AddRow DEF Insert, Rows
  <2>4. worker' \in Workers(Len(leads) + 1)
    <3>1. worker' = [worker EXCEPT !.at = "note", !.lead = Len(leads) + 1]
      BY <1>11 DEF Insert
    <3>2. Len(leads) + 1 \in 0 .. Len(leads) + 1 /\ 0 .. Len(leads) \subseteq 0 .. Len(leads) + 1
      BY <1>1
    <3> QED
      BY <1>1, <3>1, <3>2 DEF Workers
  <2> QED
    BY <1>11, <2>3, <2>4 DEF Insert, TypeOK, history, Leads, Rows, Workers
<1>12. CASE InsertFailed
  <2>1. Current \in Events /\ Onward \in Workers(Len(leads))
    BY <1>12, OnwardType DEF InsertFailed, BatchInv
  <2> QED
    BY <1>2, <1>12, <2>1, CountTypes DEF InsertFailed, TypeOK
<1>13. ASSUME NEW ok \in BOOLEAN, Note(ok)
       PROVE  TypeOK'
  <2>1. Current \in Events /\ Onward \in Workers(Len(leads))
    BY <1>13, OnwardType DEF Note, BatchInv
  <2>0. worker.lead \in DOMAIN leads
    BY <1>13 DEF Note, TallyInv
  <2>2. leads' \in Leads /\ Len(leads') = Len(leads)
    <3>1. leads[worker.lead].notes + 1 \in Nat
      BY <2>0, LeadWrites
    <3>2. CASE ok
      <4>1. leads' = [leads EXCEPT ![worker.lead].notes = leads[worker.lead].notes + 1]
        BY <1>13, <3>2 DEF Note
      <4> QED
        BY <2>0, <3>1, <4>1, LeadWrites
    <3>3. CASE ~ok
      BY <1>1, <1>13, <3>3 DEF Note
    <3> QED
      BY <3>2, <3>3
  <2>3. counted' \in [Events -> Nat]
    <3>1. CASE ok
      <4>1. counted' = [counted EXCEPT ![Current] = counted[Current] + 1]
        BY <1>13, <3>1 DEF Note
      <4> QED
        BY <2>1, <4>1 DEF TypeOK
    <3>2. CASE ~ok
      BY <1>13, <3>2 DEF Note, TypeOK
    <3> QED
      BY <3>1, <3>2
  <2>4. unlucky' \subseteq Events /\ lost' \in 0 .. MaxFaults
    <3>1. CASE ok
      BY <1>13, <3>1 DEF Note, TypeOK
    <3>2. CASE ~ok
      BY <1>13, <2>1, <3>2, CountTypes DEF Note, TypeOK
    <3> QED
      BY <3>1, <3>2
  <2> QED
    BY <1>13, <2>1, <2>2, <2>3, <2>4 DEF Note, TypeOK, Leads, Rows, Workers
<1>14. ASSUME NEW ok \in BOOLEAN, Save(ok)
       PROVE  TypeOK'
  <2>1. cursor' \in Times /\ redo' \in 0 .. MaxFaults
    BY <1>1, <1>14, CountTypes DEF Save, TypeOK, Workers
  <2> QED
    BY <1>1, <1>2, <1>14, <2>1, IdleType DEF Save, TypeOK
<1>15. CASE Crash
  BY <1>1, <1>2, <1>15, IdleType, CountTypes DEF Crash, TypeOK
<1> QED
  BY <1>3, <1>4, <1>5, <1>6, <1>7, <1>8, <1>9, <1>10, <1>11, <1>12, <1>13, <1>14, <1>15
     DEF Run, Fail

-----------------------------------------------------------------------------
(* What a step of the worker does, for the invariants below *)

\* The worker goes on: what was current leaves the batch.
LEMMA Goes ==
    ASSUME TypeOK, BatchInv, worker.at \in {"next", "fold", "insert", "note"},
           worker.batch # <<>>, worker' = Onward, UNCHANGED <<event, cursor>>
    PROVE  /\ worker'.batch = Tail(worker.batch) /\ worker'.at = "next"
           /\ worker'.last = event[Current].at /\ Current \in Events
           /\ \A i \in DOMAIN worker'.batch :
                i + 1 \in DOMAIN worker.batch /\ worker'.batch[i] = worker.batch[i + 1]
           /\ InHand(Current)
           /\ \A e \in Events : InHand(e)' <=> InHand(e) /\ e # Current
           /\ BatchInv'
<1>1. /\ worker.batch \in Seq(Events) /\ Current = worker.batch[1] /\ 1 \in DOMAIN worker.batch
      /\ worker'.batch = Tail(worker.batch) /\ worker'.at = "next"
      /\ worker'.last = event[Current].at /\ Current \in Events
  BY WorkerType, OnwardType, TailFacts DEF Current
<1>2. /\ \A i \in DOMAIN worker'.batch :
           i + 1 \in DOMAIN worker.batch /\ worker'.batch[i] = worker.batch[i + 1]
      /\ \A i \in DOMAIN worker.batch :
           i # 1 => i - 1 \in DOMAIN worker'.batch /\ worker'.batch[i - 1] = worker.batch[i]
  BY <1>1, TailFacts
<1>3. DOMAIN worker.batch \subseteq Nat \ {0} /\ DOMAIN worker'.batch \subseteq Nat \ {0}
  BY <1>1, TailFacts
<1>4. ASSUME NEW e \in Events
      PROVE  InHand(e)' <=> InHand(e) /\ e # Current
  <2>1. ASSUME NEW i \in DOMAIN worker'.batch, worker'.batch[i] = e
        PROVE  InHand(e) /\ e # Current
    <3>1. 1 < i + 1
      BY <1>3
    <3> QED
      BY <1>1, <1>2, <2>1, <3>1 DEF BatchInv, InHand
  <2>2. ASSUME NEW i \in DOMAIN worker.batch, worker.batch[i] = e, e # Current
        PROVE  InHand(e)'
    BY <1>1, <1>2, <2>2 DEF InHand
  <2> QED
    BY <2>1, <2>2 DEF InHand
<1>5. ASSUME NEW i \in DOMAIN worker'.batch
      PROVE  /\ Stored(worker.batch[i])'
             /\ event'[worker'.batch[i]].at >= worker'.last
             /\ event'[worker'.batch[i]].at > cursor'
  <2>1. i + 1 \in DOMAIN worker.batch /\ 1 < i + 1 /\ worker'.batch[i] = worker.batch[i + 1]
    BY <1>2, <1>3
  <2>2. /\ Stored(worker.batch[i + 1])
        /\ event[worker.batch[1]].at <= event[worker.batch[i + 1]].at
        /\ event[worker.batch[i + 1]].at > cursor
    BY <1>1, <2>1 DEF BatchInv
  <2>3. event[Current].at \in Nat /\ event[worker.batch[i + 1]].at \in Nat
    BY <1>1, <2>1, Stamps
  <2>4. event' = event /\ cursor' = cursor
    OBVIOUS
  <2> QED
    BY <1>1, <2>1, <2>2, <2>3, <2>4 DEF Stored
<1>6. ASSUME NEW i \in DOMAIN worker'.batch, NEW j \in DOMAIN worker'.batch, i < j
      PROVE  /\ worker'.batch[i] # worker'.batch[j]
             /\ event'[worker'.batch[i]].at <= event'[worker'.batch[j]].at
  <2>1. /\ i + 1 \in DOMAIN worker.batch /\ worker'.batch[i] = worker.batch[i + 1]
        /\ j + 1 \in DOMAIN worker.batch /\ worker'.batch[j] = worker.batch[j + 1]
        /\ i + 1 < j + 1
    BY <1>2, <1>3, <1>6
  <2> QED
    BY <2>1 DEF BatchInv
<1>7. cursor' <= worker'.last
  <2>1. event[Current].at \in Nat /\ cursor \in Nat
    BY <1>1, TimesInNat DEF TypeOK
  <2> QED
    BY <1>1, <2>1 DEF BatchInv
<1>8. InHand(Current)
  BY <1>1 DEF InHand
<1>9. BatchInv'
  <2>1. worker'.at = "next" /\ Running'
    BY <1>1 DEF Running
  <2> QED
    BY <2>1, <1>5, <1>6, <1>7 DEF BatchInv
<1> QED
  BY <1>1, <1>2, <1>4, <1>8, <1>9

\* The worker ends its run.
LEMMA Ends ==
    ASSUME worker' = Idle
    PROVE  /\ worker'.at = "idle" /\ worker'.batch = <<>> /\ DOMAIN worker'.batch = {}
           /\ ~Running' /\ BatchInv' /\ \A e : ~InHand(e)'
<1>1. worker'.at = "idle" /\ worker'.batch = <<>>
  BY DEF Idle
<1>2. DOMAIN worker'.batch = {}
  BY <1>1
<1> QED
  BY <1>1, <1>2 DEF BatchInv, Running, InHand

\* What it fetches.
LEMMA Fetches ==
    ASSUME TypeOK, BatchInv, Fetch
    PROVE  /\ worker.at = "fetch" /\ worker.last = cursor /\ worker'.last = worker.last
           /\ worker'.at \in {"clock", "next"}
           /\ worker'.at = "clock" => Newer = {} /\ worker'.batch = <<>>
           /\ \A e \in Events : InHand(e)' => e \in Newer
           /\ \A e \in Newer : \/ InHand(e)'
                               \/ \A i \in DOMAIN worker'.batch :
                                    event[worker'.batch[i]].at <= event[e].at
           /\ BatchInv'
<1>1. worker.at = "fetch" /\ worker.last = cursor /\ worker'.last = worker.last
  BY FetchType DEF Fetch, BatchInv
<1>2. PICK n \in 0 .. Limit : \E b \in [1 .. n -> Newer] :
        IsBatch(b) /\ worker'.batch = b /\ worker'.at = IF n = 0 THEN "clock" ELSE "next"
  BY FetchType
<1>3. PICK b \in [1 .. n -> Newer] :
        IsBatch(b) /\ worker'.batch = b /\ worker'.at = IF n = 0 THEN "clock" ELSE "next"
  BY <1>2
<1>4. n \in Nat /\ Limit \in Nat \ {0} /\ Newer \in SUBSET Events
  BY NumbersAssumption DEF Newer
<1>5. b \in Seq(Events) /\ Len(b) = n /\ DOMAIN b = 1 .. n
  BY <1>4, BatchSeq
<1>6. \A i \in DOMAIN b : b[i] \in Newer
  BY <1>5
<1>7. ASSUME n = 0
      PROVE  Newer = {} /\ b = <<>>
  <2>1. IsFiniteSet(Newer)
    BY <1>4, EventsAssumption, FS_Subset
  <2>2. Cardinality(Newer) \in Nat
    BY <2>1, FS_CardinalityType
  <2>3. Cardinality(Newer) = 0
    BY <1>3, <1>4, <1>5, <1>7, <2>2 DEF IsBatch
  <2>4. Newer = {}
    BY <2>1, <2>3, FS_EmptySet
  <2>5. b = <<>>
    BY <1>5, <1>7
  <2> QED
    BY <2>4, <2>5
<1>8. \A e \in Newer : Stored(e) /\ event[e].at > cursor
  BY <1>1 DEF Newer
<1>9. event' = event /\ cursor' = cursor
  BY DEF Fetch
<1>10. cursor \in Nat /\ \A e \in Events : event[e].at \in Nat
  BY TimesInNat DEF TypeOK
<1>11. ASSUME NEW i \in DOMAIN b
       PROVE  Stored(b[i]) /\ event[b[i]].at >= cursor /\ event[b[i]].at > cursor
  BY <1>4, <1>6, <1>8, <1>10
<1>12. BatchInv'
  <2>1. worker'.at \in {"clock", "next"} /\ (worker'.at = "clock" => b = <<>>)
    BY <1>3, <1>7
  <2>2. \A i, j \in DOMAIN b : i < j => b[i] # b[j] /\ event[b[i]].at <= event[b[j]].at
    BY <1>3 DEF IsBatch
  <2>3. cursor' <= worker'.last
    BY <1>1, <1>9, <1>10
  <2>4. \A i \in DOMAIN worker'.batch : /\ Stored(worker.batch[i])'
                                        /\ event'[worker'.batch[i]].at >= worker'.last
                                        /\ event'[worker'.batch[i]].at > cursor'
    <3>1. worker'.batch = b /\ worker'.last = cursor
      BY <1>1, <1>3
    <3> QED
      BY <3>1, <1>9, <1>11 DEF Stored
  <2> QED
    <3>1. \A i, j \in DOMAIN worker'.batch :
            i < j => /\ worker'.batch[i] # worker'.batch[j]
                     /\ event'[worker'.batch[i]].at <= event'[worker'.batch[j]].at
      BY <1>3, <1>9, <2>2
    <3>2. ~Running' => worker'.batch = <<>>
      BY <1>3, <2>1 DEF Running
    <3>3. worker'.at \notin {"fetch", "fold", "insert", "note"}
      BY <2>1
    <3> QED
      BY <2>3, <2>4, <3>1, <3>2, <3>3 DEF BatchInv
<1>13. \A e \in Events : InHand(e)' => e \in Newer
  BY <1>3, <1>6 DEF InHand
<1>14. \A e \in Newer : InHand(e)' \/ \A i \in DOMAIN worker'.batch :
                                        event[worker'.batch[i]].at <= event[e].at
  BY <1>3 DEF IsBatch, InHand
<1> QED
  BY <1>1, <1>3, <1>7, <1>12, <1>13, <1>14

\* The worker writes for the event it has in hand.
LEMMA Stays ==
    ASSUME TypeOK, BatchInv, worker.at \in {"next", "fold", "insert", "note"},
           worker'.at \in {"fold", "insert", "note"},
           worker'.batch = worker.batch, worker'.last = worker.last,
           worker.batch # <<>>, event[Current].who # Null,
           event' = event, cursor' = cursor
    PROVE  BatchInv' /\ Pos' = Pos /\ \A e : InHand(e)' <=> InHand(e)
<1>1. Current' = Current /\ Running /\ Running'
  BY DEF Current, Running
<1>2. Pos' = Pos /\ \A e : InHand(e)' <=> InHand(e)
  BY <1>1 DEF Pos, InHand
<1> HIDE DEF Current, Running
<1>3. BatchInv'
  BY <1>1 DEF BatchInv, Stored
<1> QED
  BY <1>2, <1>3

\* What goes on outside leaves the worker, and what is stored, alone.
Outside == \/ Tick \/ \E e \in Events : Commit(e)
           \/ \E e \in Events, v \in Visitors \cup {Null} : Begin(e, v)

LEMMA OutsideKeeps ==
    ASSUME TypeOK, BatchInv, Outside
    PROVE  /\ worker' = worker /\ cursor' = cursor /\ counted' = counted /\ leads' = leads
           /\ redo' = redo /\ lost' = lost
           /\ \A e \in Events : Stored(e) => event'[e] = event[e] /\ Stored(e)'
           /\ BatchInv'
<1>1. /\ worker' = worker /\ cursor' = cursor /\ counted' = counted /\ leads' = leads
      /\ redo' = redo /\ lost' = lost
  BY DEF Outside, Tick, Commit, Begin, history
<1>2. \A e \in Events : Stored(e) => event'[e] = event[e] /\ Stored(e)'
  BY DEF Outside, Tick, Commit, Begin, Stored, TypeOK
<1>3. \A i \in DOMAIN worker.batch : event'[worker.batch[i]] = event[worker.batch[i]]
                                     /\ Stored(worker.batch[i])'
  BY <1>1, <1>2, Stamps DEF BatchInv
<1>4. worker.batch # <<>> => event'[Current] = event[Current] /\ Current' = Current
  <2>1. worker.batch # <<>> => 1 \in DOMAIN worker.batch /\ Current = worker.batch[1]
    BY WorkerType, TailFacts DEF Current
  <2> QED
    BY <1>1, <1>3, <2>1 DEF Current
<1>5. BatchInv'
  <2>1. Running' = Running
    BY <1>1 DEF Running
  <2> HIDE DEF Running
  <2> QED
    BY <1>1, <1>3, <1>4, <2>1 DEF BatchInv
<1> QED
  BY <1>1, <1>2, <1>5

-----------------------------------------------------------------------------
(* Counted at most once more than runs were cut short *)

LEMMA CountFacts ==
    ASSUME TypeOK
    PROVE  redo \in Nat /\ lost \in Nat /\ \A e \in Events : counted[e] \in Nat
BY DEF TypeOK

LEMMA CountOutside ==
    ASSUME TypeOK, BatchInv, CountInv, Outside
    PROVE  CountInv'
<1>1. /\ worker' = worker /\ cursor' = cursor /\ counted' = counted /\ redo' = redo
      /\ \A e \in Events : Stored(e) => event'[e] = event[e] /\ Stored(e)'
  BY OutsideKeeps
<1>2. Pos' = Pos /\ \A e : InHand(e)' <=> InHand(e)
  BY <1>1 DEF Pos, Running, InHand
<1>3. ASSUME NEW e \in Events
      PROVE  event'[e].at <= now'
  <2>1. event[e].at <= now /\ now \in Nat /\ event[e].at \in Nat
    BY Stamps DEF CountInv
  <2>2. CASE Tick
    BY <2>1, <2>2 DEF Tick
  <2>3. ASSUME NEW f \in Events, Commit(f)
        PROVE  event'[e].at <= now'
    BY <2>1, <2>3 DEF Commit, TypeOK
  <2>4. ASSUME NEW f \in Events, NEW v \in Visitors \cup {Null}, Begin(f, v)
        PROVE  event'[e].at <= now'
    <3>1. event'[e].at \in {event[e].at, now} /\ now' = now
      BY <2>4 DEF Begin, TypeOK
    <3> QED
      BY <2>1, <3>1
  <2> QED
    BY <2>2, <2>3, <2>4 DEF Outside
<1>4. ASSUME NEW e \in Events
      PROVE  /\ ~Stored(e)' => counted'[e] = 0
             /\ counted'[e] <= 1 + redo' /\ (InHand(e)' => counted'[e] <= redo')
             /\ (event'[e].at > Pos' => counted'[e] <= redo')
  <2>1. CASE Stored(e)
    BY <1>1, <1>2, <2>1 DEF CountInv
  <2>2. CASE ~Stored(e)
    <3>1. counted'[e] = 0
      BY <1>1, <2>2 DEF CountInv
    <3> QED
      BY <1>1, <3>1, CountFacts
  <2> QED
    BY <2>1, <2>2
<1> QED
  BY <1>3, <1>4 DEF CountInv

LEMMA CountGoes ==
    ASSUME TypeOK, BatchInv, CountInv, worker.at \in {"next", "fold", "insert", "note"},
           worker.batch # <<>>, worker' = Onward, UNCHANGED <<now, event, cursor, redo>>,
           counted' \in {counted, [counted EXCEPT ![Current] = @ + 1]}
    PROVE  CountInv'
<1>1. /\ worker'.at = "next" /\ worker'.last = event[Current].at
      /\ Current \in Events /\ InHand(Current)
      /\ \A e \in Events : InHand(e)' <=> InHand(e) /\ e # Current
  BY Goes
<1>2. Pos' = event[Current].at /\ Pos = worker.last
  BY <1>1 DEF Pos, Running
<1>3. Stored(Current) /\ Pos <= Pos'
  BY <1>1, <1>2 DEF InHand, BatchInv
<1>4. /\ Pos \in Nat /\ Pos' \in Nat /\ redo \in Nat
      /\ \A e \in Events : event[e].at \in Nat /\ counted[e] \in Nat
  BY <1>1, <1>2, Stamps, CountFacts
<1>5. /\ counted'[Current] <= counted[Current] + 1
      /\ \A e \in Events : e # Current => counted'[e] = counted[e]
  BY <1>1, <1>4 DEF TypeOK
<1>6. counted[Current] <= redo /\ counted'[Current] \in Nat
  BY <1>1, <1>4 DEF CountInv, TypeOK
<1>7. \A e \in Events : Stored(e)' <=> Stored(e)
  BY DEF Stored
<1>8. ASSUME NEW e \in Events
      PROVE  /\ event'[e].at <= now'
             /\ ~Stored(e)' => counted'[e] = 0
             /\ counted'[e] <= 1 + redo' /\ (InHand(e)' => counted'[e] <= redo')
             /\ (event'[e].at > Pos' => counted'[e] <= redo')
  <2>1. CASE e = Current
    BY <1>1, <1>2, <1>3, <1>4, <1>5, <1>6, <1>7, <2>1 DEF CountInv
  <2>2. CASE e # Current
    <3>1. event[e].at > Pos' => event[e].at > Pos
      BY <1>3, <1>4
    <3> QED
      BY <1>1, <1>5, <1>7, <2>2, <3>1 DEF CountInv
  <2> QED
    BY <2>1, <2>2
<1> QED
  BY <1>8 DEF CountInv

\* Steps that leave what has been counted, and move the position on at most.
LEMMA CountStays ==
    ASSUME TypeOK, CountInv, UNCHANGED <<now, event, counted, redo>>,
           Pos' \in Nat, Pos <= Pos' \/ now <= Pos',
           \A e \in Events : InHand(e)' => InHand(e) \/ event[e].at > Pos
    PROVE  CountInv'
<1>1. Pos \in Nat /\ now \in Nat /\ \A e \in Events : event[e].at \in Nat
  BY Stamps DEF Pos
<1>2. ASSUME NEW e \in Events
      PROVE  /\ event'[e].at <= now'
             /\ ~Stored(e)' => counted'[e] = 0
             /\ counted'[e] <= 1 + redo' /\ (InHand(e)' => counted'[e] <= redo')
             /\ (event'[e].at > Pos' => counted'[e] <= redo')
  <2>1. event[e].at > Pos' => event[e].at > Pos
    BY <1>1 DEF CountInv
  <2>2. Stored(e)' <=> Stored(e)
    BY DEF Stored
  <2> QED
    BY <2>1, <2>2 DEF CountInv
<1> QED
  BY <1>2 DEF CountInv

LEMMA CountRepeats ==
    ASSUME TypeOK, CountInv, worker' = Idle, UNCHANGED <<now, event, counted, cursor>>,
           redo' = redo + 1
    PROVE  CountInv'
<1>1. \A e : ~InHand(e)'
  BY Ends
<1>2. \A e \in Events : Stored(e)' <=> Stored(e)
  BY DEF Stored
<1> QED
  BY <1>1, <1>2, CountFacts DEF CountInv

-----------------------------------------------------------------------------
(* Nothing is passed over without a cause *)

LEMMA DueOutside ==
    ASSUME TypeOK, BatchInv, DueInv, Outside
    PROVE  DueInv'
<1>1. /\ worker' = worker /\ cursor' = cursor /\ counted' = counted
      /\ \A e \in Events : Stored(e) => event'[e] = event[e] /\ Stored(e)'
  BY OutsideKeeps
<1>2. Pos' = Pos /\ \A e : InHand(e)' <=> InHand(e)
  BY <1>1 DEF Pos, Running, InHand
<1>3. \A i \in DOMAIN worker.batch : event'[worker.batch[i]] = event[worker.batch[i]]
  BY <1>1, Stamps DEF BatchInv
<1>4. unlucky \subseteq unlucky'
  BY DEF Outside, Tick, Commit, Begin, history
<1>5. ASSUME NEW e \in Events, Stored(e), Missing(e)'
      PROVE  Missing(e)
  BY <1>1, <1>4, <1>5 DEF Missing, Shared
<1>6. ASSUME NEW e \in Events, ~Stored(e), Missing(e)'
      PROVE  /\ worker.at \in {"idle", "fetch"} /\ event'[e].at > cursor
  <2>1. Stored(e)' /\ e \notin unlucky'
    BY <1>6 DEF Missing
  <2>2. ~Tick /\ ~ \E f \in Events, v \in Visitors \cup {Null} : Begin(f, v)
    <3>1. Tick => (Stored(e)' <=> Stored(e))
      BY DEF Tick, Stored
    <3>2. ASSUME NEW f \in Events, NEW v \in Visitors \cup {Null}, Begin(f, v)
          PROVE  Stored(e)' => Stored(e)
      <4>1. CASE e = f
        BY <3>2, <4>1 DEF Begin, Stored, TypeOK
      <4>2. CASE e # f
        BY <3>2, <4>2 DEF Begin, Stored, TypeOK
      <4> QED
        BY <4>1, <4>2
    <3> QED
      BY <1>6, <2>1, <3>1, <3>2
  <2>3. PICK f \in Events : Commit(f)
    BY <2>2 DEF Outside
  <2>4. f = e
    BY <1>6, <2>1, <2>3 DEF Commit, Stored, TypeOK
  <2>5. event'[e].at = event[e].at
    BY <2>3, <2>4 DEF Commit, TypeOK
  <2> QED
    BY <2>1, <2>3, <2>4, <2>5 DEF Commit
<1>7. ASSUME NEW e \in Events, Missing(e)'
      PROVE  /\ worker'.at # "clock" /\ event'[e].at > cursor'
             /\ \/ InHand(e)'
                \/ /\ event'[e].at > Pos'
                   /\ \A i \in DOMAIN worker'.batch : event'[worker'.batch[i]].at < event'[e].at
  <2>1. CASE Stored(e)
    BY <1>1, <1>2, <1>3, <1>5, <1>7, <2>1 DEF DueInv
  <2>2. CASE ~Stored(e)
    <3>1. worker.at \in {"idle", "fetch"} /\ event'[e].at > cursor
      BY <1>6, <1>7, <2>2
    <3>2. worker.batch = <<>> /\ Pos = cursor
      BY <3>1 DEF BatchInv, Running, Pos
    <3>3. DOMAIN worker.batch = {}
      BY <3>2
    <3> QED
      BY <1>1, <1>2, <3>1, <3>2, <3>3
  <2> QED
    BY <2>1, <2>2
<1> QED
  BY <1>7 DEF DueInv

LEMMA DueGoes ==
    ASSUME TypeOK, BatchInv, DueInv, worker.at \in {"next", "fold", "insert", "note"},
           worker.batch # <<>>, worker' = Onward, UNCHANGED <<event, cursor>>,
           \A e \in Events : Missing(e)' => Missing(e) /\ e # Current
    PROVE  DueInv'
<1>1. /\ worker'.at = "next" /\ worker'.last = event[Current].at
      /\ Current \in Events /\ InHand(Current)
      /\ \A e \in Events : InHand(e)' <=> InHand(e) /\ e # Current
      /\ \A i \in DOMAIN worker'.batch :
           i + 1 \in DOMAIN worker.batch /\ worker'.batch[i] = worker.batch[i + 1]
  BY Goes
<1>2. Pos' = event[Current].at
  BY <1>1 DEF Pos, Running
<1>3. ASSUME NEW e \in Events, Missing(e)'
      PROVE  /\ worker'.at # "clock" /\ event'[e].at > cursor'
             /\ \/ InHand(e)'
                \/ /\ event'[e].at > Pos'
                   /\ \A i \in DOMAIN worker'.batch : event'[worker'.batch[i]].at < event'[e].at
  <2>1. /\ e # Current /\ event[e].at > cursor
        /\ \/ InHand(e)
           \/ \A i \in DOMAIN worker.batch : event[worker.batch[i]].at < event[e].at
    BY <1>3 DEF DueInv
  <2>2. CASE InHand(e)
    BY <1>1, <2>1, <2>2
  <2>3. CASE \A i \in DOMAIN worker.batch : event[worker.batch[i]].at < event[e].at
    <3>1. event[Current].at < event[e].at
      BY <1>1, <2>3 DEF InHand
    <3>2. event[e].at \in Nat /\ event[Current].at \in Nat
      BY <1>1, Stamps
    <3> QED
      BY <1>1, <1>2, <2>1, <2>3, <3>1, <3>2
  <2> QED
    BY <2>1, <2>2, <2>3
<1> QED
  BY <1>3 DEF DueInv

\* The worker ends a run with the cursor where it was, or where the run got to.
LEMMA DueEnds ==
    ASSUME TypeOK, BatchInv, DueInv, worker' = Idle, UNCHANGED <<event, counted, unlucky>>,
           \/ worker.at = "clock"
           \/ cursor' = cursor
           \/ worker.at = "next" /\ worker.batch = <<>> /\ cursor' = worker.last
    PROVE  DueInv'
<1>1. worker'.at = "idle" /\ DOMAIN worker'.batch = {} /\ Pos' = cursor'
  BY Ends DEF Pos
<1>2. \A e \in Events : Missing(e)' => Missing(e)
  BY DEF Missing, Stored, Shared
<1>3. ASSUME NEW e \in Events, Missing(e)
      PROVE  event[e].at > cursor'
  <2>1. CASE cursor' = cursor \/ worker.at = "clock"
    BY <1>3, <2>1 DEF DueInv
  <2>2. CASE worker.at = "next" /\ worker.batch = <<>> /\ cursor' = worker.last
    <3>1. ~InHand(e) /\ Pos = worker.last
      BY <2>2 DEF InHand, Pos, Running
    <3> QED
      BY <1>3, <2>2, <3>1 DEF DueInv
  <2> QED
    BY <2>1, <2>2
<1> QED
  BY <1>1, <1>2, <1>3 DEF DueInv

-----------------------------------------------------------------------------
(* The steps of the worker, one by one *)

RunInv == BatchInv /\ CountInv /\ DueInv

\* What a step leaves of the events that are missing.
LEMMA MissingKept ==
    ASSUME UNCHANGED <<event, counted>>, unlucky \subseteq unlucky'
    PROVE  \A e \in Events : Missing(e)' => Missing(e)
BY DEF Missing, Stored, Shared

\* The worker has an event in hand, of which it writes.
LEMMA Writes ==
    ASSUME TypeOK, RunInv, worker.at \in {"next", "fold", "insert", "note"},
           worker'.at \in {"fold", "insert", "note"},
           worker'.batch = worker.batch, worker'.last = worker.last,
           worker.batch # <<>>, event[Current].who # Null,
           UNCHANGED <<now, event, cursor, counted, redo, unlucky>>
    PROVE  RunInv'
<1>1. BatchInv' /\ Pos' = Pos /\ \A e : InHand(e)' <=> InHand(e)
  BY Stays DEF RunInv
<1>2. CountInv'
  BY <1>1, Stamps, CountStays DEF RunInv, Pos
<1>3. \A e \in Events : Missing(e)' => Missing(e)
  BY MissingKept
<1>4. DueInv'
  BY <1>1, <1>3 DEF RunInv, DueInv
<1> QED
  BY <1>1, <1>2, <1>4 DEF RunInv

LEMMA LoadStep ==
    ASSUME TypeOK, RunInv, Load
    PROVE  RunInv'
<1>1. /\ worker.at = "idle" /\ worker'.at = "fetch" /\ worker'.batch = <<>>
      /\ worker'.last = cursor /\ UNCHANGED <<now, event, cursor, leads, counted, history>>
  BY DEF Load, Idle
<1>2. /\ Pos' = Pos /\ ~Running /\ ~Running'
      /\ DOMAIN worker'.batch = {} /\ worker.batch = <<>>
  BY <1>1 DEF Running, Pos, BatchInv, RunInv
<1>3. \A e : ~InHand(e)' /\ ~InHand(e)
  BY <1>2 DEF InHand
<1>4. BatchInv'
  BY <1>1, <1>2 DEF BatchInv
<1>5. CountInv'
  BY <1>1, <1>2, <1>3, Stamps, CountStays DEF RunInv, Pos, history
<1>6. \A e \in Events : Missing(e)' => Missing(e)
  BY <1>1, MissingKept DEF history
<1>7. DueInv'
  BY <1>1, <1>2, <1>3, <1>6 DEF RunInv, DueInv
<1> QED
  BY <1>4, <1>5, <1>7 DEF RunInv

LEMMA FetchElements ==
    ASSUME TypeOK, Fetch
    PROVE  \A i \in DOMAIN worker'.batch : worker'.batch[i] \in Events
<1>1. worker'.batch \in Seq(Events)
  BY FetchType DEF Workers
<1> QED
  BY <1>1

LEMMA FetchStep ==
    ASSUME TypeOK, RunInv, Fetch
    PROVE  RunInv'
<1>1. /\ worker.at = "fetch" /\ worker.last = cursor /\ worker'.last = worker.last
      /\ worker'.at \in {"clock", "next"}
      /\ worker'.at = "clock" => Newer = {} /\ worker'.batch = <<>>
      /\ \A e \in Events : InHand(e)' => e \in Newer
      /\ \A e \in Newer : \/ InHand(e)'
                          \/ \A i \in DOMAIN worker'.batch :
                               event[worker'.batch[i]].at <= event[e].at
      /\ BatchInv'
  BY Fetches DEF RunInv
<1>2. Pos = cursor /\ Pos' = cursor /\ UNCHANGED <<now, event, cursor, leads, counted, history>>
  BY <1>1 DEF Pos, Running, Fetch
<1>3. CountInv'
  BY <1>1, <1>2, Stamps, CountStays DEF RunInv, Newer, history
<1>4. \A e \in Events : ~InHand(e)
  <2>1. worker.batch = <<>>
    BY <1>1 DEF RunInv, BatchInv, Running
  <2>2. DOMAIN worker.batch = {}
    BY <2>1
  <2> QED
    BY <2>2 DEF InHand
<1>5. ASSUME NEW e \in Events, Missing(e)'
      PROVE  /\ worker'.at # "clock" /\ event'[e].at > cursor'
             /\ \/ InHand(e)'
                \/ /\ event'[e].at > Pos'
                   /\ \A i \in DOMAIN worker'.batch : event'[worker'.batch[i]].at < event'[e].at
  <2>1. Missing(e) /\ event[e].at > cursor
    BY <1>2, <1>5, MissingKept DEF history, RunInv, DueInv
  <2>2. e \in Newer
    BY <1>1, <2>1 DEF Newer, Missing
  <2>3. ASSUME ~InHand(e)', NEW i \in DOMAIN worker'.batch
        PROVE  event'[worker'.batch[i]].at < event'[e].at
    <3>1. worker'.batch[i] \in Events
      BY <2>3, <1>1, FetchElements
    <3>2. worker'.batch[i] # e
      BY <2>3 DEF InHand
    <3>3. Stored(worker'.batch[i])
      BY <1>1, <3>1, <2>3 DEF InHand, Newer
    <3>4. event[worker'.batch[i]].at # event[e].at
      BY <2>1, <3>1, <3>2, <3>3 DEF Missing, Shared
    <3>5. event[worker'.batch[i]].at <= event[e].at
      BY <1>1, <2>2, <2>3
    <3> QED
      BY <1>2, <3>1, <3>4, <3>5, Stamps
  <2> QED
    BY <1>1, <1>2, <2>1, <2>2, <2>3
<1>6. DueInv'
  BY <1>5 DEF DueInv
<1> QED
  BY <1>1, <1>3, <1>6 DEF RunInv

LEMMA FetchFailedStep ==
    ASSUME TypeOK, RunInv, FetchFailed
    PROVE  RunInv'
<1>1. /\ worker.at = "fetch" /\ worker' = [worker EXCEPT !.at = "clock"]
      /\ unlucky' = unlucky \cup Newer /\ UNCHANGED <<now, event, cursor, counted, redo>>
  BY DEF FetchFailed
<1>2. worker'.at = "clock" /\ worker'.batch = worker.batch /\ worker.batch = <<>>
      /\ worker.last = cursor
  BY <1>1, WorkerType DEF Workers, RunInv, BatchInv, Running
<1>3. DOMAIN worker.batch = {} /\ ~Running' /\ ~Running
  BY <1>1, <1>2 DEF Running
<1>4. Pos' = Pos /\ Pos = cursor /\ \A e : ~InHand(e) /\ ~InHand(e)'
  BY <1>1, <1>2, <1>3 DEF Pos, InHand
<1>5. BatchInv'
  BY <1>2, <1>3 DEF BatchInv
<1>6. CountInv'
  BY <1>1, <1>4, Stamps, CountStays DEF RunInv
<1>7. ASSUME NEW e \in Events
      PROVE  ~Missing(e)'
  <2>1. Missing(e)' => Missing(e) /\ e \notin Newer
    BY <1>1, MissingKept DEF Missing
  <2>2. Missing(e) => event[e].at > worker.last
    BY <1>2, <1>4 DEF RunInv, DueInv
  <2> QED
    BY <2>1, <2>2 DEF Newer, Missing
<1>8. DueInv'
  BY <1>7 DEF DueInv
<1> QED
  BY <1>5, <1>6, <1>8 DEF RunInv

\* The three ways to be done with an event.
LEMMA GoesStep ==
    ASSUME TypeOK, RunInv, Skip \/ InsertFailed \/ Note(TRUE) \/ Note(FALSE)
    PROVE  RunInv'
<1>1. /\ worker.at \in {"next", "insert", "note"} /\ worker.batch # <<>>
      /\ worker' = Onward /\ UNCHANGED <<now, event, cursor, redo>>
  BY DEF Skip, InsertFailed, Note, RunInv, BatchInv, history
<1>2. counted' \in {counted, [counted EXCEPT ![Current] = @ + 1]}
  BY DEF Skip, InsertFailed, Note
<1>3. Current \in Events
  BY <1>1, OnwardType
<1>4. \A e \in Events : Missing(e)' => Missing(e) /\ e # Current
  <2>1. CASE Skip
    <3>1. UNCHANGED <<event, counted, unlucky>> /\ event[Current].who = Null
      BY <2>1 DEF Skip, history
    <3>2. \A e \in Events : Missing(e)' => Missing(e)
      BY <3>1, MissingKept
    <3> QED
      BY <3>1, <3>2 DEF Missing
  <2>2. CASE InsertFailed \/ Note(FALSE)
    <3>1. UNCHANGED <<event, counted>> /\ unlucky' = unlucky \cup {Current}
      BY <2>2 DEF InsertFailed, Note
    <3>2. \A e \in Events : Missing(e)' => Missing(e)
      BY <3>1, MissingKept
    <3> QED
      BY <3>1, <3>2 DEF Missing
  <2>3. CASE Note(TRUE)
    <3>1. /\ event' = event /\ unlucky' = unlucky
          /\ counted' = [counted EXCEPT ![Current] = counted[Current] + 1]
      BY <2>3 DEF Note
    <3>2. counted'[Current] # 0 /\ \A e \in Events : e # Current => counted'[e] = counted[e]
      BY <1>3, <3>1, CountFacts DEF TypeOK
    <3> QED
      BY <3>1, <3>2 DEF Missing, Stored, Shared
  <2> QED
    BY <2>1, <2>2, <2>3
<1>5. BatchInv'
  BY <1>1, Goes DEF RunInv
<1>6. CountInv'
  BY <1>1, <1>2, CountGoes DEF RunInv
<1>7. DueInv'
  BY <1>1, <1>4, DueGoes DEF RunInv
<1> QED
  BY <1>5, <1>6, <1>7 DEF RunInv

LEMMA WriteStep ==
    ASSUME TypeOK, RunInv,
           Lookup \/ LookupFailed \/ Insert \/ \E ok \in BOOLEAN : Fold(ok)
    PROVE  RunInv'
<1>1. CASE Lookup \/ LookupFailed
  <2>1. /\ worker.at = "next" /\ worker.batch # <<>> /\ event[Current].who # Null
        /\ UNCHANGED <<now, event, cursor, counted, redo, unlucky>>
    BY <1>1 DEF Lookup, LookupFailed, history
  <2>2. /\ worker'.batch = worker.batch /\ worker'.last = worker.last
        /\ worker'.at \in {"fold", "insert"}
    BY <1>1, <2>1, LookFound, LookType
  <2> QED
    BY <2>1, <2>2, Writes
<1>2. CASE Insert \/ \E ok \in BOOLEAN : Fold(ok)
  <2>1. /\ worker.at \in {"fold", "insert"}
        /\ UNCHANGED <<now, event, cursor, counted, redo, unlucky>>
    BY <1>2 DEF Insert, Fold, history
  <2>2. worker.batch # <<>> /\ event[Current].who # Null
    BY <2>1 DEF RunInv, BatchInv
  <2>3. worker'.at = "note" /\ worker'.batch = worker.batch /\ worker'.last = worker.last
    BY <1>2, WorkerType DEF Insert, Fold, Workers
  <2> QED
    BY <2>1, <2>2, <2>3, Writes
<1> QED
  BY <1>1, <1>2

LEMMA EndStep ==
    ASSUME TypeOK, RunInv, SaveClock \/ Save(TRUE) \/ Save(FALSE) \/ Crash
    PROVE  RunInv'
<1>1. worker' = Idle /\ UNCHANGED <<now, event, counted, unlucky>>
  BY DEF SaveClock, Save, Crash, history
<1>2. BatchInv' /\ ~Running' /\ \A e : ~InHand(e)'
  BY <1>1, Ends
<1>3. CASE SaveClock
  <2>1. worker.at = "clock" /\ cursor' = now /\ redo' = redo
    BY <1>3 DEF SaveClock, history
  <2>2. DueInv'
    BY <1>1, <2>1, DueEnds DEF RunInv
  <2>3. CountInv'
    BY <1>1, <1>2, <2>1, Stamps, CountStays DEF RunInv, Pos
  <2> QED
    BY <1>2, <2>2, <2>3 DEF RunInv
<1>4. CASE Save(TRUE)
  <2>1. /\ worker.at = "next" /\ worker.batch = <<>> /\ cursor' = worker.last /\ redo' = redo
    BY <1>4 DEF Save
  <2>2. DueInv'
    BY <1>1, <2>1, DueEnds DEF RunInv
  <2>3. Pos' = Pos
    BY <1>2, <2>1 DEF Pos, Running
  <2>4. CountInv'
    BY <1>1, <1>2, <2>1, <2>3, Stamps, CountStays DEF RunInv, Pos
  <2> QED
    BY <1>2, <2>2, <2>4 DEF RunInv
<1>5. CASE Save(FALSE) \/ Crash
  <2>1. cursor' = cursor /\ redo' = redo + 1
    BY <1>5 DEF Save, Crash
  <2>2. DueInv'
    BY <1>1, <2>1, DueEnds DEF RunInv
  <2>3. CountInv'
    BY <1>1, <2>1, CountRepeats DEF RunInv
  <2> QED
    BY <1>2, <2>2, <2>3 DEF RunInv
<1> QED
  BY <1>3, <1>4, <1>5

LEMMA RunStep ==
    ASSUME TypeOK, RunInv, Run \/ Fail
    PROVE  RunInv'
<1>1. CASE Run
  BY <1>1, LoadStep, FetchStep, GoesStep, WriteStep, EndStep DEF Run
<1>2. CASE Fail
  BY <1>2, FetchFailedStep, GoesStep, WriteStep, EndStep DEF Fail
<1> QED
  BY <1>1, <1>2

-----------------------------------------------------------------------------
(* Counts and histories of the leads *)

\* Steps that leave the leads alone, and do not write for one.
LEMMA TallyKept ==
    ASSUME TypeOK, TallyInv, leads' = leads, worker'.at \notin {"fold", "note"},
           /\ redo' \in Nat /\ lost' \in Nat /\ redo <= redo' /\ lost <= lost'
           /\ worker.at = "note" => redo + lost < redo' + lost'
    PROVE  TallyInv'
<1>1. /\ redo \in Nat /\ lost \in Nat
      /\ \A i \in DOMAIN leads : leads[i].count \in Nat /\ leads[i].notes \in Nat
  BY CountFacts, LeadWrites
<1>2. ASSUME NEW i \in DOMAIN leads
      PROVE  /\ leads[i].count <= leads[i].notes + redo' + lost'
             /\ leads[i].notes <= leads[i].count + redo' + lost'
  <2>1. /\ leads[i].notes <= leads[i].count + redo + lost
        /\ leads[i].count <= leads[i].notes + redo + lost
             + (IF worker.at = "note" /\ worker.lead = i THEN 1 ELSE 0)
    BY <1>1 DEF TallyInv, TallyAgrees
  <2>2. CASE worker.at = "note"
    BY <1>1, <2>1, <2>2
  <2>3. CASE worker.at # "note"
    BY <1>1, <2>1, <2>3
  <2> QED
    BY <2>2, <2>3
<1>3. TallyAgrees'
  BY <1>1, <1>2 DEF TallyAgrees
<1> QED
  BY <1>3 DEF TallyInv

LEMMA LookTally ==
    ASSUME TypeOK, TallyInv, Lookup \/ LookupFailed
    PROVE  TallyInv'
<1>1. /\ worker.at = "next" /\ worker.batch # <<>> /\ leads' = leads
      /\ redo' = redo /\ lost' = lost
  BY DEF Lookup, LookupFailed, history
<1>2. /\ worker'.at \in {"fold", "insert"}
      /\ worker'.at = "fold" => /\ worker'.lead \in DOMAIN leads
                                /\ worker'.count = leads[worker'.lead].count
  BY <1>1, LookFound, LookType
<1>3. TallyAgrees'
  BY <1>1, <1>2 DEF TallyInv, TallyAgrees
<1> QED
  BY <1>1, <1>2, <1>3 DEF TallyInv

LEMMA FoldTally ==
    ASSUME TypeOK, TallyInv, NEW ok \in BOOLEAN, Fold(ok)
    PROVE  TallyInv'
<1> DEFINE l == worker.lead
<1>1. /\ worker.at = "fold" /\ redo' = redo
      /\ l \in DOMAIN leads /\ worker.count = leads[l].count
  BY DEF Fold, TallyInv
<1>2. worker'.at = "note" /\ worker'.lead = l
  BY WorkerType DEF Fold, Workers
<1>3. /\ redo \in Nat /\ lost \in Nat
      /\ \A i \in DOMAIN leads : leads[i].count \in Nat /\ leads[i].notes \in Nat
  BY CountFacts, LeadWrites
<1>4. \A i \in DOMAIN leads : /\ leads[i].count <= leads[i].notes + redo + lost
                              /\ leads[i].notes <= leads[i].count + redo + lost
  BY <1>1, <1>3 DEF TallyInv, TallyAgrees
<1>5. CASE ok
  <2>1. leads' = [leads EXCEPT ![l].count = leads[l].count + 1] /\ lost' = lost
    BY <1>1, <1>5 DEF Fold
  <2>2. /\ DOMAIN leads' = DOMAIN leads
        /\ \A i \in DOMAIN leads : i # l => leads'[i] = leads[i]
        /\ leads'[l].count = leads[l].count + 1 /\ leads'[l].notes = leads[l].notes
    BY <1>1, <2>1, LeadWrites DEF Rows
  <2>3. ASSUME NEW i \in DOMAIN leads
        PROVE  /\ leads'[i].count <= leads'[i].notes + (redo' + lost' + (IF l = i THEN 1 ELSE 0))
               /\ leads'[i].notes <= leads'[i].count + redo' + lost'
    BY <1>1, <1>3, <1>4, <2>1, <2>2
  <2>4. TallyAgrees'
    BY <1>2, <2>2, <2>3 DEF TallyAgrees
  <2>5. leads'[l].notes + 1 <= leads'[l].count + redo' + lost'
    BY <1>1, <1>3, <1>4, <2>1, <2>2
  <2> QED
    BY <1>1, <1>2, <2>2, <2>4, <2>5 DEF TallyInv
<1>6. CASE ~ok
  <2>1. leads' = leads /\ lost' = lost + 1
    BY <1>6 DEF Fold
  <2>2. ASSUME NEW i \in DOMAIN leads
        PROVE  /\ leads'[i].count <= leads'[i].notes + (redo' + lost' + (IF l = i THEN 1 ELSE 0))
               /\ leads'[i].notes <= leads'[i].count + redo' + lost'
    BY <1>1, <1>3, <1>4, <2>1
  <2>3. TallyAgrees'
    BY <1>2, <2>1, <2>2 DEF TallyAgrees
  <2>4. leads'[l].notes + 1 <= leads'[l].count + redo' + lost'
    BY <1>1, <1>3, <1>4, <2>1
  <2> QED
    BY <1>1, <1>2, <2>1, <2>3, <2>4 DEF TallyInv
<1> QED
  BY <1>5, <1>6

LEMMA InsertTally ==
    ASSUME TypeOK, BatchInv, TallyInv, Insert
    PROVE  TallyInv'
<1> DEFINE n == Len(leads) + 1
           row == [who |-> event[Current].who, first |-> event[Current].at, count |-> 1, notes |-> 0]
<1>1. /\ worker.at = "insert" /\ redo' = redo /\ lost' = lost /\ leads' = Append(leads, row)
  BY DEF Insert, history
<1>2. worker'.at = "note" /\ worker'.lead = n
  BY WorkerType DEF Insert, Workers
<1>3. Current \in Events /\ event[Current].who # Null
  BY <1>1, OnwardType DEF BatchInv
<1>4. row \in Rows
  BY <1>3 DEF Rows, TypeOK
<1>5. leads \in Leads /\ DOMAIN leads = 1 .. Len(leads) /\ Len(leads) \in Nat
  BY WorkerType
<1> HIDE DEF row
<1>6. /\ DOMAIN leads' = DOMAIN leads \cup {n} /\ n \notin DOMAIN leads
      /\ \A i \in DOMAIN leads : leads'[i] = leads[i]
      /\ leads'[n] = row
  BY <1>1, <1>4, <1>5, AddRow
<1>7. leads'[n].count = 1 /\ leads'[n].notes = 0
  BY <1>6 DEF row
<1>8. /\ redo \in Nat /\ lost \in Nat
      /\ \A i \in DOMAIN leads : leads[i].count \in Nat /\ leads[i].notes \in Nat
  BY CountFacts, LeadWrites
<1> HIDE DEF n
<1>9. ASSUME NEW i \in DOMAIN leads'
      PROVE  /\ leads'[i].count <= leads'[i].notes + (redo' + lost' + (IF n = i THEN 1 ELSE 0))
             /\ leads'[i].notes <= leads'[i].count + redo' + lost'
  <2>1. CASE i = n
    BY <1>1, <1>7, <1>8, <2>1
  <2>2. CASE i # n
    <3>1. /\ leads[i].count <= leads[i].notes + (redo + lost + 0)
          /\ leads[i].notes <= leads[i].count + redo + lost
      BY <1>1, <1>6, <2>2 DEF TallyInv, TallyAgrees
    <3> QED
      BY <1>1, <1>6, <2>2, <3>1
  <2> QED
    BY <2>1, <2>2
<1>10. TallyAgrees'
  BY <1>2, <1>9 DEF TallyAgrees
<1>11. leads'[n].notes + 1 <= leads'[n].count + redo' + lost'
  BY <1>1, <1>7, <1>8
<1> QED
  BY <1>2, <1>6, <1>10, <1>11 DEF TallyInv

LEMMA NoteTally ==
    ASSUME TypeOK, BatchInv, TallyInv, Note(TRUE)
    PROVE  TallyInv'
<1> DEFINE l == worker.lead
<1>1. /\ worker.at = "note" /\ redo' = redo /\ lost' = lost /\ worker' = Onward
      /\ leads' = [leads EXCEPT ![l].notes = leads[l].notes + 1]
      /\ worker.batch # <<>> /\ l \in DOMAIN leads
  BY DEF Note, BatchInv, TallyInv
<1>2. worker'.at = "next"
  BY <1>1, OnwardType
<1>3. /\ redo \in Nat /\ lost \in Nat
      /\ \A i \in DOMAIN leads : leads[i].count \in Nat /\ leads[i].notes \in Nat
  BY CountFacts, LeadWrites
<1>4. /\ DOMAIN leads' = DOMAIN leads
      /\ \A i \in DOMAIN leads : i # l => leads'[i] = leads[i]
      /\ leads'[l].notes = leads[l].notes + 1 /\ leads'[l].count = leads[l].count
  BY <1>1, LeadWrites DEF Rows
<1>5. ASSUME NEW i \in DOMAIN leads
      PROVE  /\ leads'[i].count <= leads'[i].notes + (redo' + lost' + 0)
             /\ leads'[i].notes <= leads'[i].count + redo' + lost'
  <2>1. /\ leads[i].notes <= leads[i].count + redo + lost
        /\ leads[i].count <= leads[i].notes + (redo + lost + (IF l = i THEN 1 ELSE 0))
        /\ i = l => leads[i].notes + 1 <= leads[i].count + redo + lost
    BY <1>1 DEF TallyInv, TallyAgrees
  <2>2. CASE i = l
    BY <1>1, <1>3, <1>4, <2>1, <2>2
  <2>3. CASE i # l
    BY <1>1, <1>3, <1>4, <2>1, <2>3
  <2> QED
    BY <2>2, <2>3
<1>6. TallyAgrees'
  BY <1>2, <1>4, <1>5 DEF TallyAgrees
<1> QED
  BY <1>2, <1>6 DEF TallyInv

LEMMA TallyStep ==
    ASSUME TypeOK, BatchInv, TallyInv, [Next]_vars
    PROVE  TallyInv'
<1>0. redo \in Nat /\ lost \in Nat
  BY CountFacts
<1>1. CASE Outside
  <2>1. worker' = worker /\ leads' = leads /\ redo' = redo /\ lost' = lost
    BY <1>1, OutsideKeeps
  <2> QED
    BY <2>1 DEF TallyInv, TallyAgrees
<1>2. CASE UNCHANGED vars
  BY <1>2 DEF vars, history, TallyInv, TallyAgrees
<1>3. CASE Load \/ Fetch \/ FetchFailed
  <2>1. /\ worker.at # "note" /\ leads' = leads /\ redo' = redo
        /\ lost' = lost \/ lost' = lost + 1
    BY <1>3 DEF Load, Fetch, FetchFailed, history
  <2>2. worker'.at \notin {"fold", "note"}
    BY <1>3, FetchType, WorkerType DEF Load, FetchFailed, Idle, Workers
  <2> QED
    BY <1>0, <2>1, <2>2, TallyKept
<1>4. CASE SaveClock \/ Save(TRUE) \/ Save(FALSE) \/ Crash
  <2>1. /\ worker' = Idle /\ leads' = leads /\ lost' = lost
        /\ redo' = redo + 1 \/ (redo' = redo /\ worker.at # "note")
    BY <1>4 DEF SaveClock, Save, Crash, history
  <2>2. worker'.at = "idle"
    BY <2>1 DEF Idle
  <2> QED
    BY <1>0, <2>1, <2>2, TallyKept
<1>5. CASE Skip \/ InsertFailed \/ Note(FALSE)
  <2>1. /\ worker' = Onward /\ worker.batch # <<>> /\ leads' = leads /\ redo' = redo
        /\ lost' = lost + 1 \/ (lost' = lost /\ worker.at # "note")
    BY <1>5 DEF Skip, InsertFailed, Note, BatchInv, history
  <2>2. worker'.at = "next"
    BY <2>1, OnwardType
  <2> QED
    BY <1>0, <2>1, <2>2, TallyKept
<1> QED
  BY <1>1, <1>2, <1>3, <1>4, <1>5, LookTally, FoldTally, InsertTally, NoteTally
     DEF Next, Outside, Run, Fail

-----------------------------------------------------------------------------
(* Leads of one visitor start in the order they were made, and apart *)

\* A set of numbers that is not empty and has a bound has a greatest number.
LEMMA Greatest ==
    ASSUME NEW n \in Nat, NEW S \in SUBSET (0 .. n), S # {}
    PROVE  \E x \in S : \A y \in S : y <= x
<1> DEFINE T == {n - x : x \in S}
           R == OpToRel(<, Nat)
<1>1. T \subseteq Nat /\ T # {}
  <2>1. \A x \in S : x \in Nat /\ n - x \in Nat
    OBVIOUS
  <2> QED
    BY <2>1
<1>2. IsWellFoundedOn(R, Nat)
  BY NatLessThanWellFounded
<1>3. \A a, b \in Nat : a < b => <<a, b>> \in R
  BY DEF OpToRel
<1> HIDE DEF R, T
<1>4. PICK t \in T : \A u \in T : ~ (<<u, t>> \in R)
  BY <1>1, <1>2, WFMin
<1>5. ASSUME NEW u \in T
      PROVE  t <= u
  <2>1. u \in Nat /\ t \in Nat
    BY <1>1
  <2>2. ~ (u < t)
    BY <1>3, <1>4, <2>1
  <2> QED
    BY <2>1, <2>2
<1>6. PICK x \in S : t = n - x
  BY DEF T
<1>7. ASSUME NEW y \in S
      PROVE  y <= x
  <2>1. n - y \in T
    BY DEF T
  <2> QED
    BY <1>5, <1>6, <2>1
<1> QED
  BY <1>7

\* The order of the lookup: a visitor that has a lead has a newest one.
LEMMA HasNewest ==
    ASSUME TypeOK, NEW v, NEW k \in DOMAIN leads, leads[k].who = v
    PROVE  \E i \in DOMAIN leads : NewestLead(v, i)
<1> DEFINE S == {leads[i].first : i \in {j \in DOMAIN leads : leads[j].who = v}}
<1>1. MaxTime \in Nat /\ \A i \in DOMAIN leads : leads[i].first \in 0 .. MaxTime
  BY LeadWrites, NumbersAssumption DEF Rows, Times
<1>2. S \subseteq 0 .. MaxTime /\ S # {}
  BY <1>1
<1>3. PICK x \in S : \A y \in S : y <= x
  BY <1>1, <1>2, Greatest
<1>4. PICK i \in DOMAIN leads : leads[i].who = v /\ x = leads[i].first
  OBVIOUS
<1> QED
  BY <1>3, <1>4 DEF NewestLead

\* When the leads started is a time.
LEMMA Firsts ==
    ASSUME TypeOK
    PROVE  \A i \in DOMAIN leads : leads[i].first \in Nat
BY LeadWrites, TimesInNat DEF Rows

\* What goes on outside, or leaves the leads and does not write for an event.
LEMMA OrderKept ==
    ASSUME TypeOK, OrderInv, leads' = leads, Pos' \in Nat, now' \in Nat, Pos' <= now',
           redo' = 0 /\ blind' = 0 =>
             /\ redo = 0 /\ blind = 0
             /\ \A i \in DOMAIN leads : leads[i].first <= Reach'
             /\ worker'.at = "insert" =>
                  \A i \in DOMAIN leads :
                    leads[i].who = (event[Current].who)' => (event[Current].at)' - leads[i].first > Window
    PROVE  OrderInv'
<1>1. redo' = 0 /\ blind' = 0 => LeadsApart'
  BY DEF OrderInv, LeadsApart, Apart
<1> QED
  BY <1>1 DEF OrderInv

\* What goes on outside changes neither leads nor the event in hand.
LEMMA OrderOutside ==
    ASSUME TypeOK, BatchInv, OrderInv, Outside
    PROVE  OrderInv'
<1>1. /\ worker' = worker /\ cursor' = cursor /\ leads' = leads /\ redo' = redo /\ blind' = blind
      /\ \A e \in Events : Stored(e) => event'[e] = event[e] /\ Stored(e)'
  BY OutsideKeeps DEF Outside, Tick, Commit, Begin, history
<1>2. now' \in {now, now + 1}
  BY DEF Outside, Tick, Commit, Begin
<1>3. Pos' = Pos /\ Pos \in Nat /\ now \in Nat
  BY <1>1, Stamps DEF Pos, Running
<1>4. worker.at \in {"insert", "note"} => (event[Current])' = event[Current]
  <2> SUFFICES ASSUME worker.at \in {"insert", "note"}
               PROVE  (event[Current])' = event[Current]
    OBVIOUS
  <2>1. worker.batch # <<>>
    BY DEF BatchInv
  <2>2. Current' = Current /\ Current = worker.batch[1] /\ 1 \in DOMAIN worker.batch /\ Current \in Events
    BY <1>1, <2>1, WorkerType, TailFacts DEF Current
  <2>3. Stored(Current)
    BY <2>2 DEF BatchInv
  <2> QED
    BY <1>1, <2>2, <2>3
<1>5. Reach' = Reach
  BY <1>1, <1>3, <1>4 DEF Reach
<1>6. Pos' <= now'
  BY <1>2, <1>3 DEF OrderInv
<1>7. redo' = 0 /\ blind' = 0 =>
             /\ redo = 0 /\ blind = 0
             /\ \A i \in DOMAIN leads : leads[i].first <= Reach'
             /\ worker'.at = "insert" =>
                  \A i \in DOMAIN leads :
                    leads[i].who = (event[Current].who)' => (event[Current].at)' - leads[i].first > Window
  BY <1>1, <1>4, <1>5 DEF OrderInv
<1> QED
  BY <1>1, <1>2, <1>3, <1>6, <1>7, OrderKept

\* The ends of a run, and its fetch, leave the leads: where the run starts again
\* from an older cursor it counts as repeated.
LEMMA OrderRuns ==
    ASSUME TypeOK, BatchInv, OrderInv,
           Load \/ Fetch \/ FetchFailed \/ SaveClock \/ Save(TRUE) \/ Save(FALSE) \/ Crash
    PROVE  OrderInv'
<1>0. /\ leads' = leads /\ now' = now /\ blind' = blind
      /\ Pos \in Nat /\ now \in Nat /\ cursor \in Nat /\ worker.last \in Nat
      /\ \A i \in DOMAIN leads : leads[i].first \in Nat
  BY Stamps, Firsts DEF Load, Fetch, FetchFailed, SaveClock, Save, Crash, history, Pos
<1>1. CASE Load
  <2>1. worker'.at = "fetch" /\ worker.at = "idle" /\ cursor' = cursor /\ redo' = redo
    BY <1>1 DEF Load, Idle, history
  <2>2. Pos' = Pos /\ Reach' = Reach
    BY <2>1 DEF Pos, Running, Reach
  <2> QED
    BY <1>0, <2>1, <2>2, OrderKept DEF OrderInv
<1>2. CASE Fetch
  <2>1. /\ worker.at = "fetch" /\ worker'.at \in {"clock", "next"} /\ worker'.last = cursor
        /\ cursor' = cursor /\ redo' = redo
    BY <1>2, Fetches DEF Fetch, history
  <2>2. Pos' = Pos /\ Reach' = Reach
    BY <2>1 DEF Pos, Running, Reach
  <2> QED
    BY <1>0, <2>1, <2>2, OrderKept DEF OrderInv
<1>3. CASE FetchFailed
  <2>1. worker.at = "fetch" /\ worker'.at = "clock" /\ cursor' = cursor /\ redo' = redo
    BY <1>3, WorkerType DEF FetchFailed, Workers
  <2>2. Pos' = Pos /\ Reach' = Reach
    BY <2>1 DEF Pos, Running, Reach
  <2> QED
    BY <1>0, <2>1, <2>2, OrderKept DEF OrderInv
<1>4. CASE SaveClock
  <2>1. worker.at = "clock" /\ worker'.at = "idle" /\ cursor' = now /\ redo' = redo
    BY <1>4 DEF SaveClock, Idle, history
  <2>2. Pos' = now /\ Reach' = now /\ Reach = Pos
    BY <1>0, <2>1 DEF Pos, Running, Reach
  <2>3. redo = 0 /\ blind = 0 => \A i \in DOMAIN leads : leads[i].first <= now
    BY <1>0, <2>2 DEF OrderInv
  <2> QED
    BY <1>0, <2>1, <2>2, <2>3, OrderKept
<1>5. CASE Save(TRUE)
  <2>1. /\ worker.at = "next" /\ worker'.at = "idle" /\ cursor' = worker.last /\ redo' = redo
    BY <1>5 DEF Save, Idle
  <2>2. Pos' = Pos /\ Reach' = Reach
    BY <2>1 DEF Pos, Running, Reach
  <2> QED
    BY <1>0, <2>1, <2>2, OrderKept DEF OrderInv
<1>6. CASE Save(FALSE) \/ Crash
  <2>1. /\ worker'.at = "idle" /\ cursor' = cursor /\ redo' = redo + 1
    BY <1>6 DEF Save, Crash, Idle
  <2>2. redo' # 0
    BY <2>1, CountFacts
  <2>3. Pos' = cursor /\ cursor <= Pos
    BY <1>0, <2>1 DEF Pos, Running, BatchInv
  <2>4. Pos' <= now'
    BY <1>0, <2>3 DEF OrderInv
  <2> QED
    BY <1>0, <2>2, <2>3, <2>4, OrderKept
<1> QED
  BY <1>1, <1>2, <1>3, <1>4, <1>5, <1>6

\* What is current is no earlier than the worker has come.
LEMMA CurrentFacts ==
    ASSUME TypeOK, BatchInv, CountInv, Running, worker.batch # <<>>
    PROVE  /\ Current \in Events /\ event[Current].at \in Nat
           /\ Pos <= event[Current].at /\ event[Current].at <= now
<1>1. Current = worker.batch[1] /\ 1 \in DOMAIN worker.batch /\ Current \in Events
  BY WorkerType, TailFacts DEF Current
<1>2. event[Current].at >= worker.last
  BY <1>1 DEF BatchInv
<1>3. event[Current].at \in Nat /\ worker.last \in Nat
  BY <1>1, Stamps
<1> QED
  BY <1>1, <1>2, <1>3 DEF Pos, CountInv

\* The worker is done with an event, which is as far as it has come.
LEMMA OrderGoes ==
    ASSUME TypeOK, BatchInv, CountInv, OrderInv,
           Skip \/ InsertFailed \/ Note(TRUE) \/ Note(FALSE)
    PROVE  OrderInv'
<1>1. /\ worker.at \in {"next", "insert", "note"} /\ worker.batch # <<>> /\ Running
      /\ worker' = Onward /\ UNCHANGED <<now, event, cursor, redo, blind>>
  BY DEF Skip, InsertFailed, Note, BatchInv, history, Running
<1>2. /\ worker'.at = "next" /\ worker'.last = event[Current].at
      /\ Current \in Events
  BY <1>1, Goes
<1>3. Pos' = event[Current].at /\ Reach' = event[Current].at
  BY <1>2 DEF Pos, Running, Reach
<1>4. /\ event[Current].at \in Nat /\ Pos <= event[Current].at /\ event[Current].at <= now
      /\ Pos \in Nat /\ now \in Nat
  BY <1>1, CurrentFacts, Stamps DEF Pos
<1>5. \A i \in DOMAIN leads : leads[i].first \in Nat
  BY Firsts
<1>6. Reach <= event[Current].at /\ Reach \in Nat
  BY <1>4 DEF Reach
<1>7. redo = 0 /\ blind = 0 => \A i \in DOMAIN leads : leads[i].first <= event[Current].at
  BY <1>4, <1>5, <1>6 DEF OrderInv
<1>8. CASE leads' = leads
  BY <1>1, <1>2, <1>3, <1>4, <1>7, <1>8, OrderKept
<1>9. CASE Note(TRUE)
  <2>1. leads' = [leads EXCEPT ![worker.lead].notes = @ + 1]
    BY <1>9 DEF Note
  <2>2. /\ DOMAIN leads' = DOMAIN leads
        /\ \A i \in DOMAIN leads : leads'[i].who = leads[i].who /\ leads'[i].first = leads[i].first
    BY <2>1, LeadWrites DEF Rows
  <2>3. redo' = 0 /\ blind' = 0 => LeadsApart'
    BY <1>1, <2>2 DEF OrderInv, LeadsApart, Apart
  <2>4. redo' = 0 /\ blind' = 0 => \A i \in DOMAIN leads' : leads'[i].first <= Reach'
    BY <1>1, <1>3, <1>7, <2>2
  <2> QED
    BY <1>1, <1>2, <1>3, <1>4, <2>3, <2>4 DEF OrderInv
<1> QED
  BY <1>8, <1>9 DEF Skip, InsertFailed, Note

\* A lead that is counted up keeps its visitor and its start.
LEMMA OrderFold ==
    ASSUME TypeOK, BatchInv, CountInv, TallyInv, OrderInv, NEW ok \in BOOLEAN, Fold(ok)
    PROVE  OrderInv'
<1>1. /\ worker.at = "fold" /\ worker.batch # <<>> /\ Running
      /\ UNCHANGED <<now, event, cursor, redo, blind>>
  BY DEF Fold, BatchInv, Running
<1>2. worker'.at = "note" /\ worker'.batch = worker.batch /\ worker'.last = worker.last
  BY WorkerType DEF Fold, Workers
<1>3. Pos' = Pos /\ Pos = Reach /\ Reach' = event[Current].at
  BY <1>1, <1>2 DEF Pos, Running, Reach, Current
<1>4. /\ event[Current].at \in Nat /\ Pos <= event[Current].at /\ Pos \in Nat
      /\ \A i \in DOMAIN leads : leads[i].first \in Nat
  BY <1>1, CurrentFacts, Stamps, Firsts DEF Pos
<1>5. /\ DOMAIN leads' = DOMAIN leads
      /\ \A i \in DOMAIN leads : leads'[i].who = leads[i].who /\ leads'[i].first = leads[i].first
  BY LeadWrites DEF Fold, Rows
<1>6. redo' = 0 /\ blind' = 0 => LeadsApart'
  BY <1>1, <1>5 DEF OrderInv, LeadsApart, Apart
<1>7. redo' = 0 /\ blind' = 0 => \A i \in DOMAIN leads' : leads'[i].first <= Reach'
  BY <1>1, <1>3, <1>4, <1>5 DEF OrderInv
<1> QED
  BY <1>1, <1>2, <1>3, <1>6, <1>7 DEF OrderInv

\* A lookup that does not fold has met no lead within the window.
LEMMA OrderLooks ==
    ASSUME TypeOK, BatchInv, CountInv, OrderInv, Lookup \/ LookupFailed
    PROVE  OrderInv'
<1>1. /\ worker.at = "next" /\ worker.batch # <<>> /\ Running /\ leads' = leads
      /\ UNCHANGED <<now, event, cursor, redo>>
  BY DEF Lookup, LookupFailed, Running, history
<1>2. /\ worker'.batch = worker.batch /\ worker'.last = worker.last
      /\ worker'.at \in {"fold", "insert"}
  BY <1>1, LookFound, LookType
<1>3. Pos' = Pos /\ Reach' = Reach /\ Reach = Pos /\ Current' = Current
  BY <1>1, <1>2 DEF Pos, Running, Reach, Current
<1>4. /\ event[Current].at \in Nat /\ Pos <= event[Current].at /\ Pos \in Nat /\ now \in Nat
      /\ \A i \in DOMAIN leads : leads[i].first \in Nat
  BY <1>1, CurrentFacts, Stamps, Firsts DEF Pos
<1>5. CASE LookupFailed
  <2>1. blind' # 0
    BY <1>5, CountTypes DEF LookupFailed
  <2> QED
    BY <1>1, <1>3, <1>4, <2>1, OrderKept DEF OrderInv
<1>6. CASE Lookup
  <2> DEFINE v == event[Current].who
             t == event[Current].at
  <2>1. blind' = blind
    BY <1>6 DEF Lookup, history
  <2>2. ASSUME redo = 0, blind = 0, worker'.at = "insert", NEW i \in DOMAIN leads, leads[i].who = v
        PROVE  t - leads[i].first > Window
    <3>1. \E k \in DOMAIN leads : NewestLead(v, k)
      BY <2>2, HasNewest
    <3>2. PICK k \in DOMAIN leads : NewestLead(v, k) /\ Look(k)
      BY <1>6, <3>1 DEF Lookup
    <3>3. ~WithinWindow(leads[k].first, t)
      <4>1. k # 0
        BY WorkerType
      <4> QED
        BY <2>2, <3>2, <4>1, WorkerType DEF Look, Workers
    <3>4. leads[k].first <= t
      BY <1>3, <1>4, <2>2 DEF OrderInv
    <3>5. leads[i].first <= leads[k].first
      BY <2>2, <3>2 DEF NewestLead
    <3>6. t - leads[k].first > Window
      BY <1>4, <3>3, <3>4, NumbersAssumption DEF WithinWindow
    <3> QED
      BY <1>4, <3>5, <3>6, NumbersAssumption
  <2> QED
    BY <1>1, <1>3, <1>4, <2>1, <2>2, OrderKept DEF OrderInv
<1> QED
  BY <1>5, <1>6

\* The lead inserted is the latest of its visitor.
LEMMA OrderInsert ==
    ASSUME TypeOK, BatchInv, CountInv, OrderInv, Insert
    PROVE  OrderInv'
<1> DEFINE n == Len(leads) + 1
           row == [who |-> event[Current].who, first |-> event[Current].at, count |-> 1, notes |-> 0]
<1>1. /\ worker.at = "insert" /\ worker.batch # <<>> /\ Running /\ leads' = Append(leads, row)
      /\ UNCHANGED <<now, event, cursor, redo, blind>>
  BY DEF Insert, BatchInv, Running, history
<1>2. worker'.at = "note" /\ worker'.batch = worker.batch /\ worker'.last = worker.last
  BY WorkerType DEF Insert, Workers
<1>3. Current \in Events /\ event[Current].who # Null
  BY <1>1, OnwardType DEF BatchInv
<1>4. row \in Rows
  BY <1>3 DEF Rows, TypeOK
<1>5. leads \in Leads /\ DOMAIN leads = 1 .. Len(leads) /\ Len(leads) \in Nat
  BY WorkerType
<1> HIDE DEF row
<1>6. /\ DOMAIN leads' = DOMAIN leads \cup {n} /\ \A i \in DOMAIN leads : i < n /\ i \in Nat
      /\ \A i \in DOMAIN leads : leads'[i] = leads[i]
      /\ leads'[n] = row /\ n \in Nat
  BY <1>1, <1>4, <1>5, AddRow
<1>7. leads'[n].who = event[Current].who /\ leads'[n].first = event[Current].at
  BY <1>6 DEF row
<1>8. Pos' = Pos /\ Pos = Reach /\ Reach' = event[Current].at
  BY <1>1, <1>2 DEF Pos, Running, Reach, Current
<1>9. /\ event[Current].at \in Nat /\ Pos <= event[Current].at /\ Pos \in Nat
      /\ \A i \in DOMAIN leads : leads[i].first \in Nat
  BY <1>1, CurrentFacts, Stamps, Firsts DEF Pos
<1> HIDE DEF n
<1>10. redo' = 0 /\ blind' = 0 => LeadsApart'
  <2> SUFFICES ASSUME redo = 0, blind = 0, NEW i \in DOMAIN leads', NEW j \in DOMAIN leads', i < j,
                      leads'[i].who = leads'[j].who
               PROVE  leads'[j].first - leads'[i].first > Window
    BY <1>1 DEF LeadsApart, Apart
  <2>1. i \in DOMAIN leads
    BY <1>6
  <2>2. CASE j = n
    BY <1>1, <1>6, <1>7, <2>1, <2>2 DEF OrderInv
  <2>3. CASE j \in DOMAIN leads
    BY <1>6, <2>1, <2>3 DEF OrderInv, LeadsApart, Apart
  <2> QED
    BY <1>6, <2>2, <2>3
<1>11. redo' = 0 /\ blind' = 0 => \A i \in DOMAIN leads' : leads'[i].first <= Reach'
  BY <1>1, <1>6, <1>7, <1>8, <1>9 DEF OrderInv
<1> QED
  BY <1>1, <1>2, <1>8, <1>10, <1>11 DEF OrderInv

\* Every step keeps the leads apart.
LEMMA OrderStep ==
    ASSUME TypeOK, RunInv, TallyInv, OrderInv, [Next]_vars
    PROVE  OrderInv'
<1>1. CASE Outside
  BY <1>1, OrderOutside DEF RunInv
<1>2. CASE Run \/ Fail
  BY <1>2, OrderRuns, OrderGoes, OrderFold, OrderLooks, OrderInsert DEF Run, Fail, RunInv
<1>3. CASE UNCHANGED vars
  BY <1>3 DEF vars, history, OrderInv, LeadsApart, Apart, Reach, Pos, Running, Current
<1> QED
  BY <1>1, <1>2, <1>3 DEF Next, Outside

-----------------------------------------------------------------------------
(* The theorems *)

IInv == TypeOK /\ RunInv /\ TallyInv

LEMMA Inductive == Spec => []IInv
<1>1. Init => IInv
  <2>1. Init => TypeOK
    <3>1. 0 \in Times /\ {0} \subseteq 0 .. MaxFaults
      BY NumbersAssumption DEF Times
    <3>2. Init => /\ event \in [Events -> [state : {"none", "open", "stored"}, at : Times,
                                           who : Visitors \cup {Null}]]
                  /\ counted \in [Events -> Nat]
      BY <3>1 DEF Init
    <3>3. Init => worker \in Workers(Len(leads)) /\ leads \in Leads
      BY IdleType DEF Init, Leads
    <3>4. Init => now \in Times
      BY NumbersAssumption DEF Init, Times
    <3> QED
      BY <3>1, <3>2, <3>3, <3>4 DEF Init, TypeOK, Workers, Leads, Rows
  <2>2. Init => worker.at = "idle" /\ worker.batch = <<>> /\ leads = <<>> /\ cursor = 0 /\ now = 1
    BY DEF Init, Idle
  <2>3. DOMAIN <<>> = {}
    OBVIOUS
  <2>4. Init => BatchInv /\ TallyInv
    <3>1. Init => DOMAIN worker.batch = {} /\ DOMAIN leads = {}
      BY <2>2, <2>3
    <3> QED
      BY <2>2, <3>1 DEF BatchInv, TallyInv, TallyAgrees, Running
  <2>5. Init => CountInv
    BY <2>2, <2>3 DEF Init, CountInv, Stored, InHand, Pos, Running
  <2>6. Init => DueInv
    BY DEF Init, DueInv, Missing, Stored
  <2> QED
    BY <2>1, <2>4, <2>5, <2>6 DEF IInv, RunInv
<1>2. IInv /\ [Next]_vars => IInv'
  <2> SUFFICES ASSUME IInv, [Next]_vars
               PROVE  IInv'
    OBVIOUS
  <2> USE DEF IInv
  <2>1. TallyInv'
    BY TallyStep DEF RunInv
  <2>2. CASE Outside
    BY <2>1, <2>2, OutsideTypes, OutsideKeeps, CountOutside, DueOutside DEF RunInv, Outside
  <2>3. CASE Run \/ Fail
    BY <2>1, <2>3, RunTypes, RunStep DEF RunInv
  <2>4. CASE UNCHANGED vars
    <3>1. TypeOK' /\ BatchInv'
      BY <2>4 DEF vars, history, TypeOK, RunInv, BatchInv, Running, Stored, Current
    <3>2. CountInv' /\ DueInv'
      BY <2>4 DEF vars, history, RunInv, CountInv, DueInv, Missing, Shared, InHand, Pos,
                  Running, Stored
    <3> QED
      BY <2>1, <3>1, <3>2 DEF RunInv
  <2> QED
    BY <2>2, <2>3, <2>4 DEF Next, Outside
<1> QED
  BY <1>1, <1>2, PTL DEF Spec

(***************************************************************************)
(* Events, leads and the worker keep to their types.                       *)
(***************************************************************************)
THEOREM TypeCorrect == Spec => []TypeOK
<1>1. IInv => TypeOK
  BY DEF IInv
<1> QED
  BY <1>1, Inductive, PTL

(***************************************************************************)
(* An event is counted once, and once more for a run that was cut short.   *)
(***************************************************************************)
THEOREM CountedOnceHolds == Spec => []CountedOnce
<1>1. IInv => CountedOnce
  BY DEF IInv, RunInv, CountInv, CountedOnce
<1> QED
  BY <1>1, Inductive, PTL

(***************************************************************************)
(* An event the cursor has passed is counted, or had a misfortune.         *)
(***************************************************************************)
THEOREM AccountedHolds == Spec => []Accounted
<1>1. IInv => Accounted
  <2> SUFFICES ASSUME IInv, NEW e \in Events, Passed(e), event[e].who # Null,
                      e \notin unlucky, ~Shared(e)
               PROVE  FALSE
    BY DEF Accounted
  <2>1. Missing(e) /\ event[e].at <= cursor
    BY DEF Missing, Passed
  <2>2. event[e].at > cursor
    BY <2>1 DEF IInv, RunInv, DueInv
  <2> QED
    BY <2>1, <2>2, Stamps DEF IInv
<1> QED
  BY <1>1, Inductive, PTL

(***************************************************************************)
(* Count and history of a lead differ by failed writes and runs cut short. *)
(***************************************************************************)
THEOREM TallyHolds == Spec => []TallyAgrees
<1>1. IInv => TallyAgrees
  BY DEF IInv, TallyInv
<1> QED
  BY <1>1, Inductive, PTL

(***************************************************************************)
(* Two leads of one visitor start further apart than the window, unless a  *)
(* run was repeated or a lookup failed: the order in which the lookup asks *)
(* for the leads, and the order of the batch, are what this rests on.      *)
(***************************************************************************)
THEOREM ApartHolds == Spec => []LeadsApart
<1>1. Init => OrderInv
  <2>1. Init => DOMAIN leads = {} /\ worker.at = "idle" /\ cursor = 0 /\ now = 1
    BY DEF Init, Idle
  <2> QED
    BY <2>1 DEF OrderInv, LeadsApart, Pos, Running
<1>2. IInv /\ OrderInv /\ [Next]_vars => OrderInv'
  BY OrderStep DEF IInv
<1>3. OrderInv => LeadsApart
  BY DEF OrderInv, LeadsApart
<1> QED
  BY <1>1, <1>2, <1>3, Inductive, PTL DEF Spec
=============================================================================
