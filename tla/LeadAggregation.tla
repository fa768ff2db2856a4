--------------------------- MODULE LeadAggregation --------------------------
(***************************************************************************)
(* The worker that turns contact events into a dealer's leads              *)
(* (workers/dealer_lead_aggregator.py, services/dealer_leads.py).          *)
(*                                                                         *)
(* An event is stamped when the transaction that stores it begins and can  *)
(* be read once it is committed, so a later stamp may be visible first.    *)
(* Every request of the worker is a step.  One process of the worker runs; *)
(* its clock and the database's are one, and time is counted in units that *)
(* two events may share.                                                   *)
(***************************************************************************)
EXTENDS Integers, Sequences, FiniteSets

CONSTANTS
    Events,
    Visitors,   \* identities a lead is told apart by
    Limit,      \* BATCH_LIMIT
    Window,     \* how long after the first event of a lead it is folded in
    MaxTime,    \* bound: the clock
    MaxFaults,  \* bound: crashes and requests that fail
    Null

ASSUME NumbersAssumption == /\ {Limit, MaxTime} \subseteq Nat \ {0}
                            /\ {Window, MaxFaults} \subseteq Nat
ASSUME EventsAssumption == IsFiniteSet(Events)
ASSUME NullAssumption == Null \notin Events \cup Visitors

VARIABLES
    now,
    event,      \* lead_events
    cursor,     \* last_processed_at
    leads,      \* dealer_leads, in the order they were inserted
    counted,    \* dealer_lead_events: rows of each event
    worker,
    unlucky,    \* history: events a run could not see, or failed to write
    redo,       \* history: runs that did not save the cursor
    blind,      \* history: lookups of a lead that failed
    lost        \* history: writes that failed

history == <<unlucky, redo, blind, lost>>
vars == <<now, event, cursor, leads, counted, worker, history>>

Times == 0 .. MaxTime
Idle == [at |-> "idle", batch |-> <<>>, last |-> 0, lead |-> 0, count |-> 0]

TypeOK ==
    /\ now \in Times /\ cursor \in Times
    /\ event \in [Events -> [state : {"none", "open", "stored"}, at : Times,
                             who : Visitors \cup {Null}]]
    /\ leads \in Seq([who : Visitors, first : Times, count : Nat, notes : Nat])
    /\ counted \in [Events -> Nat]
    /\ worker \in [at : {"idle", "fetch", "clock", "next", "fold", "insert", "note"},
                   batch : Seq(Events), last : Times, lead : 0 .. Len(leads), count : Nat]
    /\ unlucky \subseteq Events
    /\ {redo, blind, lost} \subseteq 0 .. MaxFaults

Init ==
    /\ now = 1 /\ cursor = 0
    /\ event = [e \in Events |-> [state |-> "none", at |-> 0, who |-> Null]]
    /\ leads = <<>>
    /\ counted = [e \in Events |-> 0]
    /\ worker = Idle
    /\ unlucky = {}
    /\ redo = 0 /\ blind = 0 /\ lost = 0

Stored(e) == event[e].state = "stored"
MayFail == redo + blind + lost < MaxFaults

-----------------------------------------------------------------------------
(* What goes on outside: time passes and visitors contact dealers. *)

Tick == /\ now < MaxTime
        /\ now' = now + 1
        /\ UNCHANGED <<event, cursor, leads, counted, worker, history>>

\* Some events name no listing, no visitor or no action a lead is made of.
Begin(e, v) ==
    /\ event[e].state = "none"
    /\ event' = [event EXCEPT ![e] = [state |-> "open", at |-> now, who |-> v]]
    /\ UNCHANGED <<now, cursor, leads, counted, worker, history>>

Commit(e) ==
    /\ event[e].state = "open"
    /\ event' = [event EXCEPT ![e].state = "stored"]
    /\ unlucky' = IF worker.at \in {"idle", "fetch"} /\ event[e].at > cursor
                  THEN unlucky ELSE unlucky \cup {e}
    /\ UNCHANGED <<now, cursor, leads, counted, worker, redo, blind, lost>>

-----------------------------------------------------------------------------
(* run *)

\* Mutant: a full batch moves the cursor to the clock as an empty one does.
LastProcessedClock(e) == IF Len(worker.batch) = 1 THEN now ELSE event[e].at
\* Mutant: only events that make a lead move the cursor.
LastProcessedMapped(e) == IF event[e].who = Null THEN worker.last ELSE event[e].at

LastProcessed(e) == event[e].at

Load == /\ worker.at = "idle"
        /\ worker' = [Idle EXCEPT !.at = "fetch", !.last = cursor]
        /\ UNCHANGED <<now, event, cursor, leads, counted, history>>

\* Mutant: the cursor is inclusive.
NewerOrEqual == {e \in Events : Stored(e) /\ event[e].at >= worker.last}

Newer == {e \in Events : Stored(e) /\ event[e].at > worker.last}

\* The oldest events the query may return, in its order; equal stamps in any.
IsBatch(b) ==
    /\ Len(b) = IF Cardinality(Newer) < Limit THEN Cardinality(Newer) ELSE Limit
    /\ \A i, j \in DOMAIN b : i < j => b[i] # b[j] /\ event[b[i]].at <= event[b[j]].at
    /\ \A i \in DOMAIN b : b[i] \in Newer
    /\ \A e \in Newer : \/ \E i \in DOMAIN b : b[i] = e
                        \/ \A i \in DOMAIN b : event[b[i]].at <= event[e].at

Fetch ==
    /\ worker.at = "fetch"
    /\ \E n \in 0 .. Limit : \E b \in [1 .. n -> Newer] :
         /\ IsBatch(b)
         /\ worker' = [worker EXCEPT !.at = IF n = 0 THEN "clock" ELSE "next", !.batch = b]
    /\ UNCHANGED <<now, event, cursor, leads, counted, history>>

\* A request that fails looks like one that finds nothing.
FetchFailed ==
    /\ worker.at = "fetch" /\ MayFail
    /\ worker' = [worker EXCEPT !.at = "clock"]
    /\ unlucky' = unlucky \cup Newer
    /\ lost' = lost + 1
    /\ UNCHANGED <<now, event, cursor, leads, counted, redo, blind>>

SaveClock ==
    /\ worker.at = "clock"
    /\ cursor' = now
    /\ worker' = Idle
    /\ UNCHANGED <<now, event, leads, counted, history>>

Current == Head(worker.batch)
\* The worker goes on to the next event of its batch.
Onward == [worker EXCEPT !.at = "next", !.batch = Tail(@), !.lead = 0, !.count = 0,
                         !.last = LastProcessed(Current)]

Skip ==
    /\ worker.at = "next" /\ worker.batch # <<>>
    /\ event[Current].who = Null
    /\ worker' = Onward
    /\ UNCHANGED <<now, event, cursor, leads, counted, history>>

\* Mutant: any lead of the visitor, not the newest.
AnyLead(v, i) == leads[i].who = v
NewestLead(v, i) ==
    /\ leads[i].who = v
    /\ \A j \in DOMAIN leads : leads[j].who = v => leads[j].first <= leads[i].first

WithinWindow(first, t) == t >= first /\ t - first <= Window

\* Mutant: the lookup does not select the count, which then is taken to be 1.
LookUncounted(found) ==
    LET e == Current IN
    worker' = IF found # 0 /\ WithinWindow(leads[found].first, event[e].at)
              THEN [worker EXCEPT !.at = "fold", !.lead = found, !.count = 1]
              ELSE [worker EXCEPT !.at = "insert"]

Look(found) ==
    LET e == Current IN
    worker' = IF found # 0 /\ WithinWindow(leads[found].first, event[e].at)
              THEN [worker EXCEPT !.at = "fold", !.lead = found,
                                  !.count = leads[found].count]
              ELSE [worker EXCEPT !.at = "insert"]

Lookup ==
    /\ worker.at = "next" /\ worker.batch # <<>>
    /\ event[Current].who # Null
    /\ LET mine == {i \in DOMAIN leads : NewestLead(event[Current].who, i)} IN
       IF mine = {} THEN Look(0) ELSE \E i \in mine : Look(i)
    /\ UNCHANGED <<now, event, cursor, leads, counted, history>>

LookupFailed ==
    /\ worker.at = "next" /\ worker.batch # <<>> /\ MayFail
    /\ event[Current].who # Null
    /\ Look(0)
    /\ blind' = blind + 1
    /\ UNCHANGED <<now, event, cursor, leads, counted, unlucky, redo, lost>>

\* The answers to the update and to the note are not looked at.
Fold(ok) ==
    /\ worker.at = "fold"
    /\ ok \/ MayFail
    /\ leads' = IF ok THEN [leads EXCEPT ![worker.lead].count = worker.count + 1] ELSE leads
    /\ lost' = IF ok THEN lost ELSE lost + 1
    /\ worker' = [worker EXCEPT !.at = "note"]
    /\ UNCHANGED <<now, event, cursor, counted, unlucky, redo, blind>>

Insert ==
    /\ worker.at = "insert"
    /\ leads' = Append(leads, [who |-> event[Current].who, first |-> event[Current].at,
                               count |-> 1, notes |-> 0])
    /\ worker' = [worker EXCEPT !.at = "note", !.lead = Len(leads) + 1]
    /\ UNCHANGED <<now, event, cursor, counted, history>>

InsertFailed ==
    /\ worker.at = "insert" /\ MayFail
    /\ worker' = Onward
    /\ unlucky' = unlucky \cup {Current}
    /\ lost' = lost + 1
    /\ UNCHANGED <<now, event, cursor, leads, counted, redo, blind>>

Note(ok) ==
    /\ worker.at = "note"
    /\ ok \/ MayFail
    /\ IF ok THEN /\ counted' = [counted EXCEPT ![Current] = @ + 1]
                  /\ leads' = [leads EXCEPT ![worker.lead].notes = @ + 1]
                  /\ UNCHANGED <<unlucky, lost>>
             ELSE /\ unlucky' = unlucky \cup {Current}
                  /\ lost' = lost + 1
                  /\ UNCHANGED <<counted, leads>>
    /\ worker' = Onward
    /\ UNCHANGED <<now, event, cursor, redo, blind>>

\* Nor is the answer to the request that saves the cursor.
Save(ok) ==
    /\ worker.at = "next" /\ worker.batch = <<>>
    /\ ok \/ MayFail
    /\ cursor' = IF ok THEN worker.last ELSE cursor
    /\ redo' = IF ok THEN redo ELSE redo + 1
    /\ worker' = Idle
    /\ UNCHANGED <<now, event, leads, counted, unlucky, blind, lost>>

\* The process dies, or a request raises, which ends the run as well.
Crash ==
    /\ worker.at # "idle" /\ MayFail
    /\ worker' = Idle
    /\ redo' = redo + 1
    /\ UNCHANGED <<now, event, cursor, leads, counted, unlucky, blind, lost>>

Run == \/ Load \/ Fetch \/ SaveClock \/ Skip \/ Lookup \/ Insert
       \/ Fold(TRUE) \/ Note(TRUE) \/ Save(TRUE)
Fail == \/ FetchFailed \/ LookupFailed \/ InsertFailed
        \/ Fold(FALSE) \/ Note(FALSE) \/ Save(FALSE) \/ Crash

Next == \/ Tick
        \/ \E e \in Events : Commit(e)
        \/ \E e \in Events, v \in Visitors \cup {Null} : Begin(e, v)
        \/ Run
        \/ Fail

Spec == Init /\ [][Next]_vars
\* The worker runs on: scheduled_loop starts it again after an error.
FairSpec == Spec /\ WF_vars(Run)

-----------------------------------------------------------------------------
(* Safety *)

\* An event is counted again only by a run that repeats one which did not get
\* to save its cursor.
CountedOnce == \A e \in Events : counted[e] <= 1 + redo

\* An event the cursor has passed is counted, or a named misfortune befell it: it was committed behind the cursor or during a run, a
\* request for it failed, or a full batch ended among events of its stamp.
Passed(e) == Stored(e) /\ event[e].at <= cursor /\ counted[e] = 0
Shared(e) == \E f \in Events \ {e} : Stored(f) /\ event[f].at = event[e].at
Accounted ==
    \A e \in Events : Passed(e) /\ event[e].who # Null =>
        e \in unlucky \/ Shared(e)

\* Two leads of one visitor start further apart than the window, unless a run
\* was repeated or a lookup failed.
Apart(i, j) == leads[j].first - leads[i].first > Window
LeadsApart ==
    redo = 0 /\ blind = 0 =>
        \A i, j \in DOMAIN leads : i < j /\ leads[i].who = leads[j].who => Apart(i, j)

\* The count of a lead is the number of rows in its history, up to the writes
\* that failed, the runs cut short and the one under way.
TallyAgrees ==
    \A i \in DOMAIN leads :
        LET slack == redo + lost + (IF worker.at = "note" /\ worker.lead = i THEN 1 ELSE 0)
        IN  /\ leads[i].count <= leads[i].notes + slack
            /\ leads[i].notes <= leads[i].count + redo + lost

-----------------------------------------------------------------------------
(* Liveness *)

\* The cursor gets past every event, those that make no lead included.
CaughtUp == \A e \in Events : Stored(e) ~> event[e].at <= cursor

-----------------------------------------------------------------------------
(* What comments promise and the code does not do *)

\* "remember where it left off": what the cursor has passed was in a batch.
NothingSkipped == \A e \in Events : Passed(e) => event[e].who = Null

\* "causing a duplicate within the current window" is what the order of the
\* lookup is there to rule out.
NoDuplicate ==
    blind = 0 => \A i, j \in DOMAIN leads :
        i # j /\ leads[i].who = leads[j].who => Apart(i, j) \/ Apart(j, i)
=============================================================================
