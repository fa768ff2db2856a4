------------------------------ MODULE MCServer ------------------------------
(***************************************************************************)
(* Small instances of the parts of ServerParts: the inventory with pollers *)
(* only or with the importers of a file, the cached answer, the push token *)
(* and the form of the app.  They share no state: a behaviour takes one of *)
(* them and the others stay as they are at first.                          *)
(***************************************************************************)
EXTENDS ServerParts

CONSTANTS
    s1, i1, i2, f1, f2,         \* a car, importers and pollers
    r1, r2, e1, e2, g1, g2,     \* readers, editors and processes
    u1, u2, j1, j2, j3,         \* users, registrations and withdrawals
    p1, p2, p3                  \* photos

VARIABLE part

inventory == <<job, source, aged, cars, removed, anon, worker, prior, faults>>
cached == <<version, redis, memory, lock, outage, reader, editor, late, outages>>
device == <<user, shown, boot, asked, session, leaving, pref, saved, pushUser, task, row,
            calm, barred, visits, losses>>
posting == <<category, images, filled, picking, short, long, saver, loading, offer,
             submit, deletes, local, meta, remote, chosen, mixed, behind, taps, failures>>

Listing(ids, anonymous, invalid) ==
    [ids |-> ids, twice |-> {}, anon |-> anonymous, invalid |-> invalid, typed |-> FALSE]

\* A new car, and nothing usable.
ShortFeeds == {Listing({s1}, FALSE, FALSE), Listing({}, FALSE, TRUE)}

\* The file shares a car with the feeds and has a row without an id.
OneFile(j) == Listing({s1}, TRUE, FALSE)

\* The first reader and editor share a process.
ProcessOf(t) == IF t \in {r1, e1} THEN g1 ELSE g2

MCInit ==
    /\ part \in {"polls", "files", "cache", "push", "form"}
    /\ Init /\ (part \in {"cache", "push", "form"} => cars = {})
    /\ AppForm!Init
    /\ Cache!Init
    /\ Push!Init

\* Two pollers of one source; two importers of one file and one poller.
Threads == IF part = "polls" THEN Pollers ELSE Importers \cup {f1}

MCNext ==
    \/ /\ part \in {"polls", "files"}
       /\ (\E w \in Threads : Step(w) \/ Crash(w)) \/ Age \/ Toggle
          \/ \E c \in Ids : Remove(c)
       /\ UNCHANGED <<part, cached, device, posting>>
    \/ /\ part = "cache" /\ Cache!Next
       /\ UNCHANGED <<part, inventory, device, posting>>
    \/ /\ part = "push" /\ Push!Next
       /\ UNCHANGED <<part, inventory, cached, posting>>
    \/ /\ part = "form" /\ AppForm!Next
       /\ UNCHANGED <<part, inventory, cached, device>>

MCSpec == MCInit /\ [][MCNext]_<<part, inventory, cached, device, posting>>
=============================================================================
