-------------------------- MODULE ListingLifecycle --------------------------
(***************************************************************************)
(* The life of one listing row under everything that writes it: the        *)
(* owner's requests, the admin's requests, the lifecycle sweep and the     *)
(* expiry-notice scanner of the worker.  Supabase gives no transactions:   *)
(* a handler GETs the row, decides, and PATCHes it by id, so a handler is  *)
(* a process with a program counter and the row it read, and any other     *)
(* write can come between two of its requests.                             *)
(***************************************************************************)
EXTENDS ListingRules

CONSTANTS
    MaxTime,       \* bound: the clock stops here
    MaxRequests,   \* bound: owner and admin requests in a behaviour
    MaxFaults,     \* bound: crashes and failed PATCHes in a behaviour
    Lead,          \* reminder_days_before of the notice scanner
    CustomDays,    \* bound: how far ahead an admin sets a custom expiry
    Procs,         \* the processes of this instance
    Outcomes,      \* the "sold" outcomes of this instance
    InitialRows    \* rows the create, repost and import paths insert

\* What _new_listing_lifecycle_fields leaves of a lifecycle: an expiry with
\* its retention date and nothing else.  A dealer feed leaves both out.
Inserted(r) ==
    /\ r.expiredAt = Null /\ r.deadline = Null /\ r.extendedAt = Null
    /\ r.soldStatus = Null /\ r.soldSetAt = Null /\ ~r.archived
    /\ r.retentionAt = IF r.expiresAt = Null THEN Null
                       ELSE r.expiresAt + Retention

ASSUME LifecycleAssumption ==
    /\ MaxTime \in Nat
    /\ MaxRequests \in Nat
    /\ MaxFaults \in Nat
    /\ Lead \in Nat
    /\ CustomDays \subseteq Nat
    /\ Procs \subseteq {"sweep", "scanner", "client"}
    /\ Outcomes \subseteq SoldOutcomes
    /\ InitialRows \subseteq {r \in Listing : Inserted(r)}

VARIABLES
    listing,    \* the row
    present,    \* FALSE once the row is hard deleted
    now,        \* the clock
    pc,         \* per process: the request it issues next
    base,       \* per process: the row as it last fetched or wrote it
    late,       \* per process: the clock has advanced since it started
    task,       \* why a process runs _sync_listing_lifecycle
    renewedAt,  \* the "now" of the renewal PATCH the client waits to verify
    requests,   \* owner and admin requests so far
    faults,     \* crashes and failed PATCHes so far
    noticed,    \* history: expiries an "expired" notice was claimed for
    repeated,   \* history: one was claimed again, in a cycle without race
    custom,     \* history: expires_at was set by hand in this cycle
    raced       \* history: a sync wrote, in this cycle, from a row that had
                \* changed since it was read

vars == <<listing, present, now, pc, base, late, task, renewedAt, requests,
          faults, noticed, repeated, custom, raced>>

history == <<noticed, repeated>>

\* The sweep and the scanner are scheduled workers; the client is one
\* request of the owner or of an admin at a time.
Tasks == {"sweep", "view", "adminRenew", "verify"}
Steps == {"idle", "sync", "claim", "purge", "remind", "renew", "reload",
          "repair", "refetch", "draft", "sold"}

TypeOK ==
    /\ listing \in Listing
    /\ present \in BOOLEAN
    /\ now \in Nat
    /\ pc \in [Procs -> Steps]
    /\ base \in [Procs -> Listing \cup {Null}]
    /\ \A p \in Procs : pc[p] # "idle" => base[p] \in Listing
    /\ late \in [Procs -> BOOLEAN]
    /\ task \in [Procs -> Tasks]
    /\ renewedAt \in OptTime
    /\ requests \in 0 .. MaxRequests
    /\ faults \in 0 .. MaxFaults
    /\ noticed \subseteq Nat
    /\ repeated \in BOOLEAN
    /\ custom \in BOOLEAN
    /\ raced \in BOOLEAN

Init ==
    /\ listing \in InitialRows
    /\ present = TRUE
    /\ now = 0
    /\ pc = [p \in Procs |-> "idle"]
    /\ base = [p \in Procs |-> Null]
    /\ late = [p \in Procs |-> FALSE]
    /\ task = [p \in Procs |-> "view"]
    /\ renewedAt = Null
    /\ requests = 0
    /\ faults = 0
    /\ noticed = {}
    /\ repeated = FALSE
    /\ custom = FALSE
    /\ raced = FALSE

-----------------------------------------------------------------------------
(***************************************************************************)
(* What a process sees.  The sweep and the scanner select some columns     *)
(* only, and record.get() of an absent column is None; "My listings" shows *)
(* a rejected row as a draft before it syncs it.                           *)
(***************************************************************************)
SweepColumns(r) ==
    [r EXCEPT !.isApproved = FALSE, !.extendedAt = Null, !.createdAt = Null]

ScannerColumns(r) ==
    [r EXCEPT !.isApproved = FALSE, !.createdAt = Null,
              !.deadline = Null, !.soldSetAt = Null]

RejectedAsDraft(r) ==
    IF r.status = "rejected" THEN [r EXCEPT !.status = "draft"] ELSE r

Seen(p, r) ==
    CASE task[p] = "sweep" -> SweepColumns(r)
      [] task[p] = "view"  -> RejectedAsDraft(r)
      [] OTHER             -> r

\* Mutant: the filter forgets the status an import writes.
SweepableApproved(r) == r.status = "approved" /\ ~r.archived /\ ~r.deleted

\* The filter of the sweep's GET, and part of the scanner's.
Sweepable(r) == r.status \in ActiveStatuses /\ ~r.archived /\ ~r.deleted

\* Nobody else has written the row since p fetched or wrote it.
Fresh(p) == present /\ listing = base[p]

(***************************************************************************)
(* Program counters.                                                       *)
(***************************************************************************)
Goto(p, step, row) ==
    /\ pc' = [pc EXCEPT ![p] = step]
    /\ base' = [base EXCEPT ![p] = row]
    /\ UNCHANGED <<late, task>>

\* The handler or the job is over and keeps nothing.
Return(p) ==
    /\ pc' = [pc EXCEPT ![p] = "idle"]
    /\ base' = [base EXCEPT ![p] = Null]
    /\ late' = [late EXCEPT ![p] = FALSE]
    /\ task' = [task EXCEPT ![p] = "view"]

\* Mutant: the handler goes on without keeping the row it read.
FetchNothing(p, job, step) ==
    /\ p \in Procs
    /\ pc[p] = "idle"
    /\ present
    /\ pc' = [pc EXCEPT ![p] = step]
    /\ task' = [task EXCEPT ![p] = job]
    /\ UNCHANGED <<listing, present, now, base, late, renewedAt, faults,
                   history, custom, raced>>

\* GET the row for a job and go to its next step.
Fetch(p, job, step) ==
    /\ p \in Procs
    /\ pc[p] = "idle"
    /\ present
    /\ pc' = [pc EXCEPT ![p] = step]
    /\ base' = [base EXCEPT ![p] = listing]
    /\ task' = [task EXCEPT ![p] = job]
    /\ UNCHANGED <<listing, present, now, late, renewedAt, faults, history,
                   custom, raced>>

\* A PATCH by id changes nothing once the row is gone.
Write(row) ==
    /\ listing' = IF present THEN row ELSE listing
    /\ UNCHANGED present

\* The write starts a lifecycle of its own.
NewCycle == custom' = FALSE /\ raced' = FALSE

SameCycle == UNCHANGED <<custom, raced>>

Request ==
    /\ requests < MaxRequests
    /\ requests' = requests + 1

Fault ==
    /\ faults < MaxFaults
    /\ faults' = faults + 1

-----------------------------------------------------------------------------
(***************************************************************************)
(* _sync_listing_lifecycle, run by the sweep, by "My listings" (view), by  *)
(* the admin renewal and at the end of a renewal or of the admin's detail  *)
(* page (verify).  Its requests: one PATCH, the claim of the "expired"     *)
(* e-mail, and for the sweep the hard delete.                              *)
(***************************************************************************)
SweepRead ==
    /\ Sweepable(listing)
    /\ Fetch("sweep", "sweep", "sync")
    /\ UNCHANGED requests

\* "My listings" (view) and the admin's detail page (verify) skip rows
\* already deleted; only a rejected row makes a difference between them.
ViewRead ==
    /\ ~IsDeleted(listing)
    /\ \/ Fetch("client", "view", "sync")
       \/ listing.status = "rejected" /\ Fetch("client", "verify", "sync")
    /\ UNCHANGED requests

\* Mutant: the sweep hard deletes what has merely expired.
AfterSyncExpired(p, r, row) ==
    IF task[p] = "sweep" /\ Lifecycle(r, now).isExpired
    THEN Goto(p, "purge", row)
    ELSE IF task[p] = "adminRenew" /\ Renewable(r)
    THEN Goto(p, "renew", row)
    ELSE Return(p)

\* What follows the sync proper, given the record r it leaves in memory.
AfterSync(p, r, row) ==
    IF task[p] = "sweep" /\ Lifecycle(r, now).isArchived
    THEN Goto(p, "purge", row)
    ELSE IF task[p] = "adminRenew" /\ Renewable(r)
    THEN Goto(p, "renew", row)
    ELSE Return(p)

\* The expired notice is due for r, of which the sync derived c.
NoticeDue(r, c) ==
    /\ c.isExpired
    /\ ~r.expiredSent
    /\ ~(r.extendedAt # Null /\ r.extendedAt >= c.expiredAt)
    /\ r.status \in ActiveStatuses
    /\ ~r.deleted

\* The owner's address may be unknown or e-mails disabled, so a due notice
\* may also be skipped.
MailOrFinish(p, s, r, row) ==
    \/ NoticeDue(r, Lifecycle(Repaired(s, now), now)) /\ Goto(p, "claim", row)
    \/ AfterSync(p, r, row)

SyncWrite(p) ==
    LET s == Seen(p, base[p])
    IN  /\ pc[p] = "sync"
        /\ Write(SyncPatch(listing, s, now))
        /\ raced' = (raced \/ (~Fresh(p) /\ SyncPatch(s, s, now) # s))
        /\ MailOrFinish(p, s, SyncPatch(s, s, now),
                        SyncPatch(base[p], s, now))
        /\ renewedAt' = IF p = "client" THEN Null ELSE renewedAt
        /\ UNCHANGED <<now, requests, faults, history, custom>>

\* The PATCH is refused; the sync logs it and goes on with the record.
SyncFails(p) ==
    LET s == Seen(p, base[p])
    IN  /\ pc[p] = "sync"
        /\ Fault
        /\ SyncPatch(s, s, now) # s
        /\ MailOrFinish(p, s, Repaired(s, now), base[p])
        /\ renewedAt' = IF p = "client" THEN Null ELSE renewedAt
        /\ UNCHANGED <<listing, present, now, requests, history, custom,
                      raced>>

\* Mutant: the claim does not test that the e-mail stamp is still unset.
ClaimableAgain(e, sent) ==
    /\ present
    /\ Sweepable(listing)
    /\ listing.expiresAt = e

\* The compare-and-set of _claim_listing_expiry_email, for expiry e.
Claimable(e, sent) ==
    /\ present
    /\ Sweepable(listing)
    /\ listing.expiresAt = e
    /\ ~sent

Notice(e) ==
    /\ noticed' = noticed \cup {e}
    /\ repeated' = (repeated \/ (~raced /\ e \in noticed))

Claim(p) ==
    LET e == Lifecycle(Seen(p, base[p]), now).expiresAt
    IN  /\ pc[p] = "claim"
        /\ IF Claimable(e, listing.expiredSent)
           THEN /\ listing' = [listing EXCEPT !.expiredSent = TRUE]
                /\ Notice(e)
           ELSE UNCHANGED <<listing, history>>
        /\ IF task[p] = "adminRenew"
           THEN Goto(p, "renew", IF listing' # listing THEN listing'
                                                      ELSE base[p])
           ELSE Return(p)
        /\ UNCHANGED <<present, now, renewedAt, requests, faults, custom,
                      raced>>

\* _delete_listing_with_assets: by id, whatever the row is by now.
Purge(p) ==
    /\ pc[p] = "purge"
    /\ present' = FALSE
    /\ Return(p)
    /\ UNCHANGED <<listing, now, renewedAt, requests, faults, history,
                   custom, raced>>

(***************************************************************************)
(* The expiry-notice scanner.                                              *)
(***************************************************************************)
ScannerRead ==
    /\ Sweepable(listing)
    /\ listing.expiresAt # Null
    /\ listing.expiresAt <= now + Lead
    /\ Fetch("scanner", "view", "remind")
    /\ UNCHANGED requests

ScannerClaim ==
    LET s == ScannerColumns(base["scanner"])
        c == Lifecycle(s, now)
        e == c.expiresAt
        skipped == \/ c.isArchived
                   \/ e > now + Lead
                   \/ /\ c.isExpired
                      /\ s.extendedAt # Null
                      /\ s.extendedAt >= c.expiredAt
    IN  /\ "scanner" \in Procs /\ pc["scanner"] = "remind"
        /\ \/ /\ ~skipped /\ c.isExpired /\ ~s.expiredSent
              /\ Claimable(e, listing.expiredSent)
              /\ listing' = [listing EXCEPT
                                !.expiredSent = TRUE,
                                !.expiredAt = IF s.expiredAt = Null
                                              THEN e ELSE @]
              /\ Notice(e)
           \/ /\ ~skipped /\ ~c.isExpired /\ ~s.reminderSent
              /\ Claimable(e, listing.reminderSent)
              /\ listing' = [listing EXCEPT !.reminderSent = TRUE]
              /\ UNCHANGED history
           \/ UNCHANGED <<listing, history>>
        /\ Return("scanner")
        /\ UNCHANGED <<present, now, renewedAt, requests, faults, custom,
                      raced>>

-----------------------------------------------------------------------------
(***************************************************************************)
(* The owner's requests.                                                   *)
(***************************************************************************)

\* POST .../extend: an archived row is hard deleted instead.
ExtendRequest ==
    /\ Request
    /\ ~IsDeleted(listing)
    /\ \/ /\ Fetch("client", "view", "purge")
          /\ Lifecycle(listing, now).isArchived
       \/ /\ Fetch("client", "view", "renew")
          /\ Renewable(listing)
          /\ ~Lifecycle(listing, now).isArchived

\* POST .../outcome.
OutcomeRequest ==
    /\ Request
    /\ ~IsDeleted(listing)
    /\ \/ Renewable(listing) /\ Fetch("client", "view", "renew")
       \/ Fetch("client", "view", "draft")
       \/ Fetch("client", "view", "sold")

\* The admin renews on the owner's behalf, after a sync.
AdminRenewRequest ==
    /\ Request
    /\ \/ ~IsDeleted(listing) /\ Fetch("client", "adminRenew", "sync")
       \/ /\ IsDeleted(listing) /\ Renewable(listing)
          /\ Fetch("client", "adminRenew", "renew")

\* _renew_listing_and_verify: PATCH, reload, repair, reload, sync.
RenewWrite ==
    /\ "client" \in Procs /\ pc["client"] = "renew"
    /\ Write(Renewed(listing, Lifecycle(base["client"], now).expiresAt, now))
    /\ NewCycle
    /\ renewedAt' = now
    /\ pc' = [pc EXCEPT !["client"] = "reload"]
    /\ task' = [task EXCEPT !["client"] = "verify"]
    /\ UNCHANGED <<now, base, late, requests, faults, history>>

Reload ==
    /\ "client" \in Procs /\ pc["client"] \in {"reload", "refetch"}
    /\ IF ~present \/ IsDeleted(listing)
       THEN Return("client") /\ renewedAt' = Null
       ELSE /\ Goto("client",
                    IF pc["client"] = "reload" /\ StaleRenewal(listing, now)
                    THEN "repair" ELSE "sync", listing)
            /\ UNCHANGED renewedAt
    /\ UNCHANGED <<listing, present, now, requests, faults, history, custom,
                   raced>>

\* The reloaded row was found stale, so it has a renewal date.
RepairRenewed ==
    LET r == base["client"]
        e == Later(ExpiryOrDefault(r, now), RenewalAt(r)) + Expiry
    IN  /\ "client" \in Procs /\ pc["client"] = "repair"
        /\ Write([Reopened(listing, e) EXCEPT
                     !.soldStatus = "not_sold_renew",
                     !.soldSetAt = renewedAt, !.extendedAt = renewedAt])
        /\ raced' = (raced \/ ~Fresh("client"))
        /\ Goto("client", "refetch", base["client"])
        /\ UNCHANGED <<now, renewedAt, requests, faults, history, custom>>

DraftWrite ==
    /\ "client" \in Procs /\ pc["client"] = "draft"
    /\ Write(MovedToDraft(listing, Lifecycle(base["client"], now).expiresAt,
                          now))
    /\ NewCycle
    /\ Return("client")
    /\ UNCHANGED <<now, renewedAt, requests, faults, history>>

SoldWrite ==
    /\ "client" \in Procs /\ pc["client"] = "sold"
    /\ \E outcome \in Outcomes : Write(MarkedSold(listing, outcome, now))
    /\ Return("client")
    /\ UNCHANGED <<now, renewedAt, requests, faults, history, custom, raced>>

\* Every write of a request may fail; the handler then answers an error.
RequestFails ==
    /\ "client" \in Procs
    /\ pc["client"] \in {"renew", "repair", "draft", "sold"}
    /\ Fault
    /\ Return("client")
    /\ renewedAt' = Null
    /\ UNCHANGED <<listing, present, now, requests, history, custom, raced>>

-----------------------------------------------------------------------------
(***************************************************************************)
(* Requests that PATCH by id without reading what they overwrite: one      *)
(* step each, at any time.                                                 *)
(***************************************************************************)
BlindWrite(row, cycle) ==
    /\ Request
    /\ present
    /\ listing' = row
    /\ cycle
    /\ UNCHANGED <<present, now, pc, base, late, task, renewedAt, faults,
                   history>>

\* _perform_approval, bulk approve, set-status approved.
Approve == BlindWrite(Approved(listing, now), NewCycle)

\* routes/admin.py approve_listing: the lifecycle columns stay.
ApproveOnly ==
    BlindWrite([listing EXCEPT !.status = "approved", !.isApproved = TRUE],
               SameCycle)

\* moderation.py keeps is_approved, admin.py and set-status clear it.
Reject ==
    \E approval \in {listing.isApproved, FALSE} :
        BlindWrite([listing EXCEPT !.status = "rejected",
                                   !.isApproved = approval], SameCycle)

\* _soft_delete_listing for an owner or an admin; an admin's set-status
\* deleted clears is_approved and leaves auto_removed_at.
Delete ==
    /\ ~IsDeleted(listing)
    /\ \/ BlindWrite([listing EXCEPT !.status = "deleted", !.deleted = TRUE,
                                     !.autoRemoved = FALSE], SameCycle)
       \/ BlindWrite([listing EXCEPT !.status = "deleted", !.deleted = TRUE,
                                     !.isApproved = FALSE], SameCycle)

AdminSold ==
    \E outcome \in Outcomes :
        BlindWrite([MarkedSold(listing, outcome, now) EXCEPT
                       !.isApproved = FALSE], SameCycle)

\* admin_set_listing_expiry refuses only a date in the past.
SetExpiry ==
    \E days \in CustomDays :
        BlindWrite(WithExpiry(listing, now + days),
                   custom' = TRUE /\ UNCHANGED raced)

\* routes/admin.py delete_listing.
HardDelete ==
    /\ Request
    /\ present
    /\ present' = FALSE
    /\ UNCHANGED <<listing, now, pc, base, late, task, renewedAt, faults,
                   history, custom, raced>>

-----------------------------------------------------------------------------
\* Time passes; no handler or sweep of one row lasts a whole unit of time.
Tick ==
    /\ now < MaxTime
    /\ \A p \in Procs : ~late[p]
    /\ now' = now + 1
    /\ late' = [p \in Procs |-> pc[p] # "idle"]
    /\ UNCHANGED <<listing, present, pc, base, task, renewedAt, requests,
                   faults, noticed, repeated, custom, raced>>

\* A worker restarts or a request's thread dies between two requests.
Crash(p) ==
    /\ pc[p] # "idle"
    /\ Fault
    /\ Return(p)
    /\ renewedAt' = IF p = "client" THEN Null ELSE renewedAt
    /\ UNCHANGED <<listing, present, now, requests, history, custom, raced>>

SweepStep ==
    /\ "sweep" \in Procs
    /\ SweepRead \/ SyncWrite("sweep") \/ Claim("sweep") \/ Purge("sweep")

Next ==
    \/ SweepRead \/ ViewRead \/ ScannerRead \/ ScannerClaim
    \/ \E p \in Procs \ {"scanner"} :
          SyncWrite(p) \/ SyncFails(p) \/ Claim(p) \/ Purge(p)
    \/ ExtendRequest \/ OutcomeRequest \/ AdminRenewRequest
    \/ RenewWrite \/ Reload \/ RepairRenewed \/ DraftWrite \/ SoldWrite
    \/ RequestFails
    \/ Approve \/ ApproveOnly \/ Reject \/ Delete \/ AdminSold
    \/ SetExpiry \/ HardDelete
    \/ Tick
    \/ \E p \in Procs : Crash(p)

Spec == Init /\ [][Next]_vars

\* Weak fairness of the sweep, with ENABLED SweepStep written out: the
\* worker's loop runs the sweep again and again.
SweepEnabled ==
    /\ "sweep" \in Procs
    /\ pc["sweep"] = "idle" => present /\ Sweepable(listing)

FairSpec == Spec /\ ([]<>~SweepEnabled \/ []<><<SweepStep>>_vars)

-----------------------------------------------------------------------------
(***************************************************************************)
(* Properties.                                                             *)
(***************************************************************************)

\* A step p takes from the given program point.
StepOf(p, step) == pc[p] = step /\ pc'[p] # step

\* A sync of p soft deletes the row on the system's behalf.
SystemRemoves(p) ==
    /\ StepOf(p, "sync")
    /\ present
    /\ ~listing.deleted
    /\ listing'.deleted

\* No custom expiry and no stale write in the current lifecycle.
Clean == ~custom /\ ~raced

\* One "expired" notice per expiry date, although the sweep and the scanner
\* race for it, both act on rows read earlier, and a renewal, an approval or
\* a custom expiry re-arms the flag (_claim_listing_expiry_email).
ExpiredNoticeOnce == ~repeated

\* The owner gets the whole response window after the expiry before the
\* system removes the listing, in a cycle no stale write or custom expiry
\* has touched, when the row is the one the sync read.
RemovalHonoursWindow ==
    [][\A p \in Procs :
          SystemRemoves(p) /\ Clean /\ Fresh(p)
             => now >= listing'.expiresAt + Window]_vars

\* In such a cycle the sweep and the extend request hard delete a row only
\* when its retention period after the expiry is over (hard_delete_archived,
\* "already passed its retention period").
PurgeHonoursRetention ==
    [][\A p \in Procs :
          StepOf(p, "purge") /\ present /\ ~present' /\ Clean /\ Fresh(p)
             => now >= ExpiryOrDefault(listing, now) + Retention]_vars

\* A listing marked sold stays sold under the system's own writes: the two
\* renewal repairs, which write status "approved", never reopen it.
SoldStaysSold ==
    [][\A p \in Procs :
          StepOf(p, "sync") /\ Clean /\ Fresh(p) /\ listing.status = "sold"
             => listing'.status = "sold"]_vars

\* A renewal verified on the row it re-read, one that no approval or other
\* outcome has superseded meanwhile, leaves the listing live for at least a
\* full period from the renewal (_renew_listing_and_verify).
RenewalPersisted ==
    [][/\ "client" \in Procs
       /\ StepOf("client", "sync")
       /\ renewedAt # Null
       /\ faults' = faults
       /\ Fresh("client")
       /\ listing.soldStatus = "not_sold_renew"
       => /\ ~IsDeleted(listing')
          /\ \/ listing'.status \notin ActiveStatuses
             \/ listing'.expiresAt >= renewedAt + Expiry]_vars

\* An extension never lies past the expiry it moved, so the second repair of
\* _sync_listing_lifecycle (which also accepts sold rows) has nothing to do
\* in a clean cycle.
ExtensionWithinExpiry ==
    present /\ Clean /\ listing.extendedAt # Null /\ listing.expiresAt # Null
        => listing.extendedAt <= listing.expiresAt

\* What _compute_listing_lifecycle exempts from expiring: an admin approved it.
AdminApproved(r) == r.isApproved /\ r.status = "approved" /\ ~r.deleted

\* A live listing, not one that approval exempts, that expired and whose
\* response deadline, the recorded one or the one the expiry implies, has passed
\* without an answer.
Overdue ==
    /\ present
    /\ listing.status \in ActiveStatuses /\ ~listing.archived /\ ~listing.deleted
    /\ ~AdminApproved(listing)
    /\ listing.soldSetAt = Null
    /\ listing.expiresAt # Null
    /\ now >= listing.expiresAt
    /\ now >= IF listing.deadline # Null THEN listing.deadline
              ELSE listing.expiresAt + Window

\* The sweep gets rid of every overdue listing, or somebody answers for it or
\* approves it.
OverdueResolved == Overdue ~> ~Overdue

(***************************************************************************)
(* What the repository says and the code does not do.                      *)
(***************************************************************************)

\* "System auto-removed listings (...) are recoverable": a row the sweep
\* removed can be renewed (_renew_listing_and_verify).
AutoRemovedRecoverable ==
    present /\ listing.autoRemoved /\ listing.status = "deleted"
        => Renewable(listing)

\* app.py:1179 "An admin explicitly approved this listing - never
\* auto-archive/expire it": no sync removes or archives such a row.
ApprovedNeverExpires ==
    [][\A p \in Procs :
          StepOf(p, "sync") /\ present /\ Fresh(p) /\ AdminApproved(listing)
             => ~listing'.deleted /\ (listing'.archived => listing.archived)]_vars

\* "set a custom expiry date on any listing": a listing is not hard deleted
\* before the date an admin set (admin_set_listing_expiry, then the sweep).
CustomExpiryHonoured ==
    [][\A p \in Procs :
          StepOf(p, "purge") /\ present /\ ~present' /\ custom /\ Fresh(p)
             => now >= listing.expiresAt]_vars

\* "No listing outcome selected within 7 days of expiry": the reason recorded
\* with a system removal is true of the expiry the row has.
RemovalReasonTrue ==
    [][\A p \in Procs :
          SystemRemoves(p) /\ ~raced /\ Fresh(p)
             => now >= listing'.expiresAt + Window]_vars

\* "Keep rejected listings editable in the user's account view": looking at
\* a rejected listing does not put it back on the site.
RejectedNotReopened ==
    [][\A p \in Procs :
          StepOf(p, "sync") /\ Fresh(p) /\ listing.status = "rejected"
             => listing'.status # "approved"]_vars
=============================================================================
