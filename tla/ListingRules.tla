---------------------------- MODULE ListingRules ----------------------------
(***************************************************************************)
(* The pure rules of the listing lifecycle: what app.py computes from one  *)
(* row of cars / bikes / car_parts / license_plates and the wall clock,    *)
(* before it writes anything.  A row keeps the columns the rules read;     *)
(* columns that only record "when" (deleted_at, auto_removed_at, the two   *)
(* e-mail stamps) are kept as "is it set".                                 *)
(***************************************************************************)
EXTENDS Integers

CONSTANTS
    Expiry,     \* LISTING_EXPIRY_DAYS
    Retention,  \* LISTING_RETENTION_DAYS
    Window,     \* LISTING_SOLD_RESPONSE_WINDOW_HOURS, in the same unit
    IsCar,      \* the row is in table cars (other tables keep is_approved)
    Null        \* SQL NULL / Python None

(***************************************************************************)
(* The row.                                                                *)
(***************************************************************************)
ActiveStatuses   == {"approved", "active"}
TerminalStatuses == {"deleted", "rejected", "sold"}
Statuses == ActiveStatuses \cup TerminalStatuses
                \cup {"pending", "pending_auto_review", "draft"}

SoldOutcomes == {"sold_on_dph", "sold_elsewhere"}
SoldStatuses == SoldOutcomes \cup {"not_sold_renew", "no_response"}

ASSUME RulesAssumption ==
    /\ Expiry \in Nat \ {0}
    /\ Retention \in Nat \ {0}
    /\ Window \in Nat
    /\ IsCar \in BOOLEAN
    /\ Null \notin Int \cup SoldStatuses

OptTime == Nat \cup {Null}

Listing ==
    [status       : Statuses,
     isApproved   : BOOLEAN,
     createdAt    : OptTime,
     expiresAt    : OptTime,
     expiredAt    : OptTime,
     retentionAt  : OptTime,                \* retention_expires_at
     deadline     : OptTime,                \* sold_response_deadline
     soldStatus   : SoldStatuses \cup {Null},
     soldSetAt    : OptTime,                \* sold_status_set_at
     extendedAt   : OptTime,                \* last_extended_at
     archived     : BOOLEAN,                \* is_archived
     deleted      : BOOLEAN,                \* deleted_at is set
     autoRemoved  : BOOLEAN,                \* auto_removed_at is set
     reminderSent : BOOLEAN,                \* expiry_reminder_sent_at is set
     expiredSent  : BOOLEAN]                \* expired_email_sent_at is set

IsDeleted(r) == r.status = "deleted" \/ r.deleted

Later(a, b) == IF a >= b THEN a ELSE b

(***************************************************************************)
(* Renewal repair.                                                         *)
(***************************************************************************)

\* Rows without an expiry fall back on created_at, or on the clock when the
\* caller did not select created_at.
ExpiryOrDefault(r, t) ==
    IF r.expiresAt # Null THEN r.expiresAt
    ELSE (IF r.createdAt # Null THEN r.createdAt ELSE t) + Expiry

RenewalAt(r) ==
    IF r.extendedAt = Null THEN r.soldSetAt
    ELSE IF r.soldSetAt = Null THEN r.extendedAt
    ELSE Later(r.extendedAt, r.soldSetAt)

\* Mutant: an expiry after the renewal is enough.
StaleRenewalNoPeriod(r, t) ==
    /\ r.status \notin TerminalStatuses
    /\ ~r.deleted
    /\ r.soldStatus = "not_sold_renew"
    /\ RenewalAt(r) # Null
    /\ ExpiryOrDefault(r, t) < RenewalAt(r)

\* A row the owner renewed whose expiry is earlier than the renewal grants.
StaleRenewal(r, t) ==
    /\ r.status \notin TerminalStatuses
    /\ ~r.deleted
    /\ r.soldStatus = "not_sold_renew"
    /\ RenewalAt(r) # Null
    /\ ExpiryOrDefault(r, t) < RenewalAt(r) + Expiry

\* The columns both repairs reset, for a new expiry e.
Reopened(r, e) ==
    [r EXCEPT !.expiresAt   = e,
              !.expiredAt   = Null,
              !.retentionAt = e + Retention,
              !.deadline    = Null,
              !.autoRemoved = FALSE,
              !.archived    = FALSE,
              !.status      = "approved"]

RepairStaleRenewal(r, t) ==
    IF StaleRenewal(r, t)
    THEN Reopened(r, Later(ExpiryOrDefault(r, t), RenewalAt(r)) + Expiry)
    ELSE r

\* Mutant: the comparison of the two dates is swapped.
ExtendedBeforeExpiry(r) ==
    /\ r.extendedAt # Null
    /\ r.expiresAt # Null
    /\ r.extendedAt < r.expiresAt
    /\ r.status \notin {"deleted", "rejected"}
    /\ ~r.deleted

\* An extension later than the expiry it should have moved.
ExtendedPastExpiry(r) ==
    /\ r.extendedAt # Null
    /\ r.expiresAt # Null
    /\ r.extendedAt > r.expiresAt
    /\ r.status \notin {"deleted", "rejected"}
    /\ ~r.deleted

RepairExtension(r) ==
    IF ExtendedPastExpiry(r) THEN Reopened(r, r.extendedAt + Expiry) ELSE r

\* The record _sync_listing_lifecycle goes on with.
Repaired(r, t)    == RepairExtension(RepairStaleRenewal(r, t))
NeedsRepair(r, t) == StaleRenewal(r, t) \/ ExtendedPastExpiry(r)

(***************************************************************************)
(* _compute_listing_lifecycle: the derived view of a row at time t.        *)
(***************************************************************************)
Lifecycle(r, t) ==
    LET stale    == StaleRenewal(r, t)
        base     == ExpiryOrDefault(RepairStaleRenewal(r, t), t)
        extended == /\ r.extendedAt # Null
                    /\ base <= r.extendedAt
                    /\ r.status = "approved"
        repaired == stale \/ extended
        expires  == IF extended THEN r.extendedAt + Expiry ELSE base
        expired  == IF r.expiredAt # Null /\ ~repaired THEN r.expiredAt
                    ELSE IF t >= expires THEN expires ELSE Null
        retained == IF r.retentionAt # Null /\ ~repaired THEN r.retentionAt
                    ELSE (IF expired # Null THEN expired ELSE expires)
                            + Retention
        deadline == IF r.deadline # Null /\ ~repaired THEN r.deadline
                    ELSE IF expired # Null THEN expired + Window ELSE Null
        exempt   == r.isApproved /\ r.status = "approved" /\ ~r.deleted
    IN  [expiresAt   |-> expires,
         expiredAt   |-> expired,
         retentionAt |-> retained,
         deadline    |-> deadline,
         isExpired   |-> ~exempt /\ t >= expires,
         isArchived  |-> ~exempt /\ (r.archived \/ t >= retained)]

(***************************************************************************)
(* _sync_listing_lifecycle: the PATCH computed from the record s as read,  *)
(* applied to the row as it is when the PATCH arrives.                     *)
(***************************************************************************)

\* Mutant: the response deadline is not awaited.
UnansweredAtOnce(r, t) ==
    /\ Lifecycle(r, t).isExpired
    /\ r.soldSetAt = Null
    /\ r.status \notin TerminalStatuses
    /\ ~r.deleted

\* The system removes a listing nobody answered for.
Unanswered(r, t) ==
    LET c == Lifecycle(r, t)
    IN  /\ c.isExpired
        /\ c.deadline # Null
        /\ t >= c.deadline
        /\ r.soldSetAt = Null
        /\ r.status \notin TerminalStatuses
        /\ ~r.deleted

SyncPatch(row, s, t) ==
    LET r        == Repaired(s, t)
        c        == Lifecycle(r, t)
        repaired == NeedsRepair(s, t)
        remove   == Unanswered(r, t)
    IN  [row EXCEPT
          !.expiresAt   = IF repaired THEN r.expiresAt
                          ELSE IF r.expiresAt = Null THEN c.expiresAt ELSE @,
          !.expiredAt   = IF c.isExpired /\ r.expiredAt = Null THEN c.expiredAt
                          ELSE IF repaired THEN Null ELSE @,
          !.retentionAt = IF r.retentionAt = Null THEN c.retentionAt
                          ELSE IF repaired THEN r.retentionAt ELSE @,
          !.deadline    = IF r.deadline = Null /\ c.deadline # Null
                          THEN c.deadline
                          ELSE IF repaired THEN Null ELSE @,
          !.status      = IF remove THEN "deleted"
                          ELSE IF r.status # s.status \/ StaleRenewal(s, t)
                          THEN r.status ELSE @,
          !.soldStatus  = IF ~remove THEN @
                          ELSE IF r.soldStatus # Null THEN r.soldStatus
                          ELSE "no_response",
          !.soldSetAt   = IF remove THEN t ELSE @,
          !.deleted     = remove \/ @,
          !.autoRemoved = IF remove THEN TRUE ELSE ~repaired /\ @,
          !.archived    = IF c.isArchived /\ ~r.archived THEN TRUE
                          ELSE ~repaired /\ @]

(***************************************************************************)
(* Owner and admin writes.                                                 *)
(***************************************************************************)

\* Columns every fresh start of a lifecycle clears.
FreshCycle(r, e) ==
    [r EXCEPT !.expiresAt    = e,
              !.retentionAt  = e + Retention,
              !.expiredAt    = Null,
              !.deadline     = Null,
              !.autoRemoved  = FALSE,
              !.archived     = FALSE]

\* _renew_listing_and_verify: which records it accepts.
Renewable(r) ==
    \/ ~IsDeleted(r) /\ r.status \notin TerminalStatuses
    \/ /\ r.autoRemoved
       /\ r.status = "deleted"
       /\ r.soldStatus \in {Null, "sold_elsewhere", "not_sold_renew"}

\* Mutant: the new period starts at the old expiry even when it is past.
RenewedFromExpiry(r, e, t) ==
    [FreshCycle(r, e + Expiry) EXCEPT
        !.status = "approved", !.soldStatus = "not_sold_renew",
        !.soldSetAt = t, !.extendedAt = t, !.deleted = FALSE,
        !.reminderSent = FALSE, !.expiredSent = FALSE]

\* _build_renewed_listing_updates, from the expiry e the handler read.
Renewed(r, e, t) ==
    [FreshCycle(r, Later(e, t) + Expiry) EXCEPT
        !.status = "approved", !.soldStatus = "not_sold_renew",
        !.soldSetAt = t, !.extendedAt = t, !.deleted = FALSE,
        !.reminderSent = FALSE, !.expiredSent = FALSE]

\* The move_to_draft outcome; deleted_at and the e-mail stamps stay.
MovedToDraft(r, e, t) ==
    [FreshCycle(r, Later(e, t) + Expiry) EXCEPT
        !.status = "draft", !.isApproved = ~IsCar /\ @,
        !.soldStatus = Null, !.soldSetAt = Null, !.extendedAt = t]

\* The sold_on_dph and sold_elsewhere outcomes.
MarkedSold(r, outcome, t) ==
    [r EXCEPT !.status = "sold", !.soldStatus = outcome,
              !.soldSetAt = t, !.deadline = Null]

\* Approval that starts a new lifecycle; last_extended_at stays.
Approved(r, t) ==
    [FreshCycle(r, t + Expiry) EXCEPT
        !.status = "approved", !.isApproved = TRUE, !.deleted = FALSE,
        !.soldStatus = Null, !.soldSetAt = Null,
        !.reminderSent = FALSE, !.expiredSent = FALSE]

\* A custom expiry: retention, response deadline and outcome stay.
WithExpiry(r, e) ==
    [r EXCEPT !.expiresAt = e, !.expiredAt = Null, !.archived = FALSE,
              !.reminderSent = FALSE, !.expiredSent = FALSE]
=============================================================================
