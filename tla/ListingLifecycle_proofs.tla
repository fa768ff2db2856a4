----------------------- MODULE ListingLifecycle_proofs ----------------------
(***************************************************************************)
(* Proofs about ListingLifecycle, for every value of its constants: the    *)
(* rules map rows to rows, every step keeps the types, an extension never  *)
(* outruns the expiry in a lifecycle no stale write has touched, and in    *)
(* such a lifecycle removals and hard deletes wait as long as they must, a *)
(* verified renewal lasts, and one notice goes out per expiry date.        *)
(***************************************************************************)
EXTENDS ListingLifecycle, TLAPS

-----------------------------------------------------------------------------
(***************************************************************************)
(* The rules of ListingRules are total on rows.                            *)
(***************************************************************************)

\* Later is the greater of two dates.
LEMMA LaterType ==
    ASSUME NEW a \in Nat, NEW b \in Nat
    PROVE  Later(a, b) \in Nat /\ Later(a, b) >= a /\ Later(a, b) >= b
BY DEF Later

\* A date, a date in the future and a missing date are optional dates.
LEMMA OptTimeFacts ==
    ASSUME NEW e \in Nat
    PROVE  /\ Null \in OptTime
           /\ e \in OptTime
           /\ e + Expiry \in Nat /\ e + Expiry \in OptTime
           /\ e + Retention \in Nat /\ e + Retention \in OptTime
           /\ e + Window \in Nat /\ e + Window \in OptTime
BY RulesAssumption DEF OptTime

\* An optional date that is not missing is a date.
LEMMA SetTime ==
    ASSUME NEW d \in OptTime, d # Null
    PROVE  d \in Nat
BY DEF OptTime

\* The statuses the writes use.
LEMMA StatusFacts ==
    /\ "approved" \in Statuses /\ "deleted" \in Statuses
    /\ "sold" \in Statuses /\ "draft" \in Statuses
    /\ "rejected" \in Statuses
    /\ "no_response" \in SoldStatuses \cup {Null}
    /\ "not_sold_renew" \in SoldStatuses \cup {Null}
    /\ Null \in SoldStatuses \cup {Null}
BY DEF Statuses, ActiveStatuses, TerminalStatuses, SoldStatuses

\* Every row has an expiry to compare the clock with.
LEMMA ExpiryOrDefaultType ==
    ASSUME NEW r \in Listing, NEW t \in Nat
    PROVE  ExpiryOrDefault(r, t) \in Nat
<1>1. r.expiresAt \in OptTime /\ r.createdAt \in OptTime
  BY DEF Listing
<1> QED
  BY <1>1, SetTime, OptTimeFacts DEF ExpiryOrDefault

\* The renewal date is a date or missing.
LEMMA RenewalAtType ==
    ASSUME NEW r \in Listing
    PROVE  RenewalAt(r) \in OptTime
<1>1. r.soldSetAt \in OptTime /\ r.extendedAt \in OptTime
  BY DEF Listing
<1> QED
  BY <1>1, LaterType DEF RenewalAt, OptTime

\* The columns both repairs write have their types.
LEMMA ReopenedType ==
    ASSUME NEW r \in Listing, NEW e \in Nat
    PROVE  Reopened(r, e) \in Listing
BY OptTimeFacts, StatusFacts DEF Reopened, Listing

\* The columns a fresh lifecycle clears have their types.
LEMMA FreshCycleType ==
    ASSUME NEW r \in Listing, NEW e \in Nat
    PROVE  FreshCycle(r, e) \in Listing
BY OptTimeFacts DEF FreshCycle, Listing

\* Repairing a row gives a row.
LEMMA RepairExtensionType ==
    ASSUME NEW r \in Listing
    PROVE  RepairExtension(r) \in Listing
<1>1. CASE ExtendedPastExpiry(r)
  <2>1. r.extendedAt \in Nat
    BY <1>1, SetTime DEF ExtendedPastExpiry, Listing
  <2> QED
    BY <1>1, <2>1, OptTimeFacts, ReopenedType DEF RepairExtension
<1> QED
  BY <1>1 DEF RepairExtension

\* Repairing a stale renewal gives a row.
LEMMA RepairStaleType ==
    ASSUME NEW r \in Listing, NEW t \in Nat
    PROVE  RepairStaleRenewal(r, t) \in Listing
<1>1. CASE StaleRenewal(r, t)
  <2>1. RenewalAt(r) \in Nat
    BY <1>1, RenewalAtType, SetTime DEF StaleRenewal
  <2>2. Later(ExpiryOrDefault(r, t), RenewalAt(r)) + Expiry \in Nat
    BY <2>1, ExpiryOrDefaultType, LaterType, OptTimeFacts
  <2> QED
    BY <1>1, <2>2, ReopenedType DEF RepairStaleRenewal
<1> QED
  BY <1>1 DEF RepairStaleRenewal

\* Both repairs together give a row.
LEMMA RepairedType ==
    ASSUME NEW r \in Listing, NEW t \in Nat
    PROVE  Repaired(r, t) \in Listing
BY RepairExtensionType, RepairStaleType DEF Repaired

\* The derived view of a row always has an expiry and a retention date.
LEMMA LifecycleType ==
    ASSUME NEW r \in Listing, NEW t \in Nat
    PROVE  /\ Lifecycle(r, t).expiresAt \in Nat
           /\ Lifecycle(r, t).expiredAt \in OptTime
           /\ Lifecycle(r, t).retentionAt \in Nat
           /\ Lifecycle(r, t).deadline \in OptTime
<1> DEFINE stale    == StaleRenewal(r, t)
           b        == ExpiryOrDefault(RepairStaleRenewal(r, t), t)
           extended == /\ r.extendedAt # Null
                       /\ b <= r.extendedAt
                       /\ r.status = "approved"
           repaired == stale \/ extended
           expires  == IF extended THEN r.extendedAt + Expiry ELSE b
           expired  == IF r.expiredAt # Null /\ ~repaired THEN r.expiredAt
                       ELSE IF t >= expires THEN expires ELSE Null
           retained == IF r.retentionAt # Null /\ ~repaired
                       THEN r.retentionAt
                       ELSE (IF expired # Null THEN expired ELSE expires)
                               + Retention
           deadline == IF r.deadline # Null /\ ~repaired THEN r.deadline
                       ELSE IF expired # Null THEN expired + Window
                       ELSE Null
<1>1. /\ r.extendedAt \in OptTime /\ r.expiredAt \in OptTime
      /\ r.retentionAt \in OptTime /\ r.deadline \in OptTime
  BY DEF Listing
<1>2. b \in Nat
  BY RepairStaleType, ExpiryOrDefaultType
<1>3. expires \in Nat
  BY <1>1, <1>2, SetTime, OptTimeFacts
<1>4. expired \in OptTime
  BY <1>1, <1>3, OptTimeFacts
<1>5. retained \in Nat
  BY <1>1, <1>3, <1>4, SetTime, OptTimeFacts
<1>6. deadline \in OptTime
  BY <1>1, <1>4, SetTime, OptTimeFacts
<1>7. /\ Lifecycle(r, t).expiresAt = expires
      /\ Lifecycle(r, t).expiredAt = expired
      /\ Lifecycle(r, t).retentionAt = retained
      /\ Lifecycle(r, t).deadline = deadline
  BY DEF Lifecycle
<1> QED
  BY <1>3, <1>4, <1>5, <1>6, <1>7

\* The PATCH of _sync_listing_lifecycle keeps the types of the row it hits,
\* whatever row it was computed from.
LEMMA SyncPatchType ==
    ASSUME NEW row \in Listing, NEW s \in Listing, NEW t \in Nat
    PROVE  SyncPatch(row, s, t) \in Listing
<1> DEFINE r        == Repaired(s, t)
           c        == Lifecycle(r, t)
           repaired == NeedsRepair(s, t)
           remove   == Unanswered(r, t)
           expires  == IF repaired THEN r.expiresAt
                       ELSE IF r.expiresAt = Null THEN c.expiresAt
                       ELSE row.expiresAt
           expired  == IF c.isExpired /\ r.expiredAt = Null THEN c.expiredAt
                       ELSE IF repaired THEN Null ELSE row.expiredAt
           retained == IF r.retentionAt = Null THEN c.retentionAt
                       ELSE IF repaired THEN r.retentionAt
                       ELSE row.retentionAt
           deadline == IF r.deadline = Null /\ c.deadline # Null
                       THEN c.deadline
                       ELSE IF repaired THEN Null ELSE row.deadline
           status   == IF remove THEN "deleted"
                       ELSE IF r.status # s.status \/ StaleRenewal(s, t)
                       THEN r.status ELSE row.status
           outcome  == IF ~remove THEN row.soldStatus
                       ELSE IF r.soldStatus # Null THEN r.soldStatus
                       ELSE "no_response"
           setAt    == IF remove THEN t ELSE row.soldSetAt
           auto     == IF remove THEN TRUE ELSE ~repaired /\ row.autoRemoved
           archived == IF c.isArchived /\ ~r.archived THEN TRUE
                       ELSE ~repaired /\ row.archived
           deleted  == remove \/ row.deleted
<1>1. r \in Listing
  BY RepairedType
<1>2. /\ c.expiresAt \in OptTime /\ c.expiredAt \in OptTime
      /\ c.retentionAt \in OptTime /\ c.deadline \in OptTime
  BY <1>1, LifecycleType DEF OptTime
<1>3. t \in OptTime /\ Null \in OptTime
  BY OptTimeFacts
<1> HIDE DEF r, c
<1>4. expires \in OptTime /\ expired \in OptTime
  BY <1>1, <1>2, <1>3 DEF Listing
<1>5. retained \in OptTime /\ deadline \in OptTime
  BY <1>1, <1>2, <1>3 DEF Listing
<1>6. status \in Statuses /\ outcome \in SoldStatuses \cup {Null}
  BY <1>1, StatusFacts DEF Listing
<1>7. setAt \in OptTime
  BY <1>3 DEF Listing
<1>8. /\ auto \in BOOLEAN /\ archived \in BOOLEAN
      /\ deleted \in BOOLEAN
  BY DEF Listing
<1>9. SyncPatch(row, s, t) =
        [row EXCEPT !.expiresAt = expires, !.expiredAt = expired,
                    !.retentionAt = retained, !.deadline = deadline,
                    !.status = status, !.soldStatus = outcome,
                    !.soldSetAt = setAt, !.deleted = deleted,
                    !.autoRemoved = auto, !.archived = archived]
  BY DEF SyncPatch, r, c
<1> HIDE DEF expires, expired, retained, deadline, status, outcome, setAt,
             auto, archived, deleted, remove, repaired
<1>10. [row EXCEPT !.expiresAt = expires, !.expiredAt = expired,
                   !.retentionAt = retained, !.deadline = deadline,
                   !.status = status, !.soldStatus = outcome,
                   !.soldSetAt = setAt, !.deleted = deleted,
                   !.autoRemoved = auto, !.archived = archived] \in Listing
  BY <1>4, <1>5, <1>6, <1>7, <1>8, ZenonT(60) DEF Listing
<1> QED
  BY <1>9, <1>10

\* The owner's and the admin's writes keep the types of the row.
LEMMA RequestWriteType ==
    ASSUME NEW r \in Listing, NEW e \in Nat, NEW t \in Nat,
           NEW outcome \in SoldOutcomes
    PROVE  /\ Renewed(r, e, t) \in Listing
           /\ MovedToDraft(r, e, t) \in Listing
           /\ MarkedSold(r, outcome, t) \in Listing
           /\ Approved(r, t) \in Listing
           /\ WithExpiry(r, e) \in Listing
<1>1. /\ t \in OptTime /\ e \in OptTime /\ Null \in OptTime
      /\ t + Expiry \in Nat
  BY OptTimeFacts
<1>2. Later(e, t) + Expiry \in Nat
  BY LaterType, OptTimeFacts
<1>3. outcome \in SoldStatuses \cup {Null}
  BY DEF SoldStatuses
<1>4. (~IsCar /\ r.isApproved) \in BOOLEAN
  BY DEF Listing
<1>5. Renewed(r, e, t) \in Listing
  <2> DEFINE q == FreshCycle(r, Later(e, t) + Expiry)
  <2>1. q \in Listing
    BY <1>2, FreshCycleType
  <2> HIDE DEF q
  <2>2. Renewed(r, e, t) =
          [q EXCEPT !.status = "approved", !.soldStatus = "not_sold_renew",
                    !.soldSetAt = t, !.extendedAt = t, !.deleted = FALSE,
                    !.reminderSent = FALSE, !.expiredSent = FALSE]
    BY DEF Renewed, q
  <2> QED
    BY <1>1, <2>1, <2>2, StatusFacts, ZenonT(60) DEF Listing
<1>6. MovedToDraft(r, e, t) \in Listing
  <2> DEFINE q == FreshCycle(r, Later(e, t) + Expiry)
             a == ~IsCar /\ q.isApproved
  <2>1. q \in Listing
    BY <1>2, FreshCycleType
  <2>2. a \in BOOLEAN
    OBVIOUS
  <2> HIDE DEF q
  <2>3. MovedToDraft(r, e, t) =
          [q EXCEPT !.status = "draft", !.isApproved = a,
                    !.soldStatus = Null, !.soldSetAt = Null,
                    !.extendedAt = t]
    BY DEF MovedToDraft, q
  <2> HIDE DEF a
  <2> QED
    BY <1>1, <2>1, <2>2, <2>3, StatusFacts, ZenonT(60) DEF Listing
<1>7. MarkedSold(r, outcome, t) \in Listing
  BY <1>1, <1>3, StatusFacts DEF MarkedSold, Listing
<1>8. Approved(r, t) \in Listing
  <2> DEFINE q == FreshCycle(r, t + Expiry)
  <2>1. q \in Listing
    BY <1>1, FreshCycleType
  <2> HIDE DEF q
  <2>2. Approved(r, t) =
          [q EXCEPT !.status = "approved", !.isApproved = TRUE,
                    !.deleted = FALSE, !.soldStatus = Null,
                    !.soldSetAt = Null, !.reminderSent = FALSE,
                    !.expiredSent = FALSE]
    BY DEF Approved, q
  <2> QED
    BY <1>1, <2>1, <2>2, StatusFacts, ZenonT(60) DEF Listing
<1>9. WithExpiry(r, e) \in Listing
  BY <1>1 DEF WithExpiry, Listing
<1> QED
  BY <1>5, <1>6, <1>7, <1>8, <1>9

-----------------------------------------------------------------------------
(***************************************************************************)
(* Type correctness.                                                       *)
(***************************************************************************)

\* Every view a process has of a row is a row.
LEMMA SeenType ==
    ASSUME NEW p \in Procs, NEW r \in Listing
    PROVE  Seen(p, r) \in Listing
<1>1. SweepColumns(r) \in Listing
  BY OptTimeFacts DEF SweepColumns, Listing, OptTime
<1>2. RejectedAsDraft(r) \in Listing
  BY StatusFacts DEF RejectedAsDraft, Listing
<1> QED
  BY <1>1, <1>2 DEF Seen

\* What a process that is not idle has in memory.
LEMMA BaseType ==
    ASSUME TypeOK, NEW p \in Procs, pc[p] # "idle"
    PROVE  /\ base[p] \in Listing
           /\ Seen(p, base[p]) \in Listing
           /\ Lifecycle(base[p], now).expiresAt \in Nat
BY SeenType, LifecycleType DEF TypeOK

\* The part of TypeOK that program counters make up.
ProcTypeOK ==
    /\ pc \in [Procs -> Steps]
    /\ base \in [Procs -> Listing \cup {Null}]
    /\ \A p \in Procs : pc[p] # "idle" => base[p] \in Listing
    /\ late \in [Procs -> BOOLEAN]
    /\ task \in [Procs -> Tasks]

\* Every way a process moves keeps the types of what it has in memory.
LEMMA MoveType ==
    ASSUME TypeOK, NEW p \in Procs,
           \/ Return(p)
           \/ \E step \in Steps, row \in Listing : Goto(p, step, row)
           \/ \E job \in Tasks, step \in Steps : Fetch(p, job, step)
    PROVE  ProcTypeOK'
<1> USE DEF TypeOK, ProcTypeOK
<1>1. CASE Return(p)
  BY <1>1 DEF Return, Steps, Tasks
<1>2. ASSUME NEW step \in Steps, NEW row \in Listing, Goto(p, step, row)
      PROVE  ProcTypeOK'
  BY <1>2 DEF Goto
<1>3. ASSUME NEW job \in Tasks, NEW step \in Steps, Fetch(p, job, step)
      PROVE  ProcTypeOK'
  BY <1>3 DEF Fetch
<1> QED
  BY <1>1, <1>2, <1>3

\* The rest of TypeOK.
RowTypeOK ==
    /\ listing \in Listing
    /\ present \in BOOLEAN
    /\ now \in Nat
    /\ renewedAt \in OptTime
    /\ requests \in 0 .. MaxRequests
    /\ faults \in 0 .. MaxFaults
    /\ noticed \subseteq Nat
    /\ repeated \in BOOLEAN
    /\ custom \in BOOLEAN
    /\ raced \in BOOLEAN

\* The requests and jobs that only read keep the types.
LEMMA ReadsType ==
    ASSUME TypeOK,
           \/ SweepRead \/ ViewRead \/ ScannerRead
           \/ ExtendRequest \/ OutcomeRequest \/ AdminRenewRequest
    PROVE  TypeOK'
<1>1. PICK p \in Procs, job \in Tasks, step \in Steps : Fetch(p, job, step)
  BY DEF SweepRead, ViewRead, ScannerRead, ExtendRequest, OutcomeRequest,
         AdminRenewRequest, Fetch, Tasks, Steps
<1>2. ProcTypeOK'
  BY <1>1, MoveType
<1>3. UNCHANGED <<listing, present, now, renewedAt, faults, noticed,
                  repeated, custom, raced>>
  BY <1>1 DEF Fetch, history
<1>4. requests' \in 0 .. MaxRequests
  BY LifecycleAssumption
     DEF SweepRead, ViewRead, ScannerRead, ExtendRequest, OutcomeRequest,
         AdminRenewRequest, Request, TypeOK
<1>5. RowTypeOK'
  BY <1>3, <1>4 DEF RowTypeOK, TypeOK
<1> QED
  BY <1>2, <1>5 DEF TypeOK, ProcTypeOK, RowTypeOK

\* What the sync of p goes on with keeps the types of p's memory.
LEMMA AfterSyncType ==
    ASSUME TypeOK, NEW p \in Procs, NEW s, NEW r, NEW row \in Listing,
           MailOrFinish(p, s, r, row)
    PROVE  ProcTypeOK'
<1>1. \/ Return(p)
      \/ \E step \in Steps : Goto(p, step, row)
  BY DEF MailOrFinish, AfterSync, Steps
<1> QED
  BY <1>1, MoveType

\* The sync itself.
LEMMA SyncType ==
    ASSUME TypeOK, NEW p \in Procs, SyncWrite(p) \/ SyncFails(p)
    PROVE  TypeOK'
<1> DEFINE s == Seen(p, base[p])
<1>1. pc[p] # "idle"
  BY DEF SyncWrite, SyncFails
<1>2. base[p] \in Listing /\ s \in Listing /\ now \in Nat
  BY <1>1, BaseType DEF TypeOK
<1>3. SyncPatch(base[p], s, now) \in Listing
  BY <1>2, SyncPatchType
<1> HIDE DEF s
<1>4. CASE SyncWrite(p)
  <2>1. MailOrFinish(p, s, SyncPatch(s, s, now), SyncPatch(base[p], s, now))
    BY <1>4 DEF SyncWrite, s
  <2>2. ProcTypeOK'
    BY <1>3, <2>1, AfterSyncType
  <2>3. listing' \in Listing /\ present' \in BOOLEAN
    <3>1. SyncPatch(listing, s, now) \in Listing
      BY <1>2, SyncPatchType DEF TypeOK
    <3> QED
      BY <1>4, <3>1 DEF SyncWrite, Write, TypeOK, s
  <2>4. /\ renewedAt' \in OptTime /\ raced' \in BOOLEAN
        /\ UNCHANGED <<now, requests, faults, noticed, repeated, custom>>
    BY <1>4, OptTimeFacts DEF SyncWrite, TypeOK, history
  <2>5. RowTypeOK'
    BY <2>3, <2>4 DEF RowTypeOK, TypeOK
  <2> QED
    BY <2>2, <2>5 DEF TypeOK, ProcTypeOK, RowTypeOK
<1>5. CASE SyncFails(p)
  <2>1. MailOrFinish(p, s, Repaired(s, now), base[p])
    BY <1>5 DEF SyncFails, s
  <2>2. ProcTypeOK'
    BY <1>2, <2>1, AfterSyncType
  <2>3. /\ renewedAt' \in OptTime
        /\ faults' \in 0 .. MaxFaults
        /\ UNCHANGED <<listing, present, now, requests, noticed, repeated,
                       custom, raced>>
    BY <1>5, OptTimeFacts, LifecycleAssumption
       DEF SyncFails, Fault, TypeOK, history
  <2>4. RowTypeOK'
    BY <2>3 DEF RowTypeOK, TypeOK
  <2> QED
    BY <2>2, <2>4 DEF TypeOK, ProcTypeOK, RowTypeOK
<1> QED
  BY <1>4, <1>5

\* The claims of the "expired" and reminder e-mails, and the hard deletes.
LEMMA ClaimType ==
    ASSUME TypeOK,
           \/ \E p \in Procs : Claim(p) \/ Purge(p)
           \/ ScannerClaim
    PROVE  TypeOK'
<1>1. ASSUME NEW p \in Procs, Claim(p)
      PROVE  TypeOK'
  <2> DEFINE e == Lifecycle(Seen(p, base[p]), now).expiresAt
  <2>1. pc[p] # "idle"
    BY <1>1 DEF Claim
  <2>2. e \in Nat
    BY <2>1, BaseType, LifecycleType DEF TypeOK
  <2> HIDE DEF e
  <2>3. \/ /\ listing' = [listing EXCEPT !.expiredSent = TRUE]
           /\ Notice(e)
        \/ UNCHANGED <<listing, noticed, repeated>>
    BY <1>1 DEF Claim, history, e
  <2>4. listing' \in Listing /\ noticed' \subseteq Nat
                             /\ repeated' \in BOOLEAN
    BY <2>2, <2>3 DEF TypeOK, Listing, Notice
  <2>5. UNCHANGED <<present, now, renewedAt, requests, faults, custom, raced>>
    BY <1>1 DEF Claim
  <2>6. RowTypeOK'
    BY <2>4, <2>5 DEF RowTypeOK, TypeOK
  <2>7. \/ Return(p)
        \/ \E step \in Steps, row \in Listing : Goto(p, step, row)
    BY <1>1, <2>1, <2>4, BaseType DEF Claim, Steps
  <2>8. ProcTypeOK'
    BY <2>7, MoveType
  <2> QED
    BY <2>6, <2>8 DEF TypeOK, ProcTypeOK, RowTypeOK
<1>2. ASSUME NEW p \in Procs, Purge(p)
      PROVE  TypeOK'
  <2>1. ProcTypeOK'
    BY <1>2, MoveType DEF Purge
  <2>2. RowTypeOK'
    BY <1>2 DEF Purge, RowTypeOK, TypeOK, history
  <2> QED
    BY <2>1, <2>2 DEF TypeOK, ProcTypeOK, RowTypeOK
<1>3. ASSUME ScannerClaim
      PROVE  TypeOK'
  <2> DEFINE s == ScannerColumns(base["scanner"])
             e == Lifecycle(s, now).expiresAt
  <2>1. "scanner" \in Procs /\ pc["scanner"] # "idle"
    BY <1>3 DEF ScannerClaim
  <2>2. base["scanner"] \in Listing
    BY <2>1, BaseType
  <2>3. s \in Listing
    BY <2>2, OptTimeFacts DEF ScannerColumns, Listing, OptTime
  <2>4. e \in Nat /\ e \in OptTime
    BY <2>3, LifecycleType, OptTimeFacts DEF TypeOK
  <2> HIDE DEF e, s
  <2>5. \/ /\ \/ listing' = [listing EXCEPT !.expiredSent = TRUE,
                                            !.expiredAt = e]
              \/ listing' = [listing EXCEPT !.expiredSent = TRUE,
                                            !.expiredAt = @]
           /\ Notice(e)
        \/ /\ listing' = [listing EXCEPT !.reminderSent = TRUE]
           /\ UNCHANGED <<noticed, repeated>>
        \/ UNCHANGED <<listing, noticed, repeated>>
    BY <1>3 DEF ScannerClaim, history, e, s
  <2>6. listing' \in Listing
    BY <2>4, <2>5, ZenonT(60) DEF TypeOK, Listing
  <2>7. noticed' \subseteq Nat /\ repeated' \in BOOLEAN
    BY <2>4, <2>5 DEF TypeOK, Notice
  <2>8. UNCHANGED <<present, now, renewedAt, requests, faults, custom, raced>>
    BY <1>3 DEF ScannerClaim
  <2>9. RowTypeOK'
    BY <2>6, <2>7, <2>8 DEF RowTypeOK, TypeOK
  <2>10. ProcTypeOK'
    BY <1>3, <2>1, MoveType DEF ScannerClaim
  <2> QED
    BY <2>9, <2>10 DEF TypeOK, ProcTypeOK, RowTypeOK
<1> QED
  BY <1>1, <1>2, <1>3

\* A client about to repair a renewal reloaded a row with a renewal date:
\* without it the type of the repaired expiry is lost.
RepairOK ==
    "client" \in Procs /\ pc["client"] = "repair"
        => RenewalAt(base["client"]) # Null

\* The rest of the owner's requests.
LEMMA OwnerType ==
    ASSUME TypeOK, RepairOK,
           RenewWrite \/ Reload \/ RepairRenewed \/ DraftWrite \/ SoldWrite
    PROVE  TypeOK'
<1>1. /\ "client" \in Procs /\ pc["client"] # "idle"
      /\ base["client"] \in Listing /\ now \in Nat /\ listing \in Listing
  BY BaseType DEF RenewWrite, Reload, RepairRenewed, DraftWrite, SoldWrite,
                  TypeOK
<1>2. Lifecycle(base["client"], now).expiresAt \in Nat
  BY <1>1, LifecycleType
<1>3. now \in OptTime /\ Null \in OptTime
  BY <1>1, OptTimeFacts
<1>4. CASE RenewWrite
  <2>1. Renewed(listing, Lifecycle(base["client"], now).expiresAt, now)
          \in Listing
    <3>1. "sold_elsewhere" \in SoldOutcomes
      BY DEF SoldOutcomes
    <3> QED
      BY <1>1, <1>2, <3>1, RequestWriteType
  <2>2. RowTypeOK'
    BY <1>3, <1>4, <2>1 DEF RenewWrite, Write, NewCycle, RowTypeOK, TypeOK,
                            history
  <2>3. ProcTypeOK'
    BY <1>4 DEF RenewWrite, ProcTypeOK, TypeOK, Steps, Tasks
  <2> QED
    BY <2>2, <2>3 DEF TypeOK, ProcTypeOK, RowTypeOK
<1>5. CASE Reload
  <2>1. RowTypeOK'
    BY <1>3, <1>5 DEF Reload, RowTypeOK, TypeOK, history
  <2>2. \/ Return("client")
        \/ \E step \in Steps : Goto("client", step, listing)
    BY <1>5 DEF Reload, Steps
  <2>3. ProcTypeOK'
    BY <1>1, <2>2, MoveType
  <2> QED
    BY <2>1, <2>3 DEF TypeOK, ProcTypeOK, RowTypeOK
<1>6. CASE RepairRenewed
  <2> DEFINE r == base["client"]
             e == Later(ExpiryOrDefault(r, now), RenewalAt(r)) + Expiry
             q == Reopened(listing, e)
  <2>1. ProcTypeOK'
    BY <1>1, <1>6, MoveType DEF RepairRenewed, Steps
  <2>2. RenewalAt(r) \in Nat
    BY <1>1, <1>6, RenewalAtType, SetTime DEF RepairRenewed, RepairOK
  <2>3. e \in Nat
    BY <1>1, <2>2, ExpiryOrDefaultType, LaterType, OptTimeFacts
  <2>4. q \in Listing
    BY <1>1, <2>3, ReopenedType
  <2>5. listing' = listing \/
        listing' = [q EXCEPT !.soldStatus = "not_sold_renew",
                             !.soldSetAt = renewedAt, !.extendedAt = renewedAt]
    BY <1>6 DEF RepairRenewed, Write
  <2> HIDE DEF q, e, r
  <2>6. listing' \in Listing
    BY <1>1, <2>4, <2>5, StatusFacts, ZenonT(60) DEF Listing, TypeOK
  <2>7. /\ present' \in BOOLEAN /\ raced' \in BOOLEAN
        /\ UNCHANGED <<now, renewedAt, requests, faults, noticed, repeated,
                       custom>>
    BY <1>6 DEF RepairRenewed, Write, history, TypeOK
  <2>8. RowTypeOK'
    BY <2>6, <2>7 DEF RowTypeOK, TypeOK
  <2> QED
    BY <2>1, <2>8 DEF TypeOK, ProcTypeOK, RowTypeOK
<1>7. CASE DraftWrite
  <2>1. MovedToDraft(listing, Lifecycle(base["client"], now).expiresAt, now)
          \in Listing
    <3>1. "sold_elsewhere" \in SoldOutcomes
      BY DEF SoldOutcomes
    <3> QED
      BY <1>1, <1>2, <3>1, RequestWriteType
  <2>2. RowTypeOK'
    BY <1>7, <2>1 DEF DraftWrite, Write, NewCycle, RowTypeOK, TypeOK, history
  <2>3. ProcTypeOK'
    BY <1>1, <1>7, MoveType DEF DraftWrite
  <2> QED
    BY <2>2, <2>3 DEF TypeOK, ProcTypeOK, RowTypeOK
<1>8. CASE SoldWrite
  <2>1. PICK outcome \in Outcomes : Write(MarkedSold(listing, outcome, now))
    BY <1>8 DEF SoldWrite
  <2>2. MarkedSold(listing, outcome, now) \in Listing
    BY <1>1, RequestWriteType, LifecycleAssumption
  <2>3. RowTypeOK'
    BY <1>8, <2>1, <2>2 DEF SoldWrite, Write, RowTypeOK, TypeOK, history
  <2>4. ProcTypeOK'
    BY <1>1, <1>8, MoveType DEF SoldWrite
  <2> QED
    BY <2>3, <2>4 DEF TypeOK, ProcTypeOK, RowTypeOK
<1> QED
  BY <1>4, <1>5, <1>6, <1>7, <1>8

\* A PATCH by id of one column group touches no process.
LEMMA BlindWriteType ==
    ASSUME TypeOK, NEW row \in Listing, NEW ACTION cycle,
           BlindWrite(row, cycle),
           custom' \in BOOLEAN, raced' \in BOOLEAN
    PROVE  TypeOK'
<1>1. requests' \in 0 .. MaxRequests
  BY LifecycleAssumption DEF BlindWrite, Request, TypeOK
<1>2. /\ listing' = row
      /\ UNCHANGED <<present, now, pc, base, late, task, renewedAt, faults,
                     noticed, repeated>>
  BY DEF BlindWrite, history
<1> QED
  BY <1>1, <1>2 DEF TypeOK

\* Approvals, rejections, deletions, custom dates.
LEMMA BlindType ==
    ASSUME TypeOK,
           \/ Approve \/ ApproveOnly \/ Reject \/ Delete \/ AdminSold
           \/ SetExpiry
    PROVE  TypeOK'
<1>1. listing \in Listing /\ now \in Nat
  BY DEF TypeOK
<1>2. CASE Approve
  <2>1. Approved(listing, now) \in Listing
    <3>1. "sold_elsewhere" \in SoldOutcomes
      BY DEF SoldOutcomes
    <3> QED
      BY <1>1, <3>1, RequestWriteType
  <2>2. custom' \in BOOLEAN /\ raced' \in BOOLEAN
    BY <1>2 DEF Approve, BlindWrite, NewCycle
  <2> QED
    BY <1>2, <2>1, <2>2, BlindWriteType DEF Approve
<1>3. CASE ApproveOnly
  <2>1. [listing EXCEPT !.status = "approved", !.isApproved = TRUE]
          \in Listing
    BY <1>1, StatusFacts DEF Listing
  <2>2. custom' \in BOOLEAN /\ raced' \in BOOLEAN
    BY <1>3 DEF ApproveOnly, BlindWrite, SameCycle, TypeOK
  <2> QED
    BY <1>3, <2>1, <2>2, BlindWriteType DEF ApproveOnly
<1>4. CASE Reject
  <2>1. PICK a \in {listing.isApproved, FALSE} :
          BlindWrite([listing EXCEPT !.status = "rejected",
                                     !.isApproved = a], SameCycle)
    BY <1>4 DEF Reject
  <2>2. a \in BOOLEAN
    BY <1>1 DEF Listing
  <2>3. [listing EXCEPT !.status = "rejected", !.isApproved = a] \in Listing
    BY <1>1, <2>2, StatusFacts DEF Listing
  <2>4. custom' \in BOOLEAN /\ raced' \in BOOLEAN
    BY <2>1 DEF BlindWrite, SameCycle, TypeOK
  <2> QED
    BY <2>1, <2>3, <2>4, BlindWriteType
<1>5. CASE Delete
  <2> DEFINE q1 == [listing EXCEPT !.status = "deleted", !.deleted = TRUE,
                                   !.autoRemoved = FALSE]
             q2 == [listing EXCEPT !.status = "deleted", !.deleted = TRUE,
                                   !.isApproved = FALSE]
  <2>1. q1 \in Listing /\ q2 \in Listing
    BY <1>1, StatusFacts DEF Listing
  <2>2. BlindWrite(q1, SameCycle) \/ BlindWrite(q2, SameCycle)
    BY <1>5 DEF Delete
  <2> HIDE DEF q1, q2
  <2>3. custom' \in BOOLEAN /\ raced' \in BOOLEAN
    BY <2>2 DEF BlindWrite, SameCycle, TypeOK
  <2> QED
    BY <2>1, <2>2, <2>3, BlindWriteType
<1>6. CASE AdminSold
  <2>1. PICK outcome \in Outcomes :
          BlindWrite([MarkedSold(listing, outcome, now) EXCEPT
                         !.isApproved = FALSE], SameCycle)
    BY <1>6 DEF AdminSold
  <2>2. MarkedSold(listing, outcome, now) \in Listing
    BY <1>1, RequestWriteType, LifecycleAssumption
  <2>3. [MarkedSold(listing, outcome, now) EXCEPT !.isApproved = FALSE]
          \in Listing
    BY <2>2 DEF Listing
  <2>4. custom' \in BOOLEAN /\ raced' \in BOOLEAN
    BY <2>1 DEF BlindWrite, SameCycle, TypeOK
  <2> QED
    BY <2>1, <2>3, <2>4, BlindWriteType
<1>7. CASE SetExpiry
  <2>1. PICK days \in CustomDays :
          BlindWrite(WithExpiry(listing, now + days),
                     custom' = TRUE /\ UNCHANGED raced)
    BY <1>7 DEF SetExpiry
  <2>2. WithExpiry(listing, now + days) \in Listing
    <3>1. "sold_elsewhere" \in SoldOutcomes /\ now + days \in Nat
      BY <1>1, <2>1, LifecycleAssumption DEF SoldOutcomes
    <3> QED
      BY <1>1, <3>1, RequestWriteType
  <2>3. custom' \in BOOLEAN /\ raced' \in BOOLEAN
    BY <2>1 DEF BlindWrite, TypeOK
  <2> QED
    BY <2>1, <2>2, <2>3, BlindWriteType
<1> QED
  BY <1>2, <1>3, <1>4, <1>5, <1>6, <1>7

\* What touches no column: failures, crashes, the hard delete, the clock.
LEMMA OtherType ==
    ASSUME TypeOK,
           \/ RequestFails \/ HardDelete \/ Tick
           \/ \E p \in Procs : Crash(p)
    PROVE  TypeOK'
<1>1. CASE RequestFails
  <2>1. ProcTypeOK'
    BY <1>1, MoveType DEF RequestFails
  <2>2. faults' \in 0 .. MaxFaults
    BY <1>1, LifecycleAssumption DEF RequestFails, Fault, TypeOK
  <2>3. renewedAt' \in OptTime
    BY <1>1, OptTimeFacts DEF RequestFails, TypeOK
  <2>4. UNCHANGED <<listing, present, now, requests, noticed, repeated,
                    custom, raced>>
    BY <1>1 DEF RequestFails, history
  <2>5. RowTypeOK'
    BY <2>2, <2>3, <2>4 DEF RowTypeOK, TypeOK
  <2> QED
    BY <2>1, <2>5 DEF TypeOK, ProcTypeOK, RowTypeOK
<1>2. CASE HardDelete
  <2>1. requests' \in 0 .. MaxRequests
    BY <1>2, LifecycleAssumption DEF HardDelete, Request, TypeOK
  <2>2. UNCHANGED <<listing, now, pc, base, late, task, renewedAt, faults,
                    noticed, repeated, custom, raced>>
    BY <1>2 DEF HardDelete, history
  <2>3. present' \in BOOLEAN
    BY <1>2 DEF HardDelete
  <2> QED
    BY <2>1, <2>2, <2>3 DEF TypeOK
<1>3. CASE Tick
  BY <1>3 DEF Tick, TypeOK
<1>4. ASSUME NEW p \in Procs, Crash(p)
      PROVE  TypeOK'
  <2>1. ProcTypeOK'
    BY <1>4, MoveType DEF Crash
  <2>2. faults' \in 0 .. MaxFaults
    BY <1>4, LifecycleAssumption DEF Crash, Fault, TypeOK
  <2>3. renewedAt' \in OptTime
    BY <1>4, OptTimeFacts DEF Crash, TypeOK
  <2>4. UNCHANGED <<listing, present, now, requests, noticed, repeated,
                    custom, raced>>
    BY <1>4 DEF Crash, history
  <2>5. RowTypeOK'
    BY <2>2, <2>3, <2>4 DEF RowTypeOK, TypeOK
  <2> QED
    BY <2>1, <2>5 DEF TypeOK, ProcTypeOK, RowTypeOK
<1> QED
  BY <1>1, <1>2, <1>3, <1>4

\* Only a reload takes the client to its repair, with a stale row in hand.
LEMMA RepairStep ==
    ASSUME TypeOK, RepairOK, [Next]_vars
    PROVE  RepairOK'
<1> DEFINE c == "client"
<1> SUFFICES ASSUME c \in Procs, pc'[c] = "repair"
             PROVE  RenewalAt(base'[c]) # Null
  BY DEF RepairOK
<1> USE DEF TypeOK
<1>1. CASE pc'[c] = pc[c] /\ base'[c] = base[c]
  BY <1>1 DEF RepairOK
<1>2. CASE Reload
  <2>1. StaleRenewal(listing, now) /\ base'[c] = listing
    BY <1>2 DEF Reload, Return, Goto
  <2> QED
    BY <2>1 DEF StaleRenewal
<1>3. CASE UNCHANGED vars
  BY <1>1, <1>3 DEF vars
<1>4. ASSUME NEW p \in Procs, NEW job, NEW step, Fetch(p, job, step),
             step # "repair"
      PROVE  pc'[c] = pc[c] /\ base'[c] = base[c]
  BY <1>4 DEF Fetch
<1>5. CASE \/ SweepRead \/ ViewRead \/ ScannerRead
           \/ ExtendRequest \/ OutcomeRequest \/ AdminRenewRequest
  BY <1>1, <1>4, <1>5
     DEF SweepRead, ViewRead, ScannerRead, ExtendRequest, OutcomeRequest,
         AdminRenewRequest, Fetch
<1>6. ASSUME NEW p \in Procs,
             \/ Return(p)
             \/ \E step \in Steps \ {"repair"} : \E row : Goto(p, step, row)
      PROVE  pc'[c] = pc[c] /\ base'[c] = base[c]
  BY <1>6 DEF Return, Goto
<1>7. ASSUME NEW p \in Procs, SyncWrite(p) \/ SyncFails(p)
      PROVE  \/ Return(p)
             \/ \E step \in Steps \ {"repair"} : \E row : Goto(p, step, row)
  BY <1>7 DEF SyncWrite, SyncFails, MailOrFinish, AfterSync, Steps
<1>8. ASSUME NEW p \in Procs, Claim(p) \/ Purge(p) \/ Crash(p)
      PROVE  \/ Return(p)
             \/ \E step \in Steps \ {"repair"} : \E row : Goto(p, step, row)
  BY <1>8 DEF Claim, Purge, Crash, Steps
<1>9. CASE \E p \in Procs : \/ SyncWrite(p) \/ SyncFails(p)
                            \/ Claim(p) \/ Purge(p) \/ Crash(p)
  BY <1>1, <1>6, <1>7, <1>8, <1>9
<1>10. CASE ScannerClaim \/ DraftWrite \/ SoldWrite \/ RequestFails
  BY <1>1, <1>6, <1>10 DEF ScannerClaim, DraftWrite, SoldWrite, RequestFails
<1>11. CASE RenewWrite
  BY <1>11 DEF RenewWrite
<1>12. CASE RepairRenewed
  BY <1>1, <1>6, <1>12 DEF RepairRenewed, Steps
<1>13. CASE \/ Approve \/ ApproveOnly \/ Reject \/ Delete \/ AdminSold
            \/ SetExpiry \/ HardDelete \/ Tick
  BY <1>1, <1>13 DEF Approve, ApproveOnly, Reject, Delete, AdminSold,
                     SetExpiry, BlindWrite, HardDelete, Tick
<1> QED
  BY <1>2, <1>3, <1>5, <1>9, <1>10, <1>11, <1>12, <1>13 DEF Next

\* Every step keeps the types.
LEMMA TypeStep ==
    ASSUME TypeOK, RepairOK, [Next]_vars
    PROVE  TypeOK'
<1>1. CASE UNCHANGED vars
  BY <1>1 DEF vars, TypeOK
<1>2. CASE \E p \in Procs \ {"scanner"} :
             SyncWrite(p) \/ SyncFails(p) \/ Claim(p) \/ Purge(p)
  BY <1>2, SyncType, ClaimType
<1> QED
  BY <1>1, <1>2, ReadsType, ClaimType, OwnerType, BlindType, OtherType
     DEF Next

\* The rows the insert paths leave behind have their types.
LEMMA TypeInit == Init => TypeOK /\ RepairOK
<1> SUFFICES ASSUME Init
             PROVE  TypeOK /\ RepairOK
  OBVIOUS
<1>1. listing \in Listing
  BY LifecycleAssumption DEF Init
<1>2. 0 \in 0 .. MaxRequests /\ 0 \in 0 .. MaxFaults
  BY LifecycleAssumption
<1> QED
  BY <1>1, <1>2 DEF Init, TypeOK, RepairOK, OptTime, Steps, Tasks

\* Type correctness of the row, of the clock and of what every process keeps
\* between two requests, whichever of the three processes run, for any bound
\* on requests and faults and any set of inserted rows.
THEOREM TypeCorrect == Spec => []TypeOK
<1>1. TypeOK /\ RepairOK /\ [Next]_vars => TypeOK' /\ RepairOK'
  BY TypeStep, RepairStep
<1> QED
  BY <1>1, TypeInit, PTL DEF Spec

-----------------------------------------------------------------------------
(***************************************************************************)
(* The sync and the expiry.                                                *)
(***************************************************************************)

\* A repair always moves the expiry forward: this is why a sync that writes
\* nothing has repaired nothing.
LEMMA RepairMovesExpiry ==
    ASSUME NEW s \in Listing, NEW t \in Nat, NeedsRepair(s, t)
    PROVE  /\ Repaired(s, t).expiresAt \in Nat
           /\ s.expiresAt # Null => Repaired(s, t).expiresAt > s.expiresAt
           /\ s.extendedAt # Null => Repaired(s, t).expiresAt >= s.extendedAt
<1> DEFINE q == RepairStaleRenewal(s, t)
<1>1. q \in Listing /\ s \in Listing
  BY RepairStaleType
<1>2. s.expiresAt \in OptTime /\ s.extendedAt \in OptTime
  BY DEF Listing
<1>3. Expiry \in Nat /\ Expiry > 0
  BY RulesAssumption
<1>4. q.extendedAt = s.extendedAt
  BY <1>1 DEF RepairStaleRenewal, Reopened, Listing
<1>5. ASSUME StaleRenewal(s, t)
      PROVE  /\ q.expiresAt \in Nat
             /\ s.expiresAt # Null => q.expiresAt > s.expiresAt
             /\ s.extendedAt # Null => q.expiresAt >= s.extendedAt
  <2> DEFINE x == ExpiryOrDefault(s, t)
             y == RenewalAt(s)
             e == Later(x, y) + Expiry
  <2>1. x \in Nat /\ (s.expiresAt # Null => x = s.expiresAt)
    BY ExpiryOrDefaultType DEF ExpiryOrDefault
  <2>2. y \in Nat
    BY <1>5, RenewalAtType, SetTime DEF StaleRenewal
  <2>3. s.extendedAt # Null => y >= s.extendedAt
    <3> SUFFICES ASSUME s.extendedAt # Null
                 PROVE  y >= s.extendedAt
      OBVIOUS
    <3>1. s.extendedAt \in Nat
      BY <1>2, SetTime
    <3>2. CASE s.soldSetAt = Null
      <4>1. y = s.extendedAt
        BY <3>2 DEF RenewalAt
      <4> QED
        BY <3>1, <4>1
    <3>3. CASE s.soldSetAt # Null
      <4>1. s.soldSetAt \in Nat
        BY <3>3, SetTime DEF Listing
      <4>2. y = Later(s.extendedAt, s.soldSetAt)
        BY <3>3 DEF RenewalAt
      <4> QED
        BY <3>1, <4>1, <4>2, LaterType
    <3> QED
      BY <3>2, <3>3
  <2>4. q.expiresAt = e
    BY <1>5 DEF RepairStaleRenewal, Reopened, Listing
  <2>5. Later(x, y) \in Nat /\ Later(x, y) >= x /\ Later(x, y) >= y
    BY <2>1, <2>2, LaterType
  <2> HIDE DEF x, y, q
  <2> QED
    BY <1>2, <1>3, <2>1, <2>2, <2>3, <2>4, <2>5, SetTime
<1>6. CASE ExtendedPastExpiry(q)
  <2>1. Repaired(s, t).expiresAt = q.extendedAt + Expiry
    BY <1>1, <1>6 DEF Repaired, RepairExtension, Reopened, Listing
  <2>2. /\ q.extendedAt \in Nat /\ q.expiresAt \in Nat
        /\ q.extendedAt > q.expiresAt
    BY <1>1, <1>6, SetTime DEF ExtendedPastExpiry, Listing
  <2>3. s.expiresAt # Null => q.expiresAt >= s.expiresAt
    <3>1. CASE StaleRenewal(s, t)
      BY <1>2, <1>5, <3>1, SetTime
    <3>2. CASE ~StaleRenewal(s, t)
      BY <1>2, <3>2, SetTime DEF RepairStaleRenewal
    <3> QED
      BY <3>1, <3>2
  <2> HIDE DEF q
  <2> QED
    BY <1>2, <1>3, <1>4, <2>1, <2>2, <2>3, SetTime
<1>7. CASE ~ExtendedPastExpiry(q)
  <2>1. Repaired(s, t) = q
    BY <1>7 DEF Repaired, RepairExtension
  <2>2. StaleRenewal(s, t)
    BY <1>7 DEF NeedsRepair, RepairStaleRenewal
  <2> QED
    BY <1>5, <2>1, <2>2
<1> QED
  BY <1>6, <1>7

\* What the PATCH does to the columns this section is about.
LEMMA SyncPatchColumns ==
    ASSUME NEW row \in Listing, NEW s \in Listing, NEW t \in Nat
    PROVE  /\ SyncPatch(row, s, t).extendedAt = row.extendedAt
           /\ NeedsRepair(s, t)
                => SyncPatch(row, s, t).expiresAt = Repaired(s, t).expiresAt
           /\ ~NeedsRepair(s, t)
                => SyncPatch(row, s, t).expiresAt =
                     IF s.expiresAt = Null THEN Lifecycle(s, t).expiresAt
                     ELSE row.expiresAt
<1> DEFINE r == Repaired(s, t)
           x == IF NeedsRepair(s, t) THEN r.expiresAt
                ELSE IF r.expiresAt = Null THEN Lifecycle(r, t).expiresAt
                ELSE row.expiresAt
<1>1. /\ SyncPatch(row, s, t).expiresAt = x
      /\ SyncPatch(row, s, t).extendedAt = row.extendedAt
  BY DEF SyncPatch, Listing
<1>2. ~NeedsRepair(s, t) => r = s
  BY DEF NeedsRepair, Repaired, RepairStaleRenewal, RepairExtension
<1> QED
  BY <1>1, <1>2

\* A sync that would leave its own record alone leaves the expiry of any row
\* alone: this is what makes a stale but idle sync harmless.
LEMMA IdleSync ==
    ASSUME NEW row \in Listing, NEW s \in Listing, NEW t \in Nat,
           SyncPatch(s, s, t) = s
    PROVE  SyncPatch(row, s, t).expiresAt = row.expiresAt
<1>1. s.expiresAt \in OptTime
  BY DEF Listing
<1>2. ~NeedsRepair(s, t)
  <2> SUFFICES ASSUME NeedsRepair(s, t) PROVE FALSE
    OBVIOUS
  <2>1. s.expiresAt = Repaired(s, t).expiresAt
    BY SyncPatchColumns
  <2> QED
    BY <1>1, <2>1, RepairMovesExpiry, SetTime, RulesAssumption
<1>3. s.expiresAt # Null
  <2>1. Lifecycle(s, t).expiresAt # Null
    BY LifecycleType, RulesAssumption
  <2> QED
    BY <1>2, <2>1, SyncPatchColumns
<1> QED
  BY <1>2, <1>3, SyncPatchColumns

-----------------------------------------------------------------------------
(***************************************************************************)
(* An extension never outruns the expiry.                                  *)
(***************************************************************************)

\* The client is between its renewal PATCH and the last reload.
Verifying == "client" \in Procs /\ pc["client"] \in {"reload", "repair",
                                                     "refetch"}

\* Extensions are never in the future, and come with an expiry.
ExtensionPast ==
    listing.extendedAt # Null
        => /\ listing.extendedAt <= now
           /\ listing.expiresAt # Null

\* While the client verifies a renewal nobody else extends the row, and the
\* row it would repair shows its own renewal.
RenewalInHand ==
    Verifying =>
        /\ renewedAt \in Nat
        /\ renewedAt <= now
        /\ present => listing.extendedAt = renewedAt
        /\ pc["client"] = "repair" => base["client"].extendedAt = renewedAt

ExtensionInv ==
    /\ TypeOK
    /\ RepairOK
    /\ ExtensionPast
    /\ RenewalInHand
    /\ ExtensionWithinExpiry

\* A step that leaves both dates of the row alone.
Quiet ==
    /\ listing'.extendedAt = listing.extendedAt
    /\ listing'.expiresAt = listing.expiresAt
    /\ now' >= now
    /\ present' /\ Clean' => present /\ Clean

\* A quiet step keeps what the invariant says of the dates.
LEMMA QuietDates ==
    ASSUME ExtensionInv, TypeOK', Quiet
    PROVE  ExtensionPast' /\ ExtensionWithinExpiry'
<1>1. ExtensionPast'
  <2>1. /\ now \in Nat /\ now' \in Nat
        /\ listing.extendedAt # Null => listing.extendedAt \in Nat
    BY SetTime DEF ExtensionInv, TypeOK, Listing
  <2> QED
    BY <2>1 DEF ExtensionInv, ExtensionPast, Quiet
<1>2. ExtensionWithinExpiry'
  BY DEF ExtensionInv, ExtensionWithinExpiry, Quiet
<1> QED
  BY <1>1, <1>2

\* Which steps are quiet.
LEMMA QuietSteps ==
    ASSUME TypeOK,
           \/ UNCHANGED vars
           \/ SweepRead \/ ViewRead \/ ScannerRead \/ ScannerClaim
           \/ \E p \in Procs : \/ SyncFails(p) \/ Claim(p) \/ Purge(p)
                               \/ Crash(p)
           \/ ExtendRequest \/ OutcomeRequest \/ AdminRenewRequest
           \/ Reload \/ SoldWrite \/ RequestFails
           \/ ApproveOnly \/ Reject \/ Delete \/ AdminSold
           \/ HardDelete \/ Tick
           \/ (RenewWrite \/ DraftWrite \/ RepairRenewed) /\ ~present
    PROVE  Quiet
<1> USE DEF TypeOK, Quiet, Clean
<1>1. listing \in Listing /\ now \in Nat
  OBVIOUS
<1>2. CASE UNCHANGED vars
  BY <1>1, <1>2 DEF vars
<1>3. CASE \/ SweepRead \/ ViewRead \/ ScannerRead
           \/ ExtendRequest \/ OutcomeRequest \/ AdminRenewRequest
  BY <1>1, <1>3 DEF SweepRead, ViewRead, ScannerRead, ExtendRequest,
                    OutcomeRequest, AdminRenewRequest, Fetch
<1>4. CASE ScannerClaim
  <2>1. /\ listing'.extendedAt = listing.extendedAt
        /\ listing'.expiresAt = listing.expiresAt
    BY <1>1, <1>4 DEF ScannerClaim, Listing
  <2>2. UNCHANGED <<now, present, custom, raced>>
    BY <1>4 DEF ScannerClaim
  <2> QED
    BY <1>1, <2>1, <2>2
<1>5. ASSUME NEW p \in Procs, SyncFails(p) \/ Purge(p) \/ Crash(p)
      PROVE  Quiet
  BY <1>1, <1>5 DEF SyncFails, Purge, Crash
<1>6. ASSUME NEW p \in Procs, Claim(p)
      PROVE  Quiet
  <2>1. /\ listing'.extendedAt = listing.extendedAt
        /\ listing'.expiresAt = listing.expiresAt
    BY <1>1, <1>6 DEF Claim, Listing
  <2>2. UNCHANGED <<now, present, custom, raced>>
    BY <1>6 DEF Claim
  <2> QED
    BY <1>1, <2>1, <2>2
<1>7. CASE Reload \/ RequestFails \/ HardDelete
  BY <1>1, <1>7 DEF Reload, RequestFails, HardDelete
<1>8. CASE Tick
  BY <1>1, <1>8 DEF Tick
<1>9. CASE SoldWrite
  <2>1. /\ listing'.extendedAt = listing.extendedAt
        /\ listing'.expiresAt = listing.expiresAt
    BY <1>1, <1>9 DEF SoldWrite, Write, MarkedSold, Listing
  <2>2. UNCHANGED <<now, present, custom, raced>>
    BY <1>9 DEF SoldWrite, Write
  <2> QED
    BY <1>1, <2>1, <2>2
<1>10. CASE ApproveOnly \/ Reject \/ Delete \/ AdminSold
  <2>1. /\ listing'.extendedAt = listing.extendedAt
        /\ listing'.expiresAt = listing.expiresAt
    BY <1>1, <1>10 DEF ApproveOnly, Reject, Delete, AdminSold, BlindWrite,
                       MarkedSold, Listing
  <2>2. UNCHANGED <<now, present, custom, raced>>
    BY <1>10 DEF ApproveOnly, Reject, Delete, AdminSold, BlindWrite,
                 SameCycle
  <2> QED
    BY <1>1, <2>1, <2>2
<1>11. CASE (RenewWrite \/ DraftWrite \/ RepairRenewed) /\ ~present
  BY <1>11 DEF RenewWrite, DraftWrite, RepairRenewed, Write
<1> QED
  BY <1>2, <1>3, <1>4, <1>5, <1>6, <1>7, <1>8, <1>9, <1>10, <1>11

\* The writes that move the dates.
LEMMA DateSteps ==
    ASSUME ExtensionInv, TypeOK', present,
           \/ \E p \in Procs : SyncWrite(p)
           \/ RenewWrite \/ DraftWrite \/ RepairRenewed
           \/ Approve \/ SetExpiry
    PROVE  ExtensionPast' /\ ExtensionWithinExpiry'
<1>1. /\ listing \in Listing /\ now \in Nat /\ listing.extendedAt \in OptTime
      /\ listing.expiresAt \in OptTime
  BY DEF ExtensionInv, TypeOK, Listing
<1>2. CASE RenewWrite \/ DraftWrite
  <2> DEFINE x == Lifecycle(base["client"], now).expiresAt
  <2>1. x \in Nat /\ Later(x, now) \in Nat /\ Later(x, now) >= now
    BY <1>1, <1>2, BaseType, LaterType
       DEF RenewWrite, DraftWrite, ExtensionInv
  <2> HIDE DEF x
  <2>2. \/ listing' = Renewed(listing, x, now)
        \/ listing' = MovedToDraft(listing, x, now)
    BY <1>2 DEF RenewWrite, DraftWrite, Write, x
  <2>3. /\ listing'.extendedAt = now
        /\ listing'.expiresAt = Later(x, now) + Expiry
    BY <1>1, <2>2 DEF Renewed, MovedToDraft, FreshCycle, Listing
  <2>4. now' = now
    BY <1>2 DEF RenewWrite, DraftWrite
  <2> QED
    BY <1>1, <2>1, <2>3, <2>4, RulesAssumption
       DEF ExtensionPast, ExtensionWithinExpiry
<1>3. CASE RepairRenewed
  <2> DEFINE r == base["client"]
             x == ExpiryOrDefault(r, now)
             y == RenewalAt(r)
  <2>1. r \in Listing /\ r.extendedAt = renewedAt /\ renewedAt \in Nat
                      /\ renewedAt <= now /\ y # Null
    BY <1>3, BaseType
       DEF RepairRenewed, ExtensionInv, RenewalInHand, Verifying, RepairOK
  <2>2. x \in Nat /\ y \in Nat
    BY <1>1, <2>1, ExpiryOrDefaultType, RenewalAtType, SetTime
  <2>3. y >= renewedAt
    <3>1. CASE r.soldSetAt = Null
      <4>1. y = renewedAt
        BY <2>1, <3>1, RulesAssumption DEF RenewalAt
      <4> QED
        BY <2>1, <4>1
    <3>2. CASE r.soldSetAt # Null
      <4>1. r.soldSetAt \in Nat
        BY <2>1, <3>2, SetTime DEF Listing
      <4>2. y = Later(renewedAt, r.soldSetAt)
        BY <2>1, <3>2, RulesAssumption DEF RenewalAt
      <4> QED
        BY <2>1, <4>1, <4>2, LaterType
    <3> QED
      BY <3>1, <3>2
  <2>4. Later(x, y) \in Nat /\ Later(x, y) >= y
    BY <2>2, LaterType
  <2>5. /\ listing'.extendedAt = renewedAt
        /\ listing'.expiresAt = Later(x, y) + Expiry
        /\ now' = now
    BY <1>1, <1>3 DEF RepairRenewed, Write, Reopened, Listing
  <2> HIDE DEF x, y, r
  <2> QED
    BY <1>1, <2>1, <2>2, <2>3, <2>4, <2>5, RulesAssumption
       DEF ExtensionPast, ExtensionWithinExpiry
<1>4. CASE Approve
  <2>1. /\ listing'.extendedAt = listing.extendedAt
        /\ listing'.expiresAt = now + Expiry
        /\ now' = now
    BY <1>1, <1>4 DEF Approve, BlindWrite, Approved, FreshCycle, Listing
  <2>2. /\ listing.extendedAt # Null => /\ listing.extendedAt <= now
                                        /\ listing.extendedAt \in Nat
        /\ now + Expiry # Null
    BY <1>1, SetTime, RulesAssumption DEF ExtensionInv, ExtensionPast
  <2> QED
    BY <1>1, <2>1, <2>2, RulesAssumption
       DEF ExtensionPast, ExtensionWithinExpiry
<1>5. CASE SetExpiry
  <2>1. PICK days \in CustomDays :
          BlindWrite(WithExpiry(listing, now + days),
                     custom' = TRUE /\ UNCHANGED raced)
    BY <1>5 DEF SetExpiry
  <2>2. now + days \in Nat /\ now + days # Null
    BY <1>1, <2>1, RulesAssumption, LifecycleAssumption
  <2>3. /\ listing'.extendedAt = listing.extendedAt
        /\ listing'.expiresAt = now + days
        /\ now' = now
    BY <1>1, <2>1 DEF BlindWrite, WithExpiry, Listing
  <2>4. ~Clean'
    BY <2>1 DEF BlindWrite, Clean
  <2> QED
    BY <2>2, <2>3, <2>4
       DEF ExtensionPast, ExtensionWithinExpiry, ExtensionInv
<1>6. ASSUME NEW p \in Procs, SyncWrite(p)
      PROVE  ExtensionPast' /\ ExtensionWithinExpiry'
  <2> DEFINE s == Seen(p, base[p])
             q == SyncPatch(listing, s, now)
  <2>1. pc[p] # "idle"
    BY <1>6 DEF SyncWrite
  <2>2. base[p] \in Listing /\ s \in Listing
    BY <2>1, BaseType DEF ExtensionInv
  <2>3. /\ listing' = q /\ now' = now /\ custom' = custom
        /\ raced' = (raced \/ (~Fresh(p) /\ SyncPatch(s, s, now) # s))
    BY <1>6 DEF SyncWrite, Write
  <2>4. /\ s.expiresAt = base[p].expiresAt
        /\ s.extendedAt \in {base[p].extendedAt, Null}
    BY <2>2 DEF Seen, SweepColumns, RejectedAsDraft, Listing
  <2>5. q.extendedAt = listing.extendedAt
    BY <1>1, <2>2, SyncPatchColumns
  <2>6. q.expiresAt # Null \/ q.expiresAt = listing.expiresAt
    <3>1. CASE NeedsRepair(s, now)
      BY <1>1, <2>2, <3>1, SyncPatchColumns, RepairMovesExpiry,
         RulesAssumption
    <3>2. CASE ~NeedsRepair(s, now)
      <4>1. Lifecycle(s, now).expiresAt # Null
        BY <1>1, <2>2, LifecycleType, RulesAssumption
      <4> QED
        BY <1>1, <2>2, <3>2, <4>1, SyncPatchColumns
    <3> QED
      BY <3>1, <3>2
  <2>7. ExtensionPast'
    BY <2>3, <2>5, <2>6 DEF ExtensionInv, ExtensionPast
  <2>8. ASSUME Clean', listing.extendedAt # Null
        PROVE  listing.extendedAt <= q.expiresAt
    <3>1. Clean /\ (Fresh(p) \/ SyncPatch(s, s, now) = s)
      BY <2>3, <2>8 DEF Clean
    <3>2. /\ listing.extendedAt \in Nat /\ listing.expiresAt \in Nat
          /\ listing.extendedAt <= listing.expiresAt
      BY <1>1, <2>8, <3>1, SetTime
         DEF ExtensionInv, ExtensionPast, ExtensionWithinExpiry
    <3>3. CASE SyncPatch(s, s, now) = s
      BY <1>1, <2>2, <3>2, <3>3, IdleSync
    <3>4. CASE Fresh(p)
      <4>1. s.expiresAt = listing.expiresAt
        BY <2>4, <3>4 DEF Fresh
      <4>2. s.expiresAt # Null
        BY <3>2, <4>1, RulesAssumption
      <4>3. CASE NeedsRepair(s, now)
        <5>1. /\ Repaired(s, now).expiresAt \in Nat
              /\ Repaired(s, now).expiresAt > s.expiresAt
          BY <1>1, <2>2, <4>2, <4>3, RepairMovesExpiry
        <5>2. q.expiresAt = Repaired(s, now).expiresAt
          BY <1>1, <2>2, <4>3, SyncPatchColumns
        <5> QED
          BY <3>2, <4>1, <5>1, <5>2
      <4>4. CASE ~NeedsRepair(s, now)
        BY <1>1, <2>2, <3>2, <4>2, <4>4, SyncPatchColumns
      <4> QED
        BY <4>3, <4>4
    <3> QED
      BY <3>1, <3>3, <3>4
  <2>9. ExtensionWithinExpiry'
    <3> HIDE DEF q
    <3> QED
      BY <2>3, <2>5, <2>8 DEF ExtensionWithinExpiry
  <2> QED
    BY <2>7, <2>9
<1> QED
  BY <1>2, <1>3, <1>4, <1>5, <1>6

\* Nobody but the client extends the row while it verifies its renewal.
LEMMA RenewalInHandStep ==
    ASSUME ExtensionInv, TypeOK', [Next]_vars
    PROVE  RenewalInHand'
<1> DEFINE c == "client"
<1> SUFFICES ASSUME Verifying'
             PROVE  /\ renewedAt' \in Nat
                    /\ renewedAt' <= now'
                    /\ present' => listing'.extendedAt = renewedAt'
                    /\ pc'[c] = "repair" => base'[c].extendedAt = renewedAt'
  BY DEF RenewalInHand
<1>1. /\ c \in Procs /\ listing \in Listing /\ now \in Nat
      /\ pc \in [Procs -> Steps] /\ base \in [Procs -> Listing \cup {Null}]
  BY DEF Verifying, ExtensionInv, TypeOK
<1>2. ASSUME pc'[c] = pc[c], base'[c] = base[c], renewedAt' = renewedAt,
             now' \in Nat, now' >= now, present' => present,
             present' => listing'.extendedAt = listing.extendedAt
      PROVE  /\ renewedAt' \in Nat
             /\ renewedAt' <= now'
             /\ present' => listing'.extendedAt = renewedAt'
             /\ pc'[c] = "repair" => base'[c].extendedAt = renewedAt'
  BY <1>1, <1>2 DEF ExtensionInv, RenewalInHand, Verifying
<1>3. CASE \/ UNCHANGED vars \/ HardDelete
           \/ Approve \/ ApproveOnly \/ Reject \/ Delete \/ AdminSold
           \/ SetExpiry
  <2>1. listing'.extendedAt = listing.extendedAt
    BY <1>1, <1>3
       DEF vars, HardDelete, Approve, ApproveOnly, Reject, Delete, AdminSold,
           SetExpiry, BlindWrite, Approved, FreshCycle, MarkedSold,
           WithExpiry, Listing
  <2>2. UNCHANGED <<pc, base, renewedAt, now>> /\ (present' => present)
    BY <1>3 DEF vars, HardDelete, Approve, ApproveOnly, Reject, Delete,
                AdminSold, SetExpiry, BlindWrite
  <2> QED
    BY <1>1, <1>2, <2>1, <2>2
<1>4. CASE Tick
  BY <1>1, <1>2, <1>4 DEF Tick
<1>5. ASSUME NEW p \in Procs, NEW job, NEW step, Fetch(p, job, step),
             step \notin {"reload", "repair", "refetch"}
      PROVE  /\ UNCHANGED <<listing, present, now, renewedAt>>
             /\ pc'[c] = pc[c] /\ base'[c] = base[c]
  BY <1>1, <1>5 DEF Fetch, Verifying
<1>6. CASE \/ SweepRead \/ ViewRead \/ ScannerRead
           \/ ExtendRequest \/ OutcomeRequest \/ AdminRenewRequest
  BY <1>1, <1>2, <1>5, <1>6
     DEF SweepRead, ViewRead, ScannerRead, ExtendRequest, OutcomeRequest,
         AdminRenewRequest, Fetch
<1>7. ASSUME NEW p \in Procs,
             \/ Return(p)
             \/ \E row : \/ Goto(p, "claim", row) \/ Goto(p, "purge", row)
                         \/ Goto(p, "renew", row)
      PROVE  p # c /\ pc'[c] = pc[c] /\ base'[c] = base[c]
  BY <1>1, <1>7 DEF Return, Goto, Verifying
<1>8. ASSUME NEW p \in Procs, SyncWrite(p)
      PROVE  RenewalInHand'
  <2> DEFINE s == Seen(p, base[p])
  <2>1. \/ Return(p)
        \/ \E row : \/ Goto(p, "claim", row) \/ Goto(p, "purge", row)
                    \/ Goto(p, "renew", row)
    BY <1>8 DEF SyncWrite, MailOrFinish, AfterSync
  <2>2. s \in Listing
    BY <1>8, BaseType DEF SyncWrite, ExtensionInv
  <2>3. listing'.extendedAt = listing.extendedAt
    BY <1>1, <1>8, <2>2, SyncPatchColumns DEF SyncWrite, Write
  <2>4. UNCHANGED <<now, present>>
    BY <1>8 DEF SyncWrite, Write
  <2>5. p # c /\ pc'[c] = pc[c] /\ base'[c] = base[c]
    BY <1>7, <2>1
  <2>6. renewedAt' = renewedAt
    BY <1>8, <2>5 DEF SyncWrite
  <2> QED
    BY <1>1, <1>2, <2>3, <2>4, <2>5, <2>6 DEF RenewalInHand
<1>9. ASSUME NEW p \in Procs,
             SyncFails(p) \/ Claim(p) \/ Purge(p) \/ Crash(p)
      PROVE  RenewalInHand'
  <2>1. \/ Return(p)
        \/ \E row : \/ Goto(p, "claim", row) \/ Goto(p, "purge", row)
                    \/ Goto(p, "renew", row)
    BY <1>9 DEF SyncFails, Claim, Purge, Crash, MailOrFinish, AfterSync
  <2>2. p # c /\ pc'[c] = pc[c] /\ base'[c] = base[c]
    BY <1>7, <2>1
  <2>3. listing'.extendedAt = listing.extendedAt
    BY <1>1, <1>9 DEF SyncFails, Claim, Purge, Crash, Listing
  <2>4. now' = now /\ renewedAt' = renewedAt /\ (present' => present)
    BY <1>9, <2>2 DEF SyncFails, Claim, Purge, Crash
  <2> QED
    BY <1>1, <1>2, <2>2, <2>3, <2>4 DEF RenewalInHand
<1>10. CASE ScannerClaim
  <2>1. pc'[c] = pc[c] /\ base'[c] = base[c]
    BY <1>7, <1>10 DEF ScannerClaim
  <2>2. listing'.extendedAt = listing.extendedAt
    BY <1>1, <1>10 DEF ScannerClaim, Listing
  <2>3. UNCHANGED <<now, present, renewedAt>>
    BY <1>10 DEF ScannerClaim
  <2> QED
    BY <1>1, <1>2, <2>1, <2>2, <2>3
<1>11. CASE DraftWrite \/ SoldWrite \/ RequestFails
  BY <1>7, <1>11 DEF DraftWrite, SoldWrite, RequestFails
<1>12. CASE RenewWrite
  <2>1. renewedAt' = now /\ now' = now /\ pc'[c] = "reload"
    BY <1>1, <1>12 DEF RenewWrite
  <2>2. present' => listing'.extendedAt = now
    <3>1. \A e : Renewed(listing, e, now).extendedAt = now
      BY <1>1 DEF Renewed, FreshCycle, Listing
    <3> QED
      BY <1>12, <3>1 DEF RenewWrite, Write
  <2> QED
    BY <1>1, <2>1, <2>2
<1>13. CASE Reload
  <2>1. Verifying /\ UNCHANGED <<listing, present, now>>
    BY <1>13 DEF Reload, Verifying
  <2>2. /\ present /\ renewedAt' = renewedAt
        /\ base'[c] = listing
    BY <1>1, <1>13 DEF Reload, Return, Goto, Verifying
  <2> QED
    BY <1>1, <2>1, <2>2 DEF ExtensionInv, RenewalInHand
<1>14. CASE RepairRenewed
  <2>1. Verifying /\ pc'[c] = "refetch"
        /\ UNCHANGED <<now, renewedAt, present>>
    BY <1>1, <1>14 DEF RepairRenewed, Verifying, Goto, Write
  <2>2. present => listing'.extendedAt = renewedAt
    BY <1>1, <1>14 DEF RepairRenewed, Write, Reopened, Listing
  <2> QED
    BY <1>1, <2>1, <2>2 DEF ExtensionInv, RenewalInHand
<1> QED
  <2> USE DEF RenewalInHand
  <2> QED
    BY <1>3, <1>4, <1>6, <1>8, <1>9, <1>10, <1>11, <1>12, <1>13, <1>14
       DEF Next

\* Every step keeps the invariant.
LEMMA ExtensionStep ==
    ASSUME ExtensionInv, [Next]_vars
    PROVE  ExtensionInv'
<1>1. TypeOK' /\ RepairOK'
  BY TypeStep, RepairStep DEF ExtensionInv
<1>2. RenewalInHand'
  BY <1>1, RenewalInHandStep
<1>3. ExtensionPast' /\ ExtensionWithinExpiry'
  <2>1. CASE Quiet
    BY <1>1, <2>1, QuietDates
  <2>2. CASE /\ present
             /\ \/ \E p \in Procs : SyncWrite(p)
                \/ RenewWrite \/ DraftWrite \/ RepairRenewed
                \/ Approve \/ SetExpiry
    BY <1>1, <2>2, DateSteps
  <2>3. CASE ~present /\ \E p \in Procs : SyncWrite(p)
    <3>1. Quiet
      BY <2>3 DEF SyncWrite, Write, Quiet, ExtensionInv, TypeOK
    <3> QED
      BY <2>1, <3>1
  <2>4. (Approve \/ SetExpiry) => present
    BY DEF Approve, SetExpiry, BlindWrite
  <2>5. TypeOK
    BY DEF ExtensionInv
  <2> QED
    BY <2>1, <2>2, <2>3, <2>4, <2>5, QuietSteps DEF Next
<1> QED
  BY <1>1, <1>2, <1>3 DEF ExtensionInv

\* Inserted rows were never extended.
LEMMA ExtensionInit == Init => ExtensionInv
<1> SUFFICES ASSUME Init
             PROVE  ExtensionInv
  OBVIOUS
<1>1. listing.extendedAt = Null
  BY LifecycleAssumption DEF Init, Inserted
<1>2. ~Verifying
  BY DEF Init, Verifying
<1> QED
  BY <1>1, <1>2, TypeInit
     DEF ExtensionInv, ExtensionPast, RenewalInHand, ExtensionWithinExpiry

\* In every interleaving of the owner's and the admin's requests with the
\* sweep and the scanner, with any number of failed writes and crashes, an
\* extension never outruns the expiry in a clean lifecycle: the second repair
\* of _sync_listing_lifecycle, the one that would also reopen a sold row, has
\* nothing to do there.
THEOREM ExtensionBounded == Spec => []ExtensionWithinExpiry
<1>1. ExtensionInv => ExtensionWithinExpiry
  BY DEF ExtensionInv
<1> QED
  BY <1>1, ExtensionInit, ExtensionStep, PTL DEF Spec

-----------------------------------------------------------------------------
(***************************************************************************)
(* A sold listing stays sold.                                              *)
(***************************************************************************)

\* Only p's own sync, its failure or a crash takes p past its sync.
LEMMA SyncSteps ==
    ASSUME TypeOK, [Next]_vars, NEW p \in Procs, StepOf(p, "sync")
    PROVE  SyncWrite(p) \/ SyncFails(p) \/ Crash(p)
<1>1. pc[p] = "sync" /\ pc'[p] # "sync" /\ pc \in [Procs -> Steps]
  BY DEF StepOf, TypeOK
<1>2. ASSUME NEW q \in Procs, q # p,
             \/ Return(q)
             \/ \E step, row : Goto(q, step, row)
             \/ \E job, step : Fetch(q, job, step)
      PROVE  FALSE
  BY <1>1, <1>2 DEF Return, Goto, Fetch
<1>3. CASE \/ UNCHANGED vars \/ HardDelete \/ Tick
           \/ Approve \/ ApproveOnly \/ Reject \/ Delete \/ AdminSold
           \/ SetExpiry
  BY <1>1, <1>3 DEF vars, HardDelete, Tick, Approve, ApproveOnly, Reject,
                    Delete, AdminSold, SetExpiry, BlindWrite
<1>4. CASE \/ SweepRead \/ ViewRead \/ ScannerRead
           \/ ExtendRequest \/ OutcomeRequest \/ AdminRenewRequest
  BY <1>1, <1>2, <1>4
     DEF SweepRead, ViewRead, ScannerRead, ExtendRequest, OutcomeRequest,
         AdminRenewRequest, Fetch
<1>5. CASE \/ ScannerClaim \/ Reload \/ RepairRenewed \/ DraftWrite
           \/ SoldWrite \/ RequestFails
  <2>1. PICK q \in Procs : /\ pc[q] # "sync"
                           /\ \/ Return(q)
                              \/ \E step, row : Goto(q, step, row)
    BY <1>5 DEF ScannerClaim, Reload, RepairRenewed, DraftWrite, SoldWrite,
                RequestFails
  <2> QED
    BY <1>1, <1>2, <2>1
<1>6. CASE RenewWrite
  BY <1>1, <1>6 DEF RenewWrite
<1>7. ASSUME NEW q \in Procs,
             SyncWrite(q) \/ SyncFails(q) \/ Claim(q) \/ Purge(q) \/ Crash(q)
      PROVE  SyncWrite(p) \/ SyncFails(p) \/ Crash(p)
  <2>1. \/ Return(q)
        \/ \E step, row : Goto(q, step, row)
    BY <1>7 DEF SyncWrite, SyncFails, Claim, Purge, Crash, MailOrFinish,
                AfterSync
  <2>2. q = p
    BY <1>2, <2>1
  <2> QED
    BY <1>1, <1>7, <2>2 DEF Claim, Purge
<1> QED
  BY <1>3, <1>4, <1>5, <1>6, <1>7 DEF Next

\* A record that is sold and whose extension is within its expiry needs no
\* repair and is not removed, so its status is not written.
LEMMA SoldPatch ==
    ASSUME NEW row \in Listing, NEW s \in Listing, NEW t \in Nat,
           s.status = "sold", ~ExtendedPastExpiry(s)
    PROVE  SyncPatch(row, s, t).status = row.status
<1>1. ~StaleRenewal(s, t)
  BY DEF StaleRenewal, TerminalStatuses
<1>2. Repaired(s, t) = s
  BY <1>1 DEF Repaired, RepairStaleRenewal, RepairExtension
<1>3. ~Unanswered(s, t)
  BY DEF Unanswered, TerminalStatuses
<1>4. SyncPatch(row, s, t).status =
        IF Unanswered(Repaired(s, t), t) THEN "deleted"
        ELSE IF Repaired(s, t).status # s.status \/ StaleRenewal(s, t)
        THEN Repaired(s, t).status ELSE row.status
  BY DEF SyncPatch, Listing
<1> QED
  BY <1>1, <1>2, <1>3, <1>4

\* No sync reopens a sold listing in a clean lifecycle when it read the row
\* as it is, although both repairs write status "approved" and the second one
\* does not exclude sold rows: that the extension lies within the expiry is
\* what saves it.
THEOREM SoldKept == Spec => SoldStaysSold
<1> DEFINE Kept(p) == StepOf(p, "sync") /\ Clean /\ Fresh(p)
                        /\ listing.status = "sold"
                          => listing'.status = "sold"
<1>1. ASSUME ExtensionInv, [Next]_vars, NEW p \in Procs
      PROVE  Kept(p)
  <2> SUFFICES ASSUME StepOf(p, "sync"), Clean, Fresh(p),
                      listing.status = "sold"
               PROVE  listing'.status = "sold"
    OBVIOUS
  <2>1. TypeOK /\ listing \in Listing /\ now \in Nat
    BY <1>1 DEF ExtensionInv, TypeOK
  <2>2. CASE SyncWrite(p)
    <3> DEFINE s == Seen(p, base[p])
    <3>1. base[p] = listing /\ present
      BY DEF Fresh
    <3>2. s \in Listing
      BY <2>1, <3>1, SeenType
    <3>3. /\ s.expiresAt = listing.expiresAt
          /\ s.extendedAt \in {listing.extendedAt, Null}
          /\ s.status = "sold"
      BY <2>1, <3>1 DEF Seen, SweepColumns, RejectedAsDraft, Listing
    <3>4. ~ExtendedPastExpiry(s)
      <4>1. CASE s.extendedAt = Null \/ s.expiresAt = Null
        BY <4>1 DEF ExtendedPastExpiry
      <4>2. CASE s.extendedAt # Null /\ s.expiresAt # Null
        <5>1. s.extendedAt \in Nat /\ s.expiresAt \in Nat
          BY <3>2, <4>2, SetTime DEF Listing
        <5>2. s.extendedAt <= s.expiresAt
          BY <1>1, <3>1, <3>3, <4>2 DEF ExtensionInv, ExtensionWithinExpiry
        <5> QED
          BY <5>1, <5>2 DEF ExtendedPastExpiry
      <4> QED
        BY <4>1, <4>2
    <3>5. listing' = SyncPatch(listing, s, now)
      BY <2>2, <3>1 DEF SyncWrite, Write
    <3> HIDE DEF s
    <3> QED
      BY <2>1, <3>2, <3>3, <3>4, <3>5, SoldPatch
  <2>3. CASE SyncFails(p) \/ Crash(p)
    BY <2>3 DEF SyncFails, Crash
  <2> QED
    BY <1>1, <2>1, <2>2, <2>3, SyncSteps
<1>2. ExtensionInv /\ [Next]_vars => [\A p \in Procs : Kept(p)]_vars
  BY <1>1
<1>3. Spec => []ExtensionInv
  BY ExtensionInit, ExtensionStep, PTL DEF Spec
<1>4. ExtensionInv /\ [Next]_vars => 
        [\A p \in Procs :
          StepOf(p, "sync") /\ Clean /\ Fresh(p) /\ listing.status = "sold"
             => listing'.status = "sold"]_vars
  BY <1>2
<1> QED
  BY <1>3, <1>4, PTL DEF Spec, SoldStaysSold

-----------------------------------------------------------------------------
(***************************************************************************)
(* What a process remembers between two of its requests.                   *)
(***************************************************************************)

\* Nothing p has in memory changes.
Still(p) ==
    pc'[p] = pc[p] /\ base'[p] = base[p] /\ task'[p] = task[p]

\* p starts on the row as it is: on a hard delete only if it is archived.
Starts(p) ==
    /\ pc[p] = "idle" /\ present /\ base'[p] = listing
    /\ \/ pc'[p] \in {"sync", "remind", "renew", "draft", "sold"}
       \/ pc'[p] = "purge" /\ Lifecycle(listing, now).isArchived
    /\ UNCHANGED <<listing, present, now, renewedAt>>

\* A process's memory changes by its own steps only.
LEMMA OwnSteps ==
    ASSUME TypeOK, [Next]_vars, NEW p \in Procs
    PROVE  \/ Still(p)
           \/ pc'[p] = "idle"
           \/ Starts(p)
           \/ SyncWrite(p) \/ SyncFails(p) \/ Claim(p)
           \/ p = "client" /\ (RenewWrite \/ Reload \/ RepairRenewed)
<1> USE DEF Still
<1>0. /\ pc \in [Procs -> Steps] /\ base \in [Procs -> Listing \cup {Null}]
      /\ task \in [Procs -> Tasks]
  BY DEF TypeOK
<1>1. CASE \/ UNCHANGED vars \/ HardDelete \/ Tick
           \/ Approve \/ ApproveOnly \/ Reject \/ Delete \/ AdminSold
           \/ SetExpiry
  BY <1>1 DEF vars, HardDelete, Tick, Approve, ApproveOnly, Reject, Delete,
              AdminSold, SetExpiry, BlindWrite
<1>2. ASSUME NEW q \in Procs,
             \/ Return(q)
             \/ \E step, row : Goto(q, step, row)
             \/ \E job, step : Fetch(q, job, step)
      PROVE  q # p => Still(p)
  BY <1>0, <1>2 DEF Return, Goto, Fetch
<1>3. ASSUME NEW q \in Procs, Return(q)
      PROVE  Still(p) \/ pc'[p] = "idle"
  BY <1>0, <1>3 DEF Return
<1>4. ASSUME NEW q \in Procs, NEW job, NEW step, Fetch(q, job, step),
             \/ step \in {"sync", "remind", "renew", "draft", "sold"}
             \/ step = "purge" /\ Lifecycle(listing, now).isArchived
      PROVE  Still(p) \/ Starts(p)
  BY <1>0, <1>4 DEF Fetch, Starts
<1>5. CASE SweepRead \/ ViewRead \/ ScannerRead
  BY <1>4, <1>5 DEF SweepRead, ViewRead, ScannerRead, Fetch
<1>6. CASE ExtendRequest \/ OutcomeRequest \/ AdminRenewRequest
  BY <1>4, <1>6 DEF ExtendRequest, OutcomeRequest, AdminRenewRequest, Fetch
<1>7. CASE ScannerClaim \/ DraftWrite \/ SoldWrite \/ RequestFails
  BY <1>3, <1>7 DEF ScannerClaim, DraftWrite, SoldWrite, RequestFails
<1>8. ASSUME NEW q \in Procs, Purge(q) \/ Crash(q)
      PROVE  Still(p) \/ pc'[p] = "idle"
  BY <1>3, <1>8 DEF Purge, Crash
<1>9. ASSUME NEW q \in Procs, SyncWrite(q) \/ SyncFails(q) \/ Claim(q)
      PROVE  Still(p) \/ SyncWrite(p) \/ SyncFails(p) \/ Claim(p)
  <2>1. Return(q) \/ \E step, row : Goto(q, step, row)
    BY <1>9 DEF SyncWrite, SyncFails, Claim, MailOrFinish, AfterSync
  <2> QED
    BY <1>2, <1>9, <2>1
<1>10. CASE RenewWrite
  BY <1>0, <1>10 DEF RenewWrite
<1>11. CASE Reload \/ RepairRenewed
  <2>1. "client" \in Procs
        /\ (Return("client") \/ \E step, row : Goto("client", step, row))
    BY <1>11 DEF Reload, RepairRenewed
  <2> QED
    BY <1>2, <1>11, <2>1
<1> QED
  BY <1>1, <1>5, <1>6, <1>7, <1>8, <1>9, <1>10, <1>11 DEF Next

-----------------------------------------------------------------------------
(***************************************************************************)
(* The dates of a clean lifecycle.                                         *)
(***************************************************************************)

\* What the lifecycle columns of a row say of each other at time t as long
\* as nobody set a date by hand or wrote from a row that had changed: every
\* other date follows from the expiry.
CleanRow(r, t) ==
    /\ r.extendedAt # Null
          => r.expiresAt # Null /\ r.extendedAt < r.expiresAt
    /\ r.soldStatus = "not_sold_renew"
          => /\ r.soldSetAt # Null /\ r.expiresAt # Null
             /\ RenewalAt(r) + Expiry <= r.expiresAt
    /\ r.expiredAt # Null => r.expiredAt = r.expiresAt
    /\ r.deadline # Null
          => r.expiresAt # Null /\ r.deadline = r.expiresAt + Window
    /\ r.retentionAt = IF r.expiresAt = Null THEN Null
                       ELSE r.expiresAt + Retention
    /\ r.archived => r.expiresAt # Null /\ t >= r.expiresAt + Retention

\* The date columns of a row.
LEMMA DateColumns ==
    ASSUME NEW r \in Listing
    PROVE  /\ r.expiresAt \in OptTime /\ r.expiredAt \in OptTime
           /\ r.retentionAt \in OptTime /\ r.deadline \in OptTime
           /\ r.extendedAt \in OptTime /\ r.soldSetAt \in OptTime
           /\ r.createdAt \in OptTime
BY DEF Listing

\* The columns every view shows.
LEMMA SeenColumns ==
    ASSUME NEW p \in Procs, NEW r \in Listing
    PROVE  /\ Seen(p, r).expiresAt = r.expiresAt
           /\ Seen(p, r).expiredAt = r.expiredAt
           /\ Seen(p, r).retentionAt = r.retentionAt
           /\ Seen(p, r).deadline = r.deadline
           /\ Seen(p, r).soldStatus = r.soldStatus
           /\ Seen(p, r).soldSetAt = r.soldSetAt
           /\ Seen(p, r).archived = r.archived
           /\ Seen(p, r).deleted = r.deleted
           /\ Seen(p, r).extendedAt \in {r.extendedAt, Null}
<1>1. Seen(p, r) \in {SweepColumns(r), RejectedAsDraft(r), r}
  BY DEF Seen
<1> QED
  BY <1>1 DEF SweepColumns, RejectedAsDraft, Listing

\* The renewal date is the later of the two dates it comes from.
LEMMA RenewalAtBounds ==
    ASSUME NEW r \in Listing, RenewalAt(r) # Null
    PROVE  /\ RenewalAt(r) \in Nat
           /\ r.soldSetAt # Null => r.soldSetAt <= RenewalAt(r)
           /\ r.extendedAt # Null => r.extendedAt <= RenewalAt(r)
           /\ RenewalAt(r) \in {r.soldSetAt, r.extendedAt}
<1>1. RenewalAt(r) \in Nat
  BY RenewalAtType, SetTime
<1>2. /\ r.soldSetAt # Null => r.soldSetAt \in Nat
      /\ r.extendedAt # Null => r.extendedAt \in Nat
  BY DateColumns, SetTime
<1> QED
  BY <1>1, <1>2 DEF RenewalAt, Later

\* A view of a clean row is clean.
LEMMA CleanSeen ==
    ASSUME NEW p \in Procs, NEW r \in Listing, NEW t \in Nat, CleanRow(r, t)
    PROVE  CleanRow(Seen(p, r), t)
<1> DEFINE s == Seen(p, r)
<1>1. s \in Listing
  BY SeenType
<1>2. ASSUME s.soldStatus = "not_sold_renew"
      PROVE  RenewalAt(s) + Expiry <= s.expiresAt
  <2>1. /\ r.soldStatus = "not_sold_renew" /\ r.soldSetAt # Null
        /\ s.soldSetAt = r.soldSetAt /\ s.expiresAt = r.expiresAt
        /\ s.extendedAt \in {r.extendedAt, Null}
        /\ r.expiresAt # Null /\ RenewalAt(r) + Expiry <= r.expiresAt
    BY <1>2, SeenColumns DEF CleanRow
  <2>2. /\ r.soldSetAt \in Nat /\ r.expiresAt \in Nat
        /\ r.extendedAt # Null => r.extendedAt \in Nat
    BY <2>1, DateColumns, SetTime
  <2>3. RenewalAt(r) \in Nat /\ RenewalAt(s) \in Nat
        /\ RenewalAt(s) <= RenewalAt(r)
    BY <2>1, <2>2 DEF RenewalAt, Later
  <2> HIDE DEF s
  <2> QED
    BY <2>1, <2>2, <2>3, RulesAssumption
<1> HIDE DEF s
<1>3. /\ s.expiresAt = r.expiresAt /\ s.expiredAt = r.expiredAt
      /\ s.retentionAt = r.retentionAt /\ s.deadline = r.deadline
      /\ s.soldStatus = r.soldStatus /\ s.soldSetAt = r.soldSetAt
      /\ s.archived = r.archived
      /\ s.extendedAt \in {r.extendedAt, Null}
  BY SeenColumns DEF s
<1> QED
  BY <1>2, <1>3 DEF CleanRow, s

\* A clean row needs no repair, and its derived view only spells out what
\* follows from its expiry.
LEMMA CleanLifecycle ==
    ASSUME NEW r \in Listing, NEW t \in Nat, CleanRow(r, t)
    PROVE  /\ ~NeedsRepair(r, t) /\ Repaired(r, t) = r
           /\ Lifecycle(r, t).expiresAt = ExpiryOrDefault(r, t)
           /\ Lifecycle(r, t).expiredAt \in {ExpiryOrDefault(r, t), Null}
           /\ Lifecycle(r, t).isExpired =>
                /\ t >= ExpiryOrDefault(r, t)
                /\ Lifecycle(r, t).expiredAt = ExpiryOrDefault(r, t)
           /\ Lifecycle(r, t).retentionAt = ExpiryOrDefault(r, t) + Retention
           /\ Lifecycle(r, t).deadline
                \in {ExpiryOrDefault(r, t) + Window, Null}
           /\ Lifecycle(r, t).isArchived =>
                r.archived \/ t >= ExpiryOrDefault(r, t) + Retention
<1> DEFINE d == ExpiryOrDefault(r, t)
<1>1. d \in Nat /\ (r.expiresAt # Null => d = r.expiresAt)
  BY ExpiryOrDefaultType DEF ExpiryOrDefault
<1>2. /\ r.expiresAt # Null => r.expiresAt \in Nat
      /\ r.extendedAt # Null => r.extendedAt \in Nat
      /\ Expiry \in Nat \ {0} /\ Retention \in Nat /\ Window \in Nat
      /\ Null \notin Nat
  BY DateColumns, SetTime, RulesAssumption
<1>3. ~StaleRenewal(r, t)
  <2> SUFFICES ASSUME StaleRenewal(r, t) PROVE FALSE
    OBVIOUS
  <2>1. RenewalAt(r) \in Nat /\ d < RenewalAt(r) + Expiry
        /\ r.soldStatus = "not_sold_renew"
    BY RenewalAtBounds DEF StaleRenewal
  <2> HIDE DEF d
  <2> QED
    BY <1>1, <1>2, <2>1 DEF CleanRow
<1>4. ~ExtendedPastExpiry(r)
  BY <1>2 DEF ExtendedPastExpiry, CleanRow
<1>5. RepairStaleRenewal(r, t) = r /\ Repaired(r, t) = r
  BY <1>3, <1>4 DEF Repaired, RepairStaleRenewal, RepairExtension
<1>6. ~(r.extendedAt # Null /\ d <= r.extendedAt /\ r.status = "approved")
  BY <1>1, <1>2 DEF CleanRow
<1> DEFINE x == IF r.expiredAt # Null THEN r.expiredAt
                ELSE IF t >= d THEN d ELSE Null
           y == IF r.retentionAt # Null THEN r.retentionAt
                ELSE (IF x # Null THEN x ELSE d) + Retention
           z == IF r.deadline # Null THEN r.deadline
                ELSE IF x # Null THEN x + Window ELSE Null
           exempt == r.isApproved /\ r.status = "approved" /\ ~r.deleted
<1>7. /\ Lifecycle(r, t).expiresAt = d
      /\ Lifecycle(r, t).expiredAt = x
      /\ Lifecycle(r, t).retentionAt = y
      /\ Lifecycle(r, t).deadline = z
      /\ Lifecycle(r, t).isExpired = (~exempt /\ t >= d)
      /\ Lifecycle(r, t).isArchived = (~exempt /\ (r.archived \/ t >= y))
  BY <1>3, <1>5, <1>6 DEF Lifecycle
<1>8. x \in {d, Null} /\ (t >= d => x = d)
  <2> HIDE DEF d
  <2> QED
    BY <1>1, <1>2 DEF CleanRow
<1>9. y = d + Retention
  <2>1. CASE r.expiresAt = Null
    <3> HIDE DEF x, d
    <3> QED
      BY <1>2, <1>8, <2>1 DEF CleanRow
  <2>2. CASE r.expiresAt # Null
    <3> HIDE DEF x, d
    <3> QED
      BY <1>1, <1>2, <2>2 DEF CleanRow
  <2> QED
    BY <2>1, <2>2
<1>10. z \in {d + Window, Null}
  <2> HIDE DEF x, d
  <2> QED
    BY <1>1, <1>2, <1>8 DEF CleanRow
<1> HIDE DEF x, y, z
<1> QED
  BY <1>3, <1>4, <1>5, <1>7, <1>8, <1>9, <1>10 DEF NeedsRepair

\* The PATCH of a sync that repairs nothing, column by column.
LEMMA PlainPatch ==
    ASSUME NEW row \in Listing, NEW s \in Listing, NEW t \in Nat,
           ~NeedsRepair(s, t)
    PROVE  LET c == Lifecycle(s, t)
               q == SyncPatch(row, s, t)
           IN  /\ q.expiresAt = IF s.expiresAt = Null THEN c.expiresAt
                                ELSE row.expiresAt
               /\ q.expiredAt = IF c.isExpired /\ s.expiredAt = Null
                                THEN c.expiredAt ELSE row.expiredAt
               /\ q.retentionAt = IF s.retentionAt = Null
                                  THEN c.retentionAt ELSE row.retentionAt
               /\ q.deadline = IF s.deadline = Null /\ c.deadline # Null
                               THEN c.deadline ELSE row.deadline
               /\ q.status = IF Unanswered(s, t) THEN "deleted"
                             ELSE row.status
               /\ q.soldStatus = IF ~Unanswered(s, t) THEN row.soldStatus
                                 ELSE IF s.soldStatus # Null
                                 THEN s.soldStatus ELSE "no_response"
               /\ q.soldSetAt = IF Unanswered(s, t) THEN t
                                ELSE row.soldSetAt
               /\ q.deleted = (Unanswered(s, t) \/ row.deleted)
               /\ q.autoRemoved = (Unanswered(s, t) \/ row.autoRemoved)
               /\ q.archived = ((c.isArchived /\ ~s.archived)
                                   \/ row.archived)
<1>1. Repaired(s, t) = s /\ ~StaleRenewal(s, t)
  BY DEF NeedsRepair, Repaired, RepairStaleRenewal, RepairExtension
<1>2. row.autoRemoved \in BOOLEAN /\ row.archived \in BOOLEAN
  BY DEF Listing
<1> QED
  BY <1>1, <1>2 DEF SyncPatch, Listing

\* No sync touches these columns.
LEMMA PatchKeeps ==
    ASSUME NEW row \in Listing, NEW s \in Listing, NEW t \in Nat
    PROVE  /\ SyncPatch(row, s, t).isApproved = row.isApproved
           /\ SyncPatch(row, s, t).createdAt = row.createdAt
           /\ SyncPatch(row, s, t).extendedAt = row.extendedAt
           /\ SyncPatch(row, s, t).reminderSent = row.reminderSent
           /\ SyncPatch(row, s, t).expiredSent = row.expiredSent
BY DEF SyncPatch, Listing

\* A sync of a clean row leaves it clean, and when it soft deletes the row
\* the response window after the expiry is over.
LEMMA CleanPatch ==
    ASSUME NEW p \in Procs, NEW row \in Listing, NEW t \in Nat,
           CleanRow(row, t)
    PROVE  LET q == SyncPatch(row, Seen(p, row), t)
           IN  /\ CleanRow(q, t)
               /\ q.expiresAt # Null
               /\ q.deleted /\ ~row.deleted => t >= q.expiresAt + Window
<1> DEFINE s == Seen(p, row)
           q == SyncPatch(row, s, t)
           c == Lifecycle(s, t)
           d == ExpiryOrDefault(s, t)
           remove == Unanswered(s, t)
<1>1. s \in Listing /\ CleanRow(s, t)
  BY SeenType, CleanSeen
<1>2. /\ s.expiresAt = row.expiresAt /\ s.expiredAt = row.expiredAt
      /\ s.retentionAt = row.retentionAt /\ s.deadline = row.deadline
      /\ s.soldStatus = row.soldStatus /\ s.soldSetAt = row.soldSetAt
      /\ s.archived = row.archived
  BY SeenColumns
<1>3. d \in Nat /\ (row.expiresAt # Null => d = row.expiresAt)
  BY <1>1, <1>2, ExpiryOrDefaultType DEF ExpiryOrDefault
<1>4. /\ ~NeedsRepair(s, t)
      /\ c.expiresAt = d /\ c.expiredAt \in {d, Null}
      /\ c.isExpired => t >= d /\ c.expiredAt = d
      /\ c.retentionAt = d + Retention /\ c.deadline \in {d + Window, Null}
      /\ c.isArchived => s.archived \/ t >= d + Retention
  BY <1>1, CleanLifecycle
<1>5. remove => /\ c.isExpired /\ c.deadline # Null /\ t >= c.deadline
                /\ s.soldSetAt = Null
  BY DEF Unanswered
<1> HIDE DEF c, d, s
<1>6. /\ q.expiresAt = IF s.expiresAt = Null THEN c.expiresAt
                       ELSE row.expiresAt
      /\ q.expiredAt = IF c.isExpired /\ s.expiredAt = Null
                       THEN c.expiredAt ELSE row.expiredAt
      /\ q.retentionAt = IF s.retentionAt = Null
                         THEN c.retentionAt ELSE row.retentionAt
      /\ q.deadline = IF s.deadline = Null /\ c.deadline # Null
                      THEN c.deadline ELSE row.deadline
      /\ q.soldStatus = IF ~remove THEN row.soldStatus
                        ELSE IF s.soldStatus # Null
                        THEN s.soldStatus ELSE "no_response"
      /\ q.soldSetAt = IF remove THEN t ELSE row.soldSetAt
      /\ q.deleted = (remove \/ row.deleted)
      /\ q.archived = ((c.isArchived /\ ~s.archived) \/ row.archived)
  BY <1>1, <1>4, PlainPatch DEF c
<1>7. q.extendedAt = row.extendedAt
  BY <1>1, PatchKeeps
<1> HIDE DEF q, remove
<1>8. Null \notin Nat /\ Retention \in Nat /\ Window \in Nat /\ Expiry \in Nat
  BY RulesAssumption
<1>9. /\ row.expiresAt # Null => row.expiresAt \in Nat
      /\ d + Retention # Null /\ d + Window # Null /\ d # Null
  BY <1>3, <1>8, DateColumns, SetTime
<1>10. q.expiresAt = d
  BY <1>2, <1>3, <1>4, <1>6
<1>11. q.soldStatus = "not_sold_renew"
          => /\ ~remove /\ row.soldStatus = "not_sold_renew"
             /\ q.soldSetAt = row.soldSetAt
  BY <1>2, <1>5, <1>6, <1>1 DEF CleanRow
<1>12. q.soldStatus = "not_sold_renew"
          => q.soldSetAt # Null /\ RenewalAt(q) + Expiry <= q.expiresAt
  <2>1. q.soldStatus = "not_sold_renew" => RenewalAt(q) = RenewalAt(row)
    BY <1>7, <1>11 DEF RenewalAt
  <2> QED
    BY <1>3, <1>10, <1>11, <2>1 DEF CleanRow
<1>13. q.extendedAt # Null => q.extendedAt < q.expiresAt
  BY <1>3, <1>7, <1>10 DEF CleanRow
<1>14. q.expiredAt # Null => q.expiredAt = q.expiresAt
  BY <1>2, <1>3, <1>4, <1>6, <1>9, <1>10 DEF CleanRow
<1>15. q.deadline # Null => q.deadline = q.expiresAt + Window
  BY <1>2, <1>3, <1>4, <1>6, <1>9, <1>10 DEF CleanRow
<1>16. q.retentionAt = q.expiresAt + Retention
  BY <1>2, <1>3, <1>4, <1>6, <1>9, <1>10 DEF CleanRow
<1>17. q.archived => t >= q.expiresAt + Retention
  BY <1>2, <1>3, <1>4, <1>6, <1>9, <1>10 DEF CleanRow
<1>18. CleanRow(q, t)
  BY <1>9, <1>10, <1>12, <1>13, <1>14, <1>15, <1>16, <1>17 DEF CleanRow
<1>19. q.deleted /\ ~row.deleted => t >= q.expiresAt + Window
  BY <1>4, <1>5, <1>6, <1>10
<1> QED
  BY <1>9, <1>10, <1>18, <1>19 DEF q, s

\* An expired view: the clock is past its expiry, and it has a date.
LEMMA ExpiredDated ==
    ASSUME NEW r \in Listing, NEW t \in Nat, Lifecycle(r, t).isExpired
    PROVE  t >= Lifecycle(r, t).expiresAt /\ Lifecycle(r, t).expiredAt # Null
<1> DEFINE c == Lifecycle(r, t)
           stale    == StaleRenewal(r, t)
           b        == ExpiryOrDefault(RepairStaleRenewal(r, t), t)
           extended == /\ r.extendedAt # Null
                       /\ b <= r.extendedAt
                       /\ r.status = "approved"
           repaired == stale \/ extended
           expires  == IF extended THEN r.extendedAt + Expiry ELSE b
           expired  == IF r.expiredAt # Null /\ ~repaired THEN r.expiredAt
                       ELSE IF t >= expires THEN expires ELSE Null
           exempt   == r.isApproved /\ r.status = "approved" /\ ~r.deleted
<1>1. /\ c.expiresAt = expires /\ c.expiredAt = expired
      /\ c.isExpired = (~exempt /\ t >= expires)
  BY DEF Lifecycle
<1>2. c.expiresAt \in Nat
  BY LifecycleType
<1> HIDE DEF c, expires, repaired, exempt
<1>3. expires \in Nat /\ t >= expires
  BY <1>1, <1>2 DEF c
<1>4. expired # Null
  BY <1>3, RulesAssumption
<1> QED
  BY <1>1, <1>3, <1>4 DEF c

\* Two rows that agree on every column are one row.
LEMMA SameRow ==
    ASSUME NEW a \in Listing, NEW b \in Listing,
           a.status = b.status, a.isApproved = b.isApproved,
           a.createdAt = b.createdAt, a.expiresAt = b.expiresAt,
           a.expiredAt = b.expiredAt, a.retentionAt = b.retentionAt,
           a.deadline = b.deadline, a.soldStatus = b.soldStatus,
           a.soldSetAt = b.soldSetAt, a.extendedAt = b.extendedAt,
           a.archived = b.archived, a.deleted = b.deleted,
           a.autoRemoved = b.autoRemoved,
           a.reminderSent = b.reminderSent,
           a.expiredSent = b.expiredSent
    PROVE  a = b
BY DEF Listing

\* A sync with nothing to write for the record it read writes nothing to any
\* row: this is what makes a stale but idle sync harmless.
LEMMA IdlePatch ==
    ASSUME NEW row \in Listing, NEW s \in Listing, NEW t \in Nat,
           SyncPatch(s, s, t) = s
    PROVE  SyncPatch(row, s, t) = row
<1> DEFINE c == Lifecycle(s, t)
<1>1. ~NeedsRepair(s, t)
  <2> SUFFICES ASSUME NeedsRepair(s, t) PROVE FALSE
    OBVIOUS
  <2>1. s.expiresAt = Repaired(s, t).expiresAt
    BY SyncPatchColumns
  <2> QED
    BY <2>1, DateColumns, RepairMovesExpiry, SetTime, RulesAssumption
<1>2. /\ c.expiresAt # Null /\ c.retentionAt # Null
      /\ c.isExpired => c.expiredAt # Null
  <2>1. c.expiresAt \in Nat /\ c.retentionAt \in Nat
    BY LifecycleType
  <2>2. c.isExpired => c.expiredAt # Null
    BY ExpiredDated
  <2> QED
    BY <2>1, <2>2, RulesAssumption
<1> HIDE DEF c
<1>3. ~Unanswered(s, t)
  <2> SUFFICES ASSUME Unanswered(s, t) PROVE FALSE
    OBVIOUS
  <2>1. s.status = "deleted"
    BY <1>1, PlainPatch
  <2> QED
    BY <2>1 DEF Unanswered, TerminalStatuses
<1>4. /\ s.expiresAt # Null
      /\ ~(c.isExpired /\ s.expiredAt = Null)
      /\ s.retentionAt # Null
      /\ ~(s.deadline = Null /\ c.deadline # Null)
      /\ ~(c.isArchived /\ ~s.archived)
  <2>1. /\ s.expiresAt = IF s.expiresAt = Null THEN c.expiresAt
                         ELSE s.expiresAt
        /\ s.expiredAt = IF c.isExpired /\ s.expiredAt = Null
                         THEN c.expiredAt ELSE s.expiredAt
        /\ s.retentionAt = IF s.retentionAt = Null
                           THEN c.retentionAt ELSE s.retentionAt
        /\ s.deadline = IF s.deadline = Null /\ c.deadline # Null
                        THEN c.deadline ELSE s.deadline
        /\ s.archived = ((c.isArchived /\ ~s.archived) \/ s.archived)
    BY <1>1, PlainPatch DEF c
  <2> QED
    BY <1>2, <2>1
<1>5. SyncPatch(row, s, t) \in Listing
  BY SyncPatchType
<1>6. row.deleted \in BOOLEAN /\ row.autoRemoved \in BOOLEAN
      /\ row.archived \in BOOLEAN
  BY DEF Listing
<1> QED
  BY <1>1, <1>3, <1>4, <1>5, <1>6, PlainPatch, PatchKeeps, SameRow DEF c

\* A missing outcome is none of the outcomes.
LEMMA NullIsNoOutcome ==
    /\ Null # "not_sold_renew"
    /\ Null \notin SoldOutcomes
    /\ "not_sold_renew" \notin SoldOutcomes
BY RulesAssumption DEF SoldStatuses, SoldOutcomes

\* In a clean lifecycle the row is clean.
RowClean == present /\ Clean => CleanRow(listing, now)

\* The row the client is about to repair shows a renewal without its period,
\* so it is not the row of a clean lifecycle.
StaleInHand ==
    "client" \in Procs /\ pc["client"] = "repair"
        => LET r == base["client"]
           IN  /\ r.soldStatus = "not_sold_renew"
               /\ RenewalAt(r) # Null
               /\ r.expiresAt # Null => r.expiresAt < RenewalAt(r) + Expiry

CleanInv == ExtensionInv /\ RowClean /\ StaleInHand

\* A step that leaves every column CleanRow reads alone keeps a clean row.
LEMMA CleanKept ==
    ASSUME TypeOK, TypeOK', RowClean,
           present' /\ Clean' => present /\ Clean, now' >= now,
           listing'.extendedAt = listing.extendedAt,
           listing'.expiresAt = listing.expiresAt,
           listing'.expiredAt = listing.expiredAt,
           listing'.retentionAt = listing.retentionAt,
           listing'.deadline = listing.deadline,
           listing'.soldStatus = listing.soldStatus,
           listing'.soldSetAt = listing.soldSetAt,
           listing'.archived = listing.archived
    PROVE  RowClean'
<1> SUFFICES ASSUME present', Clean'
             PROVE  CleanRow(listing', now')
  BY DEF RowClean
<1>1. CleanRow(listing, now) /\ now \in Nat /\ now' \in Nat
      /\ listing \in Listing
  BY DEF RowClean, TypeOK
<1>2. RenewalAt(listing') = RenewalAt(listing)
  BY DEF RenewalAt
<1>3. listing.expiresAt # Null => listing.expiresAt + Retention \in Nat
  BY <1>1, DateColumns, SetTime, RulesAssumption
<1> QED
  BY <1>1, <1>2, <1>3 DEF CleanRow

\* The steps that move no date of a row: reads, notices, failures, the clock,
\* and the decisions on the status.
LEMMA CleanQuiet ==
    ASSUME TypeOK, TypeOK', RowClean,
           \/ UNCHANGED vars
           \/ SweepRead \/ ViewRead \/ ScannerRead
           \/ \E p \in Procs : \/ SyncFails(p) \/ Claim(p) \/ Purge(p)
                               \/ Crash(p)
           \/ ExtendRequest \/ OutcomeRequest \/ AdminRenewRequest
           \/ Reload \/ RequestFails
           \/ ApproveOnly \/ Reject \/ Delete
           \/ HardDelete \/ Tick
    PROVE  RowClean'
<1>1. listing \in Listing /\ now \in Nat
  BY DEF TypeOK
<1>2. CASE \/ UNCHANGED vars
           \/ SweepRead \/ ViewRead \/ ScannerRead
           \/ ExtendRequest \/ OutcomeRequest \/ AdminRenewRequest
           \/ Reload \/ RequestFails \/ HardDelete
  <2>1. /\ UNCHANGED <<listing, now, custom, raced>>
        /\ present' => present
    BY <1>2 DEF vars, SweepRead, ViewRead, ScannerRead, ExtendRequest,
                OutcomeRequest, AdminRenewRequest, Fetch, Reload,
                RequestFails, HardDelete
  <2> QED
    BY <1>1, <2>1, CleanKept DEF Clean
<1>3. ASSUME NEW p \in Procs, SyncFails(p) \/ Purge(p) \/ Crash(p)
      PROVE  RowClean'
  <2>1. /\ UNCHANGED <<listing, now, custom, raced>>
        /\ present' => present
    BY <1>3 DEF SyncFails, Purge, Crash
  <2> QED
    BY <1>1, <2>1, CleanKept DEF Clean
<1>4. ASSUME NEW p \in Procs, Claim(p)
      PROVE  RowClean'
  <2>1. \/ listing' = [listing EXCEPT !.expiredSent = TRUE]
        \/ listing' = listing
    BY <1>4 DEF Claim
  <2>2. UNCHANGED <<present, now, custom, raced>>
    BY <1>4 DEF Claim
  <2> QED
    BY <1>1, <2>1, <2>2, CleanKept DEF Clean, Listing
<1>5. CASE Tick
  BY <1>1, <1>5, CleanKept DEF Tick, Clean
<1>6. CASE ApproveOnly \/ Reject \/ Delete
  <2>1. \/ listing' = [listing EXCEPT !.status = "approved",
                                      !.isApproved = TRUE]
        \/ \E a : listing' = [listing EXCEPT !.status = "rejected",
                                             !.isApproved = a]
        \/ listing' = [listing EXCEPT !.status = "deleted",
                                      !.deleted = TRUE,
                                      !.autoRemoved = FALSE]
        \/ listing' = [listing EXCEPT !.status = "deleted",
                                      !.deleted = TRUE,
                                      !.isApproved = FALSE]
    BY <1>6 DEF ApproveOnly, Reject, Delete, BlindWrite
  <2>2. UNCHANGED <<present, now, custom, raced>>
    BY <1>6 DEF ApproveOnly, Reject, Delete, BlindWrite, SameCycle
  <2>3. /\ listing'.extendedAt = listing.extendedAt
        /\ listing'.expiresAt = listing.expiresAt
        /\ listing'.expiredAt = listing.expiredAt
        /\ listing'.retentionAt = listing.retentionAt
        /\ listing'.deadline = listing.deadline
        /\ listing'.soldStatus = listing.soldStatus
        /\ listing'.soldSetAt = listing.soldSetAt
        /\ listing'.archived = listing.archived
    BY <1>1, <2>1 DEF Listing
  <2> QED
    BY <1>1, <2>2, <2>3, CleanKept DEF Clean
<1> QED
  BY <1>2, <1>3, <1>4, <1>5, <1>6

\* A write that starts a lifecycle of its own leaves a clean row.
LEMMA FreshIsClean ==
    ASSUME NEW r \in Listing, NEW e \in Nat, NEW t \in Nat,
           r.extendedAt # Null => r.extendedAt <= t
    PROVE  /\ CleanRow(Renewed(r, e, t), t)
           /\ CleanRow(MovedToDraft(r, e, t), t)
           /\ CleanRow(Approved(r, t), t)
<1>1. /\ Later(e, t) \in Nat /\ Later(e, t) >= t
      /\ Expiry \in Nat /\ Expiry > 0 /\ Null \notin Nat
  BY LaterType, RulesAssumption
<1>2. r.extendedAt # Null => r.extendedAt \in Nat
  BY DateColumns, SetTime
<1>3. CleanRow(Renewed(r, e, t), t)
  <2> DEFINE q == Renewed(r, e, t)
  <2>1. /\ q.expiresAt = Later(e, t) + Expiry /\ q.expiredAt = Null
        /\ q.retentionAt = q.expiresAt + Retention /\ q.deadline = Null
        /\ q.soldSetAt = t /\ q.extendedAt = t /\ ~q.archived
    BY DEF Renewed, FreshCycle, Listing
  <2> HIDE DEF q
  <2>2. RenewalAt(q) = t
    BY <1>1, <2>1 DEF RenewalAt, Later
  <2> QED
    BY <1>1, <2>1, <2>2 DEF CleanRow, q
<1>4. CleanRow(MovedToDraft(r, e, t), t)
  <2> DEFINE q == MovedToDraft(r, e, t)
  <2>1. /\ q.expiresAt = Later(e, t) + Expiry /\ q.expiredAt = Null
        /\ q.retentionAt = q.expiresAt + Retention /\ q.deadline = Null
        /\ q.soldStatus = Null /\ q.extendedAt = t /\ ~q.archived
    BY DEF MovedToDraft, FreshCycle, Listing
  <2>2. q.soldStatus # "not_sold_renew"
    BY <2>1, NullIsNoOutcome
  <2> HIDE DEF q
  <2> QED
    BY <1>1, <2>1, <2>2 DEF CleanRow, q
<1>5. CleanRow(Approved(r, t), t)
  <2> DEFINE q == Approved(r, t)
  <2>1. /\ q.expiresAt = t + Expiry /\ q.expiredAt = Null
        /\ q.retentionAt = q.expiresAt + Retention /\ q.deadline = Null
        /\ q.soldStatus = Null /\ q.extendedAt = r.extendedAt
        /\ ~q.archived
    BY DEF Approved, FreshCycle, Listing
  <2>2. q.soldStatus # "not_sold_renew"
    BY <2>1, NullIsNoOutcome
  <2> HIDE DEF q
  <2> QED
    BY <1>1, <1>2, <2>1, <2>2 DEF CleanRow, q
<1> QED
  BY <1>3, <1>4, <1>5

\* Marking a row sold keeps its dates clean.
LEMMA SoldIsClean ==
    ASSUME NEW r \in Listing, NEW outcome \in SoldOutcomes, NEW t \in Nat,
           NEW q, q.expiresAt = r.expiresAt, q.expiredAt = r.expiredAt,
           q.retentionAt = r.retentionAt, q.deadline = Null,
           q.soldStatus = outcome, q.extendedAt = r.extendedAt,
           q.archived = r.archived, CleanRow(r, t)
    PROVE  CleanRow(q, t)
BY NullIsNoOutcome DEF CleanRow

\* The writes that move dates, on a row that is there.
LEMMA CleanWrites ==
    ASSUME CleanInv, TypeOK', present,
           \/ \E p \in Procs : SyncWrite(p)
           \/ RenewWrite \/ DraftWrite \/ RepairRenewed \/ SoldWrite
           \/ Approve \/ AdminSold \/ SetExpiry \/ ScannerClaim
    PROVE  RowClean'
<1> SUFFICES ASSUME Clean'
             PROVE  CleanRow(listing', now')
  BY DEF RowClean
<1>1. /\ listing \in Listing /\ now \in Nat /\ now' = now
      /\ listing.extendedAt # Null => listing.extendedAt <= now
      /\ TypeOK /\ RowClean
  BY DEF CleanInv, ExtensionInv, ExtensionPast, TypeOK, SyncWrite,
         RenewWrite, DraftWrite, RepairRenewed, SoldWrite, Approve,
         AdminSold, SetExpiry, BlindWrite, ScannerClaim
<1>2. CASE RenewWrite \/ DraftWrite
  <2> DEFINE x == Lifecycle(base["client"], now).expiresAt
  <2>1. x \in Nat
    BY <1>1, <1>2, BaseType DEF RenewWrite, DraftWrite
  <2> HIDE DEF x
  <2>2. \/ listing' = Renewed(listing, x, now)
        \/ listing' = MovedToDraft(listing, x, now)
    BY <1>2 DEF RenewWrite, DraftWrite, Write, x
  <2> QED
    BY <1>1, <2>1, <2>2, FreshIsClean
<1>3. CASE Approve
  <2>1. 0 \in Nat /\ listing' = Approved(listing, now)
    BY <1>3 DEF Approve, BlindWrite
  <2> QED
    BY <1>1, <2>1, FreshIsClean
<1>4. CASE SetExpiry
  BY <1>4 DEF SetExpiry, BlindWrite, Clean
<1>5. CASE SoldWrite \/ AdminSold
  <2>1. PICK outcome \in Outcomes :
          \/ listing' = MarkedSold(listing, outcome, now)
          \/ listing' = [MarkedSold(listing, outcome, now) EXCEPT
                            !.isApproved = FALSE]
    BY <1>5 DEF SoldWrite, AdminSold, Write, BlindWrite
  <2>2. outcome \in SoldOutcomes
    BY LifecycleAssumption
  <2>3. /\ listing'.expiresAt = listing.expiresAt
        /\ listing'.expiredAt = listing.expiredAt
        /\ listing'.retentionAt = listing.retentionAt
        /\ listing'.deadline = Null
        /\ listing'.soldStatus = outcome
        /\ listing'.extendedAt = listing.extendedAt
        /\ listing'.archived = listing.archived
    BY <1>1, <2>1 DEF MarkedSold, Listing
  <2>4. CleanRow(listing, now)
    BY <1>1, <1>5
       DEF RowClean, Clean, SoldWrite, AdminSold, BlindWrite, SameCycle
  <2> QED
    BY <1>1, <2>2, <2>3, <2>4, SoldIsClean
<1>6. CASE ScannerClaim
  <2> DEFINE e == Lifecycle(ScannerColumns(base["scanner"]), now).expiresAt
  <2>1. \/ /\ listing' = [listing EXCEPT !.expiredSent = TRUE,
                                         !.expiredAt = e]
           /\ listing.expiresAt = e
        \/ listing' = [listing EXCEPT !.expiredSent = TRUE,
                                      !.expiredAt = @]
        \/ listing' = [listing EXCEPT !.reminderSent = TRUE]
        \/ listing' = listing
    BY <1>6 DEF ScannerClaim, Claimable
  <2> HIDE DEF e
  <2>2. /\ listing'.expiresAt = listing.expiresAt
        /\ \/ listing'.expiredAt = listing.expiredAt
           \/ listing'.expiredAt = listing.expiresAt
        /\ listing'.retentionAt = listing.retentionAt
        /\ listing'.deadline = listing.deadline
        /\ listing'.soldStatus = listing.soldStatus
        /\ listing'.soldSetAt = listing.soldSetAt
        /\ listing'.extendedAt = listing.extendedAt
        /\ listing'.archived = listing.archived
    BY <1>1, <2>1 DEF Listing
  <2>3. CleanRow(listing, now)
    BY <1>1, <1>6 DEF RowClean, Clean, ScannerClaim
  <2>4. RenewalAt(listing') = RenewalAt(listing)
    BY <2>2 DEF RenewalAt
  <2> QED
    BY <1>1, <2>2, <2>3, <2>4 DEF CleanRow
<1>7. CASE RepairRenewed
  <2> DEFINE r == base["client"]
  <2>1. Clean /\ Fresh("client")
    BY <1>7 DEF RepairRenewed, Clean
  <2>2. /\ CleanRow(r, now) /\ r = listing
    BY <1>1, <2>1 DEF RowClean, Fresh
  <2>3. /\ r.soldStatus = "not_sold_renew" /\ RenewalAt(r) # Null
        /\ r.expiresAt # Null => r.expiresAt < RenewalAt(r) + Expiry
    BY <1>7 DEF CleanInv, StaleInHand, RepairRenewed
  <2>4. r.expiresAt \in Nat /\ RenewalAt(r) \in Nat /\ Expiry \in Nat
    BY <1>1, <2>2, <2>3, DateColumns, SetTime, RenewalAtBounds,
       RulesAssumption DEF CleanRow
  <2> QED
    BY <2>2, <2>3, <2>4, RulesAssumption DEF CleanRow
<1>8. ASSUME NEW p \in Procs, SyncWrite(p)
      PROVE  CleanRow(listing', now')
  <2> DEFINE s == Seen(p, base[p])
  <2>1. base[p] \in Listing /\ s \in Listing
    BY <1>1, <1>8, BaseType DEF SyncWrite
  <2>2. listing' = SyncPatch(listing, s, now)
    BY <1>8 DEF SyncWrite, Write
  <2>3. Clean /\ (Fresh(p) \/ SyncPatch(s, s, now) = s)
    BY <1>8 DEF SyncWrite, Clean
  <2>4. CleanRow(listing, now)
    BY <1>1, <2>3 DEF RowClean
  <2>5. CASE Fresh(p)
    BY <1>1, <2>2, <2>4, <2>5, CleanPatch DEF Fresh
  <2>6. CASE SyncPatch(s, s, now) = s
    <3> HIDE DEF s
    <3> QED
      BY <1>1, <2>1, <2>2, <2>4, <2>6, IdlePatch
  <2> QED
    BY <2>3, <2>5, <2>6
<1> QED
  BY <1>2, <1>3, <1>4, <1>5, <1>6, <1>7, <1>8

\* What the client repairs, it found stale.
LEMMA StaleStep ==
    ASSUME TypeOK, StaleInHand, [Next]_vars
    PROVE  StaleInHand'
<1> DEFINE c == "client"
           r == base["client"]
<1> SUFFICES ASSUME c \in Procs, pc'[c] = "repair"
             PROVE  /\ r'.soldStatus = "not_sold_renew"
                    /\ RenewalAt(r') # Null
                    /\ r'.expiresAt # Null
                         => r'.expiresAt < RenewalAt(r') + Expiry
  BY DEF StaleInHand
<1>1. CASE Still(c)
  BY <1>1 DEF Still, StaleInHand
<1>2. CASE Reload
  <2>1. StaleRenewal(listing, now) /\ r' = listing
    BY <1>2 DEF Reload, Return, Goto, TypeOK
  <2> QED
    BY <2>1 DEF StaleRenewal, ExpiryOrDefault
<1>3. CASE Starts(c) \/ RenewWrite \/ RepairRenewed
  BY <1>3 DEF Starts, RenewWrite, RepairRenewed, Goto, TypeOK
<1>4. CASE SyncWrite(c) \/ SyncFails(c) \/ Claim(c)
  <2>1. \/ Return(c)
        \/ \E row : \/ Goto(c, "claim", row) \/ Goto(c, "purge", row)
                    \/ Goto(c, "renew", row)
    BY <1>4 DEF SyncWrite, SyncFails, Claim, MailOrFinish, AfterSync
  <2> QED
    BY <2>1 DEF Return, Goto, TypeOK
<1> QED
  BY <1>1, <1>2, <1>3, <1>4, OwnSteps

\* Every step keeps a clean row clean.
LEMMA CleanStep ==
    ASSUME CleanInv, [Next]_vars
    PROVE  CleanInv'
<1>1. ExtensionInv' /\ TypeOK /\ TypeOK'
  BY ExtensionStep DEF CleanInv, ExtensionInv
<1>2. StaleInHand'
  BY <1>1, StaleStep DEF CleanInv
<1>3. RowClean'
  <2>1. CASE ~present
    <3>1. ~present'
      BY <2>1, [Next]_vars
         DEF Next, vars, SweepRead, ViewRead, ScannerRead, ExtendRequest,
             OutcomeRequest, AdminRenewRequest, Fetch, ScannerClaim,
             SyncWrite, SyncFails, Claim, Purge, Crash, RenewWrite, Reload,
             RepairRenewed, DraftWrite, SoldWrite, RequestFails, Approve,
             ApproveOnly, Reject, Delete, AdminSold, SetExpiry, BlindWrite,
             HardDelete, Tick, Write
    <3> QED
      BY <3>1 DEF RowClean
  <2>2. CASE present
    BY <1>1, <2>2, CleanQuiet, CleanWrites DEF CleanInv, Next
  <2> QED
    BY <1>1, <2>1, <2>2 DEF TypeOK
<1> QED
  BY <1>1, <1>2, <1>3 DEF CleanInv

\* Inserted rows are clean.
LEMMA CleanInit == Init => CleanInv
<1> SUFFICES ASSUME Init
             PROVE  CleanInv
  OBVIOUS
<1>1. Inserted(listing)
  BY LifecycleAssumption DEF Init
<1>2. CleanRow(listing, now)
  BY <1>1, NullIsNoOutcome DEF CleanRow, Inserted
<1>3. StaleInHand
  BY DEF Init, StaleInHand
<1> QED
  BY <1>2, <1>3, ExtensionInit DEF CleanInv, RowClean

\* In a clean lifecycle the owner keeps the whole response window after the
\* expiry before a sync soft deletes the row it read.  It rests on CleanRow:
\* every date of such a row follows from its expiry, so the recorded response
\* deadline is never one of an earlier expiry.
THEOREM WindowHonoured == Spec => RemovalHonoursWindow
<1> DEFINE Honoured(p) == SystemRemoves(p) /\ Clean /\ Fresh(p)
                            => now >= listing'.expiresAt + Window
<1>1. ASSUME CleanInv, [Next]_vars, NEW p \in Procs
      PROVE  Honoured(p)
  <2> SUFFICES ASSUME SystemRemoves(p), Clean, Fresh(p)
               PROVE  now >= listing'.expiresAt + Window
    OBVIOUS
  <2>1. /\ TypeOK /\ listing \in Listing /\ now \in Nat
        /\ CleanRow(listing, now)
    BY <1>1 DEF CleanInv, ExtensionInv, TypeOK, RowClean, Fresh
  <2>2. CASE SyncWrite(p)
    <3>1. listing' = SyncPatch(listing, Seen(p, listing), now)
      BY <2>2 DEF SyncWrite, Write, Fresh
    <3> QED
      BY <2>1, <3>1, CleanPatch DEF SystemRemoves
  <2>3. CASE SyncFails(p) \/ Crash(p)
    BY <2>3 DEF SyncFails, Crash, SystemRemoves
  <2> QED
    BY <1>1, <2>1, <2>2, <2>3, SyncSteps DEF SystemRemoves
<1>2. CleanInv /\ [Next]_vars =>
        [\A p \in Procs :
            SystemRemoves(p) /\ Clean /\ Fresh(p)
               => now >= listing'.expiresAt + Window]_vars
  BY <1>1
<1>3. Spec => []CleanInv
  BY CleanInit, CleanStep, PTL DEF Spec
<1> QED
  BY <1>2, <1>3, PTL DEF Spec, RemovalHonoursWindow

\* A repaired row is on the site or has its old status.
LEMMA RepairedStatus ==
    ASSUME NEW r \in Listing, NEW t \in Nat
    PROVE  Repaired(r, t).status \in {r.status, "approved"}
<1> DEFINE q == RepairStaleRenewal(r, t)
<1>1. q \in Listing
  BY RepairStaleType
<1>2. q.status \in {r.status, "approved"}
  BY DEF RepairStaleRenewal, Reopened, Listing
<1>3. RepairExtension(q).status \in {q.status, "approved"}
  <2> HIDE DEF q
  <2> QED
    BY <1>1 DEF RepairExtension, Reopened, Listing
<1> QED
  BY <1>2, <1>3 DEF Repaired

\* The PATCH of a sync treats rows that agree on a column alike.
LEMMA PatchAlike ==
    ASSUME NEW a \in Listing, NEW b \in Listing, NEW s \in Listing,
           NEW t \in Nat
    PROVE  LET x == SyncPatch(a, s, t)
               y == SyncPatch(b, s, t)
           IN  /\ a.expiresAt = b.expiresAt => x.expiresAt = y.expiresAt
               /\ a.expiredAt = b.expiredAt => x.expiredAt = y.expiredAt
               /\ a.retentionAt = b.retentionAt
                    => x.retentionAt = y.retentionAt
               /\ a.deadline = b.deadline => x.deadline = y.deadline
               /\ a.soldStatus = b.soldStatus
                    => x.soldStatus = y.soldStatus
               /\ a.soldSetAt = b.soldSetAt => x.soldSetAt = y.soldSetAt
               /\ a.deleted = b.deleted => x.deleted = y.deleted
               /\ a.autoRemoved = b.autoRemoved
                    => x.autoRemoved = y.autoRemoved
               /\ a.archived = b.archived => x.archived = y.archived
<1> DEFINE r == Repaired(s, t)
           c == Lifecycle(r, t)
           repaired == NeedsRepair(s, t)
           remove == Unanswered(r, t)
<1> DEFINE x == SyncPatch(a, s, t)
           y == SyncPatch(b, s, t)
<1>1. /\ x.expiresAt = IF repaired THEN r.expiresAt
                       ELSE IF r.expiresAt = Null THEN c.expiresAt
                       ELSE a.expiresAt
      /\ x.expiredAt = IF c.isExpired /\ r.expiredAt = Null
                       THEN c.expiredAt
                       ELSE IF repaired THEN Null ELSE a.expiredAt
      /\ x.retentionAt = IF r.retentionAt = Null THEN c.retentionAt
                         ELSE IF repaired THEN r.retentionAt
                         ELSE a.retentionAt
      /\ x.deadline = IF r.deadline = Null /\ c.deadline # Null
                      THEN c.deadline
                      ELSE IF repaired THEN Null ELSE a.deadline
      /\ x.soldStatus = IF ~remove THEN a.soldStatus
                        ELSE IF r.soldStatus # Null THEN r.soldStatus
                        ELSE "no_response"
      /\ x.soldSetAt = IF remove THEN t ELSE a.soldSetAt
      /\ x.deleted = (remove \/ a.deleted)
      /\ x.autoRemoved = IF remove THEN TRUE
                         ELSE ~repaired /\ a.autoRemoved
      /\ x.archived = IF c.isArchived /\ ~r.archived THEN TRUE
                      ELSE ~repaired /\ a.archived
  BY DEF SyncPatch, Listing
<1>2. /\ y.expiresAt = IF repaired THEN r.expiresAt
                       ELSE IF r.expiresAt = Null THEN c.expiresAt
                       ELSE b.expiresAt
      /\ y.expiredAt = IF c.isExpired /\ r.expiredAt = Null
                       THEN c.expiredAt
                       ELSE IF repaired THEN Null ELSE b.expiredAt
      /\ y.retentionAt = IF r.retentionAt = Null THEN c.retentionAt
                         ELSE IF repaired THEN r.retentionAt
                         ELSE b.retentionAt
      /\ y.deadline = IF r.deadline = Null /\ c.deadline # Null
                      THEN c.deadline
                      ELSE IF repaired THEN Null ELSE b.deadline
      /\ y.soldStatus = IF ~remove THEN b.soldStatus
                        ELSE IF r.soldStatus # Null THEN r.soldStatus
                        ELSE "no_response"
      /\ y.soldSetAt = IF remove THEN t ELSE b.soldSetAt
      /\ y.deleted = (remove \/ b.deleted)
      /\ y.autoRemoved = IF remove THEN TRUE
                         ELSE ~repaired /\ b.autoRemoved
      /\ y.archived = IF c.isArchived /\ ~r.archived THEN TRUE
                      ELSE ~repaired /\ b.archived
  BY DEF SyncPatch, Listing
<1> HIDE DEF r, c, repaired, remove, x, y
<1>3. /\ a.expiresAt = b.expiresAt => x.expiresAt = y.expiresAt
      /\ a.expiredAt = b.expiredAt => x.expiredAt = y.expiredAt
      /\ a.retentionAt = b.retentionAt => x.retentionAt = y.retentionAt
      /\ a.deadline = b.deadline => x.deadline = y.deadline
      /\ a.soldStatus = b.soldStatus => x.soldStatus = y.soldStatus
      /\ a.soldSetAt = b.soldSetAt => x.soldSetAt = y.soldSetAt
  BY <1>1, <1>2
<1>4. a.deleted = b.deleted => x.deleted = y.deleted
  BY <1>1, <1>2
<1>5. a.autoRemoved = b.autoRemoved => x.autoRemoved = y.autoRemoved
  BY <1>1, <1>2
<1>6. a.archived = b.archived => x.archived = y.archived
  BY <1>1, <1>2
<1> QED
  BY <1>3, <1>4, <1>5, <1>6 DEF x, y

\* The status a sync leaves.
LEMMA PatchStatus ==
    ASSUME NEW row \in Listing, NEW s \in Listing, NEW t \in Nat
    PROVE  LET r == Repaired(s, t)
           IN  SyncPatch(row, s, t).status =
                 IF Unanswered(r, t) THEN "deleted"
                 ELSE IF r.status # s.status \/ StaleRenewal(s, t)
                 THEN r.status ELSE row.status
BY DEF SyncPatch, Listing

\* The record a sync goes on with is p's view of the row it kept.
LEMMA SeenPatch ==
    ASSUME NEW p \in Procs, NEW b \in Listing, NEW t \in Nat
    PROVE  Seen(p, SyncPatch(b, Seen(p, b), t))
             = SyncPatch(Seen(p, b), Seen(p, b), t)
<1> DEFINE s == Seen(p, b)
           x == SyncPatch(b, s, t)
           y == SyncPatch(s, s, t)
<1>1. s \in Listing /\ x \in Listing /\ y \in Listing
  BY SeenType, SyncPatchType
<1>2. CASE task[p] = "sweep"
  <2>1. s = SweepColumns(b) /\ Seen(p, x) = SweepColumns(x)
    BY <1>2 DEF Seen
  <2>2. /\ s.status = b.status /\ s.expiresAt = b.expiresAt
        /\ s.expiredAt = b.expiredAt /\ s.retentionAt = b.retentionAt
        /\ s.deadline = b.deadline /\ s.soldStatus = b.soldStatus
        /\ s.soldSetAt = b.soldSetAt /\ s.archived = b.archived
        /\ s.deleted = b.deleted /\ s.autoRemoved = b.autoRemoved
        /\ s.reminderSent = b.reminderSent
        /\ s.expiredSent = b.expiredSent
        /\ s.isApproved = FALSE /\ s.extendedAt = Null
        /\ s.createdAt = Null
    BY <2>1 DEF SweepColumns, Listing
  <2> DEFINE z == SweepColumns(x)
  <2>3. /\ z.status = x.status /\ z.expiresAt = x.expiresAt
        /\ z.expiredAt = x.expiredAt /\ z.retentionAt = x.retentionAt
        /\ z.deadline = x.deadline /\ z.soldStatus = x.soldStatus
        /\ z.soldSetAt = x.soldSetAt /\ z.archived = x.archived
        /\ z.deleted = x.deleted /\ z.autoRemoved = x.autoRemoved
        /\ z.reminderSent = x.reminderSent
        /\ z.expiredSent = x.expiredSent
        /\ z.isApproved = FALSE /\ z.extendedAt = Null
        /\ z.createdAt = Null
    <3> HIDE DEF x, y
    <3> QED
      BY <1>1 DEF SweepColumns, Listing
  <2>4. z \in Listing
    BY <1>1, <2>1, SeenType
  <2> HIDE DEF z, s
  <2>5. x.status = y.status
    BY <1>1, <2>2, PatchStatus
  <2>6. y.isApproved = FALSE /\ y.extendedAt = Null /\ y.createdAt = Null
    BY <1>1, <2>2, PatchKeeps
  <2>7. z.reminderSent = y.reminderSent /\ z.expiredSent = y.expiredSent
    BY <1>1, <2>2, <2>3, PatchKeeps
  <2>8. /\ z.expiresAt = y.expiresAt /\ z.expiredAt = y.expiredAt
        /\ z.retentionAt = y.retentionAt /\ z.deadline = y.deadline
        /\ z.soldStatus = y.soldStatus /\ z.soldSetAt = y.soldSetAt
        /\ z.archived = y.archived /\ z.deleted = y.deleted
        /\ z.autoRemoved = y.autoRemoved
    BY <1>1, <2>2, <2>3, PatchAlike
  <2> HIDE DEF x, y
  <2>9. z = y
    BY <1>1, <2>3, <2>4, <2>5, <2>6, <2>7, <2>8, SameRow
  <2> QED
    BY <2>1, <2>9 DEF x, y, z, s
<1>3. CASE task[p] = "view"
  <2>1. s = RejectedAsDraft(b) /\ Seen(p, x) = RejectedAsDraft(x)
    BY <1>3 DEF Seen
  <2>2. /\ s.isApproved = b.isApproved /\ s.expiresAt = b.expiresAt
        /\ s.expiredAt = b.expiredAt /\ s.retentionAt = b.retentionAt
        /\ s.deadline = b.deadline /\ s.soldStatus = b.soldStatus
        /\ s.soldSetAt = b.soldSetAt /\ s.archived = b.archived
        /\ s.deleted = b.deleted /\ s.autoRemoved = b.autoRemoved
        /\ s.reminderSent = b.reminderSent
        /\ s.expiredSent = b.expiredSent
        /\ s.extendedAt = b.extendedAt /\ s.createdAt = b.createdAt
        /\ s.status # "rejected"
        /\ b.status # "rejected" => s.status = b.status
        /\ b.status = "rejected" => s.status = "draft"
    BY <2>1 DEF RejectedAsDraft, Listing
  <2> DEFINE z == RejectedAsDraft(x)
  <2>3. /\ z.isApproved = x.isApproved /\ z.expiresAt = x.expiresAt
        /\ z.expiredAt = x.expiredAt /\ z.retentionAt = x.retentionAt
        /\ z.deadline = x.deadline /\ z.soldStatus = x.soldStatus
        /\ z.soldSetAt = x.soldSetAt /\ z.archived = x.archived
        /\ z.deleted = x.deleted /\ z.autoRemoved = x.autoRemoved
        /\ z.reminderSent = x.reminderSent
        /\ z.expiredSent = x.expiredSent
        /\ z.extendedAt = x.extendedAt /\ z.createdAt = x.createdAt
        /\ z.status = IF x.status = "rejected" THEN "draft" ELSE x.status
    <3> HIDE DEF x
    <3> QED
      BY <1>1 DEF RejectedAsDraft, Listing
  <2>4. z \in Listing
    BY <1>1, <2>1, SeenType
  <2> HIDE DEF z, s
  <2>5. z.status = y.status
    BY <1>1, <2>2, <2>3, PatchStatus, RepairedStatus
  <2> HIDE DEF x, y
  <2>6. z = y
    BY <1>1, <2>2, <2>3, <2>4, <2>5, PatchAlike, PatchKeeps, SameRow
       DEF x, y
  <2> QED
    BY <2>1, <2>6 DEF x, y, z, s
<1>4. CASE task[p] \notin {"sweep", "view"}
  BY <1>4 DEF Seen
<1> QED
  BY <1>2, <1>3, <1>4

-----------------------------------------------------------------------------
(***************************************************************************)
(* A hard delete honours the retention period.                             *)
(***************************************************************************)

\* A process about to hard delete a row kept one whose retention period is
\* over, if the dates of the row it kept are clean.
PurgeDue ==
    \A p \in Procs :
        pc[p] = "purge" /\ CleanRow(base[p], now)
            => now >= ExpiryOrDefault(base[p], now) + Retention

\* A clean view is archived only when the retention period is over; the two
\* dates the view hides make no difference.
LEMMA ArchivedView ==
    ASSUME NEW p \in Procs, NEW b \in Listing, NEW t \in Nat,
           CleanRow(b, t), Lifecycle(Seen(p, b), t).isArchived,
           task[p] = "sweep" \/ Seen(p, b) = b
    PROVE  t >= ExpiryOrDefault(b, t) + Retention
<1> DEFINE s == Seen(p, b)
<1>1. s \in Listing /\ CleanRow(s, t)
  BY SeenType, CleanSeen
<1>2. s.expiresAt = b.expiresAt /\ s.archived = b.archived
  BY SeenColumns
<1>3. /\ Retention \in Nat /\ Expiry \in Nat \ {0} /\ Null \notin Nat
      /\ ExpiryOrDefault(s, t) \in Nat
      /\ b.expiresAt # Null => b.expiresAt \in Nat
  BY <1>1, ExpiryOrDefaultType, RulesAssumption, DateColumns, SetTime
<1>4. s.archived \/ t >= ExpiryOrDefault(s, t) + Retention
  BY <1>1, CleanLifecycle
<1>5. CASE b.expiresAt # Null
  <2>1. ExpiryOrDefault(s, t) = b.expiresAt
        /\ ExpiryOrDefault(b, t) = b.expiresAt
    BY <1>2, <1>5 DEF ExpiryOrDefault
  <2> QED
    BY <1>2, <1>3, <1>4, <1>5, <2>1 DEF CleanRow
<1>6. CASE b.expiresAt = Null
  <2>1. ~s.archived
    BY <1>2, <1>6 DEF CleanRow
  <2>2. CASE task[p] = "sweep"
    <3>1. s.createdAt = Null
      BY <2>2 DEF Seen, SweepColumns, Listing
    <3>2. ExpiryOrDefault(s, t) = t + Expiry
      BY <1>2, <1>6, <3>1 DEF ExpiryOrDefault
    <3> HIDE DEF s
    <3> QED
      BY <1>3, <1>4, <2>1, <3>2
  <2>3. CASE s = b
    BY <1>4, <2>1, <2>3
  <2> QED
    BY <2>2, <2>3
<1> QED
  BY <1>5, <1>6

\* With the clock the deadline of a row to be purged stays where it is.
LEMMA PurgeDueLater ==
    ASSUME NEW b \in Listing, NEW t \in Nat, NEW u \in Nat, u >= t,
           CleanRow(b, t) => t >= ExpiryOrDefault(b, t) + Retention,
           CleanRow(b, u)
    PROVE  u >= ExpiryOrDefault(b, u) + Retention
<1>1. /\ Retention \in Nat /\ Expiry \in Nat \ {0} /\ Null \notin Nat
      /\ b.expiresAt # Null => b.expiresAt \in Nat
      /\ b.createdAt # Null => b.createdAt \in Nat
  BY RulesAssumption, DateColumns, SetTime
<1>2. CASE b.archived
  BY <1>1, <1>2 DEF CleanRow, ExpiryOrDefault
<1>3. CASE ~b.archived
  <2>1. CleanRow(b, t)
    BY <1>3 DEF CleanRow
  <2> QED
    BY <1>1, <2>1 DEF ExpiryOrDefault
<1> QED
  BY <1>2, <1>3

\* Every step keeps what a process about to purge decided.
LEMMA PurgeDueStep ==
    ASSUME CleanInv, PurgeDue, [Next]_vars
    PROVE  PurgeDue'
<1> SUFFICES ASSUME NEW p \in Procs, pc'[p] = "purge",
                    CleanRow(base'[p], now')
             PROVE  now' >= ExpiryOrDefault(base'[p], now') + Retention
  BY DEF PurgeDue
<1>1. /\ TypeOK /\ TypeOK' /\ now \in Nat /\ now' \in Nat
      /\ pc \in [Procs -> Steps] /\ base'[p] \in Listing
  <2>1. TypeOK /\ TypeOK'
    BY TypeStep DEF CleanInv, ExtensionInv
  <2> QED
    BY <2>1 DEF TypeOK
<1>2. CASE Still(p)
  <2>1. now' >= now
    BY <1>1, QuietSteps, [Next]_vars
       DEF Next, vars, SweepRead, ViewRead, ScannerRead, ExtendRequest,
           OutcomeRequest, AdminRenewRequest, Fetch, ScannerClaim,
           SyncWrite, SyncFails, Claim, Purge, Crash, RenewWrite, Reload,
           RepairRenewed, DraftWrite, SoldWrite, RequestFails, Approve,
           ApproveOnly, Reject, Delete, AdminSold, SetExpiry, BlindWrite,
           HardDelete, Tick
  <2>2. base'[p] = base[p] /\ pc[p] = "purge"
    BY <1>2 DEF Still
  <2>3. CleanRow(base[p], now)
          => now >= ExpiryOrDefault(base[p], now) + Retention
    BY <2>2 DEF PurgeDue
  <2> QED
    BY <1>1, <2>1, <2>2, <2>3, PurgeDueLater
<1>3. CASE Starts(p)
  <2>1. /\ Lifecycle(listing, now).isArchived /\ base'[p] = listing
        /\ now' = now
    BY <1>3 DEF Starts
  <2>2. /\ CleanRow(listing, now) /\ listing \in Listing
        /\ Retention \in Nat /\ Null \notin Nat
    BY <1>1, <2>1, RulesAssumption
  <2>3. listing.archived
          \/ now >= ExpiryOrDefault(listing, now) + Retention
    BY <1>1, <2>1, <2>2, CleanLifecycle
  <2> QED
    BY <2>1, <2>2, <2>3 DEF CleanRow, ExpiryOrDefault
<1>4. CASE SyncWrite(p)
  <2> DEFINE s == Seen(p, base[p])
             b == SyncPatch(base[p], s, now)
  <2>1. base[p] \in Listing /\ s \in Listing /\ b \in Listing
    BY <1>1, <1>4, BaseType, SyncPatchType DEF SyncWrite
  <2>2. /\ task[p] = "sweep" /\ base'[p] = b /\ now' = now
        /\ Lifecycle(SyncPatch(s, s, now), now).isArchived
    BY <1>1, <1>4
       DEF SyncWrite, MailOrFinish, AfterSync, Goto, Return, TypeOK
  <2>3. Seen(p, b) = SyncPatch(s, s, now)
    BY <1>1, <2>1, SeenPatch
  <2> HIDE DEF b
  <2> QED
    BY <1>1, <2>1, <2>2, <2>3, ArchivedView
<1>5. CASE SyncFails(p)
  <2> DEFINE s == Seen(p, base[p])
  <2>1. base[p] \in Listing /\ s \in Listing
    BY <1>1, <1>5, BaseType DEF SyncFails
  <2>2. /\ task[p] = "sweep" /\ base'[p] = base[p] /\ now' = now
        /\ Lifecycle(Repaired(s, now), now).isArchived
    BY <1>1, <1>5
       DEF SyncFails, MailOrFinish, AfterSync, Goto, Return, TypeOK
  <2>3. CleanRow(s, now) /\ Repaired(s, now) = s
    BY <1>1, <2>1, <2>2, CleanSeen, CleanLifecycle
  <2> QED
    BY <1>1, <2>1, <2>2, <2>3, ArchivedView
<1>6. CASE \/ pc'[p] = "idle" \/ Claim(p)
           \/ p = "client" /\ (RenewWrite \/ Reload \/ RepairRenewed)
  BY <1>1, <1>6 DEF Claim, Goto, Return, RenewWrite, Reload, RepairRenewed
<1> QED
  BY <1>1, <1>2, <1>3, <1>4, <1>5, <1>6, OwnSteps

\* A hard delete by the sweep or by the extend request comes after the
\* retention period when the row is the one the handler decided on and its
\* lifecycle is clean: the decision is taken on an earlier read, and by the
\* sweep on a view without created_at and last_extended_at, yet neither the
\* clock, nor the sync's own PATCH, nor the hidden columns can make it wrong.
THEOREM RetentionHonoured == Spec => PurgeHonoursRetention
<1>1. ASSUME CleanInv, PurgeDue, [Next]_vars, NEW p \in Procs,
             StepOf(p, "purge"), present, ~present', Clean, Fresh(p)
      PROVE  now >= ExpiryOrDefault(listing, now) + Retention
  <2>1. CleanRow(listing, now) /\ base[p] = listing
    BY <1>1 DEF CleanInv, RowClean, Fresh
  <2>2. pc[p] = "purge"
    BY <1>1 DEF StepOf
  <2> QED
    BY <1>1, <2>1, <2>2 DEF PurgeDue
<1>2. CleanInv /\ PurgeDue /\ [Next]_vars =>
        [\A p \in Procs :
            StepOf(p, "purge") /\ present /\ ~present' /\ Clean /\ Fresh(p)
               => now >= ExpiryOrDefault(listing, now) + Retention]_vars
  BY <1>1
<1>3. Init => PurgeDue
  BY DEF Init, PurgeDue
<1> QED
  BY <1>2, <1>3, CleanInit, CleanStep, PurgeDueStep, PTL
     DEF Spec, PurgeHonoursRetention

-----------------------------------------------------------------------------
(***************************************************************************)
(* A verified renewal lasts.                                               *)
(***************************************************************************)

\* An outcome "renewed" carries the date it was chosen.
Dated(r) == r.soldStatus = "not_sold_renew" => r.soldSetAt # Null

\* The row and every copy of it in a process's memory do.
RenewalDated ==
    /\ Dated(listing)
    /\ \A p \in Procs : pc[p] # "idle" => Dated(base[p])

\* While a renewal waits to be verified the client runs the verification,
\* the row it is about to sync was not deleted when it reloaded it, and a
\* row that still shows the renewal shows its date.
RenewalShown ==
    renewedAt # Null
        => /\ "client" \in Procs
           /\ task["client"] = "verify"
           /\ pc["client"] \in {"reload", "repair", "refetch", "sync"}
           /\ pc["client"] = "sync" => ~IsDeleted(base["client"])
           /\ present => listing.extendedAt = renewedAt
           /\ present /\ listing.soldStatus = "not_sold_renew"
                => listing.soldSetAt = renewedAt

RenewalInv == ExtensionInv /\ RenewalDated /\ RenewalShown

\* A sync never turns an outcome into a renewal, nor moves its date.
LEMMA PatchDated ==
    ASSUME NEW row \in Listing, NEW s \in Listing, NEW t \in Nat, Dated(s),
           SyncPatch(row, s, t).soldStatus = "not_sold_renew"
    PROVE  /\ row.soldStatus = "not_sold_renew"
           /\ SyncPatch(row, s, t).soldSetAt = row.soldSetAt
<1> DEFINE r == Repaired(s, t)
           remove == Unanswered(r, t)
           q == SyncPatch(row, s, t)
<1>1. r.soldStatus = s.soldStatus /\ r.soldSetAt = s.soldSetAt
  <2> DEFINE u == RepairStaleRenewal(s, t)
  <2>1. /\ u.soldStatus = s.soldStatus /\ u.soldSetAt = s.soldSetAt
        /\ u \in Listing
    BY RepairStaleType DEF RepairStaleRenewal, Reopened, Listing
  <2>2. r = RepairExtension(u)
    BY DEF Repaired
  <2> HIDE DEF u, r
  <2> QED
    BY <2>1, <2>2 DEF RepairExtension, Reopened, Listing
<1>2. /\ q.soldStatus = IF ~remove THEN row.soldStatus
                        ELSE IF r.soldStatus # Null THEN r.soldStatus
                        ELSE "no_response"
      /\ q.soldSetAt = IF remove THEN t ELSE row.soldSetAt
  BY DEF SyncPatch, Listing
<1>3. remove => r.soldSetAt = Null
  BY DEF Unanswered
<1> HIDE DEF r, remove, q
<1>4. ~remove
  BY <1>1, <1>2, <1>3, NullIsNoOutcome DEF Dated, q
<1> QED
  BY <1>2, <1>4 DEF q

\* The row keeps its extension and, if it shows one, its renewal under every
\* step but the client's writes.
LEMMA OutcomeKept ==
    ASSUME RenewalInv, [Next]_vars,
           ~(RenewWrite \/ DraftWrite \/ RepairRenewed)
    PROVE  /\ listing'.extendedAt = listing.extendedAt
           /\ listing'.soldStatus = "not_sold_renew"
                => /\ listing.soldStatus = "not_sold_renew"
                   /\ listing'.soldSetAt = listing.soldSetAt
           /\ present' => present
<1>1. /\ listing \in Listing /\ now \in Nat /\ TypeOK
  BY DEF RenewalInv, ExtensionInv, TypeOK
<1>2. CASE listing' = listing /\ (present' => present)
  BY <1>2
<1>3. CASE \/ UNCHANGED vars \/ HardDelete \/ Tick
           \/ SweepRead \/ ViewRead \/ ScannerRead
           \/ ExtendRequest \/ OutcomeRequest \/ AdminRenewRequest
           \/ Reload \/ RequestFails
           \/ \E p \in Procs : SyncFails(p) \/ Purge(p) \/ Crash(p)
  BY <1>2, <1>3 DEF vars, HardDelete, Tick, SweepRead, ViewRead,
     ScannerRead, ExtendRequest, OutcomeRequest, AdminRenewRequest, Fetch,
     Reload, RequestFails, SyncFails, Purge, Crash
<1>4. CASE ScannerClaim \/ \E p \in Procs : Claim(p)
  <2>1. \/ listing' = listing
        \/ \E e : listing' = [listing EXCEPT !.expiredSent = TRUE,
                                             !.expiredAt = e]
        \/ listing' = [listing EXCEPT !.expiredSent = TRUE]
        \/ listing' = [listing EXCEPT !.reminderSent = TRUE]
    BY <1>4 DEF ScannerClaim, Claim
  <2>2. present' = present
    BY <1>4 DEF ScannerClaim, Claim
  <2> QED
    BY <1>1, <2>1, <2>2 DEF Listing
<1>5. CASE ApproveOnly \/ Reject \/ Delete
  <2>1. \/ listing' = [listing EXCEPT !.status = "approved",
                                      !.isApproved = TRUE]
        \/ \E a : listing' = [listing EXCEPT !.status = "rejected",
                                             !.isApproved = a]
        \/ listing' = [listing EXCEPT !.status = "deleted",
                                      !.deleted = TRUE,
                                      !.autoRemoved = FALSE]
        \/ listing' = [listing EXCEPT !.status = "deleted",
                                      !.deleted = TRUE,
                                      !.isApproved = FALSE]
    BY <1>5 DEF ApproveOnly, Reject, Delete, BlindWrite
  <2>2. present' = present
    BY <1>5 DEF ApproveOnly, Reject, Delete, BlindWrite
  <2> QED
    BY <1>1, <2>1, <2>2 DEF Listing
<1>6. CASE SoldWrite \/ AdminSold
  <2>1. PICK outcome \in Outcomes :
          \/ listing' = MarkedSold(listing, outcome, now)
          \/ listing' = [MarkedSold(listing, outcome, now) EXCEPT
                            !.isApproved = FALSE]
          \/ listing' = listing
    BY <1>6 DEF SoldWrite, AdminSold, Write, BlindWrite
  <2>2. outcome # "not_sold_renew"
    BY LifecycleAssumption, NullIsNoOutcome
  <2>3. present' = present
    BY <1>6 DEF SoldWrite, AdminSold, Write, BlindWrite
  <2>4. /\ listing'.extendedAt = listing.extendedAt
        /\ listing' = listing \/ listing'.soldStatus = outcome
    BY <1>1, <2>1 DEF MarkedSold, Listing
  <2> QED
    BY <2>2, <2>3, <2>4
<1>7. CASE Approve
  <2>1. listing' = Approved(listing, now) /\ present' = present
    BY <1>7 DEF Approve, BlindWrite
  <2> QED
    BY <1>1, <2>1, NullIsNoOutcome DEF Approved, FreshCycle, Listing
<1>8. CASE SetExpiry
  <2>1. PICK days \in CustomDays : listing' = WithExpiry(listing, now + days)
    BY <1>8 DEF SetExpiry, BlindWrite
  <2>2. present' = present
    BY <1>8 DEF SetExpiry, BlindWrite
  <2> QED
    BY <1>1, <2>1, <2>2 DEF WithExpiry, Listing
<1>9. ASSUME NEW p \in Procs, SyncWrite(p)
      PROVE  /\ listing'.extendedAt = listing.extendedAt
             /\ listing'.soldStatus = "not_sold_renew"
                  => /\ listing.soldStatus = "not_sold_renew"
                     /\ listing'.soldSetAt = listing.soldSetAt
             /\ present' => present
  <2> DEFINE s == Seen(p, base[p])
  <2>1. base[p] \in Listing /\ s \in Listing /\ pc[p] # "idle"
    BY <1>1, <1>9, BaseType DEF SyncWrite
  <2>2. Dated(s)
    BY <2>1, SeenColumns DEF RenewalInv, RenewalDated, Dated
  <2>3. /\ listing' \in {listing, SyncPatch(listing, s, now)}
        /\ present' = present
    BY <1>9 DEF SyncWrite, Write
  <2> HIDE DEF s
  <2> QED
    BY <1>1, <2>1, <2>2, <2>3, PatchDated, PatchKeeps
<1> QED
  BY <1>3, <1>4, <1>5, <1>6, <1>7, <1>8, <1>9 DEF Next

\* Every step keeps the date of an outcome "renewed", on the row and in memory.
LEMMA DatedStep ==
    ASSUME RenewalInv, [Next]_vars
    PROVE  RenewalDated'
<1>1. /\ TypeOK /\ TypeOK' /\ listing \in Listing /\ now \in Nat
  <2>1. TypeOK /\ TypeOK'
    BY TypeStep DEF RenewalInv, ExtensionInv
  <2> QED
    BY <2>1 DEF TypeOK
<1>2. Dated(listing')
  <2>1. CASE ~(RenewWrite \/ DraftWrite \/ RepairRenewed)
    BY <2>1, OutcomeKept DEF RenewalInv, RenewalDated, Dated
  <2>2. CASE RenewWrite
    <3>1. PICK e : listing' \in {listing, Renewed(listing, e, now)}
      BY <2>2 DEF RenewWrite, Write
    <3>2. Renewed(listing, e, now).soldSetAt # Null
      BY <1>1, RulesAssumption DEF Renewed, FreshCycle, Listing
    <3> QED
      BY <3>1, <3>2 DEF RenewalInv, RenewalDated, Dated
  <2>3. CASE DraftWrite
    <3>1. PICK e : listing' \in {listing, MovedToDraft(listing, e, now)}
      BY <2>3 DEF DraftWrite, Write
    <3>2. MovedToDraft(listing, e, now).soldStatus = Null
      BY <1>1 DEF MovedToDraft, FreshCycle, Listing
    <3> QED
      BY <3>1, <3>2, NullIsNoOutcome DEF RenewalInv, RenewalDated, Dated
  <2>4. CASE RepairRenewed
    <3>1. renewedAt \in Nat
      BY <2>4 DEF RepairRenewed, RenewalInv, ExtensionInv, RenewalInHand,
                  Verifying
    <3>2. PICK e : listing' \in {listing, [Reopened(listing, e) EXCEPT
                     !.soldStatus = "not_sold_renew",
                     !.soldSetAt = renewedAt, !.extendedAt = renewedAt]}
      BY <2>4 DEF RepairRenewed, Write
    <3>3. listing'.soldSetAt \in {listing.soldSetAt, renewedAt}
          /\ (listing'.soldSetAt = renewedAt \/ listing' = listing)
      BY <1>1, <3>2 DEF Reopened, Listing
    <3> QED
      BY <3>1, <3>3, RulesAssumption DEF RenewalInv, RenewalDated, Dated
  <2> QED
    BY <2>1, <2>2, <2>3, <2>4
<1>3. ASSUME NEW p \in Procs, pc'[p] # "idle"
      PROVE  Dated(base'[p])
  <2>1. CASE Still(p)
    BY <1>3, <2>1 DEF Still, RenewalInv, RenewalDated
  <2>2. CASE Starts(p)
    BY <2>2 DEF Starts, RenewalInv, RenewalDated
  <2>3. CASE SyncWrite(p)
    <3> DEFINE s == Seen(p, base[p])
    <3>1. base[p] \in Listing /\ s \in Listing /\ Dated(base[p])
      BY <1>1, <2>3, BaseType DEF SyncWrite, RenewalInv, RenewalDated
    <3>2. Dated(s)
      BY <3>1, SeenColumns DEF Dated
    <3>3. base'[p] = SyncPatch(base[p], s, now)
      BY <1>1, <1>3, <2>3
         DEF SyncWrite, MailOrFinish, AfterSync, Goto, Return, TypeOK
    <3> HIDE DEF s
    <3> QED
      BY <1>1, <3>1, <3>2, <3>3, PatchDated DEF Dated
  <2>4. CASE SyncFails(p)
    BY <1>1, <1>3, <2>4
       DEF SyncFails, MailOrFinish, AfterSync, Goto, Return, TypeOK,
           RenewalInv, RenewalDated
  <2>5. CASE Claim(p)
    <3>1. base'[p] \in {listing', base[p]} /\ pc[p] # "idle"
      BY <1>1, <1>3, <2>5 DEF Claim, Goto, Return, TypeOK
    <3> QED
      BY <1>2, <3>1 DEF RenewalInv, RenewalDated
  <2>6. CASE p = "client" /\ (RenewWrite \/ RepairRenewed)
    <3>1. base'[p] = base[p] /\ pc[p] # "idle"
      BY <1>1, <2>6 DEF RenewWrite, RepairRenewed, Goto, TypeOK
    <3> QED
      BY <3>1 DEF RenewalInv, RenewalDated
  <2>7. CASE p = "client" /\ Reload
    <3>1. base'[p] = listing
      BY <1>1, <1>3, <2>7 DEF Reload, Goto, Return, TypeOK
    <3> QED
      BY <3>1 DEF RenewalInv, RenewalDated
  <2> QED
    BY <1>1, <1>3, <2>1, <2>2, <2>3, <2>4, <2>5, <2>6, <2>7, OwnSteps
<1> QED
  BY <1>2, <1>3 DEF RenewalDated

\* Every step keeps what the client knows of the renewal it verifies.
LEMMA ShownStep ==
    ASSUME RenewalInv, [Next]_vars
    PROVE  RenewalShown'
<1> DEFINE c == "client"
<1> SUFFICES ASSUME renewedAt' # Null
             PROVE  /\ c \in Procs
                    /\ task'[c] = "verify"
                    /\ pc'[c] \in {"reload", "repair", "refetch", "sync"}
                    /\ pc'[c] = "sync" => ~IsDeleted(base'[c])
                    /\ present' => listing'.extendedAt = renewedAt'
                    /\ present' /\ listing'.soldStatus = "not_sold_renew"
                         => listing'.soldSetAt = renewedAt'
  BY DEF RenewalShown
<1>1. /\ TypeOK /\ listing \in Listing /\ now \in Nat
      /\ pc \in [Procs -> Steps] /\ base \in [Procs -> Listing \cup {Null}]
      /\ task \in [Procs -> Tasks]
  BY DEF RenewalInv, ExtensionInv, TypeOK
<1>2. CASE RenewWrite
  <2>1. /\ c \in Procs /\ renewedAt' = now
        /\ pc'[c] = "reload" /\ task'[c] = "verify"
    BY <1>1, <1>2 DEF RenewWrite
  <2>2. PICK e : present => listing' = Renewed(listing, e, now)
    BY <1>2 DEF RenewWrite, Write
  <2>3. present' = present
    BY <1>2 DEF RenewWrite, Write
  <2> QED
    BY <1>1, <2>1, <2>2, <2>3 DEF Renewed, FreshCycle, Listing
<1>3. CASE RepairRenewed
  <2>1. /\ c \in Procs /\ renewedAt' = renewedAt
        /\ pc'[c] = "refetch" /\ task'[c] = task[c]
    BY <1>1, <1>3 DEF RepairRenewed, Goto
  <2>2. PICK e : present => listing' = [Reopened(listing, e) EXCEPT
                     !.soldStatus = "not_sold_renew",
                     !.soldSetAt = renewedAt, !.extendedAt = renewedAt]
    BY <1>3 DEF RepairRenewed, Write
  <2>3. present' = present
    BY <1>3 DEF RepairRenewed, Write
  <2>4. task[c] = "verify"
    BY <2>1 DEF RenewalInv, RenewalShown
  <2> QED
    BY <1>1, <2>1, <2>2, <2>3, <2>4 DEF Reopened, Listing
<1>4. CASE DraftWrite \/ SoldWrite \/ RequestFails
  BY <1>4 DEF DraftWrite, SoldWrite, RequestFails, RenewalInv, RenewalShown
<1>5. CASE ~(RenewWrite \/ DraftWrite \/ RepairRenewed)
  <2>1. /\ listing'.extendedAt = listing.extendedAt
        /\ listing'.soldStatus = "not_sold_renew"
             => /\ listing.soldStatus = "not_sold_renew"
                /\ listing'.soldSetAt = listing.soldSetAt
        /\ present' => present
    BY <1>5, OutcomeKept
  <2>2. renewedAt' = renewedAt
    BY <1>5, [Next]_vars
       DEF Next, vars, SweepRead, ViewRead, ScannerRead, ExtendRequest,
           OutcomeRequest, AdminRenewRequest, Fetch, ScannerClaim,
           SyncWrite, SyncFails, Claim, Purge, Crash, Reload, SoldWrite,
           RequestFails, Approve, ApproveOnly, Reject, Delete, AdminSold,
           SetExpiry, BlindWrite, HardDelete, Tick
  <2>3. /\ c \in Procs /\ task[c] = "verify"
        /\ pc[c] \in {"reload", "repair", "refetch", "sync"}
        /\ pc[c] = "sync" => ~IsDeleted(base[c])
        /\ present => listing.extendedAt = renewedAt
        /\ present /\ listing.soldStatus = "not_sold_renew"
             => listing.soldSetAt = renewedAt
    BY <2>2 DEF RenewalInv, RenewalShown
  <2>4. CASE Still(c)
    BY <2>1, <2>2, <2>3, <2>4 DEF Still
  <2>5. CASE Reload
    <3>1. /\ ~IsDeleted(listing) /\ base'[c] = listing
          /\ pc'[c] \in {"repair", "sync"} /\ task'[c] = task[c]
      BY <1>1, <2>5 DEF Reload, Goto
    <3> QED
      BY <2>1, <2>2, <2>3, <3>1
  <2>6. ~(Starts(c) \/ SyncWrite(c) \/ SyncFails(c) \/ Claim(c))
    BY <2>3 DEF Starts, SyncWrite, SyncFails, Claim
  <2>7. CASE pc'[c] = "idle" /\ ~Still(c) /\ ~Reload
    <3>1. renewedAt' = Null
      BY <1>1, <1>5, <2>3, <2>7, [Next]_vars
         DEF Next, vars, SweepRead, ViewRead, ScannerRead, ExtendRequest,
             OutcomeRequest, AdminRenewRequest, Fetch, ScannerClaim,
             SyncWrite, SyncFails, Claim, Purge, Crash, SoldWrite,
             RequestFails, Approve, ApproveOnly, Reject, Delete, AdminSold,
             SetExpiry, BlindWrite, HardDelete, Tick, Still, Return, Goto,
             MailOrFinish, AfterSync
    <3> QED
      BY <3>1
  <2> QED
    BY <1>1, <1>5, <2>3, <2>4, <2>5, <2>6, <2>7, OwnSteps
<1> QED
  BY <1>2, <1>3, <1>4, <1>5

\* The invariant of the renewal is inductive.
LEMMA RenewalStep ==
    ASSUME RenewalInv, [Next]_vars
    PROVE  RenewalInv'
BY ExtensionStep, DatedStep, ShownStep DEF RenewalInv

\* Nothing is renewed to begin with.
LEMMA RenewalInit == Init => RenewalInv
<1> SUFFICES ASSUME Init
             PROVE  RenewalInv
  OBVIOUS
<1>1. Dated(listing)
  BY LifecycleAssumption, NullIsNoOutcome DEF Init, Inserted, Dated
<1> QED
  BY <1>1, ExtensionInit DEF Init, RenewalInv, RenewalDated, RenewalShown

\* What the sync does to a row that shows a renewal of date n.
LEMMA RenewedPatch ==
    ASSUME NEW s \in Listing, NEW t \in Nat, NEW n \in Nat,
           s.soldStatus = "not_sold_renew", s.soldSetAt = n,
           s.extendedAt = n, ~IsDeleted(s), s.expiresAt # Null
    PROVE  LET q == SyncPatch(s, s, t)
           IN  /\ ~IsDeleted(q)
               /\ q.status \notin ActiveStatuses \/ q.expiresAt >= n + Expiry
<1> DEFINE q == SyncPatch(s, s, t)
           u == RepairStaleRenewal(s, t)
           r == Repaired(s, t)
<1>1. /\ s.expiresAt \in Nat /\ Expiry \in Nat \ {0} /\ Null \notin Nat
      /\ s.status # "deleted" /\ ~s.deleted
  BY DateColumns, SetTime, RulesAssumption DEF IsDeleted
<1>2. RenewalAt(s) = n /\ ExpiryOrDefault(s, t) = s.expiresAt
  BY <1>1 DEF RenewalAt, Later, ExpiryOrDefault
<1>3. /\ u.soldSetAt = n /\ u.extendedAt = n /\ ~u.deleted
      /\ u.status \in {s.status, "approved"} /\ u.expiresAt \in Nat
      /\ u \in Listing
      /\ u.status \in TerminalStatuses \/ u.expiresAt >= n + Expiry
  <2>1. CASE StaleRenewal(s, t)
    <3> DEFINE e == Later(s.expiresAt, n) + Expiry
    <3>1. u = Reopened(s, e) /\ u \in Listing
      BY <1>2, <2>1, RepairStaleType DEF RepairStaleRenewal
    <3>2. Later(s.expiresAt, n) \in Nat /\ Later(s.expiresAt, n) >= n
      BY <1>1, LaterType
    <3> HIDE DEF u
    <3>3. /\ u.expiresAt = e /\ u.status = "approved"
          /\ u.soldSetAt = n /\ u.extendedAt = n /\ u.deleted = s.deleted
      BY <3>1 DEF Reopened, Listing
    <3> QED
      BY <1>1, <3>1, <3>2, <3>3
  <2>2. CASE ~StaleRenewal(s, t)
    <3>1. u = s
      BY <2>2 DEF RepairStaleRenewal
    <3> HIDE DEF u
    <3> QED
      BY <1>1, <1>2, <2>2, <3>1 DEF StaleRenewal
  <2> QED
    BY <2>1, <2>2
<1> HIDE DEF u
<1>4. /\ r.soldSetAt = n /\ ~r.deleted
      /\ r.status \in {s.status, "approved"} /\ r.expiresAt \in Nat
      /\ r.status \in TerminalStatuses \/ r.expiresAt >= n + Expiry
  <2>1. r = RepairExtension(u)
    BY DEF Repaired, u
  <2>2. CASE ExtendedPastExpiry(u)
    <3>1. r = Reopened(u, n + Expiry)
      BY <1>3, <2>1, <2>2 DEF RepairExtension
    <3> HIDE DEF r
    <3> QED
      BY <1>1, <1>3, <3>1 DEF Reopened, Listing
  <2>3. CASE ~ExtendedPastExpiry(u)
    <3>1. r = u
      BY <2>1, <2>3 DEF RepairExtension
    <3> HIDE DEF r
    <3> QED
      BY <1>3, <3>1
  <2> QED
    BY <2>2, <2>3
<1>5. ~Unanswered(r, t)
  BY <1>1, <1>4 DEF Unanswered
<1>6. ~NeedsRepair(s, t) => r = s
  BY DEF NeedsRepair, Repaired, RepairStaleRenewal, RepairExtension
<1>7. /\ q.deleted = (Unanswered(r, t) \/ s.deleted)
      /\ q.status = IF Unanswered(r, t) THEN "deleted"
                    ELSE IF r.status # s.status \/ StaleRenewal(s, t)
                    THEN r.status ELSE s.status
      /\ q.expiresAt = IF NeedsRepair(s, t) THEN r.expiresAt
                       ELSE IF r.expiresAt = Null
                       THEN Lifecycle(r, t).expiresAt ELSE s.expiresAt
  BY DEF SyncPatch, Listing
<1> HIDE DEF q, r
<1>8. q.expiresAt = r.expiresAt /\ q.status = r.status /\ ~q.deleted
  BY <1>1, <1>4, <1>5, <1>6, <1>7
<1>9. q.status # "deleted"
  BY <1>1, <1>4, <1>8
<1>10. q.status \in ActiveStatuses => q.status \notin TerminalStatuses
  BY DEF ActiveStatuses, TerminalStatuses
<1> QED
  BY <1>4, <1>8, <1>9, <1>10 DEF IsDeleted, q

\* A renewal that _renew_listing_and_verify verifies lasts for a full period
\* from the renewal, whatever else happens between its PATCH, its two reloads
\* and its repair: the row synced last either shows this renewal with its
\* date, or no renewal at all.
THEOREM RenewalLasts == Spec => RenewalPersisted
<1>1. ASSUME RenewalInv, [Next]_vars, "client" \in Procs,
             StepOf("client", "sync"), renewedAt # Null, faults' = faults,
             Fresh("client"), listing.soldStatus = "not_sold_renew"
      PROVE  /\ ~IsDeleted(listing')
             /\ \/ listing'.status \notin ActiveStatuses
                \/ listing'.expiresAt >= renewedAt + Expiry
  <2> DEFINE c == "client"
  <2>1. /\ TypeOK /\ listing \in Listing /\ now \in Nat /\ pc[c] = "sync"
        /\ faults \in 0 .. MaxFaults /\ MaxFaults \in Nat
        /\ present /\ base[c] = listing
        /\ renewedAt \in Nat
    <3>1. TypeOK /\ renewedAt \in OptTime
      BY <1>1 DEF RenewalInv, ExtensionInv, TypeOK
    <3> QED
      BY <1>1, <3>1, SetTime, LifecycleAssumption DEF TypeOK, StepOf, Fresh
  <2>2. /\ task[c] = "verify" /\ ~IsDeleted(listing)
        /\ listing.extendedAt = renewedAt /\ listing.soldSetAt = renewedAt
        /\ listing.expiresAt # Null
    BY <1>1, <2>1, RulesAssumption
       DEF RenewalInv, RenewalShown, ExtensionInv, ExtensionPast
  <2>3. SyncWrite(c)
    <3>1. faults + 1 # faults
      BY <2>1
    <3>2. ~Fault
      BY <1>1, <3>1 DEF Fault
    <3>3. ~(SyncFails(c) \/ Crash(c))
      BY <3>2 DEF SyncFails, Crash
    <3> QED
      BY <1>1, <2>1, <3>3, SyncSteps
  <2>4. Seen(c, listing) = listing
    BY <2>2 DEF Seen
  <2>5. listing' = SyncPatch(listing, listing, now)
    BY <2>1, <2>3, <2>4 DEF SyncWrite, Write
  <2> QED
    BY <1>1, <2>1, <2>2, <2>5, RenewedPatch
<1>2. RenewalInv /\ [Next]_vars =>
        [/\ "client" \in Procs
         /\ StepOf("client", "sync")
         /\ renewedAt # Null
         /\ faults' = faults
         /\ Fresh("client")
         /\ listing.soldStatus = "not_sold_renew"
         => /\ ~IsDeleted(listing')
            /\ \/ listing'.status \notin ActiveStatuses
               \/ listing'.expiresAt >= renewedAt + Expiry]_vars
  BY <1>1
<1>3. Spec => []RenewalInv
  BY RenewalInit, RenewalStep, PTL DEF Spec
<1> QED
  BY <1>2, <1>3, PTL DEF Spec, RenewalPersisted

-----------------------------------------------------------------------------
(***************************************************************************)
(* One "expired" notice per expiry date.                                   *)
(***************************************************************************)

\* The expiry of the derived view, from the columns it is derived from.
LEMMA LifecycleExpiry ==
    ASSUME NEW r \in Listing, NEW t \in Nat
    PROVE  Lifecycle(r, t).expiresAt =
             IF StaleRenewal(r, t)
             THEN Later(ExpiryOrDefault(r, t), RenewalAt(r)) + Expiry
             ELSE IF /\ r.extendedAt # Null
                     /\ ExpiryOrDefault(r, t) <= r.extendedAt
                     /\ r.status = "approved"
             THEN r.extendedAt + Expiry
             ELSE ExpiryOrDefault(r, t)
<1> DEFINE d == ExpiryOrDefault(r, t)
           b == ExpiryOrDefault(RepairStaleRenewal(r, t), t)
           extended == /\ r.extendedAt # Null
                       /\ b <= r.extendedAt
                       /\ r.status = "approved"
<1>1. Lifecycle(r, t).expiresAt = IF extended THEN r.extendedAt + Expiry ELSE b
  BY DEF Lifecycle
<1>2. CASE StaleRenewal(r, t)
  <2> DEFINE e == Later(d, RenewalAt(r)) + Expiry
  <2>1. /\ d \in Nat /\ RenewalAt(r) \in Nat /\ Expiry \in Nat \ {0}
        /\ r.extendedAt # Null => /\ r.extendedAt \in Nat
                                  /\ r.extendedAt <= RenewalAt(r)
    BY <1>2, ExpiryOrDefaultType, RenewalAtBounds, RulesAssumption,
       DateColumns, SetTime DEF StaleRenewal
  <2>2. Later(d, RenewalAt(r)) \in Nat /\ Later(d, RenewalAt(r)) >= RenewalAt(r)
    BY <2>1, LaterType
  <2>3. e # Null
    BY <2>1, <2>2, RulesAssumption
  <2>4. b = e
    BY <1>2, <2>3 DEF RepairStaleRenewal, Reopened, ExpiryOrDefault, Listing
  <2> HIDE DEF b
  <2>5. ~extended
    BY <2>1, <2>2, <2>4
  <2> QED
    BY <1>1, <1>2, <2>4, <2>5
<1>3. CASE ~StaleRenewal(r, t)
  <2>1. b = d
    BY <1>3 DEF RepairStaleRenewal
  <2> QED
    BY <1>1, <1>3, <2>1
<1> QED
  BY <1>2, <1>3

\* A repair leaves these columns alone.
LEMMA RepairedKeeps ==
    ASSUME NEW s \in Listing, NEW t \in Nat
    PROVE  /\ Repaired(s, t).soldStatus = s.soldStatus
           /\ Repaired(s, t).soldSetAt = s.soldSetAt
           /\ Repaired(s, t).extendedAt = s.extendedAt
           /\ Repaired(s, t).createdAt = s.createdAt
           /\ Repaired(s, t).deleted = s.deleted
<1> DEFINE u == RepairStaleRenewal(s, t)
<1>1. /\ u.soldStatus = s.soldStatus /\ u.soldSetAt = s.soldSetAt
      /\ u.extendedAt = s.extendedAt /\ u.createdAt = s.createdAt
      /\ u.deleted = s.deleted /\ u \in Listing
  BY RepairStaleType DEF RepairStaleRenewal, Reopened, Listing
<1> HIDE DEF u
<1>2. LET r == RepairExtension(u)
      IN  /\ r.soldStatus = u.soldStatus /\ r.soldSetAt = u.soldSetAt
          /\ r.extendedAt = u.extendedAt /\ r.createdAt = u.createdAt
          /\ r.deleted = u.deleted
  BY <1>1 DEF RepairExtension, Reopened, Listing
<1> QED
  BY <1>1, <1>2 DEF Repaired, u

\* Rows that agree on these columns have the same derived expiry.
LEMMA ExpiryAlike ==
    ASSUME NEW a \in Listing, NEW b \in Listing, NEW t \in Nat,
           a.status = b.status, a.soldStatus = b.soldStatus,
           a.soldSetAt = b.soldSetAt, a.extendedAt = b.extendedAt,
           a.createdAt = b.createdAt, a.deleted = b.deleted,
           a.expiresAt = b.expiresAt
    PROVE  Lifecycle(a, t).expiresAt = Lifecycle(b, t).expiresAt
<1>1. ExpiryOrDefault(a, t) = ExpiryOrDefault(b, t)
  BY DEF ExpiryOrDefault
<1>2. RenewalAt(a) = RenewalAt(b)
  BY DEF RenewalAt
<1>3. StaleRenewal(a, t) = StaleRenewal(b, t)
  BY <1>1, <1>2 DEF StaleRenewal
<1> QED
  BY <1>1, <1>2, <1>3, LifecycleExpiry

\* Repairing a row does not bring its derived expiry forward.
LEMMA RepairedExpiry ==
    ASSUME NEW s \in Listing, NEW t \in Nat
    PROVE  Lifecycle(s, t).expiresAt <= Lifecycle(Repaired(s, t), t).expiresAt
<1> DEFINE u == RepairStaleRenewal(s, t)
           r == Repaired(s, t)
<1>1. u \in Listing /\ r \in Listing /\ r = RepairExtension(u)
  BY RepairStaleType, RepairedType DEF Repaired
<1>2. /\ Lifecycle(s, t).expiresAt \in Nat
      /\ Lifecycle(r, t).expiresAt \in Nat
      /\ Expiry \in Nat \ {0} /\ Null \notin Nat
  BY <1>1, LifecycleType, RulesAssumption
<1>3. CASE r = s
  BY <1>2, <1>3
<1>4. CASE StaleRenewal(s, t)
  <2> DEFINE d == ExpiryOrDefault(s, t)
             y == RenewalAt(s)
             e == Later(d, y) + Expiry
  <2>1. /\ d \in Nat /\ y \in Nat /\ Later(d, y) \in Nat
        /\ Later(d, y) >= d /\ Later(d, y) >= y
        /\ s.extendedAt # Null => s.extendedAt \in Nat /\ s.extendedAt <= y
    BY <1>4, ExpiryOrDefaultType, RenewalAtBounds, LaterType, DateColumns,
       SetTime DEF StaleRenewal
  <2>2. u = Reopened(s, e)
    BY <1>4 DEF RepairStaleRenewal
  <2>3. /\ u.expiresAt = e /\ u.extendedAt = s.extendedAt
        /\ u.soldSetAt = s.soldSetAt
    BY <2>2 DEF Reopened, Listing
  <2> HIDE DEF u, d
  <2>4. ~ExtendedPastExpiry(u)
    BY <1>2, <2>1, <2>3 DEF ExtendedPastExpiry
  <2>5. r = u
    BY <1>1, <2>4 DEF RepairExtension
  <2>6. RenewalAt(u) = y /\ ExpiryOrDefault(u, t) = e
    BY <1>2, <2>1, <2>3 DEF RenewalAt, ExpiryOrDefault
  <2>7. ~StaleRenewal(u, t)
    BY <1>2, <2>1, <2>6 DEF StaleRenewal
  <2>8. Lifecycle(u, t).expiresAt = e
    BY <1>1, <1>2, <2>1, <2>3, <2>6, <2>7, LifecycleExpiry
  <2>9. Lifecycle(s, t).expiresAt = e
    BY <1>4, LifecycleExpiry DEF d
  <2> QED
    BY <1>2, <2>5, <2>8, <2>9
<1>5. CASE ~StaleRenewal(s, t) /\ r # s
  <2>1. u = s
    BY <1>5 DEF RepairStaleRenewal
  <2>2. ExtendedPastExpiry(s) /\ r = Reopened(s, s.extendedAt + Expiry)
    BY <1>1, <1>5, <2>1 DEF RepairExtension
  <2>3. /\ s.extendedAt \in Nat /\ s.expiresAt \in Nat
        /\ s.expiresAt < s.extendedAt
    BY <2>2, DateColumns, SetTime DEF ExtendedPastExpiry
  <2>4. ExpiryOrDefault(s, t) = s.expiresAt
    BY <1>2, <2>3 DEF ExpiryOrDefault
  <2>5. Lifecycle(s, t).expiresAt <= s.extendedAt + Expiry
    BY <1>2, <1>5, <2>3, <2>4, LifecycleExpiry
  <2> HIDE DEF r
  <2>6. r.expiresAt = s.extendedAt + Expiry /\ r.extendedAt = s.extendedAt
    BY <2>2 DEF Reopened, Listing
  <2>7. ExpiryOrDefault(r, t) = s.extendedAt + Expiry
    BY <1>2, <2>3, <2>6 DEF ExpiryOrDefault
  <2>8. Lifecycle(r, t).expiresAt >= s.extendedAt + Expiry
    <3>1. CASE StaleRenewal(r, t)
      <4>1. RenewalAt(r) \in Nat
        BY <1>1, <3>1, RenewalAtBounds DEF StaleRenewal
      <4>a. s.extendedAt + Expiry \in Nat
        BY <1>2, <2>3
      <4>2. /\ Later(s.extendedAt + Expiry, RenewalAt(r)) \in Nat
            /\ Later(s.extendedAt + Expiry, RenewalAt(r))
                 >= s.extendedAt + Expiry
        BY <4>1, <4>a, LaterType
      <4>3. Lifecycle(r, t).expiresAt
              = Later(s.extendedAt + Expiry, RenewalAt(r)) + Expiry
        BY <1>1, <2>7, <3>1, LifecycleExpiry
      <4> QED
        BY <1>2, <2>3, <4>2, <4>3
    <3>2. CASE ~StaleRenewal(r, t)
      BY <1>1, <1>2, <2>3, <2>6, <2>7, <3>2, LifecycleExpiry
    <3> QED
      BY <3>1, <3>2
  <2>9. Lifecycle(s, t).expiresAt \in Nat /\ Lifecycle(r, t).expiresAt \in Nat
    BY <1>2 DEF r
  <2>10. Lifecycle(s, t).expiresAt <= Lifecycle(r, t).expiresAt
    BY <1>2, <2>3, <2>5, <2>8, <2>9
  <2> QED
    BY <2>10 DEF r
<1> QED
  BY <1>3, <1>4, <1>5

\* Writing down the derived expiry does not change it: what a sync that does
\* not remove the row leaves expires when the sync thought it does.
LEMMA PatchedExpiry ==
    ASSUME NEW s \in Listing, NEW t \in Nat,
           ~Unanswered(Repaired(s, t), t)
    PROVE  Lifecycle(SyncPatch(s, s, t), t).expiresAt
             = Lifecycle(Repaired(s, t), t).expiresAt
<1> DEFINE r == Repaired(s, t)
           q == SyncPatch(s, s, t)
           c == Lifecycle(r, t)
<1>0. r \in Listing /\ q \in Listing
  BY RepairedType, SyncPatchType
<1>1. r \in Listing /\ q \in Listing /\ c.expiresAt \in Nat
      /\ Null \notin Nat /\ Expiry \in Nat \ {0}
  <2> HIDE DEF r, q
  <2> QED
    BY <1>0, LifecycleType, RulesAssumption
<1>2. /\ q.expiresAt = IF NeedsRepair(s, t) THEN r.expiresAt
                       ELSE IF r.expiresAt = Null THEN c.expiresAt
                       ELSE s.expiresAt
      /\ q.status = r.status /\ q.soldStatus = s.soldStatus
      /\ q.soldSetAt = s.soldSetAt /\ q.extendedAt = s.extendedAt
      /\ q.createdAt = s.createdAt /\ q.deleted = s.deleted
  BY DEF SyncPatch, Listing
<1>3. ~NeedsRepair(s, t) => r = s
  BY DEF NeedsRepair, Repaired, RepairStaleRenewal, RepairExtension
<1>4. /\ r.soldStatus = s.soldStatus /\ r.soldSetAt = s.soldSetAt
      /\ r.extendedAt = s.extendedAt /\ r.createdAt = s.createdAt
      /\ r.deleted = s.deleted
  BY RepairedKeeps
<1>5. NeedsRepair(s, t) => r.expiresAt # Null
  BY <1>1, RepairMovesExpiry
<1> HIDE DEF r, q
<1>6. CASE r.expiresAt # Null
  <2>1. q.expiresAt = r.expiresAt
    BY <1>2, <1>3, <1>6
  <2>2. /\ q.status = r.status /\ q.soldStatus = r.soldStatus
        /\ q.soldSetAt = r.soldSetAt /\ q.extendedAt = r.extendedAt
        /\ q.createdAt = r.createdAt /\ q.deleted = r.deleted
    BY <1>2, <1>4
  <2> QED
    BY <1>1, <2>1, <2>2, ExpiryAlike DEF q, r
<1>7. CASE r.expiresAt = Null
  <2> DEFINE d == ExpiryOrDefault(s, t)
             x == c.expiresAt
  <2>1. /\ r = s /\ q.expiresAt = x /\ ~StaleRenewal(s, t)
        /\ d \in Nat
        /\ s.extendedAt # Null => s.extendedAt \in Nat
    BY <1>2, <1>3, <1>5, <1>7, ExpiryOrDefaultType, DateColumns, SetTime
       DEF NeedsRepair
  <2>2. x = IF /\ s.extendedAt # Null /\ d <= s.extendedAt
               /\ s.status = "approved"
            THEN s.extendedAt + Expiry ELSE d
    BY <2>1, LifecycleExpiry
  <2> HIDE DEF d, c
  <2>3. x >= d
    BY <1>1, <2>1, <2>2
  <2>4. ExpiryOrDefault(q, t) = x
    BY <1>1, <2>1 DEF ExpiryOrDefault
  <2>5. RenewalAt(q) = RenewalAt(s)
    BY <1>2 DEF RenewalAt
  <2>6. ~StaleRenewal(q, t)
    <3> SUFFICES ASSUME StaleRenewal(q, t) PROVE FALSE
      OBVIOUS
    <3>1. RenewalAt(s) \in Nat /\ x < RenewalAt(s) + Expiry
      BY <1>1, <2>4, <2>5, RenewalAtBounds DEF StaleRenewal
    <3>2. d < RenewalAt(s) + Expiry
      BY <1>1, <2>1, <2>3, <3>1
    <3>3. q.status = s.status
      BY <1>2, <2>1
    <3> QED
      BY <1>1, <1>2, <2>1, <3>1, <3>2, <3>3 DEF StaleRenewal, d
  <2>7. Lifecycle(q, t).expiresAt =
          IF /\ q.extendedAt # Null /\ x <= q.extendedAt
             /\ q.status = "approved"
          THEN q.extendedAt + Expiry ELSE x
    BY <1>1, <2>4, <2>6, LifecycleExpiry
  <2>8. ~(q.extendedAt # Null /\ x <= q.extendedAt /\ q.status = "approved")
    BY <1>1, <1>2, <2>1, <2>2
  <2> QED
    BY <2>7, <2>8 DEF c, q, r
<1> QED
  BY <1>6, <1>7

-----------------------------------------------------------------------------
(***************************************************************************)
(* One "expired" notice per expiry date: the invariant.                    *)
(***************************************************************************)

\* A notice was claimed for a date that had come.
NoticePast == \A n \in noticed : n <= now

\* Once a notice was claimed the row keeps a date.
NoticeDated == noticed # {} => listing.expiresAt # Null

\* In a lifecycle no stale write has touched, the date of the row is that of
\* the last notice or a later one, and later for sure while a notice can be
\* claimed.
NoticeOrder ==
    present /\ ~raced
        => \A n \in noticed :
              /\ n <= listing.expiresAt
              /\ ~listing.expiredSent => n < listing.expiresAt

\* A process about to claim a notice claims it for a date that has come.
ClaimDue ==
    \A p \in Procs :
        pc[p] = "claim" => Lifecycle(Seen(p, base[p]), now).expiresAt <= now

NoticeInv ==
    /\ TypeOK /\ RepairOK
    /\ NoticePast /\ NoticeDated /\ NoticeOrder /\ ClaimDue
    /\ ExpiredNoticeOnce

\* A derived expiry that has come stays in the past.
LEMMA StillDue ==
    ASSUME NEW r \in Listing, NEW t \in Nat, NEW u \in Nat, u >= t,
           Lifecycle(r, t).expiresAt <= t
    PROVE  Lifecycle(r, u).expiresAt <= u
<1>1. /\ Expiry \in Nat \ {0} /\ Null \notin Nat
      /\ Lifecycle(r, t).expiresAt \in Nat
      /\ r.extendedAt # Null => r.extendedAt \in Nat
  BY LifecycleType, RulesAssumption, DateColumns, SetTime
<1>2. CASE r.expiresAt # Null \/ r.createdAt # Null
  <2>1. ExpiryOrDefault(r, t) = ExpiryOrDefault(r, u)
    BY <1>2 DEF ExpiryOrDefault
  <2>2. StaleRenewal(r, t) = StaleRenewal(r, u)
    BY <2>1 DEF StaleRenewal
  <2>3. Lifecycle(r, t).expiresAt = Lifecycle(r, u).expiresAt
    BY <2>1, <2>2, LifecycleExpiry
  <2> QED
    BY <1>1, <2>3
<1>3. CASE r.expiresAt = Null /\ r.createdAt = Null
  <2>1. ExpiryOrDefault(r, t) = t + Expiry
    BY <1>3 DEF ExpiryOrDefault
  <2>2. CASE StaleRenewal(r, t)
    <3>1. RenewalAt(r) \in Nat /\ t + Expiry \in Nat
      BY <1>1, <2>2, RenewalAtBounds DEF StaleRenewal
    <3>2. /\ Later(t + Expiry, RenewalAt(r)) \in Nat
          /\ Later(t + Expiry, RenewalAt(r)) >= t + Expiry
      BY <3>1, LaterType
    <3>3. Lifecycle(r, t).expiresAt
            = Later(t + Expiry, RenewalAt(r)) + Expiry
      BY <2>1, <2>2, LifecycleExpiry
    <3> QED
      BY <1>1, <3>2, <3>3
  <2>3. CASE ~StaleRenewal(r, t)
    BY <1>1, <2>1, <2>3, LifecycleExpiry
  <2> QED
    BY <2>2, <2>3
<1> QED
  BY <1>2, <1>3

\* What a process is about to claim a notice for stays due.
LEMMA ClaimDueStep ==
    ASSUME TypeOK, RepairOK, ClaimDue, [Next]_vars
    PROVE  ClaimDue'
<1> SUFFICES ASSUME NEW p \in Procs, pc'[p] = "claim"
             PROVE  (Lifecycle(Seen(p, base[p]), now).expiresAt <= now)'
  BY DEF ClaimDue
<1>1. /\ TypeOK' /\ now \in Nat /\ now' \in Nat
      /\ pc \in [Procs -> Steps] /\ base \in [Procs -> Listing \cup {Null}]
      /\ task \in [Procs -> Tasks]
  <2>1. TypeOK'
    BY TypeStep
  <2> QED
    BY <2>1 DEF TypeOK
<1>2. CASE Still(p)
  <2>1. now' >= now
    BY <1>1, [Next]_vars
       DEF Next, vars, SweepRead, ViewRead, ScannerRead, ExtendRequest,
           OutcomeRequest, AdminRenewRequest, Fetch, ScannerClaim,
           SyncWrite, SyncFails, Claim, Purge, Crash, RenewWrite, Reload,
           RepairRenewed, DraftWrite, SoldWrite, RequestFails, Approve,
           ApproveOnly, Reject, Delete, AdminSold, SetExpiry, BlindWrite,
           HardDelete, Tick
  <2>2. /\ pc[p] = "claim" /\ base'[p] = base[p] /\ task'[p] = task[p]
    BY <1>2 DEF Still
  <2>3. Lifecycle(Seen(p, base[p]), now).expiresAt <= now
    BY <2>2 DEF ClaimDue
  <2>4. Seen(p, base[p]) \in Listing
    BY <2>2, BaseType
  <2>5. Lifecycle(Seen(p, base[p]), now').expiresAt <= now'
    BY <1>1, <2>1, <2>3, <2>4, StillDue
  <2>6. Seen(p, base[p])' = Seen(p, base[p])
    BY <2>2 DEF Seen
  <2> QED
    BY <2>5, <2>6
<1>3. CASE SyncWrite(p)
  <2> DEFINE s == Seen(p, base[p])
             b == SyncPatch(base[p], s, now)
             r == SyncPatch(s, s, now)
             c == Lifecycle(Repaired(s, now), now)
  <2>1. base[p] \in Listing /\ s \in Listing
    BY <1>1, <1>3, BaseType DEF SyncWrite
  <2>2. /\ NoticeDue(r, c) /\ base'[p] = b /\ task'[p] = task[p]
        /\ now' = now
    BY <1>1, <1>3
       DEF SyncWrite, MailOrFinish, AfterSync, Goto, Return
  <2>3. Seen(p, b) = r
    BY <1>1, <2>1, SeenPatch
  <2>4. Seen(p, base[p])' = Seen(p, b)
    BY <2>2 DEF Seen
  <2> HIDE DEF s, b
  <2>5. ~Unanswered(Repaired(s, now), now)
    BY <1>1, <2>1, <2>2, PatchStatus DEF NoticeDue, ActiveStatuses
  <2>6. Lifecycle(r, now).expiresAt = c.expiresAt
    BY <1>1, <2>1, <2>5, PatchedExpiry
  <2>7. c.expiresAt <= now
    <3>1. c.isExpired
      BY <2>2 DEF NoticeDue
    <3>2. Repaired(s, now) \in Listing
      BY <1>1, <2>1, RepairedType
    <3>3. c.expiresAt \in Nat
      BY <1>1, <3>2, LifecycleType
    <3> QED
      BY <1>1, <3>1, <3>2, <3>3, ExpiredDated
  <2> QED
    BY <2>2, <2>3, <2>4, <2>6, <2>7
<1>4. CASE SyncFails(p)
  <2> DEFINE s == Seen(p, base[p])
             r == Repaired(s, now)
             c == Lifecycle(Repaired(r, now), now)
             d == Lifecycle(r, now)
  <2>1. base[p] \in Listing /\ s \in Listing /\ r \in Listing
    BY <1>1, <1>4, BaseType, RepairedType DEF SyncFails
  <2>2. /\ d.isExpired /\ base'[p] = base[p] /\ task'[p] = task[p]
        /\ now' = now
    BY <1>1, <1>4
       DEF SyncFails, MailOrFinish, AfterSync, Goto, Return, NoticeDue
  <2>3. Seen(p, base[p])' = s
    BY <2>2 DEF Seen
  <2> HIDE DEF s
  <2>4. Lifecycle(s, now).expiresAt <= d.expiresAt
    BY <1>1, <2>1, RepairedExpiry
  <2>5. d.expiresAt <= now
    BY <1>1, <2>1, <2>2, ExpiredDated, LifecycleType
  <2>6. Lifecycle(s, now).expiresAt \in Nat /\ d.expiresAt \in Nat
    BY <1>1, <2>1, LifecycleType
  <2> HIDE DEF d
  <2>7. Lifecycle(s, now).expiresAt <= now
    BY <1>1, <2>4, <2>5, <2>6
  <2> QED
    BY <2>2, <2>3, <2>7
<1>5. CASE \/ pc'[p] = "idle" \/ Starts(p) \/ Claim(p)
           \/ p = "client" /\ (RenewWrite \/ Reload \/ RepairRenewed)
  BY <1>1, <1>5 DEF Starts, Claim, Goto, Return, RenewWrite, Reload,
                    RepairRenewed
<1> QED
  BY <1>2, <1>3, <1>4, <1>5, OwnSteps

\* A step that leaves the notices, the date and its flag alone.
NoticeQuiet ==
    /\ listing'.expiresAt = listing.expiresAt
    /\ listing'.expiredSent = listing.expiredSent
    /\ now' >= now
    /\ UNCHANGED history
    /\ present' /\ ~raced' => present /\ ~raced

\* Which steps do.
LEMMA NoticeQuietSteps ==
    ASSUME TypeOK,
           \/ UNCHANGED vars
           \/ SweepRead \/ ViewRead \/ ScannerRead
           \/ \E p \in Procs : SyncFails(p) \/ Purge(p) \/ Crash(p)
           \/ ExtendRequest \/ OutcomeRequest \/ AdminRenewRequest
           \/ Reload \/ SoldWrite \/ RequestFails
           \/ ApproveOnly \/ Reject \/ Delete \/ AdminSold
           \/ HardDelete \/ Tick
           \/ (RenewWrite \/ DraftWrite \/ RepairRenewed) /\ ~present
    PROVE  NoticeQuiet
<1>1. listing \in Listing /\ now \in Nat
  BY DEF TypeOK
<1>2. listing'.expiresAt = listing.expiresAt /\ now' >= now
  BY QuietSteps DEF Quiet
<1>3. UNCHANGED history /\ (present' /\ ~raced' => present /\ ~raced)
  BY DEF vars, history, SweepRead, ViewRead, ScannerRead, ExtendRequest,
         OutcomeRequest, AdminRenewRequest, Fetch, SyncFails, Purge, Crash,
         Reload, SoldWrite, RequestFails, ApproveOnly, Reject, Delete,
         AdminSold, BlindWrite, SameCycle, HardDelete, Tick, RenewWrite,
         DraftWrite, RepairRenewed, Write
<1>4. listing'.expiredSent = listing.expiredSent
  <2>1. CASE listing' = listing
    BY <2>1
  <2>2. CASE SoldWrite
    BY <1>1, <2>2 DEF SoldWrite, Write, MarkedSold, Listing
  <2>3. CASE ApproveOnly \/ Reject \/ Delete \/ AdminSold
    BY <1>1, <2>3 DEF ApproveOnly, Reject, Delete, AdminSold, BlindWrite,
                      MarkedSold, Listing
  <2>4. CASE \/ UNCHANGED vars
             \/ SweepRead \/ ViewRead \/ ScannerRead
             \/ \E p \in Procs : SyncFails(p) \/ Purge(p) \/ Crash(p)
             \/ ExtendRequest \/ OutcomeRequest \/ AdminRenewRequest
             \/ Reload \/ RequestFails \/ HardDelete \/ Tick
             \/ (RenewWrite \/ DraftWrite \/ RepairRenewed) /\ ~present
    <3>1. listing' = listing
      BY <2>4 DEF vars, SweepRead, ViewRead, ScannerRead, ExtendRequest,
         OutcomeRequest, AdminRenewRequest, Fetch, SyncFails, Purge, Crash,
         Reload, RequestFails, HardDelete, Tick, RenewWrite, DraftWrite,
         RepairRenewed, Write
    <3> QED
      BY <3>1
  <2> QED
    BY <2>1, <2>2, <2>3, <2>4
<1> QED
  BY <1>2, <1>3, <1>4 DEF NoticeQuiet

\* A step that moves the date of the row, and what it has to keep: the new
\* date is not before the old one, or it is after the clock.
NoticeMoves ==
    /\ UNCHANGED <<noticed, repeated, now>>
    /\ listing'.expiresAt \in Nat
    /\ \/ listing'.expiresAt > now
       \/ raced'
       \/ /\ present /\ ~raced
          /\ listing.expiresAt # Null => listing'.expiresAt > listing.expiresAt

\* Which steps do.
LEMMA NoticeMovesSteps ==
    ASSUME NoticeInv, TypeOK', present, 0 \notin CustomDays,
           \/ RenewWrite \/ DraftWrite \/ RepairRenewed
           \/ Approve \/ SetExpiry
    PROVE  NoticeMoves
<1>1. /\ listing \in Listing /\ now \in Nat /\ Expiry \in Nat \ {0}
      /\ listing.expiresAt # Null => listing.expiresAt \in Nat
      /\ TypeOK /\ Null \notin Nat
  BY RulesAssumption, DateColumns, SetTime DEF NoticeInv, TypeOK
<1>2. CASE RenewWrite \/ DraftWrite
  <2> DEFINE x == Lifecycle(base["client"], now).expiresAt
  <2>1. x \in Nat /\ Later(x, now) \in Nat /\ Later(x, now) >= now
    BY <1>1, <1>2, BaseType, LaterType DEF RenewWrite, DraftWrite
  <2> HIDE DEF x
  <2>2. \/ listing' = Renewed(listing, x, now)
        \/ listing' = MovedToDraft(listing, x, now)
    BY <1>2 DEF RenewWrite, DraftWrite, Write, x
  <2>3. listing'.expiresAt = Later(x, now) + Expiry
    BY <1>1, <2>2 DEF Renewed, MovedToDraft, FreshCycle, Listing
  <2>4. UNCHANGED <<noticed, repeated, now>>
    BY <1>2 DEF RenewWrite, DraftWrite, history
  <2> QED
    BY <1>1, <2>1, <2>3, <2>4 DEF NoticeMoves
<1>3. CASE RepairRenewed
  <2> DEFINE r == base["client"]
             x == ExpiryOrDefault(r, now)
             y == RenewalAt(r)
  <2>1. r \in Listing /\ y # Null
    BY <1>1, <1>3, BaseType DEF RepairRenewed, NoticeInv, RepairOK
  <2>2. /\ x \in Nat /\ y \in Nat /\ Later(x, y) \in Nat
        /\ Later(x, y) >= x
    BY <1>1, <2>1, ExpiryOrDefaultType, RenewalAtBounds, LaterType
  <2>3. listing'.expiresAt = Later(x, y) + Expiry
    BY <1>1, <1>3 DEF RepairRenewed, Write, Reopened, Listing
  <2>4. raced' = (raced \/ ~Fresh("client"))
        /\ UNCHANGED <<noticed, repeated, now>>
    BY <1>3 DEF RepairRenewed, history
  <2>5. CASE Fresh("client") /\ ~raced
    <3>1. listing.expiresAt # Null => x = listing.expiresAt
      BY <2>5 DEF Fresh, ExpiryOrDefault
    <3> HIDE DEF x, y
    <3> QED
      BY <1>1, <2>2, <2>3, <2>4, <2>5, <3>1 DEF NoticeMoves
  <2> HIDE DEF x, y
  <2>6. CASE ~Fresh("client") \/ raced
    <3>1. raced'
      BY <2>4, <2>6
    <3>2. listing'.expiresAt \in Nat
      BY <1>1, <2>2, <2>3
    <3> QED
      BY <2>4, <3>1, <3>2 DEF NoticeMoves
  <2> QED
    BY <1>1, <2>5, <2>6 DEF TypeOK
<1>4. CASE Approve
  <2>1. listing'.expiresAt = now + Expiry
    BY <1>1, <1>4 DEF Approve, BlindWrite, Approved, FreshCycle, Listing
  <2> QED
    BY <1>1, <1>4, <2>1 DEF NoticeMoves, Approve, BlindWrite, history
<1>5. CASE SetExpiry
  <2>1. PICK days \in CustomDays :
            BlindWrite(WithExpiry(listing, now + days),
                       custom' = TRUE /\ UNCHANGED raced)
    BY <1>5 DEF SetExpiry
  <2>2. days \in Nat /\ days # 0
    BY LifecycleAssumption
  <2>3. listing'.expiresAt = now + days
    BY <1>1, <2>1 DEF BlindWrite, WithExpiry, Listing
  <2> QED
    BY <1>1, <2>1, <2>2, <2>3 DEF NoticeMoves, BlindWrite, history
<1> QED
  BY <1>2, <1>3, <1>4, <1>5

\* A claim finds the flag unset, so in a clean lifecycle no notice for the
\* date yet.
LEMMA NoticeClaimed ==
    ASSUME NoticeInv, TypeOK', NEW e \in Nat, e <= now,
           Claimable(e, listing.expiredSent), Notice(e),
           listing'.expiresAt = listing.expiresAt, listing'.expiredSent,
           UNCHANGED <<now, present, raced>>
    PROVE  /\ NoticePast' /\ NoticeDated' /\ NoticeOrder'
           /\ ExpiredNoticeOnce'
<1>1. /\ listing.expiresAt = e /\ ~listing.expiredSent /\ present
      /\ noticed \subseteq Nat /\ now \in Nat /\ Null \notin Nat
  BY RulesAssumption DEF Claimable, NoticeInv, TypeOK
<1>2. noticed' = noticed \cup {e}
  BY DEF Notice
<1>3. ~raced => \A n \in noticed : n < e
  BY <1>1 DEF NoticeInv, NoticeOrder
<1>4. ~raced => e \notin noticed
  BY <1>1, <1>3
<1>5. NoticePast' /\ NoticeDated'
  BY <1>1, <1>2 DEF NoticeInv, NoticePast, NoticeDated
<1>6. NoticeOrder'
  BY <1>1, <1>2, <1>3 DEF NoticeOrder
<1>7. ExpiredNoticeOnce'
  BY <1>4 DEF NoticeInv, ExpiredNoticeOnce, Notice
<1> QED
  BY <1>5, <1>6, <1>7

\* Both claims are such claims, or leave the notices alone.
LEMMA NoticeClaims ==
    ASSUME NoticeInv, TypeOK', ScannerClaim \/ \E p \in Procs : Claim(p)
    PROVE  \/ NoticeQuiet
           \/ \E e \in Nat :
                 /\ e <= now
                 /\ Claimable(e, listing.expiredSent) /\ Notice(e)
                 /\ listing'.expiresAt = listing.expiresAt
                 /\ listing'.expiredSent
                 /\ UNCHANGED <<now, present, raced>>
<1>1. listing \in Listing /\ now \in Nat /\ TypeOK
  BY DEF NoticeInv, TypeOK
<1>2. ASSUME UNCHANGED <<now, present, raced, history>>,
             \/ listing' = listing
             \/ listing' = [listing EXCEPT !.reminderSent = TRUE]
      PROVE  NoticeQuiet
  BY <1>1, <1>2 DEF NoticeQuiet, Listing
<1>3. ASSUME NEW p \in Procs, Claim(p)
      PROVE  \/ NoticeQuiet
             \/ \E e \in Nat :
                   /\ e <= now
                   /\ Claimable(e, listing.expiredSent) /\ Notice(e)
                   /\ listing'.expiresAt = listing.expiresAt
                   /\ listing'.expiredSent
                   /\ UNCHANGED <<now, present, raced>>
  <2> DEFINE e == Lifecycle(Seen(p, base[p]), now).expiresAt
  <2>1. e \in Nat /\ e <= now
    BY <1>1, <1>3, BaseType, LifecycleType DEF Claim, NoticeInv, ClaimDue
  <2> HIDE DEF e
  <2>2. UNCHANGED <<now, present, raced>>
    BY <1>3 DEF Claim
  <2>3. CASE Claimable(e, listing.expiredSent)
    <3>1. listing' = [listing EXCEPT !.expiredSent = TRUE] /\ Notice(e)
      BY <1>3, <2>3 DEF Claim, e
    <3>2. listing'.expiresAt = listing.expiresAt /\ listing'.expiredSent
      BY <1>1, <3>1 DEF Listing
    <3> QED
      BY <2>1, <2>2, <2>3, <3>1, <3>2
  <2>4. CASE ~Claimable(e, listing.expiredSent)
    <3>1. UNCHANGED <<listing, history>>
      BY <1>3, <2>4 DEF Claim, e
    <3> QED
      BY <1>2, <2>2, <3>1
  <2> QED
    BY <2>3, <2>4
<1>4. ASSUME ScannerClaim
      PROVE  \/ NoticeQuiet
             \/ \E e \in Nat :
                   /\ e <= now
                   /\ Claimable(e, listing.expiredSent) /\ Notice(e)
                   /\ listing'.expiresAt = listing.expiresAt
                   /\ listing'.expiredSent
                   /\ UNCHANGED <<now, present, raced>>
  <2> DEFINE s == ScannerColumns(base["scanner"])
             c == Lifecycle(s, now)
             e == c.expiresAt
             dated == IF s.expiredAt = Null THEN e ELSE listing.expiredAt
  <2>1. s \in Listing
    <3>1. base["scanner"] \in Listing
      BY <1>1, <1>4, BaseType DEF ScannerClaim
    <3> QED
      BY <3>1 DEF ScannerColumns, Listing, OptTime
  <2>2. UNCHANGED <<now, present, raced>>
    BY <1>4 DEF ScannerClaim
  <2>3. \/ /\ c.isExpired /\ Claimable(e, listing.expiredSent)
           /\ listing' = [listing EXCEPT !.expiredSent = TRUE,
                                         !.expiredAt = dated]
           /\ Notice(e)
        \/ /\ UNCHANGED history
           /\ \/ listing' = listing
              \/ listing' = [listing EXCEPT !.reminderSent = TRUE]
    BY <1>4 DEF ScannerClaim
  <2> HIDE DEF s, dated
  <2>4. CASE /\ c.isExpired /\ Claimable(e, listing.expiredSent)
             /\ listing' = [listing EXCEPT !.expiredSent = TRUE,
                                           !.expiredAt = dated]
             /\ Notice(e)
    <3>1. e \in Nat /\ e <= now
      BY <1>1, <2>1, <2>4, LifecycleType, ExpiredDated
    <3> HIDE DEF c, e
    <3>2. listing'.expiresAt = listing.expiresAt /\ listing'.expiredSent
      BY <1>1, <2>4 DEF Listing
    <3> QED
      BY <2>2, <2>4, <3>1, <3>2
  <2>5. CASE /\ UNCHANGED history
             /\ \/ listing' = listing
                \/ listing' = [listing EXCEPT !.reminderSent = TRUE]
    BY <1>2, <2>2, <2>5
  <2> QED
    BY <2>3, <2>4, <2>5
<1> QED
  BY <1>3, <1>4

\* A sync moves the date forward or leaves it, unless it writes from a row
\* that has changed; an idle sync leaves it whatever it read.
LEMMA NoticeSync ==
    ASSUME NoticeInv, TypeOK', NEW p \in Procs, SyncWrite(p)
    PROVE  NoticeQuiet \/ NoticeMoves
<1> DEFINE s == Seen(p, base[p])
<1>1. /\ listing \in Listing /\ now \in Nat /\ s \in Listing
      /\ base[p] \in Listing
      /\ listing.expiresAt # Null => listing.expiresAt \in Nat
  BY BaseType, DateColumns, SetTime DEF SyncWrite, NoticeInv, TypeOK
<1>2. /\ UNCHANGED <<now, history, present>>
      /\ raced' = (raced \/ (~Fresh(p) /\ SyncPatch(s, s, now) # s))
      /\ listing' = IF present THEN SyncPatch(listing, s, now) ELSE listing
  BY DEF SyncWrite, Write
<1>3. listing'.expiredSent = listing.expiredSent
  BY <1>1, <1>2, PatchKeeps
<1>4. listing'.expiresAt \in OptTime
  BY DateColumns DEF TypeOK
<1> HIDE DEF s
<1>5. CASE ~present \/ SyncPatch(s, s, now) = s
  <2>1. listing' = listing
    BY <1>1, <1>2, <1>5, IdlePatch
  <2>2. present' /\ ~raced' => present /\ ~raced
    BY <1>2
  <2> QED
    BY <1>1, <1>2, <2>1, <2>2 DEF NoticeQuiet
<1>6. CASE present /\ SyncPatch(s, s, now) # s
  <2>1. UNCHANGED <<noticed, repeated, now>> /\ (raced => raced')
    BY <1>2 DEF history
  <2>2. ~Fresh(p) => raced'
    BY <1>2, <1>6
  <2>3. Fresh(p) => listing.expiresAt = s.expiresAt
    BY <1>1, SeenColumns DEF Fresh, s
  <2>4. raced \/ ~raced
    BY DEF NoticeInv, TypeOK
  <2>5. CASE NeedsRepair(s, now)
    <3>1. /\ listing'.expiresAt \in Nat
          /\ s.expiresAt # Null => listing'.expiresAt > s.expiresAt
      BY <1>1, <1>2, <1>6, <2>5, SyncPatchColumns, RepairMovesExpiry
    <3> QED
      BY <1>6, <2>1, <2>2, <2>3, <2>4, <3>1 DEF NoticeMoves
  <2>6. CASE ~NeedsRepair(s, now) /\ s.expiresAt # Null
    <3>1. listing'.expiresAt = listing.expiresAt
      BY <1>1, <1>2, <1>6, <2>6, SyncPatchColumns
    <3>2. present' /\ ~raced' => present /\ ~raced
      BY <1>6, <2>1
    <3> QED
      BY <1>1, <1>2, <1>3, <3>1, <3>2 DEF NoticeQuiet
  <2>7. CASE ~NeedsRepair(s, now) /\ s.expiresAt = Null
    <3>1. listing'.expiresAt \in Nat
      BY <1>1, <1>2, <1>6, <2>7, SyncPatchColumns, LifecycleType
    <3> QED
      BY <1>6, <2>1, <2>2, <2>3, <2>4, <2>7, <3>1 DEF NoticeMoves
  <2> QED
    BY <2>5, <2>6, <2>7
<1> QED
  BY <1>5, <1>6

\* A quiet step keeps what the invariant says of the notices.
LEMMA NoticeQuietKeeps ==
    ASSUME NoticeInv, TypeOK', NoticeQuiet
    PROVE  NoticePast' /\ NoticeDated' /\ NoticeOrder' /\ ExpiredNoticeOnce'
<1>1. /\ now \in Nat /\ now' \in Nat /\ noticed \subseteq Nat
      /\ noticed' = noticed /\ repeated' = repeated /\ now' >= now
  BY DEF NoticeInv, TypeOK, NoticeQuiet, history
<1>2. NoticePast'
  BY <1>1 DEF NoticeInv, NoticePast
<1>3. NoticeDated' /\ NoticeOrder' /\ ExpiredNoticeOnce'
  BY <1>1 DEF NoticeInv, NoticeDated, NoticeOrder, ExpiredNoticeOnce,
              NoticeQuiet
<1> QED
  BY <1>2, <1>3

\* So does a step that moves the date.
LEMMA NoticeMovesKeeps ==
    ASSUME NoticeInv, TypeOK', NoticeMoves
    PROVE  NoticePast' /\ NoticeDated' /\ NoticeOrder' /\ ExpiredNoticeOnce'
<1>1. /\ now \in Nat /\ noticed \subseteq Nat /\ Null \notin Nat
      /\ noticed' = noticed /\ repeated' = repeated /\ now' = now
      /\ listing'.expiresAt \in Nat
      /\ listing.expiresAt # Null => listing.expiresAt \in Nat
  BY DateColumns, SetTime, RulesAssumption DEF NoticeInv, TypeOK, NoticeMoves
<1>2. NoticePast' /\ NoticeDated' /\ ExpiredNoticeOnce'
  BY <1>1 DEF NoticeInv, NoticePast, NoticeDated, ExpiredNoticeOnce
<1>3. NoticeOrder'
  <2> SUFFICES ASSUME ~raced', NEW n \in noticed
               PROVE  n < listing'.expiresAt
    BY <1>1 DEF NoticeOrder
  <2>1. n \in Nat /\ n <= now /\ listing.expiresAt # Null
    BY <1>1 DEF NoticeInv, NoticePast, NoticeDated
  <2>2. present /\ ~raced => n <= listing.expiresAt
    BY DEF NoticeInv, NoticeOrder
  <2> QED
    BY <1>1, <2>1, <2>2 DEF NoticeMoves
<1> QED
  BY <1>2, <1>3

\* The invariant of the notices is inductive.
LEMMA NoticeStep ==
    ASSUME NoticeInv, 0 \notin CustomDays, [Next]_vars
    PROVE  NoticeInv'
<1>1. TypeOK' /\ RepairOK' /\ TypeOK
  BY TypeStep, RepairStep DEF NoticeInv
<1>2. ClaimDue'
  BY ClaimDueStep DEF NoticeInv
<1>3. NoticePast' /\ NoticeDated' /\ NoticeOrder' /\ ExpiredNoticeOnce'
  <2>1. CASE NoticeQuiet
    BY <1>1, <2>1, NoticeQuietKeeps
  <2>2. CASE NoticeMoves
    BY <1>1, <2>2, NoticeMovesKeeps
  <2>3. CASE \E p \in Procs : SyncWrite(p)
    BY <1>1, <2>1, <2>2, <2>3, NoticeSync
  <2>4. CASE ScannerClaim \/ \E p \in Procs : Claim(p)
    BY <1>1, <2>1, <2>4, NoticeClaims, NoticeClaimed
  <2>5. CASE /\ present
             /\ RenewWrite \/ DraftWrite \/ RepairRenewed
                \/ Approve \/ SetExpiry
    BY <1>1, <2>2, <2>5, NoticeMovesSteps
  <2>6. (Approve \/ SetExpiry) => present
    BY DEF Approve, SetExpiry, BlindWrite
  <2> QED
    BY <1>1, <2>1, <2>3, <2>4, <2>5, <2>6, NoticeQuietSteps DEF Next
<1> QED
  BY <1>1, <1>2, <1>3 DEF NoticeInv

\* No notice was claimed to begin with.
LEMMA NoticeInit == Init => NoticeInv
BY TypeInit DEF Init, NoticeInv, NoticePast, NoticeDated, NoticeOrder,
                ClaimDue, ExpiredNoticeOnce

\* However the sweep, the scanner and the admin's renewal race for it, an
\* "expired" notice goes out once per expiry date: the flag the claim tests
\* is re-armed only together with a later date.  The exception is left to
\* the hypothesis: admin_set_listing_expiry refuses a date before the clock
\* only, so a custom expiry equal to the clock re-arms the flag for a date
\* that may have had its notice.
THEOREM NoticeOnce ==
    ASSUME 0 \notin CustomDays
    PROVE  Spec => []ExpiredNoticeOnce
<1>1. NoticeInv => ExpiredNoticeOnce
  BY DEF NoticeInv
<1>2. NoticeInv /\ [Next]_vars => NoticeInv'
  BY NoticeStep
<1> QED
  BY <1>1, <1>2, NoticeInit, PTL DEF Spec
=============================================================================
