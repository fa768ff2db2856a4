--------------------------- MODULE DealerApproval ---------------------------
(***************************************************************************)
(* The automatic approval of one dealer: uploads and deletions of the two  *)
(* required documents (routes/dealer_verification.py), the scheduling of a *)
(* delayed approval (app.py), an administrator's review of a document      *)
(* (routes/dealer_document_review.py) and the workers that carry scheduled *)
(* approvals out (workers/dealer_auto_approval_worker.py).                 *)
(*                                                                         *)
(* Every request to the database is one step, so requests of all parties   *)
(* interleave.  A document is stored once and has been scored by then; its *)
(* identity stands for its contents.  A lease is told apart by the worker  *)
(* that took it, as a worker has one at a time.                            *)
(***************************************************************************)
EXTENDS Naturals

CONSTANTS
    Trade,      \* trade licences the dealer may upload
    Tax,        \* tax registrations
    Rows,       \* bound: rows of dealer_pending_approvals
    Uploads,    \* uploads that may be in progress at once
    Workers,    \* replicas of the worker
    MaxFaults,  \* bound: failures, late leases, reviews and deletions
    Null

ASSUME FaultsAssumption == MaxFaults \in Nat
ASSUME NullAssumption == Null \notin Workers \cup Rows
ASSUME KindAssumption == Trade \cap Tax = {}

Docs == Trade \cup Tax

VARIABLES
    status,     \* status of each document
    active,     \* documents stored and not replaced
    good,       \* documents whose score reaches the threshold
    verified,   \* dealer_verified
    rows,       \* dealer_pending_approvals
    upload,     \* the uploads in progress
    review,     \* an administrator denied a document; the user comes next
    worker,     \* what each worker does
    emails,     \* history: approval e-mails sent for each row
    byWorker,   \* history: documents a worker approved
    twins,      \* history: two documents of one kind were active
    faults      \* history: faults so far

documents == <<status, active, good>>
vars == <<documents, verified, rows, upload, review, worker, emails, byWorker,
          twins, faults>>

Kind(d) == IF d \in Trade THEN Trade ELSE Tax
Twins(ds) == \E d, e \in ds : d # e /\ Kind(d) = Kind(e)

Idle == [at |-> "idle", row |-> Null, todo |-> {}, approve |-> FALSE,
         ok |-> TRUE, changed |-> FALSE]
NoUpload == [at |-> "idle", doc |-> Null, prev |-> {}]
NoRow == [state |-> "none", due |-> FALSE, lease |-> Null, live |-> FALSE]

Statuses == {"none", "pending", "approved", "denied", "gone"}
Row == [state : {"none", "pending", "fired", "cancelled"}, due : BOOLEAN,
        lease : Workers \cup {Null}, live : BOOLEAN]
Request == [at : {"idle", "replace", "insert", "check", "user", "cancel", "add"},
            doc : Docs \cup {Null}, prev : SUBSET Docs]
Job == [at : {"idle", "docs", "user", "approve", "verify", "mark", "email"},
        row : Rows \cup {Null}, todo : SUBSET Docs, approve : BOOLEAN,
        ok : BOOLEAN, changed : BOOLEAN]

TypeOK ==
    /\ status \in [Docs -> Statuses]
    /\ active \subseteq Docs /\ good \subseteq Docs
    /\ verified \in BOOLEAN /\ review \in BOOLEAN /\ twins \in BOOLEAN
    /\ rows \in [Rows -> Row]
    /\ upload \in [Uploads -> Request]
    /\ worker \in [Workers -> Job]
    /\ emails \in [Rows -> 0 .. 2]
    /\ byWorker \subseteq Docs
    /\ faults \in 0 .. MaxFaults

Init ==
    /\ status = [d \in Docs |-> "none"]
    /\ active = {} /\ good = {}
    /\ verified = FALSE
    /\ rows = [r \in Rows |-> NoRow]
    /\ upload = [u \in Uploads |-> NoUpload]
    /\ review = FALSE
    /\ worker = [w \in Workers |-> Idle]
    /\ emails = [r \in Rows |-> 0]
    /\ byWorker = {}
    /\ twins = FALSE
    /\ faults = 0

-----------------------------------------------------------------------------
(***************************************************************************)
(* should_auto_approve_dealer looks at one document of each kind, and      *)
(* which of two it is depends on the order the database returned them in.  *)
(***************************************************************************)
Candidates(kind) == {d \in active \cap kind : status[d] # "denied"}

\* Mutant: a licence is enough.
TradeAlone == Candidates(Trade) \cap good # {}

MayApprove == Candidates(Trade) \cap good # {} /\ Candidates(Tax) \cap good # {}

MayRefuse == \E kind \in {Trade, Tax} : Candidates(kind) \subseteq good =>
                                         Candidates(kind) = {}

\* A step that fails, and one that does not.
Fault == faults < MaxFaults /\ faults' = faults + 1
Outcome(ok) == IF ok THEN UNCHANGED faults ELSE Fault

\* Workers that are at work have read what changes now.
Outdated == [w \in Workers |-> IF worker[w].at = "idle" THEN worker[w]
                               ELSE [worker[w] EXCEPT !.changed = TRUE]]

-----------------------------------------------------------------------------
(* upload_dealer_document *)

UploadStart(u, d) ==
    /\ upload[u].at = "idle"
    /\ status[d] = "none"
    /\ \A v \in Uploads : upload[v].doc # d
    /\ LET prev == active \cap Kind(d) IN
       upload' = [upload EXCEPT ![u] =
         [at |-> IF prev = {} THEN "insert" ELSE "replace", doc |-> d, prev |-> prev]]
    /\ UNCHANGED <<documents, verified, rows, review, worker, emails, byWorker, twins, faults>>

\* The answer to this request is not looked at.
UploadReplace(u, ok) ==
    /\ upload[u].at = "replace"
    /\ Outcome(ok)
    /\ active' = IF ok THEN active \ upload[u].prev ELSE active
    /\ worker' = Outdated
    /\ upload' = [upload EXCEPT ![u].at = "insert"]
    /\ UNCHANGED <<status, good, verified, rows, review, emails, byWorker, twins>>

UploadInsert(u, scored) ==
    LET d == upload[u].doc IN
    /\ upload[u].at = "insert"
    /\ status' = [status EXCEPT ![d] = "pending"]
    /\ active' = active \cup {d}
    /\ good' = IF scored THEN good \cup {d} ELSE good
    /\ twins' = (twins \/ Twins(active'))
    /\ worker' = Outdated
    /\ upload' = [upload EXCEPT ![u].at = "check"]
    /\ UNCHANGED <<verified, rows, review, emails, byWorker, faults>>

\* _schedule_dealer_auto_approval_if_eligible: the documents, then the user.
ScheduleCheck(u, eligible) ==
    /\ upload[u].at = "check"
    /\ IF eligible THEN MayApprove ELSE MayRefuse
    /\ upload' = [upload EXCEPT ![u] = IF eligible THEN [@ EXCEPT !.at = "user"]
                                       ELSE NoUpload]
    /\ UNCHANGED <<documents, verified, rows, review, worker, emails, byWorker, twins, faults>>

\* A user who cannot be read counts as one not verified yet.
ScheduleUser(u, ok) ==
    /\ upload[u].at = "user"
    /\ Outcome(ok)
    /\ upload' = [upload EXCEPT ![u] = IF ok /\ verified THEN NoUpload
                                       ELSE [@ EXCEPT !.at = "cancel"]]
    /\ UNCHANGED <<documents, verified, rows, review, worker, emails, byWorker, twins>>

ScheduleCancel(u, ok) ==
    /\ upload[u].at = "cancel"
    /\ Outcome(ok)
    /\ rows' = [r \in Rows |-> IF ok /\ rows[r].state = "pending"
                               THEN [rows[r] EXCEPT !.state = "cancelled"] ELSE rows[r]]
    /\ upload' = [upload EXCEPT ![u].at = "add"]
    /\ UNCHANGED <<documents, verified, review, worker, emails, byWorker, twins>>

\* A unique index allows one pending row.
ScheduleInsert(u) ==
    /\ upload[u].at = "add"
    /\ \/ /\ \A r \in Rows : rows[r].state # "pending"
          /\ \E r \in Rows :
               /\ rows[r].state = "none"
               /\ rows' = [rows EXCEPT ![r].state = "pending"]
       \/ /\ \E r \in Rows : rows[r].state = "pending"
          /\ UNCHANGED rows
    /\ upload' = [upload EXCEPT ![u] = NoUpload]
    /\ UNCHANGED <<documents, verified, review, worker, emails, byWorker, twins, faults>>

\* The request ends early: a read or an insert failed.
UploadFailed(u) ==
    /\ upload[u].at \in {"insert", "check", "add"}
    /\ Fault
    /\ upload' = [upload EXCEPT ![u] = NoUpload]
    /\ status' = IF upload[u].at = "insert"
                 THEN [status EXCEPT ![upload[u].doc] = "gone"] ELSE status
    /\ UNCHANGED <<active, good, verified, rows, review, worker, emails, byWorker, twins>>

\* delete_dealer_document
Delete(d) ==
    /\ status[d] \in {"pending", "approved", "denied"}
    /\ Fault
    /\ status' = [status EXCEPT ![d] = "gone"]
    /\ active' = active \ {d}
    /\ worker' = Outdated
    /\ UNCHANGED <<good, verified, rows, upload, review, emails, byWorker, twins>>

-----------------------------------------------------------------------------
(* review_dealer_document: the document, and after a denial the user *)

Review(d, s) ==
    /\ ~review
    /\ status[d] \in {"pending", "approved", "denied"} \ {s}
    /\ Fault
    /\ status' = [status EXCEPT ![d] = s]
    /\ review' = (s = "denied")
    /\ worker' = Outdated
    /\ UNCHANGED <<active, good, verified, rows, upload, emails, byWorker, twins>>

\* The answer to this request is not looked at.
ReviewUser(ok) ==
    /\ review
    /\ Outcome(ok)
    /\ review' = FALSE
    /\ verified' = (verified /\ ~ok)
    /\ UNCHANGED <<documents, rows, upload, worker, emails, byWorker, twins>>

-----------------------------------------------------------------------------
(* The worker *)

Due(r) ==
    /\ rows[r].state = "pending" /\ ~rows[r].due
    /\ rows' = [rows EXCEPT ![r].due = TRUE]
    /\ UNCHANGED <<documents, verified, upload, review, worker, emails, byWorker, twins, faults>>

\* CLAIM_LEASE_SECONDS are over; late, when its worker is still at it.
LeaseEnds(r) ==
    LET w == rows[r].lease IN
    /\ rows[r].live
    /\ Outcome(worker[w].row # r)
    /\ rows' = [rows EXCEPT ![r].live = FALSE]
    /\ UNCHANGED <<documents, verified, upload, review, worker, emails, byWorker, twins>>

Claim(w, r) ==
    /\ worker[w].at = "idle"
    /\ rows[r].state = "pending" /\ rows[r].due /\ ~rows[r].live
    /\ rows' = [rows EXCEPT ![r].lease = w, ![r].live = TRUE]
    /\ worker' = [worker EXCEPT ![w] = [Idle EXCEPT !.at = "docs", !.row = r]]
    /\ UNCHANGED <<documents, verified, upload, review, emails, byWorker, twins, faults>>

\* Mutant: the scheduled row is trusted, the scores are not looked at again.
ReadDocsTrusting(w, eligible) ==
    /\ worker[w].at = "docs" /\ eligible
    /\ worker' = [worker EXCEPT ![w] =
         [@ EXCEPT !.at = "user", !.approve = TRUE, !.changed = FALSE,
                   !.todo = {d \in active \cap good : status[d] # "approved"}]]
    /\ UNCHANGED <<documents, verified, rows, upload, review, emails, byWorker, twins, faults>>

\* Denied documents are approved too when another of their kind passed.
ReadDocs(w, eligible) ==
    /\ worker[w].at = "docs"
    /\ IF eligible THEN MayApprove ELSE MayRefuse
    /\ worker' = [worker EXCEPT ![w] =
         [@ EXCEPT !.at = "user", !.approve = eligible, !.changed = FALSE,
                   !.todo = {d \in active : status[d] # "approved"}]]
    /\ UNCHANGED <<documents, verified, rows, upload, review, emails, byWorker, twins, faults>>

\* Of the user only its existence matters: one verified already is approved
\* again when the documents are good, and the row is cancelled otherwise.
ReadUser(w) ==
    /\ worker[w].at = "user"
    /\ worker' = [worker EXCEPT ![w].at = IF worker[w].approve THEN "approve" ELSE "mark"]
    /\ UNCHANGED <<documents, verified, rows, upload, review, emails, byWorker, twins, faults>>

\* A document that is gone, or approved meanwhile, is not found.  A request that
\* fails may have been served.
ApproveDoc(w, d, ok) ==
    /\ worker[w].at = "approve" /\ d \in worker[w].todo
    /\ Outcome(ok)
    /\ \E served \in {ok, TRUE} :
         LET found == served /\ status[d] \notin {"gone", "approved"} IN
         /\ status' = IF found THEN [status EXCEPT ![d] = "approved"] ELSE status
         /\ byWorker' = IF found THEN byWorker \cup {d} ELSE byWorker
         /\ worker' = [worker EXCEPT ![w].todo = @ \ {d}, ![w].ok = @ /\ ok /\ found]
    /\ UNCHANGED <<active, good, verified, rows, upload, review, emails, twins>>

DocsApproved(w) ==
    /\ worker[w].at = "approve" /\ worker[w].todo = {}
    /\ worker' = [worker EXCEPT ![w] = IF @.ok THEN [@ EXCEPT !.at = "verify"] ELSE Idle]
    /\ UNCHANGED <<documents, verified, rows, upload, review, emails, byWorker, twins, faults>>

ApproveUser(w) ==
    /\ worker[w].at = "verify"
    /\ verified' = TRUE
    /\ worker' = [worker EXCEPT ![w].at = "mark"]
    /\ UNCHANGED <<documents, rows, upload, review, emails, byWorker, twins, faults>>

\* Mutant: whoever finishes a row marks it.
AnyState(w) == TRUE

\* The PATCH matches a pending row with exactly this lease, over or not.
Matches(w) == rows[worker[w].row].state = "pending" /\ rows[worker[w].row].lease = w

\* Mutant: a cancelled row is left pending.
FiredOnly(w) == IF worker[w].approve THEN "fired" ELSE "pending"

Ending(w) == IF worker[w].approve THEN "fired" ELSE "cancelled"

Mark(w) ==
    /\ worker[w].at = "mark"
    /\ rows' = IF Matches(w) THEN [rows EXCEPT ![worker[w].row].state = Ending(w)] ELSE rows
    /\ worker' = [worker EXCEPT ![w] = IF Matches(w) /\ @.approve
                                       THEN [@ EXCEPT !.at = "email"] ELSE Idle]
    /\ UNCHANGED <<documents, verified, upload, review, emails, byWorker, twins, faults>>

Email(w) ==
    /\ worker[w].at = "email"
    /\ emails[worker[w].row] < 2
    /\ emails' = [emails EXCEPT ![worker[w].row] = @ + 1]
    /\ worker' = [worker EXCEPT ![w] = Idle]
    /\ UNCHANGED <<documents, verified, rows, upload, review, byWorker, twins, faults>>

\* A request failed, or the worker died; the request may have been served.
WorkerFails(w) ==
    /\ worker[w].at # "idle"
    /\ Fault
    /\ worker' = [worker EXCEPT ![w] = Idle]
    /\ \/ UNCHANGED <<verified, rows, emails>>
       \/ /\ worker[w].at = "verify"
          /\ verified' = TRUE
          /\ UNCHANGED <<rows, emails>>
       \/ /\ worker[w].at = "mark" /\ Matches(w)
          /\ rows' = [rows EXCEPT ![worker[w].row].state = Ending(w)]
          /\ UNCHANGED <<verified, emails>>
    /\ UNCHANGED <<documents, upload, review, byWorker, twins>>

-----------------------------------------------------------------------------
Upload(u) ==
    \/ \E ok \in BOOLEAN : UploadReplace(u, ok) \/ UploadInsert(u, ok)
                           \/ ScheduleCheck(u, ok) \/ ScheduleUser(u, ok)
                           \/ ScheduleCancel(u, ok)
    \/ ScheduleInsert(u)

Work(w) ==
    \/ \E r \in Rows : Claim(w, r)
    \/ \E ok \in BOOLEAN : ReadDocs(w, ok)
    \/ \E ok \in BOOLEAN, d \in Docs : ApproveDoc(w, d, ok)
    \/ ReadUser(w) \/ DocsApproved(w) \/ ApproveUser(w) \/ Mark(w) \/ Email(w)

Next ==
    \/ \E u \in Uploads : Upload(u) \/ UploadFailed(u)
    \/ \E u \in Uploads, d \in Docs : UploadStart(u, d)
    \/ \E d \in Docs : Delete(d)
    \/ \E d \in Docs, s \in {"pending", "approved", "denied"} : Review(d, s)
    \/ \E ok \in BOOLEAN : ReviewUser(ok)
    \/ \E r \in Rows : Due(r) \/ LeaseEnds(r)
    \/ \E w \in Workers : Work(w) \/ WorkerFails(w)

Spec == Init /\ [][Next]_vars

\* Clocks advance, and a worker that is running goes on.
FairSpec ==
    /\ Spec
    /\ \A r \in Rows : WF_vars(Due(r)) /\ WF_vars(LeaseEnds(r))
    /\ \A w \in Workers : WF_vars(Work(w))

-----------------------------------------------------------------------------
(* Properties *)

(***************************************************************************)
(* One approval e-mail.  However many replicas carry one row out, after    *)
(* leases that ended early, lost answers and crashes, the dealer gets at   *)
(* most one e-mail for it, and none for a row that was cancelled.          *)
(***************************************************************************)
NoticeOnce ==
    \A r \in Rows : /\ emails[r] <= 1
                    /\ emails[r] = 1 => rows[r].state = "fired"

(***************************************************************************)
(* A worker approves documents that were scored well enough, unless two of *)
(* one kind were active at some time: the decision looks at one of them    *)
(* and the approval is given to both.                                      *)
(***************************************************************************)
ScoredOnly == twins \/ byWorker \subseteq good

(***************************************************************************)
(* A dealer becomes verified on the strength of documents that are there   *)
(* and would be approved now, unless they changed after the worker that    *)
(* verifies had read them: nothing older is ever acted on.                 *)
(***************************************************************************)
VerifiedOnDocuments ==
    [][~verified /\ verified' =>
         MayApprove \/ \E w \in Workers : worker[w].at = "verify" /\ worker[w].changed]_vars

(***************************************************************************)
(* A due row does not stay pending for ever: some worker fires or cancels  *)
(* it, also after a worker died with its lease or half of its writes.      *)
(***************************************************************************)
RowSettles ==
    \A r \in Rows :
      rows[r].state = "pending" /\ rows[r].due ~> rows[r].state # "pending"

(***************************************************************************)
(* "if either required document was replaced or its OCR confidence         *)
(* dropped, the pending row is cancelled and the user is NOT               *)
(* auto-approved": whoever becomes verified has good documents of both     *)
(* kinds at that moment.                                                   *)
(***************************************************************************)
ReplacedNotVerified ==
    [][~verified /\ verified' => \A kind \in {Trade, Tax} : active \cap kind \cap good # {}]_vars

(***************************************************************************)
(* "An explicit rejection disqualifies auto-approval; the dealer must      *)
(* re-submit before the worker will consider them again": a worker does    *)
(* not turn a denied document into an approved one.                        *)
(***************************************************************************)
DenialRespected ==
    [][\A d \in Docs, w \in Workers :
         status[d] = "denied" /\ status'[d] = "approved" =>
           worker'[w].todo = worker[w].todo]_vars

=============================================================================
