----------------------------- MODULE AutoReview -----------------------------
(***************************************************************************)
(* The automatic review of one listing                                     *)
(* (workers/auto_review_worker.py, services/auto_review/), the approval it *)
(* shares with administrators (routes/moderation.py), and what owner and   *)
(* administrators do to the listing meanwhile.                             *)
(*                                                                         *)
(* A review runs in the worker and in a thread of the web server after     *)
(* every submission and on an administrator's request, so several run at   *)
(* once.  Each of its requests is a step.  Of the checks, the one on photos *)
(* is modelled; the others (required fields, words, VIN, price, the trust  *)
(* in the seller) pass or fail at will.                                    *)
(***************************************************************************)
EXTENDS Naturals, Sequences, FiniteSets

CONSTANTS
    Photos,
    Explicit,   \* photos the vision service finds explicit
    Reviewers,
    MinPhotos,  \* PHOTO_MIN
    MaxActs,    \* bound: what owner and administrators do
    MaxFaults   \* bound: crashes, requests and downloads that fail

ASSUME PhotosAssumption == Explicit \subseteq Photos /\ IsFiniteSet(Photos)
ASSUME BoundsAssumption == {MinPhotos, MaxActs, MaxFaults} \subseteq Nat

VARIABLES
    status,     \* status of the listing
    decided,    \* auto_review_decided_at is set
    state,      \* auto_review_state
    photos,     \* rows of the images table
    review,     \* what each reviewer does
    unread,     \* history: photos live now that the last reviewer had not analysed
    mails,      \* history: notices of an automatic decision
    acts,
    faults

listing == <<status, decided, state, photos>>
vars == <<listing, review, unread, mails, acts, faults>>

Waiting == {"pending", "pending_auto_review"}
Idle == [at |-> "idle", urls |-> <<>>, seen |-> {}, verdict |-> "none", delete |-> {}]

TypeOK ==
    /\ status \in Waiting \cup {"none", "approved", "rejected", "deleted"}
    /\ decided \in BOOLEAN
    /\ state \in {"none", "auto_approved", "auto_queued", "auto_rejected"}
    /\ photos \subseteq Photos /\ unread \subseteq Photos
    /\ review \in [Reviewers ->
         [at : {"idle", "urls", "bytes", "record", "act", "mail"}, urls : Seq(Photos),
          seen : SUBSET Photos, verdict : {"none", "approve", "queue", "reject"}, delete : SUBSET Photos]]
    /\ mails \in Nat
    /\ acts \in 0 .. MaxActs /\ faults \in 0 .. MaxFaults

Init ==
    /\ status = "none" /\ decided = FALSE /\ state = "none" /\ photos = {}
    /\ review = [r \in Reviewers |-> Idle]
    /\ unread = {} /\ mails = 0
    /\ acts = 0 /\ faults = 0

Act == acts < MaxActs /\ acts' = acts + 1
Fault == faults < MaxFaults /\ faults' = faults + 1
Outcome(ok) == IF ok THEN UNCHANGED faults ELSE Fault

-----------------------------------------------------------------------------
(* The owner *)

\* create_car stores the listing and, in a second request, its photos.
Create ==
    /\ status = "none"
    /\ status' = "pending_auto_review"
    /\ UNCHANGED <<decided, state, photos, review, unread, mails, acts, faults>>

\* update_car neither moves the listing back nor has it reviewed again.
StorePhotos(ps) ==
    /\ status \notin {"none", "deleted"} /\ Act
    /\ ps # photos
    /\ photos' = ps
    /\ unread' = IF status = "approved" THEN unread \cup (ps \ photos) ELSE unread
    /\ UNCHANGED <<status, decided, state, review, mails, faults>>

Delete ==
    /\ status \notin {"none", "deleted"} /\ Act
    /\ status' = "deleted"
    /\ UNCHANGED <<decided, state, photos, review, unread, mails, faults>>

-----------------------------------------------------------------------------
(* Administrators *)

AdminApprove ==
    /\ status # "none" /\ Act
    /\ status' = "approved"
    /\ unread' = photos
    /\ UNCHANGED <<decided, state, photos, review, mails, faults>>

AdminReject ==
    /\ status # "none" /\ Act
    /\ status' = "rejected"
    /\ UNCHANGED <<decided, state, photos, review, unread, mails, faults>>

\* admin_auto_review_run: the review that follows is that of any reviewer.
Rerun ==
    /\ status # "none" /\ Act
    /\ status' = "pending_auto_review" /\ decided' = FALSE /\ state' = "none"
    /\ UNCHANGED <<photos, review, unread, mails, faults>>

-----------------------------------------------------------------------------
(* A reviewer: process_once *)

\* Mutant: only listings in the state submissions start in.
ToReviewNew == status = "pending_auto_review" /\ ~decided

ToReview == status \in Waiting /\ ~decided

Fetch(r) ==
    /\ review[r].at = "idle" /\ ToReview
    /\ review' = [review EXCEPT ![r].at = "urls"]
    /\ UNCHANGED <<listing, unread, mails, acts, faults>>

\* A query that fails is one that finds none.
FetchUrls(r, ok) ==
    /\ review[r].at = "urls" /\ Outcome(ok)
    /\ \E s \in [1 .. (IF ok THEN Cardinality(photos) ELSE 0) -> photos] :
         /\ \A i, j \in DOMAIN s : i # j => s[i] # s[j]
         /\ review' = [review EXCEPT ![r].at = "bytes", ![r].urls = s]
    /\ UNCHANGED <<listing, unread, mails, acts>>

\* The photos at the indices ix were downloaded; they are numbered anew.
Indices(urls) == 1 .. Len(urls)
Numbered(ix, i) == Cardinality({j \in ix : j <= i})

\* Mutant: an index into the bytes is taken for one into the addresses.
OffendingAnyway(urls, ix) ==
    {urls[Numbered(ix, i)] : i \in {k \in ix : urls[k] \in Explicit}}
Offending(urls, ix) ==
    IF ix # Indices(urls) THEN {}
    ELSE {urls[Numbered(ix, i)] : i \in {k \in ix : urls[k] \in Explicit}}

\* Mutant: an explicit photo is one more reason to ask an administrator.
VerdictsNoBlock(urls, ix) ==
    {"queue"} \cup (IF Len(urls) >= MinPhotos THEN {"approve"} ELSE {})

Verdicts(urls, ix) ==
    IF \E i \in ix : urls[i] \in Explicit THEN {"reject"}
    ELSE {"queue"} \cup (IF Len(urls) >= MinPhotos THEN {"approve"} ELSE {})

\* Photos that cannot be downloaded are passed over.
Evaluate(r, ix) ==
    LET urls == review[r].urls IN
    /\ review[r].at = "bytes"
    /\ Outcome(ix = Indices(urls))
    /\ \E v \in Verdicts(urls, ix) :
         review' = [review EXCEPT
           ![r] = [at |-> "record", urls |-> <<>>, seen |-> {urls[i] : i \in ix}, verdict |-> v,
                   delete |-> IF v = "reject" THEN Offending(urls, ix) ELSE {}]]
    /\ UNCHANGED <<listing, unread, mails, acts>>

StateOf(verdict) == CASE verdict = "approve" -> "auto_approved"
                      [] verdict = "reject" -> "auto_rejected"
                      [] OTHER -> "auto_queued"

\* The decision is recorded whether or not it will be carried out.
Record(r, ok) ==
    /\ review[r].at = "record" /\ Outcome(ok)
    /\ IF ok THEN decided' = TRUE /\ state' = StateOf(review[r].verdict)
             ELSE UNCHANGED <<decided, state>>
    /\ review' = [review EXCEPT ![r].at = "act"]
    /\ UNCHANGED <<status, photos, unread, mails, acts>>

ToMail(r) == [review EXCEPT ![r].at = "mail"]

\* No request says what the listing has to be like by now.
Approve(r) ==
    /\ review[r].at = "act" /\ review[r].verdict = "approve"
    /\ status' = "approved" /\ decided' = TRUE /\ state' = "auto_approved"
    /\ unread' = photos \ review[r].seen
    /\ review' = ToMail(r)
    /\ UNCHANGED <<photos, mails, acts, faults>>

\* A failed approval is not reported to the caller's caller.
ApproveFails(r) ==
    /\ review[r].at = "act" /\ review[r].verdict = "approve" /\ Fault
    /\ review' = [review EXCEPT ![r] = Idle]
    /\ UNCHANGED <<listing, unread, mails, acts>>

Queue(r, ok) ==
    /\ review[r].at = "act" /\ review[r].verdict = "queue" /\ Outcome(ok)
    /\ status' = IF ok THEN "pending" ELSE status
    /\ review' = ToMail(r)
    /\ UNCHANGED <<decided, state, photos, unread, mails, acts>>

DeletePhoto(r, p, ok) ==
    /\ review[r].at = "act" /\ review[r].verdict = "reject" /\ Outcome(ok)
    /\ p \in review[r].delete
    /\ photos' = IF ok THEN photos \ {p} ELSE photos
    /\ review' = [review EXCEPT ![r].delete = @ \ {p}]
    /\ UNCHANGED <<status, decided, state, unread, mails, acts>>

Reject(r, ok) ==
    /\ review[r].at = "act" /\ review[r].verdict = "reject" /\ review[r].delete = {}
    /\ Outcome(ok)
    /\ IF ok THEN status' = "rejected" /\ decided' = TRUE /\ state' = "auto_rejected"
             ELSE UNCHANGED <<status, decided, state>>
    /\ review' = ToMail(r)
    /\ UNCHANGED <<photos, unread, mails, acts>>

\* The owner hears of an approval or a rejection, administrators of the rest.
Mail(r, ok) ==
    /\ review[r].at = "mail" /\ Outcome(ok)
    /\ mails' = IF ok THEN mails + 1 ELSE mails
    /\ review' = [review EXCEPT ![r] = Idle]
    /\ UNCHANGED <<listing, unread, acts>>

Crash(r) ==
    /\ review[r].at # "idle" /\ Fault
    /\ review' = [review EXCEPT ![r] = Idle]
    /\ UNCHANGED <<listing, unread, mails, acts>>

Review(r) == \/ Fetch(r) \/ FetchUrls(r, TRUE)
             \/ Evaluate(r, Indices(review[r].urls))
             \/ Record(r, TRUE) \/ Approve(r) \/ Queue(r, TRUE)
             \/ \E p \in Photos : DeletePhoto(r, p, TRUE)
             \/ Reject(r, TRUE) \/ Mail(r, TRUE)
Fail(r) == \/ FetchUrls(r, FALSE)
           \/ \E ix \in SUBSET Indices(review[r].urls) :
                ix # Indices(review[r].urls) /\ Evaluate(r, ix)
           \/ Record(r, FALSE) \/ ApproveFails(r) \/ Queue(r, FALSE)
           \/ \E p \in Photos : DeletePhoto(r, p, FALSE)
           \/ Reject(r, FALSE) \/ Mail(r, FALSE) \/ Crash(r)

Next == \/ Create \/ Delete \/ AdminApprove \/ AdminReject \/ Rerun
        \/ \E ps \in SUBSET Photos : StorePhotos(ps)
        \/ \E r \in Reviewers : Review(r) \/ Fail(r)

Spec == Init /\ [][Next]_vars
\* The worker polls for ever; threads run until they end.
FairSpec == Spec /\ \A r \in Reviewers : WF_vars(Review(r))

-----------------------------------------------------------------------------
(* Safety *)

\* The review deletes explicit photos only, whatever download failed.
InnocentStay ==
    [][\A p \in photos \ photos' : acts' = acts => p \in Explicit]_photos

Alone == \A q, r \in Reviewers : q = r

\* One reviewer sends a second notice only after a fault, or when it was asked
\* to review the listing again.
NoticesBounded == Alone => mails <= 1 + acts + faults

\* No explicit photo is live, but those an administrator answers for, that were
\* stored after the reviewer read the listing, or that it could not download.
ExplicitHidden == status = "approved" => photos \cap Explicit \subseteq unread

-----------------------------------------------------------------------------
(* Liveness *)

\* A listing does not wait for the review for ever.
Reviewed == status \in Waiting /\ ~decided ~> decided \/ status \notin Waiting

-----------------------------------------------------------------------------
(* What the pages and comments say *)

\* "reviewed before it goes live"
ReviewedBeforeLive ==
    [][\A r \in Reviewers : Approve(r) => photos \subseteq review[r].seen]_vars

\* "restoring remains a manual moderation decision"
RejectionStands ==
    [][status = "rejected" /\ status' = "approved" => acts' # acts]_vars

\* "the automated checks passed and the listing was approved"
AcceptedIsPublished == state = "auto_approved" ~> status \notin Waiting \/ state # "auto_approved"
=============================================================================
