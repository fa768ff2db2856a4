-------------------------- MODULE AutoReview_proofs -------------------------
(***************************************************************************)
(* Proofs about AutoReview, for any number of photos and reviewers and for *)
(* any interventions and faults.                                           *)
(***************************************************************************)
EXTENDS AutoReview, FiniteSetTheorems, TLAPS

Rows == [at : {"idle", "urls", "bytes", "record", "act", "mail"}, urls : Seq(Photos),
         seen : SUBSET Photos, verdict : {"none", "approve", "queue", "reject"},
         delete : SUBSET Photos]

\* What a review carries: photos to delete are explicit, and one that is to
\* approve has seen no explicit photo.
Sound(x) ==
    /\ x.delete \subseteq Explicit
    /\ x.at \in {"record", "act"} /\ x.verdict = "approve" => x.seen \cap Explicit = {}

-----------------------------------------------------------------------------
(* What a review reads and finds *)

\* When every photo was downloaded, numbers and indices are the same.
LEMMA NumberedAll ==
    ASSUME NEW n \in Nat, NEW i \in 1 .. n
    PROVE  Numbered(1 .. n, i) = i
<1>1. {j \in 1 .. n : j <= i} = 1 .. i
  OBVIOUS
<1>2. Cardinality(1 .. i) = i
  BY FS_Interval
<1> QED
  BY <1>1, <1>2 DEF Numbered

\* So what is singled out for deletion is explicit.
LEMMA OffendingExplicit ==
    ASSUME NEW urls \in Seq(Photos), NEW ix
    PROVE  Offending(urls, ix) \subseteq Explicit \cap Photos
<1>1. CASE ix = Indices(urls)
  <2>1. Len(urls) \in Nat /\ ix = 1 .. Len(urls)
    BY <1>1 DEF Indices
  <2>2. ASSUME NEW i \in ix, urls[i] \in Explicit
        PROVE  urls[Numbered(ix, i)] \in Explicit
    BY <2>1, <2>2, NumberedAll
  <2>3. Offending(urls, ix) \subseteq Explicit
    BY <1>1, <2>2 DEF Offending
  <2> QED
    BY <2>3, PhotosAssumption
<1>2. CASE ix # Indices(urls)
  BY <1>2 DEF Offending
<1> QED
  BY <1>1, <1>2

\* An approval has seen no explicit photo.
LEMMA ApprovedClean ==
    ASSUME NEW urls, NEW ix, NEW v \in Verdicts(urls, ix)
    PROVE  /\ v \in {"approve", "queue", "reject"}
           /\ v = "approve" => {urls[i] : i \in ix} \cap Explicit = {}
BY DEF Verdicts

-----------------------------------------------------------------------------
(* Types *)

\* What the steps leave of a review.
LEMMA IdleRow == Idle \in Rows /\ Sound(Idle)
<1>1. <<>> \in Seq(Photos)
  OBVIOUS
<1> QED
  BY <1>1 DEF Rows, Idle, Sound

LEMMA RowSteps ==
    ASSUME NEW x \in Rows
    PROVE  /\ [x EXCEPT !.at = "urls"] \in Rows
           /\ [x EXCEPT !.at = "act"] \in Rows
           /\ [x EXCEPT !.at = "mail"] \in Rows
           /\ \A p : [x EXCEPT !.delete = @ \ {p}] \in Rows
           /\ \A s \in Seq(Photos) : [x EXCEPT !.at = "bytes", !.urls = s] \in Rows
BY DEF Rows

LEMMA SoundSteps ==
    ASSUME NEW x \in Rows, Sound(x)
    PROVE  /\ Sound([x EXCEPT !.at = "urls"])
           /\ x.at = "record" => Sound([x EXCEPT !.at = "act"])
           /\ Sound([x EXCEPT !.at = "mail"])
           /\ \A p : Sound([x EXCEPT !.delete = @ \ {p}])
           /\ \A s : Sound([x EXCEPT !.at = "bytes", !.urls = s])
BY DEF Rows, Sound

LEMMA ListIsSeq ==
    ASSUME NEW S, NEW n \in Nat, NEW s \in [1 .. n -> S]
    PROVE  s \in Seq(S)
OBVIOUS

LEMMA EvaluateRow ==
    ASSUME TypeOK, NEW r \in Reviewers, NEW ix \in SUBSET Indices(review[r].urls),
           NEW v \in Verdicts(review[r].urls, ix)
    PROVE  [at |-> "record", urls |-> <<>>, seen |-> {review[r].urls[i] : i \in ix},
            verdict |-> v,
            delete |-> IF v = "reject" THEN Offending(review[r].urls, ix) ELSE {}]
             \in {x \in Rows : Sound(x)}
<1> DEFINE urls == review[r].urls
           del == IF v = "reject" THEN Offending(urls, ix) ELSE {}
           seen == {urls[i] : i \in ix}
<1>1. urls \in Seq(Photos)
  BY DEF TypeOK
<1>2. del \in SUBSET Photos /\ del \subseteq Explicit
  BY <1>1, OffendingExplicit
<1>3. seen \in SUBSET Photos
  BY <1>1 DEF Indices
<1>4. v \in {"approve", "queue", "reject"} /\ (v = "approve" => seen \cap Explicit = {})
  BY ApprovedClean
<1> HIDE DEF urls, del, seen
<1>5. [at |-> "record", urls |-> <<>>, seen |-> seen, verdict |-> v, delete |-> del]
        \in {x \in Rows : Sound(x)}
  BY <1>2, <1>3, <1>4 DEF Rows, Sound
<1> QED
  BY <1>5 DEF urls, del, seen

\* A step of a review changes its own row, to a row.
Changes(r) == \E x \in {x \in Rows : Sound(review[r]) => Sound(x)} :
                review' = [review EXCEPT ![r] = x]

LEMMA ReviewRow ==
    ASSUME TypeOK, NEW r \in Reviewers, Review(r) \/ Fail(r)
    PROVE  Changes(r)
<1> DEFINE y == review[r]
<1>1. y \in Rows /\ review \in [Reviewers -> Rows]
  BY DEF TypeOK, Rows
<1>2. ASSUME Fetch(r)
      PROVE  Changes(r)
  <2>1. review' = [review EXCEPT ![r] = [y EXCEPT !.at = "urls"]]
    BY <1>2 DEF Fetch
  <2> QED
    BY <1>1, <2>1, RowSteps, SoundSteps DEF Changes
<1>3. ASSUME NEW ok \in BOOLEAN, FetchUrls(r, ok)
      PROVE  Changes(r)
  <2>1. PICK s \in [1 .. (IF ok THEN Cardinality(photos) ELSE 0) -> photos] :
           review' = [review EXCEPT ![r].at = "bytes", ![r].urls = s]
    BY <1>3 DEF FetchUrls
  <2>2. photos \in SUBSET Photos /\ IsFiniteSet(photos)
    BY PhotosAssumption, FS_Subset DEF TypeOK
  <2>3. (IF ok THEN Cardinality(photos) ELSE 0) \in Nat
    BY <2>2, FS_CardinalityType
  <2>4. s \in Seq(Photos)
    BY <2>2, <2>3, ListIsSeq
  <2>5. review' = [review EXCEPT ![r] = [y EXCEPT !.at = "bytes", !.urls = s]]
    BY <1>1, <2>1
  <2>6. [y EXCEPT !.at = "bytes", !.urls = s] \in Rows
    BY <1>1, <2>4, RowSteps
  <2> QED
    BY <1>1, <2>5, <2>6, SoundSteps DEF Changes
<1>4. ASSUME NEW ix \in SUBSET Indices(y.urls), Evaluate(r, ix)
      PROVE  Changes(r)
  <2>1. PICK v \in Verdicts(y.urls, ix) :
           review' = [review EXCEPT ![r] =
             [at |-> "record", urls |-> <<>>, seen |-> {y.urls[i] : i \in ix}, verdict |-> v,
              delete |-> IF v = "reject" THEN Offending(y.urls, ix) ELSE {}]]
    BY <1>4 DEF Evaluate
  <2> QED
    BY <2>1, EvaluateRow DEF Changes
<1>5. ASSUME NEW ok \in BOOLEAN, Record(r, ok)
      PROVE  Changes(r)
  <2>1. y.at = "record" /\ review' = [review EXCEPT ![r] = [y EXCEPT !.at = "act"]]
    BY <1>5 DEF Record
  <2> QED
    BY <1>1, <2>1, RowSteps, SoundSteps DEF Changes
<1>6. ASSUME review' = ToMail(r)
      PROVE  Changes(r)
  <2>1. review' = [review EXCEPT ![r] = [y EXCEPT !.at = "mail"]]
    BY <1>6 DEF ToMail
  <2> QED
    BY <1>1, <2>1, RowSteps, SoundSteps DEF Changes
<1>7. ASSUME NEW ok \in BOOLEAN, NEW p \in Photos, DeletePhoto(r, p, ok)
      PROVE  Changes(r)
  <2>1. review' = [review EXCEPT ![r] = [y EXCEPT !.delete = @ \ {p}]]
    BY <1>7 DEF DeletePhoto
  <2> QED
    BY <1>1, <2>1, RowSteps, SoundSteps DEF Changes
<1>8. ASSUME review' = [review EXCEPT ![r] = Idle]
      PROVE  Changes(r)
  BY <1>1, <1>8, IdleRow DEF Changes
<1>9. CASE Review(r)
  <2>1. Evaluate(r, Indices(y.urls)) => Changes(r)
    BY <1>4
  <2>2. Approve(r) \/ Queue(r, TRUE) \/ Reject(r, TRUE) => Changes(r)
    BY <1>6 DEF Approve, Queue, Reject
  <2>3. Mail(r, TRUE) => Changes(r)
    BY <1>8 DEF Mail
  <2> QED
    BY <1>9, <1>2, <1>3, <1>5, <1>7, <2>1, <2>2, <2>3 DEF Review
<1>10. CASE Fail(r)
  <2>1. Queue(r, FALSE) \/ Reject(r, FALSE) => Changes(r)
    BY <1>6 DEF Queue, Reject
  <2>2. ApproveFails(r) \/ Mail(r, FALSE) \/ Crash(r) => Changes(r)
    BY <1>8 DEF ApproveFails, Mail, Crash
  <2> QED
    BY <1>10, <1>3, <1>4, <1>5, <1>7, <2>1, <2>2 DEF Fail
<1> QED
  BY <1>9, <1>10

LEMMA ReviewTypes ==
    ASSUME TypeOK, NEW r \in Reviewers, Review(r) \/ Fail(r)
    PROVE  review' \in [Reviewers -> Rows]
<1>1. review \in [Reviewers -> Rows]
  BY DEF TypeOK, Rows
<1>2. PICK x \in Rows : review' = [review EXCEPT ![r] = x]
  BY ReviewRow DEF Changes
<1> QED
  BY <1>1, <1>2

OtherTypes ==
    /\ status \in Waiting \cup {"none", "approved", "rejected", "deleted"}
    /\ decided \in BOOLEAN
    /\ state \in {"none", "auto_approved", "auto_queued", "auto_rejected"}
    /\ photos \subseteq Photos /\ unread \subseteq Photos
    /\ mails \in Nat
    /\ acts \in 0 .. MaxActs /\ faults \in 0 .. MaxFaults

LEMMA CountTypes ==
    ASSUME acts \in 0 .. MaxActs, faults \in 0 .. MaxFaults
    PROVE  /\ Act => acts' \in 0 .. MaxActs /\ acts' = acts + 1
           /\ Fault => faults' \in 0 .. MaxFaults /\ faults' = faults + 1
           /\ \A ok : Outcome(ok) => /\ faults' \in 0 .. MaxFaults
                                     /\ faults' = IF ok THEN faults ELSE faults + 1
BY BoundsAssumption DEF Act, Fault, Outcome

LEMMA OutsideTypes ==
    ASSUME OtherTypes,
           \/ Create \/ Delete \/ AdminApprove \/ AdminReject \/ Rerun
           \/ \E ps \in SUBSET Photos : StorePhotos(ps)
    PROVE  OtherTypes'
BY CountTypes DEF OtherTypes, Waiting, Create, Delete, AdminApprove, AdminReject, Rerun,
                  StorePhotos

LEMMA ReviewerTypes ==
    ASSUME OtherTypes, NEW r \in Reviewers, Review(r) \/ Fail(r)
    PROVE  OtherTypes'
<1> USE CountTypes DEF OtherTypes
<1>1. Fetch(r) \/ (\E ok \in BOOLEAN : FetchUrls(r, ok)) => OtherTypes'
  BY DEF Fetch, FetchUrls, listing
<1>2. (\E ix \in SUBSET Indices(review[r].urls) : Evaluate(r, ix)) => OtherTypes'
  BY DEF Evaluate, listing
<1>3. (\E ok \in BOOLEAN : Record(r, ok)) => OtherTypes'
  BY DEF Record, StateOf
<1>4. Approve(r) => OtherTypes'
  BY DEF Approve
<1>5. (\E ok \in BOOLEAN : Queue(r, ok)) => OtherTypes'
  BY DEF Queue, Waiting
<1>6. (\E ok \in BOOLEAN, p \in Photos : DeletePhoto(r, p, ok)) => OtherTypes'
  BY DEF DeletePhoto
<1>7. (\E ok \in BOOLEAN : Reject(r, ok)) => OtherTypes'
  BY DEF Reject
<1>8. (\E ok \in BOOLEAN : Mail(r, ok)) => OtherTypes'
  BY DEF Mail, listing
<1>9. ApproveFails(r) \/ Crash(r) => OtherTypes'
  BY DEF ApproveFails, Crash, listing
<1> HIDE DEF OtherTypes
<1>10. CASE Review(r)
  BY <1>10, <1>1, <1>2, <1>3, <1>4, <1>5, <1>6, <1>7, <1>8 DEF Review
<1>11. CASE Fail(r)
  BY <1>11, <1>1, <1>2, <1>3, <1>5, <1>6, <1>7, <1>8, <1>9 DEF Fail
<1> QED
  BY <1>10, <1>11

LEMMA TypeParts == TypeOK <=> OtherTypes /\ review \in [Reviewers -> Rows]
BY DEF TypeOK, OtherTypes, Rows

LEMMA TypeStep ==
    ASSUME TypeOK, [Next]_vars
    PROVE  TypeOK'
<1>1. OtherTypes /\ review \in [Reviewers -> Rows]
  BY TypeParts
<1>2. ASSUME \/ Create \/ Delete \/ AdminApprove \/ AdminReject \/ Rerun
             \/ \E ps \in SUBSET Photos : StorePhotos(ps)
      PROVE  TypeOK'
  <2>1. review' = review
    BY <1>2 DEF Create, Delete, AdminApprove, AdminReject, Rerun, StorePhotos
  <2>2. OtherTypes'
    BY <1>1, <1>2, OutsideTypes
  <2> QED
    BY <1>1, <2>1, <2>2 DEF TypeOK, OtherTypes, Rows
<1>3. ASSUME NEW r \in Reviewers, Review(r) \/ Fail(r)
      PROVE  TypeOK'
  <2>1. OtherTypes' /\ review' \in [Reviewers -> Rows]
    BY <1>1, <1>3, ReviewerTypes, ReviewTypes
  <2> QED
    BY <2>1 DEF TypeOK, OtherTypes, Rows
<1>4. CASE UNCHANGED vars
  BY <1>4 DEF vars, listing, TypeOK
<1> QED
  BY <1>2, <1>3, <1>4 DEF Next

LEMMA TypeInit == Init => TypeOK
<1>1. MaxActs \in Nat /\ MaxFaults \in Nat
  BY BoundsAssumption
<1>2. Init => OtherTypes
  <2>1. Init => acts \in 0 .. MaxActs /\ faults \in 0 .. MaxFaults /\ mails \in Nat
    BY <1>1 DEF Init
  <2>2. Init => decided \in BOOLEAN /\ photos \subseteq Photos /\ unread \subseteq Photos
    BY DEF Init
  <2>3. Init => status = "none" /\ state = "none"
    BY DEF Init
  <2> QED
    BY <2>1, <2>2, <2>3 DEF OtherTypes
<1>3. Init => review \in [Reviewers -> Rows]
  BY IdleRow DEF Init
<1> QED
  BY <1>2, <1>3, TypeParts

(***************************************************************************)
(* Listing, reviews and histories keep to their types.                     *)
(***************************************************************************)
THEOREM TypeCorrect == Spec => []TypeOK
<1>1. Init => TypeOK
  BY TypeInit
<1>2. TypeOK /\ [Next]_vars => TypeOK'
  BY TypeStep
<1> QED
  BY <1>1, <1>2, PTL DEF Spec

-----------------------------------------------------------------------------
(* What goes live and what is deleted *)

ReviewInv == /\ TypeOK
             /\ \A r \in Reviewers : Sound(review[r])
             /\ ExplicitHidden

LEMMA ExplicitStep ==
    ASSUME ReviewInv, NEW r \in Reviewers, Review(r) \/ Fail(r)
    PROVE  ExplicitHidden'
<1> USE DEF ExplicitHidden
<1>1. ASSUME status' = status, photos' \subseteq photos, unread' = unread
      PROVE  ExplicitHidden'
  BY <1>1 DEF ReviewInv
<1>2. ASSUME status' \in {"pending", "rejected"}
      PROVE  ExplicitHidden'
  BY <1>2
<1>3. CASE Approve(r)
  <2>1. review[r].seen \cap Explicit = {}
    BY <1>3 DEF Approve, ReviewInv, Sound
  <2> QED
    BY <1>3, <2>1 DEF Approve
<1>4. ASSUME Fetch(r) \/ \E ok \in BOOLEAN : FetchUrls(r, ok) \/ Record(r, ok) \/ Mail(r, ok)
      PROVE  ExplicitHidden'
  BY <1>1, <1>4 DEF Fetch, FetchUrls, Record, Mail, listing
<1>5. ASSUME ApproveFails(r) \/ Crash(r) \/ \E ix \in SUBSET Indices(review[r].urls) : Evaluate(r, ix)
      PROVE  ExplicitHidden'
  BY <1>1, <1>5 DEF ApproveFails, Crash, Evaluate, listing
<1>6. ASSUME \E ok \in BOOLEAN, p \in Photos : DeletePhoto(r, p, ok)
      PROVE  ExplicitHidden'
  BY <1>1, <1>6 DEF DeletePhoto
<1>7. ASSUME \E ok \in BOOLEAN : Queue(r, ok) \/ Reject(r, ok)
      PROVE  ExplicitHidden'
  BY <1>1, <1>2, <1>7 DEF Queue, Reject
<1> HIDE DEF ExplicitHidden
<1>8. CASE Review(r)
  BY <1>8, <1>3, <1>4, <1>5, <1>6, <1>7 DEF Review
<1>9. CASE Fail(r)
  BY <1>9, <1>4, <1>5, <1>6, <1>7 DEF Fail
<1> QED
  BY <1>8, <1>9

LEMMA ExplicitOutside ==
    ASSUME ReviewInv,
           \/ Create \/ Delete \/ AdminApprove \/ AdminReject \/ Rerun
           \/ \E ps \in SUBSET Photos : StorePhotos(ps)
    PROVE  ExplicitHidden' /\ review' = review
<1>1. (\E ps \in SUBSET Photos : StorePhotos(ps)) => ExplicitHidden' /\ review' = review
  BY DEF StorePhotos, ExplicitHidden, ReviewInv
<1>2. AdminApprove => ExplicitHidden' /\ review' = review
  BY DEF AdminApprove, ExplicitHidden
<1>3. Create \/ Delete \/ AdminReject \/ Rerun => ExplicitHidden' /\ review' = review
  BY DEF Create, Delete, AdminReject, Rerun, ExplicitHidden
<1> QED
  BY <1>1, <1>2, <1>3

LEMMA ReviewStep ==
    ASSUME ReviewInv, [Next]_vars
    PROVE  ReviewInv'
<1>1. TypeOK'
  BY TypeStep DEF ReviewInv
<1>2. ASSUME NEW r \in Reviewers, Review(r) \/ Fail(r)
      PROVE  ReviewInv'
  <2>1. TypeOK /\ \A q \in Reviewers : Sound(review[q])
    BY DEF ReviewInv
  <2>2. PICK x \in Rows : Sound(x) /\ review' = [review EXCEPT ![r] = x]
    BY <1>2, <2>1, ReviewRow DEF Changes
  <2>3. ASSUME NEW q \in Reviewers
        PROVE  Sound(review[q])'
    <3>1. review'[q] = x \/ review'[q] = review[q]
      BY <2>1, <2>2 DEF TypeOK
    <3> QED
      BY <2>1, <2>2, <3>1 DEF Sound
  <2>4. ExplicitHidden'
    BY <1>2, ExplicitStep
  <2> QED
    BY <1>1, <2>3, <2>4 DEF ReviewInv
<1>3. ASSUME \/ Create \/ Delete \/ AdminApprove \/ AdminReject \/ Rerun
             \/ \E ps \in SUBSET Photos : StorePhotos(ps)
      PROVE  ReviewInv'
  <2>1. ExplicitHidden' /\ review' = review
    BY <1>3, ExplicitOutside
  <2> QED
    BY <1>1, <2>1 DEF ReviewInv, Sound
<1>4. CASE UNCHANGED vars
  BY <1>1, <1>4 DEF vars, listing, ReviewInv, Sound, ExplicitHidden
<1> QED
  BY <1>2, <1>3, <1>4 DEF Next

LEMMA ReviewInvariant == Spec => []ReviewInv
<1>1. Init => ReviewInv
  <2>1. Init => TypeOK
    BY TypeInit
  <2> QED
    BY <2>1, IdleRow DEF Init, ReviewInv, ExplicitHidden
<1>2. ReviewInv /\ [Next]_vars => ReviewInv'
  BY ReviewStep
<1> QED
  BY <1>1, <1>2, PTL DEF Spec

(***************************************************************************)
(* No explicit photo is live that a reviewer had read before it approved.  *)
(***************************************************************************)
THEOREM ExplicitStaysHidden == Spec => []ExplicitHidden
<1>1. ReviewInv => ExplicitHidden
  BY DEF ReviewInv
<1> QED
  BY <1>1, ReviewInvariant, PTL

\* A photo goes by an intervention, or as one a review singled out.
LEMMA DeletedExplicit ==
    ASSUME ReviewInv, [Next]_vars, NEW p \in photos \ photos', acts' = acts
    PROVE  p \in Explicit
<1>1. acts \in Nat
  BY DEF ReviewInv, TypeOK
<1>2. ASSUME NEW r \in Reviewers, Review(r) \/ Fail(r)
      PROVE  p \in Explicit
  <2>1. ASSUME NEW q \in Photos, NEW ok \in BOOLEAN, DeletePhoto(r, q, ok)
        PROVE  p \in Explicit
    BY <2>1 DEF DeletePhoto, ReviewInv, Sound
  <2>2. ASSUME photos' = photos
        PROVE  p \in Explicit
    BY <2>2
  <2>3. Fetch(r) \/ (\E ok \in BOOLEAN : FetchUrls(r, ok) \/ Record(r, ok) \/ Mail(r, ok))
          => photos' = photos
    BY DEF Fetch, FetchUrls, Record, Mail, listing
  <2>4. Approve(r) \/ ApproveFails(r) \/ Crash(r) => photos' = photos
    BY DEF Approve, ApproveFails, Crash, listing
  <2>5. (\E ok \in BOOLEAN : Queue(r, ok) \/ Reject(r, ok)) => photos' = photos
    BY DEF Queue, Reject
  <2>6. (\E ix \in SUBSET Indices(review[r].urls) : Evaluate(r, ix)) => photos' = photos
    BY DEF Evaluate, listing
  <2>7. CASE Review(r)
    BY <2>7, <2>1, <2>2, <2>3, <2>4, <2>5, <2>6 DEF Review
  <2>8. CASE Fail(r)
    BY <2>8, <2>1, <2>2, <2>3, <2>4, <2>5, <2>6 DEF Fail
  <2> QED
    BY <1>2, <2>7, <2>8
<1>3. ~ \E ps \in SUBSET Photos : StorePhotos(ps)
  BY <1>1 DEF StorePhotos, Act
<1>4. CASE Create \/ Delete \/ AdminApprove \/ AdminReject \/ Rerun
  BY <1>4 DEF Create, Delete, AdminApprove, AdminReject, Rerun
<1>5. CASE UNCHANGED vars
  BY <1>5 DEF vars, listing
<1> QED
  BY <1>2, <1>3, <1>4, <1>5 DEF Next

(***************************************************************************)
(* The review deletes explicit photos only, whatever download failed.      *)
(***************************************************************************)
THEOREM InnocentPhotosStay == Spec => InnocentStay
<1>1. ReviewInv /\ [Next]_vars => [\A p \in photos \ photos' : acts' = acts => p \in Explicit]_photos
  BY DeletedExplicit
<1> QED
  BY <1>1, ReviewInvariant, PTL DEF Spec, InnocentStay

-----------------------------------------------------------------------------
(***************************************************************************)
(* Notices.  A notice under way is counted in advance; a listing that      *)
(* still, or again, has no decision leaves room for one more.              *)
(***************************************************************************)
Causes == acts + faults
Room(r) ==
    /\ mails <= Causes + 1
    /\ review[r].at # "idle" => mails <= Causes
    /\ ~decided /\ review[r].at = "idle" => mails <= Causes
    /\ ~decided /\ review[r].at \in {"act", "mail"} => mails + 1 <= Causes

NoticeInv == /\ TypeOK
             /\ mails <= Causes + 1 \/ ~Alone
             /\ Alone => \A r \in Reviewers : Room(r)

\* The counters a step reads and what it makes of them.
LEMMA NoticeCounts ==
    ASSUME TypeOK
    PROVE  /\ mails \in Nat /\ acts \in Nat /\ faults \in Nat
           /\ Act => acts' = acts + 1
           /\ Fault => faults' = faults + 1
           /\ Outcome(TRUE) => faults' = faults
           /\ Outcome(FALSE) => faults' = faults + 1
           /\ \A ok \in BOOLEAN : Outcome(ok) => faults' \in {faults, faults + 1}
BY DEF TypeOK, Act, Fault, Outcome

\* A review's own step, as it goes from one place to the next.
LEMMA RoomReview ==
    ASSUME TypeOK, NEW r \in Reviewers, Room(r), Review(r) \/ Fail(r)
    PROVE  Room(r)'
<1> USE NoticeCounts DEF Room, Causes
<1> DEFINE at == review[r].at
<1>1. CASE Fetch(r)
  <2>1. at = "idle" /\ at' = "urls" /\ ~decided /\ decided' = decided
    BY <1>1 DEF Fetch, ToReview, listing, TypeOK
  <2> QED
    BY <1>1, <2>1 DEF Fetch
<1>2. ASSUME NEW ok \in BOOLEAN, FetchUrls(r, ok)
      PROVE  Room(r)'
  <2>1. at = "urls" /\ at' = "bytes" /\ decided' = decided
    BY <1>2 DEF FetchUrls, listing, TypeOK
  <2>2. faults' >= faults /\ faults' \in Nat
    BY <1>2 DEF FetchUrls
  <2> QED
    BY <1>2, <2>1, <2>2 DEF FetchUrls
<1>3. ASSUME NEW ix \in SUBSET Indices(review[r].urls), Evaluate(r, ix)
      PROVE  Room(r)'
  <2>1. at = "bytes" /\ at' = "record" /\ decided' = decided
    BY <1>3 DEF Evaluate, listing, TypeOK
  <2>2. faults' \in {faults, faults + 1}
    BY <1>3 DEF Evaluate, Outcome, Fault
  <2> QED
    BY <1>3, <2>1, <2>2 DEF Evaluate
<1>4. CASE Record(r, TRUE)
  <2>1. at = "record" /\ at' = "act" /\ decided' = TRUE
    BY <1>4 DEF Record, TypeOK
  <2> QED
    BY <1>4, <2>1 DEF Record
<1>5. CASE Record(r, FALSE)
  <2>1. at = "record" /\ at' = "act"
    BY <1>5 DEF Record, TypeOK
  <2> QED
    BY <1>5, <2>1 DEF Record
<1>6. ASSUME review' = ToMail(r), at = "act", ~decided' => ~decided,
             mails' = mails, acts' = acts, faults' \in {faults, faults + 1}
      PROVE  Room(r)'
  <2>1. at' = "mail"
    BY <1>6 DEF ToMail, TypeOK
  <2>2. mails <= Causes /\ (~decided => mails + 1 <= Causes)
    BY <1>6
  <2>3. Causes' >= Causes /\ Causes' \in Nat /\ Causes \in Nat
    BY <1>6
  <2>4. mails' <= Causes'
    BY <1>6, <2>2, <2>3
  <2>5. ASSUME ~decided'
        PROVE  mails' + 1 <= Causes'
    <3>1. mails + 1 <= Causes
      BY <1>6, <2>2, <2>5
    <3> QED
      BY <1>6, <2>3, <3>1
  <2>6. mails' <= Causes' + 1
    BY <2>3, <2>4, <1>6
  <2>7. ~decided' /\ at' \in {"act", "mail"} => mails' + 1 <= Causes'
    BY <2>5
  <2> HIDE DEF Causes
  <2> QED
    BY <2>1, <2>4, <2>6, <2>7 DEF Room
<1>7. ASSUME NEW ok \in BOOLEAN, NEW p \in Photos, DeletePhoto(r, p, ok)
      PROVE  Room(r)'
  <2>1. at' = at /\ decided' = decided
    BY <1>7 DEF DeletePhoto, TypeOK
  <2>2. faults' \in {faults, faults + 1}
    BY <1>7 DEF DeletePhoto
  <2> QED
    BY <1>7, <2>1, <2>2 DEF DeletePhoto
<1>8. ASSUME NEW ok \in BOOLEAN, Mail(r, ok)
      PROVE  Room(r)'
  <2>1. at = "mail" /\ at' = "idle" /\ decided' = decided
    BY <1>8 DEF Mail, listing, TypeOK, Idle
  <2>2. faults' \in {faults, faults + 1}
    BY <1>8 DEF Mail
  <2>3. mails' \in {mails, mails + 1} /\ acts' = acts
    BY <1>8 DEF Mail
  <2> QED
    BY <2>1, <2>2, <2>3
<1>9. CASE ApproveFails(r) \/ Crash(r)
  <2>1. at # "idle" /\ at' = "idle" /\ decided' = decided
    BY <1>9 DEF ApproveFails, Crash, listing, TypeOK, Idle
  <2> QED
    BY <1>9, <2>1 DEF ApproveFails, Crash
<1>10. Approve(r) => Room(r)'
  BY <1>6 DEF Approve
<1>11. ASSUME NEW ok \in BOOLEAN, Queue(r, ok)
       PROVE  Room(r)'
  BY <1>6, <1>11 DEF Queue
<1>12. ASSUME NEW ok \in BOOLEAN, Reject(r, ok)
       PROVE  Room(r)'
  <2>1. ~decided' => ~decided
    BY <1>12 DEF Reject
  <2> QED
    BY <1>6, <1>12, <2>1 DEF Reject
<1> HIDE NoticeCounts DEF Room, Causes
<1>13. CASE Review(r)
  BY <1>13, <1>1, <1>2, <1>3, <1>4, <1>7, <1>8, <1>10, <1>11, <1>12 DEF Review
<1>14. CASE Fail(r)
  BY <1>14, <1>2, <1>3, <1>5, <1>7, <1>8, <1>9, <1>11, <1>12 DEF Fail
<1> QED
  BY <1>13, <1>14

\* What owner and administrators do: only a new request for a review takes a
\* decision back, and it is counted.
LEMMA OutsideCounts ==
    ASSUME TypeOK,
           \/ Create \/ Delete \/ AdminApprove \/ AdminReject \/ Rerun
           \/ \E ps \in SUBSET Photos : StorePhotos(ps)
    PROVE  /\ review' = review /\ mails' = mails /\ faults' = faults
           /\ acts' \in {acts, acts + 1}
           /\ decided' = decided \/ acts' = acts + 1
BY NoticeCounts DEF Create, Delete, AdminApprove, AdminReject, Rerun, StorePhotos

LEMMA NoticeStep ==
    ASSUME NoticeInv, [Next]_vars
    PROVE  NoticeInv'
<1>1. TypeOK /\ TypeOK'
  BY TypeStep DEF NoticeInv
<1>2. CASE ~Alone
  BY <1>1, <1>2 DEF NoticeInv, Alone
<1>3. CASE Alone
  <2>1. mails <= Causes + 1 /\ \A r \in Reviewers : Room(r)
    BY <1>3 DEF NoticeInv
  <2>2. ASSUME NEW r \in Reviewers, Review(r) \/ Fail(r)
        PROVE  NoticeInv'
    <3>1. Room(r)'
      BY <1>1, <2>1, <2>2, RoomReview
    <3>2. \A q \in Reviewers : q = r
      BY <1>3 DEF Alone
    <3>3. \A q \in Reviewers : Room(q)'
      BY <3>1, <3>2
    <3>4. (mails <= Causes + 1)'
      BY <3>1 DEF Room
    <3> QED
      BY <1>1, <3>3, <3>4 DEF NoticeInv
  <2>3. ASSUME \/ Create \/ Delete \/ AdminApprove \/ AdminReject \/ Rerun
               \/ \E ps \in SUBSET Photos : StorePhotos(ps)
        PROVE  NoticeInv'
    <3>1. /\ review' = review /\ mails' = mails /\ faults' = faults
          /\ acts' \in {acts, acts + 1}
          /\ decided' = decided \/ acts' = acts + 1
      BY <1>1, <2>3, OutsideCounts
    <3>2. (mails <= Causes + 1)'
      BY <1>1, <2>1, <3>1, NoticeCounts DEF Causes
    <3>3. ASSUME NEW r \in Reviewers
          PROVE  Room(r)'
      BY <1>1, <2>1, <3>1, NoticeCounts DEF Causes, Room
    <3> QED
      BY <1>1, <3>2, <3>3 DEF NoticeInv
  <2>4. CASE UNCHANGED vars
    BY <1>1, <2>1, <2>4 DEF vars, listing, NoticeInv, Room, Causes
  <2> QED
    BY <2>2, <2>3, <2>4 DEF Next
<1> QED
  BY <1>2, <1>3

(***************************************************************************)
(* A lone reviewer sends no more notices than one, and one for every fault *)
(* and every intervention.                                                 *)
(***************************************************************************)
THEOREM NoticesHaveCauses == Spec => []NoticesBounded
<1>1. Init => NoticeInv
  <2>1. Init => TypeOK
    BY TypeInit
  <2>2. Init => mails = 0 /\ acts = 0 /\ faults = 0
    BY DEF Init
  <2>3. Init => \A r \in Reviewers : review[r].at = "idle"
    BY DEF Init, Idle
  <2> QED
    BY <2>1, <2>2, <2>3 DEF NoticeInv, Room, Causes
<1>2. NoticeInv /\ [Next]_vars => NoticeInv'
  BY NoticeStep
<1>3. NoticeInv => NoticesBounded
  <2>1. NoticeInv => TypeOK
    BY DEF NoticeInv
  <2> QED
    BY <2>1, NoticeCounts DEF NoticeInv, NoticesBounded, Causes
<1> QED
  BY <1>1, <1>2, <1>3, PTL DEF Spec
=============================================================================
