------------------------------ MODULE ClientPages ------------------------------
(***************************************************************************)
(* Five parts of the clients side by side, as their constants are given:   *)
(* the favourites of a tab, the registration document of a form, its       *)
(* photos with their draft and submission, an explore feed, and the Reddit *)
(* feed.  They share no state; the runs and the proofs about them start    *)
(* from this module.                                                       *)
(***************************************************************************)
EXTENDS SavedListings, Integers

CONSTANTS
    Documents, Form,                            \* of RegistrationScan
    Photos, Batches, Car, MaxPhotos, MinPhotos, \* of ListingForm
    Queries, Default, Cap, MaxRows,             \* of ExploreFeed,
    FirstPages, MaxChoices, MaxRefusals,        \* its Loads, MaxActs, MaxFaults
    MaxApprovals,                               \* and MaxChanges
    Kinds, KindOf(_), MaxRow, MaxTime, MaxEdits, \* of RedditFeed
    PageSize                                    \* of both feeds

ASSUME FormAssumption == Form \in {"car", "bike"}
ASSUME NullAssumption == Null \notin Documents
ASSUME FeedAssumption ==
    /\ Default \in Queries /\ Null \notin Queries
    /\ PageSize \in Nat \ {0} /\ Cap \in Nat \ {0} /\ MaxRows \in Nat
ASSUME RedditAssumption ==
    /\ MaxRow \in Nat /\ MaxTime \in Nat
    /\ \A r \in 1 .. MaxRow : KindOf(r) \in Kinds

VARIABLES
    file, url, promise, tasks, scanning, filled, submit, posted, changed,
    existing, cropped, pending, cropping, batches, loading, storing, sending,
    success, draft, local, listings, wanted, lost, again, created,
    table, query, items, offset, hasMore, fetching, refreshing, error, first, more,
    hydrating, poisoned, since, asOf, dated, spoiled, excused, acts, faults,
    at, public, merged, cursor, further, chunks, started, failed, edits

Document == INSTANCE RegistrationScan WITH calls <- tasks
Gallery == INSTANCE ListingForm WITH saving <- storing, submit <- sending
Explore ==
    INSTANCE ExploreFeed WITH Loads <- FirstPages, MaxActs <- MaxChoices,
        MaxFaults <- MaxRefusals, MaxChanges <- MaxApprovals, loading <- fetching
Reddit == INSTANCE RedditFeed WITH shown <- merged, hasMore <- further

ASSUME NoRequestAssumption == Null \notin Gallery!Requests

\* What the document is said to be is what was chosen, unless it was replaced
\* while it was being uploaded or scanned.
OwnDocument == Document!OwnDocument

\* No photo that was chosen disappears from its form.
PhotosKept == Gallery!PhotosKept

\* What was submitted is not posted a second time.
PostedOnce == Gallery!PostedOnce

\* The explore feed leaves out no listing while others are only approved.
NoneLeftOut == Explore!NoneLeftOut

\* The explore feed shows no listing twice while others are only removed.
NoneTwice == Explore!NoneTwice

\* The Reddit feed skips no row between two pages.
NothingBetween == Reddit!NothingBetween
=============================================================================
