------------------------------ MODULE MCClients ------------------------------
(***************************************************************************)
(* Small instances of the parts of ClientPages: favourites of the web and  *)
(* of the mobile application, the document and the photos of the car form  *)
(* and of the bike form of the web, the explore feeds of both clients and  *)
(* the Reddit feed of the web.  They share no state, so a behaviour takes  *)
(* one of them; the others stay as they are at first.                      *)
(***************************************************************************)
EXTENDS ClientPages, TLC

CONSTANTS
    ann, bob, d1, d2, d3, c1, c2, c3, p1, p2, b1, b2, q1, q2, l1, l2, cars, bikes

VARIABLE page   \* the part a behaviour is about

favourites == <<user, shown, saving, latest, calls, server, trusted>>
document == <<file, url, promise, tasks, scanning, filled, submit, posted, changed>>
photos == <<existing, cropped, pending, cropping, batches, loading, storing, sending,
            success, draft, local, listings, wanted, lost, again, created>>
explored == <<table, query, items, offset, hasMore, fetching, refreshing, error, first,
              more, hydrating, poisoned, since, asOf, dated, spoiled, excused, acts, faults>>
imported == <<at, public, merged, cursor, further, chunks, started, failed, edits>>

WebFavourites == INSTANCE SavedListings WITH Web <- TRUE
AppFavourites == INSTANCE SavedListings WITH Web <- FALSE, Users <- {ann}
CarDocument == INSTANCE RegistrationScan WITH Form <- "car", calls <- tasks
BikeDocument == INSTANCE RegistrationScan WITH Form <- "bike", calls <- tasks
CarPhotos ==
    INSTANCE ListingForm WITH Car <- TRUE, saving <- storing, submit <- sending
BikePhotos ==
    INSTANCE ListingForm WITH Car <- FALSE, Batches <- {b1}, saving <- storing,
                              submit <- sending
WebExplore ==
    INSTANCE ExploreFeed WITH Web <- TRUE, Loads <- FirstPages, MaxActs <- MaxChoices,
                              MaxFaults <- MaxRefusals, MaxChanges <- MaxApprovals,
                              loading <- fetching
AppExplore ==
    INSTANCE ExploreFeed WITH Web <- FALSE, Loads <- FirstPages, MaxActs <- 1,
                              MaxFaults <- MaxRefusals, MaxChanges <- MaxApprovals,
                              loading <- fetching

\* The listings an explore feed starts with: all, all but one, or a page.
Beginning ==
    \E S \in {1 .. MaxRows, 2 .. MaxRows, {2, 4}} :
        table = <<[q \in Queries |-> IF q = Default THEN S ELSE 2 .. 3]>>

\* The first rows of the Reddit feed are cars, the others bikes.
KindOfRow(r) == IF r <= 2 THEN cars ELSE bikes

Pages == {"web favourites", "app favourites", "car document", "bike document",
          "car photos", "bike photos", "web explore", "app explore", "reddit"}

MCInit ==
    /\ page \in Pages
    /\ CASE page = "web favourites" -> WebFavourites!Init
         [] page = "app favourites" -> AppFavourites!Init
         [] OTHER -> Init /\ server = [u \in Users |-> {}]
    /\ CarDocument!Init
    /\ IF page = "bike photos" THEN BikePhotos!Init ELSE CarPhotos!Init
    /\ CASE page = "web explore" -> Beginning /\ WebExplore!Init
         [] page = "app explore" -> Beginning /\ AppExplore!Init
         [] OTHER -> /\ table = <<[q \in Queries |-> {}]>>
                     /\ WebExplore!Init /\ first[l1] = Default
    /\ Reddit!Init
    /\ page # "reddit" => public = {} /\ at = [r \in 1 .. MaxRow |-> 1]

MCNext ==
    \/ /\ page = "web favourites" /\ WebFavourites!Next
       /\ UNCHANGED <<page, document, photos, explored, imported>>
    \/ /\ page = "app favourites" /\ AppFavourites!Next
       /\ UNCHANGED <<page, document, photos, explored, imported>>
    \/ /\ page = "car document" /\ CarDocument!Next
       /\ UNCHANGED <<page, favourites, photos, explored, imported>>
    \/ /\ page = "bike document" /\ BikeDocument!Next
       /\ UNCHANGED <<page, favourites, photos, explored, imported>>
    \/ /\ page = "car photos" /\ CarPhotos!Next
       /\ UNCHANGED <<page, favourites, document, explored, imported>>
    \/ /\ page = "bike photos" /\ BikePhotos!Next
       /\ UNCHANGED <<page, favourites, document, explored, imported>>
    \/ /\ page = "web explore" /\ WebExplore!Next
       /\ UNCHANGED <<page, favourites, document, photos, imported>>
    \/ /\ page = "app explore" /\ AppExplore!Next
       /\ UNCHANGED <<page, favourites, document, photos, imported>>
    \/ /\ page = "reddit" /\ Reddit!Next
       /\ UNCHANGED <<page, favourites, document, photos, explored>>

MCSpec == MCInit /\ [][MCNext]_<<page, favourites, document, photos, explored, imported>>

\* Calls, first pages, and photos and listings, are interchangeable.
Symmetric ==
    Permutations({c1, c2, c3}) \cup Permutations({p1, p2}) \cup Permutations({l1, l2})
=============================================================================
