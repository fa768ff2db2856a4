----------------------------- MODULE ListingForm -----------------------------
(***************************************************************************)
(* The photos, the draft and the submission of a form that creates a       *)
(* listing in the web application: components/PostCar.js (Car = TRUE), and *)
(* components/PostBike.js and PostCarParts.js, which differ from each      *)
(* other in texts only (Car = FALSE).                                      *)
(*                                                                         *)
(* A photo is a model value and is chosen once; the order of the photos    *)
(* and the text fields are left out, and so are edits of existing          *)
(* listings.  What a handler read from the render it was created in is in  *)
(* the record of its call; the handlers interleave at their awaits.  A     *)
(* request to the server is done and answered, done without an answer, or  *)
(* not done.  The page may be left and opened again at any time.           *)
(***************************************************************************)
EXTENDS Naturals, FiniteSets

CONSTANTS
    Photos,     \* the photos the user has
    Batches,    \* picks that may be checked at once
    Car,        \* BOOLEAN: the car form, or the bike and parts forms
    MaxPhotos,  \* a natural number: 10 in the code
    MinPhotos,  \* of a car, a natural number: 3 in the code
    Null

VARIABLES
    existing,   \* existingImages, existingImageUrls: photos with a URL
    cropped,    \* croppedImages
    pending,    \* pendingCropFiles: the photos the cropper shows
    cropping,   \* the photos handleDone of the cropper works on
    batches,    \* the picks whose photos are being checked
    loading,    \* the draft has been asked for
    saving,     \* handleSaveDraft: its photos and where it is
    submit,     \* handleSubmit: its photos and where it is
    success,    \* the form says the listing was submitted
    draft,      \* the draft the server keeps, or Null
    local,      \* the draft in localStorage, or Null
    listings,   \* how many listings have each photo
    wanted,     \* history: the photos the user chose and did not take out
    lost,       \* history: photos may be missing, by an overlap of handlers
    again,      \* history: a photo may be posted twice
    created     \* history: the photos of the last listing

form == <<existing, cropped, pending, cropping, batches, loading>>
calls == <<saving, submit, success>>
server == <<draft, local, listings>>
history == <<wanted, lost, again, created>>
vars == <<form, calls, server, history>>

Requests == [at : {"upload", "send", "done", "clear"}, existing : SUBSET Photos,
          cropped : SUBSET Photos]

TypeOK ==
    /\ existing \subseteq Photos /\ cropped \subseteq Photos
    /\ pending \subseteq Photos /\ cropping \subseteq Photos
    /\ batches \in [Batches -> SUBSET Photos]
    /\ loading \in BOOLEAN /\ success \in BOOLEAN
    /\ saving \in Requests \cup {Null} /\ submit \in Requests \cup {Null}
    /\ draft \in (SUBSET Photos) \cup {Null}
    /\ local \in (SUBSET Photos) \cup {Null}
    /\ listings \in [Photos -> 0 .. 2]
    /\ wanted \subseteq Photos
    /\ lost \in BOOLEAN /\ again \in BOOLEAN
    /\ created \in (SUBSET Photos) \cup {Null}

Init ==
    /\ existing = {} /\ cropped = {} /\ pending = {} /\ cropping = {}
    /\ batches = [b \in Batches |-> {}]
    /\ loading = TRUE
    /\ saving = Null /\ submit = Null /\ success = FALSE
    /\ draft = Null /\ local = Null
    /\ listings = [p \in Photos |-> 0]
    /\ wanted = {} /\ lost = FALSE /\ again = FALSE
    /\ created = Null

-----------------------------------------------------------------------------
(* Helpers *)

Checked == UNION {batches[b] : b \in DOMAIN batches}

\* The photos of the form, wherever they are.
Held == existing \cup cropped \cup pending \cup cropping \cup Checked

\* Photos that are nowhere yet.
Fresh == {p \in Photos \ Held : /\ listings[p] = 0
                                 /\ \A d \in {draft, local} \ {Null} : p \notin d}

\* The form can be reached: the cropper covers it.
Reachable == ~success /\ pending = {}

-----------------------------------------------------------------------------
(* The draft is restored when the form is opened *)

\* loadListingDraft: the draft of the server, or else that of the browser; it
\* replaces the photos that have a URL.
Restored == IF draft # Null THEN draft ELSE local

DraftLoaded(d) ==
    /\ loading
    /\ loading' = FALSE
    /\ existing' = IF d = Null THEN existing ELSE d
    /\ wanted' = IF d = Null THEN wanted ELSE (wanted \ existing) \cup d
    /\ lost' = (lost \/ (existing # {} /\ d # Null) \/ saving # Null)
    /\ UNCHANGED <<cropped, pending, cropping, batches, calls, server, again, created>>

-----------------------------------------------------------------------------
(* Photos are chosen, checked and cropped *)

\* The numbers are those of the render in which the files were chosen: photos
\* still being checked do not count.  The bike form stops at the limit and
\* does not count photos that have a URL.
Fits(ps) ==
    IF Car THEN Cardinality(existing) + Cardinality(cropped) + Cardinality(ps) <= MaxPhotos
    ELSE Cardinality(cropped) + Cardinality(ps) <= MaxPhotos

Pick(b, ps) ==
    /\ Reachable
    /\ batches[b] = {}
    /\ ps # {} /\ ps \subseteq Fresh
    /\ Fits(ps)
    /\ batches' = [batches EXCEPT ![b] = ps]
    /\ wanted' = wanted \cup ps
    /\ UNCHANGED <<existing, cropped, pending, cropping, loading, calls, server,
                   lost, again, created>>

\* moderateImage let some pass, or failed and all pass: they are what the
\* cropper shows from now on.
PickChecked(b, clean) ==
    /\ batches[b] # {}
    /\ clean \subseteq batches[b]
    /\ batches' = [batches EXCEPT ![b] = {}]
    /\ pending' = IF clean # {} THEN clean ELSE pending
    /\ wanted' = wanted \ (batches[b] \ clean)
    /\ lost' = (lost \/ (clean # {} /\ pending # {}))
    /\ UNCHANGED <<existing, cropped, cropping, loading, calls, server, again, created>>

CropStart ==
    /\ pending # {} /\ cropping = {}
    /\ cropping' = pending
    /\ UNCHANGED <<existing, cropped, pending, batches, loading, calls, server, history>>

\* Mutant: the photos replace those cropped before.
CropReplaces == cropping

\* onComplete adds the photos it was given to those of the form.
CropAdds == cropped \cup cropping

CropDone ==
    /\ cropping # {}
    /\ cropped' = CropAdds
    /\ pending' = {}
    /\ cropping' = {}
    /\ lost' = (lost \/ pending # cropping \/ saving # Null)
    /\ UNCHANGED <<existing, batches, loading, calls, server, wanted, again, created>>

\* A photo is too large or cannot be drawn: the cropper stays open.
CropFailed ==
    /\ cropping # {}
    /\ cropping' = {}
    /\ lost' = (lost \/ pending # cropping)
    /\ UNCHANGED <<existing, cropped, pending, batches, loading, calls, server,
                   wanted, again, created>>

CropCancel ==
    /\ pending # {}
    /\ pending' = {}
    /\ cropping' = {}
    /\ wanted' = wanted \ (pending \cup cropping)
    /\ UNCHANGED <<existing, cropped, batches, loading, calls, server, lost, again, created>>

Remove(p) ==
    /\ Reachable
    /\ p \in existing \cup cropped
    /\ existing' = existing \ {p}
    /\ cropped' = cropped \ {p}
    /\ wanted' = wanted \ {p}
    /\ lost' = (lost \/ saving # Null)
    /\ UNCHANGED <<pending, cropping, batches, loading, calls, server, again, created>>

-----------------------------------------------------------------------------
(* The draft is saved: handleSaveDraft *)

SaveStart ==
    /\ Reachable
    /\ saving = Null /\ submit = Null
    /\ saving' = [at |-> IF cropped = {} THEN "send" ELSE "upload",
                  existing |-> existing, cropped |-> cropped]
    /\ local' = IF cropped = {} THEN existing ELSE local
    /\ lost' = (lost \/ loading)
    /\ UNCHANGED <<form, submit, success, draft, listings, wanted, again, created>>

\* All have a URL by now.
Payload(s) == s.existing \cup s.cropped

SaveUploaded ==
    /\ saving # Null /\ saving.at = "upload"
    /\ saving' = [saving EXCEPT !.at = "send"]
    /\ local' = Payload(saving)
    /\ UNCHANGED <<form, submit, success, draft, listings, history>>

\* _save_listing_draft_record.
SaveServed ==
    /\ saving # Null /\ saving.at = "send"
    /\ draft' = Payload(saving)
    /\ saving' = [saving EXCEPT !.at = "done"]
    /\ UNCHANGED <<form, submit, success, local, listings, history>>

\* The photos that were uploaded leave the grid; the whole list is replaced.
Kept(s) == IF s.cropped = {} THEN cropped ELSE {}

SaveAnswered ==
    /\ saving # Null /\ saving.at = "done"
    /\ cropped' = Kept(saving)
    /\ existing' = IF saving.cropped = {} THEN existing
                   ELSE Payload(saving)
    /\ saving' = Null
    /\ UNCHANGED <<pending, cropping, batches, loading, submit, success, server, history>>

\* An upload or the request failed: the form is as it was.
SaveFailed ==
    /\ saving # Null
    /\ saving' = Null
    /\ UNCHANGED <<form, submit, success, server, history>>

-----------------------------------------------------------------------------
(* The form is submitted: handleSubmit *)

Enough == Cardinality(existing) + Cardinality(cropped) >= IF Car THEN MinPhotos ELSE 1

\* Only the car form refuses while a draft is being saved.
SubmitStart ==
    /\ Reachable
    /\ submit = Null
    /\ Car => saving = Null
    /\ Enough
    /\ submit' = [at |-> IF cropped = {} THEN "send" ELSE "upload",
                  existing |-> existing, cropped |-> cropped]
    /\ again' = (again \/ saving # Null)
    /\ UNCHANGED <<form, saving, success, server, wanted, lost, created>>

SubmitUploaded ==
    /\ submit # Null /\ submit.at = "upload"
    /\ submit' = [submit EXCEPT !.at = "send"]
    /\ UNCHANGED <<form, saving, success, server, history>>

\* uploadImages of the car form catches the error and returns no photo: with
\* photos that have a URL the submission goes on without the others.
SubmitUploadFailed ==
    /\ submit # Null /\ submit.at = "upload"
    /\ submit' = IF Car /\ submit.existing # {}
                 THEN [submit EXCEPT !.at = "send", !.cropped = {}] ELSE Null
    /\ UNCHANGED <<form, saving, success, server, history>>

\* POST /api/cars, /api/bikes, /api/parts.
SubmitServed ==
    LET ps == submit.existing \cup submit.cropped IN
    /\ submit # Null /\ submit.at = "send"
    /\ \A p \in ps : listings[p] < 2
    /\ listings' = [p \in Photos |-> IF p \in ps THEN listings[p] + 1 ELSE listings[p]]
    /\ created' = ps
    /\ submit' = [submit EXCEPT !.at = "done"]
    /\ UNCHANGED <<form, saving, success, draft, local, wanted, lost, again>>

\* The draft of the browser is removed, then that of the server is asked to be.
SubmitAnswered ==
    /\ submit # Null /\ submit.at = "done"
    /\ submit' = [submit EXCEPT !.at = "clear"]
    /\ local' = Null
    /\ UNCHANGED <<form, saving, success, draft, listings, history>>

\* The request failed before or after it was done: the form may be sent again.
SubmitFailed ==
    /\ submit # Null /\ submit.at \in {"send", "done"}
    /\ submit' = Null
    /\ again' = (again \/ submit.at = "done")
    /\ UNCHANGED <<form, saving, success, server, wanted, lost, created>>

\* Mutant: the draft is left to expire.
DraftKept == draft

DraftCleared == Null

\* manage_user_draft answers 200 when the row could not be deleted, and both
\* forms ignore a failed request.
DraftDeleted(deleted) ==
    /\ submit # Null /\ submit.at = "clear"
    /\ draft' = IF deleted THEN DraftCleared ELSE draft
    /\ again' = (again \/ (~deleted /\ draft # Null))
    /\ submit' = Null
    /\ success' = TRUE
    /\ UNCHANGED <<form, saving, local, listings, wanted, lost, created>>

-----------------------------------------------------------------------------
(* The page is left, or loaded again: its calls go with it *)
Open ==
    /\ existing' = {} /\ cropped' = {} /\ pending' = {} /\ cropping' = {}
    /\ batches' = [b \in Batches |-> {}]
    /\ loading' = TRUE
    /\ saving' = Null /\ submit' = Null /\ success' = FALSE
    /\ wanted' = {} /\ lost' = FALSE
    /\ again' = (again \/ (submit # Null /\ submit.at \in {"done", "clear"}))
    /\ UNCHANGED <<server, created>>

Next ==
    \/ DraftLoaded(Restored)
    \/ DraftLoaded(local)
    \/ \E b \in Batches, ps \in SUBSET Photos : Pick(b, ps) \/ PickChecked(b, ps)
    \/ CropStart \/ CropDone \/ CropFailed \/ CropCancel
    \/ \E p \in Photos : Remove(p)
    \/ SaveStart \/ SaveUploaded \/ SaveServed \/ SaveAnswered \/ SaveFailed
    \/ SubmitStart \/ SubmitUploaded \/ SubmitUploadFailed \/ SubmitServed
    \/ SubmitAnswered \/ SubmitFailed
    \/ \E deleted \in BOOLEAN : DraftDeleted(deleted)
    \/ Open

Spec == Init /\ [][Next]_vars

\* The handler of a submission runs to its end; the user need do nothing.
FairSpec ==
    Spec /\ WF_vars(SubmitUploaded \/ SubmitUploadFailed \/ SubmitServed
                    \/ SubmitAnswered \/ SubmitFailed
                    \/ (\E deleted \in BOOLEAN : DraftDeleted(deleted)))

-----------------------------------------------------------------------------
(* Properties *)

(***************************************************************************)
(* No photo disappears.  A photo the user chose and did not take out is in *)
(* the form, unless handlers overlapped in the ways "lost" names: two      *)
(* picks reached the cropper at once, or the photos changed while the      *)
(* draft was being loaded or saved.                                        *)
(***************************************************************************)
PhotosKept == lost \/ wanted \subseteq Held

(***************************************************************************)
(* A photo is either still to be uploaded or has a URL, never both, or a   *)
(* submission would list it twice: saving a draft moves it.                *)
(***************************************************************************)
UploadedOnce == lost \/ existing \cap cropped = {}

(***************************************************************************)
(* What was submitted is not posted a second time, unless an answer or the *)
(* page was lost, a draft was being saved meanwhile, or the draft of the   *)
(* server was not deleted.                                                 *)
(***************************************************************************)
PostedOnce == again \/ \A p \in Photos : listings[p] <= 1

(***************************************************************************)
(* A submission ends, with success or an error.                            *)
(***************************************************************************)
SubmitEnds == submit # Null ~> submit = Null

(***************************************************************************)
(* "You must upload at least 3 images of your car": a listing is created   *)
(* with the least number of photos.                                        *)
(***************************************************************************)
EnoughCreated == created # Null => Cardinality(created) >= MinPhotos

(***************************************************************************)
(* "You can only upload up to 10 images."                                  *)
(***************************************************************************)
NotTooMany == Cardinality(existing) + Cardinality(cropped) <= MaxPhotos

(***************************************************************************)
(* "Clearing the local draft is enough for the UI": after a successful     *)
(* submission a form opened again does not restore what was submitted.     *)
(***************************************************************************)
SubmittedNotRestored ==
    success => Restored = Null

=============================================================================
