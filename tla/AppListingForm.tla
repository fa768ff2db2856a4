---------------------------- MODULE AppListingForm --------------------------
(***************************************************************************)
(* The form of the mobile app that creates a listing, screens/listing/     *)
(* PostListingScreen.js, with its two drafts: the one of the device,       *)
(* written two seconds after any change, and the one of the server,        *)
(* written five seconds after a change of the fields.  One form serves all *)
(* categories, and its photos are common to them.  The tab keeps the form  *)
(* as it is after a listing was posted, until the app is closed.           *)
(*                                                                         *)
(* A photo is a model value and is chosen once; their order, the editor,   *)
(* the steps of the wizard and edits of existing listings are left out.    *)
(* Of the fields it matters only whether some are filled in ("full").  A   *)
(* handler reads the state of the render it was created in: its record has *)
(* a copy.                                                                 *)
(***************************************************************************)
EXTENDS Naturals, Sequences, FiniteSets

CONSTANTS
    Photos,     \* the photos the user has
    Cats,       \* the categories
    Vehicles,   \* those that ask for MinPhotos photos: car and bike
    Saves,      \* calls of saveDraft that may be under way at once
    MinPhotos,  \* a natural number: 3 in the code
    MaxPhotos,  \* a natural number: 10 in the code
    MaxActs,    \* bound: what the user does to the form
    MaxFaults,  \* bound: lost and refused requests, and closing the app
    Null        \* no category

VARIABLES
    category,
    images,
    filled,     \* categories with fields filled in
    picking,    \* the photos being compressed and checked
    short,      \* the timer of the device's draft runs
    long,       \* what the timer of the server's draft will store
    saver,      \* each call of saveDraft: its draft and the request it is at
    loading,    \* how far the draft has been restored
    offer,      \* the draft the user is asked about
    submit,     \* handleSubmit: its photos and where it is
    deletes,    \* requests to delete a draft that nobody waits for
    local,      \* listing_draft_<category> of the device
    meta,       \* listing_draft_meta: the category stored last
    remote,     \* listing_drafts of the user, the newest first
    chosen,     \* history: the category a photo was chosen for
    late,       \* history: a draft arrived while photos were being checked
    behind,     \* history: the device's draft was stored or removed by
                \* something older than the form
    acts,
    faults

form == <<category, images, filled, picking, short, long>>
calls == <<saver, loading, offer, submit, deletes>>
drafts == <<local, meta, remote>>
history == <<chosen, late, behind>>
vars == <<form, calls, drafts, history, acts, faults>>

Draft == [cat : Cats, photos : SUBSET Photos, full : BOOLEAN]
Drafts == Draft \cup {Null}

\* What buildDraftSnapshot returns now.
Snapshot == [cat |-> category, photos |-> images, full |-> category \in filled]

TypeOK ==
    /\ category \in Cats \cup {Null} /\ filled \subseteq Cats
    /\ images \subseteq Photos /\ picking \subseteq Photos
    /\ short \in BOOLEAN /\ long \in Drafts /\ offer \in Drafts
    /\ saver \in [Saves -> {Null} \cup [at : {"delete", "insert"}, draft : Draft]]
    /\ loading \in {"asked", "prompt", "done"}
    /\ submit \in {Null} \cup [at : {"upload", "post", "clear"}, draft : Draft]
    /\ deletes \subseteq Cats
    /\ local \in [Cats -> Drafts] /\ meta \in Cats \cup {Null}
    /\ remote \in Seq(Draft)
    /\ chosen \in [Photos -> Cats \cup {Null}]
    /\ late \in BOOLEAN /\ behind \in BOOLEAN
    /\ acts \in 0 .. MaxActs /\ faults \in 0 .. MaxFaults

\* The screen as it is first shown.
Blank ==
    /\ category = Null /\ images = {} /\ filled = {} /\ picking = {}
    /\ short = FALSE /\ long = Null
    /\ loading = "asked" /\ offer = Null /\ submit = Null

Init ==
    /\ Blank
    /\ saver = [s \in Saves |-> Null]
    /\ deletes = {}
    /\ local = [c \in Cats |-> Null] /\ meta = Null /\ remote = <<>>
    /\ chosen = [p \in Photos |-> Null]
    /\ late = FALSE /\ behind = FALSE
    /\ acts = 0 /\ faults = 0

-----------------------------------------------------------------------------
(* Helpers *)

Fault == faults < MaxFaults /\ faults' = faults + 1
Outcome(ok) == IF ok THEN UNCHANGED faults ELSE Fault

\* Neither an alert nor the check of the photos covers the form.
Act ==
    /\ loading # "prompt" /\ picking = {}
    /\ acts < MaxActs /\ acts' = acts + 1

Stored(c) == \E i \in DOMAIN remote : remote[i].cat = c

\* The drafts of the user without that of category c, of which there is one.
Without(c) ==
    LET i == CHOOSE k \in DOMAIN remote : remote[k].cat = c IN
    IF Stored(c) THEN SubSeq(remote, 1, i - 1) \o SubSeq(remote, i + 1, Len(remote))
    ELSE remote

\* The timer of the server's draft when the fields have changed to these.
Armed(c, photos, full) ==
    IF full THEN [cat |-> c, photos |-> photos, full |-> TRUE] ELSE Null

-----------------------------------------------------------------------------
(* The user fills in the form *)

Choose(c) ==
    /\ Act /\ category = Null
    /\ category' = c
    /\ short' = TRUE
    /\ long' = Armed(c, images, c \in filled)
    /\ UNCHANGED <<images, filled, picking, calls, drafts, history, faults>>

\* Any field that is saved; the first ones make the draft worth a request.
Type ==
    /\ Act /\ category # Null
    /\ filled' = filled \cup {category}
    /\ short' = TRUE
    /\ long' = Armed(category, images, TRUE)
    /\ UNCHANGED <<category, images, picking, calls, drafts, history, faults>>

\* The number that may be chosen is that of the render the user tapped in.
Pick(ps) ==
    /\ Act /\ category # Null
    /\ ps # {} /\ \A p \in ps : chosen[p] = Null
    /\ Cardinality(images) + Cardinality(ps) <= MaxPhotos
    /\ picking' = ps
    /\ chosen' = [p \in Photos |-> IF p \in ps THEN category ELSE chosen[p]]
    /\ UNCHANGED <<category, images, filled, short, long, calls, drafts, late,
                   behind, faults>>

Changed(ok) == ok # {}

\* What a check lets pass is added, up to the limit; the photos are not among
\* what restarts the timer of the server's draft.
Picked(ok) ==
    /\ picking # {} /\ ok \subseteq picking
    /\ picking' = {}
    /\ images' \in {images \cup ps : ps \in SUBSET ok}
    /\ \/ images' = images \cup ok /\ Cardinality(images') <= MaxPhotos
       \/ /\ Cardinality(images \cup ok) > MaxPhotos
          /\ Cardinality(images') = MaxPhotos
    /\ short' = (short \/ Changed(ok))
    /\ UNCHANGED <<category, filled, long, calls, drafts, history, acts, faults>>

Remove(p) ==
    /\ Act /\ p \in images
    /\ images' = images \ {p}
    /\ short' = TRUE
    /\ UNCHANGED <<category, filled, picking, long, calls, drafts, history, faults>>

\* Mutant: the photos stay for the next category.
LeftOver == images

LeftEmpty == {}

\* resetAndGoBack: the fields stay, both timers end.
Back ==
    /\ Act /\ category # Null
    /\ category' = Null
    /\ images' = LeftEmpty
    /\ short' = FALSE /\ long' = Null
    /\ UNCHANGED <<filled, picking, calls, drafts, history, faults>>

-----------------------------------------------------------------------------
(* Drafts are saved *)

\* Every change restarts this timer: it stores what the form shows.
LocalSave ==
    /\ short
    /\ short' = FALSE
    /\ local' = [local EXCEPT ![category] = Snapshot]
    /\ meta' = category
    /\ behind' = FALSE
    /\ UNCHANGED <<category, images, filled, picking, long, calls, remote, chosen,
                   late, acts, faults>>

\* saveDraft is that of the render that started the timer: it stores those
\* photos on the device as well.
SaveStart(s) ==
    /\ long # Null /\ saver[s] = Null
    /\ long' = Null
    /\ local' = [local EXCEPT ![long.cat] = long]
    /\ meta' = long.cat
    /\ behind' = (long # Snapshot)
    /\ saver' = [saver EXCEPT ![s] = [at |-> "delete", draft |-> long]]
    /\ UNCHANGED <<category, images, filled, picking, short, loading, offer, submit,
                   deletes, remote, chosen, late, acts, faults>>

\* _save_listing_draft_record deletes the row without looking at the answer.
SaveDeleted(s, ok) ==
    /\ saver[s] # Null /\ saver[s].at = "delete"
    /\ Outcome(ok)
    /\ remote' = IF ok THEN Without(saver[s].draft.cat) ELSE remote
    /\ saver' = [saver EXCEPT ![s].at = "insert"]
    /\ UNCHANGED <<form, loading, offer, submit, deletes, local, meta, history, acts>>

\* One row for each category: an insert beside another is refused.
SaveInserted(s) ==
    /\ saver[s] # Null /\ saver[s].at = "insert"
    /\ remote' = IF Stored(saver[s].draft.cat) THEN remote
                 ELSE <<saver[s].draft>> \o remote
    /\ saver' = [saver EXCEPT ![s] = Null]
    /\ UNCHANGED <<form, loading, offer, submit, deletes, local, meta, history, acts, faults>>

SaveLost(s) ==
    /\ saver[s] # Null
    /\ Fault
    /\ saver' = [saver EXCEPT ![s] = Null]
    /\ UNCHANGED <<form, loading, offer, submit, deletes, drafts, history, acts>>

-----------------------------------------------------------------------------
(* The draft is restored when the screen is first shown *)

\* applyDraftSnapshot replaces category and photos and adds to the fields.
Apply(d) ==
    /\ category' = d.cat
    /\ images' = d.photos
    /\ filled' = IF d.full THEN filled \cup {d.cat} ELSE filled
    /\ short' = TRUE
    /\ long' = Armed(d.cat, d.photos, d.cat \in filled')
    /\ late' = (late \/ picking # {})
    /\ UNCHANGED picking

RemoteLoaded ==
    /\ loading = "asked" /\ remote # <<>>
    /\ Apply(remote[1])
    /\ loading' = "done"
    /\ UNCHANGED <<saver, offer, submit, deletes, drafts, chosen, behind, acts, faults>>

\* The server has no draft or does not answer: the device's is offered unless
\* it is older than a day.
LocalLoaded(ok, young) ==
    /\ loading = "asked"
    /\ ok => remote = <<>>
    /\ Outcome(ok)
    /\ IF meta # Null /\ local[meta] # Null /\ young
       THEN loading' = "prompt" /\ offer' = local[meta]
       ELSE loading' = "done" /\ UNCHANGED offer
    /\ UNCHANGED <<form, saver, submit, deletes, drafts, history, acts>>

OfferTaken ==
    /\ loading = "prompt"
    /\ Apply(offer)
    /\ loading' = "done" /\ offer' = Null
    /\ UNCHANGED <<saver, submit, deletes, drafts, chosen, behind, acts, faults>>

OfferRefused ==
    /\ loading = "prompt"
    /\ loading' = "done" /\ offer' = Null
    /\ local' = [local EXCEPT ![offer.cat] = Null]
    /\ meta' = Null
    /\ behind' = (behind \/ offer.cat = category)
    /\ UNCHANGED <<form, saver, submit, deletes, remote, chosen, late, acts, faults>>

-----------------------------------------------------------------------------
(* The listing is posted: handleSubmit, of a user whose phone is verified *)

Submit ==
    /\ Act /\ category # Null /\ submit = Null
    /\ submit' = [at |-> "upload", draft |-> Snapshot]
    /\ UNCHANGED <<form, saver, loading, offer, deletes, drafts, history, faults>>

\* upload_images drops the photos it cannot store, and the app counts what
\* comes back; then the fields are looked at.
Uploaded(got) ==
    LET d == submit.draft IN
    /\ submit # Null /\ submit.at = "upload"
    /\ got \subseteq d.photos
    /\ Outcome(got = d.photos)
    /\ submit' = IF /\ d.cat \in Vehicles => Cardinality(got) >= MinPhotos
                    /\ d.photos # {} => got # {}
                    /\ d.full
                 THEN [at |-> "post", draft |-> [d EXCEPT !.photos = got]]
                 ELSE Null
    /\ UNCHANGED <<form, saver, loading, offer, deletes, drafts, history, acts>>

Posted ==
    /\ submit # Null /\ submit.at = "post"
    /\ submit' = [submit EXCEPT !.at = "clear"]
    /\ UNCHANGED <<form, saver, loading, offer, deletes, drafts, history, acts, faults>>

\* The request is lost or refused, or its answer is lost.
PostFailed ==
    /\ submit # Null /\ submit.at \in {"post", "clear"}
    /\ Fault
    /\ submit' = Null
    /\ UNCHANGED <<form, saver, loading, offer, deletes, drafts, history, acts>>

\* The device's draft is removed, the server's is asked to be.
Cleared ==
    LET c == submit.draft.cat IN
    /\ submit # Null /\ submit.at = "clear"
    /\ local' = [local EXCEPT ![c] = Null]
    /\ meta' = Null
    /\ behind' = (behind \/ c = category)
    /\ deletes' = deletes \cup {c}
    /\ submit' = Null
    /\ UNCHANGED <<form, saver, loading, offer, remote, chosen, late, acts, faults>>

Deleted(c, ok) ==
    /\ c \in deletes
    /\ Outcome(ok)
    /\ deletes' = deletes \ {c}
    /\ remote' = IF ok THEN Without(c) ELSE remote
    /\ UNCHANGED <<form, saver, loading, offer, submit, local, meta, history, acts>>

-----------------------------------------------------------------------------
\* The app is closed and opened; requests that were sent are still served.
Reopen ==
    /\ Fault
    /\ category' = Null /\ images' = {} /\ filled' = {} /\ picking' = {}
    /\ short' = FALSE /\ long' = Null
    /\ loading' = "asked" /\ offer' = Null /\ submit' = Null
    /\ behind' = FALSE
    /\ UNCHANGED <<saver, deletes, drafts, chosen, late, acts>>

Next ==
    \/ \E c \in Cats : Choose(c)
    \/ Type \/ Back
    \/ \E ps \in SUBSET Photos : Pick(ps) \/ Picked(ps) \/ Uploaded(ps)
    \/ \E p \in Photos : Remove(p)
    \/ LocalSave
    \/ \E s \in Saves, ok \in BOOLEAN : SaveDeleted(s, ok)
    \/ \E s \in Saves : SaveStart(s) \/ SaveInserted(s) \/ SaveLost(s)
    \/ RemoteLoaded
    \/ \E ok, young \in BOOLEAN : LocalLoaded(ok, young)
    \/ OfferTaken \/ OfferRefused
    \/ Submit \/ Posted \/ PostFailed \/ Cleared
    \/ \E c \in Cats, ok \in BOOLEAN : Deleted(c, ok)
    \/ Reopen

Spec == Init /\ [][Next]_vars

-----------------------------------------------------------------------------
(* Properties *)

OwnPhotos(d) == d # Null => \A p \in d.photos : chosen[p] = d.cat

(***************************************************************************)
(* No photo changes its category.  The categories share one list of        *)
(* photos, timers store it later and handlers carry copies of it; still    *)
(* what is shown, stored or posted as a category was chosen for it, unless *)
(* a draft of another category arrived while photos were being checked.    *)
(***************************************************************************)
OwnCategory ==
    late \/ /\ category # Null => \A p \in images : chosen[p] = category
            /\ \A c \in Cats : OwnPhotos(local[c])
            /\ \A i \in DOMAIN remote : OwnPhotos(remote[i])
            /\ submit # Null => OwnPhotos(submit.draft)

(***************************************************************************)
(* Closing the app loses nothing that two seconds have passed over: the    *)
(* device's draft is what the form shows, unless saveDraft stored an older *)
(* form over it, the user refused it, or it was posted.                    *)
(***************************************************************************)
DraftKeepsUp ==
    category # Null /\ ~short /\ ~behind => local[category] = Snapshot

(***************************************************************************)
(* "Backend auto-save draft for the active category": what saveDraft       *)
(* stores is the form as it is then.                                       *)
(***************************************************************************)
NoOlderDraft ==
    [][\A s \in Saves : SaveStart(s) => local'[category].photos = images]_vars
=============================================================================
