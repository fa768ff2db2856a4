----------------------------- MODULE ServerParts -----------------------------
(***************************************************************************)
(* Four parts side by side that several processes of the server, or a      *)
(* device and the server, work on at once: the inventory of a dealership,  *)
(* a cached answer, the push token of a device, and the drafts of the      *)
(* form in the app.  They share no state; the runs and the proofs about    *)
(* them start from this module.                                            *)
(***************************************************************************)
EXTENDS InventoryImport

CONSTANTS
    Processes, Readers, Editors, Process(_), Locking, MaxVersion,
    MaxOutages,                     \* MaxFaults of ResponseCache
    Users, Tasks,                   \* Users and Jobs of PushToken,
    MaxVisits, MaxLosses,           \* its MaxActs and MaxFaults
    Photos, Cats, Vehicles, Saves, MinPhotos, MaxPhotos,
    MaxTaps, MaxFailures,           \* MaxActs and MaxFaults of AppListingForm
    Null

ASSUME BoundsAssumption ==
    /\ MaxOutages \in Nat /\ MaxVisits \in Nat /\ MaxLosses \in Nat
    /\ MaxTaps \in Nat /\ MaxFailures \in Nat
ASSUME NobodyAssumption == Null \notin Users \cup Cats

VARIABLES
    version, redis, memory, lock, outage, reader, editor, late, outages,
    user, shown, boot, asked, session, leaving, pref, saved, pushUser, task, row, calm, barred,
    visits, losses,
    category, images, filled, picking, short, long, saver, loading, offer, submit,
    deletes, local, meta, remote, chosen, mixed, behind, taps, failures

Cache == INSTANCE ResponseCache WITH MaxFaults <- MaxOutages, faults <- outages

Push ==
    INSTANCE PushToken WITH Jobs <- Tasks, MaxActs <- MaxVisits, MaxFaults <- MaxLosses,
        cached <- shown, job <- task, acts <- visits, faults <- losses

AppForm ==
    INSTANCE AppListingForm WITH MaxActs <- MaxTaps, MaxFaults <- MaxFailures,
        late <- mixed, acts <- taps, faults <- failures

ASSUME NoDraftAssumption == Null \notin AppForm!Draft

\* The shared entry is older than the data only while an edit is about to
\* delete it, or when a reader stored after the deletion.
StaleExplained == Cache!StaleExplained

\* The device is registered for the user it shows, if that user wants it.
FollowsPreference == Push!FollowsPreference

\* No photo of the app's form changes its category.
OwnCategory == AppForm!OwnCategory

\* The draft the device keeps is what the app's form shows.
DraftKeepsUp == AppForm!DraftKeepsUp
=============================================================================
