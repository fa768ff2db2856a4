---------------------------- MODULE SavedListings ----------------------------
(***************************************************************************)
(* The favourites of one tab of the web application                        *)
(* (frontend/src/context/SavedListingsContext.js) or of the mobile one     *)
(* (mobile/src/context/SavedListingsContext.js): the list that is shown    *)
(* is changed at once when a heart is pressed and put back when the        *)
(* request fails, while loads of the whole list and requests for other     *)
(* hearts are under way.                                                   *)
(*                                                                         *)
(* A list is the set of its keys (type and id): its order and the cards    *)
(* are left out.  A request is Sent, the server acts on it (Served), and   *)
(* its answer, or a failure before or after the server acted, comes back   *)
(* (Answered, Failed), in any order with the other requests.  Only this    *)
(* tab changes the favourites on the server.                               *)
(***************************************************************************)
EXTENDS FiniteSets

CONSTANTS
    Users,      \* accounts
    Listings,   \* the keys normalizeSavedType makes of a listing
    Calls,      \* requests that may be under way at once
    Null,       \* nobody
    Web         \* TRUE: the web application, FALSE: the mobile one

ASSUME NobodyAssumption == Null \notin Users
ASSUME WebAssumption == Web \in BOOLEAN

VARIABLES
    user,       \* the account of AuthContext
    shown,      \* savedListings
    saving,     \* savingKeys
    latest,     \* mobile: previousListingsRef.current
    calls,      \* the requests under way
    server,     \* the rows of saved_listings, by account
    trusted     \* history: nothing happened since the last undisturbed load
                \* that the code cannot put right

vars == <<user, shown, saving, latest, calls, server, trusted>>

Idle == [kind |-> "idle"]

\* before: the list the toggle found; disturbed: something else touched the
\* list since the call was sent (a history variable of the call).
Loads == [kind : {"load"}, who : Users, disturbed : BOOLEAN,
          served : BOOLEAN, rows : SUBSET Listings]
Toggles == [kind : {"add", "remove"}, who : Users, disturbed : BOOLEAN,
            served : BOOLEAN, key : Listings, before : SUBSET Listings]

IsLoad(c) == calls[c].kind = "load"
IsToggle(c) == calls[c].kind \in {"add", "remove"}
Pending(k) == \E c \in Calls : IsToggle(c) /\ calls[c].key = k

TypeOK ==
    /\ user \in Users \cup {Null}
    /\ shown \subseteq Listings
    /\ saving \subseteq Listings
    /\ latest \subseteq Listings
    /\ calls \in [Calls -> Loads \cup Toggles \cup {Idle}]
    /\ server \in [Users -> SUBSET Listings]
    /\ trusted \in BOOLEAN

Init ==
    /\ user = Null
    /\ shown = {}
    /\ saving = {}
    /\ latest = {}
    /\ calls = [c \in Calls |-> Idle]
    /\ server \in [Users -> SUBSET Listings]
    /\ trusted = FALSE

-----------------------------------------------------------------------------
(* Helpers *)

Disturbed(cs) ==
    [c \in Calls |-> IF cs[c] = Idle THEN Idle
                     ELSE [cs[c] EXCEPT !.disturbed = TRUE]]

Load(u) == [kind |-> "load", who |-> u, served |-> FALSE, rows |-> {},
            disturbed |-> \E d \in Calls : IsToggle(d)]

Flipped(list, k, kind) == IF kind = "add" THEN list \cup {k} ELSE list \ {k}

\* The heart of the web application is disabled while its key is saving; the
\* screens of the mobile one never ask isSaving.
HeartEnabled(k) == Web => k \notin saving

\* Mutant: the list stays as the toggle changed it.
KeptAsIs(t) == shown

\* What a failed toggle puts back: its own snapshot, or the one of the last
\* toggle that was pressed.
Restored(t) == IF Web THEN t.before ELSE latest

-----------------------------------------------------------------------------
(* The account changes under the provider *)

\* A new user id: the effect loads its list; the one on the screen stays until
\* the load is answered.
SignIn(u, c) ==
    /\ u # user
    /\ calls[c] = Idle
    /\ user' = u
    /\ calls' = [Disturbed(calls) EXCEPT ![c] = Load(u)]
    /\ trusted' = FALSE
    /\ UNCHANGED <<shown, saving, latest, server>>

SignOut ==
    /\ user # Null
    /\ user' = Null
    /\ shown' = {}
    /\ calls' = Disturbed(calls)
    /\ trusted' = FALSE
    /\ UNCHANGED <<saving, latest, server>>

-----------------------------------------------------------------------------
(* Loads: refreshSavedListings, loadSavedListings *)

\* A page that shows favourites asks for them again.
Refresh(c) ==
    /\ user # Null
    /\ calls[c] = Idle
    /\ calls' = [calls EXCEPT ![c] = Load(user)]
    /\ UNCHANGED <<user, shown, saving, latest, server, trusted>>

LoadServed(c) ==
    /\ IsLoad(c)
    /\ ~calls[c].served
    /\ calls' = [calls EXCEPT ![c].served = TRUE,
                              ![c].rows = server[calls[c].who]]
    /\ UNCHANGED <<user, shown, saving, latest, server, trusted>>

\* Nothing compares the account, or the toggles pressed since, with those the
\* load was sent for.
LoadAnswered(c) ==
    /\ IsLoad(c)
    /\ calls[c].served
    /\ shown' = calls[c].rows
    /\ trusted' = ~calls[c].disturbed
    /\ calls' = [d \in Calls |->
                    IF d = c THEN Idle
                    ELSE IF IsToggle(d) THEN [calls[d] EXCEPT !.disturbed = TRUE]
                    ELSE calls[d]]
    /\ UNCHANGED <<user, saving, latest, server>>

\* The web application then shows an empty list.
LoadFailed(c) ==
    /\ IsLoad(c)
    /\ calls' = [calls EXCEPT ![c] = Idle]
    /\ shown' = IF Web THEN {} ELSE shown
    /\ trusted' = (trusted /\ ~Web)
    /\ UNCHANGED <<user, saving, latest, server>>

-----------------------------------------------------------------------------
(* Toggles: toggleSavedListing, toggleSaveListing *)

\* The list, savingKeys and the request, in one turn of the event loop.  On the
\* phone a second tap may come while the first request for the key is out.
Toggle(k, c) ==
    LET kind == IF k \in shown THEN "remove" ELSE "add"
        t == [kind |-> kind, who |-> user, disturbed |-> \E d \in Calls : IsLoad(d),
              served |-> FALSE, key |-> k, before |-> shown] IN
    /\ user # Null
    /\ calls[c] = Idle
    /\ HeartEnabled(k)
    /\ latest' = IF Web THEN latest ELSE shown
    /\ saving' = saving \cup {k}
    /\ shown' = Flipped(shown, k, kind)
    /\ calls' = [Disturbed(calls) EXCEPT ![c] = t]
    /\ trusted' = (trusted /\ (Web \/ ~Pending(k)))
    /\ UNCHANGED <<user, server>>

ToggleServed(c) ==
    /\ IsToggle(c)
    /\ ~calls[c].served
    /\ server' = [server EXCEPT
           ![calls[c].who] = Flipped(@, calls[c].key, calls[c].kind)]
    /\ calls' = [calls EXCEPT ![c].served = TRUE]
    /\ UNCHANGED <<user, shown, saving, latest, trusted>>

Settled(c) == saving' = saving \ {calls[c].key}

\* The web application puts an added listing in once more.
ToggleAnswered(c) ==
    /\ IsToggle(c)
    /\ calls[c].served
    /\ shown' = IF Web /\ calls[c].kind = "add"
                THEN shown \cup {calls[c].key} ELSE shown
    /\ Settled(c)
    /\ calls' = [calls EXCEPT ![c] = Idle]
    /\ UNCHANGED <<user, latest, server, trusted>>

\* The request failed, or it was done and its answer was lost.
ToggleFailed(c) ==
    /\ IsToggle(c)
    /\ shown' = Restored(calls[c])
    /\ Settled(c)
    /\ trusted' = (trusted /\ ~calls[c].disturbed /\ ~calls[c].served)
    /\ calls' = [Disturbed(calls) EXCEPT ![c] = Idle]
    /\ UNCHANGED <<user, latest, server>>

-----------------------------------------------------------------------------
Next ==
    \/ SignOut
    \/ \E c \in Calls :
        \/ \E u \in Users : SignIn(u, c)
        \/ Refresh(c)
        \/ LoadServed(c)
        \/ LoadAnswered(c)
        \/ LoadFailed(c)
        \/ \E k \in Listings : Toggle(k, c)
        \/ ToggleServed(c)
        \/ ToggleAnswered(c)
        \/ ToggleFailed(c)

Spec == Init /\ [][Next]_vars

\* Every request is answered or fails.
Answers(c) == \/ LoadServed(c) \/ LoadAnswered(c) \/ LoadFailed(c)
              \/ ToggleServed(c) \/ ToggleAnswered(c) \/ ToggleFailed(c)

FairSpec == Spec /\ \A c \in Calls : WF_vars(Answers(c))

-----------------------------------------------------------------------------
(* Properties *)

(***************************************************************************)
(* Optimistic updates are right.  After a load that nothing disturbed, and *)
(* as long as no toggle failed while another call was touching the list,   *)
(* every listing without a request under way is shown as a favourite       *)
(* exactly when the server has it as one of this account: several toggles  *)
(* answered in any order, and failed ones that were alone, leave no trace. *)
(***************************************************************************)
ShownAgrees ==
    (trusted /\ user # Null) =>
        \A k \in Listings : Pending(k) \/ (k \in shown <=> k \in server[user])

(***************************************************************************)
(* A heart does not stay busy: its key is released whatever becomes of the *)
(* request, across changes of account too (the finally blocks).            *)
(***************************************************************************)
HeartsRecover == \A k \in Listings : []<>(k \notin saving)

=============================================================================
