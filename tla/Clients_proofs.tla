---------------------------- MODULE Clients_proofs ----------------------------
(***************************************************************************)
(* Proofs about the parts of ClientPages: the favourites, for any accounts,*)
(* listings and number of requests under way, in the web application and   *)
(* in the mobile one; the registration document, for any documents and     *)
(* uploads and scans under way, in the car form and in the bike form; the  *)
(* photos of a form, for any photos and picks under way; and the explore   *)
(* and Reddit feeds, for any rows, pages and answers under way.  Each part *)
(* has its own inductive invariant.                                        *)
(***************************************************************************)
EXTENDS ClientPages, FiniteSetTheorems, SequenceTheorems, TLAPS

-----------------------------------------------------------------------------
(* The invariant *)

\* The pending toggles and what each has done: its effect is on the screen, and
\* on the server once it has been served.
InEffect(c) ==
    /\ calls[c].who = user
    /\ calls[c].key \in shown <=> calls[c].kind = "add"
    /\ calls[c].served => (calls[c].key \in server[user] <=> calls[c].kind = "add")
    /\ ~calls[c].served => (calls[c].key \in server[user] <=> calls[c].kind = "remove")

\* What an undisturbed toggle would put back differs from the list by its key.
Undoes(c) ==
    /\ calls[c].key \in calls[c].before <=> calls[c].kind = "remove"
    /\ \A k \in Listings \ {calls[c].key} : k \in calls[c].before <=> k \in shown
    /\ ~Web => latest = calls[c].before

\* No two requests are about one key.
Alone == \A c, d \in Calls : IsToggle(c) /\ IsToggle(d) /\ c # d => calls[c].key # calls[d].key

\* What is known while the list is trusted.
TrustInv ==
    /\ user \in Users
    /\ Alone
    /\ \A c \in Calls : IsToggle(c) => InEffect(c) /\ (~calls[c].disturbed => Undoes(c))
    /\ \A k \in Listings : ~Pending(k) => (k \in shown <=> k \in server[user])

\* An undisturbed load is the account's, and what it found is still there.
FreshLoad(c) ==
    /\ calls[c].who = user
    /\ \A d \in Calls : ~IsToggle(d)
    /\ calls[c].served => calls[c].rows = server[user]

\* The button of the web application keeps the keys of its requests apart.
HeartInv == Web => Alone /\ \A c \in Calls : IsToggle(c) => calls[c].key \in saving
\* A load that nothing disturbed.
LoadInv == \A c \in Calls : IsLoad(c) /\ ~calls[c].disturbed => FreshLoad(c)

\* The invariant.
Inv == TypeOK /\ HeartInv /\ LoadInv /\ (trusted => TrustInv)

-----------------------------------------------------------------------------
(* Calls and their types *)

Works == Loads \cup Toggles \cup {Idle}

\* A call is a load, a toggle or idle, and has the fields of its kind.
LEMMA CallTypes ==
    ASSUME TypeOK, NEW c \in Calls
    PROVE  /\ calls[c] \in Works
           /\ IsLoad(c) <=> calls[c] \in Loads
           /\ IsToggle(c) <=> calls[c] \in Toggles
           /\ calls[c] # Idle => IsLoad(c) \/ IsToggle(c)
           /\ calls[c] = Idle => ~IsLoad(c) /\ ~IsToggle(c)
           /\ ~(IsLoad(c) /\ IsToggle(c))
BY DEF TypeOK, Works, Loads, Toggles, Idle, IsLoad, IsToggle

LEMMA LoadFields ==
    ASSUME TypeOK, NEW c \in Calls, IsLoad(c)
    PROVE  /\ calls[c] \in Loads /\ calls[c].kind = "load" /\ calls[c].who \in Users
           /\ calls[c].rows \in SUBSET Listings
BY CallTypes DEF Loads

LEMMA ToggleFields ==
    ASSUME TypeOK, NEW c \in Calls, IsToggle(c)
    PROVE  /\ calls[c] \in Toggles /\ calls[c].kind \in {"add", "remove"}
           /\ calls[c].who \in Users /\ calls[c].key \in Listings
           /\ calls[c].before \in SUBSET Listings
BY CallTypes DEF Toggles

\* What a step makes of a call.
LEMMA Edits ==
    /\ \A x \in Loads : /\ [x EXCEPT !.disturbed = TRUE] \in Loads
                        /\ [x EXCEPT !.disturbed = TRUE].disturbed
                        /\ \A r \in SUBSET Listings :
                             /\ [x EXCEPT !.served = TRUE, !.rows = r] \in Loads
                             /\ [x EXCEPT !.served = TRUE, !.rows = r].rows = r
                             /\ [x EXCEPT !.served = TRUE, !.rows = r].who = x.who
                             /\ [x EXCEPT !.served = TRUE, !.rows = r].disturbed = x.disturbed
    /\ \A x \in Toggles : /\ [x EXCEPT !.disturbed = TRUE] \in Toggles
                          /\ [x EXCEPT !.disturbed = TRUE].disturbed
                          /\ [x EXCEPT !.served = TRUE] \in Toggles
                          /\ [x EXCEPT !.served = TRUE].served
BY DEF Loads, Toggles

\* A call looked at again: it is disturbed, and otherwise the same.
Touched(x, y) ==
    /\ y = x \/ (x # Idle /\ y = [x EXCEPT !.disturbed = TRUE])
    /\ y \in Works /\ (y.kind = x.kind) /\ (y = Idle <=> x = Idle)
    /\ x.kind = "load" => /\ y.who = x.who /\ y.rows = x.rows /\ (y.served <=> x.served)
                          /\ (y.disturbed \/ y = x)
    /\ x.kind \in {"add", "remove"} =>
         /\ y.who = x.who /\ y.key = x.key /\ y.before = x.before /\ (y.served <=> x.served)
         /\ (y.disturbed \/ y = x)

\* What is left alone, and what is only marked as disturbed.
LEMMA TouchedSame ==
    ASSUME NEW x \in Works
    PROVE  Touched(x, x)
BY DEF Touched, Works

LEMMA TouchedDisturbed ==
    ASSUME NEW x \in Works, x # Idle
    PROVE  /\ Touched(x, [x EXCEPT !.disturbed = TRUE])
           /\ [x EXCEPT !.disturbed = TRUE].disturbed
<1>1. CASE x \in Loads
  <2>1. [x EXCEPT !.disturbed = TRUE] \in Loads /\ [x EXCEPT !.disturbed = TRUE].disturbed
    BY <1>1, Edits
  <2>2. /\ [x EXCEPT !.disturbed = TRUE].kind = "load" /\ x.kind = "load"
        /\ [x EXCEPT !.disturbed = TRUE].who = x.who /\ [x EXCEPT !.disturbed = TRUE].rows = x.rows
        /\ [x EXCEPT !.disturbed = TRUE].served = x.served
    BY <1>1 DEF Loads
  <2>3. [x EXCEPT !.disturbed = TRUE] # Idle
    BY <2>2 DEF Idle
  <2> QED
    BY <2>1, <2>2, <2>3 DEF Touched, Works
<1>2. CASE x \in Toggles
  <2>1. [x EXCEPT !.disturbed = TRUE] \in Toggles /\ [x EXCEPT !.disturbed = TRUE].disturbed
    BY <1>2, Edits
  <2>2. /\ [x EXCEPT !.disturbed = TRUE].kind = x.kind /\ x.kind \in {"add", "remove"}
        /\ [x EXCEPT !.disturbed = TRUE].who = x.who /\ [x EXCEPT !.disturbed = TRUE].key = x.key
        /\ [x EXCEPT !.disturbed = TRUE].before = x.before
        /\ [x EXCEPT !.disturbed = TRUE].served = x.served
    BY <1>2 DEF Toggles
  <2>3. [x EXCEPT !.disturbed = TRUE] # Idle
    BY <2>2 DEF Idle
  <2> QED
    BY <2>1, <2>2, <2>3 DEF Touched, Works
<1> QED
  BY <1>1, <1>2 DEF Works

LEMMA DisturbedAll ==
    ASSUME TypeOK
    PROVE  /\ Disturbed(calls) \in [Calls -> Works]
           /\ \A c \in Calls : /\ Touched(calls[c], Disturbed(calls)[c])
                               /\ calls[c] # Idle => Disturbed(calls)[c].disturbed
<1>1. ASSUME NEW c \in Calls
      PROVE  /\ Touched(calls[c], Disturbed(calls)[c]) /\ Disturbed(calls)[c] \in Works
             /\ calls[c] # Idle => Disturbed(calls)[c].disturbed
  <2>1. calls[c] \in Works
    BY CallTypes
  <2>2. CASE calls[c] = Idle
    <3>1. Disturbed(calls)[c] = calls[c]
      BY <2>2 DEF Disturbed
    <3> QED
      BY <2>1, <2>2, <3>1, TouchedSame
  <2>3. CASE calls[c] # Idle
    <3>1. Disturbed(calls)[c] = [calls[c] EXCEPT !.disturbed = TRUE]
      BY <2>3 DEF Disturbed
    <3> QED
      BY <2>1, <2>3, <3>1, TouchedDisturbed DEF Touched
  <2> QED
    BY <2>2, <2>3
<1> QED
  BY <1>1 DEF Disturbed

-----------------------------------------------------------------------------
(* Types *)

LEMMA LoadCall ==
    ASSUME NEW u \in Users
    PROVE  /\ Load(u) \in Loads /\ Load(u) \in Works /\ Load(u).who = u /\ ~Load(u).served
           /\ Load(u).kind = "load" /\ Load(u) # Idle
           /\ ~Load(u).disturbed <=> \A d \in Calls : ~IsToggle(d)
BY DEF Load, Loads, Works, Idle

\* Types, those of the calls apart.
TypeParts ==
    /\ user \in Users \cup {Null} /\ shown \subseteq Listings /\ saving \subseteq Listings
    /\ latest \subseteq Listings /\ server \in [Users -> SUBSET Listings] /\ trusted \in BOOLEAN

LEMMA TypeSplit == TypeOK <=> TypeParts /\ calls \in [Calls -> Works]
BY DEF TypeOK, TypeParts, Works

\* Types are kept, one action at a time.
LEMMA TypeStep ==
    ASSUME TypeOK, [Next]_vars
    PROVE  TypeOK'
<1>0. TypeParts /\ calls \in [Calls -> Works] /\ Disturbed(calls) \in [Calls -> Works]
  BY TypeSplit, DisturbedAll
<1>1. ASSUME TypeParts', calls' \in [Calls -> Works]
      PROVE  TypeOK'
  BY <1>1 DEF TypeOK, TypeParts, Works
<1>2. CASE SignOut
  BY <1>0, <1>1, <1>2 DEF SignOut, TypeParts
<1>3. ASSUME NEW c \in Calls, NEW u \in Users, SignIn(u, c)
      PROVE  TypeOK'
  BY <1>0, <1>1, <1>3, LoadCall DEF SignIn, TypeParts
<1>4. ASSUME NEW c \in Calls, Refresh(c)
      PROVE  TypeOK'
  <2>1. user \in Users
    BY <1>0, <1>4 DEF Refresh, TypeParts
  <2> QED
    BY <1>0, <1>1, <1>4, <2>1, LoadCall DEF Refresh, TypeParts
<1>5. ASSUME NEW c \in Calls, LoadServed(c)
      PROVE  TypeOK'
  <2>1. calls[c] \in Loads /\ server[calls[c].who] \in SUBSET Listings
    BY <1>0, <1>5, LoadFields DEF LoadServed, TypeParts
  <2>2. calls' = [calls EXCEPT ![c] = [calls[c] EXCEPT !.served = TRUE,
                                                        !.rows = server[calls[c].who]]]
    BY <1>0, <1>5 DEF LoadServed
  <2>3. [calls[c] EXCEPT !.served = TRUE, !.rows = server[calls[c].who]] \in Works
    BY <2>1, Edits DEF Works
  <2> QED
    BY <1>0, <1>1, <1>5, <2>2, <2>3 DEF LoadServed, TypeParts
<1>6. ASSUME NEW c \in Calls, LoadAnswered(c)
      PROVE  TypeOK'
  <2>1. calls[c] \in Loads /\ calls[c].rows \in SUBSET Listings /\ calls[c].disturbed \in BOOLEAN
    BY <1>6, LoadFields DEF LoadAnswered, Loads
  <2>2. calls' \in [Calls -> Works]
    <3>1. ASSUME NEW d \in Calls
          PROVE  (IF d = c THEN Idle
                  ELSE IF IsToggle(d) THEN [calls[d] EXCEPT !.disturbed = TRUE]
                  ELSE calls[d]) \in Works
      BY ToggleFields, CallTypes, Edits DEF Works
    <3> QED
      BY <1>6, <3>1 DEF LoadAnswered
  <2> QED
    BY <1>0, <1>1, <1>6, <2>1, <2>2 DEF LoadAnswered, TypeParts
<1>7. ASSUME NEW c \in Calls, LoadFailed(c)
      PROVE  TypeOK'
  BY <1>0, <1>1, <1>7 DEF LoadFailed, TypeParts, Works
<1>8. ASSUME NEW c \in Calls, NEW k \in Listings, Toggle(k, c)
      PROVE  TypeOK'
  <2> DEFINE kind == IF k \in shown THEN "remove" ELSE "add"
             t == [kind |-> kind, who |-> user, disturbed |-> \E d \in Calls : IsLoad(d),
                   served |-> FALSE, key |-> k, before |-> shown]
  <2>1. t \in Works
    BY <1>0, <1>8 DEF Toggle, TypeParts, Works, Toggles
  <2>2. Flipped(shown, k, kind) \subseteq Listings
    BY <1>0 DEF Flipped, TypeParts
  <2>3. /\ latest' \in {latest, shown} /\ saving' = saving \cup {k}
        /\ shown' = Flipped(shown, k, kind) /\ calls' = [Disturbed(calls) EXCEPT ![c] = t]
        /\ trusted' = (trusted /\ (Web \/ ~Pending(k))) /\ user' = user /\ server' = server
    BY <1>8 DEF Toggle
  <2> HIDE DEF t, kind
  <2>4. calls' \in [Calls -> Works]
    BY <1>0, <2>1, <2>3
  <2>5. trusted' \in BOOLEAN
    BY <2>3
  <2>6. latest' \subseteq Listings /\ saving' \subseteq Listings /\ shown' \subseteq Listings
    BY <1>0, <2>2, <2>3 DEF TypeParts
  <2> QED
    BY <1>0, <1>1, <2>3, <2>4, <2>5, <2>6 DEF TypeParts
<1>9. ASSUME NEW c \in Calls, ToggleServed(c)
      PROVE  TypeOK'
  <2>1. /\ calls[c] \in Toggles /\ calls[c].who \in Users /\ calls[c].key \in Listings
    BY <1>9, ToggleFields DEF ToggleServed
  <2>2. calls' = [calls EXCEPT ![c] = [calls[c] EXCEPT !.served = TRUE]]
    BY <1>0, <1>9 DEF ToggleServed
  <2>3. [calls[c] EXCEPT !.served = TRUE] \in Works
    BY <2>1, Edits DEF Works
  <2>4. server' \in [Users -> SUBSET Listings]
    BY <1>0, <1>9, <2>1 DEF ToggleServed, Flipped, TypeParts
  <2> QED
    BY <1>0, <1>1, <1>9, <2>2, <2>3, <2>4 DEF ToggleServed, TypeParts
<1>10. ASSUME NEW c \in Calls, ToggleAnswered(c)
       PROVE  TypeOK'
  <2>1. calls[c].key \in Listings
    BY <1>10, ToggleFields DEF ToggleAnswered
  <2>2. calls' \in [Calls -> Works]
    BY <1>0, <1>10 DEF ToggleAnswered, Works
  <2> QED
    BY <1>0, <1>1, <1>10, <2>1, <2>2 DEF ToggleAnswered, Settled, TypeParts
<1>11. ASSUME NEW c \in Calls, ToggleFailed(c)
       PROVE  TypeOK'
  <2>1. calls[c].key \in Listings /\ calls[c].before \in SUBSET Listings
    BY <1>11, ToggleFields DEF ToggleFailed
  <2>2. calls' \in [Calls -> Works]
    BY <1>0, <1>11 DEF ToggleFailed, Works
  <2>3. shown' \subseteq Listings /\ saving' \subseteq Listings
    BY <1>0, <1>11, <2>1 DEF ToggleFailed, Restored, Settled, TypeParts
  <2>4. trusted' \in BOOLEAN
    BY <1>11 DEF ToggleFailed
  <2> QED
    BY <1>0, <1>1, <1>11, <2>2, <2>3, <2>4 DEF ToggleFailed, TypeParts
<1>12. CASE UNCHANGED vars
  BY <1>12 DEF vars, TypeOK
<1> QED
  BY <1>2, <1>3, <1>4, <1>5, <1>6, <1>7, <1>8, <1>9, <1>10, <1>11, <1>12 DEF Next

-----------------------------------------------------------------------------
(* The account changes *)

LEMMA SameToggles ==
    ASSUME \A d \in Calls : IsToggle(d)' => IsToggle(d) /\ calls'[d].key = calls[d].key
    PROVE  /\ Alone => Alone'
           /\ \A k : Pending(k)' => Pending(k)
BY DEF Alone, Pending

\* Signing out and in: the list is not trusted before it was loaded.
LEMMA SignOutStep ==
    ASSUME Inv, SignOut
    PROVE  HeartInv' /\ LoadInv' /\ ~trusted'
<1>1. /\ saving' = saving /\ ~trusted' /\ TypeOK
      /\ \A d \in Calls : /\ Touched(calls[d], calls'[d])
                          /\ calls[d] # Idle => calls'[d].disturbed
  BY DisturbedAll DEF SignOut, Inv
<1>2. \A d \in Calls : /\ IsToggle(d)' => IsToggle(d) /\ calls'[d].key = calls[d].key
                       /\ IsLoad(d)' => calls[d] # Idle
  BY <1>1, CallTypes, ZenonT(40) DEF Touched, IsToggle, IsLoad
<1>3. HeartInv'
  BY <1>1, <1>2, SameToggles DEF Inv, HeartInv
<1>4. LoadInv'
  BY <1>1, <1>2 DEF LoadInv
<1> QED
  BY <1>1, <1>3, <1>4

LEMMA SignInStep ==
    ASSUME Inv, NEW c \in Calls, NEW u \in Users, SignIn(u, c)
    PROVE  HeartInv' /\ LoadInv' /\ ~trusted'
<1>1. /\ saving' = saving /\ ~trusted' /\ TypeOK /\ user' = u
      /\ calls[c] = Idle /\ calls'[c] = Load(u)
      /\ \A d \in Calls \ {c} : /\ Touched(calls[d], calls'[d])
                                /\ calls[d] # Idle => calls'[d].disturbed
  BY DisturbedAll DEF SignIn, Inv
<1>2. ASSUME NEW d \in Calls
      PROVE  /\ IsToggle(d)' => d # c /\ IsToggle(d) /\ calls'[d].key = calls[d].key
             /\ IsLoad(d)' => d = c \/ calls[d] # Idle
  <2>1. CASE d = c
    BY <1>1, <2>1, LoadCall DEF IsToggle, IsLoad
  <2>2. CASE d # c
    BY <1>1, <2>2, CallTypes, ZenonT(40) DEF Touched, IsToggle, IsLoad
  <2> QED
    BY <2>1, <2>2
<1>3. HeartInv'
  BY <1>1, <1>2, SameToggles DEF Inv, HeartInv
<1>4. ASSUME NEW d \in Calls, IsLoad(d)', ~calls'[d].disturbed
      PROVE  FreshLoad(d)'
  <2>1. d = c
    BY <1>1, <1>2, <1>4
  <2>2. \A e \in Calls : ~IsToggle(e)
    BY <1>1, <1>4, <2>1, LoadCall
  <2> QED
    BY <1>1, <1>2, <2>1, <2>2, LoadCall DEF FreshLoad
<1>5. LoadInv'
  BY <1>4 DEF LoadInv
<1> QED
  BY <1>1, <1>3, <1>5

-----------------------------------------------------------------------------
(* Loads *)

\* Steps that change a call which is no toggle, and no list.
LEMMA LoadOnly ==
    ASSUME Inv, NEW c \in Calls, ~IsToggle(c), ~IsToggle(c)',
           \A d \in Calls \ {c} : calls'[d] = calls[d],
           UNCHANGED <<user, shown, saving, latest, server>>, trusted' => trusted
    PROVE  /\ HeartInv' /\ (trusted' => TrustInv')
           /\ \A d \in Calls : IsToggle(d)' <=> IsToggle(d)
<1>1. \A d \in Calls : /\ IsToggle(d)' <=> IsToggle(d)
                       /\ IsToggle(d) => calls'[d] = calls[d]
  BY DEF IsToggle
<1>2. Alone => Alone'
  BY <1>1 DEF Alone
<1>3. HeartInv'
  BY <1>1, <1>2 DEF Inv, HeartInv
<1>4. \A k : Pending(k)' <=> Pending(k)
  BY <1>1 DEF Pending
<1>5. ASSUME trusted'
      PROVE  TrustInv'
  <2>1. TrustInv
    BY <1>5 DEF Inv
  <2>2. ASSUME NEW d \in Calls, IsToggle(d)'
        PROVE  InEffect(d)' /\ (~calls'[d].disturbed => Undoes(d)')
    BY <1>1, <2>1, <2>2 DEF TrustInv, InEffect, Undoes
  <2> QED
    BY <1>2, <1>4, <2>1, <2>2 DEF TrustInv
<1> QED
  BY <1>1, <1>3, <1>5

\* Loads.
LEMMA RefreshStep ==
    ASSUME Inv, NEW c \in Calls, Refresh(c)
    PROVE  HeartInv' /\ LoadInv' /\ (trusted' => TrustInv')
<1>1. /\ TypeOK /\ user \in Users /\ calls[c] = Idle /\ calls'[c] = Load(user)
      /\ \A d \in Calls \ {c} : calls'[d] = calls[d]
      /\ UNCHANGED <<user, shown, saving, latest, server, trusted>>
  BY DEF Refresh, Inv, TypeOK
<1>2. ~IsToggle(c) /\ ~IsToggle(c)'
  BY <1>1, LoadCall, CallTypes DEF IsToggle
<1>3. /\ HeartInv' /\ (trusted' => TrustInv')
      /\ \A d \in Calls : IsToggle(d)' <=> IsToggle(d)
  BY <1>1, <1>2, LoadOnly
<1>4. ASSUME NEW d \in Calls, IsLoad(d)', ~calls'[d].disturbed
      PROVE  FreshLoad(d)'
  <2>1. CASE d = c
    BY <1>1, <1>3, <1>4, <2>1, LoadCall DEF FreshLoad
  <2>2. CASE d # c
    BY <1>1, <1>3, <1>4, <2>2 DEF Inv, LoadInv, FreshLoad, IsLoad
  <2> QED
    BY <2>1, <2>2
<1> QED
  BY <1>3, <1>4 DEF LoadInv

LEMMA LoadServedStep ==
    ASSUME Inv, NEW c \in Calls, LoadServed(c)
    PROVE  HeartInv' /\ LoadInv' /\ (trusted' => TrustInv')
<1> DEFINE x == calls[c]
           r == server[calls[c].who]
<1>1. /\ TypeOK /\ IsLoad(c) /\ calls \in [Calls -> Works]
      /\ UNCHANGED <<user, shown, saving, latest, server, trusted>>
  BY TypeSplit DEF LoadServed, Inv
<1>2. /\ calls'[c] = [x EXCEPT !.served = TRUE, !.rows = r]
      /\ \A d \in Calls \ {c} : calls'[d] = calls[d]
  BY <1>1 DEF LoadServed
<1>3. x \in Loads /\ r \in SUBSET Listings
  BY <1>1, LoadFields DEF TypeOK
<1>4. /\ calls'[c].who = x.who /\ calls'[c].rows = r /\ calls'[c].disturbed = x.disturbed
      /\ calls'[c] \in Loads
  <2> HIDE DEF x, r
  <2>1. LET y == [x EXCEPT !.served = TRUE, !.rows = r] IN
          y \in Loads /\ y.rows = r /\ y.who = x.who /\ y.disturbed = x.disturbed
    BY <1>3, Edits
  <2> QED
    BY <1>2, <2>1
<1>5. ~IsToggle(c) /\ ~IsToggle(c)'
  BY <1>3, <1>4 DEF IsToggle, Loads
<1>6. /\ HeartInv' /\ (trusted' => TrustInv')
      /\ \A d \in Calls : IsToggle(d)' <=> IsToggle(d)
  BY <1>1, <1>2, <1>5, LoadOnly
<1>7. ASSUME NEW d \in Calls, IsLoad(d)', ~calls'[d].disturbed
      PROVE  FreshLoad(d)'
  <2>1. CASE d = c
    <3>1. FreshLoad(c)
      BY <1>1, <1>4, <1>7, <2>1 DEF Inv, LoadInv
    <3> QED
      BY <1>1, <1>4, <1>6, <2>1, <3>1 DEF FreshLoad
  <2>2. CASE d # c
    BY <1>1, <1>2, <1>6, <1>7, <2>2 DEF Inv, LoadInv, FreshLoad, IsLoad
  <2> QED
    BY <2>1, <2>2
<1> QED
  BY <1>6, <1>7 DEF LoadInv

\* The answer is what the server has, or the list is no longer trusted.
LEMMA LoadAnsweredStep ==
    ASSUME Inv, NEW c \in Calls, LoadAnswered(c)
    PROVE  HeartInv' /\ LoadInv' /\ (trusted' => TrustInv')
<1>1. /\ TypeOK /\ IsLoad(c) /\ calls[c].served
      /\ UNCHANGED <<user, saving, latest, server>>
      /\ shown' = calls[c].rows /\ trusted' = ~calls[c].disturbed
      /\ calls'[c] = Idle
  BY DEF LoadAnswered, Inv
<1>2. ASSUME NEW d \in Calls
      PROVE  /\ IsToggle(d)' => IsToggle(d) /\ calls'[d].key = calls[d].key
             /\ IsLoad(d)' => calls'[d] = calls[d] /\ IsLoad(d)
  <2>1. CASE d = c
    BY <1>1, <2>1 DEF IsToggle, IsLoad, Idle
  <2>2. CASE d # c /\ IsToggle(d)
    <3>1. calls'[d] = [calls[d] EXCEPT !.disturbed = TRUE]
      BY <2>2 DEF LoadAnswered
    <3>2. Touched(calls[d], calls'[d])
      BY <1>1, <2>2, <3>1, CallTypes, TouchedDisturbed
    <3> QED
      BY <2>2, <3>2 DEF Touched, IsToggle, IsLoad
  <2>3. CASE d # c /\ ~IsToggle(d)
    <3>1. calls'[d] = calls[d]
      BY <2>3 DEF LoadAnswered
    <3> QED
      BY <2>3, <3>1 DEF IsToggle, IsLoad
  <2> QED
    BY <2>1, <2>2, <2>3
<1>3. HeartInv'
  BY <1>1, <1>2, SameToggles DEF Inv, HeartInv
<1>4. LoadInv'
  BY <1>1, <1>2 DEF Inv, LoadInv, FreshLoad
<1>5. ASSUME trusted'
      PROVE  TrustInv'
  <2>1. FreshLoad(c)
    BY <1>1, <1>5 DEF Inv, LoadInv
  <2>2. \A d \in Calls : ~IsToggle(d)'
    BY <1>2, <2>1 DEF FreshLoad
  <2>3. shown' = server'[user'] /\ user' \in Users
    BY <1>1, <2>1, LoadFields DEF FreshLoad
  <2> QED
    BY <2>2, <2>3 DEF TrustInv, Alone
<1> QED
  BY <1>3, <1>4, <1>5

LEMMA LoadFailedStep ==
    ASSUME Inv, NEW c \in Calls, LoadFailed(c)
    PROVE  HeartInv' /\ LoadInv' /\ (trusted' => TrustInv')
<1>1. /\ TypeOK /\ IsLoad(c) /\ calls \in [Calls -> Works]
      /\ UNCHANGED <<user, saving, latest, server>>
      /\ trusted' = (trusted /\ ~Web) /\ (~Web => shown' = shown)
      /\ calls'[c] = Idle /\ \A d \in Calls \ {c} : calls'[d] = calls[d]
  BY TypeSplit DEF LoadFailed, Inv
<1>2. ~IsToggle(c) /\ ~IsToggle(c)' /\ ~IsLoad(c)'
  BY <1>1 DEF IsToggle, IsLoad, Idle
<1>3. \A d \in Calls : /\ IsToggle(d)' <=> IsToggle(d)
                       /\ IsToggle(d) => calls'[d] = calls[d]
                       /\ IsLoad(d)' => IsLoad(d) /\ calls'[d] = calls[d]
  BY <1>1, <1>2 DEF IsToggle, IsLoad
<1>4. HeartInv'
  BY <1>1, <1>3, SameToggles DEF Inv, HeartInv
<1>5. LoadInv'
  BY <1>1, <1>3 DEF Inv, LoadInv, FreshLoad
<1>6. ASSUME trusted'
      PROVE  TrustInv'
  <2>1. trusted /\ UNCHANGED <<user, shown, saving, latest, server>>
    BY <1>1, <1>6
  <2> QED
    BY <1>1, <1>2, <1>6, <2>1, LoadOnly
<1> QED
  BY <1>4, <1>5, <1>6

-----------------------------------------------------------------------------
(* Toggles *)

\* A toggle keeps undisturbed loads away.
LEMMA NoFreshLoad ==
    ASSUME Inv, NEW c \in Calls, IsToggle(c)
    PROVE  \A d \in Calls : IsLoad(d) => calls[d].disturbed
BY DEF Inv, LoadInv, FreshLoad

\* Toggles.
LEMMA ToggleStep ==
    ASSUME Inv, NEW c \in Calls, NEW k \in Listings, Toggle(k, c)
    PROVE  HeartInv' /\ LoadInv' /\ (trusted' => TrustInv')
<1> DEFINE kind == IF k \in shown THEN "remove" ELSE "add"
           t == [kind |-> kind, who |-> user, disturbed |-> \E d \in Calls : IsLoad(d),
                 served |-> FALSE, key |-> k, before |-> shown]
<1>1. /\ TypeOK /\ user \in Users /\ calls[c] = Idle /\ HeartEnabled(k)
      /\ latest' = (IF Web THEN latest ELSE shown)
      /\ saving' = saving \cup {k} /\ shown' = Flipped(shown, k, kind)
      /\ calls' = [Disturbed(calls) EXCEPT ![c] = t]
      /\ trusted' = (trusted /\ (Web \/ ~Pending(k))) /\ user' = user /\ server' = server
  BY DEF Toggle, Inv, TypeOK
<1>2. /\ calls'[c] = t
      /\ \A d \in Calls \ {c} : /\ Touched(calls[d], calls'[d])
                                /\ calls[d] # Idle => calls'[d].disturbed
  BY <1>1, DisturbedAll
<1>3. /\ IsToggle(c)' /\ ~IsToggle(c) /\ ~IsLoad(c)' /\ calls'[c].key = k
      /\ calls'[c].who = user /\ calls'[c].kind = kind /\ ~calls'[c].served
      /\ calls'[c].before = shown
  BY <1>1, <1>2 DEF IsToggle, IsLoad, Idle
<1> HIDE DEF t
<1>4. ASSUME NEW d \in Calls \ {c}
      PROVE  /\ IsToggle(d)' <=> IsToggle(d)
             /\ IsLoad(d)' => calls'[d].disturbed
             /\ IsToggle(d) => /\ calls'[d].key = calls[d].key /\ calls'[d].who = calls[d].who
                               /\ calls'[d].kind = calls[d].kind
                               /\ calls'[d].served <=> calls[d].served
                               /\ calls'[d].disturbed
  BY <1>1, <1>2, CallTypes, ZenonT(40) DEF Touched, IsToggle, IsLoad
<1>5. LoadInv'
  BY <1>3, <1>4 DEF LoadInv
<1>6. ASSUME Alone, ~Pending(k)
      PROVE  Alone'
  BY <1>3, <1>4, <1>6 DEF Alone, Pending
<1>7. HeartInv'
  <2>1. Web => ~Pending(k)
    BY <1>1 DEF HeartEnabled, Inv, HeartInv, Pending
  <2> QED
    BY <1>1, <1>3, <1>4, <1>6, <2>1 DEF Inv, HeartInv
<1>8. ASSUME trusted'
      PROVE  TrustInv'
  <2>1. TrustInv /\ ~Pending(k)
    BY <1>1, <1>8 DEF HeartEnabled, Inv, HeartInv, Pending
  <2>2. Alone'
    BY <1>6, <2>1 DEF TrustInv
  <2>3. k \in shown <=> k \in server[user]
    BY <2>1 DEF TrustInv
  <2>4. /\ \A l \in Listings \ {k} : l \in shown' <=> l \in shown
        /\ k \in shown' <=> kind = "add"
    BY <1>1 DEF Flipped
  <2>5. InEffect(c)'
    BY <1>1, <1>3, <2>3, <2>4 DEF InEffect
  <2>6. Undoes(c)'
    BY <1>1, <1>3, <2>4 DEF Undoes
  <2>7. ASSUME NEW d \in Calls \ {c}, IsToggle(d)
        PROVE  InEffect(d)' /\ calls'[d].disturbed
    <3>1. InEffect(d) /\ calls[d].key # k /\ calls[d].key \in Listings
      BY <1>1, <2>1, <2>7, ToggleFields DEF TrustInv, Pending
    <3> QED
      BY <1>1, <1>4, <2>4, <2>7, <3>1 DEF InEffect
  <2>8. ASSUME NEW l \in Listings, ~Pending(l)'
        PROVE  l \in shown' <=> l \in server'[user']
    <3>1. l # k /\ ~Pending(l)
      BY <1>3, <1>4, <2>8 DEF Pending
    <3> QED
      BY <1>1, <2>1, <2>4, <3>1 DEF TrustInv
  <2>9. \A d \in Calls : IsToggle(d)' => InEffect(d)' /\ (~calls'[d].disturbed => Undoes(d)')
    BY <1>4, <2>5, <2>6, <2>7
  <2> QED
    BY <1>1, <2>2, <2>8, <2>9 DEF TrustInv
<1> QED
  BY <1>5, <1>7, <1>8

LEMMA ToggleServedStep ==
    ASSUME Inv, NEW c \in Calls, ToggleServed(c)
    PROVE  HeartInv' /\ LoadInv' /\ (trusted' => TrustInv')
<1> DEFINE x == calls[c]
<1>1. /\ TypeOK /\ IsToggle(c) /\ ~x.served /\ calls \in [Calls -> Works]
      /\ server' = [server EXCEPT ![x.who] = Flipped(server[x.who], x.key, x.kind)]
      /\ UNCHANGED <<user, shown, saving, latest, trusted>>
  BY TypeSplit DEF ToggleServed, Inv
<1>2. /\ calls'[c] = [x EXCEPT !.served = TRUE]
      /\ \A d \in Calls \ {c} : calls'[d] = calls[d]
  BY <1>1 DEF ToggleServed
<1>3. x \in Toggles /\ x.who \in Users /\ x.key \in Listings /\ x.kind \in {"add", "remove"}
  BY <1>1, ToggleFields
<1>4. /\ calls'[c].key = x.key /\ calls'[c].who = x.who /\ calls'[c].kind = x.kind
      /\ calls'[c].before = x.before /\ calls'[c].disturbed = x.disturbed /\ calls'[c].served
  BY <1>2, <1>3 DEF Toggles
<1>5. \A d \in Calls : /\ IsToggle(d)' <=> IsToggle(d)
                       /\ IsLoad(d)' <=> IsLoad(d)
                       /\ IsToggle(d) => calls'[d].key = calls[d].key
                       /\ calls'[d].disturbed = calls[d].disturbed
  BY <1>1, <1>2, <1>4 DEF IsToggle, IsLoad
<1>6. LoadInv'
  BY <1>1, <1>5, NoFreshLoad DEF LoadInv
<1>7. HeartInv'
  BY <1>1, <1>5, SameToggles DEF Inv, HeartInv
<1>8. ASSUME trusted'
      PROVE  TrustInv'
  <2>1. TrustInv /\ x.who = user /\ user \in Users
    BY <1>1, <1>8 DEF Inv, TrustInv, InEffect
  <2>2. server'[user] = Flipped(server[user], x.key, x.kind)
    BY <1>1, <2>1 DEF TypeOK
  <2>3. /\ \A l \in Listings \ {x.key} : l \in server'[user] <=> l \in server[user]
        /\ x.key \in server'[user] <=> x.kind = "add"
    BY <1>3, <2>2 DEF Flipped
  <2>4. ASSUME NEW d \in Calls, IsToggle(d)
        PROVE  InEffect(d)' /\ (~calls'[d].disturbed => Undoes(d)')
    <3>1. InEffect(d) /\ (~calls[d].disturbed => Undoes(d)) /\ calls[d].key \in Listings
      BY <1>1, <2>1, <2>4, ToggleFields DEF TrustInv
    <3>2. CASE d = c
      BY <1>1, <1>4, <2>1, <2>3, <3>1, <3>2 DEF InEffect, Undoes
    <3>3. CASE d # c
      <4>1. calls[d].key # x.key
        BY <1>1, <2>1, <2>4, <3>3 DEF TrustInv, Alone
      <4> QED
        BY <1>1, <1>2, <2>3, <3>1, <3>3, <4>1 DEF InEffect, Undoes
    <3> QED
      BY <3>2, <3>3
  <2>5. ASSUME NEW l \in Listings, ~Pending(l)'
        PROVE  l \in shown' <=> l \in server'[user']
    <3>1. l # x.key /\ ~Pending(l)
      BY <1>1, <1>5, <2>5 DEF Pending
    <3> QED
      BY <1>1, <2>1, <2>3, <3>1 DEF TrustInv
  <2>6. Alone'
    BY <1>5, <2>1, SameToggles DEF TrustInv
  <2> QED
    BY <1>1, <1>5, <2>1, <2>4, <2>5, <2>6 DEF TrustInv
<1> QED
  BY <1>6, <1>7, <1>8

\* A toggle that ends takes its key along.
LEMMA Ended ==
    ASSUME Inv, NEW c \in Calls, IsToggle(c), calls'[c] = Idle, saving' = saving \ {calls[c].key},
           \A d \in Calls \ {c} : Touched(calls[d], calls'[d])
    PROVE  /\ HeartInv' /\ LoadInv'
           /\ Alone => Alone'
           /\ \A d \in Calls : IsToggle(d)' <=> IsToggle(d) /\ d # c
           /\ \A d \in Calls \ {c} : IsToggle(d) =>
                /\ calls'[d].key = calls[d].key /\ calls'[d].who = calls[d].who
                /\ calls'[d].kind = calls[d].kind /\ calls'[d].before = calls[d].before
                /\ calls'[d].served <=> calls[d].served
                /\ calls'[d] = calls[d] \/ calls'[d].disturbed
<1>1. ASSUME NEW d \in Calls
      PROVE  /\ IsToggle(d)' <=> IsToggle(d) /\ d # c
             /\ IsLoad(d)' => IsLoad(d) /\ (calls'[d] = calls[d] \/ calls'[d].disturbed)
             /\ IsToggle(d) /\ d # c =>
                  /\ calls'[d].key = calls[d].key /\ calls'[d].who = calls[d].who
                  /\ calls'[d].kind = calls[d].kind /\ calls'[d].before = calls[d].before
                  /\ calls'[d].served <=> calls[d].served
                  /\ calls'[d] = calls[d] \/ calls'[d].disturbed
  <2>1. CASE d = c
    BY <2>1 DEF IsToggle, IsLoad, Idle
  <2>2. CASE d # c
    <3> DEFINE a == calls[d]
               b == calls'[d]
    <3>1. Touched(a, b)
      BY <2>2
    <3> HIDE DEF a, b
    <3>2. b.kind = a.kind
      BY <3>1 DEF Touched
    <3>3. a.kind = "load" => b = a \/ b.disturbed
      BY <3>1 DEF Touched
    <3>4. a.kind \in {"add", "remove"} =>
            /\ b.key = a.key /\ b.who = a.who /\ b.before = a.before
            /\ (b.served <=> a.served) /\ (b = a \/ b.disturbed)
      BY <3>1 DEF Touched
    <3> QED
      BY <2>2, <3>2, <3>3, <3>4 DEF a, b, IsToggle, IsLoad
  <2> QED
    BY <2>1, <2>2
<1>2. Alone => Alone'
  BY <1>1, SameToggles
<1>3. LoadInv'
  <2>1. \A d \in Calls : IsLoad(d) => calls[d].disturbed
    BY NoFreshLoad
  <2> QED
    BY <1>1, <2>1 DEF LoadInv
<1>4. HeartInv'
  BY <1>1, <1>2 DEF Inv, HeartInv, Alone
<1> QED
  BY <1>1, <1>2, <1>3, <1>4

LEMMA ToggleAnsweredStep ==
    ASSUME Inv, NEW c \in Calls, ToggleAnswered(c)
    PROVE  HeartInv' /\ LoadInv' /\ (trusted' => TrustInv')
<1> DEFINE x == calls[c]
<1>1. /\ TypeOK /\ IsToggle(c) /\ x.served /\ calls \in [Calls -> Works]
      /\ shown' = (IF Web /\ x.kind = "add" THEN shown \cup {x.key} ELSE shown)
      /\ saving' = saving \ {x.key} /\ calls' = [calls EXCEPT ![c] = Idle]
      /\ UNCHANGED <<user, latest, server, trusted>>
  BY TypeSplit DEF ToggleAnswered, Settled, Inv
<1>2. /\ calls'[c] = Idle /\ \A d \in Calls \ {c} : calls'[d] = calls[d]
  BY <1>1
<1>3. \A d \in Calls \ {c} : Touched(calls[d], calls'[d])
  BY <1>1, <1>2, TouchedSame
<1>4. HeartInv' /\ LoadInv' /\ (Alone => Alone')
      /\ \A d \in Calls : IsToggle(d)' <=> IsToggle(d) /\ d # c
  BY <1>1, <1>2, <1>3, Ended
<1>5. ASSUME trusted'
      PROVE  TrustInv'
  <2>1. TrustInv /\ InEffect(c)
    BY <1>1, <1>5 DEF Inv, TrustInv
  <2>2. shown' = shown
    BY <1>1, <2>1 DEF InEffect
  <2>3. ASSUME NEW d \in Calls, IsToggle(d)'
        PROVE  InEffect(d)' /\ (~calls'[d].disturbed => Undoes(d)')
    BY <1>1, <1>2, <1>4, <2>1, <2>2, <2>3 DEF TrustInv, InEffect, Undoes
  <2>4. ASSUME NEW l \in Listings, ~Pending(l)'
        PROVE  l \in shown' <=> l \in server'[user']
    <3>1. l = x.key \/ ~Pending(l)
      BY <1>2, <1>4, <2>4 DEF Pending
    <3> QED
      BY <1>1, <2>1, <2>2, <3>1 DEF TrustInv, InEffect
  <2> QED
    BY <1>1, <1>4, <2>1, <2>3, <2>4 DEF TrustInv
<1> QED
  BY <1>4, <1>5

\* An undisturbed toggle puts back the list as it would be without it.
LEMMA ToggleFailedStep ==
    ASSUME Inv, NEW c \in Calls, ToggleFailed(c)
    PROVE  HeartInv' /\ LoadInv' /\ (trusted' => TrustInv')
<1> DEFINE x == calls[c]
<1>1. /\ TypeOK /\ IsToggle(c) /\ shown' = Restored(x)
      /\ saving' = saving \ {x.key} /\ calls' = [Disturbed(calls) EXCEPT ![c] = Idle]
      /\ trusted' = (trusted /\ ~x.disturbed /\ ~x.served)
      /\ UNCHANGED <<user, latest, server>>
  BY DEF ToggleFailed, Settled, Inv
<1>2. /\ calls'[c] = Idle
      /\ \A d \in Calls \ {c} : /\ Touched(calls[d], calls'[d])
                                /\ calls[d] # Idle => calls'[d].disturbed
  BY <1>1, DisturbedAll
<1>3. /\ HeartInv' /\ LoadInv' /\ (Alone => Alone')
      /\ \A d \in Calls : IsToggle(d)' <=> IsToggle(d) /\ d # c
      /\ \A d \in Calls \ {c} : IsToggle(d) =>
           /\ calls'[d].key = calls[d].key /\ calls'[d].who = calls[d].who
           /\ calls'[d].kind = calls[d].kind /\ (calls'[d].served <=> calls[d].served)
  BY <1>1, <1>2, Ended
<1>4. ASSUME trusted'
      PROVE  TrustInv'
  <2>1. TrustInv /\ InEffect(c) /\ Undoes(c) /\ ~x.served
    BY <1>1, <1>4 DEF Inv, TrustInv
  <2>2. shown' = x.before
    BY <1>1, <2>1 DEF Restored, Undoes
  <2>3. /\ \A l \in Listings \ {x.key} : l \in shown' <=> l \in shown
        /\ x.key \in shown' <=> x.kind = "remove"
    BY <2>1, <2>2 DEF Undoes
  <2>4. ASSUME NEW d \in Calls, IsToggle(d)'
        PROVE  InEffect(d)' /\ calls'[d].disturbed
    <3>1. d # c /\ IsToggle(d) /\ InEffect(d)
      BY <1>3, <2>1, <2>4 DEF TrustInv
    <3>2. calls[d].key # x.key /\ calls[d].key \in Listings
      BY <1>1, <2>1, <3>1, ToggleFields DEF TrustInv, Alone
    <3>3. calls'[d].disturbed
      BY <1>1, <1>2, <3>1, CallTypes
    <3> QED
      BY <1>1, <1>3, <2>3, <3>1, <3>2, <3>3 DEF InEffect
  <2>5. ASSUME NEW l \in Listings, ~Pending(l)'
        PROVE  l \in shown' <=> l \in server'[user']
    <3>1. l = x.key \/ ~Pending(l)
      BY <1>3, <2>5 DEF Pending
    <3> QED
      BY <1>1, <2>1, <2>3, <3>1 DEF TrustInv, InEffect
  <2> QED
    BY <1>1, <1>3, <2>1, <2>4, <2>5 DEF TrustInv
<1> QED
  BY <1>3, <1>4

-----------------------------------------------------------------------------
(* The theorems *)

LEMMA Inductive == Spec => []Inv
<1>1. Init => Inv
  <2>1. Init => TypeOK
    BY DEF Init, TypeOK
  <2>2. Init => \A c \in Calls : ~IsToggle(c) /\ ~IsLoad(c)
    BY DEF Init, Idle, IsToggle, IsLoad
  <2> QED
    BY <2>1, <2>2 DEF Init, Inv, HeartInv, LoadInv, Alone
<1>2. Inv /\ [Next]_vars => Inv'
  <2> SUFFICES ASSUME Inv, [Next]_vars
               PROVE  Inv'
    OBVIOUS
  <2>1. TypeOK'
    BY TypeStep DEF Inv
  <2>2. CASE UNCHANGED vars
    BY <2>1, <2>2 DEF vars, Inv, HeartInv, LoadInv, FreshLoad, TrustInv, InEffect, Undoes,
                      Alone, IsToggle, IsLoad, Pending
  <2>3. CASE Next
    <3>1. HeartInv' /\ LoadInv' /\ (trusted' => TrustInv')
      BY <2>3, SignOutStep, SignInStep, RefreshStep, LoadServedStep, LoadAnsweredStep,
         LoadFailedStep, ToggleStep, ToggleServedStep, ToggleAnsweredStep, ToggleFailedStep
         DEF Next
    <3> QED
      BY <2>1, <3>1 DEF Inv
  <2> QED
    BY <2>2, <2>3
<1> QED
  BY <1>1, <1>2, PTL DEF Spec

(***************************************************************************)
(* The lists, the requests and the rows keep to their types.               *)
(***************************************************************************)
THEOREM TypeCorrect == Spec => []TypeOK
<1>1. Inv => TypeOK
  BY DEF Inv
<1> QED
  BY <1>1, Inductive, PTL

(***************************************************************************)
(* While the list is trusted, a listing without a request under way is     *)
(* shown as a favourite just when the server has it.                       *)
(***************************************************************************)
THEOREM ShownAlwaysAgrees == Spec => []ShownAgrees
<1>1. Inv => ShownAgrees
  BY DEF Inv, TrustInv, ShownAgrees
<1> QED
  BY <1>1, Inductive, PTL

-----------------------------------------------------------------------------
(* The registration document: RegistrationScan *)

-----------------------------------------------------------------------------
(* Types *)

\* What a call does, and that one which is not idle has a document.
LEMMA CallType ==
    ASSUME NEW d \in Documents
    PROVE  /\ Document!Upload(d) \in Document!Works /\ Document!Upload(d).doc = d /\ Document!Upload(d).kind = "upload"
           /\ Document!Scan(d) \in Document!Works /\ Document!Scan(d).doc = d /\ Document!Scan(d).kind = "scan"
           /\ Document!Upload(d) # Document!Idle /\ Document!Scan(d) # Document!Idle
BY DEF Document!Upload, Document!Scan, Document!Works, Document!Idle

\* A call under way has a document.
LEMMA BusyType ==
    ASSUME Document!TypeOK, NEW c \in Calls, tasks[c].kind \in {"upload", "scan"}
    PROVE  tasks[c] \in Document!Works /\ tasks[c].doc \in Documents /\ tasks[c] # Document!Idle
BY DEF Document!TypeOK, Document!Works, Document!Idle

\* A submission that awaits nothing more is one.
LEMMA SubmissionType ==
    ASSUME NEW s \in Document!Submissions, NEW b \in BOOLEAN
    PROVE  /\ [s EXCEPT !.awaits = Null] \in Document!Submissions
           /\ [s EXCEPT !.awaits = Null, !.stored = b] \in Document!Submissions
           /\ [s EXCEPT !.awaits = Null].url = s.url
           /\ [s EXCEPT !.awaits = Null].file = s.file
           /\ [s EXCEPT !.awaits = Null, !.stored = b].url = s.url
           /\ [s EXCEPT !.awaits = Null, !.stored = b].file = s.file
BY DEF Document!Submissions

\* What the step that ends an upload does to a submission that awaits it.
LEMMA UploadSubmit ==
    ASSUME Document!TypeOK, NEW c \in Calls, Document!UploadEnds(c)
    PROVE  /\ submit' \in Document!Submissions \cup {Null}
           /\ submit # Null /\ submit \in Document!Submissions =>
                submit'.url = submit.url /\ submit'.file = submit.file
           /\ submit = Null => submit' = Null
           /\ url' \in {url, tasks[c].doc}
BY SubmissionType DEF Document!TypeOK, Document!UploadEnds, Document!Awaited

\* A submission as it is made.
LEMMA SubmitSubmit ==
    ASSUME Document!TypeOK, NEW c \in Calls, Document!Submit(c)
    PROVE  /\ submit' \in Document!Submissions
           /\ submit'.url = url /\ submit'.file = file
           /\ tasks' = tasks \/ (file \in Documents /\ tasks' = [tasks EXCEPT ![c] = Document!Upload(file)])
           /\ promise' \in Calls \cup {Null}
<1> DEFINE wait == Form = "car" /\ file # Null /\ url = Null
           start == wait /\ promise = Null
           a == IF start THEN c ELSE IF wait THEN promise ELSE Null
<1>1. a \in Calls \cup {Null} /\ (url # Null) \in BOOLEAN
  BY DEF Document!TypeOK
<1>2. submit' = [awaits |-> a, file |-> file, url |-> url, stored |-> url # Null]
  BY DEF Document!Submit
<1>3. tasks' = IF start THEN [tasks EXCEPT ![c] = Document!Upload(file)] ELSE tasks
  BY DEF Document!Submit
<1>4. start => file \in Documents
  BY DEF Document!TypeOK
<1>5. promise' \in Calls \cup {Null}
  BY DEF Document!Submit, Document!TypeOK
<1> HIDE DEF a, start
<1> QED
  BY <1>1, <1>2, <1>3, <1>4, <1>5 DEF Document!Submissions, Document!TypeOK

\* Types are kept, one action at a time.
LEMMA DocumentTypeStep ==
    ASSUME Document!TypeOK, [Document!Next]_(Document!vars)
    PROVE  Document!TypeOK'
<1>1. CASE Document!Clear
  BY <1>1 DEF Document!Clear, Document!Reset, Document!Busy, Document!TypeOK
<1>2. CASE Document!Post
  BY <1>2 DEF Document!Post, Document!TypeOK
<1>3. ASSUME NEW c \in Calls, NEW d \in Documents, Document!Choose(d, c)
      PROVE  Document!TypeOK'
  <2>1. tasks' \in [Calls -> Document!Works \cup {Document!Idle}]
    BY <1>3, CallType DEF Document!Choose, Document!TypeOK
  <2> QED
    BY <1>3, <2>1 DEF Document!Choose, Document!Reset, Document!Busy, Document!TypeOK
<1>4. ASSUME NEW c \in Calls, NEW d \in Calls, Document!PressScan(c, d)
      PROVE  Document!TypeOK'
  <2>1. file \in Documents
    BY <1>4 DEF Document!PressScan, Document!TypeOK
  <2>2. tasks' \in [Calls -> Document!Works \cup {Document!Idle}]
    BY <1>4, <2>1, CallType DEF Document!PressScan, Document!TypeOK
  <2>3. promise' \in Calls \cup {Null} /\ url' \in Documents \cup {Null} /\ scanning' \in BOOLEAN
    BY <1>4 DEF Document!PressScan, Document!TypeOK
  <2> QED
    BY <1>4, <2>2, <2>3 DEF Document!PressScan, Document!TypeOK
<1>5. ASSUME NEW c \in Calls, Document!UploadEnds(c)
      PROVE  Document!TypeOK'
  <2>1. tasks[c].doc \in Documents
    BY <1>5, BusyType DEF Document!UploadEnds
  <2>2. submit' \in Document!Submissions \cup {Null} /\ url' \in Documents \cup {Null}
    BY <1>5, <2>1, UploadSubmit DEF Document!TypeOK
  <2> QED
    BY <1>5, <2>2 DEF Document!UploadEnds, Document!TypeOK
<1>6. ASSUME NEW c \in Calls, Document!ScanEnds(c)
      PROVE  Document!TypeOK'
  <2>1. tasks[c].doc \in Documents
    BY <1>6, BusyType DEF Document!ScanEnds
  <2> QED
    BY <1>6, <2>1 DEF Document!ScanEnds, Document!TypeOK
<1>7. ASSUME NEW c \in Calls, Document!Submit(c)
      PROVE  Document!TypeOK'
  <2>1. submit' \in Document!Submissions /\ promise' \in Calls \cup {Null}
    BY <1>7, SubmitSubmit
  <2>2. tasks' \in [Calls -> Document!Works \cup {Document!Idle}]
    BY <1>7, SubmitSubmit, CallType DEF Document!TypeOK
  <2> QED
    BY <1>7, <2>1, <2>2 DEF Document!Submit, Document!TypeOK
<1>8. CASE UNCHANGED Document!vars
  BY <1>8 DEF Document!vars, Document!TypeOK
<1> QED
  BY <1>1, <1>2, <1>3, <1>4, <1>5, <1>6, <1>7, <1>8 DEF Document!Next

(***************************************************************************)
(* The form keeps to its types, in whatever order uploads and scans end.   *)
(***************************************************************************)
THEOREM DocumentTyped == Document!Spec => []Document!TypeOK
<1>1. Document!Init => Document!TypeOK
  BY DEF Document!Init, Document!TypeOK
<1>2. Document!TypeOK /\ [Document!Next]_(Document!vars) => Document!TypeOK'
  BY DocumentTypeStep
<1> QED
  BY <1>1, <1>2, PTL DEF Document!Spec

-----------------------------------------------------------------------------
(***************************************************************************)
(* The document.  What is to be posted was taken when the form was         *)
(* submitted, so it is part of the invariant.                              *)
(***************************************************************************)
Own == /\ url \in {file, Null}
       /\ \A c \in Calls : tasks[c] # Document!Idle => tasks[c].doc = file
       /\ posted # Null => posted.url \in {posted.file, Null}
       /\ submit # Null => submit.url \in {submit.file, Null}

OwnInv == /\ ~changed => Own
          /\ posted # Null => submit = Null

\* No step but one that changes the document lets them differ.
LEMMA OwnStep ==
    ASSUME Document!TypeOK, OwnInv, [Document!Next]_(Document!vars)
    PROVE  OwnInv'
<1>1. CASE Document!Clear
  <2>1. posted = Null /\ posted' = Null /\ url' = Null /\ UNCHANGED <<tasks, submit>>
    BY <1>1 DEF Document!Clear, Document!Reset, Document!Editing
  <2>2. ~changed' => \A c \in Calls : tasks[c] = Document!Idle
    BY <1>1 DEF Document!Clear, Document!Busy
  <2>3. ~changed' => ~changed \/ submit = Null
    BY <1>1 DEF Document!Clear
  <2> QED
    BY <2>1, <2>2, <2>3 DEF OwnInv, Own
<1>2. CASE Document!Post
  BY <1>2 DEF Document!Post, OwnInv, Own
<1>3. ASSUME NEW c \in Calls, NEW d \in Documents, Document!Choose(d, c)
      PROVE  OwnInv'
  <2>1. posted = Null /\ posted' = Null /\ url' = Null /\ file' = d /\ UNCHANGED submit
    BY <1>3 DEF Document!Choose, Document!Reset, Document!Editing
  <2>2. ~changed' => \A b \in Calls : tasks[b] = Document!Idle
    BY <1>3 DEF Document!Choose, Document!Busy
  <2>3. ~changed' => ~changed \/ submit = Null
    BY <1>3 DEF Document!Choose
  <2>4. ~changed' => \A b \in Calls : tasks'[b] # Document!Idle => tasks'[b].doc = d
    BY <1>3, <2>2, CallType DEF Document!Choose, Document!TypeOK
  <2> QED
    BY <2>1, <2>3, <2>4 DEF OwnInv, Own
<1>4. ASSUME NEW c \in Calls, NEW d \in Calls, Document!PressScan(c, d)
      PROVE  OwnInv'
  <2>1. file \in Documents /\ url' \in {url, Null}
    BY <1>4 DEF Document!PressScan, Document!TypeOK
  <2>2. \A b \in Calls : tasks'[b] = tasks[b] \/ tasks'[b].doc = file
    BY <1>4, <2>1, CallType DEF Document!PressScan, Document!TypeOK
  <2>3. UNCHANGED <<file, submit, posted, changed>>
    BY <1>4 DEF Document!PressScan
  <2> QED
    BY <2>1, <2>2, <2>3 DEF OwnInv, Own
<1>5. ASSUME NEW c \in Calls, Document!UploadEnds(c)
      PROVE  OwnInv'
  <2>1. tasks[c] # Document!Idle
    BY <1>5, BusyType DEF Document!UploadEnds
  <2>2. /\ submit # Null => submit \in Document!Submissions
        /\ UNCHANGED <<file, posted, changed>> /\ tasks' = [tasks EXCEPT ![c] = Document!Idle]
    BY <1>5 DEF Document!UploadEnds, Document!TypeOK
  <2>3. /\ submit # Null => submit'.url = submit.url /\ submit'.file = submit.file
        /\ submit = Null => submit' = Null
        /\ url' \in {url, tasks[c].doc}
    BY <1>5, <2>2, UploadSubmit
  <2>4. \A b \in Calls : tasks'[b] = Document!Idle \/ tasks'[b] = tasks[b]
    BY <2>2 DEF Document!TypeOK
  <2> QED
    BY <2>1, <2>2, <2>3, <2>4 DEF OwnInv, Own
<1>6. ASSUME NEW c \in Calls, Document!ScanEnds(c)
      PROVE  OwnInv'
  <2>1. \A b \in Calls : tasks'[b] = Document!Idle \/ tasks'[b] = tasks[b]
    BY <1>6 DEF Document!ScanEnds, Document!TypeOK
  <2>2. UNCHANGED <<file, url, submit, posted, changed>>
    BY <1>6 DEF Document!ScanEnds
  <2> QED
    BY <2>1, <2>2 DEF OwnInv, Own
<1>7. ASSUME NEW c \in Calls, Document!Submit(c)
      PROVE  OwnInv'
  <2>1. /\ submit'.url = url /\ submit'.file = file
        /\ tasks' = tasks \/ (file \in Documents /\ tasks' = [tasks EXCEPT ![c] = Document!Upload(file)])
    BY <1>7, SubmitSubmit
  <2>2. \A b \in Calls : tasks'[b] = tasks[b] \/ tasks'[b].doc = file
    BY <2>1, CallType DEF Document!TypeOK
  <2>3. posted = Null /\ UNCHANGED <<file, url, posted, changed>>
    BY <1>7 DEF Document!Submit, Document!Editing
  <2> QED
    BY <2>1, <2>2, <2>3 DEF OwnInv, Own
<1>8. CASE UNCHANGED Document!vars
  BY <1>8 DEF Document!vars, OwnInv, Own
<1> QED
  BY <1>1, <1>2, <1>3, <1>4, <1>5, <1>6, <1>7, <1>8 DEF Document!Next

(***************************************************************************)
(* The path held and posted, and what is uploaded and scanned, are of the  *)
(* chosen document, unless it was changed while a call was under way.      *)
(***************************************************************************)
LEMMA DocumentOwn == Document!Spec => []Document!OwnDocument
<1>1. Document!Init => OwnInv
  BY DEF Document!Init, OwnInv, Own
<1>2. Document!TypeOK /\ OwnInv /\ [Document!Next]_(Document!vars) => OwnInv'
  BY OwnStep
<1>3. OwnInv => Document!OwnDocument
  BY DEF OwnInv, Own, Document!OwnDocument
<1> QED
  BY <1>1, <1>2, <1>3, DocumentTyped, PTL DEF Document!Spec

-----------------------------------------------------------------------------
(* The photos, the draft and the submission: ListingForm *)

\* Photos being checked are photos.
LEMMA ChecksType ==
    ASSUME Gallery!TypeOK
    PROVE  Gallery!Checked \subseteq Photos
BY DEF Gallery!TypeOK, Gallery!Checked

\* A request, and what its steps make of it.
LEMMA RequestType ==
    ASSUME NEW stage \in {"upload", "send", "done", "clear"}, NEW e \in SUBSET Photos,
           NEW c \in SUBSET Photos
    PROVE  [at |-> stage, existing |-> e, cropped |-> c] \in Gallery!Requests
BY DEF Gallery!Requests

LEMMA RequestMoves ==
    ASSUME NEW r \in Gallery!Requests, NEW stage \in {"upload", "send", "done", "clear"}
    PROVE  /\ [r EXCEPT !.at = stage] \in Gallery!Requests /\ [r EXCEPT !.at = stage].at = stage
           /\ Gallery!Payload([r EXCEPT !.at = stage]) = Gallery!Payload(r)
           /\ [r EXCEPT !.at = stage, !.cropped = {}] \in Gallery!Requests
           /\ [r EXCEPT !.at = stage, !.cropped = {}].at = stage
           /\ Gallery!Payload([r EXCEPT !.at = stage, !.cropped = {}]) \subseteq Gallery!Payload(r)
           /\ Gallery!Payload(r) \subseteq Photos
BY DEF Gallery!Requests, Gallery!Payload

\* Types are kept, one action at a time.
LEMMA PhotosTyped ==
    ASSUME Gallery!TypeOK, [Gallery!Next]_(Gallery!vars)
    PROVE  Gallery!TypeOK'
<1>1. CASE Gallery!DraftLoaded(Gallery!Restored) \/ Gallery!DraftLoaded(local)
  <2>1. PICK d \in (SUBSET Photos) \cup {Null} : Gallery!DraftLoaded(d)
    BY <1>1 DEF Gallery!Restored, Gallery!TypeOK
  <2>2. existing' \subseteq Photos /\ wanted' \subseteq Photos /\ lost' \in BOOLEAN
    BY <2>1 DEF Gallery!DraftLoaded, Gallery!TypeOK
  <2> QED
    BY <2>1, <2>2 DEF Gallery!DraftLoaded, Gallery!TypeOK, Gallery!calls, Gallery!server
<1>2. ASSUME NEW b \in Batches, NEW ps \in SUBSET Photos, Gallery!Pick(b, ps)
      PROVE  Gallery!TypeOK'
  BY <1>2 DEF Gallery!Pick, Gallery!TypeOK, Gallery!calls, Gallery!server
<1>3. ASSUME NEW b \in Batches, NEW ps \in SUBSET Photos, Gallery!PickChecked(b, ps)
      PROVE  Gallery!TypeOK'
  <2>1. lost' \in BOOLEAN /\ pending' \subseteq Photos /\ wanted' \subseteq Photos
    BY <1>3 DEF Gallery!PickChecked, Gallery!TypeOK
  <2> QED
    BY <1>3, <2>1 DEF Gallery!PickChecked, Gallery!TypeOK, Gallery!calls, Gallery!server
<1>4. CASE Gallery!CropStart \/ Gallery!CropCancel
  <2>1. cropping' \subseteq Photos /\ pending' \subseteq Photos /\ wanted' \subseteq Photos
    BY <1>4 DEF Gallery!CropStart, Gallery!CropCancel, Gallery!TypeOK, Gallery!history
  <2>2. UNCHANGED <<existing, cropped, batches, loading, Gallery!calls, Gallery!server, lost, again, created>>
    BY <1>4 DEF Gallery!CropStart, Gallery!CropCancel, Gallery!history
  <2> QED
    BY <2>1, <2>2 DEF Gallery!TypeOK, Gallery!calls, Gallery!server
<1>5. CASE Gallery!CropDone \/ Gallery!CropFailed
  <2>1. lost' \in BOOLEAN
    BY <1>5 DEF Gallery!CropDone, Gallery!CropFailed
  <2>2. /\ cropped' \subseteq Photos /\ cropping' \subseteq Photos
        /\ pending' \subseteq Photos /\ existing' \subseteq Photos
    BY <1>5 DEF Gallery!CropDone, Gallery!CropAdds, Gallery!CropFailed, Gallery!TypeOK
  <2>3. UNCHANGED <<batches, loading, Gallery!calls, Gallery!server, wanted, again, created>>
    BY <1>5 DEF Gallery!CropDone, Gallery!CropFailed
  <2> QED
    BY <2>1, <2>2, <2>3 DEF Gallery!TypeOK, Gallery!calls, Gallery!server
<1>6. ASSUME NEW p \in Photos, Gallery!Remove(p)
      PROVE  Gallery!TypeOK'
  <2>1. lost' \in BOOLEAN
    BY <1>6 DEF Gallery!Remove
  <2> QED
    BY <1>6, <2>1 DEF Gallery!Remove, Gallery!TypeOK, Gallery!calls, Gallery!server
<1>7. CASE Gallery!SaveStart
  <2>1. lost' \in BOOLEAN /\ storing' \in Gallery!Requests /\ local' \in (SUBSET Photos) \cup {Null}
    BY <1>7, RequestType DEF Gallery!SaveStart, Gallery!TypeOK
  <2> QED
    BY <1>7, <2>1 DEF Gallery!SaveStart, Gallery!TypeOK, Gallery!form
<1>8. CASE Gallery!SaveUploaded \/ Gallery!SaveServed \/ Gallery!SaveAnswered \/ Gallery!SaveFailed
  <2>1. storing \in Gallery!Requests
    BY <1>8 DEF Gallery!SaveUploaded, Gallery!SaveServed, Gallery!SaveAnswered, Gallery!SaveFailed,
       Gallery!TypeOK
  <2>2. CASE Gallery!SaveUploaded
    BY <2>1, <2>2, RequestMoves DEF Gallery!SaveUploaded, Gallery!TypeOK, Gallery!form, Gallery!history
  <2>3. CASE Gallery!SaveServed
    BY <2>1, <2>3, RequestMoves DEF Gallery!SaveServed, Gallery!TypeOK, Gallery!form, Gallery!history
  <2>4. CASE Gallery!SaveAnswered
    BY <2>1, <2>4, RequestMoves DEF Gallery!SaveAnswered, Gallery!Kept, Gallery!TypeOK, Gallery!server,
       Gallery!history
  <2>5. CASE Gallery!SaveFailed
    BY <2>5 DEF Gallery!SaveFailed, Gallery!TypeOK, Gallery!form, Gallery!server, Gallery!history
  <2> QED
    BY <1>8, <2>2, <2>3, <2>4, <2>5
<1>9. CASE Gallery!SubmitStart
  <2>1. again' \in BOOLEAN /\ sending' \in Gallery!Requests
    BY <1>9, RequestType DEF Gallery!SubmitStart, Gallery!TypeOK
  <2> QED
    BY <1>9, <2>1 DEF Gallery!SubmitStart, Gallery!TypeOK, Gallery!form, Gallery!server
<1>10. CASE Gallery!SubmitUploaded \/ Gallery!SubmitUploadFailed \/ Gallery!SubmitAnswered
  <2>1. sending \in Gallery!Requests
    BY <1>10 DEF Gallery!SubmitUploaded, Gallery!SubmitUploadFailed, Gallery!SubmitAnswered,
       Gallery!TypeOK
  <2>2. sending' \in Gallery!Requests \cup {Null}
    BY <1>10, <2>1, RequestMoves DEF Gallery!SubmitUploaded, Gallery!SubmitUploadFailed,
       Gallery!SubmitAnswered
  <2>3. UNCHANGED <<Gallery!form, storing, success, draft, listings, Gallery!history>>
    BY <1>10 DEF Gallery!SubmitUploaded, Gallery!SubmitUploadFailed, Gallery!SubmitAnswered,
       Gallery!server
  <2>4. local' \in (SUBSET Photos) \cup {Null}
    BY <1>10 DEF Gallery!SubmitUploaded, Gallery!SubmitUploadFailed, Gallery!SubmitAnswered,
       Gallery!server, Gallery!TypeOK
  <2> QED
    BY <2>2, <2>3, <2>4 DEF Gallery!TypeOK, Gallery!form, Gallery!history
<1>11. CASE Gallery!SubmitServed
  <2>1. sending \in Gallery!Requests
    BY <1>11 DEF Gallery!SubmitServed, Gallery!TypeOK
  <2>2. sending' \in Gallery!Requests /\ created' \subseteq Photos
    BY <1>11, <2>1, RequestMoves DEF Gallery!SubmitServed, Gallery!Payload
  <2>3. listings' \in [Photos -> 0 .. 2]
    <3> DEFINE ps == sending.existing \cup sending.cropped
    <3>1. /\ listings' = [p \in Photos |-> IF p \in ps THEN listings[p] + 1 ELSE listings[p]]
          /\ \A p \in ps : listings[p] < 2
      BY <1>11 DEF Gallery!SubmitServed
    <3> HIDE DEF ps
    <3>2. \A p \in Photos : listings[p] \in 0 .. 2
      BY DEF Gallery!TypeOK
    <3>3. \A n \in 0 .. 2 : n < 2 => n + 1 \in 0 .. 2
      OBVIOUS
    <3> QED
      BY <3>1, <3>2, <3>3
  <2> QED
    BY <1>11, <2>2, <2>3 DEF Gallery!SubmitServed, Gallery!TypeOK, Gallery!form
<1>12. CASE Gallery!SubmitFailed
  <2>1. again' \in BOOLEAN
    BY <1>12 DEF Gallery!SubmitFailed
  <2> QED
    BY <1>12, <2>1 DEF Gallery!SubmitFailed, Gallery!TypeOK, Gallery!form, Gallery!server
<1>13. ASSUME NEW deleted \in BOOLEAN, Gallery!DraftDeleted(deleted)
       PROVE  Gallery!TypeOK'
  <2>1. again' \in BOOLEAN /\ draft' \in (SUBSET Photos) \cup {Null}
    BY <1>13 DEF Gallery!DraftDeleted, Gallery!DraftCleared, Gallery!TypeOK
  <2> QED
    BY <1>13, <2>1 DEF Gallery!DraftDeleted, Gallery!TypeOK, Gallery!form
<1>14. CASE Gallery!Open
  <2>1. again' \in BOOLEAN
    BY <1>14 DEF Gallery!Open
  <2> QED
    BY <1>14, <2>1 DEF Gallery!Open, Gallery!TypeOK, Gallery!server
<1>15. CASE UNCHANGED Gallery!vars
  BY <1>15 DEF Gallery!vars, Gallery!form, Gallery!calls, Gallery!server, Gallery!history,
     Gallery!TypeOK
<1> QED
  BY <1>1, <1>2, <1>3, <1>4, <1>5, <1>6, <1>7, <1>8, <1>9, <1>10, <1>11, <1>12, <1>13, <1>14,
     <1>15 DEF Gallery!Next

\* What PhotosKept needs: the photos being cropped are those the cropper
\* shows, and a save that will replace the list of URLs has every photo.
KeptInv ==
    lost \/
    /\ wanted \subseteq Gallery!Held
    /\ cropping = {} \/ cropping = pending
    /\ storing # Null /\ storing.cropped # {} => existing \cup cropped \subseteq Gallery!Payload(storing)

\* A submission that was served and has not ended.
Ending == sending # Null /\ sending.at \in {"done", "clear"}

\* A photo that is listed is nowhere from where it could be submitted again.
Gone(p) ==
    /\ p \notin Gallery!Held
    /\ draft # Null => p \notin draft
    /\ local # Null => p \notin local
    /\ storing # Null => p \notin Gallery!Payload(storing)
    /\ sending # Null => p \notin Gallery!Payload(sending)

\* What PostedOnce needs: a photo that is listed is gone from everywhere, unless
\* its submission is ending or has ended with success.  Then no save is under way
\* and, at the end, no draft is left to restore it from.
PostedInv ==
    again \/
    /\ sending # Null => storing = Null
    /\ sending # Null /\ sending.at = "clear" => local = Null
    /\ success => sending = Null /\ storing = Null /\ draft = Null /\ local = Null
    /\ \A p \in Photos : /\ listings[p] <= 1
                         /\ listings[p] = 0 \/ Ending \/ success \/ Gone(p)

\* What a pick and the end of its checks change among the photos in checks.
LEMMA ChecksMove ==
    ASSUME Gallery!TypeOK, NEW b \in Batches, NEW ps \in SUBSET Photos,
           batches' = [batches EXCEPT ![b] = ps]
    PROVE  /\ Gallery!Checked' \subseteq Gallery!Checked \cup ps
           /\ Gallery!Checked \subseteq Gallery!Checked' \cup batches[b]
           /\ ps \subseteq Gallery!Checked'
<1>1. DOMAIN batches = Batches /\ DOMAIN batches' = Batches
  BY DEF Gallery!TypeOK
<1>2. batches'[b] = ps /\ \A c \in Batches \ {b} : batches'[c] = batches[c]
  BY <1>1
<1> QED
  BY <1>1, <1>2 DEF Gallery!Checked

\* The photos of the form are what these variables say.
LEMMA HeldKept ==
    ASSUME UNCHANGED <<existing, cropped, pending, cropping, batches>>
    PROVE  Gallery!Held' = Gallery!Held
BY DEF Gallery!Held, Gallery!Checked

\* No step loses a photo but by an overlap, which it notes.
LEMMA KeptStep ==
    ASSUME Gallery!TypeOK, KeptInv, [Gallery!Next]_(Gallery!vars)
    PROVE  KeptInv'
<1>0. CASE lost' = TRUE
  BY <1>0 DEF KeptInv
<1>1. CASE lost = TRUE
  BY <1>0, <1>1 DEF Gallery!Next, Gallery!vars, Gallery!form, Gallery!calls, Gallery!server,
     Gallery!history, Gallery!DraftLoaded, Gallery!Pick, Gallery!PickChecked, Gallery!CropStart,
     Gallery!CropDone, Gallery!CropFailed, Gallery!CropCancel, Gallery!Remove, Gallery!SaveStart,
     Gallery!SaveUploaded, Gallery!SaveServed, Gallery!SaveAnswered,
     Gallery!SaveFailed, Gallery!SubmitStart, Gallery!SubmitUploaded, Gallery!SubmitUploadFailed,
     Gallery!SubmitServed, Gallery!SubmitAnswered,
     Gallery!SubmitFailed, Gallery!DraftDeleted, Gallery!Open, Gallery!Held, Gallery!Checked, KeptInv
<1>2. CASE lost = FALSE /\ lost' = FALSE
  <2>0. /\ wanted \subseteq Gallery!Held
        /\ cropping = {} \/ cropping = pending
        /\ storing # Null /\ storing.cropped # {} => existing \cup cropped \subseteq Gallery!Payload(storing)
    BY <1>2 DEF KeptInv
  <2>1. CASE UNCHANGED <<existing, cropped, pending, cropping, batches, storing, wanted>>
    BY <2>0, <2>1, HeldKept DEF KeptInv, Gallery!Payload
  <2>2. CASE UNCHANGED <<existing, cropped, pending, cropping, batches, wanted>>
             /\ (storing' # Null => storing # Null /\ storing'.cropped = storing.cropped
                                   /\ Gallery!Payload(storing)' = Gallery!Payload(storing))
    BY <2>0, <2>2, HeldKept DEF KeptInv
  <2>3. CASE Gallery!DraftLoaded(Gallery!Restored) \/ Gallery!DraftLoaded(local)
    <3>1. PICK d : Gallery!DraftLoaded(d)
      BY <2>3
    <3>2. storing' = Null /\ (existing = {} \/ d = Null)
      BY <1>2, <3>1 DEF Gallery!DraftLoaded, Gallery!calls
    <3>3. UNCHANGED <<cropped, pending, cropping, batches>>
      BY <3>1 DEF Gallery!DraftLoaded
    <3>4. wanted' \subseteq Gallery!Held'
      BY <2>0, <3>1, <3>2, <3>3 DEF Gallery!DraftLoaded, Gallery!Held, Gallery!Checked
    <3> QED
      BY <2>0, <3>2, <3>3, <3>4 DEF KeptInv
  <2>4. ASSUME NEW b \in Batches, NEW ps \in SUBSET Photos, Gallery!Pick(b, ps)
        PROVE  KeptInv'
    <3>1. Gallery!Checked \subseteq Gallery!Checked' /\ ps \subseteq Gallery!Checked'
      BY <2>4, ChecksMove DEF Gallery!Pick
    <3>2. wanted' = wanted \cup ps /\ UNCHANGED <<existing, cropped, pending, cropping, storing>>
      BY <2>4 DEF Gallery!Pick, Gallery!calls
    <3> QED
      BY <2>0, <3>1, <3>2 DEF KeptInv, Gallery!Held, Gallery!Payload
  <2>5. ASSUME NEW b \in Batches, NEW clean \in SUBSET Photos, Gallery!PickChecked(b, clean)
        PROVE  KeptInv'
    <3>1. Gallery!Checked \subseteq Gallery!Checked' \cup batches[b]
      BY <2>5, {} \in SUBSET Photos, ChecksMove DEF Gallery!PickChecked
    <3>2. /\ wanted' = wanted \ (batches[b] \ clean)
          /\ UNCHANGED <<existing, cropped, cropping, storing>>
          /\ \/ clean = {} /\ pending' = pending
             \/ pending = {} /\ pending' = clean
      BY <1>2, <2>5 DEF Gallery!PickChecked, Gallery!calls
    <3>3. pending \cup clean \subseteq pending' /\ (cropping' = {} \/ cropping' = pending')
      BY <2>0, <3>2
    <3>4. wanted' \subseteq Gallery!Held'
      BY <2>0, <3>1, <3>2, <3>3 DEF Gallery!Held
    <3> QED
      BY <2>0, <3>2, <3>3, <3>4 DEF KeptInv, Gallery!Payload
  <2>6. CASE Gallery!CropStart
    BY <2>0, <2>6 DEF Gallery!CropStart, KeptInv, Gallery!Held, Gallery!Checked, Gallery!Payload,
       Gallery!calls, Gallery!history
  <2>7. CASE Gallery!CropDone \/ Gallery!CropFailed
    <3>1. pending = cropping /\ cropping' = {} /\ batches' = batches /\ wanted' = wanted
      BY <1>2, <2>7 DEF Gallery!CropDone, Gallery!CropFailed
    <3>2. CASE Gallery!CropDone
      <4>1. storing' = Null /\ cropped' = cropped \cup cropping /\ existing' = existing
        BY <1>2, <3>2 DEF Gallery!CropDone, Gallery!CropAdds, Gallery!calls
      <4> QED
        BY <2>0, <3>1, <4>1 DEF KeptInv, Gallery!Held, Gallery!Checked
    <3>3. CASE Gallery!CropFailed
      BY <2>0, <3>1, <3>3 DEF Gallery!CropFailed, KeptInv, Gallery!Held, Gallery!Checked,
         Gallery!Payload, Gallery!calls
    <3> QED
      BY <2>7, <3>2, <3>3
  <2>8. CASE Gallery!CropCancel
    BY <2>0, <2>8 DEF Gallery!CropCancel, KeptInv, Gallery!Held, Gallery!Checked, Gallery!Payload,
       Gallery!calls
  <2>9. ASSUME NEW p \in Photos, Gallery!Remove(p)
        PROVE  KeptInv'
    <3>1. storing' = Null
      BY <1>2, <2>9 DEF Gallery!Remove, Gallery!calls
    <3> QED
      BY <2>0, <2>9, <3>1 DEF Gallery!Remove, KeptInv, Gallery!Held, Gallery!Checked
  <2>10. CASE Gallery!SaveStart
    <3>1. storing'.existing = existing /\ storing'.cropped = cropped
      BY <2>10 DEF Gallery!SaveStart
    <3>2. UNCHANGED <<existing, cropped, pending, cropping, batches, wanted>>
      BY <2>10 DEF Gallery!SaveStart, Gallery!form
    <3> QED
      BY <2>0, <3>1, <3>2, HeldKept DEF KeptInv, Gallery!Payload
  <2>11. CASE Gallery!SaveUploaded \/ Gallery!SaveServed \/ Gallery!SaveFailed
    <3>1. storing \in Gallery!Requests
      BY <2>11 DEF Gallery!SaveUploaded, Gallery!SaveServed, Gallery!SaveFailed, Gallery!TypeOK
    <3>2. storing' # Null => storing # Null /\ storing'.cropped = storing.cropped
                            /\ Gallery!Payload(storing)' = Gallery!Payload(storing)
      BY <2>11, <3>1 DEF Gallery!SaveUploaded, Gallery!SaveServed, Gallery!SaveFailed, Gallery!Payload,
         Gallery!Requests
    <3> QED
      BY <2>2, <2>11, <3>2 DEF Gallery!SaveUploaded, Gallery!SaveServed, Gallery!SaveFailed,
         Gallery!form, Gallery!history
  <2>12. CASE Gallery!SaveAnswered
    <3>1. storing' = Null /\ UNCHANGED <<pending, cropping, batches, wanted>>
      BY <2>12 DEF Gallery!SaveAnswered, Gallery!history
    <3>2. existing \cup cropped \subseteq existing' \cup cropped'
      BY <2>0, <2>12 DEF Gallery!SaveAnswered, Gallery!Kept
    <3> QED
      BY <2>0, <3>1, <3>2 DEF KeptInv, Gallery!Held, Gallery!Checked
  <2>13. CASE \/ Gallery!SubmitStart \/ Gallery!SubmitUploaded \/ Gallery!SubmitUploadFailed \/ Gallery!SubmitServed
              \/ Gallery!SubmitAnswered \/ Gallery!SubmitFailed
    BY <2>1, <2>13 DEF Gallery!SubmitStart, Gallery!SubmitUploaded, Gallery!SubmitUploadFailed,
       Gallery!SubmitServed, Gallery!SubmitAnswered,
       Gallery!SubmitFailed, Gallery!form, Gallery!history
  <2>14. ASSUME NEW deleted \in BOOLEAN, Gallery!DraftDeleted(deleted)
         PROVE  KeptInv'
    BY <2>1, <2>14 DEF Gallery!DraftDeleted, Gallery!form
  <2>15. CASE Gallery!Open
    BY <2>15 DEF Gallery!Open, KeptInv
  <2>16. CASE UNCHANGED Gallery!vars
    BY <2>1, <2>16 DEF Gallery!vars, Gallery!form, Gallery!calls, Gallery!history
  <2> QED
    BY <2>3, <2>4, <2>5, <2>6, <2>7, <2>8, <2>9, <2>10, <2>11, <2>12, <2>13, <2>14, <2>15, <2>16
       DEF Gallery!Next
<1> QED
  BY <1>0, <1>1, <1>2, PhotosTyped DEF Gallery!TypeOK

\* No step brings back a photo that is listed but by a way that it notes.
LEMMA PostedStep ==
    ASSUME Gallery!TypeOK, Gallery!TypeOK', PostedInv, [Gallery!Next]_(Gallery!vars)
    PROVE  PostedInv'
<1>0. CASE again' = TRUE
  BY <1>0 DEF PostedInv
<1>1. again = TRUE => again' = TRUE
  BY DEF Gallery!Next, Gallery!vars, Gallery!form, Gallery!calls, Gallery!server, Gallery!history,
     Gallery!DraftLoaded, Gallery!Pick, Gallery!PickChecked, Gallery!CropStart,
     Gallery!CropDone, Gallery!CropFailed, Gallery!CropCancel, Gallery!Remove, Gallery!SaveStart,
     Gallery!SaveUploaded, Gallery!SaveServed, Gallery!SaveAnswered,
     Gallery!SaveFailed, Gallery!SubmitStart, Gallery!SubmitUploaded, Gallery!SubmitUploadFailed,
     Gallery!SubmitServed, Gallery!SubmitAnswered,
     Gallery!SubmitFailed, Gallery!DraftDeleted, Gallery!Open
<1>2. CASE again = FALSE /\ again' = FALSE
  <2>0. /\ sending # Null => storing = Null
        /\ sending # Null /\ sending.at = "clear" => local = Null
        /\ success => sending = Null /\ storing = Null /\ draft = Null /\ local = Null
        /\ \A p \in Photos : listings[p] <= 1 /\ (listings[p] = 0 \/ Ending \/ success \/ Gone(p))
    BY <1>2 DEF PostedInv
  \* Steps of the photos: no photo enters the form but a fresh one.
  <2>1. ASSUME UNCHANGED <<Gallery!calls, Gallery!server>>,
               \A p \in Photos : p \in Gallery!Held' => p \in Gallery!Held \/ listings[p] = 0
                                  \/ (draft # Null /\ p \in draft) \/ (local # Null /\ p \in local)
        PROVE  PostedInv'
    <3>1. ASSUME NEW p \in Photos
          PROVE  listings'[p] <= 1 /\ (listings'[p] = 0 \/ Ending' \/ success' \/ Gone(p)')
      <4>1. Gone(p) /\ listings[p] # 0 => Gone(p)'
        BY <2>1 DEF Gone, Gallery!calls, Gallery!server, Gallery!Payload
      <4> QED
        BY <2>0, <2>1, <4>1 DEF Gallery!calls, Gallery!server, Ending
    <3> QED
      BY <2>0, <2>1, <3>1 DEF PostedInv, Gone, Gallery!calls, Gallery!server
  <2>2. CASE Gallery!DraftLoaded(Gallery!Restored) \/ Gallery!DraftLoaded(local)
    <3>1. PICK d : Gallery!DraftLoaded(d) /\ (d = draft \/ d = local)
      BY <2>2 DEF Gallery!Restored
    <3>2. \A p \in Photos : p \in Gallery!Held' => p \in Gallery!Held \/ (d # Null /\ p \in d)
      BY <3>1 DEF Gallery!DraftLoaded, Gallery!Held, Gallery!Checked
    <3>3. UNCHANGED <<Gallery!calls, Gallery!server>>
      BY <3>1 DEF Gallery!DraftLoaded
    <3> QED
      BY <2>1, <3>1, <3>2, <3>3
  <2>3. ASSUME NEW b \in Batches, NEW ps \in SUBSET Photos, Gallery!Pick(b, ps)
        PROVE  PostedInv'
    <3>1. Gallery!Checked' \subseteq Gallery!Checked \cup ps /\ \A p \in ps : listings[p] = 0
      BY <2>3, ChecksMove DEF Gallery!Pick, Gallery!Fresh
    <3>2. UNCHANGED <<existing, cropped, pending, cropping, Gallery!calls, Gallery!server>>
      BY <2>3 DEF Gallery!Pick
    <3> QED
      BY <2>1, <3>1, <3>2 DEF Gallery!Held
  <2>4. ASSUME NEW b \in Batches, NEW clean \in SUBSET Photos, Gallery!PickChecked(b, clean)
        PROVE  PostedInv'
    <3>1. Gallery!Checked' \subseteq Gallery!Checked
      BY <2>4, {} \in SUBSET Photos, ChecksMove DEF Gallery!PickChecked
    <3>2. clean \subseteq Gallery!Checked
      BY <2>4 DEF Gallery!PickChecked, Gallery!Checked, Gallery!TypeOK
    <3>3. UNCHANGED <<existing, cropped, cropping, Gallery!calls,
    Gallery!server>> /\ pending' \subseteq pending \cup clean
      BY <2>4 DEF Gallery!PickChecked
    <3> QED
      BY <2>1, <3>1, <3>2, <3>3 DEF Gallery!Held
  <2>5. CASE Gallery!CropStart \/ Gallery!CropDone \/ Gallery!CropFailed \/ Gallery!CropCancel
    <3>1. UNCHANGED <<Gallery!calls, Gallery!server, batches, existing>>
      BY <2>5 DEF Gallery!CropStart, Gallery!CropDone, Gallery!CropFailed, Gallery!CropCancel
    <3>2. /\ cropped' \subseteq cropped \cup cropping /\ pending' \subseteq pending
          /\ cropping' \subseteq cropping \cup pending
      BY <2>5 DEF Gallery!CropStart, Gallery!CropDone, Gallery!CropAdds, Gallery!CropFailed,
         Gallery!CropCancel
    <3> QED
      BY <2>1, <3>1, <3>2 DEF Gallery!Held, Gallery!Checked
  <2>6. ASSUME NEW p \in Photos, Gallery!Remove(p)
        PROVE  PostedInv'
    BY <2>1, <2>6 DEF Gallery!Remove, Gallery!Held, Gallery!Checked
  \* Steps of a save: what it sends and stores is of the form.
  <2>7. ASSUME UNCHANGED <<sending, success, listings>>, sending = Null, ~success,
               Gallery!Held' \subseteq Gallery!Held \cup (IF storing = Null THEN {} ELSE Gallery!Payload(storing)),
               draft' = draft \/ (storing # Null /\ draft' = Gallery!Payload(storing)),
               \/ local' = local \/ local' \subseteq Gallery!Held
               \/ storing # Null /\ local' = Gallery!Payload(storing),
               storing' # Null => \/ Gallery!Payload(storing)' \subseteq Gallery!Held
                                  \/ storing # Null /\ Gallery!Payload(storing)' = Gallery!Payload(storing)
        PROVE  PostedInv'
    <3>1. ASSUME NEW p \in Photos
          PROVE  listings'[p] <= 1 /\ (listings'[p] = 0 \/ Ending' \/ success' \/ Gone(p)')
      <4>1. listings[p] <= 1 /\ (listings[p] = 0 \/ Gone(p))
        BY <2>0, <2>7 DEF Ending
      <4>2. Gone(p) => Gone(p)'
        BY <2>7 DEF Gone
      <4> QED
        BY <2>7, <4>1, <4>2
    <3> QED
      BY <2>7, <3>1 DEF PostedInv
  <2>8. CASE Gallery!SaveStart
    <3>1. sending = Null /\ ~success /\ storing = Null
      BY <2>8 DEF Gallery!SaveStart, Gallery!Reachable
    <3>2. storing'.existing = existing /\ storing'.cropped = cropped
      BY <2>8 DEF Gallery!SaveStart
    <3>3. Gallery!Payload(storing)' \subseteq Gallery!Held
      BY <3>2 DEF Gallery!Payload, Gallery!Held
    <3>4. UNCHANGED <<sending, success, listings, draft>> /\ Gallery!Held' = Gallery!Held
      BY <2>8, HeldKept DEF Gallery!SaveStart, Gallery!form
    <3>5. local' = local \/ local' \subseteq Gallery!Held
      BY <2>8 DEF Gallery!SaveStart, Gallery!Held
    <3> QED
      BY <2>7, <3>1, <3>3, <3>4, <3>5
  <2>9. CASE Gallery!SaveUploaded \/ Gallery!SaveServed \/ Gallery!SaveAnswered \/ Gallery!SaveFailed
    <3>1. storing \in Gallery!Requests /\ storing # Null
      BY <2>9 DEF Gallery!SaveUploaded, Gallery!SaveServed, Gallery!SaveAnswered, Gallery!SaveFailed,
         Gallery!TypeOK
    <3>2. sending = Null /\ ~success
      BY <2>0, <3>1
    <3>3. UNCHANGED <<sending, success, listings>>
      BY <2>9 DEF Gallery!SaveUploaded, Gallery!SaveServed, Gallery!SaveAnswered, Gallery!SaveFailed,
         Gallery!server
    <3>4. storing' # Null => Gallery!Payload(storing)' = Gallery!Payload(storing)
      BY <2>9, <3>1 DEF Gallery!SaveUploaded, Gallery!SaveServed, Gallery!SaveAnswered,
         Gallery!SaveFailed, Gallery!Payload, Gallery!Requests
    <3>5. Gallery!Held' \subseteq Gallery!Held \cup Gallery!Payload(storing)
      <4>1. CASE Gallery!SaveAnswered
        BY <4>1 DEF Gallery!SaveAnswered, Gallery!Kept, Gallery!Held, Gallery!Checked
      <4>2. CASE Gallery!SaveUploaded \/ Gallery!SaveServed \/ Gallery!SaveFailed
        BY <4>2, HeldKept DEF Gallery!SaveUploaded, Gallery!SaveServed, Gallery!SaveFailed, Gallery!form
      <4> QED
        BY <2>9, <4>1, <4>2
    <3>6. (draft' = draft \/ draft' = Gallery!Payload(storing)) /\ (local' = local \/ local' = Gallery!Payload(storing))
      BY <2>9 DEF Gallery!SaveUploaded, Gallery!SaveServed, Gallery!SaveAnswered, Gallery!SaveFailed,
         Gallery!server
    <3> QED
      BY <2>7, <3>1, <3>2, <3>3, <3>4, <3>5, <3>6
  \* Steps of a submission: the photos of the form stay as they are.
  <2>10. CASE Gallery!SubmitStart
    <3>1. sending'.existing = existing /\ sending'.cropped = cropped /\ sending'.at \in {"send", "upload"}
      BY <2>10 DEF Gallery!SubmitStart
    <3>2. storing = Null /\ sending = Null /\ ~success
      BY <1>2, <2>10 DEF Gallery!SubmitStart, Gallery!Reachable
    <3>3. UNCHANGED <<storing, success, draft, local, listings>> /\ Gallery!Held' = Gallery!Held
      BY <2>10, HeldKept DEF Gallery!SubmitStart, Gallery!form, Gallery!server
    <3>4. \A p \in Photos : Gone(p) => Gone(p)'
      BY <3>1, <3>2, <3>3 DEF Gone, Gallery!Payload, Gallery!Held
    <3>5. ~Ending
      BY <3>2 DEF Ending
    <3>6. \A p \in Photos : listings'[p] <= 1 /\ (listings'[p] = 0 \/ Gone(p)')
      BY <2>0, <3>2, <3>3, <3>4, <3>5
    <3>7. /\ sending' # Null => storing' = Null
          /\ sending' # Null /\ sending'.at = "clear" => local' = Null
          /\ ~success'
      BY <3>1, <3>2, <3>3
    <3> QED
      BY <3>6, <3>7 DEF PostedInv
  <2>11. CASE Gallery!SubmitUploaded \/ Gallery!SubmitUploadFailed
    <3>1. sending \in Gallery!Requests /\ sending # Null /\ sending.at = "upload"
      BY <2>11 DEF Gallery!SubmitUploaded, Gallery!SubmitUploadFailed, Gallery!TypeOK
    <3>2. sending' # Null => sending'.at = "send" /\ Gallery!Payload(sending)' \subseteq Gallery!Payload(sending)
      BY <2>11, <3>1 DEF Gallery!SubmitUploaded, Gallery!SubmitUploadFailed, Gallery!Payload,
         Gallery!Requests
    <3>3. UNCHANGED <<storing, success, draft, local, listings>> /\ Gallery!Held' = Gallery!Held
      BY <2>11, HeldKept DEF Gallery!SubmitUploaded, Gallery!SubmitUploadFailed, Gallery!form,
         Gallery!server
    <3>4. \A p \in Photos : Gone(p) => Gone(p)'
      BY <3>1, <3>2, <3>3 DEF Gone, Gallery!Payload
    <3>5. ~Ending /\ ~success
      BY <2>0, <3>1 DEF Ending
    <3>6. \A p \in Photos : listings'[p] <= 1 /\ (listings'[p] = 0 \/ Gone(p)')
      BY <2>0, <3>3, <3>4, <3>5
    <3>7. /\ sending' # Null => storing' = Null
          /\ sending' # Null /\ sending'.at = "clear" => local' = Null
          /\ ~success'
      BY <2>0, <3>1, <3>2, <3>3
    <3> QED
      BY <3>6, <3>7 DEF PostedInv
  <2>12. CASE Gallery!SubmitServed
    <3>1. sending \in Gallery!Requests /\ sending # Null /\ sending.at = "send"
      BY <2>12 DEF Gallery!SubmitServed, Gallery!TypeOK
    <3>2. sending' # Null /\ sending'.at = "done"
      BY <2>12, <3>1, RequestMoves, NoRequestAssumption DEF Gallery!SubmitServed
    <3>3. ~Ending /\ ~success /\ storing = Null /\ UNCHANGED <<storing, success>>
      BY <2>0, <2>12, <3>1 DEF Ending, Gallery!SubmitServed
    <3>4. \A p \in Gallery!Payload(sending) : p \in Photos /\ listings[p] = 0
      BY <2>0, <3>1, <3>3, RequestMoves DEF Gone
    <3>5. listings' = [p \in Photos |-> IF p \in Gallery!Payload(sending) THEN listings[p] + 1 ELSE listings[p]]
      BY <2>12 DEF Gallery!SubmitServed, Gallery!Payload
    <3>6. \A p \in Photos : listings'[p] <= 1
      BY <2>0, <3>4, <3>5
    <3>7. Ending'
      BY <3>2 DEF Ending
    <3> QED
      BY <3>2, <3>3, <3>6, <3>7 DEF PostedInv
  <2>13. CASE Gallery!SubmitAnswered
    <3>1. sending \in Gallery!Requests /\ sending # Null /\ sending.at = "done"
      BY <2>13 DEF Gallery!SubmitAnswered, Gallery!TypeOK
    <3>2. sending'.at = "clear" /\ sending' # Null /\ local' = Null
      BY <2>13, <3>1, RequestMoves, NoRequestAssumption DEF Gallery!SubmitAnswered
    <3>3. Ending' /\ ~success' /\ storing' = Null /\ listings' = listings
      BY <2>0, <2>13, <3>1, <3>2 DEF Gallery!SubmitAnswered, Ending
    <3> QED
      BY <2>0, <3>2, <3>3 DEF PostedInv
  <2>14. CASE Gallery!SubmitFailed
    <3>1. sending # Null /\ sending.at = "send" /\ sending' = Null
      BY <1>2, <2>14 DEF Gallery!SubmitFailed
    <3>2. UNCHANGED <<storing, success, draft, local, listings>> /\ Gallery!Held' = Gallery!Held
      BY <2>14, HeldKept DEF Gallery!SubmitFailed, Gallery!form, Gallery!server
    <3>3. \A p \in Photos : Gone(p) => Gone(p)'
      BY <3>1, <3>2 DEF Gone
    <3>4. ~Ending /\ ~success
      BY <2>0, <3>1 DEF Ending
    <3> QED
      BY <2>0, <3>1, <3>2, <3>3, <3>4 DEF PostedInv
  <2>15. ASSUME NEW deleted \in BOOLEAN, Gallery!DraftDeleted(deleted)
         PROVE  PostedInv'
    <3>1. sending # Null /\ sending.at = "clear" /\ sending' = Null /\ success' = TRUE
      BY <2>15 DEF Gallery!DraftDeleted
    <3>2. draft' = Null
      BY <1>2, <2>15 DEF Gallery!DraftDeleted, Gallery!DraftCleared
    <3>3. storing' = Null /\ local' = Null /\ listings' = listings
      BY <2>0, <2>15, <3>1 DEF Gallery!DraftDeleted
    <3> QED
      BY <2>0, <3>1, <3>2, <3>3 DEF PostedInv
  <2>16. CASE Gallery!Open
    <3>1. sending' = Null /\ storing' = Null /\ ~success' /\ UNCHANGED <<draft, local, listings>>
      BY <2>16 DEF Gallery!Open, Gallery!server
    <3>2. Gallery!Held' = {}
      BY <2>16 DEF Gallery!Open, Gallery!Held, Gallery!Checked
    <3>3. ~Ending
      BY <1>2, <2>16 DEF Gallery!Open, Ending
    <3>4. \A p \in Photos : Gone(p) \/ success => Gone(p)'
      BY <2>0, <3>1, <3>2 DEF Gone
    <3> QED
      BY <2>0, <3>1, <3>3, <3>4 DEF PostedInv
  <2>17. CASE UNCHANGED Gallery!vars
    BY <2>1, <2>17, HeldKept DEF Gallery!vars, Gallery!form
  <2> QED
    BY <2>2, <2>3, <2>4, <2>5, <2>6, <2>8, <2>9, <2>10, <2>11, <2>12, <2>13, <2>14, <2>15, <2>16,
       <2>17 DEF Gallery!Next
<1>3. again \in BOOLEAN /\ again' \in BOOLEAN
  BY DEF Gallery!TypeOK
<1> QED
  BY <1>0, <1>1, <1>2, <1>3

\* The page as it is opened first.
LEMMA GalleryStarts ==
    ASSUME Gallery!Init
    PROVE  Gallery!TypeOK /\ KeptInv /\ PostedInv
<1>1. Gallery!Held = {}
  BY DEF Gallery!Init, Gallery!Held, Gallery!Checked
<1>2. listings = [p \in Photos |-> 0] /\ 0 \in 0 .. 2
  BY DEF Gallery!Init
<1>3. Gallery!TypeOK
  BY <1>2 DEF Gallery!Init, Gallery!TypeOK
<1>4. KeptInv /\ PostedInv
  BY <1>1, <1>2 DEF Gallery!Init, KeptInv, PostedInv
<1> QED
  BY <1>3, <1>4

\* The photos, the requests and the drafts of a form keep to their types.
THEOREM GalleryTyped == Gallery!Spec => []Gallery!TypeOK
<1>1. Gallery!Init => Gallery!TypeOK
  BY GalleryStarts
<1>2. Gallery!TypeOK /\ [Gallery!Next]_(Gallery!vars) => Gallery!TypeOK'
  BY PhotosTyped
<1> QED
  BY <1>1, <1>2, PTL DEF Gallery!Spec

LEMMA NoPhotoLost == Gallery!Spec => []Gallery!PhotosKept
<1>1. Gallery!Init => KeptInv
  BY GalleryStarts
<1>2. Gallery!TypeOK /\ KeptInv /\ [Gallery!Next]_(Gallery!vars) => KeptInv'
  BY KeptStep
<1>3. KeptInv => Gallery!PhotosKept
  BY DEF KeptInv, Gallery!PhotosKept
<1> QED
  BY <1>1, <1>2, <1>3, GalleryTyped, PTL DEF Gallery!Spec

LEMMA NotPostedTwice == Gallery!Spec => []Gallery!PostedOnce
<1>1. Gallery!Init => PostedInv
  BY GalleryStarts
<1>2. Gallery!TypeOK /\ Gallery!TypeOK' /\ PostedInv /\ [Gallery!Next]_(Gallery!vars) => PostedInv'
  BY PostedStep
<1>3. PostedInv => Gallery!PostedOnce
  BY DEF PostedInv, Gallery!PostedOnce
<1> QED
  BY <1>1, <1>2, <1>3, GalleryTyped, PTL DEF Gallery!Spec

-----------------------------------------------------------------------------
(* The explore feed: ExploreFeed *)

\* ExploreFeed counts as FiniteSets does.
LEMMA ExploreCounts == ASSUME NEW S PROVE Explore!Cardinality(S) = Cardinality(S)
BY Zenon DEF Explore!Cardinality, Cardinality

\* The types the proof needs.
ExploreTypes ==
    /\ table \in Seq([Queries -> SUBSET Explore!Entries])
    /\ since \in Explore!Versions /\ asOf \in Explore!Versions
    /\ query \in Queries /\ offset \in Nat
    /\ items \in Seq(Queries \X Nat)
    /\ first \in [FirstPages -> Queries \cup {Null}]
    /\ more = Null \/ more \in [q : Queries, off : Nat, stale : BOOLEAN]
    /\ dated \in BOOLEAN /\ spoiled \in BOOLEAN /\ excused \in BOOLEAN
    /\ fetching \in BOOLEAN /\ hasMore \in BOOLEAN

\* A further page under way that nothing has overtaken is the next one of the
\* chosen query.
MoreFits ==
    more # Null /\ more.stale = FALSE =>
        more.q = query /\ more.off = offset + PageSize /\ fetching = FALSE

\* The place that a listing has in the last version read.
PlaceNow(k) == Explore!Rank(table[asOf][query], k)

\* No listing that was there at first and is up to the offset now is left out.
Gapless ==
    Explore!Grew /\ Len(items) < Cap =>
        \A k \in table[since][query] : PlaceNow(k) <= offset + PageSize => Explore!InList(k)

\* No listing is twice in the list, and each of them is up to the offset now.
Repeatless ==
    Explore!Shrank =>
        /\ \A i, j \in DOMAIN items : items[i] = items[j] => i = j
        /\ \A i \in DOMAIN items :
            /\ items[i] \in {query} \X table[since][query]
            /\ PlaceNow(items[i][2]) <= offset + PageSize

\* A list that ends has been read up to its last listing.
ReadOut == hasMore = FALSE => \A k \in table[asOf][query] : PlaceNow(k) <= offset + PageSize

\* What NoneLeftOut and NoneTwice need.
FeedInv ==
    /\ fetching = TRUE => Explore!Asked
    /\ MoreFits
    /\ spoiled = FALSE /\ dated = FALSE /\ fetching = FALSE =>
        /\ since <= asOf
        /\ excused = FALSE => Gapless /\ ReadOut
        /\ Repeatless

\* Listings are finitely many, and so are those up to one of them.
LEMMA RankType ==
    ASSUME NEW S \in SUBSET Explore!Entries, NEW k \in Nat
    PROVE  /\ IsFiniteSet(S) /\ Cardinality(S) \in Nat
           /\ IsFiniteSet({j \in S : j <= k})
           /\ Explore!Rank(S, k) = Cardinality({j \in S : j <= k})
           /\ Explore!Rank(S, k) \in Nat /\ Explore!Rank(S, k) <= Cardinality(S)
<1> DEFINE below == {j \in S : j <= k}
<1>1. IsFiniteSet(Explore!Entries)
  <2>1. 1 \in Int /\ MaxRows \in Int
    BY FeedAssumption
  <2> QED
    BY <2>1, FS_Interval DEF Explore!Entries
<1>2. IsFiniteSet(S)
  BY <1>1, FS_Subset
<1>3. below \in SUBSET S
  OBVIOUS
<1>4. IsFiniteSet(below) /\ Cardinality(below) <= Cardinality(S)
  BY <1>2, <1>3, FS_Subset
<1>5. Explore!Rank(S, k) = Cardinality(below)
  BY ExploreCounts DEF Explore!Rank
<1>6. Cardinality(below) \in Nat /\ Cardinality(S) \in Nat
  BY <1>2, <1>4, FS_CardinalityType
<1> QED
  BY <1>2, <1>4, <1>5, <1>6

\* More listings do not draw one of them to an earlier place.
LEMMA RankGrows ==
    ASSUME NEW S \in SUBSET Explore!Entries, NEW T \in SUBSET Explore!Entries, S \subseteq T, NEW k \in Nat
    PROVE  Explore!Rank(S, k) <= Explore!Rank(T, k)
<1>1. {j \in S : j <= k} \in SUBSET {j \in T : j <= k}
  OBVIOUS
<1>2. Cardinality({j \in S : j <= k}) <= Cardinality({j \in T : j <= k})
  BY <1>1, RankType, FS_Subset
<1> QED
  BY <1>2, RankType

\* Two listings have different places.
LEMMA RankTells ==
    ASSUME NEW S \in SUBSET Explore!Entries, NEW j \in S, NEW k \in S, Explore!Rank(S, j) = Explore!Rank(S, k)
    PROVE  j = k
<1>1. ASSUME NEW a \in S, NEW b \in S, a < b
      PROVE  Explore!Rank(S, a) # Explore!Rank(S, b)
  <2> DEFINE A == {i \in S : i <= a}
             B == {i \in S : i <= b}
  <2>0. a \in Nat /\ b \in Nat /\ \A i \in S : i \in Nat
    BY FeedAssumption DEF Explore!Entries
  <2>1. A \in SUBSET B /\ b \in B /\ b \notin A
    <3>1. \A i \in Nat : i <= a => i <= b
      BY <1>1, <2>0
    <3>2. b <= b /\ ~(b <= a)
      BY <1>1, <2>0
    <3> QED
      BY <2>0, <3>1, <3>2
  <2>2. IsFiniteSet(B) /\ Explore!Rank(S, a) = Cardinality(A) /\ Explore!Rank(S, b) = Cardinality(B)
    BY <2>0, RankType
  <2> HIDE DEF A, B
  <2>3. Cardinality(B) = Cardinality(A) => B = A
    BY <2>1, <2>2, FS_Subset
  <2> QED
    BY <2>1, <2>2, <2>3
<1>2. j \in Nat /\ k \in Nat
  BY FeedAssumption DEF Explore!Entries
<1>3. j < k \/ j = k \/ k < j
  BY <1>2
<1> QED
  BY <1>1, <1>3

\* A listing has a place among those there are.
LEMMA RankPlace ==
    ASSUME NEW S \in SUBSET Explore!Entries, NEW k \in S
    PROVE  Explore!Rank(S, k) \in 1 .. Cardinality(S)
<1>1. k \in Nat
  BY FeedAssumption DEF Explore!Entries
<1>2. k \in {j \in S : j <= k}
  BY <1>1
<1>3. Cardinality({j \in S : j <= k}) # 0
  BY <1>1, <1>2, RankType, FS_EmptySet
<1> QED
  BY <1>1, <1>3, RankType

\* Numbers up to n are n.
LEMMA UpTo ==
    ASSUME NEW n \in Nat
    PROVE  IsFiniteSet(1 .. n) /\ Cardinality(1 .. n) = n
<1>1. 1 \in Int /\ n \in Int /\ (IF 1 > n THEN 0 ELSE n - 1 + 1) = n
  OBVIOUS
<1>2. IsFiniteSet(1 .. n) /\ Cardinality(1 .. n) = IF 1 > n THEN 0 ELSE n - 1 + 1
  BY <1>1, FS_Interval
<1> QED
  BY <1>1, <1>2

\* Every place is taken.
LEMMA RankOnto ==
    ASSUME NEW S \in SUBSET Explore!Entries, NEW i \in 1 .. Cardinality(S)
    PROVE  \E k \in S : Explore!Rank(S, k) = i
<1> DEFINE n == Cardinality(S)
           f == [k \in S |-> Explore!Rank(S, k)]
<1>1. 0 \in Nat
  OBVIOUS
<1>2. n \in Nat /\ IsFiniteSet(S)
  BY <1>1, RankType
<1>3. \A k \in S : f[k] = Explore!Rank(S, k) /\ Explore!Rank(S, k) \in 1 .. n
  BY RankPlace
<1>4. \A j, k \in S : f[j] = f[k] => j = k
  BY RankTells
<1>5. f \in [S -> 1 .. n]
  BY <1>3
<1> HIDE DEF f
<1>6. f \in Injection(S, 1 .. n)
  BY <1>4, <1>5 DEF Injection, IsInjective
<1>7. IsFiniteSet(1 .. n) /\ Cardinality(1 .. n) = n
  BY <1>2, UpTo
<1>8. f \in Surjection(S, 1 .. n)
  BY <1>6, <1>7, FS_Injection
<1> QED
  BY <1>3, <1>8 DEF Surjection

\* The version v of the table, of the query q.
LEMMA Version ==
    ASSUME ExploreTypes, NEW v \in Explore!Versions, NEW q \in Queries
    PROVE  table[v][q] \in SUBSET Explore!Entries
BY DEF ExploreTypes, Explore!Versions

\* What a page holds.
LEMMA PageHolds ==
    ASSUME ExploreTypes, NEW v \in Explore!Versions, NEW q \in Queries, NEW off \in Nat
    PROVE  /\ Explore!Page(v, q, off) \in Seq(Queries \X Nat)
           /\ \A k \in Explore!OnPage(v, q, off) :
                \E i \in DOMAIN Explore!Page(v, q, off) : Explore!Page(v, q, off)[i] = <<q, k>>
           /\ \A i \in DOMAIN Explore!Page(v, q, off) :
                Explore!Page(v, q, off)[i] \in {q} \X Explore!OnPage(v, q, off)
           /\ \A i, j \in DOMAIN Explore!Page(v, q, off) :
                Explore!Page(v, q, off)[i] = Explore!Page(v, q, off)[j] => i = j
           /\ Len(Explore!Page(v, q, off)) = Cardinality(Explore!OnPage(v, q, off))
<1> DEFINE S == table[v][q]
           ks == Explore!OnPage(v, q, off)
           n == Cardinality(ks)
           Nth(i) == CHOOSE k \in ks : Explore!Rank(ks, k) = i
           p == Explore!Page(v, q, off)
<1>1. ks \in SUBSET Explore!Entries /\ \A k \in ks : k \in Nat
  BY Version, FeedAssumption DEF Explore!OnPage, Explore!Entries
<1>2. n \in Nat
  <2>1. 0 \in Nat
    OBVIOUS
  <2> HIDE DEF ks
  <2> QED
    BY <1>1, <2>1, RankType
<1>3. p = [i \in 1 .. n |-> <<q, Nth(i)>>]
  BY ExploreCounts DEF Explore!Page
<1> HIDE DEF ks, p
<1>4. \A i \in 1 .. n : Nth(i) \in ks /\ Explore!Rank(ks, Nth(i)) = i
  BY <1>1, RankOnto
<1>5. ASSUME NEW k \in ks
      PROVE  Explore!Rank(ks, k) \in 1 .. n /\ Nth(Explore!Rank(ks, k)) = k
  <2>1. Explore!Rank(ks, k) \in 1 .. n
    BY <1>1, RankPlace
  <2>2. Nth(Explore!Rank(ks, k)) \in ks /\ Explore!Rank(ks, Nth(Explore!Rank(ks, k))) = Explore!Rank(ks, k)
    BY <1>4, <2>1
  <2> QED
    BY <1>1, <2>1, <2>2, RankTells
<1> HIDE DEF Nth, n
<1>6. DOMAIN p = 1 .. n /\ \A i \in 1 .. n : p[i] = <<q, Nth(i)>>
  BY <1>3
<1>7. p \in Seq(Queries \X Nat) /\ Len(p) = n
  BY <1>1, <1>2, <1>3, <1>4
<1>8. \A k \in ks : \E i \in DOMAIN p : p[i] = <<q, k>>
  BY <1>5, <1>6
<1>9. \A i \in DOMAIN p : p[i] \in {q} \X ks
  <2> SUFFICES ASSUME NEW i \in 1 .. n PROVE p[i] \in {q} \X ks
    BY <1>6
  <2>1. p[i] = <<q, Nth(i)>> /\ Nth(i) \in ks
    BY <1>4, <1>6
  <2> QED
    BY <2>1
<1>10. \A i, j \in DOMAIN p : p[i] = p[j] => i = j
  BY <1>4, <1>6
<1> QED
  BY <1>7, <1>8, <1>9, <1>10 DEF p, ks, n

\* A page that is not full is the last.
LEMMA PageLast ==
    ASSUME ExploreTypes, NEW v \in Explore!Versions, NEW q \in Queries, NEW off \in Nat,
           ~Explore!Full(Explore!Page(v, q, off)), NEW k \in table[v][q]
    PROVE  Explore!Rank(table[v][q], k) <= off + PageSize
<1> DEFINE S == table[v][q]
           ks == Explore!OnPage(v, q, off)
           f == [j \in ks |-> Explore!Rank(S, j) - off]
<1> SUFFICES ASSUME ~(Explore!Rank(S, k) <= off + PageSize) PROVE FALSE
  OBVIOUS
<1>1. S \in SUBSET Explore!Entries /\ PageSize \in Nat /\ k \in S /\ \A j \in S : j \in Nat
  BY Version, FeedAssumption DEF Explore!Entries
<1>2. ks \in SUBSET S /\ \A j \in S : j \in ks <=> (off < Explore!Rank(S, j) /\ Explore!Rank(S, j) <= off + PageSize)
  BY DEF Explore!OnPage
<1> HIDE DEF S, ks
<1>3. \A j \in S : Explore!Rank(S, j) \in 1 .. Cardinality(S) /\ Explore!Rank(S, j) \in Nat
  BY <1>1, RankPlace, RankType
<1>4. Cardinality(S) \in Nat /\ off + PageSize < Cardinality(S)
  <2>1. Cardinality(S) \in Nat
    BY <1>1, RankType
  <2> QED
    BY <1>1, <1>3, <2>1
<1>5. \A j \in ks : f[j] = Explore!Rank(S, j) - off /\ f[j] \in 1 .. PageSize
  BY <1>1, <1>2, <1>3
<1>6. \A i, j \in ks : f[i] = f[j] => i = j
  <2>1. \A i, j \in ks : Explore!Rank(S, i) - off = Explore!Rank(S, j) - off => Explore!Rank(S, i) = Explore!Rank(S, j)
    BY <1>2, <1>3
  <2> QED
    BY <1>1, <1>2, <1>5, <2>1, RankTells
<1>7. \A i \in 1 .. PageSize : \E j \in ks : f[j] = i
  <2> SUFFICES ASSUME NEW i \in 1 .. PageSize PROVE \E j \in ks : f[j] = i
    OBVIOUS
  <2>1. off + i \in 1 .. Cardinality(S) /\ off < off + i /\ off + i <= off + PageSize
        /\ (off + i) - off = i
    BY <1>1, <1>4
  <2>2. PICK j \in S : Explore!Rank(S, j) = off + i
    BY <1>1, <2>1, RankOnto
  <2>3. j \in ks
    BY <1>2, <2>1, <2>2
  <2> QED
    BY <1>5, <2>1, <2>2, <2>3
<1>8. f \in [ks -> 1 .. PageSize]
  BY <1>5
<1> HIDE DEF f
<1>9. f \in Injection(ks, 1 .. PageSize) /\ f \in Surjection(ks, 1 .. PageSize)
  BY <1>6, <1>7, <1>8 DEF Injection, IsInjective, Surjection
<1>10. IsFiniteSet(1 .. PageSize) /\ Cardinality(1 .. PageSize) = PageSize
  BY <1>1, UpTo
<1>11. Cardinality(ks) = PageSize
  BY <1>9, <1>10, FS_Injection
<1>12. Len(Explore!Page(v, q, off)) = PageSize
  BY <1>11, PageHolds DEF ks
<1> QED
  BY <1>12 DEF Explore!Full

\* What is kept of a list.
LEMMA CappedOf ==
    ASSUME NEW s \in Seq(Queries \X Nat)
    PROVE  /\ Explore!Capped(s) \in Seq(Queries \X Nat)
           /\ Len(Explore!Capped(s)) \in Nat
           /\ Len(Explore!Capped(s)) < Cap => Explore!Capped(s) = s
           /\ \A i \in DOMAIN Explore!Capped(s) : i \in DOMAIN s /\ Explore!Capped(s)[i] = s[i]
<1> DEFINE m == IF Len(s) < Cap THEN Len(s) ELSE Cap
<1>1. Len(s) \in Nat /\ m \in Nat /\ m <= Len(s) /\ (m < Cap => m = Len(s))
  BY FeedAssumption
<1>2. Explore!Capped(s) = SubSeq(s, 1, m)
  BY DEF Explore!Capped
<1> HIDE DEF m
<1>3. /\ SubSeq(s, 1, m) \in Seq(Queries \X Nat) /\ Len(SubSeq(s, 1, m)) = m
      /\ \A i \in 1 .. m : SubSeq(s, 1, m)[i] = s[i]
  BY <1>1
<1>4. m = Len(s) => SubSeq(s, 1, m) = s
  BY <1>1
<1>5. DOMAIN SubSeq(s, 1, m) = 1 .. m /\ DOMAIN s = 1 .. Len(s)
  BY <1>3
<1>6. \A i \in 1 .. m : i \in 1 .. Len(s)
  BY <1>1
<1> QED
  BY <1>1, <1>2, <1>3, <1>4, <1>5, <1>6

\* The invariant holds at first.
LEMMA ExploreStarts == Explore!Init => ExploreTypes /\ FeedInv
<1> SUFFICES ASSUME Explore!Init PROVE ExploreTypes /\ FeedInv
  OBVIOUS
<1>1. PICK l \in FirstPages : first = [i \in FirstPages |-> IF i = l THEN Default ELSE Null]
  BY DEF Explore!Init
<1>2. first[l] = Default /\ first \in [FirstPages -> Queries \cup {Null}]
  BY <1>1, FeedAssumption
<1>3. table \in Seq([Queries -> SUBSET Explore!Entries]) /\ since \in Explore!Versions /\ asOf \in Explore!Versions
  <2>1. table \in [1 .. 1 -> [Queries -> SUBSET Explore!Entries]] /\ since = 1 /\ asOf = 1
    BY DEF Explore!Init
  <2>2. table \in Seq([Queries -> SUBSET Explore!Entries])
    <3>1. 1 \in Nat
      OBVIOUS
    <3> QED
      BY <2>1, <3>1, SeqDef
  <2>3. Len(table) = 1
    <3>1. DOMAIN table = 1 .. 1
      BY <2>1
    <3>2. Len(table) \in Nat /\ DOMAIN table = 1 .. Len(table)
      BY <2>2, LenProperties
    <3>3. 1 .. Len(table) = 1 .. 1
      BY <3>1, <3>2
    <3> DEFINE n == Len(table)
    <3> HIDE DEF n
    <3>4. n \in Nat /\ 1 .. n = 1 .. 1
      BY <3>2, <3>3 DEF n
    <3>5. 1 \in 1 .. 1
      OBVIOUS
    <3>6. 1 \in 1 .. n
      BY <3>4, <3>5
    <3>7. 1 <= n
      BY <3>4, <3>6
    <3>8. n \in 1 .. n
      BY <3>4, <3>7
    <3>9. n \in 1 .. 1
      BY <3>4, <3>8
    <3> QED
      BY <3>4, <3>9 DEF n
  <2> QED
    BY <2>1, <2>2, <2>3 DEF Explore!Versions
<1>4. /\ query = Default /\ offset = 0 /\ items = <<>> /\ more = Null /\ hasMore = TRUE
      /\ fetching = TRUE /\ dated = FALSE /\ spoiled = FALSE /\ excused = FALSE
  BY DEF Explore!Init
<1>5. Explore!Asked
  BY <1>2, FeedAssumption DEF Explore!Asked
<1>6. ExploreTypes
  <2>1. items \in Seq(Queries \X Nat)
    BY <1>4
  <2>2. query \in Queries /\ offset \in Nat /\ more = Null
        /\ dated \in BOOLEAN /\ spoiled \in BOOLEAN /\ excused \in BOOLEAN
        /\ fetching \in BOOLEAN /\ hasMore \in BOOLEAN
    BY <1>4, FeedAssumption
  <2> QED
    BY <1>2, <1>3, <2>1, <2>2 DEF ExploreTypes
<1> QED
  BY <1>4, <1>5, <1>6 DEF FeedInv, MoreFits

\* What was received, whatever the answer.
LEMMA ReceivedHolds ==
    ASSUME ExploreTypes, NEW v \in Explore!Versions, NEW q \in Queries, NEW off \in Nat,
           NEW out \in Explore!Outcomes
    PROVE  /\ Explore!Received(q, off, out, v) \in Seq(Queries \X Nat)
           /\ \A i \in DOMAIN Explore!Received(q, off, out, v) :
                Explore!Received(q, off, out, v)[i] \in {q} \X Explore!OnPage(v, q, off)
           /\ \A i, j \in DOMAIN Explore!Received(q, off, out, v) :
                Explore!Received(q, off, out, v)[i] = Explore!Received(q, off, out, v)[j] => i = j
<1>1. CASE out = "answered"
  <2>1. Explore!Received(q, off, out, v) = Explore!Page(v, q, off)
    BY <1>1 DEF Explore!Received
  <2> QED
    BY <2>1, PageHolds
<1>2. CASE out # "answered"
  <2>1. Explore!Received(q, off, out, v) = <<>>
    BY <1>2 DEF Explore!Received
  <2>2. DOMAIN <<>> = {} /\ <<>> \in Seq(Queries \X Nat)
    OBVIOUS
  <2> QED
    BY <2>1, <2>2
<1> QED
  BY <1>1, <1>2

\* A list that goes on.
LEMMA Joined ==
    ASSUME NEW s \in Seq(Queries \X Nat), NEW t \in Seq(Queries \X Nat)
    PROVE  /\ s \o t \in Seq(Queries \X Nat)
           /\ Len(s) \in Nat /\ Len(s) <= Len(s \o t)
           /\ \A i \in DOMAIN s : i \in DOMAIN (s \o t) /\ (s \o t)[i] = s[i]
           /\ \A j \in DOMAIN t : \E i \in DOMAIN (s \o t) : (s \o t)[i] = t[j]
           /\ \A i \in DOMAIN (s \o t) :
                \/ i \in DOMAIN s /\ (s \o t)[i] = s[i]
                \/ i - Len(s) \in DOMAIN t /\ (s \o t)[i] = t[i - Len(s)] /\ i \in Nat
<1> DEFINE u == s \o t
           m == Len(s)
           n == Len(t)
<1>1. /\ u \in Seq(Queries \X Nat) /\ m \in Nat /\ n \in Nat /\ Len(u) = m + n
      /\ \A i \in 1 .. m + n : u[i] = IF i <= m THEN s[i] ELSE t[i - m]
  BY ConcatProperties
<1>2. DOMAIN u = 1 .. m + n /\ DOMAIN s = 1 .. m /\ DOMAIN t = 1 .. n
  BY <1>1
<1> HIDE DEF u, m, n
<1>3. \A i \in 1 .. m : i \in 1 .. m + n /\ u[i] = s[i]
  BY <1>1
<1>4. ASSUME NEW j \in 1 .. n
      PROVE  \E i \in 1 .. m + n : u[i] = t[j]
  <2>1. m + j \in 1 .. m + n /\ ~(m + j <= m) /\ (m + j) - m = j
    BY <1>1
  <2>2. u[m + j] = t[j]
    BY <1>1, <2>1
  <2> QED
    BY <2>1, <2>2
<1>5. \A i \in 1 .. m + n :
        (i \in 1 .. m /\ u[i] = s[i]) \/ (i - m \in 1 .. n /\ u[i] = t[i - m] /\ i \in Nat)
  BY <1>1
<1>6. m <= Len(u)
  BY <1>1
<1> QED
  BY <1>1, <1>2, <1>3, <1>4, <1>5, <1>6 DEF u, m, n

\* Versions that were read stay as they are.
LEMMA Edited ==
    ASSUME ExploreTypes, NEW q \in Queries, NEW k \in Explore!Entries, Explore!Edit(q, k)
    PROVE  /\ table' \in Seq([Queries -> SUBSET Explore!Entries])
           /\ \A v \in Explore!Versions : v \in Explore!Versions' /\ table'[v] = table[v]
<1> DEFINE now == table[Len(table)][q]
           then == IF k \in now THEN now \ {k} ELSE now \cup {k}
           new == [table[Len(table)] EXCEPT ![q] = then]
<1>1. table \in Seq([Queries -> SUBSET Explore!Entries]) /\ Len(table) \in Nat /\ since \in 1 .. Len(table)
  BY DEF ExploreTypes, Explore!Versions
<1>2. Len(table) \in 1 .. Len(table)
  BY <1>1
<1>3. table[Len(table)] \in [Queries -> SUBSET Explore!Entries]
  BY <1>1, <1>2
<1>4. new \in [Queries -> SUBSET Explore!Entries]
  BY <1>3
<1>5. table' = Append(table, new)
  BY DEF Explore!Edit
<1> HIDE DEF new
<1>6. /\ table' \in Seq([Queries -> SUBSET Explore!Entries]) /\ Len(table') = Len(table) + 1
      /\ \A v \in 1 .. Len(table) : table'[v] = table[v]
  BY <1>1, <1>4, <1>5
<1>7. \A v \in 1 .. Len(table) : v \in 1 .. Len(table) + 1
  BY <1>1
<1> QED
  BY <1>6, <1>7 DEF Explore!Versions

\* Every step keeps the types.
LEMMA ExploreTypesStep == ExploreTypes /\ [Explore!Next]_(Explore!vars) => ExploreTypes'
<1> SUFFICES ASSUME ExploreTypes, [Explore!Next]_(Explore!vars) PROVE ExploreTypes'
  OBVIOUS
<1>1. CASE UNCHANGED Explore!vars
  BY <1>1 DEF Explore!vars, Explore!feed, Explore!read, ExploreTypes, Explore!Versions
<1>2. ASSUME NEW l \in FirstPages, NEW q \in Queries, (Explore!Refresh(l) /\ q = query) \/ Explore!Choose(l, q)
      PROVE  ExploreTypes'
  <2>1. Explore!Ask(l, q) /\ query' \in Queries
    BY <1>2 DEF Explore!Refresh, Explore!Choose, ExploreTypes
  <2>2. first' \in [FirstPages -> Queries \cup {Null}]
    BY <2>1 DEF Explore!Ask, ExploreTypes
  <2>3. more' = Null \/ more' \in [q : Queries, off : Nat, stale : BOOLEAN]
    BY <2>1 DEF Explore!Ask, ExploreTypes
  <2>4. UNCHANGED <<table, items, offset, hasMore, since, asOf, dated, excused>>
        /\ spoiled' \in BOOLEAN /\ fetching' \in BOOLEAN
    BY <1>2 DEF Explore!Refresh, Explore!Choose, Explore!feed, Explore!read, ExploreTypes
  <2> QED
    BY <2>1, <2>2, <2>3, <2>4 DEF ExploreTypes, Explore!Versions
<1>3. ASSUME NEW l \in FirstPages, NEW out \in Explore!Outcomes, NEW v \in Explore!Versions,
Explore!FirstAnswers(l, out, v)
      PROVE  ExploreTypes'
  <2>1. first' \in [FirstPages -> Queries \cup {Null}]
    BY <1>3 DEF Explore!FirstAnswers, ExploreTypes
  <2>2. more' = Null \/ more' \in [q : Queries, off : Nat, stale : BOOLEAN]
    BY <1>3 DEF Explore!FirstAnswers, ExploreTypes
  <2>3. items' \in Seq(Queries \X Nat)
    <3>1. items' = Explore!Capped(Explore!Received(first[l], 0, out, v)) /\ first[l] \in Queries /\ 0 \in Nat
      BY <1>3 DEF Explore!FirstAnswers, ExploreTypes
    <3> QED
      BY <3>1, ReceivedHolds, CappedOf
  <2>4. /\ UNCHANGED <<table, query>> /\ since' = v /\ asOf' = v /\ offset' = 0
        /\ dated' \in BOOLEAN /\ spoiled' \in BOOLEAN /\ excused' \in BOOLEAN
        /\ fetching' \in BOOLEAN /\ hasMore' \in BOOLEAN
    BY <1>3 DEF Explore!FirstAnswers, Explore!Continues, Explore!Full
  <2> QED
    BY <2>1, <2>2, <2>3, <2>4 DEF ExploreTypes, Explore!Versions
<1>4. ASSUME NEW out \in Explore!Outcomes, NEW v \in Explore!Versions, Explore!MoreAnswers(out, v)
      PROVE  ExploreTypes'
  <2>1. more.q \in Queries /\ more.off \in Nat /\ more.stale \in BOOLEAN
    BY <1>4 DEF Explore!MoreAnswers, ExploreTypes
  <2>2. items' \in Seq(Queries \X Nat)
    <3>1. items' = Explore!Capped(items \o Explore!Received(more.q, more.off, out, v))
      BY <1>4 DEF Explore!MoreAnswers
    <3>2. Explore!Received(more.q, more.off, out, v) \in Seq(Queries \X Nat) /\ items \in Seq(Queries \X Nat)
      BY <2>1, ReceivedHolds DEF ExploreTypes
    <3> QED
      BY <3>1, <3>2, Joined, CappedOf
  <2>3. /\ UNCHANGED <<table, query, first, fetching, since>> /\ more' = Null /\ asOf' = v
        /\ dated' \in BOOLEAN /\ spoiled' \in BOOLEAN /\ excused' \in BOOLEAN
        /\ hasMore' \in BOOLEAN
    BY <1>4 DEF Explore!MoreAnswers, Explore!Continues, Explore!Full
  <2>4. offset' \in Nat
    BY <1>4, <2>1, FeedAssumption DEF Explore!MoreAnswers, Explore!Advanced, ExploreTypes
  <2> QED
    BY <2>2, <2>3, <2>4 DEF ExploreTypes, Explore!Versions
<1>5. CASE Explore!LoadMore
  BY <1>5, FeedAssumption DEF Explore!LoadMore, Explore!feed, Explore!read, ExploreTypes,
     Explore!Versions
<1>6. CASE Explore!Hydrate
  <2>1. items' = items \/ \E v \in Explore!Versions : items' = Explore!Page(v, Default, 0)
    BY <1>6 DEF Explore!Hydrate
  <2>2. Default \in Queries /\ 0 \in Nat
    BY FeedAssumption
  <2>3. items' \in Seq(Queries \X Nat)
    BY <2>1, <2>2, PageHolds DEF ExploreTypes
  <2>4. /\ UNCHANGED <<table, query, offset, hasMore, first, more, since, asOf, dated, excused>>
        /\ fetching' \in BOOLEAN /\ spoiled' \in BOOLEAN
    BY <1>6 DEF Explore!Hydrate, ExploreTypes
  <2> QED
    BY <2>3, <2>4 DEF ExploreTypes, Explore!Versions
<1>7. ASSUME NEW k \in poisoned, Explore!Expires(k)
      PROVE  ExploreTypes'
  BY <1>7 DEF Explore!Expires, Explore!feed, Explore!read, ExploreTypes, Explore!Versions
<1>8. ASSUME NEW q \in Queries, NEW k \in Explore!Entries, Explore!Edit(q, k)
      PROVE  ExploreTypes'
  <2>1. UNCHANGED <<query, items, offset, hasMore, fetching, first, more, since, asOf, dated,
                    spoiled, excused>>
    BY <1>8 DEF Explore!Edit, Explore!feed, Explore!read
  <2> QED
    BY <1>8, <2>1, Edited DEF ExploreTypes
<1> QED
  <2>1. ASSUME NEW l \in FirstPages, Explore!Refresh(l)
        PROVE  ExploreTypes'
    BY <1>2, <2>1 DEF ExploreTypes
  <2> QED
    BY <1>1, <1>2, <1>3, <1>4, <1>5, <1>6, <1>7, <1>8, <2>1 DEF Explore!Next, Explore!Answers

\* A first page: what it is to hold.
LEMMA FirstPage ==
    ASSUME ExploreTypes, NEW l \in FirstPages, NEW out \in Explore!Outcomes, NEW v \in Explore!Versions,
           Explore!FirstAnswers(l, out, v), spoiled' = FALSE
    PROVE  since' <= asOf' /\ (excused' = FALSE => Gapless' /\ ReadOut') /\ Repeatless'
<1> DEFINE S == table[v][query]
           got == Explore!Received(query, 0, out, v)
<1>1. /\ first[l] = query /\ query \in Queries /\ items' = Explore!Capped(got) /\ offset' = 0
      /\ hasMore' \in Explore!Continues(got, 0) /\ since' = v /\ asOf' = v
      /\ excused' = (out # "answered") /\ UNCHANGED <<table, query>>
  BY DEF Explore!FirstAnswers, ExploreTypes
<1>2. v \in Nat /\ 0 \in Nat /\ PageSize \in Nat /\ S \in SUBSET Explore!Entries
      /\ \A k \in S : k \in Nat
  BY <1>1, Version, FeedAssumption DEF ExploreTypes, Explore!Versions, Explore!Entries
<1>3. /\ got \in Seq(Queries \X Nat)
      /\ \A i \in DOMAIN got : got[i] \in {query} \X Explore!OnPage(v, query, 0)
      /\ \A i, j \in DOMAIN got : got[i] = got[j] => i = j
  BY <1>1, <1>2, ReceivedHolds
<1>4. /\ Len(Explore!Capped(got)) < Cap => Explore!Capped(got) = got
      /\ \A i \in DOMAIN Explore!Capped(got) : i \in DOMAIN got /\ Explore!Capped(got)[i] = got[i]
  BY <1>3, CappedOf
<1>5. \A k \in S : k \in Explore!OnPage(v, query, 0) <=> Explore!Rank(S, k) <= 0 + PageSize
  <2> SUFFICES ASSUME NEW k \in S PROVE 0 < Explore!Rank(S, k)
    BY DEF Explore!OnPage
  <2> HIDE DEF S
  <2> QED
    BY <1>2, RankPlace, RankType
<1>6. Explore!OnPage(v, query, 0) \subseteq S
  BY DEF Explore!OnPage
<1>7. ASSUME out = "answered"
      PROVE  Gapless' /\ ReadOut'
  <2>1. got = Explore!Page(v, query, 0)
    BY <1>7 DEF Explore!Received
  <2>2. \A k \in Explore!OnPage(v, query, 0) : \E i \in DOMAIN got : got[i] = <<query, k>>
    BY <1>1, <1>2, <2>1, PageHolds
  <2>3. hasMore' = FALSE => \A k \in S : Explore!Rank(S, k) <= 0 + PageSize
    <3>1. hasMore' = FALSE => ~Explore!Full(got)
      BY <1>1 DEF Explore!Continues
    <3> QED
      BY <1>1, <1>2, <2>1, <3>1, PageLast
  <2> HIDE DEF S, got
  <2> QED
    BY <1>1, <1>4, <1>5, <2>2, <2>3 DEF Gapless, ReadOut, PlaceNow, Explore!InList, S
<1>8. Repeatless'
  <2>1. \A i \in DOMAIN Explore!Capped(got) : Explore!Capped(got)[i] \in {query} \X S
          /\ Explore!Rank(S, Explore!Capped(got)[i][2]) <= 0 + PageSize
    <3> SUFFICES ASSUME NEW i \in DOMAIN Explore!Capped(got)
                 PROVE  Explore!Capped(got)[i] \in {query} \X S /\ Explore!Rank(S,
                 Explore!Capped(got)[i][2]) <= 0 + PageSize
      OBVIOUS
    <3>1. Explore!Capped(got)[i] \in {query} \X Explore!OnPage(v, query, 0)
      BY <1>3, <1>4
    <3> HIDE DEF S, got
    <3>2. PICK k \in Explore!OnPage(v, query, 0) : Explore!Capped(got)[i] = <<query, k>>
      BY <3>1
    <3> QED
      BY <1>5, <1>6, <3>2
  <2>2. \A i, j \in DOMAIN Explore!Capped(got) : Explore!Capped(got)[i] = Explore!Capped(got)[j] => i = j
    BY <1>3, <1>4
  <2> HIDE DEF got
  <2> QED
    BY <1>1, <2>1, <2>2 DEF Repeatless, PlaceNow
<1>9. since' <= asOf'
  BY <1>1, <1>2
<1>10. excused' = FALSE => out = "answered"
  BY <1>1
<1> QED
  BY <1>7, <1>8, <1>9, <1>10

\* A further page goes on where the list ends.
LEMMA FurtherPage ==
    ASSUME ExploreTypes, FeedInv, NEW out \in Explore!Outcomes, NEW v \in Explore!Versions, Explore!MoreAnswers(out, v),
           spoiled' = FALSE, dated' = FALSE
    PROVE  since' <= asOf' /\ (excused' = FALSE => Gapless' /\ ReadOut') /\ Repeatless'
<1> DEFINE S == table[since][query]
           A == table[asOf][query]
           T == table[v][query]
           off == offset + PageSize
           got == Explore!Received(query, off, out, v)
           u == items \o got
<1>1. /\ more # Null /\ spoiled' = (spoiled \/ more.stale) /\ dated' = (dated \/ v < asOf)
      /\ excused' = (excused \/ out # "answered")
      /\ items' = Explore!Capped(items \o Explore!Received(more.q, more.off, out, v))
      /\ hasMore' \in Explore!Continues(Explore!Received(more.q, more.off, out, v), more.off)
      /\ offset' = Explore!Advanced /\ asOf' = v /\ UNCHANGED <<table, query, since>>
  BY DEF Explore!MoreAnswers
<1>2. spoiled = FALSE /\ more.stale = FALSE /\ dated = FALSE /\ ~(v < asOf)
  BY <1>1 DEF ExploreTypes
<1>3. more.q = query /\ more.off = off /\ fetching = FALSE
  BY <1>1, <1>2 DEF FeedInv, MoreFits
<1>4. /\ since <= asOf /\ (excused = FALSE => Gapless) /\ Repeatless
  BY <1>2, <1>3 DEF FeedInv
<1>5. items' = Explore!Capped(u) /\ hasMore' \in Explore!Continues(got, off) /\ offset' = off
  BY <1>1, <1>3 DEF Explore!Advanced
<1>6. /\ query \in Queries /\ off \in Nat /\ PageSize \in Nat
      /\ since \in Nat /\ asOf \in Nat /\ v \in Nat /\ since <= asOf /\ asOf <= v
  BY <1>2, <1>4, FeedAssumption DEF ExploreTypes, Explore!Versions
<1>7. S \in SUBSET Explore!Entries /\ A \in SUBSET Explore!Entries /\ T \in SUBSET Explore!Entries
      /\ \A k \in Explore!Entries : k \in Nat
  BY <1>6, Version, FeedAssumption DEF ExploreTypes, Explore!Entries
<1>8. /\ got \in Seq(Queries \X Nat) /\ items \in Seq(Queries \X Nat)
      /\ \A i \in DOMAIN got : got[i] \in {query} \X Explore!OnPage(v, query, off)
      /\ \A i, j \in DOMAIN got : got[i] = got[j] => i = j
  BY <1>6, ReceivedHolds DEF ExploreTypes
<1>9. Explore!OnPage(v, query, off) = {k \in T : off < Explore!Rank(T, k) /\ Explore!Rank(T, k) <= off + PageSize}
  BY DEF Explore!OnPage
<1>10. since \in since .. v /\ asOf \in since .. v /\ v \in since .. v
       /\ \A w \in since .. asOf : w \in since .. v
  BY <1>6
<1>11. Explore!Grew' => Explore!Grew /\ A \subseteq T /\ S \subseteq T
  BY <1>1, <1>6, <1>10 DEF Explore!Grew
<1>12. Explore!Shrank' => Explore!Shrank /\ T \subseteq A /\ T \subseteq S
  BY <1>1, <1>6, <1>10 DEF Explore!Shrank
<1>13. /\ u \in Seq(Queries \X Nat)
       /\ Len(items) \in Nat /\ Len(items) <= Len(u)
       /\ \A i \in DOMAIN items : i \in DOMAIN u /\ u[i] = items[i]
       /\ \A j \in DOMAIN got : \E i \in DOMAIN u : u[i] = got[j]
       /\ \A i \in DOMAIN u :
            \/ i \in DOMAIN items /\ u[i] = items[i]
            \/ i - Len(items) \in DOMAIN got /\ u[i] = got[i - Len(items)] /\ i \in Nat
  BY <1>8, Joined
<1>14. /\ Len(Explore!Capped(u)) < Cap => Explore!Capped(u) = u
       /\ \A i \in DOMAIN Explore!Capped(u) : i \in DOMAIN u /\ Explore!Capped(u)[i] = u[i]
  BY <1>13, CappedOf
<1>15. ASSUME out = "answered"
       PROVE  /\ \A k \in Explore!OnPage(v, query, off) : \E i \in DOMAIN got : got[i] = <<query, k>>
              /\ hasMore' = FALSE => \A k \in T : Explore!Rank(T, k) <= off + PageSize
  <2>1. got = Explore!Page(v, query, off)
    BY <1>15 DEF Explore!Received
  <2>2. \A k \in Explore!OnPage(v, query, off) : \E i \in DOMAIN got : got[i] = <<query, k>>
    BY <1>6, <2>1, PageHolds
  <2>3. hasMore' = FALSE => ~Explore!Full(got)
    BY <1>5 DEF Explore!Continues
  <2> QED
    BY <1>6, <2>1, <2>2, <2>3, PageLast
<1> HIDE DEF S, A, T, off, got, u
<1>16. ASSUME excused' = FALSE, Explore!Grew', Len(items') < Cap, NEW k \in S, Explore!Rank(T, k) <= off + PageSize
       PROVE  \E i \in DOMAIN items' : items'[i] = <<query, k>>
  <2>1. out = "answered" /\ excused = FALSE
    BY <1>1, <1>16 DEF ExploreTypes
  <2>2. items' = u /\ Len(u) \in Nat /\ Len(u) < Cap
    BY <1>5, <1>13, <1>14, <1>16
  <2>3. Len(items) < Cap
    BY <1>13, <2>2, FeedAssumption
  <2>4. k \in T /\ k \in Nat /\ Explore!Rank(A, k) \in Nat /\ Explore!Rank(T,
  k) \in Nat /\ Explore!Rank(A, k) <= Explore!Rank(T, k)
    <3>1. k \in T /\ k \in Nat /\ A \subseteq T
      BY <1>7, <1>11, <1>16
    <3> QED
      BY <1>7, <3>1, RankGrows, RankType
  <2>5. CASE Explore!Rank(T, k) <= off
    <3>1. Explore!Rank(A, k) <= off
      BY <1>6, <2>4, <2>5
    <3>2. \E i \in DOMAIN items : items[i] = <<query, k>>
      BY <1>4, <1>11, <1>16, <2>1, <2>3, <3>1 DEF Gapless, PlaceNow, Explore!InList, S, A, off
    <3> QED
      BY <1>13, <2>2, <3>2
  <2>6. CASE off < Explore!Rank(T, k)
    <3>1. k \in Explore!OnPage(v, query, off)
      BY <1>9, <1>16, <2>4, <2>6
    <3>2. \E j \in DOMAIN got : got[j] = <<query, k>>
      BY <1>15, <2>1, <3>1
    <3> QED
      BY <1>13, <2>2, <3>2
  <2> QED
    BY <1>6, <2>4, <2>5, <2>6
<1>17. excused' = FALSE => Gapless' /\ ReadOut'
  <2> SUFFICES ASSUME excused' = FALSE PROVE Gapless' /\ ReadOut'
    OBVIOUS
  <2>1. out = "answered"
    BY <1>1 DEF ExploreTypes
  <2>2. table'[since'][query'] = S /\ table'[asOf'][query'] = T /\ offset' = off /\ query' = query
    BY <1>1, <1>5 DEF S, T
  <2>3. Gapless'
    BY <1>16, <2>2 DEF Gapless, PlaceNow, Explore!InList
  <2>4. ReadOut'
    BY <1>15, <2>1, <2>2 DEF ReadOut, PlaceNow
  <2> QED
    BY <2>3, <2>4
<1>18. ASSUME Explore!Shrank'
       PROVE  /\ \A i \in DOMAIN items :
                    items[i] \in {query} \X S /\ Explore!Rank(T, items[i][2]) <= off
              /\ \A i, j \in DOMAIN items : items[i] = items[j] => i = j
              /\ \A i \in DOMAIN got :
                    /\ got[i] \in {query} \X S
                    /\ off < Explore!Rank(T, got[i][2]) /\ Explore!Rank(T, got[i][2]) <= off + PageSize
  <2>1. Explore!Shrank /\ T \subseteq A /\ T \subseteq S
    BY <1>12, <1>18
  <2>2. /\ \A i, j \in DOMAIN items : items[i] = items[j] => i = j
        /\ \A i \in DOMAIN items : items[i] \in {query} \X S /\ Explore!Rank(A, items[i][2]) <= off
    BY <1>4, <2>1 DEF Repeatless, PlaceNow, S, A, off
  <2>3. ASSUME NEW i \in DOMAIN items
        PROVE  Explore!Rank(T, items[i][2]) <= off
    <3>1. items[i][2] \in Nat /\ Explore!Rank(A, items[i][2]) <= off
      BY <1>7, <2>2
    <3>2. /\ Explore!Rank(T, items[i][2]) <= Explore!Rank(A, items[i][2])
          /\ Explore!Rank(T, items[i][2]) \in Nat /\ Explore!Rank(A, items[i][2]) \in Nat
      BY <1>7, <2>1, <3>1, RankGrows, RankType
    <3> QED
      BY <1>6, <3>1, <3>2
  <2>4. ASSUME NEW i \in DOMAIN got
        PROVE  /\ got[i] \in {query} \X S
               /\ off < Explore!Rank(T, got[i][2]) /\ Explore!Rank(T, got[i][2]) <= off + PageSize
    <3>1. PICK k \in Explore!OnPage(v, query, off) : got[i] = <<query, k>>
      BY <1>8
    <3>2. k \in T /\ off < Explore!Rank(T, k) /\ Explore!Rank(T, k) <= off + PageSize
      BY <1>9
    <3> QED
      BY <2>1, <3>1, <3>2
  <2> QED
    BY <2>2, <2>3, <2>4
<1>19. ASSUME Explore!Shrank'
       PROVE  \A i \in DOMAIN u : u[i] \in {query} \X S /\ Explore!Rank(T, u[i][2]) <= off + PageSize
  <2> SUFFICES ASSUME NEW i \in DOMAIN u
               PROVE  u[i] \in {query} \X S /\ Explore!Rank(T, u[i][2]) <= off + PageSize
    OBVIOUS
  <2>1. CASE i \in DOMAIN items /\ u[i] = items[i]
    <3>1. u[i] \in {query} \X S /\ Explore!Rank(T, u[i][2]) <= off
      BY <1>18, <1>19, <2>1
    <3>2. u[i][2] \in Nat
      BY <1>7, <3>1
    <3>3. Explore!Rank(T, u[i][2]) \in Nat
      BY <1>7, <3>2, RankType
    <3> QED
      BY <1>6, <3>1, <3>3
  <2>2. CASE i - Len(items) \in DOMAIN got /\ u[i] = got[i - Len(items)]
    BY <1>18, <1>19, <2>2
  <2> QED
    BY <1>13, <2>1, <2>2
<1>20. ASSUME Explore!Shrank', NEW i \in DOMAIN u, NEW j \in DOMAIN u, u[i] = u[j]
       PROVE  i = j
  <2> DEFINE m == Len(items)
  <2>1. ASSUME NEW a \in DOMAIN items, NEW b \in DOMAIN got
        PROVE  items[a] # got[b]
    <3>1. items[a] \in {query} \X S /\ Explore!Rank(T, items[a][2]) <= off /\ off < Explore!Rank(T, got[b][2])
      BY <1>18, <1>20
    <3>2. items[a][2] \in Nat
      BY <1>7, <3>1
    <3>3. Explore!Rank(T, items[a][2]) \in Nat
      BY <1>7, <3>2, RankType
    <3> QED
      BY <1>6, <3>1, <3>3
  <2>2. \A a, b \in DOMAIN items : items[a] = items[b] => a = b
    BY <1>18, <1>20
  <2>3. i - m \in DOMAIN got /\ j - m \in DOMAIN got /\ i \in Nat /\ j \in Nat
          /\ u[i] = got[i - m] /\ u[j] = got[j - m] => i = j
    <3>1. i - m \in DOMAIN got /\ j - m \in DOMAIN got /\ got[i - m] = got[j - m] => i - m = j - m
      BY <1>8
    <3>2. i \in Nat /\ j \in Nat /\ i - m = j - m => i = j
      BY <1>13
    <3> QED
      BY <1>20, <3>1, <3>2
  <2> QED
    BY <1>13, <1>20, <2>1, <2>2, <2>3
<1>21. Repeatless'
  <2> SUFFICES ASSUME Explore!Shrank'
               PROVE  /\ \A i, j \in DOMAIN Explore!Capped(u) : Explore!Capped(u)[i] = Explore!Capped(u)[j] => i = j
                      /\ \A i \in DOMAIN Explore!Capped(u) :
                           Explore!Capped(u)[i] \in {query} \X S /\ Explore!Rank(T,
                           Explore!Capped(u)[i][2]) <= off + PageSize
    BY <1>1, <1>5 DEF Repeatless, PlaceNow, S, T
  <2> QED
    BY <1>14, <1>19, <1>20
<1>22. since' <= asOf'
  BY <1>1, <1>6
<1> QED
  BY <1>17, <1>21, <1>22

\* Every step keeps the invariant.
LEMMA FeedStep == ExploreTypes /\ ExploreTypes' /\ FeedInv /\ [Explore!Next]_(Explore!vars) => FeedInv'
<1> SUFFICES ASSUME ExploreTypes, ExploreTypes', FeedInv, [Explore!Next]_(Explore!vars) PROVE FeedInv'
  OBVIOUS
<1> DEFINE Held == <<table, query, items, offset, hasMore, since, asOf, dated, excused>>
<1>0. /\ fetching = TRUE => Explore!Asked
      /\ MoreFits
      /\ spoiled = FALSE /\ dated = FALSE /\ fetching = FALSE =>
          /\ since <= asOf
          /\ excused = FALSE => Gapless /\ ReadOut
          /\ Repeatless
  BY DEF FeedInv
<1>1. UNCHANGED Held =>
        /\ since' = since /\ asOf' = asOf /\ dated' = dated /\ excused' = excused
        /\ Gapless' = Gapless /\ ReadOut' = ReadOut /\ Repeatless' = Repeatless
  BY DEF Gapless, ReadOut, Repeatless, PlaceNow, Explore!InList, Explore!Grew, Explore!Shrank
<1>2. CASE UNCHANGED Explore!vars
  <2>1. UNCHANGED Held /\ UNCHANGED <<fetching, first, more, spoiled>>
    BY <1>2 DEF Explore!vars, Explore!feed, Explore!read
  <2>2. MoreFits' /\ Explore!Asked' = Explore!Asked
    BY <1>0, <2>1 DEF MoreFits, Explore!Asked
  <2> QED
    BY <1>0, <1>1, <2>1, <2>2 DEF FeedInv
<1>3. ASSUME NEW l \in FirstPages, NEW q \in Queries, (Explore!Refresh(l) /\ q = query) \/ Explore!Choose(l, q)
      PROVE  FeedInv'
  <2>1. Explore!Ask(l, q)
    BY <1>3 DEF Explore!Refresh, Explore!Choose
  <2>2. Explore!Asked'
    BY <2>1, FeedAssumption DEF Explore!Ask, Explore!Asked, ExploreTypes
  <2>3. MoreFits'
    BY <2>1 DEF Explore!Ask, MoreFits, ExploreTypes
  <2>4. spoiled' = TRUE \/ (UNCHANGED Held /\ UNCHANGED <<spoiled, fetching>>)
    BY <1>3 DEF Explore!Refresh, Explore!Choose, Explore!feed, Explore!read
  <2> HIDE DEF Held
  <2> QED
    BY <1>0, <1>1, <2>2, <2>3, <2>4 DEF FeedInv
<1>4. ASSUME NEW l \in FirstPages, NEW out \in Explore!Outcomes, NEW v \in Explore!Versions,
Explore!FirstAnswers(l, out, v)
      PROVE  FeedInv'
  <2>1. fetching' = FALSE
    BY <1>4 DEF Explore!FirstAnswers
  <2>2. MoreFits'
    BY <1>4 DEF Explore!FirstAnswers, MoreFits, ExploreTypes
  <2> QED
    BY <1>4, <2>1, <2>2, FirstPage DEF FeedInv
<1>5. ASSUME NEW out \in Explore!Outcomes, NEW v \in Explore!Versions, Explore!MoreAnswers(out, v)
      PROVE  FeedInv'
  <2>1. UNCHANGED <<fetching, first>> /\ more' = Null
    BY <1>5 DEF Explore!MoreAnswers
  <2>2. MoreFits' /\ Explore!Asked' = Explore!Asked
    BY <2>1 DEF MoreFits, Explore!Asked
  <2> QED
    BY <1>0, <1>5, <2>1, <2>2, FurtherPage DEF FeedInv
<1>6. CASE Explore!LoadMore
  <2>1. UNCHANGED Held /\ UNCHANGED <<fetching, first, spoiled>>
    BY <1>6 DEF Explore!LoadMore, Explore!feed, Explore!read
  <2>2. MoreFits' /\ Explore!Asked' = Explore!Asked
    BY <1>6, <2>1 DEF Explore!LoadMore, MoreFits, Explore!Asked, ExploreTypes
  <2> HIDE DEF Held
  <2> QED
    BY <1>0, <1>1, <2>1, <2>2 DEF FeedInv
<1>7. CASE Explore!Hydrate
  <2>1. (fetching' = FALSE /\ spoiled' = TRUE) \/ (UNCHANGED Held /\ UNCHANGED <<fetching, spoiled>>)
    BY <1>7 DEF Explore!Hydrate
  <2>2. UNCHANGED <<query, offset, first, more>>
    BY <1>7 DEF Explore!Hydrate
  <2>3. MoreFits' /\ Explore!Asked' = Explore!Asked
    BY <1>0, <2>1, <2>2 DEF MoreFits, Explore!Asked
  <2> HIDE DEF Held
  <2> QED
    BY <1>0, <1>1, <2>1, <2>3 DEF FeedInv
<1>8. ASSUME NEW k \in poisoned, Explore!Expires(k)
      PROVE  FeedInv'
  <2>1. UNCHANGED Held /\ UNCHANGED <<fetching, first, more, spoiled>>
    BY <1>8 DEF Explore!Expires, Explore!feed, Explore!read
  <2>2. MoreFits' /\ Explore!Asked' = Explore!Asked
    BY <1>0, <2>1 DEF MoreFits, Explore!Asked
  <2> HIDE DEF Held
  <2> QED
    BY <1>0, <1>1, <2>1, <2>2 DEF FeedInv
<1>9. ASSUME NEW q \in Queries, NEW k \in Explore!Entries, Explore!Edit(q, k)
      PROVE  FeedInv'
  <2>1. UNCHANGED <<query, items, offset, hasMore, fetching, first, more, since, asOf, dated,
                    spoiled, excused>>
    BY <1>9 DEF Explore!Edit, Explore!feed, Explore!read
  <2>2. \A v \in Explore!Versions : table'[v] = table[v]
    BY <1>9, Edited
  <2>3. since \in Explore!Versions /\ asOf \in Explore!Versions /\ \A v \in since .. asOf : v \in Explore!Versions
    <3>1. Len(table) \in Nat /\ since \in 1 .. Len(table) /\ asOf \in 1 .. Len(table)
      BY DEF ExploreTypes, Explore!Versions
    <3> QED
      BY <3>1 DEF Explore!Versions
  <2>4. table'[since'] = table[since] /\ table'[asOf'] = table[asOf] /\ since' .. asOf' = since .. asOf
        /\ \A v \in since .. asOf : table'[v] = table[v]
    BY <2>1, <2>2, <2>3
  <2>5. Explore!Grew' = Explore!Grew /\ Explore!Shrank' = Explore!Shrank
    BY <2>1, <2>4 DEF Explore!Grew, Explore!Shrank
  <2>6. Gapless' = Gapless /\ ReadOut' = ReadOut /\ Repeatless' = Repeatless
    BY <2>1, <2>4, <2>5 DEF Gapless, ReadOut, Repeatless, PlaceNow, Explore!InList
  <2>7. MoreFits' /\ Explore!Asked' = Explore!Asked
    BY <1>0, <2>1 DEF MoreFits, Explore!Asked
  <2> QED
    BY <1>0, <2>1, <2>6, <2>7 DEF FeedInv
<1> QED
  <2>1. ASSUME NEW l \in FirstPages, Explore!Refresh(l)
        PROVE  FeedInv'
    BY <1>3, <2>1 DEF ExploreTypes
  <2> QED
    BY <1>2, <1>3, <1>4, <1>5, <1>6, <1>7, <1>8, <1>9, <2>1 DEF Explore!Next, Explore!Answers

\* The invariant says more than the properties.
LEMMA FeedHolds == ExploreTypes /\ FeedInv => Explore!NoneLeftOut /\ Explore!NoneTwice
<1> SUFFICES ASSUME ExploreTypes, FeedInv PROVE Explore!NoneLeftOut /\ Explore!NoneTwice
  OBVIOUS
<1>1. Explore!Orderly =>
        /\ since <= asOf /\ (excused = FALSE => Gapless /\ ReadOut) /\ Repeatless
  BY DEF Explore!Orderly, FeedInv, ExploreTypes
<1>2. since <= asOf => since \in since .. asOf /\ asOf \in since .. asOf
  BY DEF ExploreTypes, Explore!Versions
<1>3. Explore!NoneLeftOut
  <2> SUFFICES ASSUME Explore!Orderly, ~excused, Explore!Grew, Len(items) < Cap, NEW k \in table[since][query],
                      Explore!Rank(table[asOf][query], k) <= offset + PageSize \/ ~hasMore
               PROVE  Explore!InList(k)
    BY DEF Explore!NoneLeftOut
  <2>1. since <= asOf /\ Gapless /\ ReadOut
    BY <1>1 DEF ExploreTypes
  <2>2. k \in table[asOf][query]
    BY <1>2, <2>1 DEF Explore!Grew
  <2>3. PlaceNow(k) <= offset + PageSize
    BY <2>1, <2>2 DEF ReadOut, PlaceNow, ExploreTypes
  <2> QED
    BY <2>1, <2>3 DEF Gapless
<1>4. Explore!NoneTwice
  BY <1>1 DEF Explore!NoneTwice, Repeatless
<1> QED
  BY <1>3, <1>4

\* The feed leaves out none and shows none twice, always.
LEMMA FeedPaged == Explore!Spec => [](Explore!NoneLeftOut /\ Explore!NoneTwice)
<1>1. Explore!Init => ExploreTypes /\ FeedInv
  BY ExploreStarts
<1>2. ExploreTypes /\ FeedInv /\ [Explore!Next]_(Explore!vars) => ExploreTypes' /\ FeedInv'
  BY ExploreTypesStep, FeedStep
<1> QED
  BY <1>1, <1>2, FeedHolds, PTL DEF Explore!Spec

-----------------------------------------------------------------------------
(* The Reddit feed: RedditFeed *)

\* RedditFeed counts as FiniteSets does.
LEMMA RedditCounts == ASSUME NEW S PROVE Reddit!Cardinality(S) = Cardinality(S)
BY Zenon DEF Reddit!Cardinality, Cardinality

\* The types the proof needs.
RedditTypes ==
    /\ at \in [Reddit!Rows -> 1 .. MaxTime]
    /\ public \subseteq Reddit!Rows /\ started \subseteq public
    /\ merged \in Seq(Reddit!Rows) /\ cursor \in 1 .. Reddit!Never
    /\ chunks = Null \/ (chunks \in [Kinds -> (SUBSET Reddit!Rows) \cup {Null}])
    /\ failed \in BOOLEAN

\* The chunk cs of the endpoint k leaves out rows that were there from the start
\* only for newer ones, and then it is full.
NoGap(k, cs) ==
    \A r \in started : KindOf(r) = k /\ at[r] < cursor =>
        r \in cs \/ (Cardinality(cs) = PageSize /\ \A s \in cs : at[s] >= at[r])

\* What NothingBetween needs: the cursor is the time of a row that is shown, and the
\* chunks that have arrived leave out nothing the merge could miss.
BetweenInv ==
    /\ cursor = Reddit!Never \/ \E i \in DOMAIN merged : at[merged[i]] = cursor
    /\ failed = FALSE /\ chunks # Null =>
         \A k \in Kinds : chunks[k] # Null => NoGap(k, chunks[k])
    /\ failed = FALSE => \A r \in started : at[r] > cursor =>
         \E i \in DOMAIN merged : at[merged[i]] = at[r]

\* Rows are finitely many.
LEMMA RowsFinite ==
    ASSUME NEW S \in SUBSET Reddit!Rows
    PROVE  IsFiniteSet(S) /\ Cardinality(S) \in Nat
<1>1. IsFiniteSet(Reddit!Rows)
  BY FS_Interval, RedditAssumption DEF Reddit!Rows
<1>2. IsFiniteSet(S)
  BY <1>1, FS_Subset
<1> QED
  BY <1>2, FS_CardinalityType

\* What an endpoint answers is full of newer rows where it leaves one out.
LEMMA AnswerFull ==
    ASSUME RedditTypes, NEW k \in Kinds, NEW s \in Reddit!Answers(k)
    PROVE  s \in SUBSET Reddit!Rows /\ NoGap(k, s)
<1> DEFINE older == {r \in public : KindOf(r) = k /\ at[r] < cursor}
<1>1. /\ s \subseteq older
      /\ Cardinality(s) = IF Cardinality(older) < PageSize THEN Cardinality(older) ELSE PageSize
      /\ \A r \in s, t \in older \ s : at[r] >= at[t]
  BY RedditCounts DEF Reddit!Answers
<1>2. older \in SUBSET Reddit!Rows /\ s \in SUBSET Reddit!Rows
  BY <1>1 DEF RedditTypes
<1>3. IsFiniteSet(older) /\ (Cardinality(older) = Cardinality(s) => older = s)
  BY <1>1, <1>2, RowsFinite, FS_Subset
<1>4. ASSUME NEW r \in started, KindOf(r) = k, at[r] < cursor, r \notin s
      PROVE  Cardinality(s) = PageSize /\ \A t \in s : at[t] >= at[r]
  <2>1. r \in older
    BY <1>4 DEF RedditTypes
  <2>2. Cardinality(older) # Cardinality(s)
    BY <1>3, <1>4, <2>1
  <2> HIDE DEF older
  <2> QED
    BY <1>1, <1>4, <2>1, <2>2
<1> QED
  BY <1>2, <1>4 DEF NoGap

\* A sorted sequence and what is kept of it.
LEMMA KeptOf ==
    ASSUME NEW S \in SUBSET Reddit!Rows, NEW m \in Reddit!Sorted(S), RedditTypes
    PROVE  /\ m \in Seq(Reddit!Rows) /\ Len(m) = Cardinality(S) /\ Len(m) \in Nat
           /\ Reddit!Kept(m) \in Seq(Reddit!Rows)
           /\ Len(Reddit!Kept(m)) = IF Len(m) < PageSize THEN Len(m) ELSE PageSize
           /\ \A i \in 1 .. Len(Reddit!Kept(m)) : i \in 1 .. Len(m) /\ Reddit!Kept(m)[i] = m[i]
<1>1. m \in [1 .. Cardinality(S) -> S] /\ Cardinality(S) \in Nat
  BY RowsFinite, RedditCounts DEF Reddit!Sorted
<1>2. m \in Seq(Reddit!Rows) /\ Len(m) = Cardinality(S)
  BY <1>1
<1> DEFINE p == IF Len(m) < PageSize THEN Len(m) ELSE PageSize
<1>3. p \in Nat /\ p <= Len(m) /\ Len(m) \in Nat
  BY <1>1, <1>2, FeedAssumption
<1>4. Reddit!Kept(m) = SubSeq(m, 1, p)
  BY DEF Reddit!Kept
<1> HIDE DEF p
<1>5. SubSeq(m, 1, p) \in Seq(Reddit!Rows) /\ Len(SubSeq(m, 1, p)) = p
      /\ \A i \in 1 .. p : SubSeq(m, 1, p)[i] = m[i]
  BY <1>2, <1>3
<1> QED
  BY <1>2, <1>3, <1>4, <1>5 DEF p

\* Fewer rows than a page are not a page.
LEMMA Crowded ==
    ASSUME NEW S \in SUBSET Reddit!Rows, NEW p \in Nat \ {0}, NEW m,
           \A s \in S : \E i \in 1 .. p - 1 : m[i] = s
    PROVE  Cardinality(S) < p
<1> DEFINE f == [s \in S |-> CHOOSE i \in 1 .. p - 1 : m[i] = s]
<1>1. \A s \in S : f[s] \in 1 .. p - 1 /\ m[f[s]] = s
  OBVIOUS
<1>2. f \in [S -> 1 .. p - 1]
  BY <1>1
<1>3. \A s, t \in S : f[s] = f[t] => s = t
  <2> HIDE DEF f
  <2> QED
    BY <1>1
<1> HIDE DEF f
<1>4. f \in Injection(S, 1 .. p - 1)
  BY <1>2, <1>3 DEF Injection, IsInjective
<1>5. IsFiniteSet(1 .. p - 1) /\ Cardinality(1 .. p - 1) = p - 1
  <2>1. 1 \in Int /\ p - 1 \in Int /\ (IF 1 > p - 1 THEN 0 ELSE (p - 1) - 1 + 1) = p - 1
    OBVIOUS
  <2>2. /\ IsFiniteSet(1 .. p - 1)
        /\ Cardinality(1 .. p - 1) = IF 1 > p - 1 THEN 0 ELSE (p - 1) - 1 + 1
    BY <2>1, FS_Interval
  <2> QED
    BY <2>1, <2>2
<1>6. Cardinality(S) <= Cardinality(1 .. p - 1)
  BY <1>4, <1>5, FS_Injection
<1> QED
  BY <1>5, <1>6, RowsFinite

\* Every step keeps the types.
LEMMA RedditTypesStep == RedditTypes /\ [Reddit!Next]_(Reddit!vars) => RedditTypes'
<1> SUFFICES ASSUME RedditTypes, [Reddit!Next]_(Reddit!vars) PROVE RedditTypes'
  OBVIOUS
<1> USE DEF RedditTypes
<1>1. CASE UNCHANGED Reddit!vars
  BY <1>1 DEF Reddit!vars
<1>2. CASE Reddit!Begin
  BY <1>2 DEF Reddit!Begin, Reddit!Unread
<1>3. ASSUME NEW k \in Kinds, Reddit!Read(k)
      PROVE  RedditTypes'
  <2>1. UNCHANGED <<at, public, merged, cursor, started>> /\ failed' \in BOOLEAN /\ chunks # Null
    BY <1>3 DEF Reddit!Read
  <2>2. (\E s \in SUBSET Reddit!Rows : chunks' = [chunks EXCEPT ![k] = s])
    <3>1. CASE \E s \in Reddit!Answers(k) : chunks' = [chunks EXCEPT ![k] = s]
      BY <3>1, AnswerFull
    <3>2. CASE chunks' = [chunks EXCEPT ![k] = {}]
      BY <3>2
    <3> QED
      BY <1>3, <3>1, <3>2 DEF Reddit!Read
  <2>3. chunks' \in [Kinds -> (SUBSET Reddit!Rows) \cup {Null}]
    BY <2>1, <2>2
  <2> QED
    BY <2>1, <2>3
<1>4. CASE Reddit!Merge
  <2> DEFINE U == UNION {chunks[k] : k \in Kinds}
  <2>1. U \in SUBSET Reddit!Rows
    BY <1>4 DEF Reddit!Merge
  <2>2. PICK m \in Reddit!Sorted(U) : merged' = merged \o Reddit!Kept(m) /\ cursor' = Reddit!NextCursor(m)
    BY <1>4 DEF Reddit!Merge
  <2> HIDE DEF U
  <2>3. Reddit!Kept(m) \in Seq(Reddit!Rows)
    BY <2>1, KeptOf
  <2>4. merged' \in Seq(Reddit!Rows)
    BY <2>2, <2>3
  <2>5. cursor' \in 1 .. Reddit!Never
    <3>1. CASE Reddit!Kept(m) = <<>>
      BY <2>2, <3>1 DEF Reddit!NextCursor
    <3>2. CASE Reddit!Kept(m) # <<>>
      <4>1. Reddit!Kept(m)[Len(Reddit!Kept(m))] \in Reddit!Rows
        BY <2>3, <3>2
      <4>2. cursor' = at[Reddit!Kept(m)[Len(Reddit!Kept(m))]]
        BY <2>2, <3>2 DEF Reddit!NextCursor, Reddit!Last
      <4> QED
        BY <4>1, <4>2, RedditAssumption DEF Reddit!Never
    <3> QED
      BY <3>1, <3>2
  <2> QED
    BY <1>4, <2>4, <2>5 DEF Reddit!Merge
<1>5. CASE Reddit!Lost
  BY <1>5 DEF Reddit!Lost
<1>6. ASSUME NEW r \in Reddit!Rows, Reddit!Edit(r)
      PROVE  RedditTypes'
  BY <1>6 DEF Reddit!Edit
<1> QED
  BY <1>1, <1>2, <1>3, <1>4, <1>5, <1>6 DEF Reddit!Next

\* A merge skips nothing.
LEMMA MergeKeeps ==
    ASSUME RedditTypes, BetweenInv, failed = FALSE, chunks # Null,
           \A k \in Kinds : chunks[k] # Null,
           NEW m \in Reddit!Sorted(UNION {chunks[k] : k \in Kinds}),
           NEW r \in started, at[r] > Reddit!NextCursor(m)
    PROVE  \E i \in DOMAIN (merged \o Reddit!Kept(m)) : at[(merged \o Reddit!Kept(m))[i]] = at[r]
<1> DEFINE U == UNION {chunks[k] : k \in Kinds}
           p == Len(Reddit!Kept(m))
           new == merged \o Reddit!Kept(m)
<1>0. U \in SUBSET Reddit!Rows /\ chunks \in [Kinds -> (SUBSET Reddit!Rows) \cup {Null}]
      /\ \A k \in Kinds : chunks[k] \in SUBSET Reddit!Rows /\ chunks[k] \subseteq U
  BY DEF RedditTypes
<1>1. /\ m \in [1 .. Cardinality(U) -> U]
      /\ \A i, j \in DOMAIN m : i < j => Reddit!Before(m[i], m[j])
      /\ \A t \in U : \E i \in DOMAIN m : m[i] = t
  BY RedditCounts DEF Reddit!Sorted
<1> HIDE DEF U
<1>2. /\ m \in Seq(Reddit!Rows) /\ Len(m) = Cardinality(U) /\ Len(m) \in Nat
      /\ Reddit!Kept(m) \in Seq(Reddit!Rows)
      /\ p = IF Len(m) < PageSize THEN Len(m) ELSE PageSize
      /\ \A i \in 1 .. p : i \in 1 .. Len(m) /\ Reddit!Kept(m)[i] = m[i]
  <2>1. m \in Reddit!Sorted(U)
    BY DEF U
  <2> QED
    BY <1>0, <2>1, KeptOf
<1>3. p \in Nat /\ p <= PageSize /\ p <= Len(m) /\ PageSize \in Nat \ {0} /\ DOMAIN m = 1 .. Len(m)
  BY <1>1, <1>2, FeedAssumption
<1>4. /\ \A i \in DOMAIN merged : i \in DOMAIN new /\ new[i] = merged[i]
      /\ \A i \in 1 .. p : Len(merged) + i \in DOMAIN new /\ new[Len(merged) + i] = m[i]
  <2>1. merged \in Seq(Reddit!Rows) /\ Len(merged) \in Nat
    BY DEF RedditTypes
  <2>2. /\ DOMAIN merged = 1 .. Len(merged)
        /\ DOMAIN new = 1 .. Len(merged) + p
        /\ \A i \in 1 .. Len(merged) + p :
             new[i] = IF i <= Len(merged) THEN merged[i] ELSE Reddit!Kept(m)[i - Len(merged)]
    <3> DEFINE t == Reddit!Kept(m)
    <3>1. t \in Seq(Reddit!Rows) /\ Len(t) = p /\ p \in Nat
      BY <1>2, <1>3
    <3> HIDE DEF t, p
    <3>2. /\ Len(merged \o t) = Len(merged) + Len(t) /\ merged \o t \in Seq(Reddit!Rows)
          /\ \A i \in 1 .. Len(merged) + Len(t) :
               (merged \o t)[i] = IF i <= Len(merged) THEN merged[i] ELSE t[i - Len(merged)]
      BY <2>1, <3>1, ConcatProperties
    <3> QED
      BY <2>1, <3>1, <3>2 DEF t
  <2> HIDE DEF new, p
  <2>3. ASSUME NEW i \in 1 .. p
        PROVE  Len(merged) + i \in DOMAIN new /\ new[Len(merged) + i] = m[i]
    <3>1. Len(merged) + i \in 1 .. Len(merged) + p /\ ~(Len(merged) + i <= Len(merged))
          /\ (Len(merged) + i) - Len(merged) = i
      BY <1>3, <2>1
    <3>2. new[Len(merged) + i] = Reddit!Kept(m)[i]
      BY <2>2, <3>1
    <3> QED
      BY <1>2, <2>2, <3>1, <3>2
  <2>4. ASSUME NEW i \in DOMAIN merged
        PROVE  i \in DOMAIN new /\ new[i] = merged[i]
    BY <1>3, <2>1, <2>2
  <2> QED
    BY <2>3, <2>4
<1>5. CASE \E i \in DOMAIN merged : at[merged[i]] = at[r]
  BY <1>4, <1>5
<1>6. CASE \E i \in 1 .. p : at[m[i]] = at[r]
  BY <1>4, <1>6
<1> HIDE DEF new, p
<1>7. r \in Reddit!Rows /\ at[r] \in 1 .. MaxTime /\ cursor \in 1 .. Reddit!Never
  BY DEF RedditTypes
<1>8. CASE p = 0
  <2>1. Reddit!Kept(m) = <<>>
    BY <1>2, <1>8 DEF p
  <2>2. at[r] > cursor
    BY <2>1 DEF Reddit!NextCursor
  <2> QED
    BY <1>5, <2>2 DEF BetweenInv
<1>9. CASE at[r] >= cursor
  <2>1. CASE at[r] > cursor
    BY <1>5, <2>1 DEF BetweenInv
  <2>2. CASE at[r] = cursor
    <3>1. cursor # Reddit!Never
      BY <1>7, <2>2, RedditAssumption DEF Reddit!Never
    <3> QED
      BY <1>5, <2>2, <3>1 DEF BetweenInv
  <2> QED
    BY <1>7, <1>9, <2>1, <2>2
<1>10. CASE p # 0 /\ at[r] < cursor
  <2>1. p \in 1 .. p /\ p \in 1 .. Len(m) /\ m[p] \in Reddit!Rows /\ at[m[p]] \in 1 .. MaxTime
    BY <1>2, <1>3, <1>10 DEF RedditTypes
  <2>2. at[m[p]] < at[r]
    <3>1. Reddit!Kept(m) # <<>>
      BY <1>2, <1>10 DEF p
    <3>2. Reddit!NextCursor(m) = at[m[p]]
      BY <1>2, <2>1, <3>1 DEF Reddit!NextCursor, Reddit!Last, p
    <3> QED
      BY <1>7, <2>1, <3>2
  <2>3. ASSUME NEW t \in U, at[t] >= at[r]
        PROVE  \E i \in 1 .. p - 1 : m[i] = t
    <3>1. PICK i \in 1 .. Len(m) : m[i] = t
      BY <1>1, <1>3
    <3>2. at[t] \in 1 .. MaxTime
      BY <1>0 DEF RedditTypes
    <3>3. i # p
      BY <1>7, <2>1, <2>2, <2>3, <3>1, <3>2
    <3>4. ~(p < i)
      <4>1. p < i => at[m[p]] >= at[t]
        BY <1>1, <1>3, <2>1, <3>1, <3>2 DEF Reddit!Before
      <4> QED
        BY <1>7, <2>1, <2>2, <2>3, <3>2, <4>1
    <3>5. i \in 1 .. p - 1
      BY <1>3, <3>3, <3>4
    <3> QED
      BY <3>1, <3>5
  <2> DEFINE k == KindOf(r)
             cs == chunks[k]
  <2>4. k \in Kinds /\ cs \in SUBSET Reddit!Rows /\ cs \subseteq U
    BY <1>0, <1>7, RedditAssumption DEF Reddit!Rows
  <2>5. NoGap(k, cs)
    BY <2>4 DEF BetweenInv
  <2>6. CASE r \in cs
    <3>1. \E i \in 1 .. p - 1 : m[i] = r
      BY <1>7, <2>3, <2>4, <2>6
    <3>2. \E i \in 1 .. p : m[i] = r
      BY <1>3, <3>1
    <3> QED
      BY <1>6, <3>2
  <2>7. CASE Cardinality(cs) = PageSize /\ \A s \in cs : at[s] >= at[r]
    <3>1. \A s \in cs : \E i \in 1 .. p - 1 : m[i] = s
      BY <2>3, <2>4, <2>7
    <3>2. Cardinality(cs) < p
      <4>1. p \in Nat \ {0}
        BY <1>3, <1>10
      <4> HIDE DEF cs
      <4> QED
        BY <2>4, <3>1, <4>1, Crowded
    <3> QED
      BY <1>3, <2>7, <3>2
  <2> QED
    BY <1>10, <2>5, <2>6, <2>7 DEF NoGap
<1> QED
  BY <1>7, <1>8, <1>9, <1>10

\* The invariant holds at first.
LEMMA BetweenStarts == Reddit!Init => RedditTypes /\ BetweenInv
<1> SUFFICES ASSUME Reddit!Init PROVE RedditTypes /\ BetweenInv
  OBVIOUS
<1>1. /\ at \in [Reddit!Rows -> 1 .. MaxTime] /\ public \in SUBSET Reddit!Rows /\ started = public
      /\ merged = <<>> /\ cursor = Reddit!Never /\ chunks = Null /\ failed = FALSE
  BY DEF Reddit!Init
<1>2. Reddit!Never \in 1 .. Reddit!Never /\ \A r \in started : ~(at[r] > cursor)
  BY <1>1, RedditAssumption DEF Reddit!Never
<1>3. RedditTypes
  <2>1. merged \in Seq(Reddit!Rows)
    BY <1>1
  <2>2. public \subseteq Reddit!Rows /\ started \subseteq public /\ cursor \in 1 .. Reddit!Never /\ failed \in BOOLEAN
    BY <1>1, <1>2
  <2> QED
    BY <1>1, <2>1, <2>2 DEF RedditTypes
<1> QED
  BY <1>1, <1>2, <1>3 DEF BetweenInv

\* Every step keeps it; the merge as MergeKeeps says.
LEMMA BetweenStep == RedditTypes /\ RedditTypes' /\ BetweenInv /\ [Reddit!Next]_(Reddit!vars) => BetweenInv'
<1> SUFFICES ASSUME RedditTypes, RedditTypes', BetweenInv, [Reddit!Next]_(Reddit!vars) PROVE BetweenInv'
  OBVIOUS
<1>0. /\ cursor = Reddit!Never \/ \E i \in DOMAIN merged : at[merged[i]] = cursor
      /\ failed = FALSE /\ chunks # Null =>
           \A k \in Kinds : chunks[k] # Null => NoGap(k, chunks[k])
      /\ failed = FALSE => \A r \in started : at[r] > cursor =>
           \E i \in DOMAIN merged : at[merged[i]] = at[r]
  BY DEF BetweenInv
<1>1. CASE UNCHANGED Reddit!vars
  BY <1>1 DEF Reddit!vars, BetweenInv, NoGap
<1>2. CASE Reddit!Begin
  BY <1>0, <1>2 DEF Reddit!Begin, Reddit!Unread, BetweenInv, NoGap
<1>3. ASSUME NEW k \in Kinds, Reddit!Read(k)
      PROVE  BetweenInv'
  <2>1. UNCHANGED <<at, merged, cursor, started>> /\ chunks # Null
        /\ chunks \in [Kinds -> (SUBSET Reddit!Rows) \cup {Null}]
    BY <1>3 DEF Reddit!Read, RedditTypes
  <2>2. failed' = FALSE => failed = FALSE /\ \E s \in Reddit!Answers(k) : chunks' = [chunks EXCEPT ![k] = s]
    BY <1>3 DEF Reddit!Read
  <2>3. ASSUME failed' = FALSE, NEW l \in Kinds, chunks'[l] # Null
        PROVE  NoGap(l, chunks'[l])
    <3>1. PICK s \in Reddit!Answers(k) : chunks' = [chunks EXCEPT ![k] = s]
      BY <2>2, <2>3
    <3>2. CASE l = k
      BY <2>1, <3>1, <3>2, AnswerFull
    <3>3. CASE l # k
      BY <1>0, <2>1, <2>2, <2>3, <3>1, <3>3
    <3> QED
      BY <3>2, <3>3
  <2> QED
    BY <1>0, <2>1, <2>2, <2>3 DEF BetweenInv, NoGap
<1>4. CASE Reddit!Merge
  <2> DEFINE U == UNION {chunks[k] : k \in Kinds}
  <2>1. PICK m \in Reddit!Sorted(U) : merged' = merged \o Reddit!Kept(m) /\ cursor' = Reddit!NextCursor(m)
    BY <1>4 DEF Reddit!Merge
  <2>2. /\ chunks # Null /\ \A k \in Kinds : chunks[k] # Null
        /\ chunks' = Null /\ UNCHANGED <<at, started, failed>>
    BY <1>4 DEF Reddit!Merge
  <2>3. ASSUME failed = FALSE, NEW r \in started, at[r] > cursor'
        PROVE  \E i \in DOMAIN merged' : at[merged'[i]] = at[r]
    BY <2>1, <2>2, <2>3, MergeKeeps
  <2>4. cursor' = Reddit!Never \/ \E i \in DOMAIN merged' : at[merged'[i]] = cursor'
    <3>1. U \in SUBSET Reddit!Rows
      BY <2>2 DEF RedditTypes
    <3> HIDE DEF U
    <3> DEFINE t == Reddit!Kept(m)
    <3>2. t \in Seq(Reddit!Rows) /\ merged \in Seq(Reddit!Rows)
      BY <3>1, KeptOf DEF RedditTypes
    <3>3. cursor' = IF t = <<>> THEN cursor ELSE at[t[Len(t)]]
      BY <2>1 DEF Reddit!NextCursor, Reddit!Last
    <3>4. merged' = merged \o t
      BY <2>1
    <3> HIDE DEF t
    <3>5. /\ Len(merged \o t) = Len(merged) + Len(t) /\ merged \o t \in Seq(Reddit!Rows)
          /\ \A i \in 1 .. Len(merged) + Len(t) :
               (merged \o t)[i] = IF i <= Len(merged) THEN merged[i] ELSE t[i - Len(merged)]
      BY <3>2, ConcatProperties
    <3>6. DOMAIN merged' = 1 .. Len(merged) + Len(t) /\ DOMAIN merged = 1 .. Len(merged)
          /\ Len(merged) \in Nat /\ Len(t) \in Nat
      BY <3>2, <3>4, <3>5
    <3>7. CASE t = <<>>
      <4>1. \A i \in DOMAIN merged : i \in DOMAIN merged' /\ merged'[i] = merged[i]
        BY <3>4, <3>5, <3>6
      <4> QED
        BY <1>0, <3>3, <3>7, <4>1
    <3>8. CASE t # <<>>
      <4> DEFINE i == Len(merged) + Len(t)
      <4>1. Len(t) # 0
        BY <3>2, <3>8
      <4>2. i \in 1 .. Len(merged) + Len(t) /\ ~(i <= Len(merged)) /\ i - Len(merged) = Len(t)
        BY <3>6, <4>1
      <4> HIDE DEF i
      <4>3. i \in DOMAIN merged' /\ merged'[i] = t[Len(t)]
        BY <3>4, <3>5, <3>6, <4>2
      <4> QED
        BY <3>3, <3>8, <4>3
    <3> QED
      BY <2>2, <3>7, <3>8
  <2> QED
    BY <2>2, <2>3, <2>4 DEF BetweenInv
<1>5. CASE Reddit!Lost
  BY <1>0, <1>5 DEF Reddit!Lost, BetweenInv
<1>6. ASSUME NEW r \in Reddit!Rows, Reddit!Edit(r)
      PROVE  BetweenInv'
  <2>1. started' \subseteq started /\ UNCHANGED <<at, merged, cursor, chunks, failed>>
    BY <1>6 DEF Reddit!Edit
  <2> QED
    BY <1>0, <2>1 DEF BetweenInv, NoGap
<1> QED
  BY <1>1, <1>2, <1>3, <1>4, <1>5, <1>6 DEF Reddit!Next

\* Nothing is skipped between two pages.
LEMMA NothingSkipped == Reddit!Spec => []Reddit!NothingBetween
<1>1. Reddit!Init => RedditTypes /\ BetweenInv
  BY BetweenStarts
<1>2. RedditTypes /\ BetweenInv /\ [Reddit!Next]_(Reddit!vars) => RedditTypes' /\ BetweenInv'
  BY RedditTypesStep, BetweenStep
<1>3. RedditTypes /\ BetweenInv => Reddit!NothingBetween
  BY DEF RedditTypes, BetweenInv, Reddit!NothingBetween
<1> QED
  BY <1>1, <1>2, <1>3, PTL DEF Reddit!Spec

-----------------------------------------------------------------------------
(* The results, of the properties as ClientPages names them *)

\* The path held and posted, and what is uploaded and scanned, are of the
\* chosen document, unless it was changed while a call was under way.
THEOREM OwnDocumentHolds == Document!Spec => []OwnDocument
BY DocumentOwn, PTL DEF OwnDocument

\* A photo that was chosen and not taken out is in the form, whatever is being
\* checked, cropped, restored or saved, but for the overlaps "lost" names.
THEOREM PhotosStay == Gallery!Spec => []PhotosKept
BY NoPhotoLost, PTL DEF PhotosKept

\* No photo is in two listings, whatever requests are lost and however often
\* the form is opened, but for the ways "again" names.
THEOREM NothingPostedTwice == Gallery!Spec => []PostedOnce
BY NotPostedTwice, PTL DEF PostedOnce

\* Unless an answer came late or from an older cache, or a request failed, no
\* listing that the chosen query had when its first page was read is left out of
\* the explore feed, in either client, as long as listings are only approved
\* meanwhile and the feed is not full.
THEOREM NothingLeftOut == Explore!Spec => []NoneLeftOut
BY FeedPaged, PTL DEF NoneLeftOut

\* Unless an answer came late or from an older cache, no listing is twice in the
\* explore feed, in either client, as long as listings are only removed meanwhile.
THEOREM NothingTwice == Explore!Spec => []NoneTwice
BY FeedPaged, PTL DEF NoneTwice

\* Unless an endpoint failed, a row that was there when the Reddit feed was opened
\* and is newer than the cursor is shown, or another of its time is, however the
\* four endpoints answer and whatever is approved or withdrawn meanwhile.
THEOREM RedditSkipsNothing == Reddit!Spec => []NothingBetween
BY NothingSkipped, PTL DEF NothingBetween
=============================================================================
