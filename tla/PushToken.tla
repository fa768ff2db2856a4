------------------------------ MODULE PushToken -----------------------------
(***************************************************************************)
(* The mobile app's session (context/AuthContext.js, utils/authService.js) *)
(* and the registration of its device for notifications                    *)
(* (utils/pushNotifications.js) with the server that keeps one row for the *)
(* device (routes/user.py).                                                *)
(*                                                                         *)
(* The device has one push token.  A registration or a withdrawal is a job *)
(* that nobody waits for; jobs, the user and a restart of the app          *)
(* interleave between their awaits.  The two stores of session tokens, of  *)
(* the backend and of Supabase, are emptied one after the other and stand  *)
(* for one here.                                                           *)
(***************************************************************************)
EXTENDS Naturals

CONSTANTS
    Users,
    Jobs,       \* bound: registrations and withdrawals under way at once
    MaxActs,    \* bound: what the user does
    MaxFaults,  \* bound: lost requests and answers
    Null        \* no user

VARIABLES
    user,       \* the user the app shows
    cached,     \* cached_user_v1, the user a cold start shows
    boot,       \* what a cold start has read of it and not shown yet
    asked,      \* the user the backend's answer to checkSession names
    session,    \* whose tokens the device holds
    leaving,    \* how far signOut has come
    pref,       \* dph_push_enabled
    saved,      \* dph_push_token is set
    pushUser,   \* pushUserIdRef
    job,
    row,        \* push_tokens: who the device's row belongs to
    calm,       \* history: jobs ran undisturbed and nobody left a row behind
    barred,     \* history: the last registration got no token from the device
    acts,
    faults

app == <<user, cached, boot, asked, session, leaving, pushUser>>
vars == <<app, pref, saved, job, row, calm, barred, acts, faults>>

Idle == [at |-> "idle", who |-> Null]

TypeOK ==
    /\ {user, cached, boot, asked, session, pushUser, row} \subseteq Users \cup {Null}
    /\ leaving \in {"no", "server", "told", "failed", "cleared"}
    /\ {pref, saved, calm, barred} \subseteq BOOLEAN
    /\ job \in [Jobs -> [at : {"idle", "register", "token", "key", "post", "delete", "insert",
                               "keep", "unregister", "remove", "forget"},
                         who : Users \cup {Null}]]
    /\ \A j \in Jobs : job[j].at \in {"delete", "insert", "keep", "remove"} =>
                       job[j].who \in Users
    /\ acts \in 0 .. MaxActs /\ faults \in 0 .. MaxFaults

Init ==
    /\ user = Null /\ cached = Null /\ boot = Null /\ asked = Null /\ session = Null /\ leaving = "no" /\ pushUser = Null
    /\ pref = TRUE /\ saved = FALSE
    /\ job = [j \in Jobs |-> Idle]
    /\ row = Null
    /\ calm = TRUE /\ barred = FALSE /\ acts = 0 /\ faults = 0

Quiet == \A j \in Jobs : job[j].at = "idle"
Settled == Quiet /\ leaving = "no" /\ boot = Null /\ asked = Null
Act == acts < MaxActs /\ acts' = acts + 1
Fault == faults < MaxFaults /\ faults' = faults + 1

Start(j, kind) == /\ job[j].at = "idle"
                  /\ job' = [job EXCEPT ![j].at = kind]
To(j, step) == job' = [job EXCEPT ![j].at = step]
End(j) == job' = [job EXCEPT ![j] = Idle]

\* The effects of setUser: the snapshot, and a job for whoever came or went.
Shown(j, u) ==
    /\ user' = u /\ cached' = u
    /\ pushUser' = u
    /\ CASE u # Null /\ u # pushUser -> Start(j, "register")
         [] u = Null /\ pushUser # Null -> Start(j, "unregister")
         [] OTHER -> UNCHANGED job

-----------------------------------------------------------------------------
(* What the user does *)

SignIn(j, u) ==
    /\ user = Null /\ session = Null /\ leaving = "no" /\ Act
    /\ session' = u
    /\ Shown(j, u)
    /\ calm' = (calm /\ Settled)
    /\ UNCHANGED <<boot, asked, leaving, pref, saved, row, barred, faults>>

SignOut ==
    /\ user # Null /\ leaving = "no" /\ Act
    /\ leaving' = "server"
    /\ calm' = (calm /\ Settled /\ row = Null)
    /\ UNCHANGED <<user, cached, boot, asked, session, pushUser, pref, saved, job, row, barred,
                   faults>>

Toggle(j) ==
    /\ user # Null /\ Act
    /\ pref' = ~pref
    /\ Start(j, IF pref THEN "unregister" ELSE "register")
    /\ calm' = (calm /\ Settled)
    /\ UNCHANGED <<app, saved, row, barred, faults>>

\* The app is killed and started again: it reads the snapshot and, showing
\* nobody yet, removes it; and it asks the backend who holds its tokens.
Restart ==
    /\ Act
    /\ leaving' = "no"
    /\ user' = Null /\ pushUser' = Null
    /\ boot' = cached /\ cached' = Null
    /\ asked' = session
    /\ job' = [j \in Jobs |-> Idle]
    /\ calm' = (calm /\ Settled)
    /\ UNCHANGED <<session, pref, saved, row, barred, faults>>

-----------------------------------------------------------------------------
(* signOut *)

Answer(ok) ==
    /\ leaving = "server"
    /\ leaving' = IF ok THEN "told" ELSE "failed"
    /\ IF ok THEN UNCHANGED faults ELSE Fault
    /\ UNCHANGED <<user, cached, boot, asked, session, pushUser, pref, saved, job, row, calm,
                   barred, acts>>

MayClear == leaving \in {"told", "failed"}

ClearSession ==
    /\ MayClear
    /\ session' = Null /\ leaving' = "cleared"
    /\ UNCHANGED <<user, cached, boot, asked, pushUser, pref, saved, job, row, calm, barred, acts, faults>>

LeaveDone(j) ==
    /\ leaving = "cleared"
    /\ leaving' = "no"
    /\ Shown(j, Null)
    /\ UNCHANGED <<boot, asked, session, pref, saved, row, calm, barred, acts, faults>>

-----------------------------------------------------------------------------
(* A cold start *)

\* The snapshot is shown unless somebody is.
Rehydrate(j) ==
    /\ boot # Null /\ boot' = Null
    /\ IF user = Null THEN Shown(j, boot) ELSE UNCHANGED <<user, cached, pushUser, job>>
    /\ UNCHANGED <<asked, session, leaving, pref, saved, row, calm, barred, acts, faults>>

\* checkSession: whoever the backend named is shown.  It names nobody to a
\* device without tokens, which is the first failure: what is shown stays.
CheckSession(j) ==
    /\ asked # Null /\ asked' = Null
    /\ Shown(j, asked)
    /\ UNCHANGED <<boot, session, leaving, pref, saved, row, calm, barred, acts, faults>>

\* Its answer is lost and syncWithSupabase asks again.
AskAgain ==
    /\ asked # Null /\ Fault
    /\ asked' = session
    /\ UNCHANGED <<user, cached, boot, session, leaving, pushUser, pref, saved, job, row, calm,
                   barred, acts>>

-----------------------------------------------------------------------------
(* registerForPushNotifications *)

Wanted == pref

CheckPref(j) ==
    /\ job[j].at = "register"
    /\ IF Wanted THEN To(j, "token") ELSE End(j)
    /\ UNCHANGED <<app, pref, saved, row, calm, barred, acts, faults>>

\* The device gives no token: it is a simulator, its user does not grant the
\* permission, or the service that issues tokens fails or sends none.
GetToken(j) ==
    /\ job[j].at = "token"
    /\ \/ To(j, "key") /\ barred' = FALSE
       \/ End(j) /\ barred' = TRUE
    /\ UNCHANGED <<app, pref, saved, row, calm, acts, faults>>

CheckKey(j) ==
    /\ job[j].at = "key"
    /\ IF saved THEN End(j) ELSE To(j, "post")
    /\ UNCHANGED <<app, pref, saved, row, calm, barred, acts, faults>>

\* The request carries the tokens the device holds when it is sent.
Post(j) ==
    /\ job[j].at = "post"
    /\ job' = [job EXCEPT ![j] = IF session = Null THEN Idle
                                 ELSE [at |-> "delete", who |-> session]]
    /\ UNCHANGED <<app, pref, saved, row, calm, barred, acts, faults>>

RowDeleted(j) ==
    /\ job[j].at = "delete"
    /\ row' = Null
    /\ To(j, "insert")
    /\ UNCHANGED <<app, pref, saved, calm, barred, acts, faults>>

\* The token is unique: an insert that meets another's row fails.
RowInserted(j) ==
    /\ job[j].at = "insert"
    /\ IF row = Null THEN row' = job[j].who /\ To(j, "keep")
                     ELSE row' = row /\ End(j)
    /\ UNCHANGED <<app, pref, saved, calm, barred, acts, faults>>

KeepKey(j) ==
    /\ job[j].at = "keep"
    /\ saved' = TRUE
    /\ End(j)
    /\ UNCHANGED <<app, pref, row, calm, barred, acts, faults>>

-----------------------------------------------------------------------------
(* unregisterPushToken *)

\* Mutant: the key is removed and the server is not told.
WithdrawLocally(j) ==
    /\ job[j].at = "unregister"
    /\ To(j, "forget")
    /\ UNCHANGED <<app, pref, saved, row, calm, barred, acts, faults>>

\* Without a key there is nothing to withdraw; without tokens the request is
\* refused before it is sent, and the key stays.
Withdraw(j) ==
    /\ job[j].at = "unregister"
    /\ job' = [job EXCEPT ![j] =
         CASE ~saved -> [Idle EXCEPT !.at = "forget"]
           [] saved /\ session = Null -> Idle
           [] OTHER -> [at |-> "remove", who |-> session]]
    /\ UNCHANGED <<app, pref, saved, row, calm, barred, acts, faults>>

\* The server deletes the row if it is the user's, and says so in any case.
RowRemoved(j) ==
    /\ job[j].at = "remove"
    /\ row' = IF row = job[j].who THEN Null ELSE row
    /\ To(j, "forget")
    /\ UNCHANGED <<app, pref, saved, calm, barred, acts, faults>>

ForgetKey(j) ==
    /\ job[j].at = "forget"
    /\ saved' = FALSE
    /\ End(j)
    /\ UNCHANGED <<app, pref, row, calm, barred, acts, faults>>

\* A request or its answer is lost, or the insert fails: the job ends.
Lost(j) ==
    /\ job[j].at \in {"delete", "insert", "keep", "remove", "forget"} /\ job[j].who # Null
    /\ Fault
    /\ End(j)
    /\ calm' = FALSE
    /\ UNCHANGED <<app, pref, saved, row, barred, acts>>

Work(j) == \/ CheckPref(j) \/ GetToken(j) \/ CheckKey(j) \/ Post(j) \/ RowDeleted(j) \/ RowInserted(j)
           \/ KeepKey(j) \/ Withdraw(j) \/ RowRemoved(j) \/ ForgetKey(j)
Boot(j) == Rehydrate(j) \/ CheckSession(j)
Leave == Answer(TRUE) \/ ClearSession \/ \E j \in Jobs : LeaveDone(j)

Next == \/ \E j \in Jobs, u \in Users : SignIn(j, u)
        \/ SignOut \/ Leave \/ Answer(FALSE) \/ Restart \/ AskAgain
        \/ \E j \in Jobs : Toggle(j) \/ Boot(j) \/ Work(j) \/ Lost(j)

Spec == Init /\ [][Next]_vars
\* Promises settle while the app runs.
FairSpec == /\ Spec /\ WF_vars(Leave)
            /\ \A j \in Jobs : WF_vars(Work(j))
            /\ WF_vars(\E j \in Jobs : Boot(j))

-----------------------------------------------------------------------------
(* Safety *)

\* When all is settled the device is registered for the user it shows only if
\* the switch is on, and then it is unless the last registration got no token:
\* as long as jobs did not overlap, no request was lost and no user left while
\* the device was registered.
FollowsPreference ==
    calm /\ Settled /\ user # Null =>
        /\ row = user => pref
        /\ pref /\ ~barred => row = user

\* A device that takes itself to be registered has a row, unless a job is under
\* way or jobs overlapped: otherwise it would never register again.
KeyHasRow == calm /\ Quiet => (saved <=> row # Null)

-----------------------------------------------------------------------------
(* Liveness *)

\* Signing out ends on the device, whatever becomes of the server's answer.
SignOutEnds == leaving # "no" ~> leaving = "no"

-----------------------------------------------------------------------------
(* What comments say *)

\* "Sync the Expo push token to whichever user is signed in."
RowFollowsUser == Settled /\ faults = 0 => row \in {user, Null}

\* "Remove a push token (device opted out or signed out)."
OptOutRespected == Settled /\ faults = 0 /\ user # Null /\ ~pref => row # user

\* "only on the second consecutive failure."
GhostDropped == user # Null /\ session = Null /\ leaving = "no" ~>
                    user = Null \/ session # Null
=============================================================================
