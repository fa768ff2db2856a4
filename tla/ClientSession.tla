---------------------------- MODULE ClientSession ----------------------------
(***************************************************************************)
(* The session of one browser tab: context/AuthContext.js,                 *)
(* utils/authService.js, utils/supabaseClient.js and the part of           *)
(* utils/apiClient.js that obtains and renews a token.                     *)
(*                                                                         *)
(* The identity of the signed-in account is kept in six places: the        *)
(* Supabase client's session, two slots of sessionStorage, the refresh     *)
(* token in one of them, the two minute cache of /api/auth/me and the user *)
(* of the React context.  Several asynchronous flows write them.  A flow   *)
(* runs between two awaits in one step; pc says what it is waiting for.    *)
(* Servers answer in any order, and whether a token is still good is the   *)
(* server's and the clock's choice.                                        *)
(***************************************************************************)
CONSTANTS
    Users,      \* accounts
    Serials,    \* what tells two tokens of one account apart
    Flows,      \* bound: the flows that are started at all
    Null        \* nothing stored, nobody shown

Token  == [owner : Users, serial : Serials]

\* checkSession, syncWithSupabase, the auth listener, the log-in page, the
\* OAuth callback page, signOut, and one request of apiClient.
Actors == {"mount", "sync", "listener", "login", "oauth", "signout", "api"}

ASSUME SessionAssumption ==
    /\ Flows \subseteq Actors
    /\ Null \notin Users \cup Actors \cup Token

VARIABLES
    sb,         \* the Supabase client's session
    stored,     \* supabase_access_token
    authData,   \* authData: an access token and perhaps a refresh token
    cache,      \* dph_current_user_cache
    user,       \* user of AuthContext
    loading,    \* isLoading of AuthContext
    checking,   \* isAuthCheckingRef
    shared,     \* currentUserRequestPromise: the actor that sent the request
    flow,       \* per actor: where it stands
    event,      \* the session the listener was called with
    forced,     \* forceBackendCheck of the running sync
    seen,       \* the user the running sync closed over
    owner,      \* history: the account last signed in, if not signed out
    tainted     \* history: flows of two accounts overlapped, see Overlap

store   == <<stored, authData>>
session == <<sb, store, cache, user, loading, checking>>
args    == <<event, forced, seen>>
history == <<owner, tainted>>
vars    == <<session, shared, flow, args, history>>

\* A refresh token is told apart like the access token it is issued with.
AuthData == [access : Token, refresh : Token \cup {Null}]

Steps == {"start", "idle", "me", "told", "sync", "refresh", "validate",
          "rerefresh", "login", "listener", "logout", "sbout", "sbrefresh",
          "refresh0", "fetch", "refresh1", "fetch2"}

\* What getCurrentUser returned (ans, who), or the token of the request the
\* flow waits for.
Answers == {"none", "user", "expired", "error", "rejected"}
Flow == [at : Steps, tok : Token \cup {Null}, ans : Answers,
         who : Users \cup {Null}]

At(s)          == [at |-> s, tok |-> Null, ans |-> "none", who |-> Null]
Awaiting(s, t) == [At(s) EXCEPT !.tok = t]
Told(a, u)     == [At("told") EXCEPT !.ans = a, !.who = u]

TypeOK ==
    /\ sb \in Token \cup {Null}
    /\ stored \in Token \cup {Null}
    /\ authData \in AuthData \cup {Null}
    /\ cache \in Users \cup {Null}
    /\ user \in Users \cup {Null}
    /\ loading \in BOOLEAN /\ checking \in BOOLEAN /\ forced \in BOOLEAN
    /\ shared \in Actors \cup {Null}
    /\ flow \in [Actors -> Flow]
    /\ event \in Token \cup {Null}
    /\ seen \in Users \cup {Null}
    /\ owner \in Users \cup {Null}
    /\ tainted \in BOOLEAN

\* A tab opened afresh, or reloaded by an account whose tokens are still in
\* sessionStorage (of a password log-in, or of a Supabase session).
Init ==
    /\ \E u \in Users, s \in Serials, withSb, cached \in BOOLEAN :
         LET t == [owner |-> u, serial |-> s] IN
         \/ /\ stored = t /\ owner = u
            /\ sb = IF withSb THEN t ELSE Null
            /\ authData = [access |-> t, refresh |-> IF withSb THEN Null ELSE t]
            /\ cache = IF cached THEN u ELSE Null
         \/ /\ stored = Null /\ owner = Null /\ sb = Null
            /\ authData = Null /\ cache = Null
    /\ user = Null
    /\ loading = TRUE
    /\ checking = FALSE
    /\ shared = Null
    /\ flow = [a \in Actors |-> At(IF a = "mount" THEN "start" ELSE "idle")]
    /\ event = Null
    /\ forced = FALSE
    /\ seen = Null
    /\ tainted = FALSE

-----------------------------------------------------------------------------
(***************************************************************************)
(* utils/authService.js and syncStoredAccessToken                          *)
(***************************************************************************)
SaveLogin(t) ==
    /\ authData' = [access |-> t, refresh |-> t]
    /\ stored' = t

\* Mutant: a token that authData holds is kept.
SetAuthHeaderSlot(t) ==
    /\ authData' = IF authData = Null THEN [access |-> t, refresh |-> Null] ELSE authData
    /\ stored' = t

SetAuthHeader(t) ==
    /\ authData' = [access |-> t,
                    refresh |-> IF authData = Null THEN Null ELSE authData.refresh]
    /\ stored' = t

SyncStored(t) ==
    /\ stored' = t
    /\ authData' = IF authData = Null THEN Null
                   ELSE [authData EXCEPT !.access = t]

\* Mutant: the cached user is kept.
ClearTokens ==
    /\ stored' = Null
    /\ authData' = Null
    /\ cache' = cache

ClearAuthData ==
    /\ stored' = Null
    /\ authData' = Null
    /\ cache' = Null

\* A token is never issued twice.
Issued(u) == {t \in Token : t.owner = u /\ t # sb /\ t # stored}

\* The flows f with actor a moved to r.
Move(f, a, r) == [f EXCEPT ![a] = r]

\* getCurrentUser up to its first await.  f: where the flows stand, s: the
\* token in storage.  An actor that joins another's request waits for no
\* token of its own.
AskMe(f, a, force, s) ==
    \/ /\ s = Null
       /\ flow' = Move(f, a, Told("none", Null))
       /\ UNCHANGED shared
    \/ /\ s # Null /\ ~force /\ cache # Null
       /\ flow' = Move(f, a, Told("user", cache))
       /\ UNCHANGED shared
    \/ /\ s # Null /\ ~force /\ cache = Null /\ shared # Null
       /\ flow' = Move(f, a, At("me"))
       /\ UNCHANGED shared
    \/ /\ s # Null /\ (force \/ (cache = Null /\ shared = Null))
       /\ flow' = Move(f, a, Awaiting("me", s))
       /\ shared' = IF force THEN shared ELSE a

\* The answer to a's request; those that joined it get what the promise
\* itself settles with.
Joined(a) == {b \in Actors : shared = a /\ flow[b] = At("me")}

Resolve(a, own, others) ==
    /\ flow' = [b \in Actors |-> IF b = a THEN own
                                 ELSE IF b \in Joined(a) THEN others ELSE flow[b]]
    /\ shared' = IF shared = a THEN Null ELSE shared

\* While a sign-out is between its two halves, whatever else happens may put
\* back what the first half removed.
Meanwhile ==
    /\ tainted' = (tainted \/ flow["signout"].at = "sbout")
    /\ UNCHANGED owner

\* The server answers /api/auth/me.
MeAnswer(a) ==
    LET t == flow[a].tok IN
    /\ flow[a].at = "me" /\ t # Null
    /\ \/ /\ cache' = t.owner
          /\ Resolve(a, Told("user", t.owner), Told("user", t.owner))
          /\ UNCHANGED store
       \/ /\ ClearAuthData                  \* 401: expired, invalid, unauthorized
          /\ Resolve(a, Told("expired", Null), Told("rejected", Null))
       \/ /\ Resolve(a, Told("error", Null), Told("rejected", Null))
          /\ UNCHANGED <<store, cache>>
    /\ Meanwhile
    /\ UNCHANGED <<sb, user, loading, checking, args>>

\* Two minutes later the cached user no longer counts.
CacheExpires ==
    /\ cache # Null /\ cache' = Null
    /\ Meanwhile
    /\ UNCHANGED <<sb, store, user, loading, checking, shared, flow, args>>

-----------------------------------------------------------------------------
(***************************************************************************)
(* syncWithSupabase                                                        *)
(***************************************************************************)
\* Called by actor a, which then waits for it; u is the user its caller was
\* rendered with.  A second call while one runs returns at once.
StartSync(a, after, force, u) ==
    IF checking
    THEN /\ flow' = Move(flow, a, At(after))
         /\ loading' = (loading /\ a # "mount")
         /\ UNCHANGED <<checking, forced, seen>>
    ELSE /\ flow' = Move(Move(flow, a, At("sync")), "sync", At("refresh"))
         /\ checking' = TRUE /\ forced' = force /\ seen' = u
         /\ UNCHANGED loading

\* finally: the guard is released and the caller goes on.
EndSync ==
    /\ flow' = [a \in Actors |->
                   IF a = "sync" THEN At("idle")
                   ELSE IF flow[a].at # "sync" THEN flow[a]
                   ELSE At(IF a = "login" THEN "start" ELSE "idle")]
    /\ checking' = FALSE
    /\ loading' = (loading /\ flow["mount"].at # "sync")
    /\ seen' = Null /\ forced' = FALSE

\* A page that calls it by itself when it mounts (the listing forms).
PageSync(force) ==
    /\ "sync" \in Flows /\ ~checking
    /\ flow' = Move(flow, "sync", At("refresh"))
    /\ checking' = TRUE /\ forced' = force /\ seen' = user
    /\ Meanwhile
    /\ UNCHANGED <<sb, store, cache, user, loading, shared, event>>

\* The Supabase client obtains a new token for its session.
Renewed(t) ==
    /\ sb # Null /\ t \in Issued(sb.owner)
    /\ sb' = t
    /\ SetAuthHeader(t)

\* Its server refuses: the session ends (SIGNED_OUT).
SessionLost == sb # Null /\ sb' = Null /\ user' = Null

\* refreshSession returns.
SyncRefreshed ==
    /\ flow["sync"].at = "refresh"
    /\ \/ \E t \in Token : /\ Renewed(t)
                          /\ AskMe(flow, "sync", forced, t)
                          /\ UNCHANGED user
       \/ /\ SessionLost
          /\ AskMe(flow, "sync", forced, stored)
          /\ UNCHANGED store
       \/ /\ AskMe(flow, "sync", forced, stored)
          /\ UNCHANGED <<sb, user, store>>
    /\ Meanwhile
    /\ UNCHANGED <<cache, loading, checking, args>>

\* The backend's user, else the Supabase session's, else the stored token is
\* put to the test.
SyncTold ==
    /\ flow["sync"].at = "told"
    /\ \/ /\ flow["sync"].ans = "user"
          /\ user' = flow["sync"].who
          /\ EndSync
          /\ UNCHANGED store
       \/ /\ flow["sync"].ans # "user" /\ sb # Null
          /\ user' = sb.owner
          /\ SetAuthHeader(sb)
          /\ EndSync
       \/ /\ flow["sync"].ans # "user" /\ sb = Null /\ stored # Null
          /\ flow' = Move(flow, "sync", Awaiting("validate", stored))
          /\ UNCHANGED <<user, store, checking, loading, forced, seen>>
       \/ /\ flow["sync"].ans # "user" /\ sb = Null
          /\ stored = Null \/ seen # Null     \* seen.access_token is set
          /\ EndSync
          /\ UNCHANGED <<user, store>>
    /\ Meanwhile
    /\ UNCHANGED <<sb, cache, shared, event>>

SyncValidated ==
    /\ flow["sync"].at = "validate"
    /\ \/ /\ user' = IF seen # Null THEN seen ELSE flow["sync"].tok.owner
          /\ SetAuthHeader(flow["sync"].tok)
          /\ EndSync
          /\ UNCHANGED cache
       \/ /\ ClearAuthData
          /\ IF seen # Null
             THEN /\ flow' = Move(flow, "sync", At("rerefresh"))
                  /\ UNCHANGED <<checking, loading, forced, seen>>
             ELSE EndSync
          /\ UNCHANGED user
       \/ /\ seen # Null                      \* the request failed
          /\ EndSync
          /\ UNCHANGED <<user, store, cache>>
    /\ Meanwhile
    /\ UNCHANGED <<sb, shared, event>>

SyncRerefreshed ==
    /\ flow["sync"].at = "rerefresh"
    /\ \/ \E t \in Token : Renewed(t) /\ user' = seen
       \/ SessionLost /\ UNCHANGED store
       \/ UNCHANGED <<sb, store, user>>
    /\ EndSync
    /\ Meanwhile
    /\ UNCHANGED <<cache, shared, event>>

-----------------------------------------------------------------------------
(***************************************************************************)
(* The first check, and the listener                                       *)
(***************************************************************************)
MountStart ==
    /\ flow["mount"].at = "start"
    /\ IF stored # Null THEN SetAuthHeader(stored) ELSE UNCHANGED store
    /\ AskMe(flow, "mount", FALSE, stored)
    /\ Meanwhile
    /\ UNCHANGED <<sb, cache, user, loading, checking, args>>

MountTold ==
    /\ flow["mount"].at = "told"
    /\ user' = IF flow["mount"].ans = "user" THEN flow["mount"].who ELSE user
    /\ StartSync("mount", "idle", FALSE, Null)
    /\ Meanwhile
    /\ UNCHANGED <<sb, store, cache, shared, event>>

Mounted == flow["mount"].at # "start"

\* INITIAL_SESSION, and SIGNED_IN whenever the tab regains the focus.  One
\* call at a time (bound).
ListenerEvent ==
    /\ "listener" \in Flows /\ Mounted
    /\ sb # Null /\ flow["listener"].at = "idle"
    /\ event' = sb
    /\ SetAuthHeader(sb)
    /\ AskMe(flow, "listener", FALSE, sb)
    /\ Meanwhile
    /\ UNCHANGED <<sb, cache, user, loading, checking, forced, seen>>

\* The OAuth callback goes on when the listener it waits for is done.
ListenerTold ==
    /\ flow["listener"].at = "told"
    /\ user' = CASE flow["listener"].ans = "user" -> flow["listener"].who
                 [] flow["listener"].ans \in {"none", "error"} -> event.owner
                 [] OTHER -> user
    /\ flow' = [Move(flow, "listener", At("idle")) EXCEPT
                   !["oauth"] = IF @.at = "listener" THEN At("start") ELSE @]
    /\ event' = Null
    /\ Meanwhile
    /\ UNCHANGED <<sb, store, cache, loading, checking, shared, forced, seen>>

\* TOKEN_REFRESHED: the Supabase client renews its session by itself, or
\* finds that it cannot.
AutoRefresh ==
    /\ Mounted
    /\ \/ \E t \in Token : Renewed(t) /\ UNCHANGED user
       \/ SessionLost /\ UNCHANGED store
    /\ Meanwhile
    /\ UNCHANGED <<cache, loading, checking, shared, flow, args>>

-----------------------------------------------------------------------------
(***************************************************************************)
(* Signing in and out                                                      *)
(***************************************************************************)
\* The flows whose remaining steps write to the session.  A request that has
\* its token and waits for its first answer does not: should it be refused,
\* it renews whatever authData holds by then.
Writes(a) == flow[a].at \notin {"idle", "fetch", "fetch2", "login", "logout"}

\* A sign-in or a sign-out is over while flows of before are still to end,
\* or an account signs in over another.
Overlap(self) == owner # Null \/ \E a \in Actors \ {self} : Writes(a)

\* Login.js: the answer to /api/auth/login is stored, then the context is
\* synced, then /me is read once more.
LoginSubmit ==
    /\ "login" \in Flows
    /\ flow["login"].at = "idle"
    /\ flow' = Move(flow, "login", At("login"))
    /\ Meanwhile
    /\ UNCHANGED <<session, shared, args>>

LoginRefused ==
    /\ flow["login"].at = "login"
    /\ flow' = Move(flow, "login", At("idle"))
    /\ Meanwhile
    /\ UNCHANGED <<session, shared, args>>

LoginAnswer(u) ==
    /\ flow["login"].at = "login"
    /\ \E t \in Issued(u) : SaveLogin(t)
    /\ StartSync("login", "start", TRUE, user)
    /\ owner' = u
    /\ tainted' = (tainted \/ Overlap("login"))
    /\ UNCHANGED <<sb, cache, user, shared, event>>

LoginAskMe ==
    /\ flow["login"].at = "start"
    /\ AskMe(flow, "login", TRUE, stored)
    /\ Meanwhile
    /\ UNCHANGED <<session, args>>

LoginTold ==
    /\ flow["login"].at = "told"
    /\ flow' = Move(flow, "login", At("idle"))
    /\ Meanwhile
    /\ UNCHANGED <<session, shared, args>>

\* AuthCallback.jsx: setSession notifies the listener and waits for it.
OAuthReturn(u) ==
    /\ "oauth" \in Flows /\ Mounted
    /\ flow["oauth"].at = "idle" /\ flow["listener"].at = "idle"
    /\ \E t \in Issued(u) :
         /\ sb' = t /\ event' = t
         /\ SetAuthHeader(t)
         /\ AskMe(Move(flow, "oauth", At("listener")), "listener", FALSE, t)
    /\ owner' = u
    /\ tainted' = (tainted \/ Overlap("oauth"))
    /\ UNCHANGED <<cache, user, loading, checking, forced, seen>>

OAuthSync ==
    /\ flow["oauth"].at = "start"
    /\ StartSync("oauth", "idle", TRUE, user)
    /\ Meanwhile
    /\ UNCHANGED <<sb, store, cache, user, shared, event>>

\* authService.signOut
SignOut ==
    /\ "signout" \in Flows
    /\ flow["signout"].at = "idle" /\ user # Null
    /\ IF stored # Null
       THEN /\ flow' = Move(flow, "signout", At("logout"))
            /\ UNCHANGED <<store, cache>>
       ELSE /\ flow' = Move(flow, "signout", At("sbout"))
            /\ ClearAuthData
    /\ UNCHANGED <<sb, user, loading, checking, shared, args, history>>

\* A failed call clears the storage too, but signOut of the context throws
\* before it comes to the Supabase session and to its user.
LogoutAnswer ==
    /\ flow["signout"].at = "logout"
    /\ ClearAuthData
    /\ \E s \in {"sbout", "idle"} : flow' = Move(flow, "signout", At(s))
    /\ UNCHANGED <<sb, user, loading, checking, shared, args, history>>

\* supabase.auth.signOut returns, and setUser(null).  An error it returns is
\* not looked at, and then the session is still there.
SupabaseSignedOut ==
    /\ flow["signout"].at = "sbout"
    /\ user' = Null
    /\ flow' = Move(flow, "signout", At("idle"))
    /\ owner' = Null
    /\ \/ /\ sb' = Null
          /\ tainted' = (tainted \/ \E a \in Actors \ {"signout"} : Writes(a))
       \/ sb # Null /\ UNCHANGED sb /\ tainted' = TRUE
    /\ UNCHANGED <<store, cache, loading, checking, shared, args>>

-----------------------------------------------------------------------------
(***************************************************************************)
(* apiClient.request: getBestAccessToken, the request, and one renewal     *)
(***************************************************************************)
SendWith(t) ==
    /\ t # Null
    /\ SyncStored(t)
    /\ flow' = Move(flow, "api", Awaiting("fetch", t))

\* No token is usable: one refresh, or the request fails.
RenewOrFail(s) ==
    LET refresh == IF authData = Null THEN Null ELSE authData.refresh IN
    flow' = Move(flow, "api", IF refresh = Null THEN At("idle")
                              ELSE Awaiting(s, refresh))

\* Which of the tokens has expired is the clock's choice.
BestStoredToken ==
    \/ SendWith(stored)
    \/ authData # Null /\ SendWith(authData.access)
    \/ RenewOrFail("refresh0") /\ UNCHANGED store

ApiRequest ==
    /\ "api" \in Flows /\ Mounted
    /\ flow["api"].at = "idle"
    /\ \/ SendWith(sb)
       \/ /\ sb # Null
          /\ flow' = Move(flow, "api", At("sbrefresh"))
          /\ UNCHANGED store
       \/ sb = Null /\ BestStoredToken
    /\ Meanwhile
    /\ UNCHANGED <<sb, cache, user, loading, checking, shared, args>>

\* The session looked expired and refreshSession returns.
ApiSessionRefreshed ==
    /\ flow["api"].at = "sbrefresh"
    /\ \/ \E t \in Token : /\ Renewed(t)
                          /\ flow' = Move(flow, "api", Awaiting("fetch", t))
                          /\ UNCHANGED user
       \/ SessionLost /\ BestStoredToken
       \/ BestStoredToken /\ UNCHANGED <<sb, user>>
    /\ Meanwhile
    /\ UNCHANGED <<cache, loading, checking, shared, args>>

\* authService.refreshToken returns; the request is sent with what it got.
ApiRefreshed ==
    /\ flow["api"].at \in {"refresh0", "refresh1"}
    /\ \/ \E t \in Issued(flow["api"].tok.owner) :
             /\ SaveLogin(t)
             /\ flow' = Move(flow, "api",
                   Awaiting(IF flow["api"].at = "refresh0" THEN "fetch" ELSE "fetch2", t))
       \/ /\ flow' = Move(flow, "api", At("idle"))
          /\ UNCHANGED store
    /\ Meanwhile
    /\ UNCHANGED <<sb, cache, user, loading, checking, shared, args>>

ApiAnswer ==
    /\ flow["api"].at \in {"fetch", "fetch2"}
    /\ \/ flow' = Move(flow, "api", At("idle"))
       \/ flow["api"].at = "fetch" /\ RenewOrFail("refresh1")
    /\ Meanwhile
    /\ UNCHANGED <<session, shared, args>>

-----------------------------------------------------------------------------
Next ==
    \/ CacheExpires \/ \E a \in Actors : MeAnswer(a)
    \/ SyncRefreshed \/ SyncTold \/ SyncValidated \/ SyncRerefreshed
    \/ \E force \in BOOLEAN : PageSync(force)
    \/ MountStart \/ MountTold
    \/ ListenerEvent \/ ListenerTold \/ AutoRefresh
    \/ LoginSubmit \/ LoginRefused \/ LoginAskMe \/ LoginTold
    \/ \E u \in Users : LoginAnswer(u) \/ OAuthReturn(u)
    \/ OAuthSync
    \/ SignOut \/ LogoutAnswer \/ SupabaseSignedOut
    \/ ApiRequest \/ ApiSessionRefreshed \/ ApiRefreshed \/ ApiAnswer

Spec == Init /\ [][Next]_vars

\* Every request is answered or fails in the end, and a promise that settled
\* goes on.  What a user or a page does, nobody promises.
FairSpec == Spec /\ \A a \in Actors : WF_vars(MeAnswer(a))
                 /\ WF_vars(SyncRefreshed) /\ WF_vars(SyncTold)
                 /\ WF_vars(SyncValidated) /\ WF_vars(SyncRerefreshed)
                 /\ WF_vars(MountStart) /\ WF_vars(MountTold)

-----------------------------------------------------------------------------
(***************************************************************************)
(* Properties                                                              *)
(***************************************************************************)
\* The two slots of sessionStorage never hold different access tokens, though
\* eight flows write them: authService and supabaseClient each read another
\* one first.
SlotsAgree == authData # Null => stored = authData.access

OwnersIn(t) == IF t = Null THEN {} ELSE {t.owner}

\* Every account the tab keeps anything of.
Held ==
    (({cache, user} \ {Null}) \cup OwnersIn(sb) \cup OwnersIn(stored))
    \cup (IF authData = Null THEN {}
          ELSE OwnersIn(authData.access) \cup OwnersIn(authData.refresh))

\* As long as no sign-in and no sign-out overlaps with a flow begun before it,
\* everything the tab holds, storage, cache, Supabase session and shown user,
\* is of the account signed in last, and a tab signed out holds nothing.
OneAccount == ~tainted => Held \subseteq ({owner} \ {Null})

\* isLoading and the guard of syncWithSupabase are let go however the flow
\* ends: every page that waits for them goes on.
LoadingEnds == <>(~loading)
CheckingEnds == checking ~> ~checking

\* "Still clear local data even if the API call fails" (authService.js:294):
\* after a failed call no account is left in the tab.
SignOutClears ==
    [][(flow["signout"].at = "logout" /\ flow'["signout"].at = "idle") => Held' = {}]_vars
=============================================================================
