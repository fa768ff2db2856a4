------------------------ MODULE ClientSession_proofs ------------------------
(***************************************************************************)
(* Proofs about ClientSession, for any number of accounts and tokens and   *)
(* whichever flows are started: types, the agreement of the two slots of   *)
(* sessionStorage, and one account in everything the tab holds.            *)
(***************************************************************************)
EXTENDS ClientSession, TLAPS

-----------------------------------------------------------------------------
(***************************************************************************)
(* Types.  What a flow was started with is there while the flow needs it.  *)
(***************************************************************************)
Syncing == {"refresh", "me", "told", "validate", "rerefresh"}

Places == /\ event # Null <=> flow["listener"].at \in {"me", "told"}
          /\ seen # Null => flow["sync"].at \in Syncing
          /\ flow["sync"].at = "validate" => flow["sync"].tok # Null
          /\ flow["api"].at \in {"refresh0", "refresh1"} => flow["api"].tok # Null

TypeInv == TypeOK /\ Places

\* Where a flow can be put.
LEMMA Standing ==
    ASSUME NEW s \in Steps
    PROVE  /\ At(s) \in Flow
           /\ At(s).at = s /\ At(s).tok = Null /\ At(s).who = Null
BY DEF At, Flow, Answers

LEMMA AwaitingType ==
    ASSUME NEW s \in Steps, NEW t \in Token \cup {Null}
    PROVE  /\ Awaiting(s, t) \in Flow
           /\ Awaiting(s, t).at = s /\ Awaiting(s, t).tok = t /\ Awaiting(s, t).who = Null
BY DEF Awaiting, At, Flow, Answers

LEMMA ToldType ==
    ASSUME NEW a \in Answers, NEW u \in Users \cup {Null}
    PROVE  /\ Told(a, u) \in Flow
           /\ Told(a, u).at = "told" /\ Told(a, u).tok = Null /\ Told(a, u).who = u
BY DEF Told, At, Flow, Answers, Steps

LEMMA TokenType ==
    ASSUME NEW t \in Token
    PROVE  t.owner \in Users /\ t # Null
BY SessionAssumption DEF Token

LEMMA IssuedType ==
    ASSUME NEW u, NEW t \in Issued(u)
    PROVE  t \in Token /\ t.owner = u
BY DEF Issued

\* getCurrentUser starts a request, joins one or returns, for one actor.
LEMMA AskMeStep ==
    ASSUME TypeOK, NEW f \in [Actors -> Flow], NEW a \in Actors, NEW force \in BOOLEAN,
           NEW s \in Token \cup {Null}, AskMe(f, a, force, s)
    PROVE  /\ flow' \in [Actors -> Flow] /\ shared' \in Actors \cup {Null}
           /\ \A b \in Actors \ {a} : flow'[b] = f[b]
           /\ flow'[a].at \in {"me", "told"}
           /\ flow'[a].tok \in {Null, s} /\ flow'[a].who \in {Null, cache}
<1>1. PICK r \in Flow : /\ flow' = [f EXCEPT ![a] = r]
                        /\ r.at \in {"me", "told"}
                        /\ r.tok \in {Null, s} /\ r.who \in {Null, cache}
  <2>1. CASE s = Null /\ flow' = Move(f, a, Told("none", Null))
    BY <2>1, ToldType DEF Answers, Move
  <2>2. CASE flow' = Move(f, a, Told("user", cache))
    BY <2>2, ToldType DEF Answers, Move, TypeOK
  <2>3. CASE flow' = Move(f, a, At("me"))
    BY <2>3, Standing DEF Steps, Move
  <2>4. CASE flow' = Move(f, a, Awaiting("me", s))
    <3> DEFINE r == Awaiting("me", s)
    <3>1. r \in Flow /\ r.at = "me" /\ r.tok = s /\ r.who = Null
      BY AwaitingType DEF Steps
    <3>2. flow' = [f EXCEPT ![a] = r]
      BY <2>4 DEF Move
    <3> HIDE DEF r
    <3> QED
      BY <3>1, <3>2
  <2> QED
    BY <2>1, <2>2, <2>3, <2>4 DEF AskMe
<1>2. shared' \in Actors \cup {Null}
  BY DEF AskMe, TypeOK
<1> QED
  BY <1>1, <1>2

\* An answer moves flows that waited for one.
LEMMA ResolveStep ==
    ASSUME TypeOK, NEW a \in Actors, flow[a].at = "me", NEW own \in Flow, NEW others \in Flow,
           own.at = "told", others.at = "told", Resolve(a, own, others)
    PROVE  /\ flow' \in [Actors -> Flow] /\ shared' \in Actors \cup {Null}
           /\ \A b \in Actors : \/ flow'[b] = flow[b]
                                \/ flow[b].at = "me" /\ flow'[b] \in {own, others}
BY Standing DEF TypeOK, Resolve, Joined, Steps

\* The callers of a sync, and the sync, change places.
LEMMA StartSyncStep ==
    ASSUME TypeOK, NEW a \in {"mount", "login", "oauth"}, NEW after \in {"idle", "start"},
           NEW force \in BOOLEAN, NEW u \in Users \cup {Null}, StartSync(a, after, force, u)
    PROVE  /\ flow' \in [Actors -> Flow]
           /\ loading' \in BOOLEAN /\ checking' \in BOOLEAN /\ forced' \in BOOLEAN
           /\ \A b \in Actors \ {a, "sync"} : flow'[b] = flow[b]
           /\ flow'[a] \in {At(after), At("sync")}
           /\ \/ seen' = seen /\ flow'["sync"] = flow["sync"]
              \/ seen' = u /\ flow'["sync"] = At("refresh")
<1>1. a \in Actors /\ a # "sync" /\ "sync" \in Actors
  BY DEF Actors
<1>2. At("sync") \in Flow /\ At("refresh") \in Flow /\ At(after) \in Flow
  BY Standing DEF Steps
<1>3. CASE checking
  BY <1>1, <1>2, <1>3 DEF StartSync, Move, TypeOK
<1>4. CASE ~checking
  BY <1>1, <1>2, <1>4 DEF StartSync, Move, TypeOK
<1> QED
  BY <1>3, <1>4

LEMMA EndSyncStep ==
    ASSUME TypeOK, EndSync
    PROVE  /\ flow' \in [Actors -> Flow] /\ checking' = FALSE /\ loading' \in BOOLEAN
           /\ seen' = Null /\ forced' = FALSE
           /\ flow'["sync"].at = "idle"
           /\ \A b \in Actors \ {"sync"} :
                flow'[b] = flow[b] \/ (flow[b].at = "sync" /\ flow'[b] \in {At("idle"), At("start")})
<1>1. At("idle") \in Flow /\ At("start") \in Flow /\ At("idle").at = "idle"
  BY Standing DEF Steps
<1>2. "sync" \in Actors
  BY DEF Actors
<1> QED
  BY <1>1, <1>2 DEF EndSync, TypeOK

\* The storage keeps its types.
LEMMA StoreType ==
    ASSUME TypeOK, NEW t \in Token, SetAuthHeader(t) \/ SyncStored(t) \/ SaveLogin(t)
    PROVE  stored' \in Token \cup {Null} /\ authData' \in AuthData \cup {Null}
<1>1. \A r \in Token \cup {Null} : [access |-> t, refresh |-> r] \in AuthData
  BY DEF AuthData
<1>2. authData # Null => authData.refresh \in Token \cup {Null}
  BY DEF TypeOK, AuthData
<1>3. CASE SetAuthHeader(t)
  BY <1>1, <1>2, <1>3 DEF SetAuthHeader
<1>4. CASE SyncStored(t)
  BY <1>4 DEF SyncStored, TypeOK, AuthData
<1>5. CASE SaveLogin(t)
  BY <1>1, <1>5 DEF SaveLogin
<1> QED
  BY <1>3, <1>4, <1>5

\* A flow that goes on elsewhere, with what it needs there.
LEMMA MoveType ==
    ASSUME TypeInv, NEW a \in Actors \ {"listener"}, NEW r \in Flow, flow' = Move(flow, a, r),
           a = "sync" => r.at \in Syncing /\ (r.at = "validate" => r.tok # Null),
           a = "api" /\ r.at \in {"refresh0", "refresh1"} => r.tok # Null,
           UNCHANGED <<event, seen>>
    PROVE  flow' \in [Actors -> Flow] /\ Places'
<1>1. "listener" \in Actors /\ "sync" \in Actors /\ "api" \in Actors
  BY DEF Actors
<1>2. flow' = [flow EXCEPT ![a] = r] /\ flow \in [Actors -> Flow]
  BY DEF Move, TypeInv, TypeOK
<1> QED
  BY <1>1, <1>2 DEF TypeInv, Places

\* A step after which the flows and what they were started with are the same.
LEMMA SamePlaces ==
    ASSUME Places, UNCHANGED <<flow, event, seen>>
    PROVE  Places'
BY DEF Places

\* Answers to /api/auth/me, and the cache's two minutes.
LEMMA AnswerTypes ==
    ASSUME TypeInv, CacheExpires \/ \E a \in Actors : MeAnswer(a)
    PROVE  TypeInv'
<1> USE DEF args, store, history, Meanwhile
<1>1. CASE CacheExpires
  BY <1>1, SamePlaces DEF CacheExpires, TypeInv, TypeOK
<1>2. ASSUME NEW a \in Actors, MeAnswer(a)
      PROVE  TypeInv'
  <2> DEFINE t == flow[a].tok
  <2>1. t \in Token /\ t.owner \in Users /\ flow[a].at = "me"
    BY <1>2, TokenType DEF MeAnswer, TypeInv, TypeOK, Flow
  <2>2. PICK own \in Flow, others \in Flow :
           own.at = "told" /\ others.at = "told" /\ Resolve(a, own, others)
    <3>1. /\ Told("user", t.owner) \in Flow /\ Told("expired", Null) \in Flow
          /\ Told("rejected", Null) \in Flow /\ Told("error", Null) \in Flow
          /\ Told("user", t.owner).at = "told" /\ Told("expired", Null).at = "told"
          /\ Told("rejected", Null).at = "told" /\ Told("error", Null).at = "told"
      BY <2>1, ToldType DEF Answers
    <3> HIDE DEF t
    <3>2. \/ Resolve(a, Told("user", t.owner), Told("user", t.owner))
          \/ Resolve(a, Told("expired", Null), Told("rejected", Null))
          \/ Resolve(a, Told("error", Null), Told("rejected", Null))
      BY <1>2 DEF MeAnswer, t
    <3> QED
      BY <3>1, <3>2, Zenon
  <2>3. /\ flow' \in [Actors -> Flow] /\ shared' \in Actors \cup {Null}
        /\ \A b \in Actors : \/ flow'[b] = flow[b]
                             \/ flow[b].at = "me" /\ flow'[b].at = "told"
    BY <2>1, <2>2, ResolveStep DEF TypeInv
  <2>4. UNCHANGED <<event, seen, forced, sb, user, loading, checking>>
    BY <1>2 DEF MeAnswer
  <2>5. Places'
    BY <2>3, <2>4 DEF TypeInv, Places, Syncing, Actors
  <2>6. stored' \in Token \cup {Null} /\ authData' \in AuthData \cup {Null}
        /\ cache' \in Users \cup {Null}
    BY <1>2, <2>1 DEF MeAnswer, ClearAuthData, TypeInv, TypeOK
  <2>7. owner' \in Users \cup {Null} /\ tainted' \in BOOLEAN
    BY <1>2 DEF MeAnswer, TypeInv, TypeOK
  <2> QED
    BY <2>3, <2>4, <2>5, <2>6, <2>7 DEF TypeInv, TypeOK
<1> QED
  BY <1>1, <1>2

\* A renewed or a lost session of the Supabase client.
LEMMA RenewedType ==
    ASSUME TypeOK, NEW t \in Token, Renewed(t)
    PROVE  /\ sb' = t /\ sb # Null /\ t.owner = sb.owner
           /\ stored' \in Token \cup {Null} /\ authData' \in AuthData \cup {Null}
BY StoreType, IssuedType DEF Renewed

\* syncWithSupabase keeps the types.
LEMMA SyncTypes ==
    ASSUME TypeInv,
           \/ SyncRefreshed \/ SyncTold \/ SyncValidated \/ SyncRerefreshed
           \/ \E force \in BOOLEAN : PageSync(force)
    PROVE  TypeInv'
<1> USE DEF args, store, history, Meanwhile
<1>0. TypeOK /\ "sync" \in Actors \ {"listener"} /\ "listener" \in Actors /\ "api" \in Actors
  BY DEF TypeInv, Actors
<1>1. CASE SyncRefreshed
  <2>1. PICK s \in Token \cup {Null} :
          /\ AskMe(flow, "sync", forced, s)
          /\ sb' \in Token \cup {Null} /\ user' \in Users \cup {Null}
          /\ stored' \in Token \cup {Null} /\ authData' \in AuthData \cup {Null}
    <3>1. ASSUME NEW t \in Token, Renewed(t), AskMe(flow, "sync", forced, t), UNCHANGED user
          PROVE  \E s \in Token \cup {Null} :
                   /\ AskMe(flow, "sync", forced, s)
                   /\ sb' \in Token \cup {Null} /\ user' \in Users \cup {Null}
                   /\ stored' \in Token \cup {Null} /\ authData' \in AuthData \cup {Null}
      BY <1>0, <3>1, RenewedType DEF TypeOK
    <3>2. CASE AskMe(flow, "sync", forced, stored) /\ UNCHANGED store
               /\ (SessionLost \/ UNCHANGED <<sb, user>>)
      BY <1>0, <3>2 DEF TypeOK, SessionLost
    <3> QED
      BY <1>1, <3>1, <3>2 DEF SyncRefreshed
  <2>2. /\ flow' \in [Actors -> Flow] /\ shared' \in Actors \cup {Null}
        /\ \A b \in Actors \ {"sync"} : flow'[b] = flow[b]
        /\ flow'["sync"].at \in {"me", "told"}
    BY <1>0, <2>1, AskMeStep DEF TypeOK
  <2>3. UNCHANGED <<cache, loading, checking, event, forced, seen, owner>> /\ tainted' \in BOOLEAN
    BY <1>0, <1>1 DEF SyncRefreshed, TypeOK
  <2>4. Places'
    BY <1>0, <2>2, <2>3 DEF TypeInv, Places, Syncing
  <2> QED
    BY <1>0, <2>1, <2>2, <2>3, <2>4 DEF TypeInv, TypeOK
<1>2. ASSUME EndSync, UNCHANGED event
      PROVE  /\ flow' \in [Actors -> Flow] /\ checking' \in BOOLEAN /\ loading' \in BOOLEAN
             /\ seen' \in Users \cup {Null} /\ forced' \in BOOLEAN /\ Places'
  <2>1. /\ flow' \in [Actors -> Flow] /\ checking' = FALSE /\ loading' \in BOOLEAN
        /\ seen' = Null /\ forced' = FALSE /\ flow'["sync"].at = "idle"
        /\ \A b \in Actors \ {"sync"} :
             flow'[b] = flow[b] \/ (flow[b].at = "sync" /\ flow'[b] \in {At("idle"), At("start")})
    BY <1>0, <1>2, EndSyncStep
  <2>2. At("idle").at = "idle" /\ At("start").at = "start"
    BY Standing DEF Steps
  <2>3. \A b \in Actors \ {"sync"} :
          flow'[b] = flow[b] \/ (flow[b].at = "sync" /\ flow'[b].at \in {"idle", "start"})
    BY <2>1, <2>2
  <2>4. Places'
    BY <1>0, <1>2, <2>1, <2>3 DEF TypeInv, Places, Syncing, Actors
  <2> QED
    BY <2>1, <2>4
<1>3. CASE SyncTold
  <2>1. UNCHANGED <<sb, cache, shared, event, owner>> /\ tainted' \in BOOLEAN
    BY <1>0, <1>3 DEF SyncTold, TypeOK
  <2>2. /\ user' \in Users \cup {Null}
        /\ stored' \in Token \cup {Null} /\ authData' \in AuthData \cup {Null}
    <3>1. flow["sync"].who \in Users \cup {Null} /\ (sb # Null => sb \in Token /\ sb.owner \in Users)
      BY <1>0, TokenType DEF TypeOK, Flow
    <3>2. sb # Null /\ SetAuthHeader(sb) =>
            stored' \in Token \cup {Null} /\ authData' \in AuthData \cup {Null}
      BY <1>0, <3>1, StoreType
    <3> QED
      BY <1>0, <1>3, <3>1, <3>2 DEF SyncTold, TypeOK
  <2>3. CASE EndSync
    BY <1>0, <1>2, <2>1, <2>2, <2>3 DEF TypeInv, TypeOK
  <2>4. CASE /\ stored # Null /\ flow' = Move(flow, "sync", Awaiting("validate", stored))
             /\ UNCHANGED <<user, store, checking, loading, forced, seen>>
    <3>1. /\ Awaiting("validate", stored) \in Flow
          /\ Awaiting("validate", stored).at = "validate"
          /\ Awaiting("validate", stored).tok # Null
      BY <1>0, <2>4, AwaitingType DEF Steps, TypeOK
    <3>2. flow' \in [Actors -> Flow] /\ Places'
      BY <1>0, <2>1, <2>4, <3>1, MoveType DEF Syncing
    <3> QED
      BY <1>0, <2>1, <2>2, <2>4, <3>2 DEF TypeInv, TypeOK
  <2> QED
    BY <1>3, <2>3, <2>4 DEF SyncTold
<1>4. CASE SyncValidated
  <2>0. flow["sync"].tok \in Token /\ flow["sync"].tok.owner \in Users
    BY <1>0, <1>4, TokenType DEF SyncValidated, TypeInv, TypeOK, Places, Flow
  <2>1. UNCHANGED <<sb, shared, event, owner>> /\ tainted' \in BOOLEAN
    BY <1>0, <1>4 DEF SyncValidated, TypeOK
  <2>2. /\ user' \in Users \cup {Null} /\ cache' \in Users \cup {Null}
        /\ stored' \in Token \cup {Null} /\ authData' \in AuthData \cup {Null}
    BY <1>0, <1>4, <2>0, StoreType DEF SyncValidated, ClearAuthData, TypeOK
  <2>3. CASE EndSync
    BY <1>0, <1>2, <2>1, <2>2, <2>3 DEF TypeInv, TypeOK
  <2>4. CASE /\ flow' = Move(flow, "sync", At("rerefresh"))
             /\ UNCHANGED <<checking, loading, forced, seen>>
    <3>1. At("rerefresh") \in Flow /\ At("rerefresh").at = "rerefresh"
      BY Standing DEF Steps
    <3>2. flow' \in [Actors -> Flow] /\ Places'
      BY <1>0, <2>1, <2>4, <3>1, MoveType DEF Syncing
    <3> QED
      BY <1>0, <2>1, <2>2, <2>4, <3>2 DEF TypeInv, TypeOK
  <2> QED
    BY <1>4, <2>3, <2>4 DEF SyncValidated
<1>5. CASE SyncRerefreshed
  <2>1. UNCHANGED <<cache, shared, event, owner>> /\ tainted' \in BOOLEAN /\ EndSync
    BY <1>0, <1>5 DEF SyncRerefreshed, TypeOK
  <2>2. /\ user' \in Users \cup {Null} /\ sb' \in Token \cup {Null}
        /\ stored' \in Token \cup {Null} /\ authData' \in AuthData \cup {Null}
    BY <1>0, <1>5, RenewedType DEF SyncRerefreshed, SessionLost, TypeOK
  <2> QED
    BY <1>0, <1>2, <2>1, <2>2 DEF TypeInv, TypeOK
<1>6. ASSUME NEW force \in BOOLEAN, PageSync(force)
      PROVE  TypeInv'
  <2>1. At("refresh") \in Flow /\ At("refresh").at = "refresh"
    BY Standing DEF Steps
  <2>2. flow' = [flow EXCEPT !["sync"] = At("refresh")] /\ seen' = user /\ checking' = TRUE
        /\ forced' = force
        /\ UNCHANGED <<sb, stored, authData, cache, user, loading, shared, event, owner>>
        /\ tainted' \in BOOLEAN
    BY <1>0, <1>6 DEF PageSync, Move, TypeOK
  <2>3. flow' \in [Actors -> Flow] /\ Places'
    BY <1>0, <2>1, <2>2 DEF TypeInv, TypeOK, Places, Syncing
  <2> QED
    BY <1>0, <2>2, <2>3 DEF TypeInv, TypeOK
<1> QED
  BY <1>1, <1>3, <1>4, <1>5, <1>6

\* The first check and the listener keep the types.
LEMMA ListenerTypes ==
    ASSUME TypeInv, MountStart \/ MountTold \/ ListenerEvent \/ ListenerTold \/ AutoRefresh
    PROVE  TypeInv'
<1> USE DEF args, store, history, Meanwhile
<1>0. /\ TypeOK /\ "sync" \in Actors /\ "listener" \in Actors /\ "api" \in Actors
      /\ "mount" \in Actors /\ "oauth" \in Actors
  BY DEF TypeInv, Actors
<1>1. CASE MountStart
  <2>1. /\ flow' \in [Actors -> Flow] /\ shared' \in Actors \cup {Null}
        /\ \A b \in Actors \ {"mount"} : flow'[b] = flow[b]
    BY <1>0, <1>1, AskMeStep DEF MountStart, TypeOK
  <2>2. stored' \in Token \cup {Null} /\ authData' \in AuthData \cup {Null}
    BY <1>0, <1>1, StoreType DEF MountStart, TypeOK
  <2>3. UNCHANGED <<sb, cache, user, loading, checking, event, forced, seen, owner>>
        /\ tainted' \in BOOLEAN
    BY <1>0, <1>1 DEF MountStart, TypeOK
  <2>4. Places'
    BY <1>0, <2>1, <2>3 DEF TypeInv, Places
  <2> QED
    BY <1>0, <2>1, <2>2, <2>3, <2>4 DEF TypeInv, TypeOK
<1>2. ASSUME NEW a \in {"mount", "login", "oauth"}, NEW after \in {"idle", "start"},
             NEW force \in BOOLEAN, NEW u \in Users \cup {Null},
             StartSync(a, after, force, u), UNCHANGED event
      PROVE  /\ flow' \in [Actors -> Flow] /\ loading' \in BOOLEAN /\ checking' \in BOOLEAN
             /\ forced' \in BOOLEAN /\ seen' \in Users \cup {Null} /\ Places'
  <2>1. /\ flow' \in [Actors -> Flow]
        /\ loading' \in BOOLEAN /\ checking' \in BOOLEAN /\ forced' \in BOOLEAN
        /\ \A b \in Actors \ {a, "sync"} : flow'[b] = flow[b]
        /\ \/ seen' = seen /\ flow'["sync"] = flow["sync"]
           \/ seen' = u /\ flow'["sync"] = At("refresh")
    BY <1>0, <1>2, StartSyncStep
  <2>2. At("refresh").at = "refresh"
    BY Standing DEF Steps
  <2> QED
    BY <1>0, <1>2, <2>1, <2>2 DEF TypeInv, TypeOK, Places, Syncing
<1>3. CASE MountTold
  <2>1. StartSync("mount", "idle", FALSE, Null)
        /\ UNCHANGED <<sb, stored, authData, cache, shared, event, owner>> /\ tainted' \in BOOLEAN
    BY <1>0, <1>3 DEF MountTold, TypeOK
  <2>2. user' \in Users \cup {Null}
    BY <1>0, <1>3 DEF MountTold, TypeOK, Flow
  <2> QED
    BY <1>0, <1>2, <2>1, <2>2 DEF TypeInv, TypeOK
<1>4. CASE ListenerEvent
  <2>1. /\ sb \in Token /\ event' = sb /\ SetAuthHeader(sb) /\ AskMe(flow, "listener", FALSE, sb)
        /\ UNCHANGED <<sb, cache, user, loading, checking, forced, seen, owner>>
        /\ tainted' \in BOOLEAN
    BY <1>0, <1>4 DEF ListenerEvent, TypeOK
  <2>2. /\ flow' \in [Actors -> Flow] /\ shared' \in Actors \cup {Null}
        /\ \A b \in Actors \ {"listener"} : flow'[b] = flow[b]
        /\ flow'["listener"].at \in {"me", "told"}
    BY <1>0, <2>1, AskMeStep DEF TypeOK
  <2>3. stored' \in Token \cup {Null} /\ authData' \in AuthData \cup {Null}
    BY <1>0, <2>1, StoreType
  <2>4. Places'
    BY <1>0, <2>1, <2>2, TokenType DEF TypeInv, Places
  <2> QED
    BY <1>0, <2>1, <2>2, <2>3, <2>4 DEF TypeInv, TypeOK
<1>5. CASE ListenerTold
  <2>1. /\ flow["listener"].at = "told" /\ event' = Null
        /\ UNCHANGED <<sb, stored, authData, cache, loading, checking, shared, forced, seen, owner>>
        /\ tainted' \in BOOLEAN
    BY <1>0, <1>5 DEF ListenerTold, TypeOK
  <2>2. event \in Token /\ event.owner \in Users
    BY <1>0, <2>1, TokenType DEF TypeInv, Places, TypeOK
  <2>3. user' \in Users \cup {Null}
    BY <1>0, <1>5, <2>2 DEF ListenerTold, TypeOK, Flow
  <2>4. /\ At("idle") \in Flow /\ At("idle").at = "idle" /\ At("start") \in Flow
    BY Standing DEF Steps
  <2>5. flow' = [[flow EXCEPT !["listener"] = At("idle")] EXCEPT
                    !["oauth"] = IF @.at = "listener" THEN At("start") ELSE @]
    BY <1>5 DEF ListenerTold, Move
  <2>6. /\ flow' \in [Actors -> Flow] /\ flow'["listener"] = At("idle")
        /\ \A b \in Actors \ {"listener", "oauth"} : flow'[b] = flow[b]
    BY <1>0, <2>4, <2>5 DEF TypeOK
  <2>7. Places'
    BY <1>0, <2>1, <2>4, <2>6 DEF TypeInv, Places, Syncing
  <2> QED
    BY <1>0, <2>1, <2>3, <2>6, <2>7 DEF TypeInv, TypeOK
<1>6. CASE AutoRefresh
  <2>1. UNCHANGED <<cache, loading, checking, shared, flow, event, forced, seen, owner>>
        /\ tainted' \in BOOLEAN
    BY <1>0, <1>6 DEF AutoRefresh, TypeOK
  <2>2. /\ user' \in Users \cup {Null} /\ sb' \in Token \cup {Null}
        /\ stored' \in Token \cup {Null} /\ authData' \in AuthData \cup {Null}
    BY <1>0, <1>6, RenewedType DEF AutoRefresh, SessionLost, TypeOK
  <2>3. Places'
    BY <2>1, SamePlaces DEF TypeInv
  <2> QED
    BY <1>0, <2>1, <2>2, <2>3 DEF TypeInv, TypeOK
<1> QED
  BY <1>1, <1>3, <1>4, <1>5, <1>6

\* Signing in and out keeps the types.
LEMMA SignTypes ==
    ASSUME TypeInv,
           \/ LoginSubmit \/ LoginRefused \/ LoginAskMe \/ LoginTold \/ OAuthSync
           \/ \E u \in Users : LoginAnswer(u) \/ OAuthReturn(u)
           \/ SignOut \/ LogoutAnswer \/ SupabaseSignedOut
    PROVE  TypeInv'
<1> USE DEF args, store, history, session, Meanwhile
<1>0. /\ TypeOK /\ "sync" \in Actors /\ "listener" \in Actors /\ "api" \in Actors
      /\ "login" \in Actors \ {"listener"} /\ "oauth" \in Actors
      /\ "signout" \in Actors \ {"listener"}
  BY DEF TypeInv, Actors
<1>1. CASE LoginSubmit \/ LoginRefused \/ LoginTold
  <2>1. At("login") \in Flow /\ At("idle") \in Flow
    BY Standing DEF Steps
  <2>2. /\ UNCHANGED <<sb, stored, authData, cache, user, loading, checking, shared, event, forced,
                       seen, owner>>
        /\ tainted' \in BOOLEAN
    BY <1>0, <1>1 DEF LoginSubmit, LoginRefused, LoginTold, TypeOK
  <2>3. \E r \in Flow : flow' = Move(flow, "login", r)
    BY <1>1, <2>1 DEF LoginSubmit, LoginRefused, LoginTold
  <2>4. flow' \in [Actors -> Flow] /\ Places'
    BY <1>0, <2>2, <2>3, MoveType
  <2> QED
    BY <1>0, <2>2, <2>4 DEF TypeInv, TypeOK
<1>2. CASE LoginAskMe
  <2>1. /\ flow' \in [Actors -> Flow] /\ shared' \in Actors \cup {Null}
        /\ \A b \in Actors \ {"login"} : flow'[b] = flow[b]
    BY <1>0, <1>2, AskMeStep DEF LoginAskMe, TypeOK
  <2>2. UNCHANGED <<sb, stored, authData, cache, user, loading, checking, event, forced, seen, owner>>
        /\ tainted' \in BOOLEAN
    BY <1>0, <1>2 DEF LoginAskMe, TypeOK
  <2>3. Places'
    BY <1>0, <2>1, <2>2 DEF TypeInv, Places
  <2> QED
    BY <1>0, <2>1, <2>2, <2>3 DEF TypeInv, TypeOK
<1>3. ASSUME NEW a \in {"login", "oauth"}, NEW after \in {"idle", "start"},
             StartSync(a, after, TRUE, user), UNCHANGED event
      PROVE  /\ flow' \in [Actors -> Flow] /\ loading' \in BOOLEAN /\ checking' \in BOOLEAN
             /\ forced' \in BOOLEAN /\ seen' \in Users \cup {Null} /\ Places'
  <2>1. /\ flow' \in [Actors -> Flow]
        /\ loading' \in BOOLEAN /\ checking' \in BOOLEAN /\ forced' \in BOOLEAN
        /\ \A b \in Actors \ {a, "sync"} : flow'[b] = flow[b]
        /\ \/ seen' = seen /\ flow'["sync"] = flow["sync"]
           \/ seen' = user /\ flow'["sync"] = At("refresh")
    BY <1>0, <1>3, StartSyncStep DEF TypeOK
  <2>2. At("refresh").at = "refresh"
    BY Standing DEF Steps
  <2> QED
    BY <1>0, <1>3, <2>1, <2>2 DEF TypeInv, TypeOK, Places, Syncing
<1>4. ASSUME NEW u \in Users, LoginAnswer(u)
      PROVE  TypeInv'
  <2>1. /\ StartSync("login", "start", TRUE, user) /\ owner' = u
        /\ UNCHANGED <<sb, cache, user, shared, event>>
    BY <1>4 DEF LoginAnswer
  <2>2. tainted' \in BOOLEAN
    BY <1>0, <1>4 DEF LoginAnswer, Overlap, TypeOK
  <2>3. stored' \in Token \cup {Null} /\ authData' \in AuthData \cup {Null}
    BY <1>0, <1>4, IssuedType, StoreType DEF LoginAnswer
  <2> QED
    BY <1>0, <1>3, <2>1, <2>2, <2>3 DEF TypeInv, TypeOK
<1>5. CASE OAuthSync
  <2>1. /\ StartSync("oauth", "idle", TRUE, user)
        /\ UNCHANGED <<sb, stored, authData, cache, user, shared, event, owner>>
        /\ tainted' \in BOOLEAN
    BY <1>0, <1>5 DEF OAuthSync, TypeOK
  <2> QED
    BY <1>0, <1>3, <2>1 DEF TypeInv, TypeOK
<1>6. ASSUME NEW u \in Users, OAuthReturn(u)
      PROVE  TypeInv'
  <2> DEFINE f == Move(flow, "oauth", At("listener"))
  <2>1. /\ owner' = u /\ UNCHANGED <<cache, user, loading, checking, forced, seen>>
    BY <1>6 DEF OAuthReturn
  <2>2. tainted' \in BOOLEAN
    BY <1>0, <1>6 DEF OAuthReturn, Overlap, TypeOK
  <2>3. PICK t \in Token : /\ sb' = t /\ event' = t /\ SetAuthHeader(t)
                           /\ AskMe(f, "listener", FALSE, t)
    BY <1>6, IssuedType DEF OAuthReturn
  <2>4. f \in [Actors -> Flow] /\ \A b \in Actors \ {"oauth"} : f[b] = flow[b]
    BY <1>0, Standing DEF TypeOK, Move, Steps
  <2>5. stored' \in Token \cup {Null} /\ authData' \in AuthData \cup {Null}
    BY <1>0, <2>3, StoreType
  <2> HIDE DEF f
  <2>6. /\ flow' \in [Actors -> Flow] /\ shared' \in Actors \cup {Null}
        /\ \A b \in Actors \ {"listener"} : flow'[b] = f[b]
        /\ flow'["listener"].at \in {"me", "told"}
    BY <1>0, <2>3, <2>4, AskMeStep
  <2>7. Places'
    BY <1>0, <2>1, <2>3, <2>4, <2>6, TokenType DEF TypeInv, Places
  <2> QED
    BY <1>0, <2>1, <2>2, <2>3, <2>5, <2>6, <2>7 DEF TypeInv, TypeOK
<1>7. CASE SignOut \/ LogoutAnswer
  <2>1. At("logout") \in Flow /\ At("sbout") \in Flow /\ At("idle") \in Flow
    BY Standing DEF Steps
  <2>2. \E r \in Flow : flow' = Move(flow, "signout", r)
    BY <1>7, <2>1 DEF SignOut, LogoutAnswer
  <2>3. UNCHANGED <<sb, user, loading, checking, shared, event, forced, seen, owner, tainted>>
    BY <1>7 DEF SignOut, LogoutAnswer
  <2>4. stored' \in Token \cup {Null} /\ authData' \in AuthData \cup {Null}
        /\ cache' \in Users \cup {Null}
    BY <1>0, <1>7 DEF SignOut, LogoutAnswer, ClearAuthData, TypeOK
  <2>5. flow' \in [Actors -> Flow] /\ Places'
    BY <1>0, <2>2, <2>3, MoveType
  <2> QED
    BY <1>0, <2>3, <2>4, <2>5 DEF TypeInv, TypeOK
<1>8. CASE SupabaseSignedOut
  <2>1. At("idle") \in Flow
    BY Standing DEF Steps
  <2>2. /\ user' = Null /\ owner' = Null /\ sb' \in Token \cup {Null} /\ tainted' \in BOOLEAN
        /\ flow' = Move(flow, "signout", At("idle"))
        /\ UNCHANGED <<stored, authData, cache, loading, checking, shared, event, forced, seen>>
    BY <1>0, <1>8 DEF SupabaseSignedOut, TypeOK
  <2>3. flow' \in [Actors -> Flow] /\ Places'
    BY <1>0, <2>1, <2>2, MoveType
  <2> QED
    BY <1>0, <2>2, <2>3 DEF TypeInv, TypeOK
<1> QED
  BY <1>1, <1>2, <1>4, <1>5, <1>6, <1>7, <1>8

\* So do the requests.
LEMMA ApiTypes ==
    ASSUME TypeInv, ApiRequest \/ ApiSessionRefreshed \/ ApiRefreshed \/ ApiAnswer
    PROVE  TypeInv'
<1> USE DEF args, store, history, session, Meanwhile
<1>0. /\ TypeOK /\ "api" \in Actors \ {"listener"}
      /\ \A s \in {"idle", "sbrefresh", "fetch", "fetch2", "refresh0", "refresh1"} : s \in Steps
  BY DEF TypeInv, Actors, Steps
<1>1. UNCHANGED <<cache, loading, checking, shared, event, forced, seen, owner>>
      /\ tainted' \in BOOLEAN
  BY <1>0 DEF ApiRequest, ApiSessionRefreshed, ApiRefreshed, ApiAnswer, TypeOK
<1> DEFINE Moved == \E r \in Flow : /\ flow' = Move(flow, "api", r)
                                    /\ r.at \in {"refresh0", "refresh1"} => r.tok # Null
           Kept == stored' \in Token \cup {Null} /\ authData' \in AuthData \cup {Null}
<1>4. ASSUME NEW s \in {"refresh0", "refresh1"}, RenewOrFail(s)
      PROVE  Moved
  <2> DEFINE refresh == IF authData = Null THEN Null ELSE authData.refresh
             r == IF refresh = Null THEN At("idle") ELSE Awaiting(s, refresh)
  <2>1. refresh \in Token \cup {Null}
    BY <1>0 DEF TypeOK, AuthData
  <2>2. flow' = Move(flow, "api", r)
    BY <1>4 DEF RenewOrFail
  <2> HIDE DEF refresh
  <2>3. r \in Flow /\ (r.at \in {"refresh0", "refresh1"} => r.tok # Null)
    BY <1>0, <2>1, Standing, AwaitingType
  <2> HIDE DEF r
  <2> QED
    BY <2>2, <2>3
<1>5. ASSUME NEW t \in Token \cup {Null}, SendWith(t)
      PROVE  Moved /\ Kept
  <2> DEFINE r == Awaiting("fetch", t)
  <2>1. r \in Flow /\ r.at = "fetch"
    BY <1>0, AwaitingType
  <2> HIDE DEF r
  <2> QED
    BY <1>0, <1>5, <2>1, StoreType DEF SendWith, r
<1>6. ASSUME BestStoredToken
      PROVE  Moved /\ Kept
  <2>1. authData # Null => authData.access \in Token
    BY <1>0 DEF TypeOK, AuthData
  <2> HIDE DEF Moved
  <2> QED
    BY <1>0, <1>4, <1>5, <1>6, <2>1 DEF BestStoredToken, TypeOK
<1>7. \A s \in {"idle", "sbrefresh"} : At(s) \in Flow /\ At(s).at = s
  BY <1>0, Standing
<1>8. Moved /\ Kept /\ sb' \in Token \cup {Null} /\ user' \in Users \cup {Null}
  <2>1. CASE ApiRequest
    <3>1. ASSUME flow' = Move(flow, "api", At("sbrefresh")), UNCHANGED store
          PROVE  Moved /\ Kept
      BY <1>0, <1>7, <3>1 DEF TypeOK
    <3> HIDE DEF Moved
    <3> QED
      BY <1>0, <1>5, <1>6, <2>1, <3>1 DEF ApiRequest, TypeOK
  <2>2. CASE ApiSessionRefreshed
    <3>1. ASSUME NEW t \in Token, Renewed(t), UNCHANGED user,
                 flow' = Move(flow, "api", Awaiting("fetch", t))
          PROVE  Moved /\ Kept /\ sb' \in Token \cup {Null} /\ user' \in Users \cup {Null}
      <4> DEFINE r == Awaiting("fetch", t)
      <4>1. r \in Flow /\ r.at = "fetch"
        BY <1>0, AwaitingType
      <4> HIDE DEF r
      <4>2. Moved
        BY <3>1, <4>1 DEF r
      <4> QED
        BY <1>0, <3>1, <4>2, RenewedType DEF TypeOK
    <3> HIDE DEF Moved
    <3> QED
      BY <1>0, <1>6, <2>2, <3>1 DEF ApiSessionRefreshed, SessionLost, TypeOK
  <2>3. CASE ApiRefreshed
    <3>1. ASSUME NEW t \in Token, SaveLogin(t), NEW s \in {"fetch", "fetch2"},
                 flow' = Move(flow, "api", Awaiting(s, t))
          PROVE  Moved /\ Kept
      <4> DEFINE r == Awaiting(s, t)
      <4>1. r \in Flow /\ r.at = s
        BY <1>0, AwaitingType
      <4> HIDE DEF r
      <4>2. Moved
        BY <3>1, <4>1 DEF r
      <4> QED
        BY <1>0, <3>1, <4>2, StoreType
    <3>2. flow' = Move(flow, "api", At("idle")) => Moved
      BY <1>7
    <3> HIDE DEF Moved
    <3> QED
      BY <1>0, <2>3, <3>1, <3>2, IssuedType DEF ApiRefreshed, TypeOK
  <2>4. CASE ApiAnswer
    <3>1. flow' = Move(flow, "api", At("idle")) => Moved
      BY <1>7
    <3> HIDE DEF Moved
    <3> QED
      BY <1>0, <1>4, <2>4, <3>1 DEF ApiAnswer, TypeOK
  <2> QED
    BY <2>1, <2>2, <2>3, <2>4
<1>9. flow' \in [Actors -> Flow] /\ Places'
  BY <1>0, <1>1, <1>8, MoveType
<1> QED
  BY <1>0, <1>1, <1>8, <1>9 DEF TypeInv, TypeOK

LEMMA Typed == Spec => []TypeInv
<1>1. Init => TypeInv
  <2> SUFFICES ASSUME Init PROVE TypeInv
    OBVIOUS
  <2>1. PICK u \in Users, s \in Serials, withSb, cached \in BOOLEAN :
          LET t == [owner |-> u, serial |-> s] IN
          \/ /\ stored = t /\ owner = u
             /\ sb = IF withSb THEN t ELSE Null
             /\ authData = [access |-> t, refresh |-> IF withSb THEN Null ELSE t]
             /\ cache = IF cached THEN u ELSE Null
          \/ /\ stored = Null /\ owner = Null /\ sb = Null
             /\ authData = Null /\ cache = Null
    BY DEF Init
  <2>2. [owner |-> u, serial |-> s] \in Token
    BY DEF Token
  <2>3. /\ sb \in Token \cup {Null} /\ stored \in Token \cup {Null}
        /\ authData \in AuthData \cup {Null} /\ cache \in Users \cup {Null}
        /\ owner \in Users \cup {Null}
    BY <2>1, <2>2 DEF AuthData
  <2>4. At("start") \in Flow /\ At("idle") \in Flow /\ At("idle").at = "idle"
    BY Standing DEF Steps
  <2>5. flow \in [Actors -> Flow] /\ \A a \in Actors \ {"mount"} : flow[a] = At("idle")
    BY <2>4 DEF Init
  <2>6. "listener" \in Actors \ {"mount"} /\ "sync" \in Actors \ {"mount"}
        /\ "api" \in Actors \ {"mount"}
    BY DEF Actors
  <2> QED
    BY <2>3, <2>4, <2>5, <2>6 DEF Init, TypeInv, TypeOK, Places
<1>2. TypeInv /\ [Next]_vars => TypeInv'
  <2>1. ASSUME TypeInv, UNCHANGED vars
        PROVE  TypeInv'
    BY <2>1 DEF vars, session, store, args, history, TypeInv, TypeOK, Places
  <2> QED
    BY <2>1, AnswerTypes, SyncTypes, ListenerTypes, SignTypes, ApiTypes DEF Next
<1> QED
  BY <1>1, <1>2, PTL DEF Spec

(***************************************************************************)
(* Every flow of the tab keeps to its types, in whatever order the servers *)
(* answer.                                                                 *)
(***************************************************************************)
THEOREM TypeCorrect == Spec => []TypeOK
<1>1. TypeInv => TypeOK
  BY DEF TypeInv
<1> QED
  BY <1>1, Typed, PTL

-----------------------------------------------------------------------------
(***************************************************************************)
(* The two slots.  Whoever writes one of them writes the other.            *)
(***************************************************************************)
LEMMA SlotsKept ==
    ASSUME SlotsAgree, authData \in AuthData \cup {Null},
           \/ UNCHANGED store \/ ClearAuthData
           \/ \E t : SetAuthHeader(t) \/ SyncStored(t) \/ SaveLogin(t)
    PROVE  SlotsAgree'
<1>1. CASE UNCHANGED store \/ ClearAuthData
  BY <1>1 DEF SlotsAgree, store, ClearAuthData
<1>2. ASSUME NEW t, SetAuthHeader(t) \/ SaveLogin(t)
      PROVE  SlotsAgree'
  BY <1>2 DEF SlotsAgree, SetAuthHeader, SaveLogin
<1>3. ASSUME NEW t, SyncStored(t), authData \in AuthData \cup {Null}
      PROVE  SlotsAgree'
  BY <1>3 DEF SlotsAgree, SyncStored, AuthData
<1> QED
  BY <1>1, <1>2, <1>3

LEMMA SlotsWritten ==
    ASSUME Next
    PROVE  \/ UNCHANGED store \/ ClearAuthData
           \/ \E t : SetAuthHeader(t) \/ SyncStored(t) \/ SaveLogin(t)
<1> DEFINE Written == \/ UNCHANGED store \/ ClearAuthData
                      \/ \E t : SetAuthHeader(t) \/ SyncStored(t) \/ SaveLogin(t)
<1> USE DEF session
<1>1. CASE CacheExpires \/ \E a \in Actors : MeAnswer(a)
  BY <1>1 DEF CacheExpires, MeAnswer
<1>2. CASE SyncRefreshed \/ SyncTold \/ SyncValidated \/ SyncRerefreshed
           \/ \E force \in BOOLEAN : PageSync(force)
  BY <1>2 DEF SyncRefreshed, SyncTold, SyncValidated, SyncRerefreshed, PageSync, Renewed
<1>3. CASE MountStart \/ MountTold \/ ListenerEvent \/ ListenerTold \/ AutoRefresh
  BY <1>3 DEF MountStart, MountTold, ListenerEvent, ListenerTold, AutoRefresh, Renewed
<1>4. CASE \/ LoginSubmit \/ LoginRefused \/ LoginAskMe \/ LoginTold \/ OAuthSync
           \/ \E u \in Users : LoginAnswer(u) \/ OAuthReturn(u)
           \/ SignOut \/ LogoutAnswer \/ SupabaseSignedOut
  BY <1>4 DEF LoginSubmit, LoginRefused, LoginAskMe, LoginTold, OAuthSync, LoginAnswer,
     OAuthReturn, SignOut, LogoutAnswer, SupabaseSignedOut
<1>5. CASE ApiRequest \/ ApiSessionRefreshed \/ ApiRefreshed \/ ApiAnswer
  BY <1>5 DEF ApiRequest, ApiSessionRefreshed, ApiRefreshed, ApiAnswer, BestStoredToken,
     SendWith, Renewed
<1> QED
  BY <1>1, <1>2, <1>3, <1>4, <1>5 DEF Next

(***************************************************************************)
(* Reading the one slot or the other makes no difference, at any time.     *)
(***************************************************************************)
THEOREM SlotsAlwaysAgree == Spec => []SlotsAgree
<1>1. Init => SlotsAgree
  BY DEF Init, SlotsAgree
<1>2. TypeOK /\ SlotsAgree /\ [Next]_vars => SlotsAgree'
  <2>1. TypeOK => authData \in AuthData \cup {Null}
    BY DEF TypeOK
  <2>2. ASSUME SlotsAgree, UNCHANGED vars
        PROVE  SlotsAgree'
    BY <2>2 DEF vars, session, store, SlotsAgree
  <2> QED
    BY <2>1, <2>2, SlotsKept, SlotsWritten
<1> QED
  BY <1>1, <1>2, TypeCorrect, PTL DEF Spec

-----------------------------------------------------------------------------
(***************************************************************************)
(* One account.  Until flows of two accounts overlap, whatever the tab and *)
(* the flows that are still to write hold is of the account signed in; and *)
(* between the halves of a sign-out the storage is empty.                  *)
(***************************************************************************)
OfToken(t) == t # Null => t.owner = owner
OfUser(u)  == u \in {owner, Null}

Fits(r) == r.at \notin {"idle", "fetch", "fetch2", "login", "logout"} =>
             OfToken(r.tok) /\ OfUser(r.who)

Clean ==
    /\ OfToken(sb) /\ OfToken(stored) /\ OfToken(event)
    /\ authData # Null => OfToken(authData.access) /\ OfToken(authData.refresh)
    /\ OfUser(cache) /\ OfUser(user) /\ OfUser(seen)
    /\ \A a \in Actors : Fits(flow[a])
    /\ flow["signout"].at = "sbout" => stored = Null /\ authData = Null /\ cache = Null

CleanInv == ~tainted => Clean

\* What has to be shown of a step that changes no account.
LEMMA CleanStep ==
    ASSUME UNCHANGED owner, flow'["signout"].at # "sbout",
           OfToken(sb'), OfToken(stored'), OfToken(event'),
           authData' # Null => OfToken(authData'.access) /\ OfToken(authData'.refresh),
           OfUser(cache'), OfUser(user'), OfUser(seen'),
           \A a \in Actors : Fits(flow'[a])
    PROVE  Clean'
BY DEF Clean, OfToken, OfUser, Fits

\* While nothing has overlapped, no other step falls within a sign-out.
LEMMA MeanwhileStep ==
    ASSUME CleanInv, Meanwhile, ~tainted'
    PROVE  Clean /\ UNCHANGED owner /\ flow["signout"].at # "sbout"
BY DEF CleanInv, Meanwhile

\* A token of the account is written to the storage.
LEMMA StoreClean ==
    ASSUME TypeOK, Clean, NEW t, OfToken(t), SetAuthHeader(t) \/ SyncStored(t) \/ SaveLogin(t)
    PROVE  /\ OfToken(stored')
           /\ authData' # Null => OfToken(authData'.access) /\ OfToken(authData'.refresh)
<1>0. OfToken(Null) /\ authData \in AuthData \cup {Null}
  BY DEF OfToken, TypeOK
<1>1. CASE SetAuthHeader(t)
  BY <1>0, <1>1 DEF SetAuthHeader, Clean
<1>2. CASE SyncStored(t)
  BY <1>0, <1>2 DEF SyncStored, Clean, AuthData
<1>3. CASE SaveLogin(t)
  BY <1>0, <1>3 DEF SaveLogin
<1> QED
  BY <1>1, <1>2, <1>3

LEMMA StoreKept ==
    ASSUME Clean, UNCHANGED store \/ ClearAuthData
    PROVE  /\ OfToken(stored')
           /\ authData' # Null => OfToken(authData'.access) /\ OfToken(authData'.refresh)
BY DEF Clean, store, ClearAuthData, OfToken

\* Where a flow fits.
LEMMA Fitting ==
    ASSUME NEW s \in Steps, NEW t \in Token \cup {Null}, OfToken(t)
    PROVE  Fits(At(s)) /\ Fits(Awaiting(s, t))
BY Standing, AwaitingType DEF Fits, OfToken, OfUser

LEMMA ToldFits ==
    ASSUME NEW a \in Answers, NEW u \in Users \cup {Null}, OfUser(u)
    PROVE  Fits(Told(a, u)) /\ Told(a, u) \in Flow /\ Told(a, u).at = "told"
BY ToldType DEF Fits, OfToken

LEMMA MoveFits ==
    ASSUME TypeOK, NEW f \in [Actors -> Flow], \A b \in Actors : Fits(f[b]),
           NEW a \in Actors, NEW r, Fits(r), flow' = Move(f, a, r)
    PROVE  /\ \A b \in Actors : Fits(flow'[b])
           /\ \A b \in Actors \ {a} : flow'[b] = f[b]
           /\ flow'[a] = r
BY DEF Move

LEMMA AskMeFits ==
    ASSUME TypeOK, NEW f \in [Actors -> Flow], \A b \in Actors : Fits(f[b]),
           NEW a \in Actors, NEW force \in BOOLEAN, NEW s \in Token \cup {Null},
           AskMe(f, a, force, s), OfToken(s), OfUser(cache)
    PROVE  /\ \A b \in Actors : Fits(flow'[b])
           /\ \A b \in Actors \ {a} : flow'[b] = f[b]
           /\ flow'[a].at \in {"me", "told"}
<1>1. /\ \A b \in Actors \ {a} : flow'[b] = f[b]
      /\ flow'[a].at \in {"me", "told"}
      /\ flow'[a].tok \in {Null, s} /\ flow'[a].who \in {Null, cache}
  BY AskMeStep
<1>2. Fits(flow'[a])
  BY <1>1 DEF Fits, OfToken, OfUser
<1> QED
  BY <1>1, <1>2

\* Answers, and the cache's two minutes.
LEMMA AnswerClean ==
    ASSUME TypeInv, CleanInv, ~tainted', CacheExpires \/ \E a \in Actors : MeAnswer(a)
    PROVE  Clean'
<1> USE DEF args
<1>0. TypeOK /\ "signout" \in Actors
  BY DEF TypeInv, Actors
<1>1. CASE CacheExpires
  <2>1. Clean /\ UNCHANGED owner /\ flow["signout"].at # "sbout"
    BY <1>1, MeanwhileStep DEF CacheExpires
  <2>2. UNCHANGED <<sb, stored, authData, user, flow, event, seen>> /\ cache' = Null
    BY <1>1 DEF CacheExpires, store
  <2> QED
    BY <2>1, <2>2, CleanStep DEF Clean, OfUser
<1>2. ASSUME NEW a \in Actors, MeAnswer(a)
      PROVE  Clean'
  <2> DEFINE t == flow[a].tok
  <2>0. Clean /\ UNCHANGED owner /\ flow["signout"].at # "sbout"
    BY <1>2, MeanwhileStep DEF MeAnswer
  <2>1. t \in Token /\ t.owner \in Users /\ flow[a].at = "me"
    BY <1>0, <1>2, TokenType DEF MeAnswer, TypeOK, Flow
  <2>2. OfToken(t) /\ OfUser(t.owner) /\ OfUser(Null)
    BY <2>0, <2>1, SessionAssumption DEF Clean, Fits, OfToken, OfUser
  <2>3. PICK own \in Flow, others \in Flow :
           /\ own.at = "told" /\ others.at = "told" /\ Resolve(a, own, others)
           /\ Fits(own) /\ Fits(others)
    <3>1. /\ Fits(Told("user", t.owner)) /\ Told("user", t.owner) \in Flow
          /\ Told("user", t.owner).at = "told"
      BY <2>1, <2>2, ToldFits DEF Answers
    <3>2. \A s \in {"expired", "rejected", "error"} :
             Fits(Told(s, Null)) /\ Told(s, Null) \in Flow /\ Told(s, Null).at = "told"
      BY <2>2, ToldFits DEF Answers
    <3> HIDE DEF t
    <3>3. \/ Resolve(a, Told("user", t.owner), Told("user", t.owner))
          \/ Resolve(a, Told("expired", Null), Told("rejected", Null))
          \/ Resolve(a, Told("error", Null), Told("rejected", Null))
      BY <1>2 DEF MeAnswer, t
    <3> QED
      BY <3>1, <3>2, <3>3, Zenon
  <2>4. \A b \in Actors : \/ flow'[b] = flow[b]
                          \/ flow[b].at = "me" /\ flow'[b] \in {own, others}
    BY <1>0, <2>1, <2>3, ResolveStep
  <2>5. \A b \in Actors : Fits(flow'[b])
    BY <2>0, <2>3, <2>4 DEF Clean
  <2>6. flow'["signout"].at # "sbout"
    BY <1>0, <2>0, <2>3, <2>4
  <2>7. UNCHANGED <<sb, user, event, seen>>
    BY <1>2 DEF MeAnswer
  <2>8. UNCHANGED store \/ ClearAuthData
    BY <1>2 DEF MeAnswer
  <2>9. OfUser(cache')
    BY <1>2, <2>0, <2>2 DEF MeAnswer, ClearAuthData, Clean
  <2>10. /\ OfToken(stored')
         /\ authData' # Null => OfToken(authData'.access) /\ OfToken(authData'.refresh)
    BY <2>0, <2>8, StoreKept
  <2>11. OfToken(sb') /\ OfToken(event') /\ OfUser(user') /\ OfUser(seen')
    BY <2>0, <2>7 DEF Clean
  <2> QED
    BY <2>0, <2>5, <2>6, <2>9, <2>10, <2>11, CleanStep
<1> QED
  BY <1>1, <1>2

\* A renewed session is of the account, a lost one is of nobody.
LEMMA RenewedClean ==
    ASSUME TypeOK, Clean, NEW t \in Token, Renewed(t)
    PROVE  /\ sb' = t /\ OfToken(t) /\ OfToken(sb') /\ OfToken(stored')
           /\ authData' # Null => OfToken(authData'.access) /\ OfToken(authData'.refresh)
<1>1. sb # Null /\ sb' = t /\ t.owner = sb.owner /\ SetAuthHeader(t)
  BY RenewedType DEF Renewed
<1>2. OfToken(t)
  BY <1>1 DEF Clean, OfToken
<1> QED
  BY <1>1, <1>2, StoreClean

\* The flows after a sync has ended.
LEMMA EndSyncClean ==
    ASSUME TypeOK, Clean, flow["signout"].at # "sbout", EndSync
    PROVE  /\ \A a \in Actors : Fits(flow'[a])
           /\ flow'["signout"].at # "sbout" /\ OfUser(seen')
<1>1. /\ flow'["sync"].at = "idle" /\ seen' = Null
      /\ \A b \in Actors \ {"sync"} :
           flow'[b] = flow[b] \/ (flow[b].at = "sync" /\ flow'[b] \in {At("idle"), At("start")})
  BY EndSyncStep
<1>2. /\ At("idle").at = "idle" /\ At("start").at = "start"
      /\ Fits(At("idle")) /\ Fits(At("start"))
  BY Standing, Fitting DEF Steps, OfToken
<1> QED
  BY <1>1, <1>2 DEF Clean, Fits, OfUser, Actors

LEMMA SyncClean ==
    ASSUME TypeInv, CleanInv, ~tainted',
           \/ SyncRefreshed \/ SyncTold \/ SyncValidated \/ SyncRerefreshed
           \/ \E force \in BOOLEAN : PageSync(force)
    PROVE  Clean'
<1> USE DEF args
<1> DEFINE Stores == /\ OfToken(stored')
                     /\ authData' # Null => OfToken(authData'.access) /\ OfToken(authData'.refresh)
           Flows1 == /\ \A a \in Actors : Fits(flow'[a])
                     /\ flow'["signout"].at # "sbout" /\ OfUser(seen')
<1>0. TypeOK /\ "signout" \in Actors /\ "sync" \in Actors
  BY DEF TypeInv, Actors
<1>1. Clean /\ UNCHANGED owner /\ flow["signout"].at # "sbout"
  BY MeanwhileStep DEF SyncRefreshed, SyncTold, SyncValidated, SyncRerefreshed, PageSync
<1>3. EndSync => Flows1
  BY <1>0, <1>1, EndSyncClean
<1>4. ASSUME NEW s \in {"rerefresh", "validate", "refresh"}, NEW t \in Token \cup {Null},
             OfToken(t), flow' = Move(flow, "sync", At(s)) \/ flow' = Move(flow, "sync", Awaiting(s, t)),
             OfUser(seen')
      PROVE  Flows1
  <2>1. Fits(At(s)) /\ Fits(Awaiting(s, t))
    BY <1>4, Fitting DEF Steps
  <2> QED
    BY <1>0, <1>1, <1>4, <2>1, MoveFits DEF TypeOK, Clean
<1>5. CASE SyncRefreshed
  <2>1. UNCHANGED <<cache, event, seen, owner>>
    BY <1>5, <1>1 DEF SyncRefreshed
  <2>2. PICK s \in Token \cup {Null} :
          AskMe(flow, "sync", forced, s) /\ OfToken(s) /\ OfToken(sb') /\ OfUser(user') /\ Stores
    <3>1. ASSUME NEW t \in Token, Renewed(t), AskMe(flow, "sync", forced, t), UNCHANGED user
          PROVE  OfToken(t) /\ OfToken(sb') /\ OfUser(user') /\ Stores
      BY <1>0, <1>1, <3>1, RenewedClean DEF Clean
    <3>2. CASE AskMe(flow, "sync", forced, stored) /\ UNCHANGED store
               /\ (SessionLost \/ UNCHANGED <<sb, user>>)
      <4>1. stored \in Token \cup {Null} /\ OfToken(stored) /\ Stores
        BY <1>0, <1>1, <3>2, StoreKept DEF TypeOK, Clean
      <4>2. OfToken(sb') /\ OfUser(user')
        BY <1>1, <3>2 DEF SessionLost, Clean, OfToken, OfUser
      <4> HIDE DEF Stores
      <4> QED
        BY <3>2, <4>1, <4>2
    <3> HIDE DEF Stores
    <3> QED
      BY <1>5, <3>1, <3>2 DEF SyncRefreshed
  <2>3. /\ \A b \in Actors : Fits(flow'[b])
        /\ \A b \in Actors \ {"sync"} : flow'[b] = flow[b]
    BY <1>0, <1>1, <2>2, AskMeFits DEF TypeOK, Clean
  <2> QED
    BY <1>0, <1>1, <2>1, <2>2, <2>3, CleanStep DEF Clean
<1>6. CASE SyncTold
  <2>1. UNCHANGED <<sb, cache, event>>
    BY <1>6 DEF SyncTold
  <2>2. OfUser(flow["sync"].who)
    BY <1>0, <1>1, <1>6 DEF SyncTold, Clean, Fits
  <2>3. OfUser(user') /\ Stores
    <3>1. sb # Null => OfUser(sb.owner)
      BY <1>1 DEF Clean, OfToken, OfUser
    <3>2. CASE SetAuthHeader(sb) /\ sb # Null /\ user' = sb.owner
      BY <1>0, <1>1, <3>1, <3>2, StoreClean DEF Clean
    <3>3. CASE UNCHANGED store /\ user' \in {user, flow["sync"].who}
      BY <1>1, <2>2, <3>3, StoreKept DEF Clean
    <3> HIDE DEF Stores
    <3> QED
      BY <1>6, <3>2, <3>3 DEF SyncTold
  <2>4. Flows1
    <3>1. stored # Null /\ flow' = Move(flow, "sync", Awaiting("validate", stored)) /\ seen' = seen
            => Flows1
      BY <1>0, <1>1, <1>4 DEF Clean, TypeOK
    <3> HIDE DEF Flows1
    <3> QED
      BY <1>3, <1>6, <3>1 DEF SyncTold
  <2> QED
    BY <1>1, <2>1, <2>3, <2>4, CleanStep DEF Clean
<1>7. CASE SyncValidated
  <2>1. UNCHANGED <<sb, event>>
    BY <1>7 DEF SyncValidated
  <2>2. /\ OfToken(flow["sync"].tok) /\ OfUser(flow["sync"].tok.owner)
    BY <1>0, <1>1, <1>7 DEF SyncValidated, Clean, Fits, TypeInv, Places, OfToken, OfUser
  <2>3. OfUser(user') /\ OfUser(cache')
    BY <1>1, <1>7, <2>2 DEF SyncValidated, ClearAuthData, Clean, OfUser
  <2>4. Stores
    <3>1. SetAuthHeader(flow["sync"].tok) => Stores
      BY <1>0, <1>1, <2>2, StoreClean
    <3>2. UNCHANGED store \/ ClearAuthData => Stores
      BY <1>1, StoreKept
    <3> HIDE DEF Stores
    <3> QED
      BY <1>7, <3>1, <3>2 DEF SyncValidated
  <2>5. Flows1
    <3>1. flow' = Move(flow, "sync", At("rerefresh")) /\ seen' = seen => Flows1
      BY <1>1, <1>4 DEF Clean, OfToken
    <3> HIDE DEF Flows1
    <3> QED
      BY <1>3, <1>7, <3>1 DEF SyncValidated
  <2> QED
    BY <1>1, <2>1, <2>3, <2>4, <2>5, CleanStep DEF Clean
<1>8. CASE SyncRerefreshed
  <2>1. UNCHANGED <<cache, event>> /\ EndSync
    BY <1>8 DEF SyncRerefreshed
  <2>2. OfToken(sb') /\ OfUser(user') /\ Stores
    <3>1. ASSUME NEW t \in Token, Renewed(t), user' = seen
          PROVE  OfToken(sb') /\ OfUser(user') /\ Stores
      BY <1>0, <1>1, <3>1, RenewedClean DEF Clean
    <3>2. CASE UNCHANGED store /\ (SessionLost \/ UNCHANGED <<sb, user>>)
      <4>1. Stores
        BY <1>1, <3>2, StoreKept
      <4>2. OfToken(sb') /\ OfUser(user')
        BY <1>1, <3>2 DEF SessionLost, Clean, OfToken, OfUser
      <4> QED
        BY <4>1, <4>2
    <3> HIDE DEF Stores
    <3> QED
      BY <1>8, <3>1, <3>2 DEF SyncRerefreshed
  <2> QED
    BY <1>1, <1>3, <2>1, <2>2, CleanStep DEF Clean
<1>9. ASSUME NEW force \in BOOLEAN, PageSync(force)
      PROVE  Clean'
  <2>1. /\ flow' = Move(flow, "sync", At("refresh")) /\ seen' = user
        /\ UNCHANGED <<sb, cache, user, event>> /\ UNCHANGED store
    BY <1>9 DEF PageSync
  <2>2. Flows1
    BY <1>1, <1>4, <2>1 DEF Clean, OfToken
  <2>3. Stores
    BY <1>1, <2>1, StoreKept
  <2> QED
    BY <1>1, <2>1, <2>2, <2>3, CleanStep DEF Clean
<1> QED
  BY <1>5, <1>6, <1>7, <1>8, <1>9

\* The flows after a sync was asked for by one of its callers.
LEMMA StartSyncClean ==
    ASSUME TypeOK, Clean, flow["signout"].at # "sbout", NEW a \in {"mount", "login", "oauth"},
           NEW after \in {"idle", "start"}, NEW force \in BOOLEAN,
           NEW u \in Users \cup {Null}, OfUser(u), StartSync(a, after, force, u)
    PROVE  /\ \A b \in Actors : Fits(flow'[b])
           /\ flow'["signout"].at # "sbout" /\ OfUser(seen')
<1>1. /\ \A b \in Actors \ {a, "sync"} : flow'[b] = flow[b]
      /\ flow'[a] \in {At(after), At("sync")}
      /\ \/ seen' = seen /\ flow'["sync"] = flow["sync"]
         \/ seen' = u /\ flow'["sync"] = At("refresh")
  BY StartSyncStep
<1>2. Fits(At(after)) /\ Fits(At("sync")) /\ Fits(At("refresh"))
  BY Fitting DEF Steps, OfToken
<1> QED
  BY <1>1, <1>2 DEF Clean, Actors

LEMMA ListenerClean ==
    ASSUME TypeInv, CleanInv, ~tainted',
           MountStart \/ MountTold \/ ListenerEvent \/ ListenerTold \/ AutoRefresh
    PROVE  Clean'
<1> USE DEF args
<1> DEFINE Stores == /\ OfToken(stored')
                     /\ authData' # Null => OfToken(authData'.access) /\ OfToken(authData'.refresh)
<1>0. /\ TypeOK /\ "signout" \in Actors /\ "listener" \in Actors /\ "mount" \in Actors
      /\ "oauth" \in Actors
  BY DEF TypeInv, Actors
<1>1. Clean /\ UNCHANGED owner /\ flow["signout"].at # "sbout"
  BY MeanwhileStep DEF MountStart, MountTold, ListenerEvent, ListenerTold, AutoRefresh
<1>2. UNCHANGED store => Stores
  BY <1>1, StoreKept
<1>3. CASE MountStart
  <2>1. UNCHANGED <<sb, cache, user, event, seen>> /\ AskMe(flow, "mount", FALSE, stored)
    BY <1>3 DEF MountStart
  <2>2. Stores
    <3>1. SetAuthHeader(stored) => Stores
      BY <1>0, <1>1, StoreClean DEF Clean
    <3> HIDE DEF Stores
    <3> QED
      BY <1>2, <1>3, <3>1 DEF MountStart
  <2>3. /\ \A b \in Actors : Fits(flow'[b])
        /\ \A b \in Actors \ {"mount"} : flow'[b] = flow[b]
    BY <1>0, <1>1, <2>1, AskMeFits DEF TypeOK, Clean
  <2> QED
    BY <1>0, <1>1, <2>1, <2>2, <2>3, CleanStep DEF Clean
<1>4. CASE MountTold
  <2>1. UNCHANGED <<sb, cache, event>> /\ UNCHANGED store
        /\ StartSync("mount", "idle", FALSE, Null)
    BY <1>4 DEF MountTold
  <2>2. OfUser(user')
    BY <1>0, <1>1, <1>4 DEF MountTold, Clean, Fits
  <2>3. /\ \A b \in Actors : Fits(flow'[b])
        /\ flow'["signout"].at # "sbout" /\ OfUser(seen')
    BY <1>0, <1>1, <2>1, StartSyncClean DEF OfUser
  <2> QED
    BY <1>1, <1>2, <2>1, <2>2, <2>3, CleanStep DEF Clean
<1>5. CASE ListenerEvent
  <2>1. /\ sb \in Token /\ event' = sb /\ SetAuthHeader(sb) /\ AskMe(flow, "listener", FALSE, sb)
        /\ UNCHANGED <<sb, cache, user, seen>>
    BY <1>0, <1>5 DEF ListenerEvent, TypeOK
  <2>2. Stores
    BY <1>0, <1>1, <2>1, StoreClean DEF Clean
  <2>3. /\ \A b \in Actors : Fits(flow'[b])
        /\ \A b \in Actors \ {"listener"} : flow'[b] = flow[b]
    BY <1>0, <1>1, <2>1, AskMeFits DEF TypeOK, Clean
  <2> QED
    BY <1>0, <1>1, <2>1, <2>2, <2>3, CleanStep DEF Clean
<1>6. CASE ListenerTold
  <2>1. /\ flow["listener"].at = "told" /\ event' = Null
        /\ UNCHANGED <<sb, cache, seen>> /\ UNCHANGED store
    BY <1>6 DEF ListenerTold
  <2>2. event # Null
    BY <2>1 DEF TypeInv, Places
  <2>3. OfUser(user')
    BY <1>0, <1>1, <1>6, <2>1, <2>2 DEF ListenerTold, Clean, Fits, OfToken, OfUser
  <2>4. At("idle").at = "idle" /\ Fits(At("idle")) /\ Fits(At("start"))
    BY Standing, Fitting DEF Steps, OfToken
  <2>5. flow' = [[flow EXCEPT !["listener"] = At("idle")] EXCEPT
                    !["oauth"] = IF @.at = "listener" THEN At("start") ELSE @]
    BY <1>6 DEF ListenerTold, Move
  <2>6. /\ flow'["listener"] = At("idle")
        /\ \A b \in Actors \ {"listener", "oauth"} : flow'[b] = flow[b]
        /\ flow'["oauth"] \in {flow["oauth"], At("start")}
    BY <1>0, <2>5 DEF TypeOK
  <2>7. \A b \in Actors : Fits(flow'[b])
    BY <1>0, <1>1, <2>4, <2>6 DEF Clean
  <2>8. flow'["signout"].at # "sbout"
    BY <1>0, <1>1, <2>6
  <2> QED
    BY <1>1, <1>2, <2>1, <2>3, <2>7, <2>8, CleanStep DEF Clean, OfToken
<1>7. CASE AutoRefresh
  <2>1. UNCHANGED <<cache, flow, event, seen>>
    BY <1>7 DEF AutoRefresh
  <2>2. OfToken(sb') /\ OfUser(user') /\ Stores
    <3>1. ASSUME NEW t \in Token, Renewed(t), UNCHANGED user
          PROVE  OfToken(sb') /\ OfUser(user') /\ Stores
      BY <1>0, <1>1, <3>1, RenewedClean DEF Clean
    <3>2. SessionLost => OfToken(sb') /\ OfUser(user')
      BY <1>1 DEF SessionLost, Clean, OfToken, OfUser
    <3> HIDE DEF Stores
    <3> QED
      BY <1>2, <1>7, <3>1, <3>2 DEF AutoRefresh
  <2> QED
    BY <1>1, <2>1, <2>2, CleanStep DEF Clean
<1> QED
  BY <1>3, <1>4, <1>5, <1>6, <1>7

\* An account that signs in when nobody was and nothing is under way.
LEMMA SignInStep ==
    ASSUME TypeInv, CleanInv, ~tainted', NEW self \in {"login", "oauth"}, NEW u \in Users,
           owner' = u, tainted' = (tainted \/ Overlap(self))
    PROVE  /\ ~tainted /\ Clean /\ owner = Null
           /\ sb = Null /\ stored = Null /\ authData = Null /\ cache = Null /\ user = Null
           /\ seen = Null /\ event = Null
           /\ \A a \in Actors \ {self} : ~Writes(a)
<1>1. ~tainted /\ Clean /\ owner = Null /\ \A a \in Actors \ {self} : ~Writes(a)
  BY DEF CleanInv, Overlap
<1>2. Null \notin Users /\ \A t \in Token : t.owner # Null
  BY SessionAssumption, TokenType
<1>3. \A t \in Token \cup {Null} : OfToken(t) => t = Null
  BY <1>1, <1>2 DEF OfToken
<1>4. sb = Null /\ stored = Null /\ event = Null
  BY <1>1, <1>3 DEF TypeInv, TypeOK, Clean
<1>5. cache = Null /\ user = Null /\ seen = Null
  BY <1>1, <1>2 DEF TypeInv, TypeOK, Clean, OfUser
<1>6. authData = Null
  <2>1. authData # Null => authData.access \in Token
    BY DEF TypeInv, TypeOK, AuthData
  <2> QED
    BY <1>1, <1>3, <2>1, TokenType DEF Clean
<1> QED
  BY <1>1, <1>4, <1>5, <1>6

LEMMA SignClean ==
    ASSUME TypeInv, CleanInv, ~tainted',
           \/ LoginSubmit \/ LoginRefused \/ LoginAskMe \/ LoginTold \/ OAuthSync
           \/ \E u \in Users : LoginAnswer(u) \/ OAuthReturn(u)
           \/ SignOut \/ LogoutAnswer \/ SupabaseSignedOut
    PROVE  Clean'
<1> USE DEF args, session
<1>0. /\ TypeOK /\ "signout" \in Actors /\ "login" \in Actors /\ "oauth" \in Actors
      /\ "listener" \in Actors /\ "sync" \in Actors
  BY DEF TypeInv, Actors
<1>1. CASE LoginSubmit \/ LoginRefused \/ LoginTold
  <2>1. Clean /\ UNCHANGED owner /\ flow["signout"].at # "sbout"
    BY <1>1, MeanwhileStep DEF LoginSubmit, LoginRefused, LoginTold
  <2>2. UNCHANGED <<sb, stored, authData, cache, user, event, seen>>
    BY <1>1 DEF LoginSubmit, LoginRefused, LoginTold, store
  <2>3. Fits(At("login")) /\ Fits(At("idle"))
    BY Fitting DEF Steps, OfToken
  <2>4. \E r : Fits(r) /\ flow' = Move(flow, "login", r)
    BY <1>1, <2>3 DEF LoginSubmit, LoginRefused, LoginTold
  <2>5. (\A b \in Actors : Fits(flow'[b])) /\ flow'["signout"].at # "sbout"
    BY <1>0, <2>1, <2>4, MoveFits DEF TypeOK, Clean
  <2> QED
    BY <2>1, <2>2, <2>5, CleanStep DEF Clean
<1>2. CASE LoginAskMe
  <2>1. Clean /\ UNCHANGED owner /\ flow["signout"].at # "sbout"
    BY <1>2, MeanwhileStep DEF LoginAskMe
  <2>2. UNCHANGED <<sb, stored, authData, cache, user, event, seen>>
    BY <1>2 DEF LoginAskMe, store
  <2>3. (\A b \in Actors : Fits(flow'[b])) /\ flow'["signout"].at # "sbout"
    BY <1>0, <1>2, <2>1, AskMeFits DEF LoginAskMe, TypeOK, Clean
  <2> QED
    BY <2>1, <2>2, <2>3, CleanStep DEF Clean
<1>3. CASE OAuthSync
  <2>1. Clean /\ UNCHANGED owner /\ flow["signout"].at # "sbout"
    BY <1>3, MeanwhileStep DEF OAuthSync
  <2>2. UNCHANGED <<sb, stored, authData, cache, user, event>>
    BY <1>3 DEF OAuthSync, store
  <2>3. (\A b \in Actors : Fits(flow'[b])) /\ flow'["signout"].at # "sbout" /\ OfUser(seen')
    BY <1>0, <1>3, <2>1, StartSyncClean DEF OAuthSync, TypeOK, Clean
  <2> QED
    BY <2>1, <2>2, <2>3, CleanStep DEF Clean
<1>4. ASSUME NEW u \in Users, LoginAnswer(u)
      PROVE  Clean'
  <2>1. /\ StartSync("login", "start", TRUE, user) /\ owner' = u
        /\ tainted' = (tainted \/ Overlap("login"))
        /\ UNCHANGED <<sb, cache, user, event>>
    BY <1>4 DEF LoginAnswer
  <2>2. /\ sb = Null /\ cache = Null /\ user = Null /\ seen = Null /\ event = Null
        /\ \A a \in Actors \ {"login"} : ~Writes(a)
    BY <2>1, SignInStep
  <2>3. PICK t \in Token : t.owner = u /\ SaveLogin(t)
    BY <1>4, IssuedType DEF LoginAnswer
  <2>4. /\ \A b \in Actors \ {"login", "sync"} : flow'[b] = flow[b]
        /\ flow'["login"] \in {At("start"), At("sync")}
        /\ \/ seen' = seen /\ flow'["sync"] = flow["sync"]
           \/ seen' = user /\ flow'["sync"] = At("refresh")
    BY <1>0, <2>1, StartSyncStep DEF TypeOK
  <2>5. \A s \in {"start", "sync", "refresh"} : At(s).tok = Null /\ At(s).who = Null
    BY Standing DEF Steps
  <2>6. \A a \in Actors : Fits(flow[a]) \/ a = "login"
    BY <2>2 DEF Fits, Writes
  <2>7. stored' = t /\ authData' = [access |-> t, refresh |-> t]
    BY <2>3 DEF SaveLogin
  <2>8. \A a \in Actors : Fits(flow[a])'
    BY <2>1, <2>2, <2>4, <2>5 DEF Fits, Writes, OfToken, OfUser
  <2>9. flow'["signout"].at # "sbout"
    BY <1>0, <2>2, <2>4 DEF Writes
  <2> QED
    BY <2>1, <2>2, <2>3, <2>4, <2>7, <2>8, <2>9 DEF Clean, OfToken, OfUser
<1>5. ASSUME NEW u \in Users, OAuthReturn(u)
      PROVE  Clean'
  <2> DEFINE f == Move(flow, "oauth", At("listener"))
  <2>1. /\ owner' = u /\ tainted' = (tainted \/ Overlap("oauth"))
        /\ UNCHANGED <<cache, user, seen>>
    BY <1>5 DEF OAuthReturn
  <2>2. /\ sb = Null /\ cache = Null /\ user = Null /\ seen = Null /\ authData = Null
        /\ \A a \in Actors \ {"oauth"} : ~Writes(a)
    BY <2>1, SignInStep
  <2>3. PICK t \in Token : /\ t.owner = u /\ sb' = t /\ event' = t /\ SetAuthHeader(t)
                           /\ AskMe(f, "listener", FALSE, t)
    BY <1>5, IssuedType DEF OAuthReturn
  <2>4. /\ f \in [Actors -> Flow] /\ f["oauth"] = At("listener")
        /\ \A b \in Actors \ {"oauth"} : f[b] = flow[b]
    BY <1>0, Standing DEF TypeOK, Move, Steps
  <2> HIDE DEF f
  <2>5. /\ \A b \in Actors \ {"listener"} : flow'[b] = f[b]
        /\ flow'["listener"].tok \in {Null, t} /\ flow'["listener"].who \in {Null, cache}
    BY <1>0, <2>3, <2>4, AskMeStep
  <2>6. At("listener").tok = Null /\ At("listener").who = Null
    BY Standing DEF Steps
  <2>7. stored' = t /\ authData' = [access |-> t, refresh |-> Null]
    BY <2>2, <2>3 DEF SetAuthHeader
  <2>8. \A a \in Actors : Fits(flow[a])'
    BY <2>1, <2>2, <2>3, <2>4, <2>5, <2>6 DEF Fits, Writes, OfToken, OfUser
  <2>9. flow'["signout"].at # "sbout"
    BY <1>0, <2>2, <2>4, <2>5 DEF Writes
  <2> QED
    BY <2>1, <2>2, <2>3, <2>7, <2>8, <2>9 DEF Clean, OfToken, OfUser
<1>6. CASE SignOut \/ LogoutAnswer
  <2>1. Clean /\ UNCHANGED <<owner, sb, user, event, seen>>
    BY <1>6 DEF SignOut, LogoutAnswer, history, CleanInv
  <2>2. /\ At("logout").at = "logout" /\ Fits(At("logout")) /\ Fits(At("sbout")) /\ Fits(At("idle"))
        /\ At("idle").at = "idle"
    BY Standing, Fitting DEF Steps, OfToken
  <2>3. \/ flow' = Move(flow, "signout", At("logout")) /\ UNCHANGED <<stored, authData, cache>>
        \/ /\ \E s \in {"sbout", "idle"} : flow' = Move(flow, "signout", At(s))
           /\ stored' = Null /\ authData' = Null /\ cache' = Null
    BY <1>6 DEF SignOut, LogoutAnswer, ClearAuthData, store
  <2>4. \E r : Fits(r) /\ flow' = Move(flow, "signout", r)
    BY <2>2, <2>3
  <2>5. \A b \in Actors : Fits(flow'[b])
    BY <1>0, <2>1, <2>4, MoveFits DEF TypeOK, Clean
  <2>6. \A b \in Actors : Fits(flow[b])'
    BY <2>1, <2>5 DEF Fits, OfToken, OfUser
  <2>7. CASE flow' = Move(flow, "signout", At("logout")) /\ UNCHANGED <<stored, authData, cache>>
    <3>1. flow'["signout"].at = "logout"
      BY <1>0, <2>2, <2>7 DEF Move, TypeOK
    <3> QED
      BY <2>1, <2>6, <2>7, <3>1 DEF Clean, OfToken, OfUser
  <2>8. CASE stored' = Null /\ authData' = Null /\ cache' = Null
    BY <2>1, <2>6, <2>8 DEF Clean, OfToken, OfUser
  <2> QED
    BY <2>3, <2>7, <2>8
<1>7. CASE SupabaseSignedOut
  <2>1. /\ user' = Null /\ owner' = Null /\ sb' = Null
        /\ flow' = Move(flow, "signout", At("idle")) /\ flow["signout"].at = "sbout"
        /\ UNCHANGED <<stored, authData, cache, event, seen>>
        /\ ~tainted /\ \A a \in Actors \ {"signout"} : ~Writes(a)
    BY <1>7 DEF SupabaseSignedOut, store
  <2>2. stored = Null /\ authData = Null /\ cache = Null
    BY <2>1 DEF CleanInv, Clean
  <2>3. event = Null /\ seen = Null
    BY <1>0, <2>1 DEF TypeInv, Places, Syncing, Writes
  <2>4. At("idle").at = "idle"
    BY Standing DEF Steps
  <2>5. flow'["signout"] = At("idle") /\ \A b \in Actors \ {"signout"} : flow'[b] = flow[b]
    BY <1>0, <2>1 DEF Move, TypeOK
  <2>6. \A a \in Actors : Fits(flow[a])'
    BY <2>1, <2>4, <2>5 DEF Fits, Writes
  <2> QED
    BY <2>1, <2>2, <2>3, <2>4, <2>5, <2>6 DEF Clean, OfToken, OfUser
<1> QED
  BY <1>1, <1>2, <1>3, <1>4, <1>5, <1>6, <1>7

LEMMA ApiClean ==
    ASSUME TypeInv, CleanInv, ~tainted',
           ApiRequest \/ ApiSessionRefreshed \/ ApiRefreshed \/ ApiAnswer
    PROVE  Clean'
<1> USE DEF args, session
<1> DEFINE Stores == /\ OfToken(stored')
                     /\ authData' # Null => OfToken(authData'.access) /\ OfToken(authData'.refresh)
           Moved == \E r : Fits(r) /\ flow' = Move(flow, "api", r)
<1>0. /\ TypeOK /\ "api" \in Actors /\ "signout" \in Actors
      /\ \A s \in {"idle", "sbrefresh", "fetch", "fetch2", "refresh0", "refresh1"} : s \in Steps
  BY DEF TypeInv, Actors, Steps
<1>1. Clean /\ UNCHANGED owner /\ flow["signout"].at # "sbout"
  BY MeanwhileStep DEF ApiRequest, ApiSessionRefreshed, ApiRefreshed, ApiAnswer
<1>2. UNCHANGED <<cache, event, seen>>
  BY DEF ApiRequest, ApiSessionRefreshed, ApiRefreshed, ApiAnswer
<1>3. UNCHANGED store => Stores
  BY <1>1, StoreKept
<1>4. \A s \in {"idle", "sbrefresh"} : Fits(At(s))
  BY <1>0, Fitting DEF OfToken
<1>5. \A s \in {"idle", "sbrefresh"} : flow' = Move(flow, "api", At(s)) => Moved
  BY <1>4
<1>6. ASSUME NEW t \in Token \cup {Null}, OfToken(t),
             NEW s \in {"fetch", "fetch2", "refresh0", "refresh1"},
             flow' = Move(flow, "api", Awaiting(s, t))
      PROVE  Moved
  <2>1. Fits(Awaiting(s, t))
    BY <1>0, <1>6, Fitting
  <2> QED
    BY <1>6, <2>1
<1>7. ASSUME NEW s \in {"refresh0", "refresh1"}, RenewOrFail(s)
      PROVE  Moved
  <2> DEFINE refresh == IF authData = Null THEN Null ELSE authData.refresh
  <2>1. refresh \in Token \cup {Null} /\ OfToken(refresh)
    BY <1>0, <1>1 DEF TypeOK, AuthData, Clean, OfToken
  <2>2. \/ flow' = Move(flow, "api", At("idle"))
        \/ flow' = Move(flow, "api", Awaiting(s, refresh))
    BY <1>7 DEF RenewOrFail
  <2> HIDE DEF refresh, Moved
  <2> QED
    BY <1>5, <1>6, <2>1, <2>2
<1>8. ASSUME NEW t \in Token \cup {Null}, OfToken(t), SendWith(t)
      PROVE  Moved /\ Stores
  <2>1. t \in Token /\ SyncStored(t) /\ flow' = Move(flow, "api", Awaiting("fetch", t))
    BY <1>8 DEF SendWith
  <2>2. Moved
    <3> HIDE DEF Moved
    <3> QED
      BY <1>6, <1>8, <2>1
  <2> QED
    BY <1>0, <1>1, <1>8, <2>1, <2>2, StoreClean
<1>9. ASSUME BestStoredToken
      PROVE  Moved /\ Stores
  <2>1. /\ stored \in Token \cup {Null} /\ OfToken(stored)
        /\ authData # Null => authData.access \in Token /\ OfToken(authData.access)
    BY <1>0, <1>1 DEF TypeOK, AuthData, Clean
  <2> HIDE DEF Moved, Stores
  <2> QED
    BY <1>3, <1>7, <1>8, <1>9, <2>1 DEF BestStoredToken
<1>10. Moved /\ Stores /\ OfToken(sb') /\ OfUser(user')
  <2>0. sb \in Token \cup {Null} /\ OfToken(sb) /\ OfUser(user) /\ OfToken(Null) /\ OfUser(Null)
    BY <1>0, <1>1 DEF TypeOK, Clean, OfToken, OfUser
  <2>1. CASE ApiRequest
    <3> HIDE DEF Moved, Stores
    <3> QED
      BY <1>3, <1>5, <1>8, <1>9, <2>0, <2>1 DEF ApiRequest
  <2>2. CASE ApiSessionRefreshed
    <3>1. ASSUME NEW t \in Token, Renewed(t), UNCHANGED user,
                 flow' = Move(flow, "api", Awaiting("fetch", t))
          PROVE  Moved /\ Stores /\ OfToken(sb') /\ OfUser(user')
      <4>1. OfToken(t) /\ OfToken(sb') /\ Stores
        BY <1>0, <1>1, <3>1, RenewedClean
      <4> HIDE DEF Moved, Stores
      <4> QED
        BY <1>6, <2>0, <3>1, <4>1
    <3> HIDE DEF Moved, Stores
    <3> QED
      BY <1>9, <2>0, <2>2, <3>1 DEF ApiSessionRefreshed, SessionLost
  <2>3. CASE ApiRefreshed
    <3>1. ASSUME NEW t \in Issued(flow["api"].tok.owner), SaveLogin(t),
                 NEW s \in {"fetch", "fetch2"}, flow' = Move(flow, "api", Awaiting(s, t)),
                 flow["api"].at \in {"refresh0", "refresh1"}
          PROVE  Moved /\ Stores
      <4>1. flow["api"].tok # Null /\ OfToken(flow["api"].tok)
        BY <1>0, <1>1, <3>1 DEF TypeInv, Places, Clean, Fits
      <4>2. t \in Token /\ OfToken(t)
        BY <4>1, IssuedType DEF OfToken
      <4>3. Stores
        BY <1>0, <1>1, <3>1, <4>2, StoreClean
      <4> HIDE DEF Moved, Stores
      <4> QED
        BY <1>6, <3>1, <4>2, <4>3
    <3> HIDE DEF Moved, Stores
    <3> QED
      BY <1>3, <1>5, <2>0, <2>3, <3>1 DEF ApiRefreshed
  <2>4. CASE ApiAnswer
    <3>1. UNCHANGED <<sb, user>> /\ UNCHANGED store
      BY <2>4 DEF ApiAnswer
    <3> HIDE DEF Moved, Stores
    <3> QED
      BY <1>3, <1>5, <1>7, <2>0, <2>4, <3>1 DEF ApiAnswer
  <2> QED
    BY <2>1, <2>2, <2>3, <2>4
<1>11. (\A b \in Actors : Fits(flow'[b])) /\ flow'["signout"].at # "sbout"
  BY <1>0, <1>1, <1>10, MoveFits DEF TypeOK, Clean
<1> QED
  BY <1>1, <1>2, <1>10, <1>11, CleanStep DEF Clean

(***************************************************************************)
(* Whatever order the servers answer in and however often tokens are       *)
(* renewed, the tab mixes no two accounts and keeps none after a sign-out, *)
(* as long as no sign-in or sign-out overlaps a flow begun before it.      *)
(***************************************************************************)
THEOREM OneAccountHolds == Spec => []OneAccount
<1>1. Init => CleanInv
  <2> SUFFICES ASSUME Init PROVE Clean
    BY DEF CleanInv
  <2>1. PICK u \in Users, s \in Serials, withSb, cached \in BOOLEAN :
          LET t == [owner |-> u, serial |-> s] IN
          \/ /\ stored = t /\ owner = u
             /\ sb = IF withSb THEN t ELSE Null
             /\ authData = [access |-> t, refresh |-> IF withSb THEN Null ELSE t]
             /\ cache = IF cached THEN u ELSE Null
          \/ /\ stored = Null /\ owner = Null /\ sb = Null
             /\ authData = Null /\ cache = Null
    BY DEF Init
  <2>2. /\ OfToken(sb) /\ OfToken(stored) /\ OfUser(cache)
        /\ authData # Null => OfToken(authData.access) /\ OfToken(authData.refresh)
    BY <2>1 DEF OfToken, OfUser
  <2>3. At("start").at # "sbout" /\ At("idle").at # "sbout" /\ Fits(At("start")) /\ Fits(At("idle"))
    BY Standing, Fitting DEF Steps, OfToken
  <2>4. \A a \in Actors : Fits(flow[a]) /\ flow[a].at # "sbout"
    BY <2>3 DEF Init
  <2>5. "signout" \in Actors
    BY DEF Actors
  <2> QED
    BY <2>2, <2>4, <2>5 DEF Init, Clean, OfToken, OfUser
<1>2. TypeInv /\ CleanInv /\ [Next]_vars => CleanInv'
  <2> SUFFICES ASSUME TypeInv, CleanInv, [Next]_vars, ~tainted' PROVE Clean'
    BY DEF CleanInv
  <2>1. CASE UNCHANGED vars
    BY <2>1 DEF vars, session, store, args, history, CleanInv, Clean, Fits, OfToken, OfUser
  <2> QED
    BY <2>1, AnswerClean, SyncClean, ListenerClean, SignClean, ApiClean DEF Next
<1>3. TypeInv /\ CleanInv => OneAccount
  <2> SUFFICES ASSUME TypeInv, CleanInv, ~tainted PROVE Held \subseteq ({owner} \ {Null})
    BY DEF OneAccount
  <2>1. Null \notin Users /\ Clean
    BY SessionAssumption DEF CleanInv
  <2>2. \A t \in Token \cup {Null} : OfToken(t) => OwnersIn(t) \subseteq ({owner} \ {Null})
    BY <2>1, TokenType DEF OfToken, OwnersIn
  <2>3. /\ OwnersIn(sb) \subseteq ({owner} \ {Null})
        /\ OwnersIn(stored) \subseteq ({owner} \ {Null})
    BY <2>1, <2>2 DEF TypeInv, TypeOK, Clean
  <2>4. authData # Null => /\ OwnersIn(authData.access) \subseteq ({owner} \ {Null})
                           /\ OwnersIn(authData.refresh) \subseteq ({owner} \ {Null})
    BY <2>1, <2>2 DEF TypeInv, TypeOK, AuthData, Clean
  <2>5. ({cache, user} \ {Null}) \subseteq ({owner} \ {Null})
    BY <2>1 DEF Clean, OfUser
  <2> QED
    BY <2>3, <2>4, <2>5 DEF Held
<1> QED
  BY <1>1, <1>2, <1>3, Typed, PTL DEF Spec

=============================================================================
