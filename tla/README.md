# Verification of DPH Classifieds

TLA+ models of the parts of DPH Classifieds whose correctness depends on the
order in which things happen: independent processes that reach the database,
and handlers of one page that interleave at their awaits. TLC checks them on
small instances; TLAPS proves what matters most for every value of the
constants.

Below, `backend/`, `frontend/` and `mobile/` are the directories of
`src/flask-react-supabase-app/`.

## 1. The system

A Flask backend (`backend/app.py`, `backend/routes/`), a worker process
(`backend/worker.py`, one loop per task, `backend/workers/`), a React client
(`frontend/`), an Expo client (`mobile/`), two inference services (OCR, vision)
and a Reddit (Devvit) bot.

*The server.* All state is in Supabase and reached through PostgREST: **every
read and every write is an HTTP request of its own, there are no
transactions**. A handler GETs a row, decides, and PATCHes by id; between two of
its requests anything may happen to the row, and several backend and worker
processes run at once. Two idioms stand in for locks: a PATCH whose filter
repeats what was read (a compare-and-set), and a column holding the end of a
lease.

*The clients.* One JavaScript thread each, so a handler runs without
interruption **up to its next await**. What it read of React's state before it is
that of the render it was created in and may be stale after it; answers of the
server come in any order, or not at all although the server acted.

### 1.1 Inventory

| component | state | operations | what is hard | correct when | modelled |
|---|---|---|---|---|---|
| **Listing lifecycle** (`app.py` 1070-2054, 2691-2829, 13041-13277; `routes/listing_lifecycle.py`, `listing_outcomes.py`, `admin_listing_lifecycle.py`, `moderation.py`, `admin.py`, `admin_listing_delete.py`) | lifecycle columns of a row of `cars`, `bikes`, `car_parts`, `license_plates` | sync (sweep, "My listings", admin pages), extend, outcome, renew, approve, reject, delete, sold, custom expiry, notices | blind PATCHes by id from stale rows, partial `select`s, refused PATCHes only logged, two senders of one notice, hard deletes | owners get window and retention, sales and renewals last, one notice per expiry, nothing overdue stays | `ListingRules`, `ListingLifecycle` |
| **Webhook delivery** (`services/webhook_dispatcher.py`, `workers/webhook_delivery_worker.py`, `routes/dealer/webhooks.py`) | `dealer_webhooks`, `dealer_webhook_deliveries` | dispatch, due, claim, POST, mark, delete webhook | several workers, leases that run out, lost answers, retries | leases exclude, attempts counted, back-offs waited for, each delivery settled truthfully | `WebhookDelivery` |
| **Dealer auto-approval** (`workers/dealer_auto_approval_worker.py`, `routes/dealer_verification.py`, `app.py:8076`) | `dealer_documents`, `dealer_pending_approvals`, `users.dealer_verified` | upload, replace, delete, schedule, review, claim, approve, finalise | documents replaced meanwhile, leases, uploads of one kind at once | verified on documents that passed, one mail | `DealerApproval` |
| **Lead aggregation** (`workers/dealer_lead_aggregator.py`, `services/dealer_leads.py`) | cursor, `dealer_leads`, `dealer_lead_events` | fetch, fold or insert, note, save cursor | crash before the cursor is saved, equal stamps, late commits, unchecked answers | every event counted once | `LeadAggregation` |
| **Auto review** (`workers/auto_review_worker.py`, `services/auto_review/`, `routes/moderation.py`) | decision columns, photos | fetch, evaluate, record, approve, queue, reject | several reviews of a listing that is being edited, crash between record and approve | nothing explicit live, nothing harmless deleted, every submission decided | `AutoReview` |
| **Inventory import, dealer feeds** (`workers/inventory_import_worker.py`, `dealer_api_source_poller.py`) | `dealer_inventory_jobs`, `dealer_api_sources`, `cars` | claim, look up, insert, patch, record, auto-disable | lookup then insert, crash while `running` | a success means all cars are there | `InventoryImport` |
| **API cache** (`app.py` 607-827, `application/car_read_routes.py`) | Redis, memory of each process | look up, lock, compute, store, invalidate | an answer computed before an edit and stored after it, outages | stale only while an edit is about to delete it | `ResponseCache` |
| **Web session** (`frontend/src/context/AuthContext.js`, `utils/authService.js`, `supabaseClient.js`, `apiClient.js`) | six places that hold the account | first check, sync, listener, log-in, OAuth, sign-out, renewal | all of them interleave | one account, both token slots agree | `ClientSession` |
| **Favourites** (`SavedListingsContext.js` of both clients) | shown list, busy hearts | load, toggle, roll back | optimistic changes, overlapping loads and failures | what is shown is what the server has | `SavedListings` |
| **Explore feeds** (`frontend/src/components/ExplorePage.jsx`, `mobile/src/screens/explore/ExploreScreen.js`) | list, offset, cached list | first page, further page, refresh, query | pages by offset of a list that changes, answers that come late | approvals leave out no listing, removals repeat none | `ExploreFeed` |
| **Reddit tab** (`ExplorePage.jsx`, `utils/redditPagination.js`) | list, cursor | page, merge | four endpoints, one cursor | no row skipped | `RedditFeed` |
| **Registration document** (`PostCar.js`, `PostBike.js`, `PostPlate.js`) | file, path, scan | choose, clear, upload, scan, submit | uploads and scans of earlier files | what is posted is of the chosen file | `RegistrationScan` |
| **Photos, drafts, submission** (`PostCar.js`, `PostBike.js`, `PostCarParts.js`, `utils/listingDrafts.js`) | photos, drafts, listings | pick, check, crop, save, restore, submit, clear | picks and saves that overlap, lost answers | no photo lost, one listing per submission | `ListingForm` |
| **Listing form of the app** (`mobile/src/screens/listing/PostListingScreen.js`) | fields, photos, two drafts | pick, type, save, load, offer, submit, reset | saves of an old render, drafts that arrive late | drafts keep up, photos keep their category | `AppListingForm` |
| **Mobile session, push** (`mobile/src/context/AuthContext.js`, `utils/pushNotifications.js`, `routes/user.py`) | session, snapshot, saved key, token row | sign in and out, start, switch, register, withdraw | jobs nobody waits for | the device rings for the user it shows | `PushToken` |
| Phone verification (`app.py` 4454-4830) | one row | start, verify | attempts are read, then written | attempts bounded | section 6 |
| Reminders and alerts (`app.py` 9131-9920) | sent and claim columns | claim, send, mark | the claim does not test the claim column | one mail per reminder | section 6 |
| Scheduler (`worker.py:182`) | wait per loop | tick, back off | - | waits between base and cap | section 6 |
| Sessions on the server (`app.py` 3379-3600) | revocation marks | revoke, check | Redis and a fall-back | a revoked token is refused | section 6 |
| Listing limits (`app.py:4914`), featured listings | counts | check then insert | submissions at once | limit kept | section 6 |
| Creation, update, repost; Reddit import and posting; Devvit bot; analytics; admin and report pages; OCR and vision; screens and pages of the clients; health | - | - | data, CRUD, layout, pure I/O | - | section 6 |

Components meet in the database and in what one tab or device keeps. An import
or a submission inserts the rows whose life `ListingLifecycle` follows; auto
review approves through the `_perform_approval` an administrator uses; the
worker runs sweep, scanner, deliveries, reviews, approvals, polls and leads next
to each other. Every client handler gets its token from the session; a sign-out
empties the favourites and withdraws the push token.

## 2. Modules

| module | what it models | runs, proofs |
|---|---|---|
| `ListingRules`, `ListingLifecycle` | the pure rules of one row; the processes around it | `MCListingLifecycle`, `ListingLifecycle_proofs` |
| `DeliveryContract`, `WebhookDelivery` | what delivery promises; dispatch and any number of delivery workers | `MCWebhookDelivery`, `WebhookDelivery_proofs` |
| `DealerApproval` | required documents, the scheduled row, the workers | `MCDealerApproval`, `DealerApproval_proofs` |
| `LeadAggregation` | contact events, the cursor, leads | `MCLeadAggregation`, `LeadAggregation_proofs` |
| `AutoReview` | reviews of one listing | `MCAutoReview`, `AutoReview_proofs` |
| `ClientSession` | the session of one browser tab | `MCClientSession`, `ClientSession_proofs` |
| `SavedListings` | favourites of a tab or of the app | `MCClients`, `Clients_proofs` |
| `RegistrationScan` | the registration document of a form | `MCClients`, `Clients_proofs` |
| `ListingForm` | photos, draft and submission of a form of the web | `MCClients`, `Clients_proofs` |
| `ExploreFeed`, `RedditFeed` | feeds of pages | `MCClients`, `Clients_proofs` |
| `AppListingForm` | the listing form of the app and its two drafts | `MCServer`, `Server_proofs` |
| `InventoryImport` | importers and pollers of one dealership | `MCServer`, `Server_proofs` |
| `ResponseCache` | one cached answer | `MCServer`, `Server_proofs` |
| `PushToken` | the app's session and its push registration | `MCServer`, `Server_proofs` |
| `ClientPages`, `ServerParts` | the components of `MCClients`, of `MCServer` with their own constants and variables | what runs and proofs start from |

`MCClients` and `MCServer` put several small components into one run: they have a variable
(`page` or `part`) that says which component a
behaviour is about, and the others stay as they are at first. These components
share no state, so nothing is lost by looking at one at a time; no composition
is claimed either. `ClientPages` and `ServerParts` put the same components side
by side for the proofs: TLC checks and TLAPS proves properties of the same
definitions. `SavedListings`, `ExploreFeed`, `RegistrationScan` and
`ListingForm` have a constant for the client or the form (`Web`, `Form`, `Car`),
and the bundle has an instance for each value. In every module that has one,
`Fault` and `faults` are bounded failures, `acts` counts what people do, and
Booleans such as `changed`, `trusted`, `calm` or `lost` are history: they record
that one of the overlaps a property is conditioned on has happened.

### 2.1 Listing lifecycle

*Row.* `Listing` keeps the columns the rules read. `auto_removed_at`,
`deleted_at` and the two e-mail stamps are read only as set / not set and are
Booleans. `OptTime` is a nullable timestamp.

*Rules.* `Lifecycle(r, t)` is `_compute_listing_lifecycle`;
`RepairStaleRenewal` and `RepairExtension` are the two renewal repairs, and
`Reopened` the columns both reset; `SyncPatch(row, s, t)` is the PATCH that
`_sync_listing_lifecycle` computes from the record `s` **as read**, applied to
`row` **as it is when the PATCH arrives**. `Renewed`, `MovedToDraft`,
`MarkedSold`, `Approved` and `WithExpiry` are the owner's and the admin's writes.

*Processes.* Each has a program counter `pc`, the row it last read or wrote
(`base`) and the reason it syncs (`task`).

| action | code |
|---|---|
| `SweepRead`, `SyncWrite("sweep")`, `Claim`, `Purge` | the sweep: GET, PATCH, e-mail claim, hard delete |
| `ViewRead`, `SyncWrite("client")` | "My listings", the admin's detail page |
| `ScannerRead`, `ScannerClaim` | the expiry-notice scanner |
| `ExtendRequest`, `OutcomeRequest`, `AdminRenewRequest` | first half of renewals and outcomes |
| `RenewWrite`, `Reload`, `RepairRenewed` then `SyncWrite` | `_renew_listing_and_verify`: PATCH, reload, repair, reload, sync |
| `DraftWrite`, `SoldWrite` | the other outcomes |
| `Approve`, `ApproveOnly`, `Reject`, `Delete`, `AdminSold`, `SetExpiry`, `HardDelete` | writes by id that read nothing they overwrite: one step |
| `SyncFails`, `RequestFails`, `Crash` | a refused PATCH, a failing request, a process that dies |
| `Tick` | time; no handler lasts a whole unit (`late`), a unit being weeks in the code |

`Seen` is what a process sees of the row: the sweep's and the scanner's
`select`s leave columns out, and `record.get()` of an absent column is None;
"My listings" turns a rejected record into a draft before syncing it.

*History.* `noticed` and `repeated` record notices; `custom` says the expiry of
this lifecycle was set by hand; `raced` that a sync wrote from a row that had
changed since it was read. Renewal, approval and draft start a new lifecycle and
reset both. Properties conditioned on `Clean` (neither) say what holds in a
lifecycle no such write has disturbed; they also hold across earlier, disturbed
lifecycles of the row.

### 2.2 Webhook delivery

A row of `dealer_webhook_deliveries` is a status, an attempt count and
`next_retry_at`. The code compares `next_retry_at` with the clock and, in every
compare-and-set, with the exact string read before. The model keeps a timestamp
as the time left until it (`wait`) and a `stamp` distinct for every timestamp a
row gets: the code's carry microseconds, so two of one row do not coincide.
`Tick` lowers every `wait`; there is no absolute clock and no time bound.

| action | code |
|---|---|
| `DispatchRead`, `DispatchInsert` | `dispatch`: GET the webhooks, insert all rows in one POST, which fails as a whole |
| `DeleteWebhook` | `delete_webhook` with ON DELETE CASCADE |
| `FetchDue` | `_due_deliveries`: any batch of at most `BATCH_LIMIT` due rows |
| `Claim` | `_claim`, the compare-and-set that takes the lease |
| `Lookup`, `Post` | `_process`: webhook, secret and URL; the POST and its answer |
| `Mark` | `_mark`, conditional on the lease |
| `ClaimLost`, `Raise`, `MarkLost`, `Crash`, `Abort` | lost answers, exceptions, restarts, the `dead_letter` finalisation of `run` |

`Contract` instantiates `DeliveryContract` with `phase` mapped to the status of
each row. `posts`, `excused`, `accepted` and `cool` are history.

### 2.3 Workers

*`DealerApproval`.* A document is a model value of one of the two required
kinds (`Trade`, `Tax`); `status` is its review, `active` and `good` the
documents not replaced and those whose score is high enough. `UploadStart`,
`UploadReplace`, `UploadInsert` are the three requests of an upload (score,
replace the active ones it read, insert), `ScheduleCheck`, `ScheduleUser`,
`ScheduleCancel`, `ScheduleInsert` those of
`_schedule_dealer_auto_approval_if_eligible`. A worker goes through `Claim`,
`ReadDocs`, `ReadUser`, `ApproveDoc` (one request per document), `DocsApproved`,
`ApproveUser`, `Mark`, `Email`. A request that fails may have been served
(`ApproveDoc`), and scheduling goes on when the user cannot be read
(`ScheduleUser`). A lease may end at any step (`LeaseEnds`): how
long a step takes is open. `changed` in a worker's record and `twins` are
history: documents changed after they were read, two active ones of a kind.

*`LeadAggregation`.* Events are stamped by `Begin` and visible from `Commit` on,
in any order. The run of the worker is `Load`, `Fetch`, then for each event
`Lookup` and `Fold` or `Insert`, `Note`, and at the end `Save`; an empty or failed
fetch leads to `SaveClock`. The answers the code does not look at may be
failures. `redo` counts runs cut short before `Save`; `unlucky` events were
committed behind the cursor or had a failed request.

*`AutoReview`.* A reviewer is one call of `process_once`: the worker's tick, the
thread after a creation, an administrator's run. `Fetch` reads the listing,
`FetchUrls` its photos later, `Evaluate` downloads them, any subset successfully
(`Numbered`, `Indices` are the arithmetic that turns positions among downloads
into addresses), then `Record`, `Approve`, `Queue` or `Reject` and `Mail`.
Owners (`Create`, `StorePhotos`, `Delete`) and administrators (`AdminApprove`,
`AdminReject`, `Rerun`) act at any time.

*`InventoryImport`.* `ClaimJob` and `ClaimSource` are the conditional claims (by
status; by `last_pulled_at`, whose values only need to differ: `Stamps`). Both
workers then run the same requests: `Look`, `Insert` under the unique index
(refused as a whole), `InsertAnonymous`, `Patch`; `RecordJob` and `RecordPoll` write the
result, the latter with the auto-disable decision of the status read before the
claim. `Age` lets a claim go stale, `Toggle` is the dealer's switch. `Remove` is
the sweep's hard delete of a car (`removed` is history): a PATCH by id of a car
that is gone answers as any other and counts as written.

*`ResponseCache`.* An answer is the version of the data it was computed from.
`Look`, `Miss`, `Acquire`, `LookAgain`, `Compute`, `Store`, `Keep` are a reader,
with or without the lock (`Locking`: only some routes use `_with_cache`);
`Write`, `Delete`, `Drop` an editor. Memory of other processes is not
invalidated and expires; Redis may be away (`Outage`, `Restore`).

### 2.4 Clients

One action is what a handler does between two awaits. A request has a record
with what its handler had read of the render it was created in.

*`ClientSession`.* Actors are the flows of a tab: first check (`Mount...`),
`syncWithSupabase` (`Sync...`), the auth listener (`Listener...`), log-in page,
OAuth page, sign-out, a request of `apiClient` (`Api...`). The account is kept
in the Supabase session `sb`, in `stored`, in `authData` with an access and a
refresh token, in the two-minute `cache` and in the `user` shown. A token is its
account and a serial. `tainted` becomes true when flows of two accounts
overlap; what then happens is not specified by any code or doc, so the run stops
there (CONSTRAINT `Untainted`) and `OneAccount` speaks of what comes before.

*`SavedListings`.* A list is the set of its keys. A request is sent, `...Served`,
and `...Answered` or `...Failed`, in any order. The web rolls its own toggle
back, the app restores the list all its toggles share (`latest`), and only the
web keeps a busy heart from being pressed (`HeartEnabled`). `trusted` turns false when
a load or a failure overlaps another request and true again with an undisturbed
load.

*`ExploreFeed`.* `Choose` and `Refresh` ask for a first page, `LoadMore` for a
further one, by its offset; the answers come in any order or not at all. The web
drops first pages of an old query, the app none. `Hydrate` is the app's cached
list, `poisoned` the web's cached errors. `table` holds the listings of each
query after every change so far: `Edit` appends a version in which one more is
approved or removed, and an answer is the page (`OnPage`) of **any** version,
since the server's cache, the browser's and the app's may hold an older one.
`since` and `asOf` are the versions of the first and of the last page of the
list, `dated` says that a page was older than the one before it, `spoiled` that
the answer to an old query, to a refreshed list or of the cached list was
applied. What offset paging can promise is in two halves: `NoneLeftOut` while
the list the pages came from only grew, `NoneTwice` while it only shrank. The
code takes nothing out of a list, so an approval between two pages does show a
listing twice, and a removal does skip one.

*`RedditFeed`.* `Read` is one endpoint's answer at the common cursor; `Merge`
keeps the newest `PageSize` (`Sorted`, `Kept`, `NextCursor`). Rows appear and
disappear while the page is read (`Edit`).

*`RegistrationScan`, `ListingForm`.* `Choose`, `Clear`, `PressScan`, `Submit`
and the ends of uploads and scans; `Pick`, `PickChecked`, the cropper
(`Crop...`), `Save...` and `Submit...` with the draft, and `Open`, which leaves
the page and opens it again. A submission may be served without its answer.

*`AppListingForm`.* One form for all categories, kept after posting. `LocalSave`
is the two-second timer and writes the form as it is; `SaveStart` .. `SaveInserted`
is the five-second one, whose `saveDraft` is of the render that started it, and
which on the server deletes and then inserts. `RemoteLoaded`, `LocalLoaded`,
`OfferTaken`, `OfferRefused` bring drafts back; `Back` empties the form
(`LeftEmpty`), `Reopen` closes the app.

*`PushToken`.* `Leave` is a sign-out in its steps, `Boot` a cold start (snapshot,
then `CheckSession`), `Work` a registration (`CheckPref`, `GetToken`, `CheckKey`,
`Post` .. `KeepKey`) or a withdrawal (`Withdraw`, `RowRemoved`, `ForgetKey`) nobody
waits for. At `GetToken` a registration may end without having asked the server
for anything: no device, no permission, no token or a failure of the service
that issues them (`barred`, of the last registration). `calm` is false once jobs
overlapped, a request was lost or a registered user left.

## 3. Runs

| run | instance | shows |
|---|---|---|
| `listing_renewal` | sweep + client, time 4, 2 requests, custom expiry in 1 | extensions stay within their expiry, sold listings sold, a verified renewal lasts a whole period |
| `listing_notices` | sweep + scanner, time 4, 2 requests, 1 fault, custom expiry in 1 | one expired notice per expiry date |
| `listing_faults` | sweep + client, time 6, 1 request, 1 fault, custom expiry in 1, fair | no early removal, no early hard delete, also with a crash or a refused PATCH; every overdue listing that no administrator approved is resolved |
| `approved_expiry` | sweep + client, time 6, 1 request | a statement of the repository about the approved ones the code does not keep (section 5) |
| `custom_expiry` | sweep + client, time 6, 1 request, custom expiry in 1, 3 or 5 | a statement of the repository the code does not keep (section 5) |
| `webhook_delivery` | 2 webhooks, 2 workers, batch 2, 2 attempts, lease 1, back-offs 1 and 2, 1 fault, fair | leases exclude, attempts are accounted for, back-offs are waited for, the contract is implemented, every delivery is settled |
| `dealer_approval` | 2 licences, 1 tax document, 1 row, 2 uploads, 2 workers, 1 fault, fair | one e-mail, scored documents only, verified on documents that would be approved, a due row is settled |
| `lead_aggregation` | 3 events of 1 visitor, batch 2, window 1, time 3, 1 fault, fair | an event counted again, or not, has a named cause; count and history agree; the cursor passes every event |
| `auto_review` | 3 photos, 1 explicit, 2 reviewers, 2 interventions, 2 faults, fair | nothing explicit goes live and nothing else is deleted, with named exceptions; every waiting listing is reviewed |
| `client_session` | 2 accounts, 2 serials, all flows, up to the first overlap of accounts | one account in everything the tab keeps; both token slots agree |
| `clients` | favourites: 2 listings, 3 calls, 2 accounts (app 1); document: 3 files, 3 calls; photos: 2, picks: 2 (bike 1), of 2 to 2 photos; explore: 2 queries of up to 5 listings in pages of 2, cap 4, 1 approval or removal, 2 changes of the query (app: 1 change or refresh), 1 refusal; Reddit: 4 rows of 2 endpoints, pages of 2 | shown is what the server has; the posted document is the chosen one; no photo disappears; nothing is posted twice; approvals never make a page leave out a listing, removals never make one show a listing twice; the Reddit feed skips nothing between pages |
| `server` | inventory: 1 car, 2 pollers or 2 importers and a poller, 1 fault; cache: 2 processes, 2 readers, 2 editors, 2 edits, 2 faults; push: 2 users, 3 jobs, 1 fault; form of the app: 2 categories, 3 photos of at most 2, 5 acts, 1 fault | a success has written every car and a stale answer is explained; two failed polls disable a source; the device follows the user and the switch; photos keep their category |

Between them the passing runs take every action and every disjunct of every
next-state relation.

*Why the bounds are enough.*
- Lifecycle: `Expiry = 2`, `Retention = 2`, `Window = 1` keep the order of 60,
  30 and 7 days (expiry < end of window < end of retention, a renewal before, at
  or after the expiry) with the fewest ticks. The end of retention is time 4, of
  a listing renewed at once time 6: `listing_faults` reaches both. Only an expiry
  shorter than a period makes a renewal stale, hence `CustomDays`. Two requests
  suffice for "renew, then something else" to meet a sweep at each of its steps;
  they are any two of eleven. Initial rows: a submission, and a feed's car
  without lifecycle columns. `IsCar = TRUE` is the table with the extra write.
- Webhooks: two rows so that a batch holds one row while the other worker
  finishes it, two attempts so that the last ends in `dead_letter`.
- Dealers: the second licence is what replaces the first; two uploads make the
  twins; two replicas meet after a lease ended early.
- Leads: three events and batches of two give a full batch that ends among
  events of one stamp, and a second batch.
- Reviews: with three photos a lost download shifts the index of an explicit one
  to another; two reviewers are enough for one to approve what the other
  rejected; two interventions for "edit, then decide".
- Session: two accounts and two serials (an expired and a renewed token).
- Forms: a third call is what meets a replaced document or a rollback of an
  older toggle.
- Feeds: a query starts with all five listings, with all but the first, which
  is then approved, or with two of them; two full pages and a rest make every
  offset case. One approval or removal, before the first page or between any two,
  moves a listing across every later border; for any number there are the proofs.
- Server: two readers and two editors are needed for an answer that is computed,
  overtaken and stored; three jobs for a registration that meets a withdrawal and
  a new registration; three photos are one more than fit.

*Symmetry* (`client_session`, `clients`) is used only where all
properties are invariants.

*Deadlock.* `CHECK_DEADLOCK FALSE`, but for `client_session`: a deleted row at the
end of time, a posted form, delivered rows, users who do nothing more leave
nothing to do.

*Fairness.* The worker runs each task in a loop that only a stop ends and that
catches every exception (`worker.py`, `scheduled_loop`); hence weak fairness of
the sweep (`SweepEnabled` is the state predicate its ENABLED equals), of the
delivery workers and of time, of the approval workers, the passing of due dates
and the end of leases, of the aggregator's run, and of reviews. Owners,
dealers, administrators, visitors and events are never assumed to act, and faults
are bounded: a database that refuses for ever settles nothing. The liveness
properties of the clients (next paragraph) assume that a request is answered or
fails, which the browser's network stack does.

*More properties.* The modules state properties that are in no standing run
because another one reaches further or the instance that shows them is another
one; each was checked with TLC on an instance of its module when it was
written, and holds: `LoadingEnds`, `CheckingEnds` (`ClientSession`), `SubmitEnds`
(`ListingForm`, `RegistrationScan`), `HeartsRecover` (`SavedListings`),
`LoadSettles` (`ExploreFeed`), `SettlesFresh`, `AllAnswered` (`ResponseCache`),
`SignOutEnds`, `KeyHasRow` (`PushToken`), `NoRepeat`, `NewestFirst`, `Ends`
(`RedditFeed`), `UploadedOnce` (`ListingForm`), `DraftKeepsUp` (`AppListingForm`, also
proved), `LeaseRespected`, `SourceFreed`
without mistyped rows (`InventoryImport`), `NoticesBounded` (`AutoReview`, also
proved).

## 4. Proofs

Checked by TLAPS for every value of the constants that satisfies the named
assumptions of the modules, hence without the bounds above mattering. Every
property was checked with TLC before it was proved. Each proof module also
proves the types its other theorems rest on (`TypeCorrect`,
`DeliveryTypeCorrect`, `DocumentTyped`, `GalleryTyped`, `WorkersTyped`,
`DeviceTyped`, `FormTypesHold`). Every safety property that a passing run checks
has its theorem.

*Assumptions.* Bounds are natural numbers, finite sets are finite, periods are
positive (`RulesAssumption`, `LifecycleAssumption`, `BoundsAssumption`,
`NumbersAssumption`, ...). Values that stand for "none" are not among those
that something may have (`NullAssumption`, `NobodyAssumption`, `NoJobAssumption`,
`SourceAssumption`, `NoDraftAssumption`, `NoRequestAssumption`). Two say more:
`StampsAssumption`, there are more stamps than pollers can hold, since the code's
are clock readings; `FeedsAssumption`, a row listed twice is listed. Pages and caps
are at least one and every row of Reddit is of one of the endpoints
(`FeedAssumption`, `RedditAssumption`).

`ListingLifecycle_proofs`:
- `ExtensionBounded` (`ExtensionWithinExpiry`) is not inductive: a renewal writes
  an expiry computed from a row read earlier, and a repair of a reloaded row
  writes `renewedAt` as extension. `ExtensionInv` adds that a renewal waiting to be
  verified is not in the future (`RenewalInHand`), nor any extension
  (`ExtensionPast`), and that the row a repair works on was found stale
  (`RepairOK`).
- `SoldKept` (`SoldStaysSold`) follows from the same invariant: the first repair
  skips sold rows by its own test, the second only because
  `ExtensionWithinExpiry` makes its condition false.
- `WindowHonoured` (`RemovalHonoursWindow`) by `CleanInv`: a row no custom expiry or
  overtaken sync has touched is a clean one (`CleanRow`: its other dates follow
  from its expiry), so a fresh view of it yields a deadline a whole window
  after the expiry; what the client repairs is not such a row (`StaleInHand`).
- `RetentionHonoured` (`PurgeHonoursRetention`) adds `PurgeDue`: the hard delete is a
  request later than the decision, so the decision has to be about the row the
  process kept.
- `RenewalLasts` (`RenewalPersisted`) by `RenewalInv`: a renewal always carries its
  date, also in what processes keep (`RenewalDated`), and while one is verified
  the row has the extension it wrote (`RenewalShown`).
- `NoticeOnce` (`ExpiredNoticeOnce`) by `NoticeInv`: what has been noticed is in the
  past (`NoticePast`), and, unless an overtaken sync wrote, the row's date is that
  of the last notice or a later one, and a later one while the flag is not set
  (`NoticeOrder`). It has the hypothesis
  `0 \notin CustomDays`: `admin_set_listing_expiry` refuses dates **before** the
  clock, so one equal to the clock may set the flag back for a date whose notice
  went out.

`WebhookDelivery_proofs`:
- `LeasesExclusive` by `LeaseInv`: stamps never exceed the row's, a job with the
  row's current stamp has exactly the lease left on the row while it is pending
  (`LeaseHeld`), batches hold stamps of the past (`BatchInv`), two jobs on one row
  never carry one stamp (`ClaimsDiffer`); a row can be claimed only when due, so
  an older job's lease is over by then.
- `BackoffKept` with `CoolInv`: what is left of a back-off never exceeds the
  row's `wait`.
- `ContractKept` is the refinement: each action maps to a step of
  `DeliveryContract` or leaves it unchanged; only a job whose verdict is a success
  can mark its row succeeded, and its delivery is in `accepted`.
- `PostsAccountedFor` (`PostsAccounted`) by `CountInv`: what was posted is what the
  row counts, what was excused and the one post in hand (`Balance`), whoever
  can still claim or finalise a row knows its attempts (`AttemptsKnown`), and a
  pending row has one left (`AttemptsLeft`).

`DealerApproval_proofs`: `NoticeOnceHolds` by `NoticeInv`: whoever is about to
send has turned the row from pending to fired, which happens once, so it is
alone, whatever leases did. `ScoredOnlyHolds` and `VerifiedOnDocumentsHolds` by
`BasisInv`: what a worker has decided rests on the documents it read
(`RestsOn`), unless it is marked as outdated; without twins the decision and the
approval are about the same document.

`LeadAggregation_proofs`: `CountedOnceHolds` by `CountInv` (what is still to be
read or in hand was counted by repeated runs only), `AccountedHolds` by `DueInv`
(an event that is missing without a misfortune lies beyond the cursor, and is
in hand or later than all that is), both on `BatchInv` (the batch is ordered and
beyond the cursor); `TallyHolds` by `TallyInv`: while a lead is written its count,
then its history, are one behind. `ApartHolds` (`LeadsApart`) by `OrderInv`: leads
start no later than where the run stands (`Reach`), so that the newest lead,
the only one the code looks at, decides for all of them, and what is about to be
inserted is beyond the window of every lead of its visitor.

`AutoReview_proofs`: `ExplicitStaysHidden` and `InnocentPhotosStay` by
`ReviewInv`: every review is `Sound`, what it deletes is explicit and what it
approves was seen without an explicit photo. The second rests on the lemmas about
`Numbered` and `Indices`, the code's arithmetic of positions: when a download
failed, positions are not turned into addresses. `NoticesHaveCauses` by
`NoticeInv`: a notice under way is counted in advance, a listing without a
decision leaves room for one (`Room`).

`ClientSession_proofs`: `SlotsAlwaysAgree` by the types and `Places` (where a
flow stands when it holds a token); `OneAccountHolds` by `CleanInv`: until accounts
overlap, everything stored and everything a flow has in hand (`Fits`) is of the
owner, and between the halves of a sign-out the storage is empty.

`Clients_proofs` (over `ClientPages`):
- `ShownAlwaysAgrees` by `Inv`: while the list is trusted, each pending toggle is
  in effect on the screen, and on the server once served (`InEffect`), what it
  would put back differs from the list by its key only (`Undoes`), and an
  undisturbed load has found what the server still has.
- `OwnDocumentHolds` by `OwnInv`, which adds that calls under way and a submission
  that waits are of the chosen file.
- `PhotosStay` (`PhotosKept`) by `KeptInv`: the photos being cropped are those the
  cropper shows, and a save whose answer will replace the list of addresses
  carries every photo of the form.
- `NothingPostedTwice` (`PostedOnce`) by `PostedInv`: a listed photo is nowhere from
  where it could be submitted again (`Gone`: form, both drafts, saves,
  submissions), unless its own submission is still at its end (`Ending`) or has
  ended; no save is under way during a submission, which is what keeps a draft
  from coming back.
- `NothingLeftOut` (`NoneLeftOut`) and `NothingTwice` (`NoneTwice`) by `FeedInv`,
  for a list with no late answer and no older page: a further page that nothing
  has overtaken is the next one (`MoreFits`); if the query only grew, every
  listing it had at first and whose place is now up to the offset is in the
  list (`Gapless`); if it only shrank, none is there twice and the place of each
  that is there is up to the offset (`Repeatless`); a list that ends was read to
  the last listing (`ReadOut`). The step needs that `Rank` moves one way only
  when a set grows or shrinks, which is counting, and what a page holds.
- `RedditSkipsNothing` (`NothingBetween`) by `BetweenInv`: the cursor is the time of
  a row that is shown, and an answer leaves a row out only if it is a full page
  of rows no older (`NoGap`). A merge then keeps a page of rows no older than
  any it leaves out, which is counting (`Crowded`, `MergeKeeps`): were such a row
  newer than the new cursor, a full page would come before it.

`Server_proofs` (over `ServerParts`):
- `OkIsComplete`, `SucceededIsComplete` by `RowsInv` and `FileInv`: what a worker
  found is in `cars` or was removed since (`Arrived`), and so is every row of a
  feed it has worked off; a file is
  one thread's and its rows without an id are inserted once.
  `DisabledAfterTwoFailures` by `ClaimInv`: a poller whose stamp is still the
  source's has seen the status before the claim, which is why a stale read does
  not switch the source off.
- `StaleIsExplained` (`StaleExplained`) with `FaultsCounted`: Redis fails only at the
  price of a counted fault, so that an invalidation that was not made has a
  cause.
- `DeviceFollowsPreference` (`FollowsPreference`) by `CalmInv`: while the device is
  calm it is in one of four phases of its session (`Phase`), at most one job is
  under way (`Single`), what that job read is still so (`TaskOf`), and without
  one key and row agree, the row is there only if the switch is on, and is there
  then unless the last registration got no token (`Rested`).
- `PhotosKeepCategory` (`OwnCategory`) by `OwnPhotosInv`: also what is being checked,
  what a timer will store, what a call of `saveDraft` carries and what the user
  is asked about is of one category. The question is only asked with a draft
  (`PromptInv`). `DeviceDraftKeepsUp` (`DraftKeepsUp`) by the types: each handler that changes the form starts the timer or is
  recorded as one that does not (`behind`).

*Model-checked only.* All liveness (`OverdueResolved`, `EveryDeliverySettles`,
`RowSettles`, `CaughtUp`, `Reviewed`): ENABLED and fairness are out of the
prover's reach. What the violations of section 5 show is by its nature TLC's. The
feeds' sequences are defined by what they hold (`Page`, `Sorted`) and not by
folding a filter or a sort, so that no induction over data is needed; that a
set of rows has a sorted sequence at all, without which a merge could not be
taken, only the runs show.

## 5. Where repository and code disagree

The run `custom_expiry` shows one: a custom expiry "on any listing"
(`routes/admin_listing_lifecycle.py:464`) does not move `retention_expires_at`;
the sweep, which does not select `is_approved`, hard deletes the row when the old
retention date passes, before the date that was set (`CustomExpiryHonoured`).

The run `approved_expiry` shows another: "An admin explicitly approved this
listing - never auto-archive/expire it" (`app.py:1179`), a rule that
`_compute_listing_lifecycle` applies to what it is given. The sweep selects
neither `is_approved` nor `created_at` (`app.py:13240`), so its sync does remove
an approved listing that expired unanswered (`ApprovedNeverExpires`).
`OverdueResolved` therefore speaks of listings that are not approved.

The others are stated in the modules as what the repository says. Each is
violated by the module it stands in: TLC finds a counterexample when it is
checked on an instance of the module.

| property | the repository says | the code does |
|---|---|---|
| `ListingLifecycle` `AutoRemovedRecoverable` | auto-removed listings "are recoverable" (`app.py:1948`) | the removal writes `no_response`, which the renewal does not accept (`app.py:1955`) |
| `RemovalReasonTrue` | "No listing outcome selected within 7 days of expiry" (`app.py:1731`) | a custom expiry leaves the old deadline |
| `RejectedNotReopened` | "Keep rejected listings editable" (`app.py:2742`) | the draft it shows is repaired as a stale renewal and stored as approved |
| `ClientSession` `SignOutClears` | "Still clear local data even if the API call fails" (`authService.js:294`) | the error is thrown before Supabase is signed out and the user cleared |
| `RegistrationScan` `SubmittedDocument` | "Submit waits on the same promise" (`PostCar.js:368`) | it waits, and posts the path of the render it was pressed in |
| `ListingForm` `EnoughCreated` | "You must upload at least 3 images" (`PostCar.js:1633`) | failed uploads are left out and the listing is created |
| `NotTooMany` | "You can only upload up to 10 images" (`PostCar.js:1351`) | a second pick does not count one being checked |
| `SubmittedNotRestored` | "remote cleanup can retry later" (`listingDrafts.js:44`) | nothing retries, and the remote draft is preferred |
| `DealerApproval` `ReplacedNotVerified` | "re-evaluated at fire time against the live document rows" (`dealer_auto_approval_worker.py:4`) | read once, several requests before |
| `DenialRespected` | "An explicit rejection disqualifies auto-approval" (`services/registration_ocr.py:613`) | a document denied since, or beside a good one, is approved |
| `LeadAggregation` `NothingSkipped` | the cursor advances "once a batch has been written" (`dealer_lead_aggregator.py:4`) | an empty answer moves it to the clock |
| `NoDuplicate` | the ordering avoids "a duplicate within the current window" (`dealer_lead_aggregator.py:87`) | only the newest lead is looked at |
| `AutoReview` `ReviewedBeforeLive` | "reviewed before it goes live" (`PostBike.js:1152`) | photos stored after the read go live |
| `RejectionStands` | "restoring remains a manual moderation decision" (`AdminListingDetail.jsx:215`) | another review approves by id |
| `AcceptedIsPublished` | "the listing was approved" (`AdminListingDetail.jsx:206`) | the decision is stored first, a failed approval is not repeated |
| `PushToken` `RowFollowsUser` | "whichever user is signed in" (`mobile` `AuthContext.js:145`) | the withdrawal starts when its tokens are gone |
| `OptOutRespected` | "Remove a push token (device opted out" (`routes/user.py:309`) | a registration under way posts afterwards |
| `GhostDropped` | "only on the second consecutive failure" (`mobile` `AuthContext.js:110`) | the mark is not kept, so there is no second one |
| `ExploreFeed` `AppendsRelevant` | "append next page for the relevant categories" (`ExplorePage.jsx:1004`) | appended to whatever is shown when it answers |
| `HydratesFirst` | "Hydrate from cache before the network resolves" (`ExploreScreen.js:975`) | or after |
| `RedditFeed` `FeedComplete` | "merge-sorted and the top PAGE_SIZE kept" (`ExplorePage.jsx:852`) | answers none of which is full end the feed although the merge cut rows |
| `InventoryImport` `JobsFinish` | "set the final job status" (`inventory_import_worker.py:4`) | a crash leaves `running` for ever |
| `DisabledUnusable` | "its own data is unparseable" (`dealer_api_source_poller.py:363`) | refused inserts count as well |
| `SourceFreed` | a malformed response is recorded once (`dealer_api_source_poller.py:167`) | a number where text is required raises out of the poll, again and again |
| `ResponseCache` `AppearsImmediately` | "approvals appear immediately" (`app.py:768`) | an answer computed before is stored after |
| `AppListingForm` `NoOlderDraft` | "Backend auto-save draft" (`PostListingScreen.js:1111`) | the timer's `saveDraft` is of an older render |

Noticed while reading: `webhook_dispatcher.dispatch` has no caller outside tests; a non-200 answer while
a webhook is looked up, or an exception after an accepted POST, settles a
delivery as `dead_letter`; one webhook deleted between the two requests of
`dispatch` loses the event for the others.

## 6. Not modelled

Of what is modelled:
- Lifecycle: the `archived` status a ban gives (`routes/admin.py:1596`), owner
  edits, the feed's PATCH of existing rows, the renewal's fall-back for older
  schemas, the mail provider (a claimed notice counts as sent).
- Webhooks: creating, editing and testing them (no delivery is touched),
  payloads, signatures and URL checks (`Lookup` may fail for any of these).
- Dealers: an administrator's own verification or rejection of a dealer,
  requests for information, expiry dates of documents.
- Auto review: the checks other than the one on photos pass or fail at will;
  shadow calls of the vision service and dry runs.
- Inventory: parsing and the values of a row; a request of a chunk stands for
  all chunks; edits of a source other than its switch.
- Cache: the cap of the memory cache, the fixed-window rate limiter.
- Forms: text fields and their checks, the order of photos, the map, edits of
  existing listings; the plate form repeats the bike form's document, the parts
  form its photos. In the app also the photo editor, the steps of the wizard and
  document scans.
- Feeds: the address bar, featured rows, sorting and ties of `created_at`; one
  category stands for all. The web's default query asks for imported listings in
  a request of its own next to each page (`ExplorePage.jsx:916`): they appear in
  the model only as a second page that may be full and keeps the feed going. An
  answer to an old query or of the list before a refresh, a page from a cache
  older than the page before it, and pages between which listings were both
  approved and removed are excused: they may both repeat and skip. `RedditFeed`
  has no response caches.
- The app's session: the two stores of tokens stand for one; refreshes, Supabase's
  session events and several devices are left out.

Components left out:
- *Phone verification.* The attempt counter is read and then written
  (`app.py:4685`), so answers at once may count as one: a single lost update with
  nothing around it, and nothing says what should happen.
- *Listing limits* (`app.py:4914`): submissions at once each see the old count; a
  check followed by an insert, visible at a glance.
- *Reminders and alerts* (`app.py:9131`): the claim of the expiry notice, which the
  lifecycle models, over data nothing else changes. A crash between such a claim
  and the mail loses the notice (`app.py:1793`), by design.
- *Reddit posting*: a crash between the post and its guard row
  (`reddit_daily_post_worker.py:367`) posts twice. *Drafts on the server*
  (`app.py:8627`) delete, then insert; `AppListingForm` has the lost draft.
- *Scheduler*: it decides when a task runs; the models use only that it runs
  again. *Revocation marks* are a set that only grows until entries expire.
- *Analytics, KPI and market trackers, featured listings, Reddit import, Devvit
  bot, OCR and vision, health and account cleanup*: arithmetic over large data,
  scraping, stateless services and pure I/O.
- *Creation and update handlers, admin and report pages*: checks and copies of
  some eighty columns of one row. Where they change what another component reads
  (approval, rejection, expiry, documents, photos), they are actions of that
  component.
- *Screens and pages of the clients.* The JavaScript sources have some 90 000
  lines. The map covers about 3 300 of them: the handlers, effects and
  providers in which something can be overtaken. Nearly all of the rest is the
  markup of pages and screens, tables of makes and cities, charts and texts,
  and pages that fetch one answer and show it: there is no state a second actor
  could change, and a model would restate the layout. The share of lines covered
  can therefore not come near that of a code base of algorithms.

## 7. What is left

In the order in which it would add most:
1. The properties of section 3 that no run checks (`NewestFirst`, `NoRepeat`,
   `UploadedOnce`, `LeaseRespected`) as theorems next to those proved.
2. The lifecycle's missing writers: ban, feed PATCH, owner edits; then a
   composition of `AutoReview` with `ListingLifecycle` through `Approved`.
3. Edits of existing listings in `ListingForm` and `AppListingForm`.
4. Small modules for phone verification and listing limits, once the repository
   says what submissions at once should do.
