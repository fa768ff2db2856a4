---------------------------- MODULE ExploreFeed ----------------------------
(***************************************************************************)
(* The feed of the Explore surfaces: components/ExplorePage.jsx on the web *)
(* (Web) and screens/explore/ExploreScreen.js in the app (~Web).           *)
(*                                                                         *)
(* A query is a category with its filters.  Choosing another one loads its *)
(* first page; reaching the end of the list asks for the next one.  The    *)
(* web drops the answer to a first page that is no longer wanted, the app  *)
(* drops none, and neither drops a further page.  Every category pages on  *)
(* its own, so one stands for all.                                         *)
(*                                                                         *)
(* A page is asked for by its offset, and listings are approved and        *)
(* removed while the feed is read.  An answer may come from any of the     *)
(* caches on its way, so it shows the list as it was at any time.          *)
(***************************************************************************)
EXTENDS Integers, Sequences, FiniteSets

CONSTANTS
    Web,        \* BOOLEAN
    Queries,
    Default,    \* the query a visit starts with: no category, no filter
    Loads,      \* bound: first pages under way at once
    PageSize,   \* PAGE_SIZE, LISTING_PAGE_SIZE: at least 1
    Cap,        \* MAX_LOADED_ITEMS_PER_CATEGORY: at least 1
    MaxRows,    \* bound: listings that a query can have
    MaxChanges, \* bound: listings approved or removed
    MaxActs,    \* bound: changes of the query and refreshes
    MaxFaults,  \* bound: lost and refused requests
    Null        \* no query

VARIABLES
    table,      \* the listings of each query, after every change so far
    query,      \* activeMode and the filters
    items,      \* inventory, allItems
    offset,     \* pages[k].offset
    hasMore,    \* pages[k].hasMore
    loading,
    refreshing,
    error,
    first,      \* the first pages under way
    more,       \* the further page under way
    hydrating,  \* app: the cached list is still being read
    poisoned,   \* web: pages whose cached answer is an error's
    since,      \* history: the version of the table the first page shows
    asOf,       \* history: the version the last page shows
    dated,      \* history: a page is older than the one before it
    spoiled,    \* history: an answer was applied that was asked for before
    excused,    \* history: a page was not answered
    acts,
    faults

feed == <<items, offset, hasMore>>
read == <<since, asOf, dated, spoiled, excused>>
vars == <<table, query, feed, loading, refreshing, error, first, more, hydrating, poisoned,
          read, acts, faults>>

\* The listings of a query, in the order of the answers: created_at.desc.
Entries == 1 .. MaxRows
Row == Queries \X Entries
Offsets == {n \in 0 .. MaxRows + PageSize : n % PageSize = 0}
Versions == 1 .. Len(table)

Capped(s) == SubSeq(s, 1, IF Len(s) < Cap THEN Len(s) ELSE Cap)

\* How many of the listings S come up to k.
Rank(S, k) == Cardinality({j \in S : j <= k})

\* The page of q at off, of a version of the table.
OnPage(v, q, off) ==
    {k \in table[v][q] : off < Rank(table[v][q], k) /\ Rank(table[v][q], k) <= off + PageSize}

Page(v, q, off) ==
    LET ks == OnPage(v, q, off)
    IN  [i \in 1 .. Cardinality(ks) |-> <<q, CHOOSE k \in ks : Rank(ks, k) = i>>]

Outcomes == {"answered", "refused", "lost"}

Fault(out) == IF out = "answered" THEN faults' = faults ELSE faults < MaxFaults /\ faults' = faults + 1

\* fetchJsonWithCache does not look at the status: the error's body is kept
\* and read back as a page without listings.
Outcome(q, off, out) ==
    IF Web /\ <<q, off>> \in poisoned
    THEN out = "refused" /\ UNCHANGED <<faults, poisoned>>
    ELSE /\ Fault(out)
         /\ poisoned' = IF Web /\ out = "refused" THEN poisoned \cup {<<q, off>>} ELSE poisoned

\* An answer of any version; what is not answered shows none.
Answer(q, off, out, v) == Outcome(q, off, out) /\ (out # "answered" => v = asOf)

Received(q, off, out, v) == IF out = "answered" THEN Page(v, q, off) ELSE <<>>

\* Mutant: a page that is full may be the last.
FullBeyond(s) == Len(s) > PageSize

\* A page that is full may not be the last.
Full(s) == Len(s) = PageSize

\* The web asks for imported listings apart, and goes on while one of the two
\* pages is full: the other may be.
Continues(s, off) == {Full(s)} \cup {b \in {TRUE} : Web /\ off + PageSize <= MaxRows}

----------------------------------------------------------------------------

Init ==
    /\ table \in [1 .. 1 -> [Queries -> SUBSET Entries]]
    /\ query = Default
    /\ items = <<>> /\ offset = 0 /\ hasMore = TRUE
    /\ loading = TRUE /\ refreshing = FALSE /\ error = FALSE
    /\ \E l \in Loads : first = [i \in Loads |-> IF i = l THEN Default ELSE Null]
    /\ more = Null
    /\ hydrating \in IF Web THEN {FALSE} ELSE BOOLEAN
    /\ poisoned = {}
    /\ since = 1 /\ asOf = 1 /\ dated = FALSE
    /\ spoiled = FALSE /\ excused = FALSE
    /\ acts = 0 /\ faults = 0

Act == acts < MaxActs /\ acts' = acts + 1

\* The effect of the previous query is cleaned up on the web alone.
Ask(l, q) ==
    /\ first[l] = Null
    /\ first' = IF Web THEN [i \in Loads |-> IF i = l THEN q ELSE Null]
                       ELSE [first EXCEPT ![l] = q]
    /\ more' = IF more = Null THEN Null ELSE [more EXCEPT !.stale = TRUE]

Choose(l, q) ==
    /\ Act /\ q # query
    /\ query' = q
    /\ Ask(l, q)
    /\ loading' = (Web \/ loading) /\ error' = (~Web /\ error)
    /\ spoiled' = TRUE
    /\ UNCHANGED <<table, feed, refreshing, hydrating, poisoned, since, asOf, dated, excused, faults>>

\* onRefresh, in the app.
Refresh(l) ==
    /\ ~Web /\ Act
    /\ Ask(l, query)
    /\ refreshing' = TRUE
    /\ UNCHANGED <<table, query, feed, loading, error, hydrating, poisoned, read, faults>>

\* A first page replaces the list, whichever query it was asked for.
FirstAnswers(l, out, v) ==
    LET q == first[l]
        got == Received(q, 0, out, v)
    IN  /\ q # Null
        /\ Answer(q, 0, out, v)
        /\ items' = Capped(got)
        /\ offset' = 0
        /\ hasMore' \in Continues(got, 0)
        /\ error' = (Web /\ out = "lost")
        /\ loading' = FALSE /\ refreshing' = FALSE
        /\ first' = [first EXCEPT ![l] = Null]
        /\ more' = IF more = Null THEN Null ELSE [more EXCEPT !.stale = TRUE]
        /\ since' = v /\ asOf' = v /\ dated' = FALSE
        /\ spoiled' = (q # query)
        /\ excused' = (out # "answered")
        /\ UNCHANGED <<table, query, hydrating, acts>>

\* loadMore, from the sentinel or onEndReached.  A ref keeps a second one out.
LoadMore ==
    /\ more = Null /\ ~loading /\ ~refreshing /\ hasMore
    /\ more' = [q |-> query, off |-> offset + PageSize, stale |-> FALSE]
    /\ UNCHANGED <<table, query, feed, loading, refreshing, error, first, hydrating, poisoned,
                   read, acts, faults>>

\* Mutant: the offset stays where it was.
AdvancedNot == offset

\* The web steps the offset it finds, the app stores the one it asked for.
Advanced == IF Web THEN offset + PageSize ELSE more.off

MoreAnswers(out, v) ==
    /\ more # Null
    /\ LET got == Received(more.q, more.off, out, v)
       IN  /\ Answer(more.q, more.off, out, v)
           /\ items' = Capped(items \o got)
           /\ offset' = Advanced
           /\ hasMore' \in Continues(got, more.off)
    /\ asOf' = v /\ dated' = (dated \/ v < asOf)
    /\ excused' = (excused \/ out # "answered")
    /\ spoiled' = (spoiled \/ more.stale)
    /\ more' = Null
    /\ UNCHANGED <<table, query, loading, refreshing, error, first, hydrating, since, acts>>

\* The list of the last visit, read from the device's storage.
Hydrate ==
    /\ hydrating /\ hydrating' = FALSE
    /\ \/ \E v \in Versions :
            /\ Page(v, Default, 0) # <<>>
            /\ items' = Page(v, Default, 0)
            /\ loading' = FALSE
            /\ spoiled' = TRUE
       \/ UNCHANGED <<items, loading, spoiled>>
    /\ UNCHANGED <<table, query, offset, hasMore, refreshing, error, first, more, poisoned,
                   since, asOf, dated, excused, acts, faults>>

Expires(k) ==
    /\ k \in poisoned
    /\ poisoned' = poisoned \ {k}
    /\ UNCHANGED <<table, query, feed, loading, refreshing, error, first, more, hydrating, read,
                   acts, faults>>

\* A listing of q is approved, or removed.
Edit(q, k) ==
    /\ Len(table) <= MaxChanges
    /\ LET now == table[Len(table)][q]
           then == IF k \in now THEN now \ {k} ELSE now \cup {k}
       IN  table' = Append(table, [table[Len(table)] EXCEPT ![q] = then])
    /\ UNCHANGED <<query, feed, loading, refreshing, error, first, more, hydrating, poisoned,
                   read, acts, faults>>

Answers ==
    \E out \in Outcomes, v \in Versions :
        MoreAnswers(out, v) \/ \E l \in Loads : FirstAnswers(l, out, v)

Next ==
    \/ \E l \in Loads : Refresh(l) \/ \E q \in Queries : Choose(l, q)
    \/ Answers
    \/ LoadMore
    \/ Hydrate
    \/ \E k \in poisoned : Expires(k)
    \/ \E q \in Queries, k \in Entries : Edit(q, k)

\* Every request ends: the browser's and the app's fetch give up in the end.
Spec ==
    /\ Init /\ [][Next]_vars
    /\ \A l \in Loads : WF_vars(\E out \in Outcomes, v \in Versions : FirstAnswers(l, out, v))

----------------------------------------------------------------------------

TypeOK ==
    /\ table \in Seq([Queries -> SUBSET Entries]) /\ Len(table) \in 1 .. MaxChanges + 1
    /\ query \in Queries
    /\ items \in Seq(Row) /\ Len(items) <= Cap
    /\ offset \in Nat /\ hasMore \in BOOLEAN
    /\ {loading, refreshing, error, hydrating, dated, spoiled, excused} \subseteq BOOLEAN
    /\ first \in [Loads -> Queries \cup {Null}]
    /\ more = Null \/ more \in [q : Queries, off : Offsets, stale : BOOLEAN]
    /\ poisoned \subseteq Queries \X Offsets
    /\ {since, asOf} \subseteq Versions
    /\ acts \in 0 .. MaxActs /\ faults \in 0 .. MaxFaults

Asked == \E l \in Loads : first[l] # Null

\* No answer came late, and no page is older than the one before it.
Orderly == ~spoiled /\ ~dated /\ ~(Asked /\ loading)

\* What the pages were read from only grew, or only shrank.
Grew == \A v, w \in since .. asOf : v <= w => table[v][query] \subseteq table[w][query]
Shrank == \A v, w \in since .. asOf : v <= w => table[w][query] \subseteq table[v][query]

InList(k) == \E i \in DOMAIN items : items[i] = <<query, k>>

\* Listings that are approved while the feed is read push others to a later
\* page, never to one that was read: of those the query had at first, the list
\* leaves out none up to its offset, and none at all when it ends, unless it
\* is full or a request failed.
NoneLeftOut ==
    Orderly /\ ~excused /\ Grew /\ Len(items) < Cap =>
        \A k \in table[since][query] :
            Rank(table[asOf][query], k) <= offset + PageSize \/ ~hasMore => InList(k)

\* Listings that are removed draw others to an earlier page, never to one that
\* is still to be read: the list shows none twice, and none of another query.
NoneTwice ==
    Orderly /\ Shrank =>
        /\ \A i, j \in DOMAIN items : items[i] = items[j] => i = j
        /\ \A i \in DOMAIN items : items[i] \in {query} \X table[since][query]

\* The placeholder of a list that is loading does not stay.
LoadSettles == loading ~> ~loading

\* ExplorePage.jsx:1004 "load more: append next page for the relevant
\* categories": a page is appended to the list of the query it belongs to.
AppendsRelevant ==
    [][\A out \in Outcomes, v \in Versions : MoreAnswers(out, v) => more.q = query]_vars

\* ExploreScreen.js:975 "Hydrate from cache before the network resolves":
\* the cached list never replaces one the server sent.
HydratesFirst == [][hydrating /\ ~hydrating' => items' = items \/ Asked]_vars
=============================================================================
