----------------------------- MODULE RedditFeed ----------------------------
(***************************************************************************)
(* The Reddit tab of components/ExplorePage.jsx, with mergeRedditRows of   *)
(* utils/redditPagination.js: four endpoints read as one feed, newest      *)
(* first.  A page asks each of them for PageSize rows older than the       *)
(* cursor, merges what they answer and keeps the PageSize newest; their    *)
(* last row's time is the next cursor.                                     *)
(*                                                                         *)
(* The endpoints answer one after the other, and rows are approved and     *)
(* withdrawn at any time: a row's time is when it was imported, not when   *)
(* it appeared.                                                            *)
(***************************************************************************)
EXTENDS Integers, Sequences, FiniteSets, SequencesExt

CONSTANTS
    Kinds,      \* the endpoints
    MaxRow,     \* bound: rows, numbered in the order of their keys
    KindOf(_),  \* the endpoint that has a row
    PageSize,   \* at least 1
    MaxTime,    \* bound: distinct values of created_at
    MaxEdits,   \* bound: rows approved or withdrawn while the feed is read
    Null

Rows == 1 .. MaxRow

VARIABLES
    at,         \* created_at
    public,     \* the rows the endpoints answer with
    shown,      \* inventory.reddit
    cursor,     \* pages.reddit.cursor; Never before the first page
    hasMore,
    chunks,     \* the answers of the page under way, Null when none is
    started,    \* history: the rows that were public when the feed was opened
    failed,     \* history: an endpoint failed
    edits

vars == <<at, public, shown, cursor, hasMore, chunks, started, failed, edits>>

Never == MaxTime + 1

Unread == [k \in Kinds |-> Null]

Init ==
    /\ at \in [Rows -> 1 .. MaxTime]
    /\ public \in SUBSET Rows
    /\ started = public
    /\ shown = <<>> /\ cursor = Never /\ hasMore = TRUE
    /\ chunks = Null
    /\ failed = FALSE
    /\ edits = 0

\* What an endpoint may answer: rows of equal age come in any order, and the
\* limit takes any of them.
Answers(k) ==
    LET older == {r \in public : KindOf(r) = k /\ at[r] < cursor}
    IN  {s \in SUBSET older :
            /\ Cardinality(s) = IF Cardinality(older) < PageSize THEN Cardinality(older) ELSE PageSize
            /\ \A r \in s, t \in older \ s : at[r] >= at[t]}

Begin ==
    /\ chunks = Null /\ hasMore
    /\ chunks' = Unread
    /\ UNCHANGED <<at, public, shown, cursor, hasMore, started, failed, edits>>

\* An endpoint's error is a page without rows.
Read(k) ==
    /\ chunks # Null /\ chunks[k] = Null
    /\ \/ \E s \in Answers(k) : chunks' = [chunks EXCEPT ![k] = s]
          /\ UNCHANGED failed
       \/ chunks' = [chunks EXCEPT ![k] = {}]
          /\ failed' = TRUE
    /\ UNCHANGED <<at, public, shown, cursor, hasMore, started, edits>>

\* compareRedditRows: newest first, then by key.
Before(r, s) == at[r] > at[s] \/ (at[r] = at[s] /\ r < s)

\* Rows in that order, each of them once: there is one such sequence.
Sorted(rs) ==
    {s \in [1 .. Cardinality(rs) -> rs] :
        /\ \A i, j \in DOMAIN s : i < j => Before(s[i], s[j])
        /\ \A r \in rs : \E i \in DOMAIN s : s[i] = r}

Kept(merged) == SubSeq(merged, 1, IF Len(merged) < PageSize THEN Len(merged) ELSE PageSize)

\* Mutant: the last row is taken before the cut.
CursorOfMerged(merged) == IF merged = <<>> THEN cursor ELSE at[Last(merged)]

NextCursor(merged) == IF Kept(merged) = <<>> THEN cursor ELSE at[Last(Kept(merged))]

SomeFull == \E k \in Kinds : Cardinality(chunks[k]) = PageSize

Merge ==
    /\ chunks # Null /\ \A k \in Kinds : chunks[k] # Null
    /\ \E merged \in Sorted(UNION {chunks[k] : k \in Kinds}) :
        /\ shown' = shown \o Kept(merged)
        /\ cursor' = NextCursor(merged)
    /\ hasMore' = SomeFull
    /\ chunks' = Null
    /\ UNCHANGED <<at, public, started, failed, edits>>

\* The network fails one of the four, and with it the page.
Lost ==
    /\ chunks # Null /\ \E k \in Kinds : chunks[k] = Null
    /\ hasMore' = FALSE
    /\ failed' = TRUE
    /\ chunks' = Null
    /\ UNCHANGED <<at, public, shown, cursor, started, edits>>

Edit(r) ==
    /\ edits < MaxEdits /\ edits' = edits + 1
    /\ public' = IF r \in public THEN public \ {r} ELSE public \cup {r}
    /\ started' = started \ {r}
    /\ UNCHANGED <<at, shown, cursor, hasMore, chunks, failed>>

Next == Begin \/ (\E k \in Kinds : Read(k)) \/ Merge \/ Lost \/ \E r \in Rows : Edit(r)

\* Requests are answered, and the reader goes on to the end.
Spec == Init /\ [][Next]_vars /\ WF_vars(Begin \/ (\E k \in Kinds : Read(k)) \/ Merge)

----------------------------------------------------------------------------

TypeOK ==
    /\ at \in [Rows -> 1 .. MaxTime]
    /\ public \subseteq Rows /\ started \subseteq public
    /\ shown \in Seq(Rows)
    /\ cursor \in 1 .. Never /\ {hasMore, failed} \subseteq BOOLEAN
    /\ chunks = Null \/ \A k \in Kinds : chunks[k] = Null \/ chunks[k] \in SUBSET Rows
    /\ edits \in 0 .. MaxEdits

\* No row is shown twice, whatever is approved or withdrawn meanwhile.
NoRepeat == IsInjective(shown)

\* The whole feed runs from new to old, across the pages.
NewestFirst == \A i, j \in DOMAIN shown : i < j => at[shown[i]] >= at[shown[j]]

\* A row that was there from the start and is newer than the cursor has been
\* shown, or another row of its very time was: what the merge cuts off is read
\* again, but for the ties _cursor_filter gives up (app.py:906).
NothingBetween ==
    ~failed => \A r \in started : at[r] > cursor =>
        \E i \in DOMAIN shown : at[shown[i]] = at[r]

\* The feed is read to its end.
Ends == <>[](~hasMore)

\* ExplorePage.jsx:852 "merge-sorted and the top PAGE_SIZE kept - the standard
\* k-way-merge pattern for paginating several independently-sorted sources as
\* one feed": a feed that has ended shows every row.
FeedComplete ==
    IsInjective(at) /\ ~hasMore /\ ~failed =>
        \A r \in started : \E i \in DOMAIN shown : shown[i] = r
=============================================================================
