---------------------------- MODULE TrustingIndexer ----------------------------
(***************************************************************************)
(* startDATrustingIndexing: a program that streams every publication Bundlr*)
(* lists without checking it.  Its cursor is in memory only.               *)
(***************************************************************************)
EXTENDS BundlrBulk

CONSTANTS
    StreamMayThrow, \* the embedder's stream callback may throw
    MaxNullCursors  \* bound on the pages that come without an end cursor

ASSUME IndexerAssumption == StreamMayThrow \in BOOLEAN /\ MaxNullCursors \in Nat

VARIABLES
    indexed,        \* endCursor
    page,           \* the ids of the page being requested, <<>> between two pages
    pageEnd,        \* the end cursor that came with the page
    streamed,       \* the publications streamed so far
    unread,         \* history: those an answer left out
    nulls           \* how many pages came without an end cursor

indexer == <<indexed, page, pageEnd, streamed, unread, nulls>>

IndexerInit ==
    /\ indexed = 0 /\ page = <<>> /\ pageEnd = 0
    /\ streamed = {} /\ unread = {} /\ nulls = 0

\* Wrong: the page holds one transaction more than it lists.
EndCursorsPast(n) == IF nulls < MaxNullCursors THEN {0, n + 1} ELSE {n + 1}

\* The cursors a page that ends with transaction n may come with.
EndCursors(n) == IF nulls < MaxNullCursors THEN {0, n} ELSE {n}

IndexerFetch ==
    /\ page = <<>>
    /\ \E ids \in Pages(indexed) : \E end \in EndCursors(PageEnd(ids)) :
          /\ page' = ids
          /\ pageEnd' = end
          /\ nulls' = IF end = 0 THEN nulls + 1 ELSE nulls
    /\ UNCHANGED <<indexed, streamed, unread>>

\* Wrong: after a failure the loop starts from the beginning.
IndexerRewinds ==
    page' = <<>> /\ pageEnd' = 0 /\ indexed' = 0 /\ UNCHANGED <<streamed, unread, nulls>>

\* The page or the request failed: the loop sleeps and starts over.
IndexerFails == page' = <<>> /\ pageEnd' = 0 /\ UNCHANGED <<indexed, streamed, unread, nulls>>

\* Wrong: what cannot be parsed is left out.
StreamReadable(a) ==
    /\ streamed' = streamed \cup {t \in Answered(a) : defect[t] # "json"}
    /\ indexed' = pageEnd

\* Every publication is streamed in turn, and then the cursor moves; a callback
\* that throws leaves the rest and the cursor where they were.
StreamAnswer(a) ==
    /\ ~NotJson(a)
    /\ \/ streamed' = streamed \cup Answered(a) /\ indexed' = pageEnd
       \/ /\ StreamMayThrow
          /\ \E n \in DOMAIN a : streamed' = streamed \cup {a[i] : i \in 1 .. n}
          /\ UNCHANGED indexed

\* getBundlrBulkTxsAPI asks for the page in one request.  An answer with malformed
\* data is an exception, and the page is fetched again.
IndexerLoaded ==
    /\ page # <<>>
    /\ \E a \in Answers(page) :
          /\ \/ StreamAnswer(a)
             \/ NotJson(a) /\ UNCHANGED <<indexed, streamed>>
          /\ unread' = unread \cup (Answered(page) \ Answered(a))
    /\ page' = <<>> /\ pageEnd' = 0
    /\ UNCHANGED nulls

IndexerNext == IndexerFetch \/ IndexerFails \/ IndexerLoaded

-------------------------------------------------------------------------------
(* Properties *)

\* What a submitter put on Bundlr, and nothing else, is streamed, and what the cursor has
\* passed was streamed or Bundlr had left it out of an answer:
\* a callback that throws, a page without a cursor or malformed data never make the
\* indexer skip anything (trusting-indexing.watcher.ts:65-77).
PassedIsStreamed ==
    /\ \A t \in 1 .. indexed : IsListed(t) => t \in streamed \cup unread
    /\ \A t \in streamed : IsListed(t)

===============================================================================
