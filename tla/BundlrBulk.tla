------------------------------ MODULE BundlrBulk ------------------------------
(***************************************************************************)
(* Bundlr as the programs that read from it in bulk see it.  Publications  *)
(* are numbered as Bundlr lists them, so a cursor is a number and 0 is the *)
(* cursor null; the timestamp proofs of publication t are the transaction  *)
(* N + t.  A bulk request names ids; its answer holds some of them, in any *)
(* order, and lists the rest under "failed", which nothing reads.          *)
(***************************************************************************)
EXTENDS Naturals, Sequences

CONSTANTS
    N,              \* how many publications Bundlr comes to list
    ChunkSize,      \* ids in one request of getBundlrBulkTxs
    PageSize,       \* transactions fetched at once
    DefectCases     \* the assignments of defects to publications to consider

ASSUME SizeAssumption ==
    N \in Nat /\ ChunkSize \in Nat \ {0} /\ PageSize \in Nat \ {0}

Publications == 1 .. N
TimestampTx(t) == N + t
Ids == 1 .. 2 * N

\* What is wrong with a publication or with its timestamp proofs.
\*   json     its data is not JSON         receipt  it names no timestamp proofs
\*   proofs   its timestamp proofs are     event    it holds no event
\*            not JSON                     foreign  its timestamp proofs were not
\*   stranger it is not a submitter's               uploaded by a submitter
Defect == {"none", "json", "receipt", "proofs", "event", "foreign", "stranger"}

ASSUME DefectAssumption == DefectCases \subseteq [Publications -> Defect]

VARIABLE defect     \* what is wrong with each publication

\* The request of getBundlrBulkTxs an id is in.
Chunk(ids, id) == ((CHOOSE i \in DOMAIN ids : ids[i] = id) - 1) \div ChunkSize

\* The answers to the requests for ids, joined in the order of the requests.
Answers(ids) ==
    {a \in UNION {[1 .. n -> {ids[i] : i \in DOMAIN ids}] : n \in 0 .. Len(ids)} :
        \A i, j \in DOMAIN a :
            i < j => a[i] # a[j] /\ Chunk(ids, a[i]) <= Chunk(ids, a[j])}

Answered(a) == {a[i] : i \in DOMAIN a}

\* Bundlr lists the transactions of the owners that are asked for: the submitters.
IsListed(t) == defect[t] # "stranger"

\* DataAvailabilityTransactions: the first transactions after a cursor that are there by
\* now, in ascending order and at most limit of them, not counting an empty page.
Query(after, limit) ==
    {s \in UNION {[1 .. n -> Publications] : n \in 1 .. limit} :
        /\ \A i, j \in DOMAIN s : i < j => s[i] < s[j]
        /\ Answered(s) = {t \in Publications : after < t /\ t <= s[Len(s)] /\ IsListed(t)}}

Pages(cursor) == Query(cursor, PageSize)

\* The cursor of the last transaction of a page.
PageEnd(ids) == ids[Len(ids)]

\* base64StringToJson fails on one of the publications, and with it all of them.
NotJson(a) == \E i \in DOMAIN a : defect[a[i]] = "json"

===============================================================================
