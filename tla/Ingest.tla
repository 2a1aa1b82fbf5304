-------------------------------- MODULE Ingest --------------------------------
(***************************************************************************)
(* The two programs that read Bundlr in bulk: the node, with the watcher's *)
(* batches and the queue of failed proofs, and the trusting indexer.       *)
(***************************************************************************)
EXTENDS BatchRequests, TrustingIndexer

VARIABLE program    \* the one that runs

vars == <<program, defect, batchVars, failedProofs, indexer>>

TypeOK ==
    /\ program \in {"node", "indexer"}
    /\ defect \in [Publications -> Defect]
    /\ pc \in {"fetch", "publications", "proofs", "check", "save"}
    /\ endCursor \in 0 .. N /\ savedCursor \in 0 .. N /\ next \in 0 .. N
    /\ batch \in Seq(Publications)
    /\ waiting \subseteq Pair /\ inFlight \subseteq Pair /\ strays \subseteq Pair
    /\ metadata \in [{"da", "proofs"} -> [Ids -> 0 .. N]]
    /\ accepted \subseteq Pair /\ failed \subseteq FailedProof /\ leftOut \subseteq Publications
    /\ bounds \in [spoiled : Nat, disturbances : Nat]
    /\ failedQueue \in Seq(FailedProof) /\ delayed \in Seq(FailedProof)
    /\ writing \subseteq FailedProof /\ files \subseteq FailedProof /\ lost \subseteq FailedProof
    /\ indexed \in 0 .. N /\ pageEnd \in 0 .. N /\ page \in Seq(Publications)
    /\ streamed \subseteq Publications /\ unread \subseteq Publications /\ nulls \in Nat

Init ==
    /\ program \in {"node", "indexer"}
    /\ defect \in DefectCases /\ BatchInit /\ FailedInit /\ IndexerInit

NodeStep ==
    /\ program = "node"
    /\ \/ BatchStep /\ UNCHANGED failedProofs
       \/ CheckEnds
       \/ QueueStep /\ UNCHANGED batchVars
       \/ Restart
    /\ UNCHANGED <<program, defect, indexer>>

IndexerStep ==
    /\ program = "indexer"
    /\ IndexerNext
    /\ UNCHANGED <<program, defect, batchVars, failedProofs>>

\* Nothing new is listed, or the page could not be fetched.
Idle == UNCHANGED vars

Next == NodeStep \/ IndexerStep \/ Idle

Spec == Init /\ [][Next]_vars

\* Steps of the process are due when they can be taken; a request or a write that is
\* repeated for ever succeeds at some time.  Failures and stops are not due.
Do(A) == program = "node" /\ A /\ UNCHANGED <<program, defect, indexer>>

Fairness ==
    /\ WF_vars(Do(FetchBatch /\ UNCHANGED failedProofs))
    /\ SF_vars(Do(PublicationsLoaded /\ UNCHANGED failedProofs))
    /\ SF_vars(Do(ProofsLoaded /\ UNCHANGED failedProofs))
    /\ WF_vars(Do((\E p \in waiting : StartCheck(p)) /\ UNCHANGED failedProofs))
    /\ WF_vars(Do(CheckEnds))
    /\ WF_vars(Do((BatchChecked \/ SaveCursor) /\ UNCHANGED failedProofs))
    /\ WF_vars(Do(Dequeue /\ UNCHANGED batchVars))
    /\ WF_vars(Do(DelayOver /\ UNCHANGED batchVars))
    /\ SF_vars(Do(WriteFailedProof /\ UNCHANGED batchVars))
    /\ WF_vars(IndexerStep /\ IndexerFetch)
    /\ SF_vars(IndexerStep /\ IndexerLoaded /\ indexed' = pageEnd)

FairSpec == Spec /\ Fairness

-------------------------------------------------------------------------------
(* Liveness *)

\* Failed proofs reach the disk however often writing fails, unless the process stops:
\* again and again there is a time when all of them have (process-failed-da-proof.queue.ts:46).
EveryFailureWritten == []<>(failed \subseteq files \cup lost)

\* Where everything can be read, what Bundlr lists is checked, or was left out of an
\* answer.
Readable == \A t \in Publications : ~Unreadable(t) /\ defect[t] # "proofs"
EveryPublicationChecked ==
    \A t \in Publications :
        (program = "node" /\ Readable /\ IsListed(t))
            ~> (Checked(t) \/ t \in leftOut)

\* The same of the indexer, whose pages may come without a cursor a number of times:
\* where no data is malformed, everything is streamed or was left out of an answer.
EveryPublicationStreamed ==
    \A t \in Publications :
        (program = "indexer" /\ IsListed(t) /\ \A u \in Publications : defect[u] # "json")
            ~> (t \in streamed \cup unread)

===============================================================================
