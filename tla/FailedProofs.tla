----------------------------- MODULE FailedProofs -----------------------------
(***************************************************************************)
(* processFailedDAProofQueue: a loop takes one failed proof at a time from *)
(* a queue in memory and writes it to the disk; when that fails, the proof *)
(* joins the queue again 30 seconds later.                                 *)
(***************************************************************************)
EXTENDS Sequences, FiniteSets

CONSTANT Reported   \* the errors that are not retried, which the watcher counts

VARIABLES
    failedQueue,    \* failedDAProofQueue
    writing,        \* the failed proof being written, in a set of at most one
    delayed,        \* those asleep in enqueueWithDelay, in the order they began
    files,          \* the failed proofs on disk
    lost            \* history: those in memory when the process stopped

failedProofs == <<failedQueue, writing, delayed, files, lost>>

FailedInit ==
    failedQueue = <<>> /\ writing = {} /\ delayed = <<>> /\ files = {} /\ lost = {}

ElementsOf(s) == {s[i] : i \in DOMAIN s}

InMemory == ElementsOf(failedQueue) \cup writing \cup ElementsOf(delayed)

Enqueue(f) == failedQueue' = Append(failedQueue, f) /\ UNCHANGED <<writing, delayed, files, lost>>

Dequeue ==
    /\ writing = {} /\ failedQueue # <<>>
    /\ writing' = {Head(failedQueue)}
    /\ failedQueue' = Tail(failedQueue)
    /\ UNCHANGED <<delayed, files, lost>>

\* writeFailedProof: one file for a reason and an id, whatever was there before.
WriteFailedProof ==
    /\ writing # {}
    /\ files' = files \cup writing
    /\ writing' = {}
    /\ UNCHANGED <<failedQueue, delayed, lost>>

\* Wrong: the failed proof is put back only when there is nothing else to write.
WriteFailsAndForgets ==
    /\ \E f \in writing :
          delayed' = IF failedQueue = <<>> THEN Append(delayed, f) ELSE delayed
    /\ writing' = {}
    /\ UNCHANGED <<failedQueue, files, lost>>

WriteFails ==
    /\ \E f \in writing : delayed' = Append(delayed, f)
    /\ writing' = {}
    /\ UNCHANGED <<failedQueue, files, lost>>

\* verifierFailedSubmissionsWatcher, a process of its own, counts the files.
FailedResults == [reason \in Reported |-> Cardinality({f \in files : f.reason = reason})]

DelayOver ==
    /\ delayed # <<>>
    /\ failedQueue' = Append(failedQueue, Head(delayed))
    /\ delayed' = Tail(delayed)
    /\ UNCHANGED <<writing, files, lost>>

\* The process stops: nothing but the files survives, and the write under way may
\* have been finished.
LoseQueue ==
    /\ \E done \in {{}, writing} : files' = files \cup done
    /\ lost' = lost \cup (InMemory \ files')
    /\ failedQueue' = <<>> /\ writing' = {} /\ delayed' = <<>>

===============================================================================
