------------------------------ MODULE RustChecks ------------------------------
(***************************************************************************)
(* process_proof of the verifier in Rust, from one request to the next: it *)
(* reads the three blocks one after the other, then simulates a post and   *)
(* counts the publications of its profile, or reads the details of the     *)
(* profile of a comment or a mirror.  What RustVerifier takes as "early"   *)
(* or "late" defects is found here.  The retries of a request are those of *)
(* the provider; here it is answered, or it is not.                        *)
(***************************************************************************)
EXTENDS Chain, RustPublications

VARIABLES
    rustAt,         \* start, the request that is awaited, validate, done
    rustAnswer,     \* the form of the block each request was answered from
    rustResult      \* "none", or what process_proof returned

rustVars == <<rustAt, rustAnswer, rustResult>>

RustInit ==
    rustAt = "start" /\ rustAnswer = [r \in Requests |-> 0] /\ rustResult = "none"

Return(what) == rustAt' = "done" /\ rustResult' = what

\* The data is read, and tested before anything is asked.
RustStart ==
    /\ rustAt = "start"
    /\ LET error == IF FromJson(p) THEN FirstError(ProofTests(p, upload, setting))
                    ELSE "InvalidTransactionFormat" IN
       IF error # "none" THEN Return(error) ELSE rustAt' = "previous" /\ UNCHANGED rustResult
    /\ UNCHANGED <<chain, rustAnswer>>

\* The request that is awaited is answered, and the next stage is begun.
Answered(r, next) ==
    /\ rustAt = r /\ BlockOf(r) <= height
    /\ rustAnswer' = [rustAnswer EXCEPT ![r] = form[BlockOf(r)]]
    /\ rustAt' = next
    /\ UNCHANGED <<chain, rustResult>>

\* get_blocks
ReadPrevious == Answered("previous", "chosen")
ReadChosen == Answered("chosen", "next")
ReadNext == Answered("next", "validate")

RustBlocks ==
    {[number |-> b, time |-> At(b, rustAnswer[RequestFor(b)]).time] : b \in Block}

\* Between the last block and the next request.
RustValidate ==
    /\ rustAt = "validate"
    /\ LET error == FirstError(ChosenBlockTests(RustBlocks, Chosen, p.timestamp)
                        \o TimestampProofsTests(p, upload) \o PointerTests(p, upload)) IN
       IF error # "none" THEN Return(error)
       ELSE /\ rustAt' = IF p.type = "POST" THEN "simulation" ELSE "details"
            /\ UNCHANGED rustResult
    /\ UNCHANGED <<chain, rustAnswer>>

\* simulate_transaction, which returns the number of the new publication.
Simulate == Answered("simulation", "count") /\ Permits(At(Chosen, form[Chosen]))

\* Wrong: the number of publications there are.
ExpectedUncounted(s) == s.pubs

\* get_expected_simulation_result
RustExpected(s) == s.pubs + 1

\* The rest of verifier_post: the hash of the block is asked for when the simulation
\* did not come to what was expected.
CountPublications ==
    /\ rustAt = "count" /\ Chosen <= height
    /\ rustAnswer' = [rustAnswer EXCEPT !["count"] = form[Chosen]]
    /\ LET simulated == At(Chosen, rustAnswer["simulation"]).pubs + 1 IN
       IF simulated # RustExpected(At(Chosen, form[Chosen]))
       THEN rustAt' = "hash" /\ UNCHANGED rustResult
       ELSE Return(IF CrossCheckEvent(p, simulated) THEN "accepted" ELSE "EventMismatch")
    /\ UNCHANGED chain

\* A block that is not known is an answer, too.
BlockByHash == rustAt = "hash" /\ Return("SimulationFailed") /\ UNCHANGED <<chain, rustAnswer>>

\* What get_profile_details makes of the answers to its four calls.
LensProfileDetails(s) ==
    [nonce |-> s.nonce, pubs |-> s.pubs, delegate |-> s.delegate, owner |-> s.owner]

\* The rest of verifier_comment and verifier_mirror.
ReadDetails ==
    /\ rustAt = "details" /\ Chosen <= height /\ HasDetails(At(Chosen, form[Chosen]))
    /\ rustAnswer' = [rustAnswer EXCEPT !["details"] = form[Chosen]]
    /\ LET details == LensProfileDetails(At(Chosen, form[Chosen]))
           error == FirstError(SignerTests(p, details) \o
               <<Test(CrossCheckEvent(p, RustExpected(details)), "EventMismatch")>>)
       IN Return(IF error = "none" THEN "accepted" ELSE error)
    /\ UNCHANGED chain

\* Why the request that is awaited may fail: the node does not answer, the block is not
\* there, or the call is reverted.
Unanswerable(r) ==
    \/ r \in Table[scenario].flaky
    \/ r # "hash" /\ BlockOf(r) > height
    \/ r = "simulation" /\ ~Permits(At(Chosen, form[Chosen]))
    \/ r = "details" /\ ~HasDetails(At(Chosen, form[Chosen]))

ErrorOf(r) ==
    CASE r \in BlockRequests -> "BlockCantBeReadFromNode"
      [] r \in {"simulation", "count"} -> "DataCantBeReadFromNode"
      [] r = "details" -> "SimulationNodeCouldNotRun"
      [] OTHER -> "PotentialReorg"

RequestFails ==
    /\ rustAt \in Requests /\ Unanswerable(rustAt)
    /\ Return(ErrorOf(rustAt))
    /\ UNCHANGED <<chain, rustAnswer>>

RustStep ==
    \/ RustStart
    \/ ReadPrevious \/ ReadChosen \/ ReadNext \/ RustValidate
    \/ Simulate \/ CountPublications \/ BlockByHash
    \/ ReadDetails
    \/ RequestFails

===============================================================================
