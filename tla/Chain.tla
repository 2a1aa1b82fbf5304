--------------------------------- MODULE Chain ---------------------------------
(***************************************************************************)
(* The Polygon chain as a check sees it, and what is checked.  Blocks 1, 2 *)
(* and 3 stand for the one before the block the submitter chose, the chosen*)
(* block and the one after it; a block has two forms, and a reorg changes  *)
(* which one is on the chain.                                              *)
(***************************************************************************)
EXTENDS Submissions, LensHub

CONSTANT
    Scenarios       \* what may be checked, by name: the program and its setting, a
                    \* publication and what its submitter added, the forms of the blocks,
                    \* whether there are reorgs, the requests that may go unanswered, the
                    \* blocks other checks read and the last block that is mined at first

BlockRequests == {"previous", "chosen", "next"}
Requests == BlockRequests \cup {"simulation", "count", "details", "hash"}

\* What the client library asks of Bundlr.
BundlrRequests == {"publication", "proofs", "owner"}

Block == 1 .. 3
Form == 1 .. 2
Chosen == 2

\* The block a request is about, and the request for a block.
BlockOf(r) == CASE r = "previous" -> 1 [] r = "next" -> 3 [] OTHER -> Chosen
RequestFor(b) == CASE b = 1 -> "previous" [] b = 2 -> "chosen" [] OTHER -> "next"

IsPublication(q) ==
    /\ q.type \in Type /\ q.version \in {1, 2}
    /\ q.value \in [SignedFields(q.type, q.version) -> Datum]
    /\ q.event \in [EventFields(q.type, q.version) -> Datum]
    /\ q.pubId \in [number : Nat, form : {"even", "odd"}]
    /\ q.timestamp \in Nat /\ q.nonce \in Nat
    /\ q.signer \in Signer /\ q.byDelegate \in BOOLEAN

\* The verifier in Rust decides when it reads a publication whether its fields are
\* formed well, and in the bulk checks of the node the publication and its timestamp
\* proofs are there.
IsFor(s, which) ==
    CASE which = "node" ->
            IsSupported(s.setting) /\ s.upload.found /\ s.upload.proofs.given
      [] which = "rust" ->
            IsSupported(s.setting) /\ s.upload.found /\ WellFormed(s.publication.value)
      [] OTHER -> TRUE

IsScenario(s) ==
    /\ s.program \in {"node", "client", "rust"} /\ IsFor(s, s.program)
    /\ s.setting \in [environment : Environment, deployment : Deployment]
    /\ IsPublication(s.publication) /\ s.upload \in Upload
    /\ s.states \in [Block \X Form -> State]
    /\ s.reorgs \in BOOLEAN /\ s.flaky \subseteq Requests \cup BundlrRequests
    /\ s.others \subseteq Block /\ s.height \in Block

\* The scenarios again, as a definition: TLC evaluates one once, and a constant at every use.
Table == Scenarios
Names == DOMAIN Scenarios

ASSUME ScenarioAssumption == \A x \in DOMAIN Scenarios : IsScenario(Scenarios[x])

VARIABLES
    scenario,       \* the name of what is checked; it does not change
    form,           \* the form of each block that is on the chain
    height,         \* the last block that is mined
    seen            \* history: the forms of blocks that have been on the chain

chain == <<scenario, form, height, seen>>

program == Table[scenario].program
p == Table[scenario].publication
upload == Table[scenario].upload
setting == Table[scenario].setting

\* What the chain says at block b in form f.
At(b, f) == Table[scenario].states[<<b, f>>]

\* The contract accepts the post at s.
Permits(s) == Executes(PostCall(p, upload.deadline), s)

ChainInit ==
    /\ scenario \in Names
    /\ form = [b \in Block |-> 1] /\ height = Table[scenario].height
    /\ seen = {<<b, 1>> : b \in 1 .. Table[scenario].height}

Mine ==
    /\ height < 3
    /\ height' = height + 1 /\ seen' = seen \cup {<<height + 1, form[height + 1]>>}
    /\ UNCHANGED <<scenario, form>>

\* The blocks from n on are replaced, and those after n are still to be mined.
Reorg(n) ==
    /\ Table[scenario].reorgs /\ form[n] = 1 /\ n <= height
    /\ form' = [b \in Block |-> IF b >= n THEN 2 ELSE form[b]]
    /\ height' = n /\ seen' = seen \cup {<<n, 2>>}
    /\ UNCHANGED scenario

===============================================================================
