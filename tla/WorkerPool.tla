------------------------------ MODULE WorkerPool ------------------------------
(***************************************************************************)
(* The pool of worker threads that recover the signer of a publication and *)
(* verify receipts.  execute() hands a request to the first idle worker or *)
(* queues a closure that calls execute() again.  Every worker has two      *)
(* listeners on its messages: the one the constructor adds for good, and   *)
(* the one execute() adds for the answer it waits for.  They are called in *)
(* the order they were added, and both take the head of the queue.         *)
(***************************************************************************)
EXTENDS Naturals, SequencesExt

CONSTANTS
    Workers,        \* one per CPU core
    Requests,       \* the requests made of the pool while a batch is checked
    NoRequest

ASSUME WorkersAssumption == IsFiniteSet(Workers) /\ Workers # {}
ASSUME NoRequestAssumption == NoRequest \notin Requests

VARIABLES
    idle,           \* workers
    queue,          \* the requests of the closures in queue
    serves,         \* the request a worker was posted
    answered,       \* requests whose promise is resolved
    up              \* the process runs

vars == <<idle, queue, serves, answered, up>>

TypeOK ==
    /\ idle \in Seq(Workers)
    /\ queue \in Seq(Requests)
    /\ serves \in [Workers -> Requests \cup {NoRequest}]
    /\ answered \subseteq Requests
    /\ up \in BOOLEAN

Busy == {w \in Workers : serves[w] # NoRequest}
Served == {serves[w] : w \in Busy}
Queued == ToSet(queue)

\* The constructor: the workers, in the order they were created.
Init ==
    /\ idle \in {s \in [1 .. Cardinality(Workers) -> Workers] : ToSet(s) = Workers}
    /\ queue = <<>>
    /\ serves = [w \in Workers |-> NoRequest]
    /\ answered = {}
    /\ up = TRUE

\* What a call of execute(), and the closures it queues, work on.
State == [idle : Seq(Workers), queue : Seq(Requests),
          serves : [Workers -> Requests \cup {NoRequest}]]

Now == [idle |-> idle, queue |-> queue, serves |-> serves]
Become(s) == idle' = s.idle /\ queue' = s.queue /\ serves' = s.serves

\* Wrong: the worker handed a request stays among the idle ones.
ExecuteInAndKeep(s, r) ==
    IF s.idle = <<>>
    THEN [s EXCEPT !.queue = Append(@, r)]
    ELSE [s EXCEPT !.serves[Head(s.idle)] = r]

ExecuteIn(s, r) ==
    IF s.idle = <<>>
    THEN [s EXCEPT !.queue = Append(@, r)]
    ELSE [s EXCEPT !.idle = Tail(@), !.serves[Head(s.idle)] = r]

\* Wrong: a closure that finds no idle worker is not queued again.
RunNextWithoutRequeue(s) ==
    IF s.queue = <<>> \/ s.idle = <<>>
    THEN [s EXCEPT !.queue = IF @ = <<>> THEN @ ELSE Tail(@)]
    ELSE ExecuteIn([s EXCEPT !.queue = Tail(@)], Head(s.queue))

\* this.queue.shift()?.()
RunNext(s) ==
    IF s.queue = <<>> THEN s
                      ELSE ExecuteIn([s EXCEPT !.queue = Tail(@)], Head(s.queue))

\* Wrong: the answer does not start the next request.
FreeWithoutNext(s, w) ==
    [s EXCEPT !.idle = Append(@, w), !.serves[w] = NoRequest]

\* The listener that execute() added.
Free(s, w) == RunNext([s EXCEPT !.idle = Append(@, w), !.serves[w] = NoRequest])

Execute(r) ==
    /\ up
    /\ r \notin answered \cup Served \cup Queued
    /\ Become(ExecuteIn(Now, r))
    /\ UNCHANGED <<answered, up>>

\* Wrong: an idle worker's message is taken for an answer.
MessageOfAny(w) ==
    /\ up
    /\ answered' = answered \cup {serves[w]}
    /\ Become(Free(RunNext(Now), w))
    /\ UNCHANGED up

\* Worker w posts its result: first the constructor's listener, then execute's.
Message(w) ==
    /\ up
    /\ serves[w] # NoRequest
    /\ answered' = answered \cup {serves[w]}
    /\ Become(Free(RunNext(Now), w))
    /\ UNCHANGED up

\* The handler throws in the worker: its error event has no listener, which stops
\* the process.
Throw(w) ==
    /\ up
    /\ serves[w] # NoRequest
    /\ up' = FALSE
    /\ UNCHANGED <<idle, queue, serves, answered>>

Next ==
    \/ \E r \in Requests : Execute(r)
    \/ \E w \in Workers : Message(w) \/ Throw(w)

Spec == Init /\ [][Next]_vars

\* A worker that does not throw answers.
Fairness == \A w \in Workers : WF_vars(Message(w))
FairSpec == Spec /\ Fairness

-------------------------------------------------------------------------------
(* Properties *)

\* No worker is idle while a request waits, although a closure that is run may
\* queue itself again (worker-pool.ts:20-22 and :36-40).
NoIdleWorkerWhileQueued == queue # <<>> => idle = <<>>

\* The two listeners neither lose a worker nor hand it to two requests, and never
\* run a request twice.
OnePlaceEach ==
    /\ ToSet(idle) = Workers \ Busy
    /\ IsInjective(idle) /\ IsInjective(queue)
    /\ \A v, w \in Busy : serves[v] = serves[w] => v = w
    /\ Served \cap Queued = {} /\ answered \cap (Served \cup Queued) = {}

\* The pool, with its queue of closures and its two listeners, does what a pool of as
\* many servers as there are workers does: no request is lost or answered twice, none
\* waits while there is room, and an answer lets exactly one of those that wait in
\* (worker-pool.ts:28-53).
Station == INSTANCE RequestPool WITH waiting <- Queued, running <- Served
ImplementsRequestPool == Station!Spec

\* A request that was made is answered, unless the process stops, however often
\* the listeners move it back to the end of the queue (worker-pool.ts:20-22).
EveryRequestAnswered ==
    \A r \in Requests : (r \in Queued \cup Served) ~> (r \in answered \/ ~up)

===============================================================================
