--------------------------- MODULE WorkerPoolProofs ---------------------------
(***************************************************************************)
(* Theorems about WorkerPool, for every number of workers and requests.    *)
(***************************************************************************)
EXTENDS WorkerPool, FiniteSetTheorems, TLAPS

\* What the parts of the pool agree on between two calls.
Conserving(s) == s \in State /\ (s.queue # <<>> => s.idle = <<>>)

\* execute() keeps the pool conserving, and never leaves a worker idle next to
\* the request it was given.
LEMMA ExecuteConserves ==
    ASSUME NEW s, Conserving(s), NEW r \in Requests
    PROVE  Conserving(ExecuteIn(s, r))
<1>0. s.idle \in Seq(Workers) /\ s.queue \in Seq(Requests)
      /\ s.serves \in [Workers -> Requests \cup {NoRequest}]
  BY DEF Conserving, State
<1>1. CASE s.idle = <<>>
  <2>1. ExecuteIn(s, r) = [s EXCEPT !.queue = Append(@, r)]
    BY <1>1 DEF ExecuteIn
  <2>2. Append(s.queue, r) \in Seq(Requests)
    BY <1>0
  <2>3. QED
    BY <1>0, <1>1, <2>1, <2>2 DEF Conserving, State
<1>2. CASE s.idle # <<>>
  <2>1. ExecuteIn(s, r) = [s EXCEPT !.idle = Tail(@), !.serves[Head(s.idle)] = r]
    BY <1>2 DEF ExecuteIn
  <2>2. Tail(s.idle) \in Seq(Workers) /\ s.queue = <<>>
    BY <1>0, <1>2 DEF Conserving
  <2>3. [s.serves EXCEPT ![Head(s.idle)] = r] \in [Workers -> Requests \cup {NoRequest}]
    BY <1>0
  <2>4. QED
    BY <1>0, <2>1, <2>2, <2>3 DEF Conserving, State
<1>3. QED
  BY <1>1, <1>2

\* Running the head of the queue makes a pool conserving that has at most one
\* worker idle next to a queue.
LEMMA RunNextConserves ==
    ASSUME NEW s \in State, s.queue # <<>> => Len(s.idle) <= 1
    PROVE  Conserving(RunNext(s))
<1>0. s.idle \in Seq(Workers) /\ s.queue \in Seq(Requests)
      /\ s.serves \in [Workers -> Requests \cup {NoRequest}]
  BY DEF State
<1>1. CASE s.queue = <<>>
  BY <1>1 DEF RunNext, Conserving
<1>2. CASE s.queue # <<>>
  <2> DEFINE t == [s EXCEPT !.queue = Tail(@)]
             r == Head(s.queue)
  <2>1. RunNext(s) = ExecuteIn(t, r)
    BY <1>2 DEF RunNext
  <2>2. t \in State /\ t.idle = s.idle /\ t.queue = Tail(s.queue) /\ r \in Requests
    <3>1. Tail(s.queue) \in Seq(Requests) /\ Head(s.queue) \in Requests
      BY <1>0, <1>2
    <3>2. QED
      BY <1>0, <3>1 DEF State
  <2>3. CASE s.idle = <<>>
    BY <2>1, <2>2, <2>3, ExecuteConserves DEF Conserving
  <2>4. CASE s.idle # <<>>
    <3>1. Tail(s.idle) = <<>>
      BY <1>0, <1>2, <2>4
    <3>2. RunNext(s) = [t EXCEPT !.idle = Tail(@), !.serves[Head(t.idle)] = r]
      BY <2>1, <2>2, <2>4 DEF ExecuteIn
    <3>3. t.serves \in [Workers -> Requests \cup {NoRequest}] /\ t.queue \in Seq(Requests)
      BY <2>2 DEF State
    <3>4. [t.serves EXCEPT ![Head(t.idle)] = r] \in [Workers -> Requests \cup {NoRequest}]
      BY <2>2, <3>3
    <3>5. <<>> \in Seq(Workers)
      OBVIOUS
    <3> HIDE DEF t, r
    <3>6. QED
      BY <2>2, <3>1, <3>2, <3>3, <3>4, <3>5 DEF Conserving, State
  <2>5. QED
    BY <2>3, <2>4
<1>3. QED
  BY <1>1, <1>2

\* The listener that answers a request frees its worker and gives it to the head
\* of the queue.
LEMMA FreeConserves ==
    ASSUME NEW s, Conserving(s), NEW w \in Workers
    PROVE  Conserving(Free(s, w))
<1> DEFINE t == [s EXCEPT !.idle = Append(@, w), !.serves[w] = NoRequest]
<1>1. s.idle \in Seq(Workers) /\ s.queue \in Seq(Requests)
      /\ s.serves \in [Workers -> Requests \cup {NoRequest}]
  BY DEF Conserving, State
<1>2. Append(s.idle, w) \in Seq(Workers) /\ (s.idle = <<>> => Len(Append(s.idle, w)) = 1)
  BY <1>1
<1>3. [s.serves EXCEPT ![w] = NoRequest] \in [Workers -> Requests \cup {NoRequest}]
  BY <1>1
<1>4. t \in State /\ t.queue = s.queue /\ t.idle = Append(s.idle, w)
  BY <1>1, <1>2, <1>3 DEF Conserving, State
<1>5. t.queue # <<>> => Len(t.idle) <= 1
  BY <1>2, <1>4 DEF Conserving
<1>6. QED
  BY <1>4, <1>5, RunNextConserves DEF Free

PoolInv == Conserving(Now) /\ answered \subseteq Requests /\ up \in BOOLEAN

LEMMA PoolInvariant == Spec => []PoolInv
<1>1. Init => PoolInv
  <2> SUFFICES ASSUME Init PROVE PoolInv
    OBVIOUS
  <2>1. idle \in Seq(Workers)
    <3>1. Cardinality(Workers) \in Nat
      BY WorkersAssumption, FS_CardinalityType
    <3>2. QED
      BY <3>1 DEF Init
  <2>2. queue = <<>> /\ serves \in [Workers -> Requests \cup {NoRequest}]
        /\ answered = {} /\ up = TRUE
    BY DEF Init
  <2>3. Now \in State /\ Now.queue = <<>>
    BY <2>1, <2>2 DEF Now, State
  <2>4. QED
    BY <2>2, <2>3 DEF PoolInv, Conserving
<1>2. PoolInv /\ [Next]_vars => PoolInv'
  <2> SUFFICES ASSUME PoolInv, [Next]_vars PROVE PoolInv'
    OBVIOUS
  <2>1. ASSUME NEW s, Conserving(s), Become(s) PROVE Conserving(Now)'
    <3>1. s = [idle |-> s.idle, queue |-> s.queue, serves |-> s.serves]
      BY <2>1 DEF Conserving, State
    <3>2. Now' = s
      BY <2>1, <3>1 DEF Become, Now
    <3>3. QED
      BY <2>1, <3>2 DEF Conserving, State
  <2>2. ASSUME NEW r \in Requests, Execute(r) PROVE PoolInv'
    <3>1. Conserving(ExecuteIn(Now, r))
      BY ExecuteConserves DEF PoolInv
    <3>2. Conserving(Now)'
      BY <2>1, <2>2, <3>1 DEF Execute
    <3>3. QED
      BY <2>2, <3>2 DEF PoolInv, Execute
  <2>3. ASSUME NEW w \in Workers, Message(w) PROVE PoolInv'
    <3>1. Now \in State /\ Now.serves = serves /\ Now.idle = idle /\ Now.queue = queue
      BY DEF PoolInv, Conserving, Now
    <3>2. queue # <<>> => Len(idle) <= 1
      BY <3>1 DEF PoolInv, Conserving
    <3>3. Conserving(RunNext(Now))
      BY <3>1, <3>2, RunNextConserves
    <3>4. Conserving(Free(RunNext(Now), w))
      BY <3>3, FreeConserves
    <3>5. Conserving(Now)'
      BY <2>1, <2>3, <3>4 DEF Message
    <3>6. serves[w] \in Requests
      BY <2>3, <3>1 DEF State, Message
    <3>7. QED
      BY <2>3, <3>5, <3>6 DEF PoolInv, Message
  <2>4. ASSUME NEW w \in Workers, Throw(w) PROVE PoolInv'
    BY <2>4 DEF PoolInv, Throw, Conserving, Now, State
  <2>5. CASE UNCHANGED vars
    BY <2>5 DEF vars, PoolInv, Conserving, Now, State
  <2>6. QED
    BY <2>2, <2>3, <2>4, <2>5 DEF Next
<1>3. QED
  BY <1>1, <1>2, PTL DEF Spec

\* Every variable of the pool keeps its type.
THEOREM PoolTypeCorrect == Spec => []TypeOK
<1>1. PoolInv => TypeOK
  BY DEF PoolInv, Conserving, Now, State, TypeOK
<1>2. QED
  BY PoolInvariant, <1>1, PTL

\* However many workers and requests there are, no worker is idle while a request
\* waits: the two listeners never leave the queue behind.
THEOREM WorkConserving == Spec => []NoIdleWorkerWhileQueued
<1>1. PoolInv => NoIdleWorkerWhileQueued
  BY DEF PoolInv, Conserving, Now, NoIdleWorkerWhileQueued
<1>2. QED
  BY PoolInvariant, <1>1, PTL

-------------------------------------------------------------------------------
(* Where the requests and the workers are *)

LEMMA AppendPlaces ==
    ASSUME NEW S, NEW q \in Seq(S), IsInjective(q), NEW r \in S, r \notin ToSet(q)
    PROVE  /\ IsInjective(Append(q, r))
           /\ ToSet(Append(q, r)) = ToSet(q) \cup {r}
<1> DEFINE a == Append(q, r)
<1>1. /\ DOMAIN q = 1 .. Len(q) /\ DOMAIN a = 1 .. Len(q) + 1 /\ Len(q) \in Nat
      /\ \A i \in 1 .. Len(q) : a[i] = q[i]
      /\ a[Len(q) + 1] = r
  OBVIOUS
<1> HIDE DEF a
<1>2. \A i \in 1 .. Len(q) : q[i] # r
  BY <1>1 DEF ToSet
<1>3. IsInjective(a)
  BY <1>1, <1>2 DEF IsInjective
<1>4. \A x : x \in ToSet(a) <=> x \in ToSet(q) \cup {r}
  <2>1. ASSUME NEW x, x \in ToSet(a) PROVE x \in ToSet(q) \cup {r}
    BY <1>1, <2>1 DEF ToSet
  <2>2. ASSUME NEW i \in 1 .. Len(q) PROVE q[i] \in ToSet(a)
    BY <1>1 DEF ToSet
  <2>3. r \in ToSet(a)
    BY <1>1 DEF ToSet
  <2>4. QED
    BY <1>1, <2>1, <2>2, <2>3 DEF ToSet
<1>5. QED
  BY <1>3, <1>4 DEF a

LEMMA TailPlaces ==
    ASSUME NEW S, NEW q \in Seq(S), IsInjective(q), q # <<>>
    PROVE  /\ IsInjective(Tail(q))
           /\ Head(q) \in ToSet(q)
           /\ ToSet(Tail(q)) = ToSet(q) \ {Head(q)}
<1> DEFINE t == Tail(q)
<1>1. /\ DOMAIN q = 1 .. Len(q) /\ DOMAIN t = 1 .. Len(q) - 1
      /\ Len(q) \in Nat /\ Len(q) >= 1
      /\ \A i \in 1 .. Len(q) - 1 : t[i] = q[i + 1]
      /\ Head(q) = q[1]
  OBVIOUS
<1> HIDE DEF t
<1>2. IsInjective(t)
  <2>1. ASSUME NEW i \in 1 .. Len(q) - 1, NEW j \in 1 .. Len(q) - 1, t[i] = t[j]
        PROVE  i = j
    <3>1. i + 1 \in 1 .. Len(q) /\ j + 1 \in 1 .. Len(q) /\ q[i + 1] = q[j + 1]
      BY <1>1, <2>1
    <3>2. i + 1 = j + 1
      BY <1>1, <3>1 DEF IsInjective
    <3>3. QED
      BY <3>2
  <2>2. QED
    BY <1>1, <2>1 DEF IsInjective
<1>3. Head(q) \in ToSet(q)
  BY <1>1 DEF ToSet
<1>4. ASSUME NEW x, x \in ToSet(t) PROVE x \in ToSet(q) \ {Head(q)}
  <2>1. PICK i \in 1 .. Len(q) - 1 : t[i] = x
    BY <1>1, <1>4 DEF ToSet
  <2>2. i + 1 \in 1 .. Len(q) /\ i + 1 # 1 /\ 1 \in 1 .. Len(q) /\ q[i + 1] = x
    BY <1>1, <2>1
  <2>3. x # q[1]
    BY <1>1, <2>2 DEF IsInjective
  <2>4. QED
    BY <1>1, <2>2, <2>3 DEF ToSet
<1>5. ASSUME NEW x \in ToSet(q), x # Head(q) PROVE x \in ToSet(t)
  <2>1. PICK i \in 1 .. Len(q) : q[i] = x
    BY <1>1 DEF ToSet
  <2>2. i - 1 \in 1 .. Len(q) - 1 /\ t[i - 1] = x
    BY <1>1, <1>5, <2>1
  <2>3. QED
    BY <1>1, <2>2 DEF ToSet
<1>6. QED
  BY <1>2, <1>3, <1>4, <1>5 DEF t

\* The requests that are served or wait, and the workers that serve one.
BusyIn(s) == {w \in Workers : s.serves[w] # NoRequest}
ServedIn(s) == {s.serves[w] : w \in BusyIn(s)}
HeldIn(s) == ServedIn(s) \cup ToSet(s.queue)

\* Every worker and every request is in one place.
Placed(s) ==
    /\ s \in State
    /\ ToSet(s.idle) = Workers \ BusyIn(s)
    /\ IsInjective(s.idle) /\ IsInjective(s.queue)
    /\ \A v, w \in BusyIn(s) : s.serves[v] = s.serves[w] => v = w
    /\ ServedIn(s) \cap ToSet(s.queue) = {}

\* execute() finds a place for a request that has none.
LEMMA ExecutePlaces ==
    ASSUME NEW s, Placed(s), NEW r \in Requests, r \notin HeldIn(s)
    PROVE  /\ Placed(ExecuteIn(s, r))
           /\ HeldIn(ExecuteIn(s, r)) = HeldIn(s) \cup {r}
           /\ s.idle = <<>> => /\ ServedIn(ExecuteIn(s, r)) = ServedIn(s)
                              /\ ToSet(ExecuteIn(s, r).queue) = ToSet(s.queue) \cup {r}
           /\ s.idle # <<>> => /\ ServedIn(ExecuteIn(s, r)) = ServedIn(s) \cup {r}
                              /\ ToSet(ExecuteIn(s, r).queue) = ToSet(s.queue)
<1> DEFINE t == ExecuteIn(s, r)
<1>0. s.idle \in Seq(Workers) /\ s.queue \in Seq(Requests)
      /\ s.serves \in [Workers -> Requests \cup {NoRequest}]
  BY DEF Placed, State
<1>1. CASE s.idle = <<>>
  <2>1. t = [s EXCEPT !.queue = Append(@, r)]
    BY <1>1 DEF ExecuteIn
  <2>2. t \in State /\ t.idle = s.idle /\ t.serves = s.serves /\ t.queue = Append(s.queue, r)
    <3>1. Append(s.queue, r) \in Seq(Requests)
      BY <1>0
    <3>2. QED
      BY <1>0, <2>1, <3>1 DEF Placed, State
  <2>3. IsInjective(t.queue) /\ ToSet(t.queue) = ToSet(s.queue) \cup {r}
    BY <1>0, <2>2, AppendPlaces DEF Placed, HeldIn
  <2> HIDE DEF t
  <2>4. BusyIn(t) = BusyIn(s) /\ ServedIn(t) = ServedIn(s)
    BY <2>2 DEF BusyIn, ServedIn
  <2>5. QED
    BY <1>1, <2>2, <2>3, <2>4 DEF Placed, HeldIn, t
<1>2. CASE s.idle # <<>>
  <2> DEFINE w == Head(s.idle)
  <2>1. t = [s EXCEPT !.idle = Tail(@), !.serves[w] = r]
    BY <1>2 DEF ExecuteIn
  <2>2. IsInjective(Tail(s.idle)) /\ w \in ToSet(s.idle)
        /\ ToSet(Tail(s.idle)) = ToSet(s.idle) \ {w}
    BY <1>0, <1>2, TailPlaces DEF Placed
  <2>3. w \in Workers /\ Tail(s.idle) \in Seq(Workers)
    BY <1>0, <1>2
  <2> HIDE DEF w, t
  <2>4. t \in State /\ t.idle = Tail(s.idle) /\ t.queue = s.queue
        /\ t.serves = [s.serves EXCEPT ![w] = r]
    <3>1. [s.serves EXCEPT ![w] = r] \in [Workers -> Requests \cup {NoRequest}]
      BY <1>0
    <3>2. QED
      BY <1>0, <2>1, <2>3, <3>1 DEF Placed, State
  <2>5. w \notin BusyIn(s)
    BY <2>2 DEF Placed
  <2>6. BusyIn(t) = BusyIn(s) \cup {w}
    BY <1>0, <2>3, <2>4, NoRequestAssumption DEF BusyIn
  <2>7. t.serves[w] = r /\ \A v \in BusyIn(s) : t.serves[v] = s.serves[v]
    BY <1>0, <2>3, <2>4, <2>5 DEF BusyIn
  <2>8. ServedIn(t) = ServedIn(s) \cup {r}
    BY <2>6, <2>7 DEF ServedIn
  <2>9. \A v \in BusyIn(s) : s.serves[v] # r
    BY DEF HeldIn, ServedIn
  <2>10. \A u, v \in BusyIn(t) : t.serves[u] = t.serves[v] => u = v
    BY <2>6, <2>7, <2>9 DEF Placed
  <2>11. Placed(t)
    BY <2>2, <2>4, <2>6, <2>8, <2>10 DEF Placed, HeldIn
  <2>12. QED
    BY <1>2, <2>4, <2>8, <2>11 DEF HeldIn, t
<1>3. QED
  BY <1>1, <1>2

\* Of a request that waits: it is served now.
LetsIn(s, t, q) ==
    ServedIn(t) = ServedIn(s) \cup {q} /\ ToSet(t.queue) = ToSet(s.queue) \ {q}

\* Running the head of the queue moves one request at most.
LEMMA RunNextPlaces ==
    ASSUME NEW s, Placed(s)
    PROVE  /\ Placed(RunNext(s)) /\ HeldIn(RunNext(s)) = HeldIn(s)
           /\ s.queue = <<>> \/ s.idle = <<>> =>
                 /\ ServedIn(RunNext(s)) = ServedIn(s)
                 /\ ToSet(RunNext(s).queue) = ToSet(s.queue)
           /\ s.queue # <<>> /\ s.idle # <<>> =>
                 \E q \in ToSet(s.queue) : LetsIn(s, RunNext(s), q)
<1>1. CASE s.queue = <<>>
  BY <1>1 DEF RunNext
<1>2. CASE s.queue # <<>>
  <2> DEFINE t == [s EXCEPT !.queue = Tail(@)]
             r == Head(s.queue)
  <2>1. RunNext(s) = ExecuteIn(t, r)
    BY <1>2 DEF RunNext
  <2>2. s.queue \in Seq(Requests) /\ r \in Requests /\ Tail(s.queue) \in Seq(Requests)
    BY <1>2 DEF Placed, State
  <2>3. IsInjective(Tail(s.queue)) /\ r \in ToSet(s.queue)
        /\ ToSet(Tail(s.queue)) = ToSet(s.queue) \ {r}
    BY <1>2, <2>2, TailPlaces DEF Placed
  <2>4. t \in State /\ t.idle = s.idle /\ t.serves = s.serves /\ t.queue = Tail(s.queue)
    BY <2>2 DEF Placed, State
  <2> HIDE DEF t, r
  <2>5. BusyIn(t) = BusyIn(s) /\ ServedIn(t) = ServedIn(s)
    BY <2>4 DEF BusyIn, ServedIn
  <2>6. Placed(t) /\ r \notin HeldIn(t) /\ HeldIn(t) \cup {r} = HeldIn(s)
    BY <2>3, <2>4, <2>5 DEF Placed, HeldIn
  <2>7. /\ Placed(RunNext(s)) /\ HeldIn(RunNext(s)) = HeldIn(s)
        /\ s.idle = <<>> => /\ ServedIn(RunNext(s)) = ServedIn(t)
                           /\ ToSet(RunNext(s).queue) = ToSet(t.queue) \cup {r}
        /\ s.idle # <<>> => /\ ServedIn(RunNext(s)) = ServedIn(t) \cup {r}
                           /\ ToSet(RunNext(s).queue) = ToSet(t.queue)
    <3> DEFINE u == ExecuteIn(t, r)
    <3>1. /\ Placed(u) /\ HeldIn(u) = HeldIn(t) \cup {r}
          /\ t.idle = <<>> => ServedIn(u) = ServedIn(t) /\ ToSet(u.queue) = ToSet(t.queue) \cup {r}
          /\ t.idle # <<>> => ServedIn(u) = ServedIn(t) \cup {r} /\ ToSet(u.queue) = ToSet(t.queue)
      BY <2>2, <2>6, ExecutePlaces
    <3>2. RunNext(s) = u
      BY <2>1
    <3> HIDE DEF u
    <3>3. QED
      BY <2>4, <2>6, <3>1, <3>2
  <2>8. ToSet(t.queue) = ToSet(s.queue) \ {r} /\ r \in ToSet(s.queue)
    BY <2>3, <2>4
  <2>9. CASE s.idle = <<>>
    BY <1>2, <2>5, <2>7, <2>8, <2>9
  <2>10. CASE s.idle # <<>>
    BY <1>2, <2>5, <2>7, <2>8, <2>10 DEF LetsIn
  <2>11. QED
    BY <2>9, <2>10
<1>3. QED
  BY <1>1, <1>2

\* An answer takes one request away, that of the worker, and frees the worker.
LEMMA FreePlaces ==
    ASSUME NEW s, Placed(s), NEW w \in BusyIn(s)
    PROVE  /\ Placed(Free(s, w)) /\ HeldIn(Free(s, w)) = HeldIn(s) \ {s.serves[w]}
           /\ s.queue = <<>> => /\ ServedIn(Free(s, w)) = ServedIn(s) \ {s.serves[w]}
                               /\ ToSet(Free(s, w).queue) = ToSet(s.queue)
           /\ s.queue # <<>> => \E q \in ToSet(s.queue) :
                 /\ ServedIn(Free(s, w)) = (ServedIn(s) \ {s.serves[w]}) \cup {q}
                 /\ ToSet(Free(s, w).queue) = ToSet(s.queue) \ {q}
<1> DEFINE t == [s EXCEPT !.idle = Append(@, w), !.serves[w] = NoRequest]
<1>0. s.idle \in Seq(Workers) /\ s.queue \in Seq(Requests)
      /\ s.serves \in [Workers -> Requests \cup {NoRequest}] /\ w \in Workers
  BY DEF Placed, State, BusyIn
<1>1. w \notin ToSet(s.idle)
  BY DEF Placed
<1>2. IsInjective(Append(s.idle, w)) /\ ToSet(Append(s.idle, w)) = ToSet(s.idle) \cup {w}
  BY <1>0, <1>1, AppendPlaces DEF Placed
<1>3. t \in State /\ t.idle = Append(s.idle, w) /\ t.queue = s.queue
      /\ t.serves = [s.serves EXCEPT ![w] = NoRequest]
  <2>1. Append(s.idle, w) \in Seq(Workers)
    BY <1>0
  <2>2. [s.serves EXCEPT ![w] = NoRequest] \in [Workers -> Requests \cup {NoRequest}]
    BY <1>0
  <2>3. QED
    BY <1>0, <2>1, <2>2 DEF Placed, State
<1> HIDE DEF t
<1>4. BusyIn(t) = BusyIn(s) \ {w}
  BY <1>0, <1>3 DEF BusyIn
<1>5. \A v \in BusyIn(t) : t.serves[v] = s.serves[v] /\ s.serves[v] # s.serves[w]
  <2>1. ASSUME NEW v \in BusyIn(t) PROVE v \in BusyIn(s) /\ v # w /\ v \in Workers
    BY <1>4 DEF BusyIn
  <2>2. QED
    BY <1>0, <1>3, <2>1 DEF Placed
<1>6. ServedIn(t) = ServedIn(s) \ {s.serves[w]}
  <2>1. ServedIn(t) = {s.serves[v] : v \in BusyIn(s) \ {w}}
    BY <1>4, <1>5 DEF ServedIn
  <2>2. QED
    BY <1>4, <1>5, <2>1 DEF ServedIn
<1>7. s.serves[w] \in ServedIn(s)
  BY DEF ServedIn
<1>8. Placed(t)
  <2>1. \A u, v \in BusyIn(t) : t.serves[u] = t.serves[v] => u = v
    BY <1>4, <1>5 DEF Placed
  <2>2. Workers \ BusyIn(t) = (Workers \ BusyIn(s)) \cup {w}
    BY <1>0, <1>4
  <2>3. ServedIn(t) \cap ToSet(t.queue) = {} /\ IsInjective(t.queue)
    BY <1>3, <1>6 DEF Placed
  <2>4. QED
    BY <1>2, <1>3, <2>1, <2>2, <2>3 DEF Placed
<1>9. HeldIn(t) = HeldIn(s) \ {s.serves[w]}
  BY <1>3, <1>6, <1>7 DEF HeldIn, Placed
<1>10. t.idle # <<>> /\ t.queue = s.queue
  BY <1>0, <1>3
<1>11. Free(s, w) = RunNext(t)
  BY DEF Free, t
<1>12. QED
  BY <1>6, <1>8, <1>9, <1>10, <1>11, RunNextPlaces DEF LetsIn

\* The constructor's listener takes no worker away from its request.
LEMMA RunNextServes ==
    ASSUME NEW s, Placed(s), NEW w \in BusyIn(s)
    PROVE  w \in BusyIn(RunNext(s)) /\ RunNext(s).serves[w] = s.serves[w]
<1>0. s.idle \in Seq(Workers) /\ s.serves \in [Workers -> Requests \cup {NoRequest}]
      /\ w \in Workers
  BY DEF Placed, State, BusyIn
<1>1. CASE s.queue = <<>> \/ s.idle = <<>>
  <2>1. RunNext(s).serves = s.serves
    BY <1>1 DEF RunNext, ExecuteIn, Placed, State
  <2>2. QED
    BY <2>1 DEF BusyIn
<1>2. CASE s.queue # <<>> /\ s.idle # <<>>
  <2> DEFINE v == Head(s.idle)
             r == Head(s.queue)
  <2>1. v \in ToSet(s.idle)
    BY <1>0, <1>2, TailPlaces DEF Placed
  <2>2. RunNext(s).serves = [s.serves EXCEPT ![v] = r]
    BY <1>2 DEF RunNext, ExecuteIn, Placed, State
  <2> HIDE DEF v, r
  <2>3. v # w
    BY <2>1 DEF Placed
  <2>4. RunNext(s).serves[w] = s.serves[w]
    BY <1>0, <2>2, <2>3
  <2>5. QED
    BY <1>0, <2>4 DEF BusyIn
<1>3. QED
  BY <1>1, <1>2

PlacedInv == Placed(Now) /\ answered \cap HeldIn(Now) = {}

LEMMA PlacedAtFirst == Init => PlacedInv
<1> SUFFICES ASSUME Init PROVE PlacedInv
  OBVIOUS
<1> DEFINE n == Cardinality(Workers)
<1>1. n \in Nat /\ IsFiniteSet(1 .. n) /\ Cardinality(1 .. n) = n
  <2>1. n \in Nat
    BY WorkersAssumption, FS_CardinalityType
  <2>2. QED
    BY <2>1, FS_Interval
<1> HIDE DEF n
<1>2. idle \in [1 .. n -> Workers] /\ ToSet(idle) = Workers
  BY DEF Init, n
<1>3. DOMAIN idle = 1 .. n /\ \A w \in Workers : \E i \in 1 .. n : idle[i] = w
  BY <1>2 DEF ToSet
<1>4. IsInjective(idle)
  <2>1. idle \in Surjection(1 .. n, Workers)
    BY <1>2, <1>3 DEF Surjection
  <2>2. idle \in Injection(1 .. n, Workers)
    BY <1>1, <2>1, FS_Surjection DEF n
  <2>3. QED
    BY <2>2 DEF Injection
<1>5. queue = <<>> /\ serves = [w \in Workers |-> NoRequest] /\ answered = {}
  BY DEF Init
<1>6. Now.idle = idle /\ Now.queue = <<>> /\ Now.serves = serves
  BY <1>5 DEF Now
<1>7. Now \in State
  BY <1>1, <1>2, <1>5 DEF Now, State
<1>8. BusyIn(Now) = {} /\ ServedIn(Now) = {} /\ ToSet(<<>>) = {} /\ IsInjective(<<>>)
  BY <1>5, <1>6 DEF BusyIn, ServedIn, ToSet, IsInjective
<1>9. QED
  BY <1>2, <1>4, <1>5, <1>6, <1>7, <1>8 DEF PlacedInv, Placed

LEMMA PlacedKept == PlacedInv /\ [Next]_vars => PlacedInv'
<1> SUFFICES ASSUME PlacedInv, [Next]_vars PROVE PlacedInv'
  OBVIOUS
<1>1. ASSUME NEW s, Placed(s), Become(s) PROVE Now' = s
  <2>1. s = [idle |-> s.idle, queue |-> s.queue, serves |-> s.serves]
    BY <1>1 DEF Placed, State
  <2>2. QED
    BY <1>1, <2>1 DEF Become, Now
<1>2. Now.idle = idle /\ Now.queue = queue /\ Now.serves = serves
  BY DEF Now
<1>3. BusyIn(Now) = Busy /\ ServedIn(Now) = Served /\ HeldIn(Now) = Served \cup Queued
  BY <1>2 DEF BusyIn, ServedIn, HeldIn, Busy, Served, Queued
<1>4. ASSUME Placed(Now'), answered' \cap HeldIn(Now') = {} PROVE PlacedInv'
  BY <1>4 DEF PlacedInv, Placed, HeldIn, ServedIn, BusyIn, State
<1>5. ASSUME NEW r \in Requests, Execute(r) PROVE PlacedInv'
  <2>1. r \notin HeldIn(Now) /\ r \notin answered
    BY <1>3, <1>5 DEF Execute
  <2>2. Placed(ExecuteIn(Now, r)) /\ HeldIn(ExecuteIn(Now, r)) = HeldIn(Now) \cup {r}
    BY <2>1, ExecutePlaces DEF PlacedInv
  <2>3. Now' = ExecuteIn(Now, r)
    BY <1>1, <1>5, <2>2 DEF Execute
  <2>4. answered' = answered
    BY <1>5 DEF Execute
  <2>5. QED
    BY <1>4, <2>1, <2>2, <2>3, <2>4 DEF PlacedInv
<1>6. ASSUME NEW w \in Workers, Message(w) PROVE PlacedInv'
  <2> DEFINE s == RunNext(Now)
  <2>1. w \in BusyIn(Now)
    BY <1>2, <1>6 DEF BusyIn, Message
  <2>2. Placed(s) /\ HeldIn(s) = HeldIn(Now)
    BY RunNextPlaces DEF PlacedInv
  <2>3. w \in BusyIn(s) /\ s.serves[w] = serves[w]
    BY <1>2, <2>1, RunNextServes DEF PlacedInv
  <2> HIDE DEF s
  <2>4. Placed(Free(s, w)) /\ HeldIn(Free(s, w)) = HeldIn(s) \ {serves[w]}
    BY <2>2, <2>3, FreePlaces
  <2>5. Now' = Free(s, w)
    BY <1>1, <1>6, <2>4 DEF Message, s
  <2>6. answered' = answered \cup {serves[w]}
    BY <1>6 DEF Message
  <2>7. QED
    BY <1>4, <2>2, <2>4, <2>5, <2>6 DEF PlacedInv
<1>7. ASSUME UNCHANGED <<idle, queue, serves, answered>> PROVE PlacedInv'
  <2>1. Now' = Now
    BY <1>7 DEF Now
  <2>2. QED
    BY <1>4, <1>7, <2>1 DEF PlacedInv
<1>8. QED
  BY <1>5, <1>6, <1>7 DEF Next, Throw, vars

\* However many workers and requests there are: the two listeners lose no worker and no
\* request, hand no worker to two requests, and run no request twice.
THEOREM EachInOnePlace == Spec => []OnePlaceEach
<1>1. PlacedInv => OnePlaceEach
  <2> SUFFICES ASSUME PlacedInv PROVE OnePlaceEach
    OBVIOUS
  <2>1. Now.idle = idle /\ Now.queue = queue /\ Now.serves = serves
    BY DEF Now
  <2>2. BusyIn(Now) = Busy /\ ServedIn(Now) = Served /\ HeldIn(Now) = Served \cup Queued
        /\ ToSet(Now.queue) = Queued
    BY <2>1 DEF BusyIn, ServedIn, HeldIn, Busy, Served, Queued
  <2>3. QED
    BY <2>1, <2>2 DEF PlacedInv, Placed, OnePlaceEach
<1>2. QED
  BY PlacedAtFirst, PlacedKept, <1>1, PTL DEF Spec

-------------------------------------------------------------------------------
(* The pool is a station with a server for each worker *)

\* Nobody is in a queue exactly when it is empty.
LEMMA EmptyPlaces ==
    ASSUME NEW S, NEW q \in Seq(S)
    PROVE  ToSet(q) = {} <=> q = <<>>
<1>1. CASE q = <<>>
  BY <1>1 DEF ToSet
<1>2. CASE q # <<>>
  <2>1. 1 \in DOMAIN q
    BY <1>2
  <2>2. q[1] \in ToSet(q)
    BY <2>1 DEF ToSet
  <2>3. QED
    BY <1>2, <2>2
<1>3. QED
  BY <1>1, <1>2

\* Fewer requests are served than there are workers exactly when a worker is idle.
LEMMA RoomIsAnIdleWorker ==
    ASSUME NEW s, Placed(s)
    PROVE  Cardinality(ServedIn(s)) < Cardinality(Workers) <=> s.idle # <<>>
<1> DEFINE B == BusyIn(s)
           f == [w \in B |-> s.serves[w]]
<1>1. B \subseteq Workers
  BY DEF BusyIn
<1>2. IsFiniteSet(B) /\ Cardinality(B) <= Cardinality(Workers)
      /\ Cardinality(B) \in Nat /\ Cardinality(Workers) \in Nat
      /\ (Cardinality(B) = Cardinality(Workers) => B = Workers)
  BY <1>1, WorkersAssumption, FS_Subset, FS_CardinalityType
<1>3. Cardinality(ServedIn(s)) = Cardinality(B)
  <2>1. f \in [B -> ServedIn(s)] /\ \A w \in B : f[w] = s.serves[w]
    BY DEF ServedIn
  <2>2. f \in Surjection(B, ServedIn(s))
    BY <2>1 DEF Surjection, ServedIn
  <2>3. f \in Injection(B, ServedIn(s))
    BY <2>1 DEF Injection, IsInjective, Placed
  <2>4. QED
    BY <1>2, <2>2, <2>3, FS_Surjection
<1>4. s.idle = <<>> <=> B = Workers
  <2>1. ToSet(s.idle) = Workers \ B /\ s.idle \in Seq(Workers)
    BY DEF Placed, State
  <2>2. ToSet(s.idle) = {} <=> s.idle = <<>>
    BY <2>1, EmptyPlaces
  <2>3. QED
    BY <1>1, <2>1, <2>2
<1> HIDE DEF B
<1>5. QED
  BY <1>2, <1>3, <1>4

\* What holds between two messages.
LEMMA StationInvariant == Spec => [](PoolInv /\ PlacedInv)
<1>1. QED
  BY PoolInvariant, PlacedAtFirst, PlacedKept, PTL DEF Spec

\* A step of the pool is a step of the station.
LEMMA StationStep ==
    ASSUME PoolInv, PlacedInv, PlacedInv', [Next]_vars
    PROVE  [Station!Next]_<<Queued, Served, answered, up>>
<1>1. /\ Now.idle = idle /\ Now.queue = queue /\ Now.serves = serves
      /\ ServedIn(Now) = Served /\ ToSet(Now.queue) = Queued /\ BusyIn(Now) = Busy
      /\ HeldIn(Now) = Served \cup Queued
  BY DEF Now, ServedIn, BusyIn, HeldIn, Served, Busy, Queued
<1>2. Placed(Now) /\ (queue # <<>> => idle = <<>>)
  BY <1>1 DEF PlacedInv, PoolInv, Conserving
<1>3. ASSUME NEW s, Placed(s), Become(s)
      PROVE  Served' = ServedIn(s) /\ Queued' = ToSet(s.queue)
  BY <1>3 DEF Become, Served, Busy, Queued, ServedIn, BusyIn
<1>4. ASSUME NEW r \in Requests, Execute(r) PROVE Station!Accept(r)
  <2>1. r \notin Queued \cup Served \cup answered /\ up
    BY <1>4 DEF Execute
  <2> DEFINE s == ExecuteIn(Now, r)
  <2>2. /\ Placed(s)
        /\ idle = <<>> => ServedIn(s) = Served /\ ToSet(s.queue) = Queued \cup {r}
        /\ idle # <<>> => ServedIn(s) = Served \cup {r} /\ ToSet(s.queue) = Queued
    BY <1>1, <1>2, <2>1, ExecutePlaces
  <2>3. Served' = ServedIn(s) /\ Queued' = ToSet(s.queue)
    BY <1>3, <1>4, <2>2 DEF Execute
  <2>4. Station!HasRoom <=> idle # <<>>
    BY <1>1, <1>2, RoomIsAnIdleWorker DEF Station!HasRoom, Station!Cardinality, Cardinality
  <2>5. QED
    BY <1>4, <2>1, <2>2, <2>3, <2>4 DEF Execute, Station!Accept
<1>5. ASSUME NEW w \in Workers, Message(w)
      PROVE  serves[w] \in Requests /\ Station!Answer(serves[w])
  <2> DEFINE s == RunNext(Now)
             t == Free(s, w)
  <2>1. w \in BusyIn(Now) /\ serves[w] \in Served /\ serves[w] \in Requests /\ up
    BY <1>1, <1>2, <1>5 DEF Message, Busy, Served, BusyIn, Placed, State
  <2>2. Placed(s) /\ ServedIn(s) = Served /\ ToSet(s.queue) = Queued
    BY <1>1, <1>2, RunNextPlaces
  <2>3. w \in BusyIn(s) /\ s.serves[w] = serves[w]
    BY <1>1, <1>2, <2>1, RunNextServes
  <2>4. s.queue = <<>> <=> Queued = {}
    <3>1. s.queue \in Seq(Requests)
      BY <2>2 DEF Placed, State
    <3>2. QED
      BY <2>2, <3>1, EmptyPlaces
  <2> HIDE DEF s
  <2>5. /\ Placed(t)
        /\ Queued = {} => ServedIn(t) = Served \ {serves[w]} /\ ToSet(t.queue) = Queued
        /\ Queued # {} => \E q \in Queued :
              ServedIn(t) = (Served \ {serves[w]}) \cup {q} /\ ToSet(t.queue) = Queued \ {q}
    BY <2>2, <2>3, <2>4, FreePlaces
  <2>6. Served' = ServedIn(t) /\ Queued' = ToSet(t.queue)
    BY <1>3, <1>5, <2>5 DEF Message, s
  <2>7. answered' = answered \cup {serves[w]} /\ up' = up
    BY <1>5 DEF Message
  <2> HIDE DEF t
  <2>8. QED
    BY <2>1, <2>5, <2>6, <2>7 DEF Station!Answer
<1>6. ASSUME NEW w \in Workers, Throw(w) PROVE Station!Stop
  BY <1>6 DEF Throw, Station!Stop, Queued, Served, Busy
<1>7. ASSUME UNCHANGED vars PROVE UNCHANGED <<Queued, Served, answered, up>>
  BY <1>7 DEF vars, Queued, Served, Busy
<1>8. QED
  BY <1>4, <1>5, <1>6, <1>7 DEF Next, Station!Next

\* Whatever closures the two listeners move back, the pool implements the station: no
\* request is lost, none waits while there is room, and each answer lets one in.
THEOREM PoolRefinement == Spec => ImplementsRequestPool
<1>1. Init => Station!Init
  BY NoRequestAssumption DEF Init, Station!Init, Queued, Served, Busy, ToSet
<1>2. QED
  BY StationInvariant, StationStep, <1>1, PTL DEF Spec, ImplementsRequestPool, Station!Spec

===============================================================================
