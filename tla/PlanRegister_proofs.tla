------------------------- MODULE PlanRegister_proofs -------------------------
(***************************************************************************)
(* Coordinator implements PlanRegister, for any tasks, devices, filters    *)
(* and bounds; on the way, what the queue of the lock, the plans and the   *)
(* results of an instance have to do with each other.                      *)
(***************************************************************************)
EXTENDS Coordinator_proofs

USE TasksAssumption, StatusesAssumption, BoundsAssumption, DevicesAssumption

-----------------------------------------------------------------------------
(***************************************************************************)
(* The queue of the lock                                                   *)
(***************************************************************************)

\* What each element of a sequence is after the removal of one.
LEMMA RemoveAtElements ==
    ASSUME NEW S, NEW s \in Seq(S), NEW i \in DOMAIN s
    PROVE  /\ Len(RemoveAt(s, i)) = Len(s) - 1
           /\ DOMAIN RemoveAt(s, i) = 1..(Len(s) - 1)
           /\ \A j \in 1..(Len(s) - 1) :
                  RemoveAt(s, i)[j] = IF j < i THEN s[j] ELSE s[j + 1]
<1> DEFINE a == SubSeq(s, 1, i - 1)
           b == SubSeq(s, i + 1, Len(s))
<1>1. /\ Len(s) \in Nat /\ i \in 1..Len(s)
      /\ a \in Seq(S) /\ b \in Seq(S)
  OBVIOUS
<1>2. Len(a) = i - 1 /\ \A j \in 1..(i - 1) : a[j] = s[j]
  BY <1>1
<1>3. Len(b) = Len(s) - i /\ \A j \in 1..(Len(s) - i) : b[j] = s[i + j]
  BY <1>1
<1> HIDE DEF a, b
<1>4. /\ a \o b \in Seq(S) /\ Len(a \o b) = Len(a) + Len(b)
      /\ \A j \in 1..(Len(a) + Len(b)) : (a \o b)[j] = IF j <= Len(a) THEN a[j] ELSE b[j - Len(a)]
  BY <1>1
<1>5. Len(a) + Len(b) = Len(s) - 1
  BY <1>1, <1>2, <1>3
<1>6. ASSUME NEW j \in 1..(Len(s) - 1)
      PROVE  (a \o b)[j] = IF j < i THEN s[j] ELSE s[j + 1]
  <2>1. CASE j < i
    <3>1. j <= Len(a) /\ j \in 1..(i - 1)
      BY <1>1, <1>2, <2>1
    <3> QED
      BY <1>2, <1>4, <1>5, <2>1, <3>1
  <2>2. CASE ~(j < i)
    <3>1. ~(j <= Len(a)) /\ j - Len(a) \in 1..(Len(s) - i) /\ i + (j - Len(a)) = j + 1
      BY <1>1, <1>2, <2>2
    <3> QED
      BY <1>3, <1>4, <1>5, <2>2, <3>1
  <2> QED
    BY <2>1, <2>2
<1>7. RemoveAt(s, i) = a \o b
  BY DEF RemoveAt, a, b
<1> QED
  BY <1>4, <1>5, <1>6, <1>7

LEMMA CallQueue ==
    ASSUME TypeOK, QueueIsWaiting, NEW t \in Tasks, NEW c, NEW kind, NEW dry, NEW filter,
           Call(t, c, kind, dry, filter)
    PROVE  QueueIsWaiting'
<1>1. /\ waiters' = Append(waiters, t) /\ waiters \in Seq(Tasks)
      /\ \A u \in Tasks \ {t} : pc'[u] = pc[u]
      /\ pc'[t] = "waiting" /\ pc[t] = "idle"
  BY DEF TypeOK, Call
<1>2. /\ DOMAIN waiters' = 1..(Len(waiters) + 1) /\ DOMAIN waiters = 1..Len(waiters)
      /\ \A i \in 1..Len(waiters) : waiters'[i] = waiters[i]
      /\ waiters'[Len(waiters) + 1] = t /\ Len(waiters) \in Nat
  BY <1>1
<1>3. \A i \in 1..Len(waiters) : waiters[i] # t
  BY <1>1, <1>2 DEF QueueIsWaiting
<1>4. \A i \in 1..(Len(waiters) + 1) : i \in 1..Len(waiters) \/ i = Len(waiters) + 1
  BY <1>2
<1>5. 1..Len(waiters) \subseteq 1..(Len(waiters) + 1) /\ Len(waiters) + 1 \in 1..(Len(waiters) + 1)
  BY <1>2
<1> HIDE DEF QueueIsWaiting
<1>6. ASSUME NEW u \in Tasks
      PROVE  pc'[u] = "waiting" <=> \E i \in DOMAIN waiters' : waiters'[i] = u
  <2>1. CASE u = t
    BY <1>1, <1>2, <1>5, <2>1
  <2>2. CASE u # t
    <3>1. pc'[u] = pc[u] /\ (pc[u] = "waiting" <=> \E i \in DOMAIN waiters : waiters[i] = u)
      BY <1>1, <2>2 DEF QueueIsWaiting
    <3> QED
      BY <1>2, <1>4, <1>5, <2>2, <3>1
  <2> QED
    BY <2>1, <2>2
<1>7. ASSUME NEW i \in DOMAIN waiters', NEW j \in DOMAIN waiters', waiters'[i] = waiters'[j]
      PROVE  i = j
  BY <1>2, <1>3, <1>4, <1>7 DEF QueueIsWaiting
<1> QED
  BY <1>6, <1>7 DEF QueueIsWaiting

\* A task that is not waiting moves on and stays out of the queue.
LEMMA MoveQueue ==
    ASSUME TypeOK, QueueIsWaiting, NEW t \in Tasks, pc[t] # "waiting",
           NEW q, q # "waiting", pc' = [pc EXCEPT ![t] = q], UNCHANGED waiters
    PROVE  QueueIsWaiting'
BY DEF TypeOK, QueueIsWaiting

\* A task leaves the queue, from its head or from its middle.
LEMMA DequeueQueue ==
    ASSUME TypeOK, QueueIsWaiting, NEW t \in Tasks, NEW k \in DOMAIN waiters,
           waiters[k] = t, NEW q, q # "waiting", pc' = [pc EXCEPT ![t] = q],
           DOMAIN waiters' = 1..(Len(waiters) - 1),
           \A j \in 1..(Len(waiters) - 1) :
               waiters'[j] = IF j < k THEN waiters[j] ELSE waiters[j + 1]
    PROVE  QueueIsWaiting'
<1>1. /\ DOMAIN waiters = 1..Len(waiters) /\ Len(waiters) \in Nat /\ k \in 1..Len(waiters)
      /\ \A u \in Tasks \ {t} : pc'[u] = pc[u]
      /\ pc'[t] = q
  BY DEF TypeOK
<1>2. \A i, j \in 1..Len(waiters) : waiters[i] = waiters[j] => i = j
  BY <1>1 DEF QueueIsWaiting
<1>3. \A j \in 1..(Len(waiters) - 1) :
          \E i \in 1..Len(waiters) : i # k /\ waiters'[j] = waiters[i]
  <2> TAKE j \in 1..(Len(waiters) - 1)
  <2>1. CASE j < k
    BY <1>1, <2>1
  <2>2. CASE ~(j < k)
    <3>1. j + 1 \in 1..Len(waiters) /\ j + 1 # k
      BY <1>1, <2>2
    <3> QED
      BY <2>2, <3>1
  <2> QED
    BY <2>1, <2>2
<1>4. \A i \in 1..Len(waiters) : i # k =>
          \E j \in 1..(Len(waiters) - 1) : waiters'[j] = waiters[i]
  <2> TAKE i \in 1..Len(waiters)
  <2> HAVE i # k
  <2>1. CASE i < k
    BY <1>1, <2>1
  <2>2. CASE i > k
    <3>1. i - 1 \in 1..(Len(waiters) - 1) /\ ~(i - 1 < k) /\ (i - 1) + 1 = i
      BY <1>1, <2>2
    <3> QED
      BY <3>1
  <2> QED
    BY <1>1, <2>1, <2>2
<1>5. ASSUME NEW u \in Tasks
      PROVE  pc'[u] = "waiting" <=> \E i \in DOMAIN waiters' : waiters'[i] = u
  <2>1. CASE u = t
    BY <1>1, <1>2, <1>3, <2>1
  <2>2. CASE u # t
    <3>1. pc'[u] = pc[u] /\ (pc[u] = "waiting" <=> \E i \in DOMAIN waiters : waiters[i] = u)
      BY <1>1, <2>2 DEF QueueIsWaiting
    <3>2. ASSUME NEW i \in 1..Len(waiters), waiters[i] = u
          PROVE  \E j \in 1..(Len(waiters) - 1) : waiters'[j] = u
      BY <1>4, <2>2, <3>2
    <3>3. ASSUME NEW j \in 1..(Len(waiters) - 1), waiters'[j] = u
          PROVE  \E i \in 1..Len(waiters) : waiters[i] = u
      BY <1>3, <3>3
    <3> QED
      BY <1>1, <3>1, <3>2, <3>3
  <2> QED
    BY <2>1, <2>2
<1>6. ASSUME NEW i \in 1..(Len(waiters) - 1), NEW j \in 1..(Len(waiters) - 1),
             waiters'[i] = waiters'[j]
      PROVE  i = j
  <2> DEFINE at(m) == IF m < k THEN m ELSE m + 1
  <2>1. at(i) \in 1..Len(waiters) /\ at(j) \in 1..Len(waiters)
    BY <1>1
  <2>2. waiters[at(i)] = waiters[at(j)]
    BY <1>6
  <2>3. at(i) = at(j)
    BY <1>2, <2>1, <2>2
  <2> QED
    BY <1>1, <2>3
<1> QED
  BY <1>5, <1>6 DEF QueueIsWaiting

LEMMA StepQueue ==
    ASSUME TypeOK, QueueIsWaiting, NEW t \in Tasks, Request(t) \/ Step(t)
    PROVE  QueueIsWaiting'
<1>1. CASE Request(t)
  BY <1>1, CallQueue DEF Request
<1>2. CASE Acquire(t)
  <2>1. /\ waiters # <<>> /\ waiters \in Seq(Tasks) /\ waiters[1] = t
        /\ waiters' = Tail(waiters)
    BY <1>2 DEF Acquire, TypeOK
  <2>2. /\ 1 \in DOMAIN waiters /\ DOMAIN waiters' = 1..(Len(waiters) - 1)
        /\ \A j \in 1..(Len(waiters) - 1) : waiters'[j] = waiters[j + 1] /\ ~(j < 1)
    BY <2>1
  <2>3. \E q \in {"idle", "prices"} : pc' = [pc EXCEPT ![t] = q]
    BY <1>2 DEF Acquire, Return, Abort, Leave
  <2>4. "idle" # "waiting" /\ "prices" # "waiting"
    OBVIOUS
  <2> QED
    BY <2>1, <2>2, <2>3, <2>4, DequeueQueue
<1>3. CASE PricesReturn(t) \/ SubmitSolve(t) \/ SolveReturns(t) \/ ActuationDone(t) \/ Raise(t)
  <2>1. pc[t] # "waiting" /\ UNCHANGED waiters
    BY <1>3 DEF PricesReturn, SubmitSolve, SolveReturns, ActuationDone, Raise
  <2>2. \E q \in {"idle", "constructing", "solving", "actuating"} : pc' = [pc EXCEPT ![t] = q]
    BY <1>3 DEF PricesReturn, SubmitSolve, SolveReturns, ActuationDone, Raise, Return, Abort, Leave
  <2>3. \A q \in {"idle", "constructing", "solving", "actuating"} : q # "waiting"
    OBVIOUS
  <2> QED
    BY <2>1, <2>2, <2>3, MoveQueue
<1>4. CASE Timeout(t)
  <2>1. pc' = [pc EXCEPT ![t] = "idle"]
    BY <1>4 DEF Timeout, Abort, Leave
  <2>2. CASE pc[t] = "waiting"
    <3>1. PICK i \in DOMAIN waiters : waiters[i] = t /\ waiters' = RemoveAt(waiters, i)
      BY <1>4, <2>2 DEF Timeout, Dequeue
    <3>2. waiters \in Seq(Tasks)
      BY DEF TypeOK
    <3> QED
      BY <2>1, <3>1, <3>2, RemoveAtElements, DequeueQueue
  <2>3. CASE pc[t] # "waiting"
    BY <1>4, <2>1, <2>3, MoveQueue DEF Timeout
  <2> QED
    BY <2>2, <2>3
<1> QED
  BY <1>1, <1>2, <1>3, <1>4 DEF Step

\* The queue of the lock is exactly the tasks that wait, each once, whoever
\* calls, is cancelled or is woken.
THEOREM QueueKept == Spec => []QueueIsWaiting
<1>1. Init => QueueIsWaiting
  BY DEF Init, QueueIsWaiting
<1>2. ASSUME TypeOK, QueueIsWaiting, [Next]_vars PROVE QueueIsWaiting'
  <2> USE <1>2
  <2>1. ASSUME NEW t \in Tasks, Request(t) \/ Step(t) PROVE QueueIsWaiting'
    BY <2>1, StepQueue
  <2>2. CASE Refresh \/ Setup
    <3>1. \/ \E t \in Tasks, c \in {loaded, loaded'} : Call(t, c, "background", FALSE, {})
          \/ UNCHANGED <<pc, req, waiters>>
      BY <2>2 DEF Refresh, Setup, UpdateData
    <3> QED
      BY <3>1, CallQueue DEF QueueIsWaiting
  <2>3. CASE OrphanEnds \/ Republish \/ Unload \/ ChangeInputs \/ EditDevices \/ UNCHANGED vars
    BY <2>3 DEF OrphanEnds, Republish, Unload, ChangeInputs, EditDevices, vars, QueueIsWaiting
  <2> QED
    BY <2>1, <2>2, <2>3 DEF Next
<1> QED
  BY <1>1, <1>2, TypeCorrect, PTL DEF Spec

-----------------------------------------------------------------------------
(***************************************************************************)
(* The turn of every call                                                  *)
(***************************************************************************)

\* The tasks before t in a queue.
Ahead(q, t) == {u \in Tasks : \E i, j \in DOMAIN q : i < j /\ q[i] = u /\ q[j] = t}

\* What a step of the system does to the open call of task t: it ends, it stays where
\* it is, in the queue behind no other than before, or it comes to its next await.
GoesForward(t) ==
    \/ pc'[t] = "idle"
    \/ /\ pc[t] = "waiting" /\ pc'[t] = "waiting"
       /\ Ahead(waiters', t) \subseteq Ahead(waiters, t)
    \/ pc[t] \in InLock /\ pc'[t] = pc[t]
    \/ <<pc[t], pc'[t]>> \in {<<"waiting", "prices">>, <<"prices", "constructing">>,
                              <<"constructing", "solving">>, <<"solving", "actuating">>}

\* Whoever waits has somebody to wait for: a task in the lock, or the head of the
\* queue that can take it.
SomebodyMoves ==
    (\E t \in Tasks : pc[t] # "idle") =>
        \/ \E t \in Tasks : pc[t] \in InLock
        \/ waiters # <<>> /\ pc[Head(waiters)] = "waiting" /\ LockFree(Head(waiters))

LEMMA AheadOfCall ==
    ASSUME TypeOK, NEW t \in Tasks, NEW u \in Tasks, t # u, waiters' = Append(waiters, u)
    PROVE  Ahead(waiters', t) \subseteq Ahead(waiters, t)
<1>1. /\ DOMAIN waiters' = 1..(Len(waiters) + 1) /\ DOMAIN waiters = 1..Len(waiters)
      /\ \A i \in 1..Len(waiters) : waiters'[i] = waiters[i]
      /\ waiters'[Len(waiters) + 1] = u /\ Len(waiters) \in Nat
  BY DEF TypeOK
<1>2. ASSUME NEW i \in DOMAIN waiters', NEW j \in DOMAIN waiters', i < j, waiters'[j] = t
      PROVE  /\ i \in DOMAIN waiters /\ j \in DOMAIN waiters
             /\ waiters'[i] = waiters[i] /\ waiters'[j] = waiters[j]
  <2>1. j # Len(waiters) + 1
    BY <1>1, <1>2
  <2>2. i \in 1..Len(waiters) /\ j \in 1..Len(waiters)
    BY <1>1, <1>2, <2>1
  <2> QED
    BY <1>1, <2>2
<1> QED
  BY <1>2 DEF Ahead

LEMMA AheadOfRest ==
    ASSUME TypeOK, NEW t \in Tasks, NEW k \in DOMAIN waiters,
           DOMAIN waiters' = 1..(Len(waiters) - 1),
           \A j \in 1..(Len(waiters) - 1) :
               waiters'[j] = IF j < k THEN waiters[j] ELSE waiters[j + 1]
    PROVE  Ahead(waiters', t) \subseteq Ahead(waiters, t)
<1>1. DOMAIN waiters = 1..Len(waiters) /\ Len(waiters) \in Nat /\ k \in 1..Len(waiters)
  BY DEF TypeOK
<1> DEFINE at(m) == IF m < k THEN m ELSE m + 1
<1>2. \A j \in DOMAIN waiters' : at(j) \in DOMAIN waiters /\ waiters'[j] = waiters[at(j)]
  BY <1>1
<1>3. \A i, j \in DOMAIN waiters' : i < j => at(i) < at(j)
  BY <1>1
<1> HIDE DEF at
<1> QED
  BY <1>2, <1>3 DEF Ahead

\* The other tasks, when t goes from where it is to q and the queue is Append, Tail,
\* RemoveAt or as it was.
LEMMA OthersGoForward ==
    ASSUME TypeOK, NEW t \in Tasks, NEW q, pc' = [pc EXCEPT ![t] = q],
           NEW u \in Tasks \ {t}, pc[u] # "idle",
           Ahead(waiters', u) \subseteq Ahead(waiters, u)
    PROVE  GoesForward(u)
<1>1. pc'[u] = pc[u] /\ pc[u] \in Phases
  BY DEF TypeOK
<1> QED
  BY <1>1 DEF GoesForward, Phases, InLock

LEMMA CallGoesForward ==
    ASSUME TypeOK, NEW t \in Tasks, NEW c, NEW kind, NEW dry, NEW filter,
           Call(t, c, kind, dry, filter), NEW u \in Tasks, pc[u] # "idle"
    PROVE  GoesForward(u)
<1>1. u # t /\ waiters' = Append(waiters, t) /\ pc' = [pc EXCEPT ![t] = "waiting"]
  BY DEF Call
<1> QED
  BY <1>1, AheadOfCall, OthersGoForward

LEMMA StepGoesForward ==
    ASSUME TypeOK, QueueIsWaiting, NEW t \in Tasks, Step(t), NEW u \in Tasks, pc[u] # "idle"
    PROVE  GoesForward(u)
<1>1. pc \in [Tasks -> Phases] /\ waiters \in Seq(Tasks)
  BY DEF TypeOK
<1>2. CASE Acquire(t)
  <2>1. waiters # <<>> /\ waiters[1] = t /\ waiters' = Tail(waiters)
    BY <1>1, <1>2 DEF Acquire
  <2>2. /\ 1 \in DOMAIN waiters /\ DOMAIN waiters' = 1..(Len(waiters) - 1)
        /\ \A j \in 1..(Len(waiters) - 1) : waiters'[j] = waiters[j + 1] /\ ~(j < 1)
    BY <1>1, <2>1
  <2>3. pc[t] = "waiting"
    BY <2>1, <2>2 DEF QueueIsWaiting
  <2>4. Ahead(waiters', u) \subseteq Ahead(waiters, u)
    BY <2>2, AheadOfRest
  <2>5. PICK q \in {"idle", "prices"} : pc' = [pc EXCEPT ![t] = q]
    BY <1>2 DEF Acquire, Return, Abort, Leave
  <2>6. CASE u = t
    BY <1>1, <2>3, <2>5, <2>6 DEF GoesForward
  <2> QED
    BY <2>4, <2>5, <2>6, OthersGoForward
<1>3. CASE PricesReturn(t) \/ SubmitSolve(t) \/ SolveReturns(t) \/ ActuationDone(t) \/ Raise(t)
  <2>1. waiters' = waiters
    BY <1>3 DEF PricesReturn, SubmitSolve, SolveReturns, ActuationDone, Raise
  <2>2. PICK q : /\ pc' = [pc EXCEPT ![t] = q]
                 /\ \/ q = "idle"
                    \/ <<pc[t], q>> \in {<<"prices", "constructing">>, <<"constructing", "solving">>,
                                         <<"solving", "actuating">>}
    BY <1>3 DEF PricesReturn, SubmitSolve, SolveReturns, ActuationDone, Raise, Return, Abort, Leave
  <2>3. CASE u = t
    BY <1>1, <2>2, <2>3 DEF GoesForward
  <2> QED
    BY <2>1, <2>2, <2>3, OthersGoForward
<1>4. CASE Timeout(t)
  <2>1. pc' = [pc EXCEPT ![t] = "idle"]
    BY <1>4 DEF Timeout, Abort, Leave
  <2>2. Ahead(waiters', u) \subseteq Ahead(waiters, u)
    <3>1. CASE pc[t] = "waiting"
      <4>1. PICK i \in DOMAIN waiters : waiters' = RemoveAt(waiters, i)
        BY <1>4, <3>1 DEF Timeout, Dequeue
      <4> QED
        BY <1>1, <4>1, RemoveAtElements, AheadOfRest
    <3>2. CASE pc[t] # "waiting"
      BY <1>4, <3>2 DEF Timeout
    <3> QED
      BY <3>1, <3>2
  <2>3. CASE u = t
    BY <1>1, <2>1, <2>3 DEF GoesForward
  <2> QED
    BY <2>1, <2>2, <2>3, OthersGoForward
<1> QED
  BY <1>2, <1>3, <1>4 DEF Step

\* Nobody is overtaken, at the lock or on the way to it, and no call goes back to an
\* await it has left: with any number of tasks that call, fail, are cancelled and
\* reload, an open call only comes nearer to its end.
THEOREM CallsGoForward ==
    Spec => [][\A t \in Tasks : pc[t] # "idle" => GoesForward(t)]_vars
<1>1. ASSUME TypeOK, QueueIsWaiting, [Next]_vars
      PROVE  [\A t \in Tasks : pc[t] # "idle" => GoesForward(t)]_vars
  <2> USE <1>1
  <2> SUFFICES ASSUME Next, NEW u \in Tasks, pc[u] # "idle" PROVE GoesForward(u)
    OBVIOUS
  <2>1. ASSUME NEW t \in Tasks, Request(t) PROVE GoesForward(u)
    BY <2>1, CallGoesForward DEF Request
  <2>2. ASSUME NEW t \in Tasks, Step(t) PROVE GoesForward(u)
    BY <2>2, StepGoesForward
  <2>3. CASE UNCHANGED <<pc, waiters>>
    BY <2>3 DEF GoesForward, TypeOK, Phases, InLock
  <2>4. CASE Refresh \/ Setup
    <3>1. \/ \E t \in Tasks, c \in {loaded, loaded'} : Call(t, c, "background", FALSE, {})
          \/ UNCHANGED <<pc, waiters>>
      BY <2>4 DEF Refresh, Setup, UpdateData
    <3> QED
      BY <2>3, <3>1, CallGoesForward
  <2> QED
    BY <2>1, <2>2, <2>3, <2>4 DEF Next, OrphanEnds, Republish, Unload, ChangeInputs, EditDevices
<1> QED
  BY <1>1, TypeCorrect, QueueKept, PTL DEF Spec

\* The lock is never left behind: while any call is open somebody is in the lock, or it
\* is free and the head of the queue can take it.
THEOREM NobodyIsStuck == Spec => []SomebodyMoves
<1>1. TypeOK /\ Serialised /\ QueueIsWaiting => SomebodyMoves
  <2> SUFFICES ASSUME TypeOK, Serialised, QueueIsWaiting, NEW t \in Tasks, pc[t] # "idle",
                      \A u \in Tasks : pc[u] \notin InLock
               PROVE  waiters # <<>> /\ pc[Head(waiters)] = "waiting" /\ LockFree(Head(waiters))
    BY DEF SomebodyMoves
  <2>1. pc[t] = "waiting"
    BY DEF TypeOK, Phases, InLock
  <2>2. waiters \in Seq(Tasks) /\ waiters # <<>>
    BY <2>1 DEF TypeOK, QueueIsWaiting
  <2>3. 1 \in DOMAIN waiters /\ Head(waiters) = waiters[1] /\ waiters[1] \in Tasks
    BY <2>2
  <2>4. pc[Head(waiters)] = "waiting"
    BY <2>3 DEF QueueIsWaiting
  <2>5. holder = NoTask
    BY DEF TypeOK, Serialised
  <2> QED
    BY <2>2, <2>4, <2>5 DEF LockFree
<1> QED
  BY <1>1, TypeCorrect, MutualExclusion, QueueKept, PTL

-----------------------------------------------------------------------------
(***************************************************************************)
(* Results and plans                                                       *)
(***************************************************************************)

\* What is actuated and what the next solve starts from, together.
PlansFollow == ActuatesPlanInForce /\ BaselineFollowsResult

\* A step of task t that stores nothing and does not start an actuation.
LEMMA OutsidePlans ==
    ASSUME TypeOK, PlansFollow, NEW t \in Tasks, pc'[t] # "actuating",
           \A u \in Tasks \ {t} : pc'[u] = pc[u] /\ req'[u] = req[u] /\ read'[u] = read[u],
           UNCHANGED <<last_result, previous_plans>>
    PROVE  PlansFollow'
BY DEF PlansFollow, ActuatesPlanInForce, BaselineFollowsResult

LEMMA LeavePlans ==
    ASSUME TypeOK, PlansFollow, NEW t \in Tasks, Leave(t),
           UNCHANGED <<last_result, previous_plans>>
    PROVE  PlansFollow'
<1>1. /\ \A u \in Tasks \ {t} : req'[u] = req[u] /\ read'[u] = read[u] /\ pc'[u] = pc[u]
      /\ pc'[t] = "idle"
  BY DEF TypeOK, Leave
<1> QED
  BY <1>1, OutsidePlans

LEMMA CallPlans ==
    ASSUME TypeOK, PlansFollow, NEW t \in Tasks, NEW c, NEW kind, NEW dry, NEW filter,
           Call(t, c, kind, dry, filter), UNCHANGED <<read, last_result, previous_plans>>
    PROVE  PlansFollow'
<1>1. /\ \A u \in Tasks \ {t} : req'[u] = req[u] /\ pc'[u] = pc[u]
      /\ pc'[t] = "waiting"
  BY DEF TypeOK, Call
<1> QED
  BY <1>1, OutsidePlans

\* The baseline is never newer than the result, usable or not.
LEMMA BaselineNotNewer ==
    ASSUME TypeOK, BaselineFollowsResult, NEW c \in Instances
    PROVE  previous_plans[c].at <= last_result[c].at
<1>1. last_result[c].at \in Nat
  BY DEF TypeOK, Results, Versions
<1>2. CASE last_result[c].status \in Usable
  <2>1. previous_plans[c] = PlansOf(last_result[c])
    BY <1>2 DEF BaselineFollowsResult
  <2>2. previous_plans[c].at = last_result[c].at
    BY <2>1 DEF PlansOf
  <2> QED
    BY <1>1, <2>2
<1>3. CASE last_result[c].status \notin Usable
  BY <1>3 DEF BaselineFollowsResult
<1> QED
  BY <1>2, <1>3

LEMMA SolveReturnsPlans ==
    ASSUME TypeOK, Serialised, InTime, PlansFollow, NEW t \in Tasks, SolveReturns(t)
    PROVE  PlansFollow'
<1> DEFINE c == req[t].owner
           r(status) == [status |-> status, at |-> read[t].at,
                         devs |-> IF status \in Usable THEN read[t].devs ELSE {}]
<1>1. /\ c \in Instances /\ read[t].at \in Nat
      /\ last_result[c].at \in Nat /\ last_result[c].at <= read[t].at
      /\ \A u \in Tasks \ {t} : pc[u] # "actuating"
  BY Numbers DEF SolveReturns, Serialised, InLock, InTime
<1>2. \A u \in Tasks \ {t} : pc'[u] # "actuating"
  BY <1>1 DEF SolveReturns, Return, Leave, TypeOK
<1>3. CASE UNCHANGED <<last_result, previous_plans>> /\ Return(t, read[t].at)
  BY <1>3, LeavePlans DEF Return
<1>4. ASSUME NEW status \in Statuses, status \notin Usable, StoreResult(c, r(status)),
             Return(t, read[t].at)
      PROVE  PlansFollow'
  <2>1. /\ last_result'[c] = r(status) /\ UNCHANGED previous_plans
        /\ \A i \in Instances \ {c} : last_result'[i] = last_result[i]
    BY <1>1, <1>4 DEF StoreResult, TypeOK
  <2>2. previous_plans[c].at <= r(status).at
    <3>1. previous_plans[c].at <= last_result[c].at /\ previous_plans[c].at \in Nat
      BY <1>1, BaselineNotNewer DEF PlansFollow, TypeOK, Plans, Versions
    <3> QED
      BY <1>1, <3>1
  <2>3. BaselineFollowsResult'
    BY <1>4, <2>1, <2>2 DEF PlansFollow, BaselineFollowsResult, Usable
  <2>4. pc'[t] = "idle"
    BY <1>4 DEF Return, Leave, TypeOK
  <2> QED
    BY <1>2, <2>3, <2>4 DEF PlansFollow, ActuatesPlanInForce
<1>5. ASSUME NEW status \in Statuses, ~req[t].dry, status \in Usable, Apply(c, r(status)),
             UNCHANGED <<req, read>>
      PROVE  PlansFollow'
  <2>1. /\ last_result'[c] = r(status) /\ previous_plans'[c] = PlansOf(r(status))
        /\ \A i \in Instances \ {c} : /\ last_result'[i] = last_result[i]
                                       /\ previous_plans'[i] = previous_plans[i]
    BY <1>1, <1>5 DEF Apply, TypeOK
  <2>2. BaselineFollowsResult'
    BY <1>5, <2>1 DEF PlansFollow, BaselineFollowsResult, Usable, PlansOf
  <2>3. ActuatesPlanInForce'
    BY <1>2, <1>5, <2>1 DEF ActuatesPlanInForce, Usable, PlansOf
  <2> QED
    BY <2>2, <2>3 DEF PlansFollow
<1> QED
  BY <1>3, <1>4, <1>5 DEF SolveReturns

LEMMA StepPlans ==
    ASSUME TypeOK, Serialised, InTime, PlansFollow, NEW t \in Tasks, Request(t) \/ Step(t)
    PROVE  PlansFollow'
<1>1. CASE Request(t)
  BY <1>1, CallPlans DEF Request
<1>2. CASE Acquire(t)
  <2>1. CASE Return(t, inputs[req[t].owner]) \/ Abort(t)
    BY <1>2, <2>1, LeavePlans DEF Acquire, Return, Abort
  <2>2. CASE /\ pc' = [pc EXCEPT ![t] = "prices"] /\ UNCHANGED req
             /\ \A u \in Tasks \ {t} : read'[u] = read[u]
    BY <1>2, <2>2, OutsidePlans DEF Acquire, TypeOK
  <2> QED
    BY <1>2, <2>1, <2>2 DEF Acquire, TypeOK
<1>3. CASE PricesReturn(t)
  <2>1. CASE Leave(t)
    BY <1>3, <2>1, LeavePlans DEF PricesReturn
  <2>2. CASE pc' = [pc EXCEPT ![t] = "constructing"] /\ UNCHANGED <<req, read>>
    BY <1>3, <2>2, OutsidePlans DEF PricesReturn, TypeOK
  <2> QED
    BY <1>3, <2>1, <2>2 DEF PricesReturn, Return
<1>4. CASE SubmitSolve(t)
  BY <1>4, OutsidePlans DEF SubmitSolve, TypeOK
<1>5. CASE SolveReturns(t)
  BY <1>5, SolveReturnsPlans
<1>6. CASE ActuationDone(t) \/ Raise(t)
  BY <1>6, LeavePlans DEF ActuationDone, Raise, Return, Abort
<1>7. CASE Timeout(t)
  <2>1. CASE pc[t] = "waiting"
    BY <1>7, <2>1, OutsidePlans DEF Timeout, TypeOK
  <2>2. CASE pc[t] # "waiting"
    BY <1>7, <2>2, LeavePlans DEF Timeout, Abort
  <2> QED
    BY <2>1, <2>2
<1> QED
  BY <1>1, <1>2, <1>3, <1>4, <1>5, <1>6, <1>7 DEF Step

THEOREM PlansAlwaysFollow == Spec => []PlansFollow
<1>1. Init => PlansFollow
  BY DEF Init, PlansFollow, ActuatesPlanInForce, BaselineFollowsResult, NoResult, NoPlans, Usable
<1>2. ASSUME TypeOK, Serialised, InTime, PlansFollow, [Next]_vars PROVE PlansFollow'
  <2> USE <1>2
  <2>1. ASSUME NEW t \in Tasks, Request(t) \/ Step(t) PROVE PlansFollow'
    BY <2>1, StepPlans
  <2>2. CASE Refresh \/ Setup
    <3>1. UNCHANGED <<read, last_result, previous_plans>>
      BY <2>2 DEF Refresh, Setup, UpdateData
    <3>2. \/ \E t \in Tasks : \E c : Call(t, c, "background", FALSE, {})
          \/ UNCHANGED <<pc, req, waiters>>
      BY <2>2 DEF Refresh, Setup, UpdateData
    <3>3. CASE UNCHANGED <<pc, req, waiters>>
      BY <3>1, <3>3 DEF PlansFollow, ActuatesPlanInForce, BaselineFollowsResult
    <3>4. CASE \E t \in Tasks : \E c : Call(t, c, "background", FALSE, {})
      BY <3>1, <3>4, CallPlans
    <3> QED
      BY <3>2, <3>3, <3>4
  <2>3. CASE OrphanEnds \/ Republish \/ Unload \/ ChangeInputs \/ EditDevices \/ UNCHANGED vars
    BY <2>3 DEF OrphanEnds, Republish, Unload, ChangeInputs, EditDevices, vars, PlansFollow,
       ActuatesPlanInForce, BaselineFollowsResult
  <2> QED
    BY <2>1, <2>2, <2>3 DEF Next
<1> QED
  BY <1>1, <1>2, TypeCorrect, MutualExclusion, AlwaysInTime, PTL DEF Spec

\* What is being actuated is the instance's result and its baseline, and was not
\* computed by a dry run.
THEOREM PlanInForce == Spec => []ActuatesPlanInForce
<1>1. PlansFollow => ActuatesPlanInForce
  BY DEF PlansFollow
<1> QED
  BY <1>1, PlansAlwaysFollow, PTL

\* A usable result is the next baseline; an unusable one leaves it alone.
THEOREM BaselineFollows == Spec => []BaselineFollowsResult
<1>1. PlansFollow => BaselineFollowsResult
  BY DEF PlansFollow
<1> QED
  BY <1>1, PlansAlwaysFollow, PTL

-----------------------------------------------------------------------------
(***************************************************************************)
(* Coordinator implements PlanRegister                                     *)
(***************************************************************************)

\* A task that is idle has no arguments left over from its last call.
NoLeftovers == \A t \in Tasks : pc[t] = "idle" => req[t] = NoCall

LEMMA NextNoLeftovers ==
    ASSUME TypeOK, NoLeftovers, [Next]_vars
    PROVE  NoLeftovers'
<1>1. ASSUME NEW t \in Tasks, Leave(t) PROVE NoLeftovers'
  BY <1>1 DEF Leave, NoLeftovers, TypeOK
<1>2. ASSUME NEW t \in Tasks, NEW c, NEW kind, NEW dry, NEW filter, Call(t, c, kind, dry, filter)
      PROVE  NoLeftovers'
  BY <1>2 DEF Call, NoLeftovers, TypeOK
<1>3. ASSUME NEW t \in Tasks, NEW q, q # "idle", pc' = [pc EXCEPT ![t] = q], UNCHANGED req
      PROVE  NoLeftovers'
  BY <1>3 DEF NoLeftovers, TypeOK
<1>4. CASE UNCHANGED <<pc, req>>
  BY <1>4 DEF NoLeftovers
<1>5. ASSUME NEW t \in Tasks, Step(t) PROVE NoLeftovers'
  <2>1. CASE Acquire(t)
    BY <1>1, <1>3, <2>1 DEF Acquire, Return, Abort
  <2>2. CASE PricesReturn(t)
    BY <1>1, <1>3, <2>2 DEF PricesReturn, Return
  <2>3. CASE SubmitSolve(t)
    BY <1>3, <2>3 DEF SubmitSolve
  <2>4. CASE SolveReturns(t)
    BY <1>1, <1>3, <2>4 DEF SolveReturns, Return
  <2>5. CASE ActuationDone(t) \/ Raise(t)
    BY <1>1, <2>5 DEF ActuationDone, Raise, Return, Abort
  <2>6. CASE Timeout(t)
    <3>1. CASE pc[t] = "waiting"
      BY <2>6, <3>1 DEF Timeout, NoLeftovers, TypeOK
    <3>2. CASE pc[t] # "waiting"
      BY <1>1, <2>6, <3>2 DEF Timeout, Abort
    <3> QED
      BY <3>1, <3>2
  <2> QED
    BY <1>5, <2>1, <2>2, <2>3, <2>4, <2>5, <2>6 DEF Step
<1>6. CASE Refresh \/ Setup \/ \E t \in Tasks : Request(t)
  <2>1. \/ \E t \in Tasks : \E c, kind, dry, filter : Call(t, c, kind, dry, filter)
        \/ UNCHANGED <<pc, req>>
    BY <1>6 DEF Refresh, Setup, UpdateData, Request
  <2> QED
    BY <1>2, <1>4, <2>1
<1>7. CASE OrphanEnds \/ Republish \/ Unload \/ ChangeInputs \/ EditDevices \/ UNCHANGED vars
  BY <1>4, <1>7 DEF OrphanEnds, Republish, Unload, ChangeInputs, EditDevices, vars
<1> QED
  BY <1>5, <1>6, <1>7 DEF Next

THEOREM NoLeftoversKept == Spec => []NoLeftovers
<1>1. Init => NoLeftovers
  BY DEF Init, NoLeftovers
<1> QED
  BY <1>1, NextNoLeftovers, TypeCorrect, PTL DEF Spec

\* The call of a task as PlanRegister sees it.
CallOf(t) == [open |-> pc[t] # "idle", of |-> req[t].owner, asked |-> req[t].asked,
              dry |-> req[t].dry, done |-> pc[t] = "actuating"]
Seen == [t \in Tasks |-> CallOf(t)]

\* It once it has taken effect.
Acted(t) == [open |-> TRUE, of |-> CallOf(t).of, asked |-> CallOf(t).asked, dry |-> FALSE,
             done |-> TRUE]

\* What holds in every state and the steps below need.
Known == TypeOK /\ Serialised /\ InTime /\ QueueIsWaiting /\ PlansFollow /\ NoLeftovers

\* Publishing is showing, whichever instance the task belongs to.
LEMMA PublishShows ==
    ASSUME TypeOK, NEW c \in Instances, UNCHANGED <<loaded, running>>,
           data' = data \/ Publish(c)
    PROVE  Register!Show
<1>1. running => loaded \in Instances
  BY DEF TypeOK
<1> QED
  BY <1>1 DEF Publish, Register!Show

\* A task that leaves the coroutine, or is cancelled in the queue.
Ends(t) == /\ pc' = [pc EXCEPT ![t] = "idle"]
           /\ req' = [req EXCEPT ![t] = NoCall]

\* Its call ends.
LEMMA LeaveEnds ==
    ASSUME TypeOK, NEW t \in Tasks, Ends(t)
    PROVE  Seen' = [Seen EXCEPT ![t] = Register!None]
<1>1. /\ \A u \in Tasks \ {t} : req'[u] = req[u] /\ pc'[u] = pc[u]
      /\ req'[t] = NoCall /\ pc'[t] = "idle"
  BY DEF TypeOK, Ends
<1>2. \A u \in Tasks \ {t} : CallOf(u)' = CallOf(u)
  BY <1>1 DEF CallOf
<1>3. CallOf(t)' = Register!None
  <2>1. (pc'[t] # "idle") = FALSE /\ (pc'[t] = "actuating") = FALSE
    BY <1>1
  <2>2. /\ req'[t].owner = 1 /\ req'[t].asked = 0 /\ req'[t].dry = FALSE
    BY <1>1 DEF NoCall
  <2> QED
    BY <2>1, <2>2, Zenon DEF CallOf, Register!None
<1> QED
  BY <1>2, <1>3 DEF Seen

\* A step that does not open, end or begin to actuate a call does not show.
LEMMA MoveUnseen ==
    ASSUME TypeOK, NEW t \in Tasks, pc[t] \notin {"idle", "actuating"},
           NEW q, q \notin {"idle", "actuating"}, pc' = [pc EXCEPT ![t] = q], UNCHANGED req
    PROVE  Seen' = Seen
<1>1. \A u \in Tasks : CallOf(u)' = CallOf(u)
  BY DEF CallOf, TypeOK
<1> QED
  BY <1>1 DEF Seen

\* The steps of PlanRegister, in terms of what is seen of the calls.
LEMMA EndsCall ==
    ASSUME TypeOK, NEW t \in Tasks, pc[t] # "idle", Ends(t), Register!Show,
           UNCHANGED <<inputs, last_result, previous_plans, loaded>>
    PROVE  Register!Leave(t)
<1>1. Seen[t].open
  BY DEF Seen, CallOf
<1>2. Seen' = [Seen EXCEPT ![t] = Register!None]
  BY LeaveEnds
<1> QED
  BY <1>1, <1>2 DEF Register!Leave, Register!End, Seen, CallOf

LEMMA Asks ==
    ASSUME TypeOK, NoLeftovers, NEW t \in Tasks, NEW kind, NEW dry \in BOOLEAN, NEW filter,
           loaded' \in Instances, Call(t, loaded', kind, dry, filter)
    PROVE  Register!Ask(t)
<1>1. ~Seen[t].open
  BY DEF Seen, CallOf, Call
<1> DEFINE new == [open |-> TRUE, of |-> loaded', asked |-> inputs[loaded'],
                   dry |-> dry, done |-> FALSE]
<1>2. \A u \in Tasks \ {t} : CallOf(u)' = CallOf(u)
  BY DEF CallOf, Call, TypeOK
<1>3. CallOf(t)' = new
  <2>1. (pc'[t] # "idle") = TRUE /\ (pc'[t] = "actuating") = FALSE
    BY DEF Call, TypeOK
  <2>2. /\ req'[t].owner = loaded' /\ req'[t].asked = inputs[loaded'] /\ req'[t].dry = dry
    BY DEF Call, TypeOK
  <2> QED
    BY <2>1, <2>2, Zenon DEF CallOf
<1>4. Seen' = [Seen EXCEPT ![t] = new]
  BY <1>2, <1>3 DEF Seen
<1> QED
  BY <1>1, <1>4 DEF Register!Ask, Seen, CallOf

LEMMA Replaces ==
    ASSUME Known, NEW t \in Tasks, pc[t] = "solving", ~req[t].dry, NEW r \in Results,
           r.at = read[t].at,
           last_result' = [last_result EXCEPT ![req[t].owner] = r],
           previous_plans' = IF r.status \in Usable
                             THEN [previous_plans EXCEPT ![req[t].owner] = PlansOf(r)]
                             ELSE previous_plans,
           \/ Seen' = [Seen EXCEPT ![t] = Register!None]
           \/ Seen' = [Seen EXCEPT ![t] = Acted(t)],
           Register!Show, UNCHANGED <<inputs, loaded>>
    PROVE  Register!Replace(t)
<1>1. /\ Seen[t].open /\ ~Seen[t].dry /\ ~Seen[t].done
      /\ Seen[t].of = req[t].owner /\ Seen[t].asked = req[t].asked
  BY DEF Seen, CallOf
<1>2. /\ req[t].asked <= r.at /\ r.at <= inputs[req[t].owner]
      /\ last_result[req[t].owner].at <= r.at
  BY DEF Known, InTime, InLock
<1>3. PlansOf(r) = Register!PlanOf(r)
  BY DEF PlansOf, Register!PlanOf
<1>4. /\ Seen[t].asked <= r.at /\ r.at <= inputs[Seen[t].of]
      /\ last_result[Seen[t].of].at <= r.at
      /\ last_result' = [last_result EXCEPT ![Seen[t].of] = r]
      /\ previous_plans' = IF r.status \in Usable
                           THEN [previous_plans EXCEPT ![Seen[t].of] = Register!PlanOf(r)]
                           ELSE previous_plans
  BY <1>1, <1>2, <1>3
<1>5. Register!End(t) \/ Register!GoOn(t)
  BY DEF Register!End, Register!GoOn, Acted, Seen, CallOf
<1> QED
  BY <1>1, <1>4, <1>5, Zenon DEF Register!Replace, Register!End, Seen, CallOf

LEMMA Stutters ==
    ASSUME Seen' = Seen, UNCHANGED <<inputs, last_result, previous_plans, loaded, data>>
    PROVE  UNCHANGED Register!vars
BY DEF Seen, CallOf, Register!vars

LEMMA ReturnShows ==
    ASSUME TypeOK, NEW t \in Tasks, NEW at, Return(t, at) \/ Abort(t), UNCHANGED <<loaded, running>>
    PROVE  Register!Show /\ Ends(t)
<1>1. req[t].owner \in Instances
  BY DEF TypeOK, Calls
<1>2. data' = data \/ Publish(req[t].owner)
  BY DEF Return, Abort
<1> QED
  BY <1>1, <1>2, PublishShows DEF Return, Abort, Leave, Ends

\* The stored result of a solve takes effect and ends the call, or goes on to
\* be actuated.
LEMMA SolveReturnsSeen ==
    ASSUME Known, NEW t \in Tasks, SolveReturns(t)
    PROVE  Register!Leave(t) \/ Register!Replace(t)
<1> USE DEF Known
<1> DEFINE c == req[t].owner
           r(status) == [status |-> status, at |-> read[t].at,
                         devs |-> IF status \in Usable THEN read[t].devs ELSE {}]
<1>1. pc[t] = "solving" /\ UNCHANGED <<inputs, loaded, running>>
  BY DEF SolveReturns
<1>2. ASSUME NEW status \in Statuses PROVE r(status) \in Results /\ r(status).at = read[t].at
  BY DEF TypeOK, Reads, Results
<1>3. CASE UNCHANGED <<last_result, previous_plans>> /\ Return(t, read[t].at)
  BY <1>1, <1>3, ReturnShows, EndsCall
<1>4. ASSUME NEW status \in Statuses, ~req[t].dry, status \notin Usable,
             StoreResult(c, r(status)), Return(t, read[t].at)
      PROVE  Register!Replace(t)
  <2>1. Register!Show /\ Seen' = [Seen EXCEPT ![t] = Register!None]
    BY <1>1, <1>4, ReturnShows, LeaveEnds
  <2>2. /\ last_result' = [last_result EXCEPT ![c] = r(status)]
        /\ previous_plans' = IF r(status).status \in Usable
                             THEN [previous_plans EXCEPT ![c] = PlansOf(r(status))]
                             ELSE previous_plans
    BY <1>4 DEF StoreResult
  <2> HIDE DEF r
  <2> QED
    BY <1>1, <1>2, <1>4, <2>1, <2>2, Replaces
<1>5. ASSUME NEW status \in Statuses, ~req[t].dry, status \in Usable, Apply(c, r(status)),
             pc' = [pc EXCEPT ![t] = "actuating"], UNCHANGED <<req, data>>
      PROVE  Register!Replace(t)
  <2>1. Register!Show
    BY <1>5 DEF Register!Show
  <2>2. Seen' = [Seen EXCEPT ![t] = Acted(t)]
    <3>1. \A u \in Tasks \ {t} : CallOf(u)' = CallOf(u)
      BY <1>5 DEF CallOf, TypeOK
    <3>2. (pc'[t] # "idle") = TRUE /\ (pc'[t] = "actuating") = TRUE /\ req[t].dry = FALSE
      BY <1>1, <1>5 DEF TypeOK, Calls
    <3>3. CallOf(t).of = req[t].owner /\ CallOf(t).asked = req[t].asked
      BY DEF CallOf
    <3>4. CallOf(t)' = Acted(t)
      BY <1>5, <3>2, <3>3, Zenon DEF CallOf, Acted
    <3> QED
      BY <3>1, <3>4 DEF Seen
  <2>3. /\ last_result' = [last_result EXCEPT ![c] = r(status)]
        /\ previous_plans' = IF r(status).status \in Usable
                             THEN [previous_plans EXCEPT ![c] = PlansOf(r(status))]
                             ELSE previous_plans
    BY <1>5 DEF Apply
  <2> HIDE DEF r
  <2> QED
    BY <1>1, <1>2, <1>5, <2>1, <2>2, <2>3, Replaces
<1> QED
  BY <1>3, <1>4, <1>5 DEF SolveReturns

LEMMA StepSeen ==
    ASSUME Known, NEW t \in Tasks, Step(t)
    PROVE  [Register!Next]_(Register!vars)
<1> USE DEF Known
<1>1. CASE Acquire(t)
  <2>1. pc[t] = "waiting"
    <3>1. waiters \in Seq(Tasks) /\ waiters # <<>> /\ t = waiters[1]
      BY <1>1 DEF Acquire, TypeOK
    <3>2. 1 \in DOMAIN waiters
      BY <3>1
    <3> QED
      BY <3>1, <3>2 DEF QueueIsWaiting
  <2>2. UNCHANGED <<inputs, loaded, running, last_result, previous_plans>>
    BY <1>1 DEF Acquire
  <2>3. CASE Return(t, inputs[req[t].owner]) \/ Abort(t)
    <3>1. Register!Leave(t)
      BY <2>1, <2>2, <2>3, ReturnShows, EndsCall
    <3> QED
      BY <3>1 DEF Register!Next
  <2>4. CASE pc' = [pc EXCEPT ![t] = "prices"] /\ UNCHANGED <<req, data>>
    BY <2>1, <2>2, <2>4, MoveUnseen, Stutters
  <2> QED
    BY <1>1, <2>3, <2>4 DEF Acquire
<1>2. CASE PricesReturn(t)
  <2>1. pc[t] = "prices" /\ UNCHANGED <<inputs, loaded, running, last_result, previous_plans>>
    BY <1>2 DEF PricesReturn
  <2>2. CASE Return(t, read[t].at)
    <3>1. Register!Leave(t)
      BY <2>1, <2>2, ReturnShows, EndsCall
    <3> QED
      BY <3>1 DEF Register!Next
  <2>3. CASE pc' = [pc EXCEPT ![t] = "constructing"] /\ UNCHANGED <<req, data>>
    BY <2>1, <2>3, MoveUnseen, Stutters
  <2> QED
    BY <1>2, <2>2, <2>3 DEF PricesReturn
<1>3. CASE SubmitSolve(t)
  BY <1>3, MoveUnseen, Stutters DEF SubmitSolve
<1>4. CASE SolveReturns(t)
  BY <1>4, SolveReturnsSeen DEF Register!Next
<1>5. CASE ActuationDone(t) \/ Raise(t)
  <2>1. /\ pc[t] # "idle" /\ UNCHANGED <<inputs, loaded, running, last_result, previous_plans>>
        /\ Return(t, read[t].at) \/ Abort(t)
    BY <1>5 DEF ActuationDone, Raise
  <2>2. Register!Leave(t)
    BY <2>1, ReturnShows, EndsCall
  <2> QED
    BY <2>2 DEF Register!Next
<1>6. CASE Timeout(t)
  <2>1. pc[t] # "idle" /\ UNCHANGED <<inputs, loaded, running, last_result, previous_plans, data>>
    BY <1>6 DEF Timeout, Abort
  <2>2. Register!Show
    BY <2>1 DEF Register!Show
  <2>3. Register!Leave(t)
    BY <1>6, <2>1, <2>2, EndsCall DEF Timeout, Abort, Leave, Ends
  <2> QED
    BY <2>3 DEF Register!Next
<1> QED
  BY <1>1, <1>2, <1>3, <1>4, <1>5, <1>6 DEF Step

LEMMA RequestSeen ==
    ASSUME Known, NEW t \in Tasks, Request(t)
    PROVE  Register!Request
<1> USE DEF Known
<1>1. /\ UNCHANGED <<inputs, last_result, previous_plans, data, loaded>>
      /\ loaded' \in Instances
  BY DEF Request, TypeOK
<1>2. PICK kind \in Kinds, dry \in BOOLEAN, filter \in SUBSET Devices :
          Call(t, loaded, kind, dry, filter)
  BY DEF Request, Kinds
<1>3. Register!Ask(t)
  BY <1>1, <1>2, Asks
<1>4. Register!Show /\ loaded' \in {loaded, loaded + 1}
  BY <1>1 DEF Register!Show
<1> QED
  BY <1>1, <1>3, <1>4 DEF Register!Request

LEMMA UpdateDataSeen ==
    ASSUME Known, Refresh \/ Setup
    PROVE  [Register!Next]_(Register!vars)
<1> USE DEF Known
<1>1. /\ UNCHANGED <<inputs, last_result, previous_plans>> /\ UpdateData(loaded')
      /\ loaded' \in Instances
      /\ loaded' = loaded \/ loaded' = loaded + 1
  <2>1. CASE Refresh
    BY <2>1 DEF Refresh, UpdateData, TypeOK
  <2>2. CASE Setup
    <3>1. loaded' \in Instances
      BY <2>2 DEF Setup, TypeOK, Instances
    <3> QED
      BY <2>2, <3>1 DEF Setup, UpdateData
  <2> QED
    BY <2>1, <2>2
<1>2. Register!Show
  BY <1>1 DEF UpdateData, Rebuild, Register!Show
<1>3. CASE \E t \in Tasks : Call(t, loaded', "background", FALSE, {})
  <2>1. \E t \in Tasks : Register!Ask(t)
    BY <1>1, <1>3, Asks
  <2>2. Register!Request
    BY <1>1, <1>2, <2>1 DEF Register!Request
  <2> QED
    BY <2>2 DEF Register!Next
<1>4. CASE UNCHANGED <<pc, req, waiters>>
  <2>1. Seen' = Seen
    BY <1>4 DEF Seen, CallOf
  <2>2. Register!Load \/ Register!Refresh
    BY <1>1, <1>2, <2>1 DEF Register!Load, Register!Refresh, Seen, CallOf
  <2> QED
    BY <2>2 DEF Register!Next
<1> QED
  BY <1>1, <1>3, <1>4 DEF UpdateData

\* Every step of Coordinator is a step of PlanRegister or changes nothing it
\* speaks of.
LEMMA NextSeen ==
    ASSUME Known, [Next]_vars
    PROVE  [Register!Next]_(Register!vars)
<1> USE DEF Known
<1>1. ASSUME NEW t \in Tasks, Request(t) PROVE Register!Next
  BY <1>1, RequestSeen DEF Register!Next
<1>2. CASE ChangeInputs
  <2>1. loaded \in Instances /\ inputs' = [inputs EXCEPT ![loaded] = @ + 1]
    BY <1>2 DEF ChangeInputs, TypeOK
  <2>2. UNCHANGED <<last_result, previous_plans, loaded, data>> /\ Seen' = Seen
    BY <1>2 DEF ChangeInputs, Seen, CallOf
  <2>3. Register!Change
    BY <2>1, <2>2 DEF Register!Change, Seen, CallOf
  <2> QED
    BY <2>3 DEF Register!Next
<1>3. CASE Republish
  <2>1. Register!Show /\ Seen' = Seen
    BY <1>3 DEF Republish, Rebuild, Register!Show, TypeOK, Seen, CallOf
  <2>2. Register!Refresh
    BY <1>3, <2>1 DEF Republish, Register!Refresh, Seen, CallOf
  <2> QED
    BY <2>2 DEF Register!Next
<1>4. CASE OrphanEnds \/ Unload \/ EditDevices \/ UNCHANGED vars
  BY <1>4, Stutters DEF OrphanEnds, Unload, EditDevices, vars, Seen, CallOf
<1> QED
  BY <1>1, <1>2, <1>3, <1>4, StepSeen, UpdateDataSeen DEF Next

LEMMA InitSeen == Init => Register!Init
<1> SUFFICES ASSUME Init PROVE Register!Init
  OBVIOUS
<1>1. Seen = [t \in Tasks |-> Register!None]
  <2>1. ASSUME NEW t \in Tasks PROVE CallOf(t) = Register!None
    <3>1. (pc[t] # "idle") = FALSE /\ (pc[t] = "actuating") = FALSE
      BY DEF Init
    <3>2. req[t].owner = 1 /\ req[t].asked = 0 /\ req[t].dry = FALSE
      BY DEF Init, NoCall
    <3> QED
      BY <3>1, <3>2, Zenon DEF CallOf, Register!None
  <2> QED
    BY <2>1 DEF Seen
<1> QED
  BY <1>1 DEF Init, Register!Init, Seen, CallOf

\* However calls queue, suspend, time out and fail, each takes effect at most
\* once, at one moment between its beginning and its end, on the windows of that
\* time, together with the plans it brings into force.
THEOREM ImplementsRegister == Spec => ActsAtOnce
<1>1. TypeOK /\ Serialised /\ InTime /\ QueueIsWaiting /\ PlansFollow /\ NoLeftovers => Known
  BY DEF Known
<1> QED
  BY <1>1, InitSeen, NextSeen, TypeCorrect, MutualExclusion, AlwaysInTime, QueueKept,
     PlansAlwaysFollow, NoLeftoversKept, PTL DEF Spec, ActsAtOnce, Register!Spec
=============================================================================
