------------------------- MODULE Coordinator_proofs -------------------------
(***************************************************************************)
(* Safety of Coordinator for any tasks, devices, filters and bounds.       *)
(***************************************************************************)
EXTENDS Coordinator, TLAPS

USE TasksAssumption, StatusesAssumption, BoundsAssumption, DevicesAssumption

-----------------------------------------------------------------------------
(***************************************************************************)
(* Type correctness                                                        *)
(***************************************************************************)

LEMMA RemoveAtType ==
    ASSUME NEW S, NEW s \in Seq(S), NEW i \in DOMAIN s
    PROVE  RemoveAt(s, i) \in Seq(S)
BY DEF RemoveAt

LEMMA NoCallType == NoCall \in Calls
BY DEF NoCall, Calls, Instances, Versions

LEMMA NoReadType == NoRead \in Reads
BY DEF NoRead, Reads, NoPlans, Plans, Versions

LEMMA NoPlansType == NoPlans \in Plans
BY DEF NoPlans, Plans, Versions

LEMMA NoResultType == NoResult \in Results
BY DEF NoResult, Results, Versions

LEMMA InitType == Init => TypeOK
<1> SUFFICES ASSUME Init PROVE TypeOK
  OBVIOUS
<1>1. devices \in DeviceLists /\ inputs \in [Instances -> Versions] /\ loaded \in 0..MaxLoads
      /\ orphans \in 0..MaxOrphans
  BY DEF Init, Versions
<1>2. /\ running \in BOOLEAN /\ price_issue \in BOOLEAN /\ stale_reply \in BOOLEAN
      /\ running => loaded \in Instances
  BY DEF Init
<1>3. holder \in Tasks \cup {NoTask} /\ waiters \in Seq(Tasks)
  BY DEF Init
<1>4. pc \in [Tasks -> Phases] /\ req \in [Tasks -> Calls] /\ read \in [Tasks -> Reads]
  BY NoCallType, NoReadType DEF Init, Phases
<1>5. /\ last_result \in [Instances -> Results] /\ previous_plans \in [Instances -> Plans]
      /\ data \in Results
  BY NoPlansType, NoResultType DEF Init
<1> QED
  BY <1>1, <1>2, <1>3, <1>4, <1>5 DEF TypeOK

\* What every exit of async_run_solver keeps.
LEMMA LeaveType ==
    ASSUME TypeOK, NEW t \in Tasks, Leave(t)
    PROVE  /\ holder' \in Tasks \cup {NoTask} /\ pc' \in [Tasks -> Phases]
           /\ req' \in [Tasks -> Calls] /\ read' \in [Tasks -> Reads]
BY NoCallType, NoReadType DEF TypeOK, Leave, Phases

LEMMA CallType ==
    ASSUME TypeOK, NEW t \in Tasks, NEW c \in Instances, NEW kind \in Kinds,
           NEW dry \in BOOLEAN, NEW filter \in SUBSET Devices, Call(t, c, kind, dry, filter)
    PROVE  /\ pc' \in [Tasks -> Phases] /\ req' \in [Tasks -> Calls]
           /\ waiters' \in Seq(Tasks)
<1>1. pc' \in [Tasks -> Phases]
  BY DEF TypeOK, Call, Phases
<1>2. [kind |-> kind, dry |-> dry, filter |-> filter, owner |-> c, asked |-> inputs[c]] \in Calls
  BY DEF TypeOK, Calls
<1>3. req' \in [Tasks -> Calls]
  BY <1>2 DEF TypeOK, Call
<1>4. waiters' \in Seq(Tasks)
  BY DEF TypeOK, Call
<1> QED
  BY <1>1, <1>3, <1>4

LEMMA ReturnType ==
    ASSUME TypeOK, NEW t \in Tasks, NEW at \in Versions, Return(t, at),
           last_result' \in [Instances -> Results]
    PROVE  /\ holder' \in Tasks \cup {NoTask} /\ pc' \in [Tasks -> Phases]
           /\ req' \in [Tasks -> Calls] /\ read' \in [Tasks -> Reads]
           /\ stale_reply' \in BOOLEAN /\ data' \in Results
<1>1. Leave(t)
  BY DEF Return
<1>2. stale_reply' \in BOOLEAN
  BY DEF Return
<1>3. req[t].owner \in Instances
  BY DEF TypeOK, Calls
<1>4. data' \in Results
  BY <1>3 DEF Return, Publish, TypeOK
<1> QED
  BY <1>1, <1>2, <1>4, LeaveType

LEMMA AbortType ==
    ASSUME TypeOK, NEW t \in Tasks, Abort(t)
    PROVE  /\ holder' \in Tasks \cup {NoTask} /\ pc' \in [Tasks -> Phases]
           /\ req' \in [Tasks -> Calls] /\ read' \in [Tasks -> Reads]
           /\ stale_reply' \in BOOLEAN /\ data' \in Results
<1>1. Leave(t) /\ UNCHANGED <<data, stale_reply>>
  BY DEF Abort
<1> QED
  BY <1>1, LeaveType DEF TypeOK

LEMMA RequestType == ASSUME TypeOK, NEW t \in Tasks, Request(t) PROVE TypeOK'
<1>1. PICK kind \in Kinds, dry \in BOOLEAN, f \in SUBSET Devices :
          Call(t, loaded, kind, dry, f)
  BY DEF Request, Kinds
<1>2. loaded \in Instances
  BY DEF Request, TypeOK
<1> QED
  BY <1>1, <1>2, CallType DEF Request, TypeOK

LEMMA AcquireType == ASSUME TypeOK, NEW t \in Tasks, Acquire(t) PROVE TypeOK'
<1> USE DEF Acquire
<1>1. /\ waiters' \in Seq(Tasks)
      /\ UNCHANGED <<devices, inputs, loaded, running, last_result, previous_plans, orphans>>
  BY DEF TypeOK
<1>2. price_issue' \in BOOLEAN
  BY DEF TypeOK
<1>3. last_result' \in [Instances -> Results]
  BY DEF TypeOK
<1>4. CASE Return(t, inputs[req[t].owner])
  <2>1. inputs[req[t].owner] \in Versions
    BY DEF TypeOK, Calls
  <2> QED
    BY <1>1, <1>2, <1>3, <1>4, <2>1, ReturnType DEF TypeOK
<1>5. CASE Abort(t)
  BY <1>1, <1>2, <1>5, AbortType DEF TypeOK
<1>6. CASE /\ holder' = t
           /\ pc' = [pc EXCEPT ![t] = "prices"]
           /\ read' = [read EXCEPT ![t] = [at |-> inputs[req[t].owner],
                                           devs |-> Selected(req[t].filter),
                                           prev |-> NoPlans]]
           /\ UNCHANGED <<req, data, stale_reply, price_issue>>
  <2>1. [at |-> inputs[req[t].owner], devs |-> Selected(req[t].filter),
         prev |-> NoPlans] \in Reads
    BY NoPlansType DEF TypeOK, Calls, Reads, Selected
  <2>2. pc' \in [Tasks -> Phases] /\ read' \in [Tasks -> Reads]
    BY <1>6, <2>1 DEF TypeOK, Phases
  <2> QED
    BY <1>1, <1>6, <2>2 DEF TypeOK
<1> QED
  BY <1>4, <1>5, <1>6

LEMMA PricesReturnType == ASSUME TypeOK, NEW t \in Tasks, PricesReturn(t) PROVE TypeOK'
<1> USE DEF PricesReturn, ClearIssue
<1>1. /\ UNCHANGED <<devices, inputs, loaded, running, waiters, last_result,
                     previous_plans, orphans>>
      /\ price_issue' \in BOOLEAN /\ read[t].at \in Versions
  BY DEF TypeOK, Reads
<1>2. last_result' \in [Instances -> Results]
  BY DEF TypeOK
<1>3. CASE Return(t, read[t].at)
  BY <1>1, <1>2, <1>3, ReturnType DEF TypeOK
<1>4. CASE /\ pc' = [pc EXCEPT ![t] = "constructing"]
           /\ UNCHANGED <<holder, req, read, data, stale_reply>>
  BY <1>1, <1>4 DEF TypeOK, Phases
<1> QED
  BY <1>3, <1>4

LEMMA SubmitSolveType == ASSUME TypeOK, NEW t \in Tasks, SubmitSolve(t) PROVE TypeOK'
<1> USE DEF SubmitSolve
<1>1. previous_plans[req[t].owner] \in Plans
  BY DEF TypeOK, Calls
<1>2. read' \in [Tasks -> Reads]
  BY <1>1 DEF TypeOK, Reads
<1>3. pc' \in [Tasks -> Phases]
  BY DEF TypeOK, Phases
<1> QED
  BY <1>2, <1>3 DEF TypeOK

LEMMA SolveReturnsType == ASSUME TypeOK, NEW t \in Tasks, SolveReturns(t) PROVE TypeOK'
<1> USE DEF SolveReturns
<1> DEFINE c == req[t].owner
           r(status) == [status |-> status, at |-> read[t].at,
                         devs |-> IF status \in Usable THEN read[t].devs ELSE {}]
<1>1. UNCHANGED <<devices, inputs, loaded, running, waiters, price_issue, orphans>>
  OBVIOUS
<1>2. c \in Instances /\ read[t].at \in Versions
  BY DEF TypeOK, Calls, Reads
<1>3. ASSUME NEW status \in Statuses
      PROVE  r(status) \in Results /\ PlansOf(r(status)) \in Plans
  BY <1>2 DEF TypeOK, Reads, Results, PlansOf, Plans
<1>4. ASSUME NEW status \in Statuses, last_result' = [last_result EXCEPT ![c] = r(status)]
      PROVE  last_result' \in [Instances -> Results]
  BY <1>3, <1>4 DEF TypeOK
<1>5. CASE UNCHANGED <<last_result, previous_plans>> /\ Return(t, read[t].at)
  <2>1. last_result' \in [Instances -> Results]
    BY <1>5 DEF TypeOK
  <2> QED
    BY <1>1, <1>2, <1>5, <2>1, ReturnType DEF TypeOK
<1>6. ASSUME NEW status \in Statuses, StoreResult(c, r(status)), Return(t, read[t].at)
      PROVE  TypeOK'
  <2>1. last_result' \in [Instances -> Results] /\ UNCHANGED previous_plans
    BY <1>4, <1>6 DEF StoreResult
  <2> QED
    BY <1>1, <1>2, <1>6, <2>1, ReturnType DEF TypeOK
<1>7. ASSUME NEW status \in Statuses, Apply(c, r(status)),
             pc' = [pc EXCEPT ![t] = "actuating"],
             UNCHANGED <<holder, req, read, data, stale_reply>>
      PROVE  TypeOK'
  <2>1. last_result' \in [Instances -> Results]
    BY <1>4, <1>7 DEF Apply
  <2>2. previous_plans' \in [Instances -> Plans]
    BY <1>3, <1>7 DEF Apply, TypeOK
  <2>3. pc' \in [Tasks -> Phases]
    BY <1>7 DEF TypeOK, Phases
  <2> QED
    BY <1>1, <1>7, <2>1, <2>2, <2>3 DEF TypeOK
<1> QED
  BY <1>5, <1>6, <1>7

LEMMA ActuationDoneType == ASSUME TypeOK, NEW t \in Tasks, ActuationDone(t) PROVE TypeOK'
<1>1. /\ Return(t, read[t].at) /\ read[t].at \in Versions
      /\ last_result' \in [Instances -> Results]
  BY DEF ActuationDone, TypeOK, Reads
<1> QED
  BY <1>1, ReturnType DEF ActuationDone, TypeOK

LEMMA RaiseType == ASSUME TypeOK, NEW t \in Tasks, Raise(t) PROVE TypeOK'
BY AbortType DEF Raise, TypeOK

LEMMA TimeoutType == ASSUME TypeOK, NEW t \in Tasks, Timeout(t) PROVE TypeOK'
<1> USE DEF Timeout
<1>1. /\ UNCHANGED <<devices, inputs, loaded, running, last_result, previous_plans,
                     price_issue>>
      /\ orphans' \in 0..MaxOrphans
  BY DEF TypeOK
<1>2. CASE pc[t] = "waiting"
  <2>1. waiters' \in Seq(Tasks)
    BY <1>2, RemoveAtType DEF Dequeue, TypeOK
  <2>2. pc' \in [Tasks -> Phases] /\ req' \in [Tasks -> Calls]
    BY <1>2, NoCallType DEF TypeOK, Phases
  <2> QED
    BY <1>1, <1>2, <2>1, <2>2 DEF TypeOK
<1>3. CASE pc[t] # "waiting"
  BY <1>1, <1>3, AbortType DEF TypeOK
<1> QED
  BY <1>2, <1>3

LEMMA UpdateDataType ==
    ASSUME TypeOK, NEW c \in Instances, UpdateData(c)
    PROVE  /\ pc' \in [Tasks -> Phases] /\ req' \in [Tasks -> Calls]
           /\ waiters' \in Seq(Tasks) /\ data' \in Results
           /\ UNCHANGED last_result
<1>1. data' \in Results /\ UNCHANGED last_result
  BY DEF UpdateData, Rebuild, TypeOK
<1>2. CASE \E t \in Tasks : Call(t, c, "background", FALSE, {})
  <2>1. PICK t \in Tasks : Call(t, c, "background", FALSE, {})
    BY <1>2
  <2>2. "background" \in Kinds /\ {} \in SUBSET Devices /\ FALSE \in BOOLEAN
    BY DEF Kinds
  <2> QED
    BY <1>1, <2>1, <2>2, CallType
<1>3. CASE UNCHANGED <<pc, req, waiters>>
  BY <1>1, <1>3 DEF TypeOK
<1> QED
  BY <1>2, <1>3 DEF UpdateData

LEMMA RefreshType == ASSUME TypeOK, Refresh PROVE TypeOK'
<1>1. loaded \in Instances
  BY DEF Refresh, TypeOK
<1> QED
  BY <1>1, UpdateDataType DEF Refresh, TypeOK

LEMMA SetupType == ASSUME TypeOK, Setup PROVE TypeOK'
<1>1. loaded' \in Instances
  BY DEF Setup, TypeOK, Instances
<1>2. UpdateData(loaded')
  BY DEF Setup
<1>3. loaded' \in 0..MaxLoads /\ running' \in BOOLEAN
  BY DEF Setup, TypeOK
<1> QED
  BY <1>1, <1>2, <1>3, UpdateDataType DEF Setup, TypeOK

\* Every reachable state has the types of the code's data.
THEOREM TypeCorrect == Spec => []TypeOK
<1>1. ASSUME TypeOK, [Next]_vars PROVE TypeOK'
  <2> USE <1>1
  <2>1. ASSUME NEW t \in Tasks, Request(t) \/ Step(t) PROVE TypeOK'
    BY <2>1, RequestType, AcquireType, PricesReturnType, SubmitSolveType, SolveReturnsType,
       ActuationDoneType, RaiseType, TimeoutType DEF Step
  <2>2. CASE OrphanEnds
    BY <2>2 DEF OrphanEnds, TypeOK
  <2>3. CASE Refresh
    BY <2>3, RefreshType
  <2>9. CASE Republish
    BY <2>9 DEF Republish, Rebuild, TypeOK
  <2>4. CASE Setup
    BY <2>4, SetupType
  <2>5. CASE Unload
    BY <2>5 DEF Unload, TypeOK
  <2>6. CASE ChangeInputs
    BY <2>6 DEF ChangeInputs, TypeOK, Versions
  <2>7. CASE EditDevices
    BY <2>7 DEF EditDevices, TypeOK
  <2>8. CASE UNCHANGED vars
    BY <2>8 DEF vars, TypeOK
  <2> QED
    BY <2>1, <2>2, <2>3, <2>4, <2>5, <2>6, <2>7, <2>8, <2>9 DEF Next
<1> QED
  BY <1>1, InitType, PTL DEF Spec

-----------------------------------------------------------------------------
(***************************************************************************)
(* Mutual exclusion                                                        *)
(***************************************************************************)

\* Leaving gives the lock back, whether the task was inside it or got it from
\* the queue and left without suspending.
LEMMA LeaveSerialised ==
    ASSUME TypeOK, Serialised, NEW t \in Tasks, holder \in {NoTask, t}, Leave(t)
    PROVE  Serialised'
BY DEF TypeOK, Serialised, Leave, InLock

\* Entering the queue does not touch the lock.
LEMMA CallSerialised ==
    ASSUME TypeOK, Serialised, NEW t \in Tasks, NEW c, NEW kind, NEW dry, NEW filter,
           Call(t, c, kind, dry, filter), UNCHANGED holder
    PROVE  Serialised'
BY DEF TypeOK, Serialised, Call, InLock

\* A step inside the lock stays inside it.
LEMMA MoveSerialised ==
    ASSUME TypeOK, Serialised, NEW t \in Tasks, pc[t] \in InLock,
           NEW q \in InLock, pc' = [pc EXCEPT ![t] = q], UNCHANGED holder
    PROVE  Serialised'
BY DEF TypeOK, Serialised

LEMMA UpdateDataSerialised ==
    ASSUME TypeOK, Serialised, NEW c, UpdateData(c), UNCHANGED holder
    PROVE  Serialised'
<1>1. CASE \E t \in Tasks : Call(t, c, "background", FALSE, {})
  BY <1>1, CallSerialised
<1>2. CASE UNCHANGED <<pc, req, waiters>>
  BY <1>2 DEF Serialised
<1> QED
  BY <1>1, <1>2 DEF UpdateData

LEMMA StepSerialised ==
    ASSUME TypeOK, Serialised, NEW t \in Tasks, Request(t) \/ Step(t)
    PROVE  Serialised'
<1>1. CASE Request(t)
  BY <1>1, CallSerialised DEF Request
<1>2. CASE Acquire(t)
  <2>1. holder = NoTask
    BY <1>2 DEF Acquire, LockFree
  <2>2. CASE Return(t, inputs[req[t].owner]) \/ Abort(t)
    BY <2>1, <2>2, LeaveSerialised DEF Return, Abort
  <2>3. CASE holder' = t /\ pc' = [pc EXCEPT ![t] = "prices"]
    BY <2>1, <2>3 DEF TypeOK, Serialised, InLock
  <2> QED
    BY <1>2, <2>2, <2>3 DEF Acquire
<1>3. CASE PricesReturn(t)
  <2>1. pc[t] \in InLock /\ holder = t /\ "constructing" \in InLock
    BY <1>3 DEF PricesReturn, InLock, Serialised
  <2> QED
    BY <1>3, <2>1, LeaveSerialised, MoveSerialised DEF PricesReturn, Return
<1>4. CASE SubmitSolve(t)
  <2>1. pc[t] \in InLock /\ "solving" \in InLock
    BY <1>4 DEF SubmitSolve, InLock
  <2> QED
    BY <1>4, <2>1, MoveSerialised DEF SubmitSolve
<1>5. CASE SolveReturns(t)
  <2>1. pc[t] \in InLock /\ holder = t /\ "actuating" \in InLock
    BY <1>5 DEF SolveReturns, InLock, Serialised
  <2>2. CASE Leave(t)
    BY <2>1, <2>2, LeaveSerialised
  <2>3. CASE pc' = [pc EXCEPT ![t] = "actuating"] /\ UNCHANGED holder
    BY <2>1, <2>3, MoveSerialised
  <2> QED
    BY <1>5, <2>2, <2>3 DEF SolveReturns, Return
<1>6. CASE ActuationDone(t) \/ Raise(t)
  <2>1. holder = t
    BY <1>6 DEF ActuationDone, Raise, InLock, Serialised
  <2> QED
    BY <1>6, <2>1, LeaveSerialised DEF ActuationDone, Raise, Return, Abort
<1>7. CASE Timeout(t)
  <2>1. CASE pc[t] = "waiting"
    BY <1>7, <2>1 DEF Timeout, TypeOK, Serialised, InLock
  <2>2. CASE pc[t] # "waiting"
    <3>1. holder = t /\ Leave(t)
      BY <1>7, <2>2 DEF Timeout, Abort, TypeOK, Phases, InLock, Serialised
    <3> QED
      BY <3>1, LeaveSerialised
  <2> QED
    BY <2>1, <2>2
<1> QED
  BY <1>1, <1>2, <1>3, <1>4, <1>5, <1>6, <1>7 DEF Step

\* No two tasks are ever inside _do_solve, for any number of tasks and of
\* coordinator instances: Serialised is inductive given the types.
THEOREM MutualExclusion == Spec => []Serialised
<1>1. Init => Serialised
  BY DEF Init, Serialised, InLock
<1>2. ASSUME TypeOK, Serialised, [Next]_vars PROVE Serialised'
  <2> USE <1>2
  <2>1. ASSUME NEW t \in Tasks, Request(t) \/ Step(t) PROVE Serialised'
    BY <2>1, StepSerialised
  <2>2. CASE Refresh \/ Setup
    BY <2>2, UpdateDataSerialised DEF Refresh, Setup
  <2>3. CASE OrphanEnds \/ Republish \/ Unload \/ ChangeInputs \/ EditDevices \/ UNCHANGED vars
    BY <2>3 DEF OrphanEnds, Republish, Unload, ChangeInputs, EditDevices, vars, Serialised
  <2> QED
    BY <2>1, <2>2, <2>3 DEF Next
<1> QED
  BY <1>1, <1>2, TypeCorrect, PTL DEF Spec

-----------------------------------------------------------------------------
(***************************************************************************)
(* Freshness                                                               *)
(***************************************************************************)

\* The strengthening: a task inside the lock has read inputs between those of
\* its call and those of now, and its instance's result is not newer than what
\* it read.
InTime ==
    /\ \A t \in Tasks : req[t].asked <= inputs[req[t].owner]
    /\ \A t \in Tasks : pc[t] \in InLock =>
          /\ req[t].asked <= read[t].at
          /\ read[t].at <= inputs[req[t].owner]
          /\ last_result[req[t].owner].at <= read[t].at
    /\ \A c \in Instances : last_result[c].at <= inputs[c]

\* The numbers InTime compares are natural numbers.
LEMMA Numbers ==
    ASSUME TypeOK
    PROVE  /\ \A t \in Tasks : /\ req[t].asked \in Nat /\ read[t].at \in Nat
                               /\ req[t].owner \in Instances
           /\ \A c \in Instances : inputs[c] \in Nat /\ last_result[c].at \in Nat
BY DEF TypeOK, Calls, Reads, Results, Versions

LEMMA NoCallAsks == NoCall.asked = 0 /\ NoCall.owner = 1 /\ 1 \in Instances
BY DEF NoCall, Instances

LEMMA LeaveInTime ==
    ASSUME TypeOK, InTime, NEW t \in Tasks, Leave(t), UNCHANGED <<inputs, last_result>>
    PROVE  InTime'
<1> USE Numbers
<1>1. /\ \A u \in Tasks \ {t} : req'[u] = req[u] /\ read'[u] = read[u] /\ pc'[u] = pc[u]
      /\ req'[t] = NoCall /\ read'[t] = NoRead /\ pc'[t] = "idle"
  BY DEF TypeOK, Leave
<1>2. "idle" \notin InLock
  BY DEF InLock
<1> QED
  BY <1>1, <1>2, NoCallAsks DEF InTime

LEMMA CallInTime ==
    ASSUME TypeOK, InTime, NEW t \in Tasks, NEW c \in Instances, NEW kind, NEW dry,
           NEW filter, Call(t, c, kind, dry, filter),
           UNCHANGED <<inputs, last_result, read>>
    PROVE  InTime'
<1> USE Numbers
<1>1. /\ \A u \in Tasks \ {t} : req'[u] = req[u] /\ pc'[u] = pc[u]
      /\ req'[t].asked = inputs[c] /\ req'[t].owner = c /\ pc'[t] = "waiting"
  BY DEF TypeOK, Call
<1> QED
  BY <1>1 DEF InTime, InLock

LEMMA UpdateDataInTime ==
    ASSUME TypeOK, InTime, NEW c \in Instances, UpdateData(c), UNCHANGED <<inputs, read>>
    PROVE  InTime'
<1>1. CASE \E t \in Tasks : Call(t, c, "background", FALSE, {})
  BY <1>1, CallInTime DEF UpdateData
<1>2. CASE UNCHANGED <<pc, req, waiters>>
  BY <1>2 DEF UpdateData, InTime
<1> QED
  BY <1>1, <1>2 DEF UpdateData

\* A step inside the lock changes the phase only.
LEMMA MoveInTime ==
    ASSUME TypeOK, InTime, NEW t \in Tasks, pc[t] \in InLock,
           NEW q, pc' = [pc EXCEPT ![t] = q],
           \A u \in Tasks : read'[u].at = read[u].at,
           UNCHANGED <<inputs, last_result, req>>
    PROVE  InTime'
BY DEF TypeOK, InTime

LEMMA AcquireInTime ==
    ASSUME TypeOK, InTime, NEW t \in Tasks, Acquire(t)
    PROVE  InTime'
<1> USE Numbers
<1>1. UNCHANGED <<inputs, last_result>>
  BY DEF Acquire
<1>2. CASE Leave(t)
  BY <1>1, <1>2, LeaveInTime
<1>3. CASE /\ pc' = [pc EXCEPT ![t] = "prices"]
           /\ read' = [read EXCEPT ![t] = [at |-> inputs[req[t].owner],
                                           devs |-> Selected(req[t].filter),
                                           prev |-> NoPlans]]
           /\ UNCHANGED req
  <2>1. /\ \A u \in Tasks \ {t} : read'[u] = read[u] /\ pc'[u] = pc[u]
        /\ read'[t].at = inputs[req[t].owner]
    BY <1>3 DEF TypeOK
  <2> QED
    BY <1>1, <1>3, <2>1 DEF InTime
<1> QED
  BY <1>2, <1>3 DEF Acquire, Return, Abort

\* The solve of the lock's holder is stored: the new result is not older than
\* any other, and no other task is inside the lock.
LEMMA SolveReturnsInTime ==
    ASSUME TypeOK, Serialised, InTime, NEW t \in Tasks, SolveReturns(t)
    PROVE  InTime' /\ \A c \in Instances : last_result[c].at <= last_result'[c].at
<1> USE Numbers
<1> DEFINE c == req[t].owner
<1>1. /\ UNCHANGED inputs /\ c \in Instances /\ pc[t] \in InLock
      /\ \A u \in Tasks \ {t} : pc[u] \notin InLock
  BY DEF SolveReturns, TypeOK, Calls, InLock, Serialised
<1>2. /\ \A i \in Instances \ {c} : last_result'[i] = last_result[i]
      /\ last_result'[c].at \in {last_result[c].at, read[t].at}
  <2>1. CASE UNCHANGED last_result
    BY <2>1
  <2>2. ASSUME NEW r, r.at = read[t].at, last_result' = [last_result EXCEPT ![c] = r]
        PROVE  /\ \A i \in Instances \ {c} : last_result'[i] = last_result[i]
               /\ last_result'[c].at \in {last_result[c].at, read[t].at}
    BY <1>1, <2>2 DEF TypeOK
  <2>3. ASSUME NEW status \in Statuses
        PROVE  [status |-> status, at |-> read[t].at,
                devs |-> IF status \in Usable THEN read[t].devs ELSE {}].at = read[t].at
    OBVIOUS
  <2> QED
    BY <2>1, <2>2, <2>3 DEF SolveReturns, StoreResult, Apply
<1>3. read[t].at <= inputs[c] /\ last_result[c].at <= read[t].at
  BY <1>1 DEF InTime
<1>4. /\ \A i \in Instances : /\ last_result[i].at <= last_result'[i].at
                               /\ last_result'[i].at <= inputs[i]
      /\ last_result'[c].at <= read[t].at
  BY <1>1, <1>2, <1>3 DEF InTime
<1>5. CASE Leave(t)
  <2>1. /\ \A u \in Tasks \ {t} : req'[u] = req[u] /\ read'[u] = read[u] /\ pc'[u] = pc[u]
        /\ req'[t] = NoCall /\ read'[t] = NoRead /\ pc'[t] = "idle"
    BY <1>5 DEF TypeOK, Leave
  <2>2. "idle" \notin InLock
    BY DEF InLock
  <2> QED
    BY <1>1, <1>4, <2>1, <2>2, NoCallAsks DEF InTime
<1>6. CASE pc' = [pc EXCEPT ![t] = "actuating"] /\ UNCHANGED <<req, read>>
  <2>1. \A u \in Tasks \ {t} : pc'[u] = pc[u]
    BY <1>6 DEF TypeOK
  <2> QED
    BY <1>1, <1>4, <1>6, <2>1 DEF InTime
<1> QED
  BY <1>4, <1>5, <1>6 DEF SolveReturns, Return

LEMMA StepInTime ==
    ASSUME TypeOK, Serialised, InTime, NEW t \in Tasks, Request(t) \/ Step(t)
    PROVE  InTime' /\ \A c \in Instances : last_result[c].at <= last_result'[c].at
<1> USE Numbers
<1>0. ASSUME UNCHANGED last_result
      PROVE  \A c \in Instances : last_result[c].at <= last_result'[c].at
  BY <1>0
<1>1. CASE Request(t)
  <2>1. UNCHANGED <<inputs, last_result, read>>
    BY <1>1 DEF Request
  <2>2. PICK kind, dry, filter : Call(t, loaded, kind, dry, filter)
    BY <1>1 DEF Request
  <2>3. loaded \in Instances
    BY <1>1 DEF Request, TypeOK
  <2>4. InTime'
    BY <2>1, <2>2, <2>3, CallInTime
  <2> QED
    BY <1>0, <2>1, <2>4
<1>2. CASE Acquire(t)
  BY <1>0, <1>2, AcquireInTime DEF Acquire
<1>3. CASE PricesReturn(t)
  <2>1. pc[t] \in InLock
    BY <1>3 DEF PricesReturn, InLock
  <2> QED
    BY <1>3, <2>1, LeaveInTime, MoveInTime DEF PricesReturn, Return
<1>4. CASE SubmitSolve(t)
  <2>1. pc[t] \in InLock
    BY <1>4 DEF SubmitSolve, InLock
  <2>2. \A u \in Tasks : read'[u].at = read[u].at
    BY <1>4 DEF SubmitSolve, TypeOK, Reads
  <2>3. pc' = [pc EXCEPT ![t] = "solving"] /\ UNCHANGED <<inputs, last_result, req>>
    BY <1>4 DEF SubmitSolve
  <2>4. InTime'
    BY <2>1, <2>2, <2>3, MoveInTime
  <2> QED
    BY <1>0, <2>3, <2>4
<1>5. CASE SolveReturns(t)
  BY <1>5, SolveReturnsInTime
<1>6. CASE ActuationDone(t) \/ Raise(t)
  BY <1>6, LeaveInTime DEF ActuationDone, Raise, Return, Abort
<1>7. CASE Timeout(t)
  <2>1. CASE pc[t] = "waiting"
    <3>1. /\ \A u \in Tasks \ {t} : req'[u] = req[u] /\ pc'[u] = pc[u]
          /\ req'[t] = NoCall /\ pc'[t] = "idle"
      BY <1>7, <2>1 DEF Timeout, TypeOK
    <3> QED
      BY <1>7, <2>1, <3>1, NoCallAsks DEF Timeout, InTime, InLock
  <2>2. CASE pc[t] # "waiting"
    BY <1>7, <2>2, LeaveInTime DEF Timeout, Abort
  <2> QED
    BY <2>1, <2>2
<1> QED
  BY <1>1, <1>2, <1>3, <1>4, <1>5, <1>6, <1>7 DEF Step

LEMMA NextInTime ==
    ASSUME TypeOK, Serialised, InTime, [Next]_vars
    PROVE  InTime' /\ \A c \in Instances : last_result[c].at <= last_result'[c].at
<1> USE Numbers
<1>1. ASSUME NEW t \in Tasks, Request(t) \/ Step(t)
      PROVE  InTime' /\ \A c \in Instances : last_result[c].at <= last_result'[c].at
  BY <1>1, StepInTime
<1>2. CASE Refresh \/ Setup
  <2>1. UNCHANGED <<inputs, last_result, read>>
    BY <1>2 DEF Refresh, Setup, UpdateData
  <2>2. PICK c \in Instances : UpdateData(c)
    BY <1>2 DEF Refresh, Setup, TypeOK, Instances
  <2>3. InTime'
    BY <2>1, <2>2, UpdateDataInTime
  <2> QED
    BY <2>1, <2>3
<1>3. CASE ChangeInputs
  <2>1. /\ \A c \in Instances : inputs'[c] \in Nat /\ inputs[c] <= inputs'[c]
        /\ UNCHANGED <<req, read, pc, last_result>>
    BY <1>3 DEF ChangeInputs, TypeOK
  <2> QED
    BY <2>1 DEF InTime
<1>4. CASE OrphanEnds \/ Republish \/ Unload \/ EditDevices \/ UNCHANGED vars
  BY <1>4 DEF OrphanEnds, Republish, Unload, EditDevices, vars, InTime
<1> QED
  BY <1>1, <1>2, <1>3, <1>4 DEF Next

THEOREM AlwaysInTime == Spec => []InTime
<1>1. Init => InTime
  BY NoCallAsks DEF Init, InTime, NoResult, InLock
<1> QED
  BY <1>1, NextInTime, TypeCorrect, MutualExclusion, PTL DEF Spec

\* A caller of async_run_solver never gets a result computed from constraint
\* windows older than those of the moment it called.
THEOREM FreshReplies == Spec => []ReplanIsFresh
<1>1. Init => ReplanIsFresh
  BY DEF Init, ReplanIsFresh
<1>2. ASSUME TypeOK, InTime, ReplanIsFresh, [Next]_vars PROVE ReplanIsFresh'
  <2> USE Numbers
  <2>1. ASSUME NEW t \in Tasks, NEW at, Return(t, at), req[t].asked <= at, at \in Nat
        PROVE  ReplanIsFresh'
    <3>1. ~(at < req[t].asked)
      BY <1>2, <2>1
    <3> QED
      BY <1>2, <2>1, <3>1, Zenon DEF Return, ReplanIsFresh
  <2>2. ASSUME NEW t \in Tasks, Return(t, inputs[req[t].owner]) PROVE ReplanIsFresh'
    BY <1>2, <2>1, <2>2 DEF InTime
  <2>3. ASSUME NEW t \in Tasks, pc[t] \in InLock, Return(t, read[t].at) PROVE ReplanIsFresh'
    BY <1>2, <2>1, <2>3 DEF InTime
  <2>4. ASSUME NEW t \in Tasks, Step(t) PROVE ReplanIsFresh'
    BY <1>2, <2>2, <2>3, <2>4 DEF Step, Acquire, PricesReturn, SubmitSolve, SolveReturns,
       ActuationDone, Raise, Timeout, Abort, ReplanIsFresh, InLock
  <2>5. CASE UNCHANGED stale_reply
    BY <1>2, <2>5 DEF ReplanIsFresh
  <2> QED
    BY <1>2, <2>4, <2>5 DEF Next, Request, OrphanEnds, Refresh, Republish, Setup, Unload, ChangeInputs,
       EditDevices, vars
<1> QED
  BY <1>1, <1>2, TypeCorrect, AlwaysInTime, PTL DEF Spec

\* The result of an instance never steps back to older constraint windows.
THEOREM MovesForward == Spec => ResultsMoveForward
<1>1. ASSUME TypeOK, Serialised, InTime, [Next]_vars
      PROVE  [\A c \in Instances : last_result[c].at <= last_result'[c].at]_vars
  BY <1>1, NextInTime
<1> QED
  BY <1>1, TypeCorrect, MutualExclusion, AlwaysInTime, PTL DEF Spec, ResultsMoveForward

-----------------------------------------------------------------------------
(***************************************************************************)
(* The baseline of a solve and the price issue                             *)
(***************************************************************************)

\* Both properties speak of the tasks inside the lock and of state only the
\* lock's holder writes.
HolderState == PenaltyBaseline /\ NoSolveDuringPriceIssue

\* A task that leaves the lock, or passes through it, disturbs nobody.
LEMMA LeaveHolderState ==
    ASSUME TypeOK, HolderState, NEW t \in Tasks, Leave(t),
           UNCHANGED <<previous_plans, price_issue>>
    PROVE  HolderState'
<1>1. /\ \A u \in Tasks \ {t} : req'[u] = req[u] /\ read'[u] = read[u] /\ pc'[u] = pc[u]
      /\ pc'[t] = "idle"
  BY DEF TypeOK, Leave
<1> QED
  BY <1>1 DEF HolderState, PenaltyBaseline, NoSolveDuringPriceIssue

LEMMA CallHolderState ==
    ASSUME TypeOK, HolderState, NEW t \in Tasks, NEW c, NEW kind, NEW dry, NEW filter,
           Call(t, c, kind, dry, filter), UNCHANGED <<read, previous_plans, price_issue>>
    PROVE  HolderState'
<1>1. /\ \A u \in Tasks \ {t} : req'[u] = req[u] /\ pc'[u] = pc[u]
      /\ pc'[t] = "waiting"
  BY DEF TypeOK, Call
<1> QED
  BY <1>1 DEF HolderState, PenaltyBaseline, NoSolveDuringPriceIssue

\* When everybody else is outside the lock, only the task that moved matters.
LEMMA AloneHolderState ==
    ASSUME TypeOK, NEW t \in Tasks, \A u \in Tasks \ {t} : pc[u] \notin InLock,
           NEW q \in Phases, pc' = [pc EXCEPT ![t] = q],
           q \in {"constructing", "solving", "actuating"} => ~price_issue',
           q = "solving" => read'[t].prev = previous_plans'[req'[t].owner]
    PROVE  HolderState'
<1>1. /\ \A u \in Tasks \ {t} : pc'[u] \notin InLock
      /\ pc'[t] = q
  BY DEF TypeOK
<1> QED
  BY <1>1 DEF HolderState, PenaltyBaseline, NoSolveDuringPriceIssue, InLock

LEMMA StepHolderState ==
    ASSUME TypeOK, Serialised, HolderState, NEW t \in Tasks, Request(t) \/ Step(t)
    PROVE  HolderState'
<1>1. CASE Request(t)
  <2>1. PICK c, kind, dry, filter : Call(t, c, kind, dry, filter)
    BY <1>1 DEF Request
  <2>2. UNCHANGED <<read, previous_plans, price_issue>>
    BY <1>1 DEF Request
  <2> QED
    BY <2>1, <2>2, CallHolderState
<1>2. CASE Acquire(t)
  <2>1. \A u \in Tasks : pc[u] \notin InLock
    BY <1>2 DEF Acquire, LockFree, Serialised
  <2>2. "idle" \in Phases /\ "prices" \in Phases
    BY DEF Phases
  <2>3. \/ pc' = [pc EXCEPT ![t] = "idle"]
        \/ pc' = [pc EXCEPT ![t] = "prices"]
    BY <1>2 DEF Acquire, Return, Abort, Leave
  <2> QED
    BY <2>1, <2>2, <2>3, AloneHolderState
<1>3. CASE PricesReturn(t)
  <2>1. \A u \in Tasks \ {t} : pc[u] \notin InLock
    BY <1>3 DEF PricesReturn, InLock, Serialised
  <2>2. "idle" \in Phases /\ "constructing" \in Phases
    BY DEF Phases
  <2>3. \/ pc' = [pc EXCEPT ![t] = "idle"]
        \/ pc' = [pc EXCEPT ![t] = "constructing"] /\ ~price_issue'
    BY <1>3 DEF PricesReturn, Return, Leave, ClearIssue
  <2> QED
    BY <2>1, <2>2, <2>3, AloneHolderState
<1>4. CASE SubmitSolve(t)
  <2>1. \A u \in Tasks \ {t} : pc[u] \notin InLock
    BY <1>4 DEF SubmitSolve, InLock, Serialised
  <2>2. "solving" \in Phases
    BY DEF Phases
  <2>3. pc' = [pc EXCEPT ![t] = "solving"] /\ ~price_issue'
    BY <1>4 DEF SubmitSolve, HolderState, NoSolveDuringPriceIssue
  <2>4. read'[t].prev = previous_plans'[req'[t].owner]
    BY <1>4 DEF SubmitSolve, TypeOK, Reads
  <2> QED
    BY <2>1, <2>2, <2>3, <2>4, AloneHolderState
<1>5. CASE SolveReturns(t)
  <2>1. \A u \in Tasks \ {t} : pc[u] \notin InLock
    BY <1>5 DEF SolveReturns, InLock, Serialised
  <2>2. "idle" \in Phases /\ "actuating" \in Phases
    BY DEF Phases
  <2>3. ~price_issue'
    BY <1>5 DEF SolveReturns, HolderState, NoSolveDuringPriceIssue
  <2>4. \/ pc' = [pc EXCEPT ![t] = "idle"]
        \/ pc' = [pc EXCEPT ![t] = "actuating"]
    BY <1>5 DEF SolveReturns, Return, Leave
  <2> QED
    BY <2>1, <2>2, <2>3, <2>4, AloneHolderState
<1>6. CASE ActuationDone(t) \/ Raise(t)
  BY <1>6, LeaveHolderState DEF ActuationDone, Raise, Return, Abort
<1>7. CASE Timeout(t)
  <2>1. CASE pc[t] = "waiting"
    <3>1. /\ \A u \in Tasks \ {t} : req'[u] = req[u] /\ pc'[u] = pc[u]
          /\ pc'[t] = "idle" /\ UNCHANGED <<read, previous_plans, price_issue>>
      BY <1>7, <2>1 DEF Timeout, TypeOK
    <3> QED
      BY <3>1 DEF HolderState, PenaltyBaseline, NoSolveDuringPriceIssue
  <2>2. CASE pc[t] # "waiting"
    BY <1>7, <2>2, LeaveHolderState DEF Timeout, Abort
  <2> QED
    BY <2>1, <2>2
<1> QED
  BY <1>1, <1>2, <1>3, <1>4, <1>5, <1>6, <1>7 DEF Step

THEOREM HolderStateKept == Spec => []HolderState
<1>1. Init => HolderState
  BY DEF Init, HolderState, PenaltyBaseline, NoSolveDuringPriceIssue
<1>2. ASSUME TypeOK, Serialised, HolderState, [Next]_vars PROVE HolderState'
  <2> USE <1>2
  <2>1. ASSUME NEW t \in Tasks, Request(t) \/ Step(t) PROVE HolderState'
    BY <2>1, StepHolderState
  <2>2. CASE Refresh \/ Setup
    <3>1. UNCHANGED <<read, previous_plans, price_issue>>
      BY <2>2 DEF Refresh, Setup
    <3>2. \/ \E t \in Tasks : \E c : Call(t, c, "background", FALSE, {})
          \/ UNCHANGED <<pc, req, waiters>>
      BY <2>2 DEF Refresh, Setup, UpdateData
    <3>3. CASE UNCHANGED <<pc, req, waiters>>
      BY <3>1, <3>3 DEF HolderState, PenaltyBaseline, NoSolveDuringPriceIssue
    <3>4. CASE \E t \in Tasks : \E c : Call(t, c, "background", FALSE, {})
      BY <3>1, <3>4, CallHolderState
    <3> QED
      BY <3>2, <3>3, <3>4
  <2>3. CASE OrphanEnds \/ Republish \/ Unload \/ ChangeInputs \/ EditDevices \/ UNCHANGED vars
    BY <2>3 DEF OrphanEnds, Republish, Unload, ChangeInputs, EditDevices, vars, HolderState,
       PenaltyBaseline, NoSolveDuringPriceIssue
  <2> QED
    BY <2>1, <2>2, <2>3 DEF Next
<1> QED
  BY <1>1, <1>2, TypeCorrect, MutualExclusion, PTL DEF Spec

\* The plans a solve penalises switching against stay the instance's plans in
\* force until the solve returns, whatever other tasks do meanwhile.
THEOREM BaselineStands == Spec => []PenaltyBaseline
<1>1. HolderState => PenaltyBaseline
  BY DEF HolderState
<1> QED
  BY <1>1, HolderStateKept, PTL

\* The price_unavailable issue is never shown while a solve is under way.
THEOREM IssueMeansNoSolve == Spec => []NoSolveDuringPriceIssue
<1>1. HolderState => NoSolveDuringPriceIssue
  BY DEF HolderState
<1> QED
  BY <1>1, HolderStateKept, PTL
=============================================================================
