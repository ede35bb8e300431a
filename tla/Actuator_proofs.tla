--------------------------- MODULE Actuator_proofs ---------------------------
(***************************************************************************)
(* Safety of Actuator for any passes, devices, orders and attempts.        *)
(***************************************************************************)
EXTENDS Actuator, TLAPS, WellFoundedInduction

USE DevicesAssumption, OrderAssumption, AttemptsAssumption

-----------------------------------------------------------------------------
(***************************************************************************)
(* The device a pass has in hand                                           *)
(***************************************************************************)

LEMMA LessIsWellFounded == IsWellFoundedOn(OpToRel(<, Nat), Nat)
BY NatLessThanWellFounded, Zenon

LEMMA LessPairs == \A x, y \in Nat : x < y => <<x, y>> \in OpToRel(<, Nat)
BY SMT DEF OpToRel

\* Any devices have a first one in the order of the entry.
LEMMA FirstIn ==
    ASSUME NEW S \in SUBSET Devices, S # {}
    PROVE  First(S) \in S
<1> DEFINE T == {Order[d] : d \in S}
<1>1. T \subseteq Nat /\ T # {}
  OBVIOUS
<1> HIDE DEF T
<1>2. PICK x \in T : \A y \in T : ~ (<<y, x>> \in OpToRel(<, Nat))
  BY <1>1, LessIsWellFounded, WFMin, Zenon
<1>3. PICK d \in S : x = Order[d]
  BY DEF T
<1>4. \A e \in S : Order[e] \in T
  BY DEF T
<1>5. \A e \in S : Order[e] \in Nat /\ ~(Order[e] < x) /\ x \in Nat
  BY <1>1, <1>2, <1>4, LessPairs
<1>6. \E f \in S : \A e \in S : Order[f] <= Order[e]
  BY <1>3, <1>5
<1> QED
  BY <1>6, Zenon DEF First

-----------------------------------------------------------------------------
(***************************************************************************)
(* Types and attempts                                                      *)
(***************************************************************************)

\* The strengthening of TypeOK: a pass that has not begun a device has made no
\* attempt on it, one in its backoff has an attempt left; a closed one has nothing
\* to do.
PassOK(s) ==
    /\ s \in PassStates
    /\ s.kind = "none" => s.todo = {}
    /\ s.pc # "next" => s.todo # {}
    /\ s.todo # {} => s.attempt <= Attempts[First(s.todo)]
    /\ s.pc = "next" => s.attempt = 0
    /\ s.pc = "backoff" => s.attempt < Attempts[First(s.todo)]

\* The state of the devices.
RestOK ==
    /\ enabled \in BOOLEAN
    /\ override \subseteq Devices /\ forbidden \subseteq Devices
    /\ condition \in [Devices -> Conditions]
    /\ cut \subseteq Devices /\ safed \subseteq Devices
    /\ issues \subseteq {"self_confirming", "verify_failed"} \X Devices

Known == /\ RestOK
         /\ pass \in [Passes -> PassStates]
         /\ \A p \in Passes : PassOK(pass[p])

LEMMA KnownTypes == Known => TypeOK
BY DEF Known, RestOK, PassOK, TypeOK, Current

LEMMA CurrentIn ==
    ASSUME Known, NEW p \in Passes, pass[p].todo # {}
    PROVE  /\ Current(p) \in pass[p].todo /\ Current(p) \in Devices
           /\ Attempts[Current(p)] \in Nat \ {0}
<1>1. pass[p].todo \in SUBSET Devices
  BY DEF Known, PassStates
<1> QED
  BY <1>1, FirstIn DEF Current

\* A step changes one pass.
LEMMA OnePass ==
    ASSUME Known, NEW p \in Passes, NEW s, PassOK(s), pass' = [pass EXCEPT ![p] = s], RestOK'
    PROVE  Known' /\ pass'[p] = s /\ \A q \in Passes \ {p} : pass'[q] = pass[q]
BY DEF Known, PassOK

LEMMA OpenedOK ==
    ASSUME NEW kind \in Kinds \cup {"none"}, NEW todo \in SUBSET Devices,
           NEW checked \in BOOLEAN, kind = "none" => todo = {}
    PROVE  PassOK(Opened(kind, todo, checked))
<1>1. Opened(kind, todo, checked) \in PassStates
  BY DEF Opened, PassStates, PCs
<1>2. todo # {} => First(todo) \in Devices
  BY FirstIn
<1> QED
  BY <1>1, <1>2 DEF PassOK, Opened

\* What a pass is after its device.
Advanced(s) == [s EXCEPT !.todo = @ \ {First(s.todo)}, !.pc = "next", !.attempt = 0,
                         !.failed = FALSE]

LEMMA AdvanceOK ==
    ASSUME Known, NEW p \in Passes, Advance(p)
    PROVE  /\ pass' = [pass EXCEPT ![p] = Advanced(pass[p])]
           /\ PassOK(Advanced(pass[p]))
           /\ Advanced(pass[p]).kind = pass[p].kind
           /\ Advanced(pass[p]).pc = "next"
<1>1. pass[p] \in PassStates
  BY DEF Known
<1>2. pass' = [pass EXCEPT ![p] = Advanced(pass[p])]
  BY <1>1 DEF Advance, Advanced, Others, Current, Known, PassStates
<1>3. /\ Advanced(pass[p]) \in PassStates /\ Advanced(pass[p]).attempt = 0
      /\ Advanced(pass[p]).pc = "next" /\ Advanced(pass[p]).kind = pass[p].kind
  BY <1>1 DEF Advanced, PassStates, PCs
<1>4. Advanced(pass[p]).todo # {} => First(Advanced(pass[p]).todo) \in Devices
  BY <1>3, FirstIn DEF PassStates
<1>5. pass[p].todo = {} => Advanced(pass[p]).todo = {}
  BY <1>1 DEF Advanced, PassStates
<1>6. pass[p].kind = "none" => pass[p].todo = {}
  BY DEF Known, PassOK
<1> QED
  BY <1>2, <1>3, <1>4, <1>5, <1>6 DEF PassOK

\* The records the steps of the retry loop leave behind.
Calling(s)       == [s EXCEPT !.pc = "calling", !.attempt = @ + 1]
Safing(s, failed) == [s EXCEPT !.pc = "safe", !.failed = failed]

LEMMA InvokeSafeDefaultOK ==
    ASSUME Known, NEW p \in Passes, pass[p].todo # {}, NEW failed \in BOOLEAN,
           InvokeSafeDefault(p, failed), UNCHANGED <<enabled, override, forbidden>>
    PROVE  /\ Known' /\ pass'[p].kind = pass[p].kind /\ pass'[p].pc = "safe"
           /\ \A q \in Passes \ {p} : pass'[q] = pass[q]
<1>1. pass[p] \in PassStates /\ PassOK(pass[p])
  BY DEF Known
<1>2. pass' = [pass EXCEPT ![p] = Safing(pass[p], failed)]
  BY <1>1 DEF InvokeSafeDefault, Safing, Known, PassStates
<1>3. /\ Safing(pass[p], failed) \in PassStates /\ Safing(pass[p], failed).pc = "safe"
      /\ Safing(pass[p], failed).kind = pass[p].kind
      /\ Safing(pass[p], failed).todo = pass[p].todo
      /\ Safing(pass[p], failed).attempt = pass[p].attempt
  BY <1>1 DEF Safing, PassStates, PCs
<1>4. PassOK(Safing(pass[p], failed))
  BY <1>1, <1>3 DEF PassOK
<1>5. RestOK'
  BY CurrentIn DEF Known, RestOK, InvokeSafeDefault, Conditions
<1> QED
  BY <1>2, <1>3, <1>4, <1>5, OnePass

\* An attempt starts the action or, in a window, the safe default.
LEMMA AttemptOK ==
    ASSUME Known, NEW p \in Passes, pass[p].todo # {}, pass[p].pc \in {"next", "backoff"},
           Attempt(p), UNCHANGED <<enabled, override, forbidden>>
    PROVE  /\ Known' /\ pass'[p].kind = pass[p].kind /\ pass'[p].todo = pass[p].todo
           /\ \/ pass'[p].pc = "safe" /\ InvokeSafeDefault(p, FALSE)
              \/ /\ pass'[p].pc = "calling" /\ Clear(p)
                 /\ condition' = [condition EXCEPT ![Current(p)] = "acting"]
                 /\ cut' = cut \ {Current(p)} /\ UNCHANGED <<safed, issues>>
           /\ \A q \in Passes \ {p} : pass'[q] = pass[q]
<1>1. pass[p] \in PassStates /\ PassOK(pass[p])
  BY DEF Known
<1>2. CASE InvokeSafeDefault(p, FALSE)
  <2>1. pass'[p].todo = pass[p].todo
    BY <1>1, <1>2 DEF InvokeSafeDefault, Known, PassStates
  <2> QED
    BY <1>2, <2>1, InvokeSafeDefaultOK
<1>3. CASE /\ Clear(p)
           /\ pass' = [pass EXCEPT ![p].pc = "calling", ![p].attempt = NextAttempt(p)]
           /\ condition' = [condition EXCEPT ![Current(p)] = "acting"]
           /\ cut' = cut \ {Current(p)}
           /\ UNCHANGED <<safed, issues>>
  <2>1. pass' = [pass EXCEPT ![p] = Calling(pass[p])]
    BY <1>1, <1>3 DEF Calling, NextAttempt, Known, PassStates
  <2>2. /\ Calling(pass[p]) \in PassStates /\ Calling(pass[p]).pc = "calling"
        /\ Calling(pass[p]).kind = pass[p].kind /\ Calling(pass[p]).todo = pass[p].todo
        /\ Calling(pass[p]).attempt = pass[p].attempt + 1
    <3>1. pass[p].attempt + 1 \in Nat /\ "calling" \in PCs
      BY <1>1 DEF PassStates, PCs
    <3> QED
      BY <1>1, <3>1 DEF Calling, PassStates
  <2>3. pass[p].attempt + 1 <= Attempts[First(pass[p].todo)]
    BY <1>1, CurrentIn DEF PassOK, PassStates, Current
  <2>4. PassOK(Calling(pass[p]))
    BY <1>1, <2>2, <2>3 DEF PassOK
  <2>5. RestOK'
    BY <1>3, CurrentIn DEF Known, RestOK, Conditions
  <2> QED
    BY <1>3, <2>1, <2>2, <2>4, <2>5, OnePass
<1> QED
  BY <1>2, <1>3 DEF Attempt

LEMMA OpenOK ==
    ASSUME Known, NEW p \in Passes, Start(p)
    PROVE  /\ Known' /\ pass'[p].pc = "next"
           /\ \A q \in Passes \ {p} : pass'[q] = pass[q]
<1>1. PICK kind \in Kinds, todo \in SUBSET Devices, checked \in BOOLEAN :
          Open(p, kind, todo, checked)
  <2>1. CASE StartSolvePass(p)
    BY <2>1 DEF StartSolvePass, Kinds
  <2>2. CASE StartActuateNow(p)
    BY <2>2 DEF StartActuateNow, Kinds
  <2>3. CASE StartWatchdog(p)
    BY <2>3 DEF StartWatchdog, Kinds
  <2> QED
    BY <2>1, <2>2, <2>3 DEF Start
<1>2. PassOK(Opened(kind, todo, checked)) /\ Opened(kind, todo, checked).pc = "next"
  BY OpenedOK DEF Opened, Kinds
<1>3. RestOK'
  BY <1>1 DEF Open, Known, RestOK
<1> QED
  BY <1>1, <1>2, <1>3, OnePass DEF Open

LEMMA ClosedOK ==
    ASSUME Known, NEW p \in Passes, EndPass(p) \/ Raise(p) \/ Cancel(p)
    PROVE  /\ Known' /\ pass'[p] = Closed
           /\ \A q \in Passes \ {p} : pass'[q] = pass[q]
<1>1. PassOK(Closed)
  BY OpenedOK DEF Closed
<1>2. pass[p].todo # {} => Current(p) \in Devices
  BY CurrentIn
<1>3. RestOK' /\ pass' = [pass EXCEPT ![p] = Closed]
  BY <1>2 DEF EndPass, Raise, Cancel, CutShort, Known, RestOK
<1> QED
  BY <1>1, <1>3, OnePass

\* A device is done.
LEMMA DoneOK ==
    ASSUME Known, NEW p \in Passes, Advance(p), RestOK'
    PROVE  /\ Known' /\ pass'[p].kind = pass[p].kind /\ pass'[p].pc = "next"
           /\ \A q \in Passes \ {p} : pass'[q] = pass[q]
BY AdvanceOK, OnePass

\* Verification starts or its backoff.
LEMMA PollOK ==
    ASSUME Known, NEW p \in Passes, pass[p].todo # {}, pass[p].pc # "next",
           NEW q \in {"verifying", "backoff"}, pass' = [pass EXCEPT ![p].pc = q],
           q = "backoff" => AttemptsLeft(p), RestOK'
    PROVE  /\ Known' /\ pass'[p].kind = pass[p].kind /\ pass'[p].pc = q
           /\ pass'[p].todo = pass[p].todo
           /\ \A r \in Passes \ {p} : pass'[r] = pass[r]
<1> DEFINE s == [pass[p] EXCEPT !.pc = q]
<1>1. pass[p] \in PassStates /\ PassOK(pass[p])
  BY DEF Known
<1>2. /\ s \in PassStates /\ s.pc = q /\ s.kind = pass[p].kind
      /\ s.todo = pass[p].todo /\ s.attempt = pass[p].attempt
  BY <1>1 DEF PassStates, PCs
<1>3. pass' = [pass EXCEPT ![p] = s]
  BY <1>1 DEF Known, PassStates
<1> HIDE DEF s
<1>4. PassOK(s)
  BY <1>1, <1>2 DEF PassOK, AttemptsLeft, Current
<1> QED
  BY <1>2, <1>3, <1>4, OnePass

LEMMA StepOK ==
    ASSUME Known, NEW p \in Passes, Step(p)
    PROVE  /\ Known' /\ \A q \in Passes \ {p} : pass'[q] = pass[q]
           /\ pass'[p].pc = "next" \/ pass'[p].kind = pass[p].kind
<1>1. PassOK(pass[p])
  BY DEF Known
<1>2. pass[p].todo # {} => Current(p) \in Devices
  BY CurrentIn
<1>3. CASE Turn(p)
  <2>1. CASE InvokeSafeDefault(p, FALSE)
    BY <1>3, <2>1, InvokeSafeDefaultOK DEF Turn
  <2>2. CASE /\ Advance(p) /\ UNCHANGED <<condition, cut, safed>>
             /\ \/ UNCHANGED issues
                \/ issues' = issues \cup {<<"self_confirming", Current(p)>>}
    <3>1. RestOK'
      BY <1>2, <1>3, <2>2 DEF Turn, Known, RestOK
    <3> QED
      BY <2>2, <3>1, DoneOK
  <2>3. CASE Attempt(p)
    BY <1>3, <2>3, AttemptOK DEF Turn
  <2> QED
    BY <1>3, <2>1, <2>2, <2>3 DEF Turn
<1>4. CASE ScriptReturns(p)
  <2>1. RestOK'
    BY <1>4 DEF ScriptReturns, Known, RestOK
  <2>2. pass[p].todo # {}
    BY <1>1, <1>4 DEF ScriptReturns, PassOK
  <2> QED
    BY <1>4, <2>1, <2>2, DoneOK, PollOK DEF ScriptReturns
<1>5. CASE Verify(p)
  <2>1. pass[p].todo # {}
    BY <1>1, <1>5 DEF Verify, PassOK
  <2>2. CASE /\ condition' = [condition EXCEPT ![Current(p)] =
                                IF @ = "acting" THEN "verified" ELSE @]
             /\ Advance(p) /\ UNCHANGED <<cut, safed, issues>>
    <3>1. RestOK'
      BY <1>2, <1>5, <2>1, <2>2 DEF Verify, Known, RestOK, Conditions
    <3> QED
      BY <2>2, <3>1, DoneOK
  <2>3. CASE AttemptsLeft(p) /\ pass' = [pass EXCEPT ![p].pc = "backoff"]
             /\ UNCHANGED <<condition, cut, safed, issues>>
    <3>1. RestOK'
      BY <1>5, <2>3 DEF Verify, Known, RestOK
    <3> QED
      BY <1>5, <2>1, <2>3, <3>1, PollOK DEF Verify
  <2>4. CASE GiveUp(p)
    BY <1>5, <2>1, <2>4, InvokeSafeDefaultOK DEF Verify, GiveUp
  <2> QED
    BY <1>5, <2>2, <2>3, <2>4 DEF Verify
<1>6. CASE Retry(p)
  <2>1. pass[p].todo # {}
    BY <1>1, <1>6 DEF Retry, PassOK
  <2> QED
    BY <1>6, <2>1, AttemptOK DEF Retry
<1>7. CASE SafeDefaultReturns(p)
  <2>1. pass[p].todo # {}
    BY <1>1, <1>7 DEF SafeDefaultReturns, PassOK
  <2>2. RestOK'
    BY <1>2, <1>7, <2>1 DEF SafeDefaultReturns, Known, RestOK
  <2> QED
    BY <1>7, <2>2, DoneOK DEF SafeDefaultReturns
<1>8. CASE EndPass(p)
  BY <1>8, ClosedOK DEF Closed, Opened
<1> QED
  BY <1>3, <1>4, <1>5, <1>6, <1>7, <1>8 DEF Step

LEMMA NextOK == ASSUME Known, [Next]_vars PROVE Known'
<1>1. CASE SetOverride \/ ChangeWindow
  BY <1>1 DEF SetOverride, ChangeWindow, Toggle, Known, RestOK
<1>2. CASE UNCHANGED vars
  BY <1>2 DEF vars, Known, RestOK, PassOK
<1> QED
  BY <1>1, <1>2, OpenOK, StepOK, ClosedOK DEF Next

LEMMA InitOK == Init => Known
<1> SUFFICES ASSUME Init PROVE Known
  OBVIOUS
<1>1. PassOK(Closed)
  BY OpenedOK DEF Closed
<1> QED
  BY <1>1 DEF Init, Known, RestOK, PassOK, Conditions

LEMMA KnownAlways == Spec => []Known
BY InitOK, NextOK, PTL DEF Spec

\* No pass makes more attempts than the action's max_attempts, however passes
\* interleave.
THEOREM TypeCorrect == Spec => []TypeOK
BY KnownAlways, KnownTypes, PTL

-----------------------------------------------------------------------------
(***************************************************************************)
(* Read-only mode and forbidden windows                                    *)
(***************************************************************************)

\* With actuation disabled a pass that is not the watchdog's passes over every
\* device.
THEOREM ReadOnlyKept == Spec => []ReadOnly
<1>1. Init => ReadOnly
  BY DEF Init, ReadOnly, Closed, Opened, IsOpen
<1>2. ASSUME Known, ReadOnly, [Next]_vars PROVE ReadOnly'
  <2> USE <1>2
  <2>1. ASSUME NEW p \in Passes, UNCHANGED enabled,
               \A q \in Passes \ {p} : pass'[q] = pass[q],
               \/ pass'[p].pc = "next"
               \/ pass'[p].kind = pass[p].kind /\ pass[p].pc # "next"
               \/ pass'[p].kind = "watchdog"
               \/ enabled
        PROVE  ReadOnly'
    BY <2>1 DEF ReadOnly, IsOpen
  <2>2. ASSUME NEW p \in Passes, Start(p) PROVE ReadOnly'
    BY <2>1, <2>2, OpenOK DEF Start, StartSolvePass, StartActuateNow, StartWatchdog, Open
  <2>3. ASSUME NEW p \in Passes, EndPass(p) \/ Raise(p) \/ Cancel(p) PROVE ReadOnly'
    BY <2>1, <2>3, ClosedOK DEF EndPass, Raise, Cancel, CutShort, Closed, Opened
  <2>4. ASSUME NEW p \in Passes, Turn(p) PROVE ReadOnly'
    <3>1. /\ \A q \in Passes \ {p} : pass'[q] = pass[q]
          /\ pass'[p].pc = "next" \/ pass'[p].kind = pass[p].kind
          /\ UNCHANGED enabled
      BY <2>4, StepOK DEF Step, Turn
    <3>2. CASE pass[p].kind = "watchdog" \/ enabled
      BY <2>1, <3>1, <3>2
    <3>3. CASE pass[p].kind # "watchdog" /\ ~enabled
      <4>1. Advance(p)
        BY <2>4, <3>3 DEF Turn, Suspended
      <4>2. pass'[p].pc = "next"
        BY <4>1, AdvanceOK DEF Known
      <4> QED
        BY <2>1, <3>1, <4>2
    <3> QED
      BY <3>2, <3>3
  <2>5. ASSUME NEW p \in Passes, Step(p), ~Turn(p), ~EndPass(p) PROVE ReadOnly'
    <3>1. UNCHANGED enabled /\ pass[p].pc # "next"
      BY <2>5 DEF Step, ScriptReturns, Verify, Retry, SafeDefaultReturns
    <3> QED
      BY <2>1, <2>5, <3>1, StepOK
  <2>6. CASE SetOverride \/ ChangeWindow \/ UNCHANGED vars
    BY <2>6 DEF SetOverride, ChangeWindow, vars, ReadOnly, IsOpen
  <2> QED
    BY <2>2, <2>3, <2>4, <2>5, <2>6 DEF Next, Step
<1> QED
  BY <1>1, <1>2, KnownAlways, PTL DEF Spec

\* The windows are looked at before every attempt, the retried ones too.
THEOREM WindowsRespected == Spec => NeverIntoForbidden
<1>1. ASSUME Known, [Next]_vars
      PROVE  [\A p \in Passes :
                (pass'[p].pc = "calling" /\ pass[p].pc # "calling" /\ pass[p].checked)
                   => Current(p) \notin forbidden]_vars
  <2> USE <1>1
  <2> SUFFICES ASSUME NEW p \in Passes, pass'[p].pc = "calling", pass[p].pc # "calling",
                      pass[p].checked
               PROVE  Current(p) \notin forbidden
    OBVIOUS
  <2>1. PICK q \in Passes : Start(q) \/ Step(q) \/ Raise(q) \/ Cancel(q)
    BY DEF Next, SetOverride, ChangeWindow, vars
  <2>2. q = p
    BY <2>1, OpenOK, StepOK, ClosedOK
  <2>3. ~Start(p) /\ ~EndPass(p) /\ ~Raise(p) /\ ~Cancel(p)
    BY OpenOK, ClosedOK DEF Closed, Opened
  <2>4. ~Advance(p)
    BY AdvanceOK DEF Known
  <2>6. ~ScriptReturns(p) /\ ~Verify(p) /\ ~SafeDefaultReturns(p)
    <3>1. ~ScriptReturns(p)
      BY <2>4 DEF ScriptReturns
    <3>2. ~SafeDefaultReturns(p)
      BY <2>4 DEF SafeDefaultReturns
    <3>3. ~Verify(p)
      BY <2>4 DEF Verify, GiveUp, InvokeSafeDefault, Known, PassStates
    <3> QED
      BY <3>1, <3>2, <3>3
  <2>7. CASE Turn(p)
    <3>1. ~InvokeSafeDefault(p, FALSE)
      BY DEF InvokeSafeDefault, Known, PassStates
    <3>2. Attempt(p) /\ pass[p].todo # {} /\ pass[p].pc = "next"
          /\ UNCHANGED <<enabled, override, forbidden>>
      BY <2>4, <2>7, <3>1 DEF Turn
    <3> QED
      BY <3>1, <3>2 DEF Attempt, Clear
  <2>8. CASE Retry(p)
    <3>1. ~InvokeSafeDefault(p, FALSE)
      BY DEF InvokeSafeDefault, Known, PassStates
    <3> QED
      BY <2>8, <3>1 DEF Retry, Attempt, Clear
  <2> QED
    BY <2>1, <2>2, <2>3, <2>6, <2>7, <2>8 DEF Step
<1> QED
  BY <1>1, KnownAlways, PTL DEF Spec, NeverIntoForbidden

-----------------------------------------------------------------------------
(***************************************************************************)
(* Nothing is left acting                                                  *)
(***************************************************************************)

\* A pass has d in hand and has not given up on it.
Acting(p, d) == InHand(p, d) /\ pass[p].pc # "safe"

\* The strengthening of ActionIsConcluded: a pass that is making d safe does not
\* answer for an action that another pass started since.
Concluding ==
    \A d \in Verifying :
        condition[d] = "acting" => d \in cut \/ \E p \in Passes : Acting(p, d)

\* What a step of pass p has to show for a device.
LEMMA ConcludedByStep ==
    ASSUME Concluding, NEW p \in Passes, \A q \in Passes \ {p} : pass'[q] = pass[q],
           \A d \in Verifying : condition'[d] = "acting" =>
               \/ d \in cut' \/ Acting(p, d)'
               \/ condition[d] = "acting" /\ (d \in cut => d \in cut') /\ ~Acting(p, d)
    PROVE  Concluding'
<1> SUFFICES ASSUME NEW d \in Verifying, condition'[d] = "acting"
             PROVE  d \in cut' \/ \E q \in Passes : Acting(q, d)'
  BY DEF Concluding
<1>1. CASE d \in cut' \/ Acting(p, d)'
  BY <1>1
<1>2. CASE condition[d] = "acting" /\ (d \in cut => d \in cut') /\ ~Acting(p, d)
  <2>1. CASE d \in cut
    BY <1>2, <2>1
  <2>2. CASE d \notin cut
    <3>1. PICK q \in Passes : Acting(q, d)
      BY <1>2, <2>2 DEF Concluding
    <3>2. q # p /\ pass'[q] = pass[q]
      BY <1>2, <3>1
    <3>3. Acting(q, d)'
      BY <3>1, <3>2 DEF Acting, InHand, Current
    <3> QED
      BY <3>3
  <2> QED
    BY <2>1, <2>2
<1> QED
  BY <1>1, <1>2

LEMMA InvokeSafeDefaultConcludes ==
    ASSUME Known, Concluding, NEW p \in Passes, pass[p].todo # {}, NEW failed \in BOOLEAN,
           InvokeSafeDefault(p, failed), UNCHANGED <<enabled, override, forbidden>>
    PROVE  Concluding'
<1>1. \A q \in Passes \ {p} : pass'[q] = pass[q]
  BY InvokeSafeDefaultOK
<1>2. ASSUME NEW d \in Verifying, condition'[d] = "acting"
      PROVE  condition[d] = "acting" /\ (d \in cut => d \in cut') /\ ~Acting(p, d)
  <2>1. d # Current(p)
    BY <1>2, CurrentIn DEF InvokeSafeDefault, Known, RestOK
  <2>2. condition[d] = "acting" /\ (d \in cut => d \in cut')
    BY <1>2, <2>1, CurrentIn DEF InvokeSafeDefault, Known, RestOK
  <2> QED
    BY <2>1, <2>2 DEF Acting, InHand
<1> QED
  BY <1>1, <1>2, ConcludedByStep

LEMMA AttemptConcludes ==
    ASSUME Known, Concluding, NEW p \in Passes, pass[p].todo # {},
           pass[p].pc \in {"next", "backoff"}, Attempt(p),
           UNCHANGED <<enabled, override, forbidden>>
    PROVE  Concluding'
<1>1. CASE InvokeSafeDefault(p, FALSE)
  BY <1>1, InvokeSafeDefaultConcludes
<1>2. CASE /\ pass'[p].pc = "calling"
           /\ condition' = [condition EXCEPT ![Current(p)] = "acting"]
           /\ cut' = cut \ {Current(p)}
  <2>1. /\ \A q \in Passes \ {p} : pass'[q] = pass[q]
        /\ pass'[p].todo = pass[p].todo
    BY AttemptOK
  <2>2. ASSUME NEW d \in Verifying, condition'[d] = "acting"
        PROVE  \/ Acting(p, d)'
               \/ condition[d] = "acting" /\ (d \in cut => d \in cut') /\ ~Acting(p, d)
    <3>1. CASE d = Current(p)
      BY <1>2, <2>1, <3>1 DEF Acting, InHand, Current
    <3>2. CASE d # Current(p)
      <4>1. condition[d] = "acting" /\ (d \in cut => d \in cut')
        BY <1>2, <2>2, <3>2, CurrentIn DEF Known, RestOK
      <4> QED
        BY <3>2, <4>1 DEF Acting, InHand
    <3> QED
      BY <3>1, <3>2
  <2> QED
    BY <2>1, <2>2, ConcludedByStep
<1> QED
  BY <1>1, <1>2, AttemptOK

\* A pass that ends, or is cut short, leaves the device it had in hand in cut.
LEMMA CloseConcludes ==
    ASSUME Known, Concluding, NEW p \in Passes, EndPass(p) \/ Raise(p) \/ Cancel(p)
    PROVE  Concluding'
<1>1. \A q \in Passes \ {p} : pass'[q] = pass[q]
  BY ClosedOK
<1>2. UNCHANGED condition
  BY DEF EndPass, Raise, Cancel, CutShort
<1>3. ASSUME NEW d \in Verifying, condition'[d] = "acting"
      PROVE  \/ d \in cut'
             \/ condition[d] = "acting" /\ (d \in cut => d \in cut') /\ ~Acting(p, d)
  <2>1. CASE EndPass(p)
    BY <1>2, <1>3, <2>1 DEF EndPass, Acting, InHand
  <2>2. CASE CutShort(p)
    BY <1>2, <1>3, <2>2 DEF CutShort, Acting, InHand
  <2> QED
    BY <2>1, <2>2 DEF Raise, Cancel
<1> QED
  BY <1>1, <1>3, ConcludedByStep

LEMMA StepConcludes ==
    ASSUME Known, Concluding, NEW p \in Passes, Step(p)
    PROVE  Concluding'
<1>0. /\ \A q \in Passes \ {p} : pass'[q] = pass[q]
      /\ PassOK(pass[p])
  BY StepOK DEF Known
<1>1. CASE Turn(p)
  <2>1. CASE InvokeSafeDefault(p, FALSE)
    BY <1>1, <2>1, InvokeSafeDefaultConcludes DEF Turn
  <2>2. CASE UNCHANGED <<condition, cut>>
    <3>1. \A d \in Verifying : ~Acting(p, d)
      BY <1>1 DEF Turn, Acting, InHand
    <3> QED
      BY <1>0, <2>2, <3>1, ConcludedByStep
  <2>3. CASE Attempt(p)
    BY <1>1, <2>3, AttemptConcludes DEF Turn
  <2> QED
    BY <1>1, <2>1, <2>2, <2>3 DEF Turn
<1>2. CASE ScriptReturns(p)
  <2>1. UNCHANGED <<condition, cut>>
    BY <1>2 DEF ScriptReturns
  <2>2. CASE Current(p) \in Verifying
    <3>1. pass' = [pass EXCEPT ![p].pc = "verifying"]
      BY <1>2, <2>2 DEF ScriptReturns
    <3>2. pass'[p].pc = "verifying" /\ pass'[p].todo = pass[p].todo
      BY <3>1 DEF Known, PassStates
    <3>3. \A d \in Verifying : Acting(p, d) => Acting(p, d)'
      BY <3>2 DEF Acting, InHand, Current
    <3> QED
      BY <1>0, <2>1, <3>3, ConcludedByStep
  <2>3. CASE Current(p) \notin Verifying
    <3>1. \A d \in Verifying : ~Acting(p, d)
      BY <2>3 DEF Acting, InHand
    <3> QED
      BY <1>0, <2>1, <3>1, ConcludedByStep
  <2> QED
    BY <2>2, <2>3
<1>3. CASE Verify(p)
  <2>1. pass[p].todo # {}
    BY <1>0, <1>3 DEF Verify, PassOK
  <2>2. CASE condition' = [condition EXCEPT ![Current(p)] =
                             IF @ = "acting" THEN "verified" ELSE @] /\ UNCHANGED cut
    <3>1. ASSUME NEW d \in Verifying, condition'[d] = "acting"
          PROVE  condition[d] = "acting" /\ ~Acting(p, d)
      BY <2>1, <2>2, <3>1, CurrentIn DEF Known, RestOK, Acting, InHand
    <3> QED
      BY <1>0, <2>2, <3>1, ConcludedByStep
  <2>3. CASE pass' = [pass EXCEPT ![p].pc = "backoff"] /\ UNCHANGED <<condition, cut>>
    <3>1. pass'[p].pc = "backoff" /\ pass'[p].todo = pass[p].todo
      BY <2>3 DEF Known, PassStates
    <3>2. \A d \in Verifying : Acting(p, d) => Acting(p, d)'
      BY <3>1 DEF Acting, InHand, Current
    <3> QED
      BY <1>0, <2>3, <3>2, ConcludedByStep
  <2>4. CASE GiveUp(p)
    BY <1>3, <2>1, <2>4, InvokeSafeDefaultConcludes DEF Verify, GiveUp
  <2> QED
    BY <1>3, <2>2, <2>3, <2>4 DEF Verify
<1>4. CASE Retry(p)
  <2>1. pass[p].todo # {}
    BY <1>0, <1>4 DEF Retry, PassOK
  <2> QED
    BY <1>4, <2>1, AttemptConcludes DEF Retry
<1>5. CASE SafeDefaultReturns(p)
  <2>1. UNCHANGED <<condition, cut>> /\ \A d \in Verifying : ~Acting(p, d)
    BY <1>5 DEF SafeDefaultReturns, Acting
  <2> QED
    BY <1>0, <2>1, ConcludedByStep
<1>6. CASE EndPass(p)
  BY <1>6, CloseConcludes
<1> QED
  BY <1>1, <1>2, <1>3, <1>4, <1>5, <1>6 DEF Step

LEMMA ConcludingAlways == Spec => []Concluding
<1>1. Init => Concluding
  BY DEF Init, Concluding
<1>2. ASSUME Known, Concluding, [Next]_vars PROVE Concluding'
  <2> USE <1>2
  <2>1. ASSUME NEW p \in Passes, Start(p) PROVE Concluding'
    <3>1. UNCHANGED <<condition, cut>> /\ \A d \in Verifying : ~Acting(p, d)
      BY <2>1 DEF Start, StartSolvePass, StartActuateNow, StartWatchdog, Open, IsOpen, Acting,
         InHand, Known, PassOK
    <3> QED
      BY <2>1, <3>1, OpenOK, ConcludedByStep
  <2>2. CASE SetOverride \/ ChangeWindow \/ UNCHANGED vars
    BY <2>2 DEF SetOverride, ChangeWindow, vars, Concluding, Acting, InHand, Current
  <2> QED
    BY <2>1, <2>2, StepConcludes, CloseConcludes DEF Next
<1> QED
  BY <1>1, <1>2, KnownAlways, PTL DEF Spec

\* Whatever passes interleave on a device with a verify contract: an action that
\* was started is verified, made safe, or still being worked on, unless the pass
\* that started it was cut short.
THEOREM ActionsConclude == Spec => []ActionIsConcluded
<1>1. Concluding => ActionIsConcluded
  BY DEF Concluding, ActionIsConcluded, Acting
<1> QED
  BY <1>1, ConcludingAlways, PTL

\* The verify_failed issue appears after the safe default of its device ran.
THEOREM IssueAfterSafeDefault == Spec => []VerifyIssueAfterSafeDefault
<1>1. Init => VerifyIssueAfterSafeDefault
  BY DEF Init, VerifyIssueAfterSafeDefault
<1>2. ASSUME VerifyIssueAfterSafeDefault, [Next]_vars PROVE VerifyIssueAfterSafeDefault'
  <2> USE <1>2 DEF VerifyIssueAfterSafeDefault
  <2>1. ASSUME UNCHANGED <<issues, safed>> PROVE VerifyIssueAfterSafeDefault'
    BY <2>1
  <2>2. ASSUME NEW p \in Passes, Turn(p) PROVE VerifyIssueAfterSafeDefault'
    BY <2>2 DEF Turn, InvokeSafeDefault, Attempt
  <2>3. ASSUME NEW p \in Passes, SafeDefaultReturns(p) PROVE VerifyIssueAfterSafeDefault'
    BY <2>3 DEF SafeDefaultReturns
  <2> QED
    BY <2>1, <2>2, <2>3 DEF Next, Start, StartSolvePass, StartActuateNow, StartWatchdog, Open,
       Step, ScriptReturns, Verify, GiveUp, InvokeSafeDefault, Retry, Attempt, EndPass, Raise,
       Cancel, CutShort, SetOverride, ChangeWindow, vars
<1> QED
  BY <1>1, <1>2, PTL DEF Spec

-----------------------------------------------------------------------------
(***************************************************************************)
(* Passes go forward                                                       *)
(***************************************************************************)

\* The next attempt: everything else of the pass stands.
LEMMA AttemptCounts ==
    ASSUME Known, NEW p \in Passes, pass[p].todo # {}, pass[p].pc \in {"next", "backoff"},
           Attempt(p), pass'[p].pc = "calling"
    PROVE  pass'[p].attempt = pass[p].attempt + 1
<1>1. pass[p] \in PassStates /\ pass \in [Passes -> PassStates]
  BY DEF Known
<1>2. CASE InvokeSafeDefault(p, FALSE)
  BY <1>1, <1>2 DEF InvokeSafeDefault, PassStates
<1>3. CASE pass' = [pass EXCEPT ![p].pc = "calling", ![p].attempt = NextAttempt(p)]
  BY <1>1, <1>3 DEF NextAttempt, PassStates
<1> QED
  BY <1>2, <1>3 DEF Attempt

\* The rank of a device's last state is 0, of the others at least 1.
LEMMA Ranks ==
    ASSUME NEW s, PassOK(s), s.todo # {}
    PROVE  /\ s.pc = "safe" => StepsLeft(s) = 0
           /\ s.pc # "safe" => StepsLeft(s) > 0
           /\ s.pc \in {"next", "backoff"} =>
                 StepsLeft(s) = 3 * (Attempts[First(s.todo)] - s.attempt) + 1
           /\ s.pc = "calling" =>
                 StepsLeft(s) = 3 * (Attempts[First(s.todo)] - s.attempt) + 3
           /\ s.pc = "verifying" =>
                 StepsLeft(s) = 3 * (Attempts[First(s.todo)] - s.attempt) + 2
<1>1. s.pc \in PCs /\ s.attempt \in Nat /\ s.attempt <= Attempts[First(s.todo)]
  BY DEF PassOK, PassStates
<1>2. Attempts[First(s.todo)] \in Nat \ {0}
  BY FirstIn DEF PassOK, PassStates
<1>3. /\ Rank["next"] = 1 /\ Rank["calling"] = 3 /\ Rank["verifying"] = 2
      /\ Rank["backoff"] = 1
  BY DEF Rank
<1>4. s.pc = "safe" => StepsLeft(s) = 0
  BY DEF StepsLeft
<1>5. s.pc # "safe" => StepsLeft(s) = 3 * (Attempts[First(s.todo)] - s.attempt) + Rank[s.pc]
  BY DEF StepsLeft
<1>6. s.pc # "safe" => s.pc \in {"next", "calling", "verifying", "backoff"}
  BY <1>1 DEF PCs
<1> QED
  BY <1>1, <1>2, <1>3, <1>4, <1>5, <1>6

\* What a step of an open pass does.
Forward(p) ==
    \/ pass'[p] = Closed
    \/ /\ pass'[p].kind = pass[p].kind
       /\ \/ pass'[p].todo = Others(p)
          \/ /\ pass'[p].todo = pass[p].todo
             /\ StepsLeft(pass'[p]) < StepsLeft(pass[p])

LEMMA AdvanceForward == ASSUME Known, NEW p \in Passes, Advance(p) PROVE Forward(p)
<1>1. pass[p] \in PassStates /\ pass \in [Passes -> PassStates]
  BY DEF Known
<1>2. pass'[p].todo = Others(p) /\ pass'[p].kind = pass[p].kind
  BY <1>1 DEF Advance, PassStates
<1> QED
  BY <1>2 DEF Forward

LEMMA SafeForward ==
    ASSUME Known, Known', NEW p \in Passes, pass[p].todo # {}, pass[p].pc # "safe",
           NEW failed \in BOOLEAN, InvokeSafeDefault(p, failed)
    PROVE  Forward(p)
<1>1. pass[p] \in PassStates /\ pass \in [Passes -> PassStates]
  BY DEF Known
<1>2. /\ pass'[p].todo = pass[p].todo /\ pass'[p].kind = pass[p].kind
      /\ pass'[p].pc = "safe"
  BY <1>1 DEF InvokeSafeDefault, PassStates
<1>3. PassOK(pass[p]) /\ PassOK(pass'[p])
  BY DEF Known
<1>4. StepsLeft(pass'[p]) = 0 /\ StepsLeft(pass[p]) > 0
  BY <1>2, <1>3, Ranks
<1> QED
  BY <1>2, <1>4 DEF Forward

LEMMA AttemptForward ==
    ASSUME Known, NEW p \in Passes, pass[p].todo # {}, pass[p].pc \in {"next", "backoff"},
           Attempt(p), UNCHANGED <<enabled, override, forbidden>>
    PROVE  Forward(p)
<1>1. /\ Known' /\ pass'[p].kind = pass[p].kind /\ pass'[p].todo = pass[p].todo
      /\ \/ InvokeSafeDefault(p, FALSE)
         \/ pass'[p].pc = "calling"
  BY AttemptOK
<1>2. CASE InvokeSafeDefault(p, FALSE)
  BY <1>1, <1>2, SafeForward
<1>3. CASE pass'[p].pc = "calling"
  <2>1. pass'[p].attempt = pass[p].attempt + 1
    BY <1>3, AttemptCounts
  <2>2. PassOK(pass[p]) /\ PassOK(pass'[p])
    BY <1>1 DEF Known
  <2> DEFINE a == Attempts[First(pass[p].todo)]
  <2>3. a \in Nat /\ pass[p].attempt \in Nat
    BY <2>2, CurrentIn DEF Current, PassOK, PassStates
  <2>4. /\ StepsLeft(pass[p]) = 3 * (a - pass[p].attempt) + 1
        /\ StepsLeft(pass'[p]) = 3 * (a - pass'[p].attempt) + 3
    BY <1>1, <1>3, <2>2, Ranks
  <2> HIDE DEF a
  <2>5. StepsLeft(pass'[p]) < StepsLeft(pass[p])
    BY <2>1, <2>3, <2>4
  <2> QED
    BY <1>1, <2>5 DEF Forward
<1> QED
  BY <1>1, <1>2, <1>3

\* Verification starts or its backoff.
LEMMA PollForward ==
    ASSUME Known, Known', NEW p \in Passes, pass[p].todo # {},
           NEW q, pass' = [pass EXCEPT ![p].pc = q],
           <<pass[p].pc, q>> \in {<<"calling", "verifying">>, <<"verifying", "backoff">>}
    PROVE  Forward(p)
<1>1. pass[p] \in PassStates /\ pass \in [Passes -> PassStates]
  BY DEF Known
<1>2. /\ pass'[p].todo = pass[p].todo /\ pass'[p].kind = pass[p].kind
      /\ pass'[p].pc = q /\ pass'[p].attempt = pass[p].attempt
  BY <1>1 DEF PassStates
<1>3. PassOK(pass[p]) /\ PassOK(pass'[p])
  BY DEF Known
<1> DEFINE n == 3 * (Attempts[First(pass[p].todo)] - pass[p].attempt)
<1>4. n \in Int
  BY <1>3, CurrentIn DEF Current, PassOK, PassStates
<1>5. \/ StepsLeft(pass[p]) = n + 3 /\ StepsLeft(pass'[p]) = n + 2
      \/ StepsLeft(pass[p]) = n + 2 /\ StepsLeft(pass'[p]) = n + 1
  <2>1. CASE pass[p].pc = "calling" /\ q = "verifying"
    BY <1>2, <1>3, <2>1, Ranks
  <2>2. CASE pass[p].pc = "verifying" /\ q = "backoff"
    BY <1>2, <1>3, <2>2, Ranks
  <2> QED
    BY <2>1, <2>2
<1> HIDE DEF n
<1>6. StepsLeft(pass'[p]) < StepsLeft(pass[p])
  BY <1>4, <1>5
<1> QED
  BY <1>2, <1>6 DEF Forward

LEMMA StepForward == ASSUME Known, NEW p \in Passes, Step(p) PROVE Forward(p)
<1>1. Known' /\ PassOK(pass[p])
  BY StepOK DEF Known
<1>2. CASE Advance(p)
  BY <1>2, AdvanceForward
<1>3. CASE Turn(p)
  <2>1. CASE InvokeSafeDefault(p, FALSE)
    BY <1>1, <1>3, <2>1, SafeForward DEF Turn
  <2>2. CASE Attempt(p)
    BY <1>3, <2>2, AttemptForward DEF Turn
  <2> QED
    BY <1>2, <1>3, <2>1, <2>2 DEF Turn
<1>4. CASE ScriptReturns(p)
  BY <1>1, <1>2, <1>4, PollForward DEF ScriptReturns, PassOK
<1>5. CASE Verify(p)
  <2>1. pass[p].todo # {} /\ pass[p].pc = "verifying"
    BY <1>1, <1>5 DEF Verify, PassOK
  <2>2. CASE pass' = [pass EXCEPT ![p].pc = "backoff"]
    BY <1>1, <2>1, <2>2, PollForward
  <2>3. CASE GiveUp(p)
    BY <1>1, <2>1, <2>3, SafeForward DEF GiveUp
  <2> QED
    BY <1>2, <1>5, <2>2, <2>3 DEF Verify
<1>6. CASE Retry(p)
  BY <1>1, <1>6, AttemptForward DEF Retry, PassOK
<1>7. CASE SafeDefaultReturns(p)
  BY <1>2, <1>7 DEF SafeDefaultReturns
<1>8. CASE EndPass(p)
  BY <1>8, ClosedOK DEF Forward
<1> QED
  BY <1>3, <1>4, <1>5, <1>6, <1>7, <1>8 DEF Step

\* Every step of a pass leaves it less to do: with any devices, attempts and other
\* passes, a device is taken a bounded number of times, and never again.
THEOREM PassesAreFinite == Spec => PassesGoForward
<1>1. ASSUME Known, [Next]_vars
      PROVE  [\A p \in Passes :
                (IsOpen(p) /\ pass'[p] # pass[p]) =>
                   \/ pass'[p] = Closed
                   \/ /\ pass'[p].kind = pass[p].kind
                      /\ \/ pass'[p].todo = Others(p)
                         \/ /\ pass'[p].todo = pass[p].todo
                            /\ StepsLeft(pass'[p]) < StepsLeft(pass[p])]_vars
  <2> USE <1>1
  <2> SUFFICES ASSUME NEW p \in Passes, IsOpen(p), pass'[p] # pass[p] PROVE Forward(p)
    BY DEF Forward
  <2>1. PICK q \in Passes : Start(q) \/ Step(q) \/ Raise(q) \/ Cancel(q)
    BY DEF Next, SetOverride, ChangeWindow, vars
  <2>2. q = p
    BY <2>1, OpenOK, StepOK, ClosedOK
  <2>3. ~Start(p)
    BY DEF Start, StartSolvePass, StartActuateNow, StartWatchdog, Open
  <2>4. CASE Step(p)
    BY <2>4, StepForward
  <2>5. CASE Raise(p) \/ Cancel(p)
    BY <2>5, ClosedOK DEF Forward
  <2> QED
    BY <2>1, <2>2, <2>3, <2>4, <2>5
<1> QED
  BY <1>1, KnownAlways, PTL DEF Spec, PassesGoForward

-----------------------------------------------------------------------------
(***************************************************************************)
(* The watchdog's pass                                                     *)
(***************************************************************************)

\* It starts no action of its own.
OnlySafes == \A p \in Passes : pass[p].kind = "watchdog" => pass[p].pc \in {"next", "safe"}

\* It makes the next device safe, leaves one that is safe now, or ends: with the
\* last device, or at a safe default that raises.
WatchdogMoves(p) ==
    \/ /\ pass[p].pc = "next" /\ pass[p].todo # {}
       /\ pass'[p].pc = "safe" /\ pass'[p].todo = pass[p].todo
       /\ condition'[Current(p)] = "safe"
    \/ /\ pass[p].pc = "safe" /\ Current(p) \in safed'
       /\ pass'[p].todo = pass[p].todo \ {Current(p)}
    \/ /\ pass'[p] = Closed
       /\ pass[p].todo = {} \/ Current(p) \in Faulty

LEMMA AlwaysOnlySafes == Spec => []OnlySafes
<1>1. Init => OnlySafes
  BY DEF Init, OnlySafes, Closed, Opened
<1>2. ASSUME Known, OnlySafes, [Next]_vars PROVE OnlySafes'
  <2> USE <1>2 DEF OnlySafes
  <2>1. ASSUME NEW p \in Passes, \A q \in Passes \ {p} : pass'[q] = pass[q],
               pass'[p].kind = "watchdog" => pass'[p].pc \in {"next", "safe"}
        PROVE  OnlySafes'
    BY <2>1
  <2>2. ASSUME NEW p \in Passes, Start(p) PROVE OnlySafes'
    BY <2>1, <2>2, OpenOK
  <2>3. ASSUME NEW p \in Passes, Raise(p) \/ Cancel(p) PROVE OnlySafes'
    BY <2>1, <2>3, ClosedOK DEF Closed, Opened
  <2>4. ASSUME NEW p \in Passes, Step(p) PROVE OnlySafes'
    <3>1. /\ \A q \in Passes \ {p} : pass'[q] = pass[q]
          /\ pass'[p].pc = "next" \/ pass'[p].kind = pass[p].kind
      BY <2>4, StepOK
    <3>2. CASE pass[p].kind # "watchdog"
      BY <2>1, <3>1, <3>2
    <3>3. CASE pass[p].kind = "watchdog"
      <4>1. CASE Turn(p)
        BY <2>1, <3>1, <3>3, <4>1 DEF Turn, InvokeSafeDefault, Known, PassStates
      <4>2. CASE SafeDefaultReturns(p)
        BY <2>1, <3>1, <4>2, AdvanceOK DEF SafeDefaultReturns, Known
      <4>3. CASE EndPass(p)
        BY <2>1, <4>3, ClosedOK DEF Closed, Opened
      <4> QED
        BY <2>4, <3>3, <4>1, <4>2, <4>3 DEF Step, ScriptReturns, Verify, Retry
    <3> QED
      BY <3>2, <3>3
  <2> QED
    BY <2>2, <2>3, <2>4 DEF Next, SetOverride, ChangeWindow, vars
<1> QED
  BY <1>1, <1>2, KnownAlways, PTL DEF Spec

\* The watchdog passes over no device, whatever other passes do in between: only a
\* safe default that raises keeps it from the devices that are left.
THEOREM WatchdogSkipsNone ==
    Spec => [][\A p \in Passes :
                 (pass[p].kind = "watchdog" /\ pass'[p] # pass[p]) => WatchdogMoves(p)]_vars
<1>1. ASSUME Known, OnlySafes, [Next]_vars
      PROVE  [\A p \in Passes :
                (pass[p].kind = "watchdog" /\ pass'[p] # pass[p]) => WatchdogMoves(p)]_vars
  <2> USE <1>1
  <2> SUFFICES ASSUME NEW p \in Passes, pass[p].kind = "watchdog", pass'[p] # pass[p]
               PROVE  WatchdogMoves(p)
    OBVIOUS
  <2>1. PICK q \in Passes : Start(q) \/ Step(q) \/ Raise(q) \/ Cancel(q)
    BY DEF Next, SetOverride, ChangeWindow, vars
  <2>2. q = p
    BY <2>1, OpenOK, StepOK, ClosedOK
  <2>3. ~Start(p) /\ ~Cancel(p)
    BY DEF Start, StartSolvePass, StartActuateNow, StartWatchdog, Open, IsOpen, Cancel
  <2>4. /\ pass \in [Passes -> PassStates] /\ pass[p] \in PassStates
        /\ condition \in [Devices -> Conditions]
        /\ pass[p].pc \in {"next", "safe"}
    BY DEF Known, RestOK, OnlySafes
  <2>5. pass[p].todo # {} => Current(p) \in Devices
    BY CurrentIn
  <2>6. CASE Turn(p)
    BY <2>4, <2>5, <2>6 DEF Turn, InvokeSafeDefault, PassStates, WatchdogMoves
  <2>7. CASE SafeDefaultReturns(p)
    BY <2>4, <2>7 DEF SafeDefaultReturns, Advance, Others, PassStates, WatchdogMoves
  <2>8. CASE EndPass(p)
    BY <2>8, ClosedOK DEF EndPass, WatchdogMoves
  <2>9. CASE Raise(p)
    BY <2>4, <2>9, ClosedOK DEF Raise, WatchdogMoves
  <2> QED
    BY <2>1, <2>2, <2>3, <2>4, <2>6, <2>7, <2>8, <2>9 DEF Step, ScriptReturns, Verify, Retry
<1> QED
  BY <1>1, KnownAlways, AlwaysOnlySafes, PTL DEF Spec

=============================================================================
