---------------------------- MODULE PlanRegister ----------------------------
(***************************************************************************)
(* What HemmCoordinator promises its callers: an instance is a register    *)
(* that holds a result and the plans in force.  A call is open for a       *)
(* while; at most once in that time it replaces the result, in one step,   *)
(* by one computed from the constraint windows of some moment since it was *)
(* made, and never from older ones than the result it replaces.  A usable  *)
(* result brings its plans into force in the same step, an unusable one    *)
(* leaves the plans; a dry run replaces nothing.  The entities show a      *)
(* result of the instance that is loaded.                                  *)
(*                                                                         *)
(* No lock, queue, phase, timeout or executor thread: module Coordinator   *)
(* has them and implements this.                                           *)
(***************************************************************************)
EXTENDS Naturals

CONSTANTS
    Callers,    \* who can have a call open
    Owners,     \* the instances, a range of numbers from 1
    Versions,   \* numbers of the states of an instance's windows
    Results,    \* results: a status, the version they are computed from, devices
    Plans,      \* plans: the version they are computed from, devices
    Usable,     \* the statuses of results whose plans may be actuated
    NoResult, NoPlans

VARIABLES
    inputs,   \* the version of each instance's windows
    result,   \* the result each instance holds
    plans,    \* the plans in force of each instance
    call,     \* the open call of each caller
    current,  \* the newest instance
    shown     \* the result the entities show

vars == <<inputs, result, plans, call, current, shown>>

-----------------------------------------------------------------------------
None     == [open |-> FALSE, of |-> 1, asked |-> 0, dry |-> FALSE, done |-> FALSE]
PlanOf(r) == [at |-> r.at, devs |-> r.devs]

Init ==
    /\ inputs = [c \in Owners |-> 0]
    /\ result = [c \in Owners |-> NoResult]
    /\ plans = [c \in Owners |-> NoPlans]
    /\ call = [t \in Callers |-> None]
    /\ current = 0
    /\ shown = NoResult

\* The entities may be brought up to date at the end of any step.
Show == shown' = shown \/ (current' \in Owners /\ shown' = result'[current'])

\* A caller asks the newest instance.
Ask(t) ==
    /\ ~call[t].open /\ current' \in Owners
    /\ \E dry \in BOOLEAN :
         call' = [call EXCEPT ![t] = [open |-> TRUE, of |-> current',
                                      asked |-> inputs[current'], dry |-> dry,
                                      done |-> FALSE]]

\* Calls come in, alone or with a new instance.
Request ==
    /\ \E t \in Callers : Ask(t)
    /\ current' \in {current, current + 1}
    /\ Show
    /\ UNCHANGED <<inputs, result, plans>>

Load ==
    /\ current' = current + 1
    /\ Show
    /\ UNCHANGED <<inputs, result, plans, call>>

\* The windows of an instance change.
Change ==
    /\ \E c \in Owners : inputs' = [inputs EXCEPT ![c] = @ + 1]
    /\ UNCHANGED <<result, plans, call, current, shown>>

\* A caller leaves, with an answer or without.
End(t) == call' = [call EXCEPT ![t] = None]

\* It goes on after it took effect, for the plan to be actuated.
GoOn(t) == call' = [call EXCEPT ![t] = [open |-> TRUE, of |-> @.of, asked |-> @.asked,
                                        dry |-> FALSE, done |-> TRUE]]

Leave(t) ==
    /\ call[t].open
    /\ End(t)
    /\ Show
    /\ UNCHANGED <<inputs, result, plans, current>>

\* A call takes effect.
Replace(t) ==
    /\ call[t].open /\ ~call[t].dry /\ ~call[t].done
    /\ \E r \in Results :
         LET c == call[t].of
         IN  /\ call[t].asked <= r.at /\ r.at <= inputs[c]
             /\ result[c].at <= r.at
             /\ result' = [result EXCEPT ![c] = r]
             /\ plans' = IF r.status \in Usable
                         THEN [plans EXCEPT ![c] = PlanOf(r)] ELSE plans
    /\ End(t) \/ GoOn(t)
    /\ Show
    /\ UNCHANGED <<inputs, current>>

Refresh == Show /\ UNCHANGED <<inputs, result, plans, call, current>>

Next == \/ Request \/ Load \/ Change \/ Refresh
        \/ \E t \in Callers : Leave(t) \/ Replace(t)

Spec == Init /\ [][Next]_vars

=============================================================================
