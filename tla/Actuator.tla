------------------------------ MODULE Actuator ------------------------------
(***************************************************************************)
(* ActuatorEngine with the passes that drive it at the same time: the      *)
(* decisions of a solve (at most one, under the solve lock), the           *)
(* hemm.actuate_now service, and the watchdog.  A pass takes its devices   *)
(* in order and awaits every script, verification and backoff, so passes   *)
(* interleave at each of those points, even on one device.                 *)
(*                                                                         *)
(* Scripts and the states verification reads are Home Assistant's: a       *)
(* script may raise, and a check of a state may come out either way.  The  *)
(* audit log is only written, so it is left out, and with it dry runs,     *)
(* which do nothing else.                                                  *)
(***************************************************************************)
EXTENDS Naturals, FiniteSets

CONSTANTS
    Devices,         \* devices of the entry
    Order,           \* their positions in plans and in the entry
    Planned,         \* devices a plan slot may actuate: the passive ones are not
    Verifying,       \* devices whose action has a verify contract
    SelfConfirming,  \* devices whose action writes its own verify entity (the
                     \* engine's check for it; the manifest builder makes none)
    Faulty,          \* devices whose safe default script raises
    Disturbed,       \* bound: devices whose override and windows change
    Attempts,        \* retry.max_attempts of each device's action
    Passes           \* passes that can be open at a time

ASSUME DevicesAssumption ==
    /\ Planned \subseteq Devices /\ Verifying \subseteq Devices
    /\ SelfConfirming \subseteq Verifying /\ Faulty \subseteq Devices
    /\ Disturbed \subseteq Devices
ASSUME OrderAssumption ==
    /\ Order \in [Devices -> Nat]
    /\ \A d, e \in Devices : Order[d] = Order[e] => d = e
ASSUME AttemptsAssumption == Attempts \in [Devices -> Nat \ {0}]

VARIABLES
    enabled,     \* actuation_enabled of the instance
    override,    \* _overrides: devices whose override switch is on
    forbidden,   \* devices with an active ForbiddenWindow
    pass,        \* the open passes
    condition,   \* what was last done to a device: see Conditions
    cut,         \* history: devices whose last actuation was cut short
    safed,       \* history: devices whose safe default has run to its end
    issues       \* repair issues shown, as <<kind, device>>

vars == <<enabled, override, forbidden, pass, condition, cut, safed, issues>>

-----------------------------------------------------------------------------
\* An action was started, or verified since, or the safe default was started.
Conditions == {"untouched", "acting", "verified", "safe"}

Kinds == {"background", "service", "actuate_now", "watchdog"}
PCs   == {"next", "calling", "verifying", "backoff", "safe"}

PassStates == [kind : Kinds \cup {"none"}, todo : SUBSET Devices, pc : PCs,
               attempt : Nat, checked : BOOLEAN, failed : BOOLEAN]

Opened(kind, todo, checked) ==
    [kind |-> kind, todo |-> todo, pc |-> "next", attempt |-> 0, checked |-> checked,
     failed |-> FALSE]
Closed == Opened("none", {}, FALSE)

IsOpen(p) == pass[p].kind # "none"

\* The device a pass works on: the first it has not finished.
First(S)   == CHOOSE d \in S : \A e \in S : Order[d] <= Order[e]
Current(p) == First(pass[p].todo)

InHand(p, d) == /\ pass[p].todo # {} /\ Current(p) = d
                /\ pass[p].pc # "next"

Init ==
    /\ enabled \in BOOLEAN
    /\ override = {} /\ forbidden = {}
    /\ pass = [p \in Passes |-> Closed]
    /\ condition = [d \in Devices |-> "untouched"]
    /\ cut = {} /\ safed = {} /\ issues = {}

-----------------------------------------------------------------------------
(***************************************************************************)
(* Passes open and close                                                   *)
(***************************************************************************)
Open(p, kind, todo, checked) ==
    /\ ~IsOpen(p)
    /\ pass' = [pass EXCEPT ![p] = Opened(kind, todo, checked)]
    /\ UNCHANGED <<enabled, override, forbidden, condition, cut, safed, issues>>

\* The decisions of an applied result: any of the devices that are actuated.
StartSolvePass(p) ==
    /\ \A q \in Passes : pass[q].kind \notin {"background", "service"}
    /\ \E kind \in {"background", "service"}, todo \in SUBSET Planned \ {{}} :
         Open(p, kind, todo, TRUE)

\* hemm.actuate_now takes any declared action and need not check it.
StartActuateNow(p) ==
    \E d \in Devices, checked \in BOOLEAN : Open(p, "actuate_now", {d}, checked)

\* The watchdog fires: safe defaults of all devices, the passive ones too.
StartWatchdog(p) == Devices # {} /\ Open(p, "watchdog", Devices, FALSE)

EndPass(p) ==
    /\ IsOpen(p) /\ pass[p].todo = {}
    /\ pass' = [pass EXCEPT ![p] = Closed]
    /\ UNCHANGED <<enabled, override, forbidden, condition, cut, safed, issues>>

\* The pass goes no further: what it had in hand stays as it is.
CutShort(p) ==
    /\ pass' = [pass EXCEPT ![p] = Closed]
    /\ cut' = IF pass[p].todo # {} /\ pass[p].pc # "next"
              THEN cut \cup {Current(p)} ELSE cut
    /\ UNCHANGED <<enabled, override, forbidden, condition, safed, issues>>

\* The timeout of a background solve cancels its pass.
Cancel(p) == pass[p].kind = "background" /\ CutShort(p)

\* A script raises, an action at will and a safe default if it is faulty, or
\* the expected state of a verify contract cannot be parsed.
Raise(p) ==
    /\ \/ pass[p].pc \in {"calling", "verifying"}
       \/ pass[p].pc = "safe" /\ Current(p) \in Faulty
    /\ CutShort(p)

-----------------------------------------------------------------------------
(***************************************************************************)
(* One device of a pass: async_actuate                                     *)
(***************************************************************************)

\* Done with the current device.  (Mutant: done with all of them.)
NoDevices(p) == {}
Others(p)    == pass[p].todo \ {Current(p)}

Advance(p) == pass' = [pass EXCEPT ![p] =
                         [@ EXCEPT !.todo = Others(p), !.pc = "next", !.attempt = 0,
                                   !.failed = FALSE]]

\* async_invoke_safe_default: start the safe default script of the device.
InvokeSafeDefault(p, verify_failed) ==
    /\ pass' = [pass EXCEPT ![p].pc = "safe", ![p].failed = verify_failed]
    /\ condition' = [condition EXCEPT ![Current(p)] = "safe"]
    /\ cut' = cut \ {Current(p)}
    /\ UNCHANGED <<safed, issues>>

\* Read-only mode and the override switch keep a device out of the loop.
\* (Mutant: read-only mode is not looked at.)
OverrideOnly(d) == d \in override
Suspended(d)    == ~enabled \/ d \in override

\* The pre-call check finds no active ForbiddenWindow of the device.
\* (Mutant: it runs before the first attempt only.)
CheckedOnce(p) == pass[p].checked /\ pass[p].attempt = 0 => Current(p) \notin forbidden
Clear(p)       == pass[p].checked => Current(p) \notin forbidden

\* One turn of the retry loop up to its first await.  The check fails in a
\* forbidden window, when the verify entity is unavailable, and for any device when
\* the windows cannot be looked up.
\* (Mutant: the attempts are not counted.)
SameAttempt(p) == 1
NextAttempt(p) == pass[p].attempt + 1

Attempt(p) ==
    \/ /\ pass[p].checked
       /\ InvokeSafeDefault(p, FALSE)
    \/ /\ Clear(p)
       /\ pass' = [pass EXCEPT ![p].pc = "calling", ![p].attempt = NextAttempt(p)]
       /\ condition' = [condition EXCEPT ![Current(p)] = "acting"]
       /\ cut' = cut \ {Current(p)}
       /\ UNCHANGED <<safed, issues>>

\* A device's turn: skipped, skipped with an issue, made safe by the watchdog,
\* or its first attempt.
Turn(p) ==
    /\ IsOpen(p) /\ pass[p].pc = "next" /\ pass[p].todo # {}
    /\ UNCHANGED <<enabled, override, forbidden>>
    /\ LET d == Current(p)
       IN  \/ /\ pass[p].kind = "watchdog"
              /\ InvokeSafeDefault(p, FALSE)
           \/ /\ pass[p].kind # "watchdog" /\ Suspended(d)
              /\ Advance(p)
              /\ UNCHANGED <<condition, cut, safed, issues>>
           \/ /\ pass[p].kind # "watchdog" /\ ~Suspended(d) /\ d \in SelfConfirming
              /\ issues' = issues \cup {<<"self_confirming", d>>}
              /\ Advance(p)
              /\ UNCHANGED <<condition, cut, safed>>
           \/ /\ pass[p].kind # "watchdog" /\ ~Suspended(d) /\ d \notin SelfConfirming
              /\ Attempt(p)

\* The action script is done: nothing to verify, or the polling starts.
ScriptReturns(p) ==
    /\ pass[p].pc = "calling"
    /\ IF Current(p) \in Verifying
       THEN pass' = [pass EXCEPT ![p].pc = "verifying"]
       ELSE Advance(p)
    /\ UNCHANGED <<enabled, override, forbidden, condition, cut, safed, issues>>

\* range(1, attempts + 1) has another turn.  (Mutant: one too many.)
OneTooMany(p)   == pass[p].attempt <= Attempts[Current(p)]
AttemptsLeft(p) == pass[p].attempt < Attempts[Current(p)]

\* The retries are used up: safe default first, then the issue.
\* (Mutants: the issue first; neither.)
IssueFirst(p) ==
    /\ pass' = [pass EXCEPT ![p].pc = "safe", ![p].failed = TRUE]
    /\ issues' = issues \cup {<<"verify_failed", Current(p)>>}
    /\ condition' = [condition EXCEPT ![Current(p)] = "safe"]
    /\ cut' = cut \ {Current(p)}
    /\ UNCHANGED safed
LeaveIt(p) == Advance(p) /\ UNCHANGED <<condition, cut, safed, issues>>
GiveUp(p)  == InvokeSafeDefault(p, TRUE)

\* The polling ends, with a match or at its deadline.
Verify(p) ==
    /\ pass[p].pc = "verifying"
    /\ UNCHANGED <<enabled, override, forbidden>>
    /\ \/ /\ condition' = [condition EXCEPT ![Current(p)] =
                             IF @ = "acting" THEN "verified" ELSE @]
          /\ Advance(p)
          /\ UNCHANGED <<cut, safed, issues>>
       \/ /\ AttemptsLeft(p)
          /\ pass' = [pass EXCEPT ![p].pc = "backoff"]
          /\ UNCHANGED <<condition, cut, safed, issues>>
       \/ /\ ~AttemptsLeft(p)
          /\ GiveUp(p)

\* After the backoff the loop turns: the pre-call check runs again, the
\* override and the self-confirming check do not.
Retry(p) ==
    /\ pass[p].pc = "backoff"
    /\ Attempt(p)
    /\ UNCHANGED <<enabled, override, forbidden>>

\* The safe default script is done; a failed verification gets its issue.
SafeDefaultReturns(p) ==
    /\ pass[p].pc = "safe" /\ Current(p) \notin Faulty
    /\ safed' = safed \cup {Current(p)}
    /\ issues' = IF pass[p].failed
                 THEN issues \cup {<<"verify_failed", Current(p)>>} ELSE issues
    /\ Advance(p)
    /\ UNCHANGED <<enabled, override, forbidden, condition, cut>>

-----------------------------------------------------------------------------
(***************************************************************************)
(* The user and the clock                                                  *)
(***************************************************************************)
Toggle(S, d) == IF d \in S THEN S \ {d} ELSE S \cup {d}

\* The override switch of a device.
SetOverride ==
    /\ \E d \in Disturbed : override' = Toggle(override, d)
    /\ UNCHANGED <<enabled, forbidden, pass, condition, cut, safed, issues>>

\* A ForbiddenWindow of a device becomes active, or ends.
ChangeWindow ==
    /\ \E d \in Disturbed : forbidden' = Toggle(forbidden, d)
    /\ UNCHANGED <<enabled, override, pass, condition, cut, safed, issues>>

-----------------------------------------------------------------------------
Start(p) == StartSolvePass(p) \/ StartActuateNow(p) \/ StartWatchdog(p)

Step(p) == \/ Turn(p) \/ ScriptReturns(p) \/ Verify(p) \/ Retry(p)
           \/ SafeDefaultReturns(p) \/ EndPass(p)

Next == \/ \E p \in Passes : Start(p) \/ Step(p) \/ Raise(p) \/ Cancel(p)
        \/ SetOverride \/ ChangeWindow

Spec == Init /\ [][Next]_vars

\* Fairness: blocking script calls, polling and backoff end, and a faulty
\* script raises.
FairSpec == Spec /\ \A p \in Passes : WF_vars(Step(p) \/ Raise(p))

-----------------------------------------------------------------------------
(***************************************************************************)
(* Properties                                                              *)
(***************************************************************************)

\* Every variable has its type; no pass exceeds the attempts of its device.
TypeOK ==
    /\ enabled \in BOOLEAN
    /\ override \subseteq Devices /\ forbidden \subseteq Devices
    /\ pass \in [Passes -> PassStates]
    /\ \A p \in Passes : pass[p].todo # {} => pass[p].attempt <= Attempts[Current(p)]
    /\ condition \in [Devices -> Conditions]
    /\ cut \subseteq Devices /\ safed \subseteq Devices
    /\ issues \subseteq {"self_confirming", "verify_failed"} \X Devices

\* With actuation disabled no action script ever runs; only the watchdog may
\* still call safe defaults.
ReadOnly ==
    ~enabled => \A p \in Passes :
        IsOpen(p) /\ pass[p].pc # "next" => pass[p].kind = "watchdog"

\* No checked attempt, first or retried, starts an action inside an active
\* ForbiddenWindow, even if the window was added between two attempts.
NeverIntoForbidden ==
    [][\A p \in Passes :
         (pass'[p].pc = "calling" /\ pass[p].pc # "calling" /\ pass[p].checked)
            => Current(p) \notin forbidden]_vars

\* Whoever interleaves: a device that was told to act and has a verify
\* contract is verified, made safe, or still in the hands of a pass, unless
\* the pass that had it was cut short.
ActionIsConcluded ==
    \A d \in Verifying :
        condition[d] = "acting" => d \in cut \/ \E p \in Passes : InHand(p, d)

\* The verify_failed issue is shown only for a device whose safe default has
\* been run.
VerifyIssueAfterSafeDefault ==
    \A d \in Devices : <<"verify_failed", d>> \in issues => d \in safed

\* What is left to do on the device of a pass: script, polling and backoff per
\* attempt.
Rank         == [next |-> 1, calling |-> 3, verifying |-> 2, backoff |-> 1, safe |-> 0]
StepsLeft(s) == IF s.pc = "safe" THEN 0
                ELSE 3 * (Attempts[First(s.todo)] - s.attempt) + Rank[s.pc]

\* No pass goes round in circles, and none is set back by another one: whenever it
\* moves it ends, is done with its device for good, or has less left to do on it,
\* whatever scripts, checks and windows do.
PassesGoForward ==
    [][\A p \in Passes :
         (IsOpen(p) /\ pass'[p] # pass[p]) =>
            \/ pass'[p] = Closed
            \/ /\ pass'[p].kind = pass[p].kind
               /\ \/ pass'[p].todo = Others(p)
                  \/ /\ pass'[p].todo = pass[p].todo
                     /\ StepsLeft(pass'[p]) < StepsLeft(pass[p])]_vars

\* Every pass ends: retries are bounded whatever the checks return.
PassEnds == \A p \in Passes : IsOpen(p) ~> ~IsOpen(p)

\* A watchdog pass starts the safe default of every device.
WatchdogReachesAll ==
    \A p \in Passes, d \in Devices :
        (pass[p].kind = "watchdog" /\ d \in pass[p].todo) ~>
            (pass[p].kind = "watchdog" /\ InHand(p, d) /\ pass[p].pc = "safe")

=============================================================================
