------------------------------ MODULE Forecast ------------------------------
(***************************************************************************)
(* The live forecasts of a solve: the price curve read from the tariff     *)
(* entity or set by hand, cut at now and turned into a horizon, and the    *)
(* generation series resampled onto its slots.                             *)
(*                                                                         *)
(* A point of a price curve is its instant: prices are only carried along. *)
(* Instants are numbers of a unit that divides the solver slot.  The       *)
(* price adapter belongs to hemm_core; the series it is handed is already  *)
(* in its own format, and it is taken to keep its points and their order.  *)
(* Inputs that change while a solve runs are in module Coordinator.        *)
(***************************************************************************)
EXTENDS Integers, Sequences, FiniteSets, FiniteSetsExt

CONSTANTS
    LastTime,    \* bound: the last instant
    Slot,        \* resolution_minutes
    MaxHorizon,  \* horizon_hours
    Offset,      \* UTC offset of local time at each instant
    Bad,         \* an item that cannot be parsed
    Curves,      \* attribute groups a tariff entity may publish
    PVs,         \* the series a solar forecast entity may publish
    Manuals      \* curves of hemm.set_price_curve: their length and resolution

Times == 0..LastTime

ASSUME TimeAssumption    == LastTime \in Nat
ASSUME SlotAssumption    == Slot \in Nat \ {0}
ASSUME HorizonAssumption == /\ MaxHorizon \in Nat
                            /\ MaxHorizon % Slot = 0 /\ MaxHorizon >= Slot
ASSUME OffsetAssumption  == Offset \in [Times -> Nat]
ASSUME CurvesAssumption  == Curves \subseteq Seq(Seq(Times \cup {Bad}))
ASSUME PVsAssumption     == PVs \subseteq Seq([at : Times, kw : Int])
ASSUME ManualsAssumption == Manuals \subseteq [len : Nat, res : Nat \ {0}]

VARIABLES
    configured,  \* a price entity is configured
    readable,    \* its state is neither missing nor unavailable
    groups,      \* its attributes, one list per group, in priority order
    manual,      \* _manual_prices: a curve, or length 0 for None
    pv,          \* the points of the two solar forecast entities of a device
    now,         \* the clock
    call         \* the arguments of the solver.solve call under way

vars == <<configured, readable, groups, manual, pv, now, call>>

-----------------------------------------------------------------------------
(***************************************************************************)
(* Reading the price curve                                                 *)
(***************************************************************************)

\* Points are sorted by their ISO text in local time: the wall clock first,
\* then the offset.
TextBefore(p, q) == \/ p + Offset[p] < q + Offset[q]
                    \/ p + Offset[p] = q + Offset[q] /\ Offset[p] < Offset[q]

\* The items at the positions S, each as far back as the order le puts it.
Sorted(items, S, le) ==
    [k \in 1..Cardinality(S) |->
        items[CHOOSE i \in S : Cardinality({j \in S : <<j, i>> \in le}) = k]]

Parse(items) ==
    LET usable == {i \in DOMAIN items : items[i] # Bad}
        le == {p \in usable \X usable :
                  \/ TextBefore(items[p[1]], items[p[2]])
                  \/ items[p[1]] = items[p[2]] /\ p[1] <= p[2]}
    IN  Sorted(items, usable, le)

\* The first group with a point that can be parsed; none if there is none.
Extract(gs) ==
    LET usable == {g \in DOMAIN gs : Parse(gs[g]) # <<>>}
    IN  IF usable = {} THEN <<>> ELSE Parse(gs[Min(usable)])

ReadPriceSeries == IF configured /\ readable THEN Extract(groups) ELSE <<>>

\* A manual curve starts now, whenever that is.
PriceForecast ==
    IF manual.len > 0
    THEN [i \in 1..manual.len |-> now + (i - 1) * manual.res]
    ELSE ReadPriceSeries

-----------------------------------------------------------------------------
(***************************************************************************)
(* From now to the end of the curve                                        *)
(***************************************************************************)

\* The loop stops at the first point after now and keeps the one before it.
\* (Mutant: a point exactly at now counts as later.)
KeepPast(f) ==
    LET past == {i \in DOMAIN f : \A j \in 1..i : f[j] < now}
    IN  SubSeq(f, IF past = {} THEN 1 ELSE Max(past), Len(f))
SliceFromNow(f) ==
    LET past == {i \in DOMAIN f : \A j \in 1..i : f[j] <= now}
    IN  SubSeq(f, IF past = {} THEN 1 ELSE Max(past), Len(f))

\* The last point covers as much as the distance to the one before it.
Step(f) == IF Len(f) >= 2 /\ f[Len(f)] > f[Len(f) - 1]
           THEN f[Len(f)] - f[Len(f) - 1] ELSE Slot

\* Whole slots up to the end of the curve, at least one.
\* (Mutants: a part of a slot counts as one; horizon_hours does not cap it.)
RoundUp(f) ==
    LET covered == f[Len(f)] + Step(f) - f[1]
    IN  Max({1, Min({MaxHorizon \div Slot, (covered + Slot - 1) \div Slot})})
NoCap(f) == Max({1, (f[Len(f)] + Step(f) - f[1]) \div Slot})
HorizonSlots(f) ==
    LET covered == f[Len(f)] + Step(f) - f[1]
    IN  Max({1, Min({MaxHorizon \div Slot, covered \div Slot})})

-----------------------------------------------------------------------------
(***************************************************************************)
(* The generation series                                                   *)
(***************************************************************************)

\* Both entities' points, by instant.
Series ==
    LET both == pv[1] \o pv[2]
        le == {p \in (DOMAIN both) \X (DOMAIN both) :
                  \/ both[p[1]].at < both[p[2]].at
                  \/ both[p[1]].at = both[p[2]].at /\ p[1] <= p[2]}
    IN  Sorted(both, DOMAIN both, le)

\* The point the scan has reached at instant t, coming from point j.
\* (Mutant: a point exactly at t is not reached.)
HeldBefore(s, j, t) == Max({k \in j..Len(s) : \A i \in j + 1..k : s[i].at < t})
Held(s, j, t)       == Max({k \in j..Len(s) : \A i \in j + 1..k : s[i].at <= t})

\* The start of slot i of a horizon from t0 on, and the points the scan of the
\* slots has reached by then.
SlotStart(t0, i) == t0 + (i - 1) * Slot
Scan(s, t0, n) ==
    LET reached[i \in 0..n] ==
            IF i = 0 THEN 1 ELSE Held(s, reached[i - 1], SlotStart(t0, i))
    IN  reached

\* Step-hold resampling onto n slots; no series, or one without production, is
\* left out.
Resample(s, t0, n) ==
    [i \in 1..n |-> IF SlotStart(t0, i) < s[1].at THEN 0
                    ELSE Max({0, s[Scan(s, t0, n)[i]].kw})]

GenerationForecast(t0, n) ==
    IF Series = <<>> THEN <<>>
    ELSE LET slots == Resample(Series, t0, n)
         IN  IF \E i \in 1..n : slots[i] > 0 THEN slots ELSE <<>>

-----------------------------------------------------------------------------
NoCall == [prices |-> <<>>, slots |-> 0, generation |-> <<>>]

Init ==
    /\ configured \in BOOLEAN /\ readable \in BOOLEAN
    /\ groups \in Curves
    /\ manual = [len |-> 0, res |-> 1]
    /\ pv \in PVs \X PVs
    /\ now = 0
    /\ call = NoCall

\* A price entity that cannot be read skips the solve, manual prices or not;
\* so does an empty forecast.
Solve ==
    /\ call = NoCall
    /\ ~(configured /\ ReadPriceSeries = <<>>)
    /\ PriceForecast # <<>>
    /\ LET prices == SliceFromNow(PriceForecast)
           slots  == HorizonSlots(prices)
       IN  call' = [prices |-> prices, slots |-> slots,
                    generation |-> GenerationForecast(prices[1], slots)]
    /\ UNCHANGED <<configured, readable, groups, manual, pv, now>>

SolveReturns ==
    /\ call # NoCall /\ call' = NoCall
    /\ UNCHANGED <<configured, readable, groups, manual, pv, now>>

\* Between two solves.
Elapse ==
    /\ call = NoCall /\ now < LastTime
    /\ now' = now + 1
    /\ UNCHANGED <<configured, readable, groups, manual, pv, call>>

TariffUpdates ==
    /\ call = NoCall
    /\ readable' \in BOOLEAN /\ groups' \in Curves
    /\ UNCHANGED <<configured, manual, pv, now, call>>

SetPriceCurve ==
    /\ call = NoCall
    /\ manual' \in Manuals
    /\ UNCHANGED <<configured, readable, groups, pv, now, call>>

ForecastUpdates ==
    /\ call = NoCall
    /\ pv' \in PVs \X PVs
    /\ UNCHANGED <<configured, readable, groups, manual, now, call>>

Next == Solve \/ SolveReturns \/ Elapse \/ TariffUpdates \/ SetPriceCurve \/ ForecastUpdates

Spec == Init /\ [][Next]_vars

-----------------------------------------------------------------------------
(***************************************************************************)
(* Properties                                                              *)
(***************************************************************************)

\* Every variable has its type; a call has prices and whole slots.
TypeOK ==
    /\ configured \in BOOLEAN /\ readable \in BOOLEAN
    /\ groups \in Curves /\ pv \in PVs \X PVs
    /\ manual \in [len : Nat, res : Nat \ {0}]
    /\ now \in Times
    /\ call # NoCall => /\ call.prices \in Seq(Int) /\ call.prices # <<>>
                        /\ call.slots \in 1..(MaxHorizon \div Slot)
                        /\ call.generation \in Seq(Nat)

\* The instants the source of a call has on offer: the manual curve, or what
\* can be parsed of the first group that has anything to parse.
Offered ==
    IF manual.len > 0 THEN {now + i * manual.res : i \in 0..manual.len - 1}
    ELSE LET points(g) == {groups[g][i] : i \in DOMAIN groups[g]} \ {Bad}
         IN  points(Min({g \in DOMAIN groups : points(g) # {}}))

\* What the solver aligns with its first slot is the offered price in force
\* now, and every later price follows it, in order: none is lost, and none
\* that has elapsed is left.
PricesFromNow ==
    call # NoCall =>
        LET past  == {p \in Offered : p <= now}
            first == IF past = {} THEN Min(Offered) ELSE Max(past)
            given == {call.prices[i] : i \in DOMAIN call.prices}
        IN  /\ call.prices[1] = first
            /\ given = {p \in Offered : p >= first}

\* The horizon ends where the price curve ends: each slot but a first one is
\* covered by offered prices, and the horizon is not cut shorter than that or
\* the configured hours.
HorizonFollowsCurve ==
    call # NoCall =>
        LET last == Max(Offered)
            rest == {p \in Offered : call.prices[1] <= p /\ p < last}
            end  == last + (IF rest = {} THEN Slot ELSE last - Max(rest))
            till(n) == call.prices[1] + n * Slot
        IN  /\ call.slots > 1 => till(call.slots) <= end
            /\ till(call.slots + 1) > end \/ call.slots = MaxHorizon \div Slot

\* A slot's generation is that of the latest point of either entity at its
\* start, never negative, and zero before the first point.
GenerationHeld ==
    \A i \in DOMAIN call.generation :
        LET t    == call.prices[1] + (i - 1) * Slot
            past == {p \in {pv[1][k] : k \in DOMAIN pv[1]}
                           \cup {pv[2][k] : k \in DOMAIN pv[2]} : p.at <= t}
        IN  IF past = {} THEN call.generation[i] = 0
            ELSE \E p \in past : /\ \A q \in past : q.at <= p.at
                                 /\ call.generation[i] = Max({0, p.kw})

=============================================================================
