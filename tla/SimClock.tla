------------------------------ MODULE SimClock ------------------------------
(***************************************************************************)
(* The simulation clock of one tenant (simclock.ts): a tick of one or      *)
(* several days, its failures, a restart in the middle of it, and reset.   *)
(*                                                                         *)
(* A tick works on the copy of the clock it read.  The effect of a script  *)
(* event is counted, so that firing it twice shows.  The points, orders    *)
(* and shipments a day writes are written with the values they would get   *)
(* again and are left out, as is the calculation after the days, which may *)
(* fail as a whole.                                                        *)
(***************************************************************************)
EXTENDS Integers, Sequences, FiniteSets

CONSTANTS
    Tickers,          \* requests that may ask for a tick
    Advances,         \* days a tick may be asked to advance (the code: 1 and 7)
    ScriptTicks,      \* the ticks that have an event in scenarioScript
    MaxTick,          \* bound: simulated days
    MaxBreaks,        \* bound: failures and restarts
    ResetsBreak,      \* whether the process may stop in the middle of a reset
    OverlapsAllowed   \* whether a tick or a reset may start while another is under way

ASSUME ClockAssumption ==
    /\ Advances \subseteq Nat \ {0} /\ ScriptTicks \subseteq 1..MaxTick
    /\ MaxTick \in Nat /\ MaxBreaks \in Nat /\ ResetsBreak \in BOOLEAN /\ OverlapsAllowed \in BOOLEAN

VARIABLES
    clock,    \* the stored SimulationClockRecord
    ticks,    \* per ticker: where its tick is, its copy of the clock and what it has done
    resetting,\* a reset is between its first put and the end of the re-synthesis
    effects,  \* per script tick: how often its event took effect since the re-synthesis
    dayRuns,  \* per day: how often its OpsPlaybook ran since the re-synthesis
    breaks

clockVars == <<clock, ticks, resetting, effects, dayRuns, breaks>>

ClockRecord == [status : {"ACTIVE", "TICKING", "RESETTING"}, currentTick : 0..MaxTick, firedEvents : SUBSET ScriptTicks]
FreshClock == [status |-> "ACTIVE", currentTick |-> 0, firedEvents |-> {}]

Tick == [pc : {"idle", "read", "days", "fired", "after", "playbook", "failed"},
         copy : ClockRecord, from : 0..MaxTick, left : 0..MaxTick, day : 0..(MaxTick + 1)]
NoTick == [pc |-> "idle", copy |-> FreshClock, from |-> 0, left |-> 0, day |-> 0]

ClockTypeOK ==
    /\ clock \in ClockRecord
    /\ ticks \in [Tickers -> Tick]
    /\ resetting \in BOOLEAN
    /\ effects \in [ScriptTicks -> Nat] /\ dayRuns \in [1..MaxTick -> Nat]
    /\ breaks \in 0..MaxBreaks

ClockInit ==
    /\ clock = FreshClock /\ ticks = [t \in Tickers |-> NoTick] /\ resetting = FALSE
    /\ effects = [e \in ScriptTicks |-> 0] /\ dayRuns = [d \in 1..MaxTick |-> 0] /\ breaks = 0

Alone(t) == \A u \in Tickers \ {t} : ticks[u].pc = "idle"

-----------------------------------------------------------------------------
(* tick *)

\* Read the clock; refused when it is TICKING.
TickReads(t) == \E n \in Advances :
    /\ ticks[t].pc = "idle" /\ clock.status # "TICKING" /\ clock.currentTick + n <= MaxTick
    /\ OverlapsAllowed \/ (Alone(t) /\ ~resetting)
    /\ ticks' = [ticks EXCEPT ![t] = [pc |-> "read", copy |-> [clock EXCEPT !.status = "TICKING"],
                                      from |-> clock.currentTick, left |-> n, day |-> 0]]
    /\ UNCHANGED <<clock, resetting, effects, dayRuns, breaks>>

\* Claim it.
TickClaims(t) ==
    /\ ticks[t].pc = "read"
    /\ clock' = ticks[t].copy
    /\ ticks' = [ticks EXCEPT ![t].pc = "days"]
    /\ UNCHANGED <<resetting, effects, dayRuns, breaks>>

Today(t) == ticks[t].copy.currentTick + 1

\* One day: the event of that day takes effect unless it is in firedEvents, and is noted there
\* in the copy.
DayFires(t) ==
    LET due == (ScriptTicks \cap {Today(t)}) \ ticks[t].copy.firedEvents IN
    /\ ticks[t].pc = "days" /\ ticks[t].left > 0
    /\ effects' = [e \in ScriptTicks |-> IF e \in due THEN effects[e] + 1 ELSE effects[e]]
    /\ ticks' = [ticks EXCEPT ![t].pc = "fired", ![t].copy.firedEvents = @ \cup due]
    /\ UNCHANGED <<clock, resetting, dayRuns, breaks>>

\* The day is over: the copy moves on and is stored, still TICKING.
DayEnds(t) == LET next == [ticks[t].copy EXCEPT !.currentTick = @ + 1] IN
    /\ ticks[t].pc = "fired"
    /\ clock' = next
    /\ ticks' = [ticks EXCEPT ![t].pc = IF ticks[t].left = 1 THEN "after" ELSE "days",
                              ![t].copy = next, ![t].left = @ - 1]
    /\ UNCHANGED <<resetting, effects, dayRuns, breaks>>

\* Aggregation, derivation, calibration, scan and the report have been written.
DaysReported(t) ==
    /\ ticks[t].pc = "after"
    /\ ticks' = [ticks EXCEPT ![t].pc = "playbook", ![t].day = ticks[t].from + 1]
    /\ UNCHANGED <<clock, resetting, effects, dayRuns, breaks>>

\* The playbook of one of the days runs, whether it succeeds or not.
PlaybookRuns(t) == LET d == ticks[t].day IN
    /\ ticks[t].pc = "playbook" /\ d <= ticks[t].copy.currentTick
    /\ dayRuns' = [dayRuns EXCEPT ![d] = @ + 1]
    /\ ticks' = [ticks EXCEPT ![t].day = @ + 1]
    /\ UNCHANGED <<clock, resetting, effects, breaks>>

\* Mutant of TickEnds: after a failure the clock is stored as it was before the tick.
TickEndsRolledBack(t) ==
    /\ ticks[t].pc = "failed" \/ (ticks[t].pc = "playbook" /\ ticks[t].day > ticks[t].copy.currentTick)
    /\ clock' = [ticks[t].copy EXCEPT !.status = "ACTIVE",
                                      !.currentTick = IF ticks[t].pc = "failed" THEN ticks[t].from ELSE @]
    /\ ticks' = [ticks EXCEPT ![t] = NoTick]
    /\ UNCHANGED <<resetting, effects, dayRuns, breaks>>

\* The end of the try block and the catch block: the copy is stored as ACTIVE.
TickEnds(t) ==
    /\ ticks[t].pc = "failed" \/ (ticks[t].pc = "playbook" /\ ticks[t].day > ticks[t].copy.currentTick)
    /\ clock' = [ticks[t].copy EXCEPT !.status = "ACTIVE"]
    /\ ticks' = [ticks EXCEPT ![t] = NoTick]
    /\ UNCHANGED <<resetting, effects, dayRuns, breaks>>

\* Something throws inside the try block.
TickFails(t) ==
    /\ breaks < MaxBreaks /\ ticks[t].pc \in {"days", "fired", "after"}
    /\ breaks' = breaks + 1
    /\ ticks' = [ticks EXCEPT ![t].pc = "failed"]
    /\ UNCHANGED <<clock, resetting, effects, dayRuns>>

\* The process stops: every tick under way is gone and nothing is stored.
ClockRestarts ==
    /\ breaks < MaxBreaks
    /\ resetting => ResetsBreak
    /\ resetting \/ \E t \in Tickers : ticks[t].pc # "idle"
    /\ breaks' = breaks + 1
    /\ ticks' = [t \in Tickers |-> NoTick] /\ resetting' = FALSE
    /\ UNCHANGED <<clock, effects, dayRuns>>

-----------------------------------------------------------------------------
(* reset *)

\* The clock is marked and the synthetic data is generated again, whatever its status.
ResetStarts ==
    /\ ~resetting
    /\ OverlapsAllowed \/ \A t \in Tickers : ticks[t].pc = "idle"
    /\ clock' = [clock EXCEPT !.status = "RESETTING"] /\ resetting' = TRUE
    /\ UNCHANGED <<ticks, effects, dayRuns, breaks>>

\* The initial objects are back and the clock is a new one at tick 0.
ResetEnds ==
    /\ resetting
    /\ clock' = FreshClock /\ resetting' = FALSE
    /\ effects' = [e \in ScriptTicks |-> 0] /\ dayRuns' = [d \in 1..MaxTick |-> 0]
    /\ UNCHANGED <<ticks, breaks>>

ClockNext ==
    \/ \E t \in Tickers : \/ TickReads(t) \/ TickClaims(t) \/ DayFires(t) \/ DayEnds(t) \/ DaysReported(t)
                          \/ PlaybookRuns(t) \/ TickEnds(t) \/ TickFails(t)
    \/ ClockRestarts
    \/ ResetStarts \/ ResetEnds

ClockSpec == ClockInit /\ [][ClockNext]_clockVars

-----------------------------------------------------------------------------
(* Properties *)

\* The script takes effect exactly once on the way through it, whatever fails in between: the
\* event of a day that is past has taken effect once, that of a later day not at all, and that
\* of the day a tick broke in at most once.
ScriptExact == \A e \in ScriptTicks :
    /\ effects[e] <= 1
    /\ e <= clock.currentTick => effects[e] = 1
    /\ e > clock.currentTick + 1 => effects[e] = 0

\* No day's playbook runs twice: a retried tick does not go over days that are past.
PlaybookOnce == \A d \in 1..MaxTick :
    dayRuns[d] <= 1 /\ (dayRuns[d] = 1 => d <= clock.currentTick)

\* Both: the simulated past has happened once, neither more nor less.
TicksOnce == ScriptExact /\ PlaybookOnce

\* "a tick is already running" (simclock.ts:84): two ticks are never past that check at once.
OneTick == Cardinality({t \in Tickers : ticks[t].pc # "idle"}) <= 1

=============================================================================
