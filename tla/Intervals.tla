----------------------------- MODULE Intervals -----------------------------
(***************************************************************************)
(* The rescan interval and the idle timeout that a workspace's measured    *)
(* warmup earns it (src/src/config.rs, and their callers in pool.rs), over *)
(* the life of one workspace: what a client and the sweep are told while   *)
(* it warms up, and after.                                                 *)
(*                                                                         *)
(* A measurement is read and stored in two steps, and time_to_ready loads  *)
(* the measurement before it reads the clock.  Durations are whole         *)
(* milliseconds, intervals whole seconds; f64 rounding is rounding half    *)
(* up, which is what round() does to a positive number.                    *)
(***************************************************************************)
EXTENDS Naturals

CONSTANTS
  Configs,     \* the [workspaces] sections considered
  Measurers,   \* who finds the workspace ready and measures (module Readiness)
  Callers,     \* who asks for the intervals, again and again
  Step,        \* the clock's step, in milliseconds
  MaxElapsed   \* the clock stops here

\* Six unsigned keys of the section; nothing says that a minimum is not above its
\* maximum.
Band == [factor : Nat, min : Nat, max : Nat]

ASSUME ConfigsType ==
  /\ Configs \subseteq [rescan : Band, idle : Band]
  /\ Step \in Nat \ {0}
  /\ MaxElapsed \in Nat

VARIABLES
  elapsed,  \* origin.elapsed()
  ttr,      \* time_to_ready_ms, 0 until the first measurement is stored
  reading,  \* the elapsed_ms a measurer has read and not yet stored, or 0
  warming,  \* whether a caller has found no measurement and not yet read the clock
  told,     \* what time_to_ready last returned to a caller, 0 before
  basis     \* what that was

vars == <<elapsed, ttr, reading, warming, told, basis>>

AtLeast(a, b) == IF a < b THEN b ELSE a
AtMost(a, b)  == IF a > b THEN b ELSE a

\* Mutated form: the conversion to whole seconds truncates.
Round_Down(ms) == ms \div 1000

Round(ms) == (ms + 500) \div 1000

\* Mutated form: the maximum is taken as it is.
ClampSecs_Inverted(scaled, min, max) == AtMost(AtLeast(Round(scaled), min), max)

\* clamp_secs, with scaled in milliseconds; a maximum below the minimum gives way.
ClampSecs(scaled, min, max) ==
  LET secs == IF scaled > 0 THEN Round(scaled) ELSE min
  IN  AtMost(AtLeast(secs, min), AtLeast(max, min))

Derived(band, ms) == ClampSecs(ms * band.factor, band.min, band.max)

RescanInterval(c, ms) == Derived(c.rescan, ms)

\* Mutated form: the floor of the idle section is forgotten.
IdleTimeout_NoFloor(c, ms) == Derived([c.idle EXCEPT !.min = 0], ms)

IdleTimeout(c, ms) == Derived(c.idle, ms)

Init ==
  /\ elapsed = 0 /\ ttr = 0
  /\ reading = [m \in Measurers |-> 0]
  /\ warming = [c \in Callers |-> FALSE]
  /\ told = [c \in Callers |-> 0]
  /\ basis = [c \in Callers |-> "nothing"]

Tick ==
  /\ elapsed + Step <= MaxElapsed
  /\ elapsed' = elapsed + Step
  /\ UNCHANGED <<ttr, reading, warming, told, basis>>

-----------------------------------------------------------------------------
(* observe_readiness, its two last steps, and create's counterpart of them. *)

Measure(m) ==
  /\ reading[m] = 0
  /\ reading' = [reading EXCEPT ![m] = AtLeast(elapsed, 1)]
  /\ UNCHANGED <<elapsed, ttr, warming, told, basis>>

\* Mutated form: the measurement is stored and not compare-exchanged.
StoreMeasured_Again(m) ==
  /\ reading[m] # 0
  /\ ttr' = reading[m]
  /\ reading' = [reading EXCEPT ![m] = 0]
  /\ UNCHANGED <<elapsed, warming, told, basis>>

StoreMeasured(m) ==
  /\ reading[m] # 0
  /\ ttr' = IF ttr = 0 THEN reading[m] ELSE ttr
  /\ reading' = [reading EXCEPT ![m] = 0]
  /\ UNCHANGED <<elapsed, warming, told, basis>>

-----------------------------------------------------------------------------
(* time_to_ready, after its progress(). *)

Load(c) ==
  /\ ~warming[c]
  /\ \/ /\ ttr = 0
        /\ warming' = [warming EXCEPT ![c] = TRUE]
        /\ UNCHANGED <<told, basis>>
     \/ /\ ttr # 0
        /\ told' = [told EXCEPT ![c] = ttr]
        /\ basis' = [basis EXCEPT ![c] = "measured"]
        /\ UNCHANGED warming
  /\ UNCHANGED <<elapsed, ttr, reading>>

\* Nothing was measured: the elapsed time so far, whatever is stored by now.
TellElapsed(c) ==
  /\ warming[c]
  /\ warming' = [warming EXCEPT ![c] = FALSE]
  /\ told' = [told EXCEPT ![c] = elapsed]
  /\ basis' = [basis EXCEPT ![c] = "elapsed"]
  /\ UNCHANGED <<elapsed, ttr, reading>>

Next ==
  \/ Tick
  \/ \E m \in Measurers : Measure(m) \/ StoreMeasured(m)
  \/ \E c \in Callers : Load(c) \/ TellElapsed(c)

Spec == Init /\ [][Next]_vars

-----------------------------------------------------------------------------
(* Properties. *)

InBand(secs, band) == band.min <= secs /\ secs <= AtLeast(band.max, band.min)

\* Whatever the section says, its minimum is kept, and its maximum too unless it
\* lies below the minimum; a section with both equal pins the interval.
BandsKept ==
  \A config \in Configs, c \in Callers :
    /\ InBand(RescanInterval(config, told[c]), config.rescan)
    /\ InBand(IdleTimeout(config, told[c]), config.idle)

\* "Keep rescan cost near 4% of wall-clock" (DESIGN.md), one in duty_factor.  Unless
\* it is at its ceiling, the interval is at least the factor times what a rescan
\* costs; unless it is at its floor, it is at most that; each to the nearest second.
DutyKept ==
  \A config \in Configs, c \in Callers :
    LET band     == config.rescan
        interval == RescanInterval(config, told[c])
        scaled   == told[c] * band.factor
    IN  /\ interval < AtLeast(band.max, band.min) => scaled < interval * 1000 + 500
        /\ interval > band.min => interval * 1000 <= scaled + 500

\* The measured time takes the place of an elapsed one told before.
Replaced(c) == basis[c] = "elapsed" /\ basis'[c] = "measured"

\* What a caller is told settles: the intervals grow as long as they follow the elapsed
\* time, may step back only when the measured time takes its place, since that was
\* read earlier than it was stored, and never change once they follow the measured
\* time, however many callers measure and in whatever order they store.
ReportsSettle ==
  [][\A config \in Configs, c \in Callers :
       LET now   == <<RescanInterval(config, told[c]), IdleTimeout(config, told[c])>>
           later == <<RescanInterval(config, told'[c]), IdleTimeout(config, told'[c])>>
       IN  /\ ~Replaced(c) => now[1] <= later[1] /\ now[2] <= later[2]
           /\ basis[c] = "measured" => now = later]_vars

\* Where the idle section is nowhere below the rescan section, as in the defaults, the
\* idle timeout of a report is not shorter than its rescan interval, which was asked for
\* just before: a workspace that nobody uses is not evicted sooner than it is rescanned.
\* The one exception is a measured time that takes the place of an elapsed one between
\* the two questions.
IdleOutlastsRescan ==
  [][\A config \in Configs, c \in Callers :
       /\ config.rescan.factor <= config.idle.factor
       /\ config.rescan.min <= config.idle.min
       /\ config.rescan.max <= config.idle.max
       /\ ~Replaced(c)
       => RescanInterval(config, told[c]) <= IdleTimeout(config, told'[c])]_vars

=============================================================================
