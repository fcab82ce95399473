-------------------------- MODULE IntervalsProofs --------------------------
(***************************************************************************)
(* Proofs about Intervals for every configuration, every warmup and any    *)
(* number of callers.                                                      *)
(***************************************************************************)
EXTENDS Intervals, TLAPS

\* clamp_secs never leaves the band, even when its maximum lies below its minimum,
\* which u64::clamp would not survive.
THEOREM ClampSecsInBand ==
  ASSUME NEW scaled \in Nat, NEW min \in Nat, NEW max \in Nat
  PROVE  /\ ClampSecs(scaled, min, max) \in Nat
         /\ min <= ClampSecs(scaled, min, max)
         /\ ClampSecs(scaled, min, max) <= AtLeast(max, min)
BY DEF ClampSecs, AtLeast, AtMost, Round

\* A costlier warmup never earns a shorter interval: also across zero, where
\* clamp_secs falls back to the minimum.
LEMMA ClampSecsMonotone ==
  ASSUME NEW a \in Nat, NEW b \in Nat, NEW min \in Nat, NEW max \in Nat, a <= b
  PROVE  ClampSecs(a, min, max) <= ClampSecs(b, min, max)
BY DEF ClampSecs, AtLeast, AtMost, Round

\* Multiplying by a factor keeps the order.
LEMMA TimesMonotone ==
  ASSUME NEW a \in Nat, NEW b \in Nat, NEW m \in Nat, NEW n \in Nat, a <= b, m <= n
  PROVE  a * m \in Nat /\ a * m <= b * n
<1>1. a * m <= b * m
  BY Z3
<1>2. b * m <= b * n
  BY Z3
<1> QED BY <1>1, <1>2, Z3

\* The interval of a section grows with the warmup.
THEOREM DerivedMonotone ==
  ASSUME NEW band \in Band, NEW a \in Nat, NEW b \in Nat, a <= b
  PROVE  Derived(band, a) <= Derived(band, b)
<1>1. band.factor \in Nat /\ band.min \in Nat /\ band.max \in Nat
  BY DEF Band
<1>2. a * band.factor \in Nat /\ b * band.factor \in Nat
      /\ a * band.factor <= b * band.factor
  BY <1>1, TimesMonotone
<1> QED BY <1>1, <1>2, ClampSecsMonotone DEF Derived

\* The interval of a section with larger keys is larger.
LEMMA ClampSecsDominates ==
  ASSUME NEW a \in Nat, NEW b \in Nat, a <= b,
         NEW lo \in Nat, NEW lo2 \in Nat, lo <= lo2,
         NEW hi \in Nat, NEW hi2 \in Nat, hi <= hi2
  PROVE  ClampSecs(a, lo, hi) <= ClampSecs(b, lo2, hi2)
BY DEF ClampSecs, AtLeast, AtMost, Round

\* The interval of a clamped cost is the cost to the nearest second, but for the
\* floor and the ceiling.
LEMMA ClampSecsNearest ==
  ASSUME NEW scaled \in Nat, NEW min \in Nat, NEW max \in Nat
  PROVE  /\ ClampSecs(scaled, min, max) < AtLeast(max, min)
              => scaled < ClampSecs(scaled, min, max) * 1000 + 500
         /\ ClampSecs(scaled, min, max) > min
              => ClampSecs(scaled, min, max) * 1000 <= scaled + 500
BY DEF ClampSecs, AtLeast, AtMost, Round

-----------------------------------------------------------------------------
\* The inductive invariant: the types; a caller was told an elapsed time of the past
\* or the measurement; and who is about to be told the elapsed time was not told the
\* measurement, which is there for good.
IInv ==
  /\ elapsed \in Nat /\ ttr \in Nat
  /\ reading \in [Measurers -> Nat]
  /\ warming \in [Callers -> BOOLEAN]
  /\ told \in [Callers -> Nat]
  /\ basis \in [Callers -> {"nothing", "elapsed", "measured"}]
  /\ \A c \in Callers :
       /\ basis[c] = "nothing" => told[c] = 0
       /\ basis[c] = "elapsed" => told[c] <= elapsed
       /\ basis[c] = "measured" => told[c] = ttr /\ ttr # 0 /\ ~warming[c]

\* The invariant is inductive.
LEMMA StepInv == IInv /\ [Next]_vars => IInv'
<1> SUFFICES ASSUME IInv, [Next]_vars PROVE IInv'
  OBVIOUS
<1> USE DEF IInv
<1>1. CASE Tick
  BY <1>1, ConfigsType DEF Tick
<1>2. ASSUME NEW m \in Measurers, Measure(m) PROVE IInv'
  BY <1>2 DEF Measure, AtLeast
<1>3. ASSUME NEW m \in Measurers, StoreMeasured(m) PROVE IInv'
  BY <1>3 DEF StoreMeasured
<1>4. ASSUME NEW c \in Callers, Load(c) PROVE IInv'
  BY <1>4 DEF Load
<1>5. ASSUME NEW c \in Callers, TellElapsed(c) PROVE IInv'
  BY <1>5 DEF TellElapsed
<1>6. CASE UNCHANGED vars
  BY <1>6 DEF vars
<1> QED BY <1>1, <1>2, <1>3, <1>4, <1>5, <1>6 DEF Next

\* It holds in every reachable state.
LEMMA SpecInv == Spec => []IInv
<1>1. Init => IInv
  BY DEF Init, IInv
<1> QED BY <1>1, StepInv, PTL DEF Spec

\* The sections of a configuration are bands.
LEMMA Sections ==
  ASSUME NEW config \in Configs
  PROVE  config.rescan \in Band /\ config.idle \in Band
BY ConfigsType

\* Until the measured time takes the place of the elapsed one, what a caller is told
\* only grows; and once it is the measured time, it stays.
LEMMA ToldGrows ==
  ASSUME IInv, [Next]_vars, NEW c \in Callers
  PROVE  /\ told[c] \in Nat /\ told'[c] \in Nat
         /\ ~Replaced(c) => told[c] <= told'[c]
         /\ basis[c] = "measured" => told'[c] = told[c]
<1>1. told[c] \in Nat /\ told'[c] \in Nat
  BY StepInv DEF IInv
<1>2. ASSUME NEW d \in Callers, Load(d)
      PROVE  /\ ~Replaced(c) => told[c] <= told'[c]
             /\ basis[c] = "measured" => told'[c] = told[c]
  BY <1>2 DEF Load, IInv, Replaced
<1>3. ASSUME NEW d \in Callers, TellElapsed(d)
      PROVE  /\ ~Replaced(c) => told[c] <= told'[c]
             /\ basis[c] = "measured" => told'[c] = told[c]
  BY <1>3 DEF TellElapsed, IInv, Replaced
<1>4. CASE UNCHANGED told
  BY <1>1, <1>4
<1> QED BY <1>1, <1>2, <1>3, <1>4 DEF Next, Tick, Measure, StoreMeasured, vars

-----------------------------------------------------------------------------
\* Whatever the configuration, the reported intervals keep to their bands.
THEOREM SpecBandsKept == Spec => []BandsKept
<1>1. ASSUME NEW band \in Band, NEW ms \in Nat PROVE InBand(Derived(band, ms), band)
  <2>1. band.factor \in Nat /\ band.min \in Nat /\ band.max \in Nat
    BY DEF Band
  <2>2. ms * band.factor \in Nat
    BY <2>1, TimesMonotone
  <2> QED BY <2>1, <2>2, ClampSecsInBand DEF Derived, InBand
<1>2. IInv => BandsKept
  BY <1>1, Sections DEF IInv, BandsKept, RescanInterval, IdleTimeout
<1> QED BY <1>2, SpecInv, PTL

\* Whatever the configuration, the rescan interval is at least the factor times the
\* cost of a rescan unless it is at its ceiling, and at most that unless it is at its
\* floor, each to the nearest second.
THEOREM SpecDutyKept == Spec => []DutyKept
<1>1. ASSUME IInv PROVE DutyKept
  <2>1. SUFFICES ASSUME NEW config \in Configs, NEW c \in Callers
        PROVE LET band     == config.rescan
                  interval == RescanInterval(config, told[c])
                  scaled   == told[c] * band.factor
              IN  /\ interval < AtLeast(band.max, band.min) => scaled < interval * 1000 + 500
                  /\ interval > band.min => interval * 1000 <= scaled + 500
    BY DEF DutyKept
  <2>2. config.rescan.factor \in Nat /\ config.rescan.min \in Nat /\ config.rescan.max \in Nat
    BY Sections DEF Band
  <2>3. told[c] * config.rescan.factor \in Nat
    BY <1>1, <2>2, TimesMonotone DEF IInv
  <2> QED BY <2>2, <2>3, ClampSecsNearest DEF RescanInterval, Derived
<1> QED BY <1>1, SpecInv, PTL

\* Whatever the configuration, and however many callers measure, a caller's intervals
\* grow, step back at most when the measured time takes over, and then stay.
THEOREM SpecReportsSettle == Spec => ReportsSettle
<1> DEFINE Settles ==
      \A config \in Configs, c \in Callers :
        LET now   == <<RescanInterval(config, told[c]), IdleTimeout(config, told[c])>>
            later == <<RescanInterval(config, told'[c]), IdleTimeout(config, told'[c])>>
        IN  /\ ~Replaced(c) => now[1] <= later[1] /\ now[2] <= later[2]
            /\ basis[c] = "measured" => now = later
<1>1. IInv /\ [Next]_vars => [Settles]_vars
  <2> SUFFICES ASSUME IInv, [Next]_vars, NEW config \in Configs, NEW c \in Callers
      PROVE  /\ ~Replaced(c) =>
                   /\ RescanInterval(config, told[c]) <= RescanInterval(config, told'[c])
                   /\ IdleTimeout(config, told[c]) <= IdleTimeout(config, told'[c])
             /\ basis[c] = "measured" =>
                   /\ RescanInterval(config, told[c]) = RescanInterval(config, told'[c])
                   /\ IdleTimeout(config, told[c]) = IdleTimeout(config, told'[c])
    OBVIOUS
  <2> QED BY ToldGrows, Sections, DerivedMonotone DEF RescanInterval, IdleTimeout
<1> QED BY <1>1, SpecInv, PTL DEF Spec, ReportsSettle

\* Where the idle section is nowhere below the rescan section, the idle timeout a caller
\* is told is not shorter than the rescan interval it was told just before, unless the
\* measured time took the place of the elapsed one in between.
THEOREM SpecIdleOutlastsRescan == Spec => IdleOutlastsRescan
<1> DEFINE Outlasts ==
      \A config \in Configs, c \in Callers :
        /\ config.rescan.factor <= config.idle.factor
        /\ config.rescan.min <= config.idle.min
        /\ config.rescan.max <= config.idle.max
        /\ ~Replaced(c)
        => RescanInterval(config, told[c]) <= IdleTimeout(config, told'[c])
<1>1. IInv /\ [Next]_vars => [Outlasts]_vars
  <2> SUFFICES ASSUME IInv, [Next]_vars, NEW config \in Configs, NEW c \in Callers,
                      config.rescan.factor <= config.idle.factor,
                      config.rescan.min <= config.idle.min,
                      config.rescan.max <= config.idle.max,
                      ~Replaced(c)
      PROVE  RescanInterval(config, told[c]) <= IdleTimeout(config, told'[c])
    OBVIOUS
  <2> DEFINE r == config.rescan
             i == config.idle
  <2>1. /\ r.factor \in Nat /\ r.min \in Nat /\ r.max \in Nat
        /\ i.factor \in Nat /\ i.min \in Nat /\ i.max \in Nat
    BY Sections DEF Band
  <2>2. told[c] \in Nat /\ told'[c] \in Nat /\ told[c] <= told'[c]
    BY ToldGrows
  <2>3. /\ told[c] * r.factor \in Nat /\ told'[c] * i.factor \in Nat
        /\ told[c] * r.factor <= told'[c] * i.factor
    BY <2>1, <2>2, TimesMonotone
  <2> QED BY <2>1, <2>3, ClampSecsDominates DEF RescanInterval, IdleTimeout, Derived
<1> QED BY <1>1, SpecInv, PTL DEF Spec, IdleOutlastsRescan

=============================================================================
