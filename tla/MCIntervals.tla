---------------------------- MODULE MCIntervals ----------------------------
(* The configurations TLC takes Intervals through. *)
EXTENDS Intervals

Section(f, lo, hi) == [factor |-> f, min |-> lo, max |-> hi]

\* The defaults, a pinned interval, an inverted section, and small sections whose
\* band the warmup crosses.
MCConfigs ==
  {[rescan |-> Section(25, 60, 1800), idle |-> Section(120, 1800, 86400)],
   [rescan |-> Section(25, 300, 300), idle |-> Section(0, 600, 600)],
   [rescan |-> Section(25, 300, 60), idle |-> Section(120, 900, 0)]}
  \cup [rescan : {Section(f, lo, 100) : f \in {0, 1, 25}, lo \in {0, 20}},
        idle : {Section(f, 20, hi) : f \in {1, 30}, hi \in {40, 400}}]

=============================================================================
