----------------------------- MODULE MCScheduler -----------------------------
EXTENDS Scheduler, TLC

CONSTANTS s1, a1, a2

MCSchedules == {s1}
MCActors == {a1, a2}
OneActor == {a1}
Symmetry == Permutations(MCActors)

\* A recurring schedule on a grid, and a one-shot with an end.
MCTimings == {[kind |-> "interval", start |-> None, end |-> None],
              [kind |-> "at", start |-> 1, end |-> 3]}

\* All four kinds; the daily one ends.
AllTimings == MCTimings \cup
    {[kind |-> "daily", start |-> 1, end |-> 4],
     [kind |-> "cron", start |-> None, end |-> None]}
=============================================================================
