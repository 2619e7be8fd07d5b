------------------------------ MODULE LeaseQueue ------------------------------
(***************************************************************************)
(* What the computer lease promises, without how it keeps it: one thing,   *)
(* at most one run that has it, and a line of runs that wait for it. Who   *)
(* joins stands behind everyone; who waits may leave at any time; and the  *)
(* thing goes to the front of the line and nowhere else. ComputerLease,    *)
(* with its sweeps, timers, abort listeners and refusals, implements it.   *)
(***************************************************************************)
CONSTANTS Runs, None

VARIABLES
  holder,   \* the run that has it, or None
  line,     \* the runs that wait for it
  before    \* pairs <<a, b>> of waiting runs: a stands before b

vars == <<holder, line, before>>

TypeOK ==
  /\ holder \in Runs \cup {None}
  /\ line \subseteq Runs
  /\ before \subseteq line \X line

Init == holder = None /\ line = {} /\ before = {}

\* Of the line, the runs W stay, in the order they have, and those of new (one
\* run or none) join behind them.
Becomes(W, new) ==
  /\ line' = W \cup new
  /\ before' = (before \cap (W \X W)) \cup (W \X new)

IsFront(r, W) == r \in W /\ \A w \in W \ {r} : <<r, w>> \in before

\* At most one run joins at a time: not the one that has the thing, and none
\* as long as nobody has it.
Joining(h, W) == {{}} \cup {{r} : r \in IF h = None THEN {} ELSE Runs \ (W \cup {h})}

\* Some of the line leave it, and one may join.
Queue ==
  \E W \in SUBSET line :
    \E new \in Joining(holder, W) : Becomes(W, new) /\ UNCHANGED holder

\* The holder lets go, some leave, the front of those who stay takes over, and
\* one may join.
PassOn ==
  \E W \in SUBSET line :
    \E r \in W :
      /\ IsFront(r, W)
      /\ holder' = r
      /\ \E new \in Joining(r, W) : Becomes(W \ {r}, new)

\* Nobody stays in the line: nobody has the thing, or a run that comes for it.
Free ==
  /\ holder' \in {None} \cup (Runs \ line)
  /\ Becomes({}, {})

Next == Queue \/ PassOn \/ Free

Spec == Init /\ [][Next]_vars

=============================================================================
