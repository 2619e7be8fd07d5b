----------------------------- MODULE MCWorkerRuns -----------------------------
EXTENDS WorkerRuns

\* The bound of the run. Either a write is under way, or a crash has taken one and
\* the thread (one at most) has not run since; and while one of these is so nothing
\* else is out of the ordinary: nothing waits or was passed over, no thread is
\* closed, the worker is not paused, and no routine, heartbeat, check-in or retry is
\* due.
OneTroubleAtATime ==
  LET slow == disk # Saved(eng)
      lost == {t \in Threads : newest[t].lost}
  IN slow \/ lost # {} =>
       /\ ~slow \/ lost = {}
       /\ Cardinality(lost) <= 1
       /\ ~eng.paused /\ ~eng.woken /\ eng.waiting = {} /\ eng.receipt.later = {}
       /\ eng.closed = {} /\ eng.slots = {} /\ eng.retries = {}
       /\ \A t \in Threads : eng.beat[t] = "none"

=============================================================================
