------------------------------ MODULE MCScheduler ------------------------------
EXTENDS Scheduler

\* A one-off, and a task that runs at every tick.
TwoSchedules == {[kind |-> "once", at |-> 1], [kind |-> "every", at |-> 1]}

=============================================================================
