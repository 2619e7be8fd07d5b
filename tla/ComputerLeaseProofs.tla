------------------------- MODULE ComputerLeaseProofs -------------------------
(***************************************************************************)
(* The safety of the computer's lease, for any set of runs, and that it    *)
(* implements the line for one thing of LeaseQueue.                        *)
(***************************************************************************)
EXTENDS ComputerLease, TLAPS

\* Every variable keeps its type whatever the runs, the user and the timers
\* do (the fields of ComputerLease, the tool's per-chat maps, activeRuns).
LEMMA TypeInit == Init => TypeOK
BY DEF Init, TypeOK, Phases, Acting

LEMMA TypeStep == TypeOK /\ [Next]_vars => TypeOK'
<1> SUFFICES ASSUME TypeOK, [Next]_vars PROVE TypeOK'
  OBVIOUS
<1> USE RunsAssumption DEF TypeOK, Phases, Acting
<1> USE DEF runVars, leaseVars, screenVars
<1>1. ASSUME NEW r \in Runs, LeaseStep(r) PROVE TypeOK'
  <2>1. CASE Acquire(r)
    <3> PICK h \in Runs \cup {None}, gone \in SUBSET Ended :
          Forget(gone) /\ (Refuse(r, h) \/ Grant(r, h) \/ Park(r, h))
      BY <2>1 DEF Acquire
    <3>1. UNCHANGED <<live, aborted, driving, shot, moved, inside>>
          /\ revoked' \subseteq Runs /\ news' \in [Runs -> SUBSET Runs]
      BY <2>1 DEF Acquire, StillRevoked, Forget, Ended
    <3>2. CASE Refuse(r, h)
      BY <3>1, <3>2 DEF Refuse, Reply, Leave, Remain, Left
    <3>3. CASE Grant(r, h)
      BY <3>1, <3>3 DEF Grant, Reply, HandTo, Remain, Left
    <3>4. CASE Park(r, h)
      BY <3>1, <3>4 DEF Park, Reply, Leave, StandBehind, Left
    <3>5. QED
      BY <3>2, <3>3, <3>4
  <2>2. CASE TimeOut(r)
    BY <2>2 DEF TimeOut, Remain, Answer
  <2>3. QED
    BY <1>1, <2>1, <2>2 DEF LeaseStep
<1>2. ASSUME NEW r \in Runs, RunStep(r) PROVE TypeOK'
  <2>1. CASE Start(r)
    BY <2>1 DEF Start
  <2>2. CASE End(r)
    BY <2>2 DEF End
  <2>3. CASE Stop(r)
    <3> PICK h \in Runs \cup {None} : Release(r, h)
      BY <2>3 DEF Stop
    <3>1. holder' \in Runs \cup {None} /\ idle' \in BOOLEAN
      BY DEF Release, HandTo
    <3>2. /\ phase' \in [Runs -> Phases]
          /\ waiters' \subseteq Runs /\ ahead' \in [Runs -> SUBSET Runs]
      BY DEF Release, Remain, Answer
    <3>3. QED
      BY <2>3, <3>1, <3>2 DEF Stop, Release
  <2>4. QED
    BY <1>2, <2>1, <2>2, <2>3 DEF RunStep
<1>3. ASSUME NEW r \in Runs, ToolStep(r) PROVE TypeOK'
  <2>1. CASE Look(r)
    BY <2>1 DEF Look, See
  <2>2. CASE Call(r) \/ Decline(r)
    BY <2>2 DEF Call, Decline
  <2>3. CASE Proceed(r)
    BY <2>3 DEF Proceed
  <2>4. CASE Enter(r)
    <3>1. Noted(r) \in [Runs -> SUBSET Runs]
      BY DEF Noted
    <3>2. QED
      BY <2>4, <3>1 DEF Enter, Touch
  <2>5. CASE Aim(r)
    BY <2>5 DEF Aim, Touch, Noted
  <2>6. CASE Send(r) \/ More(r) \/ Fail(r)
    BY <2>6 DEF Send, More, Fail
  <2>7. CASE Finish(r)
    <3>1. Noted(r) \in [Runs -> SUBSET Runs]
      BY DEF Noted
    <3>2. QED
      BY <2>7, <3>1 DEF Finish
  <2>8. QED
    BY <1>3, <2>1, <2>2, <2>3, <2>4, <2>5, <2>6, <2>7 DEF ToolStep
<1>4. CASE Sweep
  BY <1>4 DEF Sweep, StillRevoked, Forget, Ended, Remain, Reply, Leave, Left
<1>5. CASE TakeBack
  BY <1>5 DEF TakeBack, Remain, Answer
<1>6. CASE Dispose
  BY <1>6 DEF Dispose, Remain
<1>7. CASE Idle \/ Poll \/ UNCHANGED vars
  BY <1>7 DEF Idle, Poll, vars
<1>8. QED
  BY <1>1, <1>2, <1>3, <1>4, <1>5, <1>6, <1>7 DEF Next

\* The inductive invariant: the array holds exactly the parked calls; there
\* is a holder while there are waiters and a sweep while there is a holder;
\* stopped and refused runs are off the computer, which a stop can only do
\* for runs it watches; and who is on the computer is driving, which holds
\* because a call that is not driving any more will be refused.
Inv ==
  /\ TypeOK
  /\ NobodyWaitsForNobody /\ WaitersAreParked
  /\ TakenBack /\ StoppedLetsGo /\ EmergencyStopReaches
  /\ waiters \cup ({holder} \ {None}) \subseteq watched
  /\ holder # None => phase[holder] # "out"
  /\ \A r \in live : phase[r] = "called" => r \in driving \cup revoked \cup aborted

LEMMA InvInit == Init => Inv
BY TypeInit, RunsAssumption
   DEF Init, Inv, NobodyWaitsForNobody, WaitersAreParked, TakenBack,
       StoppedLetsGo, EmergencyStopReaches

\* A hand-over leaves a holder whenever it leaves a waiter, and hands the
\* lease to nobody but a live waiter.
LEMMA FirstIsLive ==
  ASSUME NEW h, NEW W, IsFirst(h, W), None \notin W
  PROVE  h \in W \/ (h = None /\ W = {})
BY DEF IsFirst

LEMMA InvStep == Inv /\ [Next]_vars => Inv'
<1> SUFFICES ASSUME Inv, [Next]_vars PROVE Inv'
  OBVIOUS
<1>0. TypeOK'
  BY TypeStep DEF Inv
<1> USE RunsAssumption DEF Inv, TypeOK, NobodyWaitsForNobody,
        WaitersAreParked, TakenBack, StoppedLetsGo, EmergencyStopReaches
<1> USE DEF runVars, leaseVars, screenVars
<1>1. ASSUME NEW r \in Runs, LeaseStep(r) PROVE Inv'
  <2>1. CASE Acquire(r)
    <3> PICK h \in Runs \cup {None} :
          Swept(h) /\ (Refuse(r, h) \/ Grant(r, h) \/ Park(r, h))
      BY <2>1 DEF Acquire
    <3>1. UNCHANGED <<live, aborted, driving>> /\ revoked' = revoked \cap live
          /\ phase[r] = "called"
      BY <2>1 DEF Acquire, StillRevoked
    <3>2. \/ h = None /\ waiters \cap live = {}
          \/ h \in waiters \cap live
          \/ h = holder /\ h \in live
      BY DEF Swept, LetsGo, IsFirst
    <3>3. CASE Refuse(r, h)
      BY <1>0, <3>1, <3>2, <3>3
         DEF Refuse, Reply, Leave, Remain, Left, StillRevoked
    <3>4. CASE Grant(r, h)
      BY <1>0, <3>1, <3>2, <3>4
         DEF Grant, Reply, HandTo, Remain, Left, StillRevoked
    <3>5. CASE Park(r, h)
      BY <1>0, <3>1, <3>2, <3>5
         DEF Park, Reply, Leave, StandBehind, Left, StillRevoked
    <3>6. QED
      BY <3>3, <3>4, <3>5
  <2>2. CASE TimeOut(r)
    BY <1>0, <2>2 DEF TimeOut, Remain, Answer
  <2>3. QED
    BY <1>1, <2>1, <2>2 DEF LeaseStep
<1>2. ASSUME NEW r \in Runs, RunStep(r) PROVE Inv'
  <2>1. CASE Start(r)
    BY <1>0, <2>1 DEF Start
  <2>2. CASE End(r)
    BY <1>0, <2>2 DEF End
  <2>3. CASE Stop(r)
    <3> PICK h \in Runs \cup {None} : Release(r, h)
      BY <2>3 DEF Stop
    <3>1. /\ r \in live /\ aborted' = aborted \cup {r}
          /\ live' \subseteq live /\ live \ {r} \subseteq live'
          /\ driving' = driving \ {r}
          /\ UNCHANGED <<revoked, sweeping>> /\ watched' = watched \ {r}
      BY <2>3 DEF Stop, Release
    <3>2. CASE r \in watched /\ holder = r
      <4> DEFINE W == waiters \ {r}
      <4>1. /\ IsFirst(h, W \cap live) /\ HandTo(h)
            /\ Remain(W \ PassedOver(h, W))
            /\ Answer((waiters \cap {r}) \cup PassedOver(h, W), h)
        BY <3>2 DEF Release
      <4>2. h \in W \cap live \/ (h = None /\ W \cap live = {})
        BY <4>1, FirstIsLive
      <4>3. waiters' \subseteq W \ {h} /\ PassedOver(h, W) \cap live \subseteq {h}
            /\ (h = None => waiters' = {})
        BY <4>1, <4>2 DEF Remain, PassedOver
      <4>4. QED
        BY <1>0, <3>1, <3>2, <4>1, <4>2, <4>3
           DEF HandTo, Answer, Remain, PassedOver
    <3>3. CASE ~(r \in watched /\ holder = r)
      BY <1>0, <3>1, <3>3 DEF Release, Remain, Answer
    <3>4. QED
      BY <3>2, <3>3
  <2>4. QED
    BY <1>2, <2>1, <2>2, <2>3 DEF RunStep
<1>3. ASSUME NEW r \in Runs, ToolStep(r) PROVE Inv'
  <2>1. CASE Look(r) \/ Call(r) \/ Decline(r)
    BY <1>0, <2>1 DEF Look, Call, Decline, MayCall
  <2>2. CASE Proceed(r)
    BY <1>0, <2>2 DEF Proceed
  <2>3. CASE Enter(r) \/ Aim(r)
    BY <1>0, <2>3 DEF Enter, Aim, Touch
  <2>4. CASE Send(r) \/ More(r) \/ Finish(r) \/ Fail(r)
    BY <1>0, <2>4 DEF Send, More, Finish, Fail, Acting
  <2>5. QED
    BY <1>3, <2>1, <2>2, <2>3, <2>4 DEF ToolStep
<1>4. CASE Sweep
  <2> PICK h \in Runs \cup {None} :
        /\ Swept(h) /\ Reply(None, "ready", h) /\ Leave(h) /\ Remain(Left(h))
        /\ sweeping' = (h # None \/ Left(h) # {})
    BY <1>4 DEF Sweep
  <2>1. \/ h = None /\ waiters \cap live = {}
        \/ h \in waiters \cap live
        \/ h = holder /\ h \in live
    BY DEF Swept, LetsGo, IsFirst
  <2>2. UNCHANGED <<live, aborted, driving, watched>> /\ revoked' = revoked \cap live
    BY <1>4 DEF Sweep, StillRevoked
  <2>3. holder' = h /\ waiters' = Left(h)
    BY DEF Leave, Remain
  <2>4. waiters' = {q \in Runs : phase'[q] = "waiting"} /\ holder' \notin waiters'
    BY <2>1, <2>3 DEF Reply, Left
  <2>5. QED
    BY <1>0, <2>1, <2>2, <2>3, <2>4 DEF Reply, Left
<1>5. CASE TakeBack
  BY <1>0, <1>5 DEF TakeBack, Remain, Answer
<1>6. CASE Dispose
  BY <1>0, <1>6 DEF Dispose, Remain
<1>7. CASE Idle \/ Poll \/ UNCHANGED vars
  BY <1>0, <1>7 DEF Idle, Poll, vars
<1>8. QED
  BY <1>1, <1>2, <1>3, <1>4, <1>5, <1>6, <1>7 DEF Next

\* The type invariant of the lease and of the calls that use it.
THEOREM TypeCorrect == Spec => []TypeOK
BY TypeInit, TypeStep, PTL DEF Spec

\* No waiting call loses its answer: the array is the parked calls, and there is
\* somebody to wait for and the sweep to look after them.
THEOREM NoAnswerIsLost == Spec => []NoWaiterIsLost
<1>1. Inv => NoWaiterIsLost
  BY DEF Inv, NoWaiterIsLost
<1>2. QED
  BY InvInit, InvStep, <1>1, PTL DEF Spec

\* Runs the user took control back from, and runs that were stopped, neither
\* have the computer nor wait for it.
THEOREM OffTheComputer == Spec => []OffAtOnce
<1>1. Inv => OffAtOnce
  BY DEF Inv, OffAtOnce
<1>2. QED
  BY InvInit, InvStep, <1>1, PTL DEF Spec

\* The emergency stop ends every going run that has the computer or waits.
THEOREM StopReaches == Spec => []EmergencyStopReaches
<1>1. Inv => EmergencyStopReaches
  BY DEF Inv
<1>2. QED
  BY InvInit, InvStep, <1>1, PTL DEF Spec

\* The lease changes hands in the order of the array, whatever made it do so,
\* and never past those who wait.
THEOREM LongestWaitingFirst == Spec => LongestWaiting
<1> DEFINE InTurn ==
      holder' \notin {holder, None} =>
        \A s \in (waiters \cap live \cap live') \ {holder'} :
          holder' \in waiters /\ s \notin ahead[holder']
<1>1. Inv /\ Next => InTurn
  <2> SUFFICES ASSUME Inv, Next, holder' \notin {holder, None} PROVE InTurn
    OBVIOUS
  <2> USE RunsAssumption DEF Inv, TypeOK, WaitersAreParked, runVars, leaseVars
  <2>1. ASSUME NEW h, Swept(h), holder' = h PROVE InTurn
    BY <2>1 DEF Swept, IsFirst
  <2>2. ASSUME NEW r \in Runs, Acquire(r) PROVE InTurn
    <3> PICK h \in Runs \cup {None} :
          Swept(h) /\ (Refuse(r, h) \/ Grant(r, h) \/ Park(r, h))
      BY <2>2 DEF Acquire
    <3>1. CASE Refuse(r, h) \/ Park(r, h)
      BY <2>1, <3>1 DEF Refuse, Park, Leave
    <3>2. CASE Grant(r, h)
      <4>1. holder' = r /\ h \in {None, r} /\ r \notin waiters
        BY <2>2, <3>2 DEF Grant, HandTo, Acquire
      <4>2. h = None /\ waiters \cap live = {}
        BY <4>1 DEF Swept, LetsGo, IsFirst, NobodyWaitsForNobody
      <4>3. QED
        BY <4>2
    <3>3. QED
      BY <3>1, <3>2
  <2>3. ASSUME NEW r \in Runs, Stop(r) PROVE InTurn
    <3> PICK h \in Runs \cup {None} : Release(r, h)
      BY <2>3 DEF Stop
    <3>1. holder = r /\ holder' = h /\ IsFirst(h, (waiters \ {r}) \cap live)
      BY DEF Release, HandTo
    <3>2. QED
      BY <3>1 DEF IsFirst
  <2>4. CASE Sweep
    BY <2>1, <2>4 DEF Sweep, Leave
  <2>5. CASE TakeBack \/ Dispose \/ Idle \/ Poll
    BY <2>5 DEF TakeBack, Dispose, Idle, Poll
  <2>6. ASSUME NEW r \in Runs, TimeOut(r) \/ Start(r) \/ End(r)
        PROVE  InTurn
    BY <2>6 DEF TimeOut, Start, End
  <2>7. ASSUME NEW r \in Runs, ToolStep(r) PROVE InTurn
    BY <2>7 DEF ToolStep, Look, Call, Decline, Proceed, Enter, Aim, Send, More,
                Finish, Fail
  <2>8. QED
    BY <2>2, <2>3, <2>4, <2>5, <2>6, <2>7 DEF Next, LeaseStep, RunStep
<1>2. Inv /\ [Next]_vars => [InTurn]_vars
  BY <1>1
<1>3. QED
  BY InvInit, InvStep, <1>2, PTL DEF Spec, LongestWaiting

-----------------------------------------------------------------------------
(* The lease implements the line of LeaseQueue: every step of every        *)
(* handler is a step of the line or leaves it alone.                       *)


\* Who stands before whom, as the refinement reads it from `ahead`.
Before == {p \in waiters \X waiters : p[1] \in ahead[p[2]]}

\* The array is a line: of two waiters one stands before the other.
InLine == \A p, q \in waiters : p = q \/ p \in ahead[q] \/ q \in ahead[p]

LInv == Inv /\ InLine

-----------------------------------------------------------------------------
(* The helpers on the array, read as changes of the line.                  *)

LEMMA RemainIsBecomes ==
  ASSUME TypeOK, NEW W, W \subseteq waiters, Remain(W)
  PROVE  Queue!Becomes(W, {})
<1>1. waiters' = W /\ W \subseteq Runs
  BY DEF Remain, TypeOK
<1>2. \A q \in W : ahead'[q] = ahead[q] \cap W
  BY <1>1 DEF Remain
<1>3. {p \in waiters \X waiters : p[1] \in ahead[p[2]]}'
        = {p \in W \X W : p[1] \in ahead[p[2]]}
  BY <1>1, <1>2
<1>4. QED
  BY <1>1, <1>3 DEF Queue!Becomes

LEMMA StandBehindIsBecomes ==
  ASSUME TypeOK, NEW W, W \subseteq waiters, NEW r \in Runs \ W, StandBehind(r, W)
  PROVE  Queue!Becomes(W, {r})
<1>1. waiters' = W \cup {r} /\ W \subseteq Runs
  BY DEF StandBehind, TypeOK
<1>2. ahead'[r] = W /\ \A q \in W : ahead'[q] = ahead[q] \cap W
  BY <1>1 DEF StandBehind
<1>3. {p \in waiters \X waiters : p[1] \in ahead[p[2]]}'
        = {p \in W \X W : p[1] \in ahead[p[2]]} \cup (W \X {r})
  BY <1>1, <1>2
<1>4. QED
  BY <1>1, <1>3 DEF Queue!Becomes

LEMMA RemainInLine ==
  ASSUME TypeOK, InLine, NEW W, W \subseteq waiters, Remain(W)
  PROVE  InLine'
BY DEF TypeOK, InLine, Remain

LEMMA StandBehindInLine ==
  ASSUME TypeOK, InLine, NEW W, W \subseteq waiters, NEW r \in Runs \ W,
         StandBehind(r, W)
  PROVE  InLine'
BY DEF TypeOK, InLine, StandBehind


-----------------------------------------------------------------------------
(* Every step of a handler moves the line or leaves it alone.              *)

QueueStep == Queue!Next \/ UNCHANGED Queue!vars

\* Of the line W stay, the holder is not changed.
LEMMA SomeLeave ==
  ASSUME LInv, NEW W, W \subseteq waiters, Remain(W), holder' = holder
  PROVE  QueueStep /\ InLine'
<1>1. Queue!Becomes(W, {})
  BY RemainIsBecomes DEF LInv, Inv
<1>2. {} \in Queue!Joining(holder, W)
  BY DEF Queue!Joining
<1>3. Queue!Queue
  BY <1>1, <1>2 DEF Queue!Queue
<1>4. InLine'
  BY RemainInLine DEF LInv, Inv
<1>5. QED
  BY <1>3, <1>4 DEF QueueStep, Queue!Next

\* Nobody stays.
LEMMA AllLeave ==
  ASSUME LInv, Remain({}), holder' \in {None} \cup (Runs \ waiters)
  PROVE  QueueStep /\ InLine'
<1>1. Queue!Becomes({}, {})
  BY RemainIsBecomes DEF LInv, Inv
<1>2. Queue!Free
  BY <1>1 DEF Queue!Free
<1>3. InLine'
  BY RemainInLine DEF LInv, Inv
<1>4. QED
  BY <1>2, <1>3 DEF QueueStep, Queue!Next

\* h, whom none of those who stay stands before, takes over.
LEMMA FrontTakesOver ==
  ASSUME LInv, NEW h \in waiters, NEW W, W \subseteq waiters, h \notin W,
         ahead[h] \cap W = {}, Remain(W), holder' = h
  PROVE  QueueStep /\ InLine'
<1>1. Queue!Becomes(W, {})
  BY RemainIsBecomes DEF LInv, Inv
<1>2. Queue!IsFront(h, W \cup {h})
  BY DEF LInv, InLine, Queue!IsFront
<1>3. {} \in Queue!Joining(h, W \cup {h})
  BY DEF Queue!Joining
<1>4. (W \cup {h}) \ {h} = W /\ W \cup {h} \subseteq waiters
  OBVIOUS
<1>5. Queue!Becomes((W \cup {h}) \ {h}, {})
  BY <1>1, <1>4, Zenon
<1>6. Queue!PassOn
  BY <1>2, <1>3, <1>4, <1>5 DEF Queue!PassOn
<1>7. InLine'
  BY RemainInLine DEF LInv, Inv
<1>8. QED
  BY <1>6, <1>7 DEF QueueStep, Queue!Next

\* The same while r joins at the end.
LEMMA OneJoins ==
  ASSUME LInv, NEW h \in Runs, NEW W, W \subseteq waiters, h \notin W,
         NEW r \in Runs \ waiters, r # h, StandBehind(r, W), holder' = h,
         h = holder \/ (h \in waiters /\ ahead[h] \cap W = {})
  PROVE  QueueStep /\ InLine'
<1>0. r \in Runs \ W /\ h # None
  BY RunsAssumption
<1>1. Queue!Becomes(W, {r})
  BY <1>0, StandBehindIsBecomes DEF LInv, Inv
<1>2. InLine'
  BY <1>0, StandBehindInLine DEF LInv, Inv
<1>3. CASE h = holder
  <2>1. {r} \in Queue!Joining(holder, W)
    BY <1>0, <1>3 DEF Queue!Joining
  <2>2. Queue!Queue
    BY <1>1, <1>3, <2>1 DEF Queue!Queue
  <2>3. QED
    BY <1>2, <2>2 DEF QueueStep, Queue!Next
<1>4. CASE h \in waiters /\ ahead[h] \cap W = {}
  <2>1. Queue!IsFront(h, W \cup {h})
    BY <1>4 DEF LInv, InLine, Queue!IsFront
  <2>2. {r} \in Queue!Joining(h, W \cup {h})
    BY <1>0 DEF Queue!Joining
  <2>3. (W \cup {h}) \ {h} = W /\ W \cup {h} \subseteq waiters
    BY <1>4
  <2>4. Queue!PassOn
    BY <1>1, <2>1, <2>2, <2>3 DEF Queue!PassOn
  <2>5. QED
    BY <1>2, <2>4 DEF QueueStep, Queue!Next
<1>5. QED
  BY <1>3, <1>4

\* A step that leaves holder and array alone.
LEMMA NothingMoves ==
  ASSUME LInv, UNCHANGED <<holder, waiters, ahead>>
  PROVE  QueueStep /\ InLine'
BY DEF LInv, InLine, QueueStep, Queue!vars

\* What a sweep leaves of holder and array.
LEMMA SweptCases ==
  ASSUME LInv, NEW h \in Runs \cup {None}, Swept(h)
  PROVE  /\ Left(h) \subseteq waiters /\ h \notin Left(h)
         /\ \/ h = holder /\ h \notin waiters
            \/ h = None /\ Left(h) = {}
            \/ h \in waiters /\ ahead[h] \cap Left(h) = {}
BY DEF LInv, Inv, WaitersAreParked, Swept, LetsGo, IsFirst, Left

LEMMA SweepMoves ==
  ASSUME LInv, NEW h \in Runs \cup {None}, Swept(h), holder' = h, Remain(Left(h))
  PROVE  QueueStep /\ InLine'
BY SweptCases, SomeLeave, AllLeave, FrontTakesOver, Zenon

LEMMA LInvStep == LInv /\ [Next]_vars => QueueStep /\ LInv'
<1> SUFFICES ASSUME LInv, [Next]_vars PROVE QueueStep /\ InLine'
  BY InvStep DEF LInv
<1> USE DEF runVars, leaseVars, screenVars
<1>1. ASSUME NEW r \in Runs, Acquire(r) PROVE QueueStep /\ InLine'
  <2> PICK h \in Runs \cup {None} :
        Swept(h) /\ (Refuse(r, h) \/ Grant(r, h) \/ Park(r, h))
    BY <1>1 DEF Acquire
  <2>0. r \notin waiters
    BY <1>1 DEF Acquire, LInv, Inv, WaitersAreParked
  <2>1. CASE Refuse(r, h)
    BY <2>1, SweepMoves DEF Refuse, Leave
  <2>2. CASE Grant(r, h)
    <3>1. holder' = r /\ Remain(Left(h)) /\ h \in {None, r}
      BY <2>2 DEF Grant, HandTo
    <3>2. CASE h = r
      BY <3>1, <3>2, SweepMoves
    <3>3. CASE h = None
      <4>1. Left(h) = {}
        BY <3>3, SweptCases, RunsAssumption
           DEF LInv, Inv, TypeOK, NobodyWaitsForNobody, Left
      <4>2. QED
        BY <2>0, <3>1, <4>1, AllLeave
    <3>4. QED
      BY <3>1, <3>2, <3>3
  <2>3. CASE Park(r, h)
    <3>1. holder' = h /\ StandBehind(r, Left(h)) /\ h \notin {None, r}
      BY <2>3 DEF Park, Leave
    <3>2. QED
      BY <2>0, <3>1, SweptCases, OneJoins
  <2>4. QED
    BY <2>1, <2>2, <2>3
<1>2. ASSUME NEW r \in Runs, TimeOut(r) PROVE QueueStep /\ InLine'
  BY <1>2, SomeLeave DEF TimeOut
<1>3. ASSUME NEW r \in Runs, Stop(r) PROVE QueueStep /\ InLine'
  <2> PICK h \in Runs \cup {None} : Release(r, h)
    BY <1>3 DEF Stop
  <2> DEFINE W == waiters \ {r}
  <2>1. CASE r \in watched /\ holder = r
    <3>1. IsFirst(h, W \cap live) /\ holder' = h /\ Remain(W \ PassedOver(h, W))
      BY <2>1 DEF Release, HandTo
    <3>2. CASE h = None
      <4>1. W \ PassedOver(h, W) = {}
        BY <3>1, <3>2, RunsAssumption DEF IsFirst, PassedOver, LInv, Inv, TypeOK
      <4>2. QED
        BY <3>1, <3>2, <4>1, AllLeave
    <3>3. CASE h # None
      <4>1. h \in W /\ ahead[h] \cap (W \cap live) = {}
        BY <3>1, <3>3 DEF IsFirst
      <4>2. ahead[h] \cap (W \ PassedOver(h, W)) = {} /\ h \notin W \ PassedOver(h, W)
        BY <3>3, <4>1 DEF PassedOver
      <4>3. QED
        BY <3>1, <4>1, <4>2, FrontTakesOver
    <3>4. QED
      BY <3>2, <3>3
  <2>2. CASE ~(r \in watched /\ holder = r)
    BY <2>2, SomeLeave DEF Release
  <2>3. QED
    BY <2>1, <2>2
<1>4. CASE Sweep
  <2> PICK h \in Runs \cup {None} : Swept(h) /\ Leave(h) /\ Remain(Left(h))
    BY <1>4 DEF Sweep
  <2> QED
    BY SweepMoves DEF Leave
<1>5. CASE TakeBack \/ Dispose
  BY <1>5, AllLeave DEF TakeBack, Dispose
<1>6. ASSUME NEW r \in Runs, Start(r) \/ End(r) \/ ToolStep(r)
      PROVE  QueueStep /\ InLine'
  BY <1>6, NothingMoves DEF Start, End, ToolStep, Look, Call, Decline, Proceed,
          Enter, Aim, Send, More, Finish, Fail
<1>7. CASE Idle \/ Poll \/ UNCHANGED vars
  BY <1>7, NothingMoves DEF Idle, Poll, vars
<1>8. QED
  BY <1>1, <1>2, <1>3, <1>4, <1>5, <1>6, <1>7 DEF Next, LeaseStep, RunStep

\* The lease is a line for one thing: whatever the tool calls, the timers, the
\* stops and the user do, it only loses runs, gains one at its end, or gives the
\* computer to its front (lease.ts).
THEOREM LeaseIsQueue == Spec => IsQueue
<1>1. Init => Queue!Init /\ LInv
  BY InvInit DEF Init, Queue!Init, LInv, InLine
<1>2. LInv /\ [Next]_vars => [Queue!Next]_(Queue!vars)
  BY LInvStep DEF QueueStep
<1>3. LInv /\ [Next]_vars => LInv'
  BY LInvStep
<1>4. QED
  BY <1>1, <1>2, <1>3, PTL DEF Spec, IsQueue, Queue!Spec

-----------------------------------------------------------------------------
(* Once the user took the computer back.                                   *)

\* A run that is not going any more has ended or is aborted, and whoever is
\* refused has begun.
GoneInv ==
  /\ \A r \in Runs \ live : phase[r] \in {"out", "ended"} \/ r \in aborted
  /\ \A r \in live \cup revoked : phase[r] # "out"

\* r is at no action and comes to none: it is refused, aborted or ended.  The
\* refusal alone does not last, as a sweep forgets the runs that ended.
Off(r) == phase[r] \notin Acting /\ (r \in revoked \cup aborted \/ phase[r] = "ended")

\* A stop answers waiters only: refused or granted, they stop waiting.
LEMMA ReleaseAnswers ==
  ASSUME NEW r \in Runs, NEW h \in Runs \cup {None}, Inv, Release(r, h)
  PROVE  \A q \in Runs : phase'[q] = phase[q]
                          \/ (phase'[q] \in {"ready", "granted"} /\ phase[q] = "waiting")
<1> USE RunsAssumption DEF Inv, TypeOK, WaitersAreParked, Answer
<1> DEFINE W == waiters \ {r}
<1>1. CASE r \in watched /\ holder = r
  <2>1. /\ IsFirst(h, W \cap live)
        /\ Answer((waiters \cap {r}) \cup PassedOver(h, W), h)
    BY <1>1 DEF Release
  <2>2. h = None \/ h \in waiters
    BY <2>1 DEF IsFirst
  <2>3. \A q \in Runs : q \in (waiters \cap {r}) \cup PassedOver(h, W)
                          => q = h \/ q \in waiters
    BY DEF PassedOver
  <2> QED
    BY <2>1, <2>2, <2>3
<1>2. CASE ~(r \in watched /\ holder = r)
  BY <1>2 DEF Release
<1> QED
  BY <1>1, <1>2

LEMMA GoneStep == Inv /\ GoneInv /\ [Next]_vars => GoneInv'
<1> SUFFICES ASSUME Inv, GoneInv, [Next]_vars PROVE GoneInv'
  OBVIOUS
<1> USE RunsAssumption DEF Inv, TypeOK, WaitersAreParked, GoneInv
<1> USE DEF runVars, leaseVars, screenVars
<1>1. ASSUME NEW r \in Runs, Acquire(r) PROVE GoneInv'
  <2> PICK h \in Runs \cup {None} : Refuse(r, h) \/ Grant(r, h) \/ Park(r, h)
    BY <1>1 DEF Acquire
  <2>1. UNCHANGED <<live, aborted>> /\ revoked' = revoked \cap live /\ phase[r] = "called"
    BY <1>1 DEF Acquire, StillRevoked
  <2>2. \E p \in {"ready", "granted", "waiting"} : Reply(r, p, h)
    BY DEF Refuse, Grant, Park
  <2>3. \A q \in Runs : phase'[q] = phase[q]
                        \/ {phase[q], phase'[q]} \cap {"out", "ended"} = {}
    BY <2>1, <2>2 DEF Reply
  <2>4. QED
    BY <2>1, <2>3
<1>2. ASSUME NEW r \in Runs, TimeOut(r) PROVE GoneInv'
  BY <1>2 DEF TimeOut, Answer
<1>3. ASSUME NEW r \in Runs, Start(r) \/ End(r) PROVE GoneInv'
  BY <1>3 DEF Start, End
<1>4. ASSUME NEW r \in Runs, Stop(r) PROVE GoneInv'
  <2> PICK h \in Runs \cup {None} : Release(r, h)
    BY <1>4 DEF Stop
  <2>1. /\ revoked' = revoked /\ r \in live /\ aborted' = aborted \cup {r}
        /\ live' \subseteq live /\ live \ {r} \subseteq live'
    BY <1>4 DEF Stop, Release
  <2>2. \A q \in Runs : phase'[q] = phase[q]
                        \/ (phase'[q] \in {"ready", "granted"} /\ phase[q] = "waiting")
    BY ReleaseAnswers
  <2>3. \A q \in Runs : phase'[q] = phase[q]
                        \/ (phase'[q] \notin {"out", "ended"} /\ phase[q] = "waiting")
    BY <2>2
  <2>4. QED
    BY <2>1, <2>3
<1>5. ASSUME NEW r \in Runs, ToolStep(r) PROVE GoneInv'
  BY <1>5 DEF ToolStep, Look, Call, Decline, Proceed, Enter, Aim, Send, More, Finish, Fail,
              MayCall, Acting
<1>6. CASE Sweep
  <2>1. PICK h \in Runs \cup {None} : Reply(None, "ready", h)
    BY <1>6 DEF Sweep
  <2>2. UNCHANGED <<live, aborted>> /\ revoked' = revoked \cap live
    BY <1>6 DEF Sweep, StillRevoked
  <2>3. \A q \in Runs : phase'[q] = phase[q]
                        \/ (phase'[q] \notin {"out", "ended"} /\ phase[q] = "waiting")
    BY <2>1 DEF Reply
  <2>4. QED
    BY <2>2, <2>3
<1>7. CASE TakeBack
  BY <1>7 DEF TakeBack, Answer
<1>8. CASE Dispose
  BY <1>8 DEF Dispose
<1>9. CASE Idle \/ Poll \/ UNCHANGED vars
  BY <1>9 DEF Idle, Poll, vars
<1>10. QED
  BY <1>1, <1>2, <1>3, <1>4, <1>5, <1>6, <1>7, <1>8, <1>9 DEF Next, LeaseStep, RunStep

LEMMA OffStep ==
  ASSUME NEW o \in Runs, Inv, GoneInv, Off(o), [Next]_vars
  PROVE  Off(o)'
<1> USE RunsAssumption DEF Inv, TypeOK, WaitersAreParked, TakenBack, Off, Acting
<1> USE DEF runVars, leaseVars, screenVars
<1>1. o \in revoked \cup aborted => holder # o /\ o \notin waiters
  BY DEF StoppedLetsGo
<1>2. ASSUME phase'[o] = phase[o] \/ phase'[o] \in {"ready", "granted", "waiting", "ended"},
             phase[o] = "ended" => phase'[o] = "ended",
             aborted \subseteq aborted', revoked \cap live \subseteq revoked'
      PROVE  Off(o)'
  BY <1>2 DEF GoneInv, Phases
<1>3. ASSUME NEW r \in Runs, Acquire(r) PROVE Off(o)'
  <2> PICK h \in Runs \cup {None} : Refuse(r, h) \/ Grant(r, h) \/ Park(r, h)
    BY <1>3 DEF Acquire
  <2>1. aborted' = aborted /\ revoked' = revoked \cap live /\ phase[r] = "called"
    BY <1>3 DEF Acquire, StillRevoked
  <2>2. \E p \in {"ready", "granted", "waiting"} : Reply(r, p, h)
    BY DEF Refuse, Grant, Park
  <2>3. /\ phase'[o] = phase[o] \/ phase'[o] \in {"ready", "granted", "waiting", "ended"}
        /\ phase[o] = "ended" => phase'[o] = "ended"
    BY <2>1, <2>2 DEF Reply
  <2>4. QED
    BY <1>2, <2>1, <2>3
<1>4. ASSUME NEW r \in Runs, TimeOut(r) PROVE Off(o)'
  BY <1>4 DEF TimeOut, Answer
<1>5. ASSUME NEW r \in Runs, Start(r) \/ End(r) PROVE Off(o)'
  BY <1>5 DEF Start, End
<1>6. ASSUME NEW r \in Runs, Stop(r) PROVE Off(o)'
  <2> PICK h \in Runs \cup {None} : Release(r, h)
    BY <1>6 DEF Stop
  <2>1. revoked' = revoked /\ aborted \subseteq aborted'
    BY <1>6 DEF Stop, Release
  <2>2. \A q \in Runs : phase'[q] = phase[q]
                        \/ (phase'[q] \in {"ready", "granted"} /\ phase[q] = "waiting")
    BY ReleaseAnswers
  <2>3. /\ phase'[o] = phase[o] \/ phase'[o] \in {"ready", "granted", "waiting", "ended"}
        /\ phase[o] = "ended" => phase'[o] = "ended"
    BY <2>2
  <2>4. QED
    BY <1>2, <2>1, <2>3
<1>7. ASSUME NEW r \in Runs, ToolStep(r) PROVE Off(o)'
  <2>1. UNCHANGED <<revoked, aborted>>
    BY <1>7 DEF ToolStep, Look, Call, Decline, Proceed, Enter, Aim, Send, More, Finish, Fail
  <2>2. CASE r # o
    <3>1. phase'[o] = phase[o]
      BY <1>7, <2>2 DEF ToolStep, Look, Call, Decline, Proceed, Enter, Aim, Send, More, Finish, Fail
    <3>2. QED
      BY <2>1, <3>1
  <2>3. CASE r = o
    BY <1>1, <1>7, <2>1, <2>3
       DEF ToolStep, Look, Call, Decline, Proceed, Enter, Aim, Send, More, Finish, Fail, MayCall
  <2>4. QED
    BY <2>2, <2>3
<1>8. CASE Sweep
  <2>1. PICK h \in Runs \cup {None} : Reply(None, "ready", h)
    BY <1>8 DEF Sweep
  <2>2. aborted' = aborted /\ revoked' = revoked \cap live
    BY <1>8 DEF Sweep, StillRevoked
  <2>3. /\ phase'[o] = phase[o] \/ phase'[o] \in {"ready", "granted", "waiting", "ended"}
        /\ phase[o] = "ended" => phase'[o] = "ended"
    BY <2>1 DEF Reply
  <2>4. QED
    BY <1>2, <2>2, <2>3
<1>9. CASE TakeBack
  BY <1>9 DEF TakeBack, Answer
<1>10. CASE Dispose
  BY <1>10 DEF Dispose
<1>11. CASE Idle \/ Poll \/ UNCHANGED vars
  BY <1>11 DEF Idle, Poll, vars
<1>12. QED
  BY <1>3, <1>4, <1>5, <1>6, <1>7, <1>8, <1>9, <1>10, <1>11 DEF Next, LeaseStep, RunStep

\* Once the user took control back from a run that is not in the middle of an
\* action, that run never gets another action under way (lease.ts revoke, tool.ts
\* holdComputer): also after a sweep has forgotten the refusal.
THEOREM TakenBackForTheRunCorrect == Spec => TakenBackForTheRun
<1> SUFFICES ASSUME NEW r \in Runs
             PROVE  Spec => [](r \in revoked /\ phase[r] \notin Acting
                                 => [](phase[r] \notin Acting))
  BY DEF TakenBackForTheRun
<1> DEFINE I == Inv /\ GoneInv
           O == Off(r)
<1>1. Init => I
  BY InvInit DEF Init, GoneInv
<1>2. I /\ [Next]_vars => I'
  BY InvStep, GoneStep
<1>3. r \in revoked /\ phase[r] \notin Acting => O
  BY DEF Off
<1>4. I /\ O /\ [Next]_vars => O'
  BY OffStep
<1>5. O => phase[r] \notin Acting
  BY DEF Off
<1> HIDE DEF I, O
<1>6. QED
  BY <1>1, <1>2, <1>3, <1>4, <1>5, PTL DEF Spec

=============================================================================
