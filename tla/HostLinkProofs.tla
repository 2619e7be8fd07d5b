---------------------------- MODULE HostLinkProofs ----------------------------
(***************************************************************************)
(* The safety of the link, for any addresses and any number of pauses.     *)
(***************************************************************************)
EXTENDS HostLink, TLAPS

\* The inductive invariant.  What the properties say of an open or a lost
\* connection has to be known already of the attempt that leads to it: a dial
\* has no retry beside it and goes to the target, a stopped link shows
\* "offline", and an attempt whose connection is gone has its retry scheduled.
Inv ==
  /\ TypeOK
  /\ StoppedIsDown /\ OneSocket /\ AlwaysTrying /\ ShowsTheLink /\ LeadsToTarget
  /\ step = "dialing" => ~timer /\ (running => dialed = target \/ joined)
  /\ step = "dialing" => dialed # None
  /\ ~running => connection = "offline"
  /\ step \in {"hello", "taking"} /\ running /\ peer = None => timer \/ joined

LEMMA TypeInit == Init => TypeOK
<1>1. 0 \in 0 .. Pauses - 1
  BY PausesAssumption
<1>2. QED
  BY <1>1 DEF Init, TypeOK

LEMMA TypeStep == TypeOK /\ [Next]_vars => TypeOK'
<1> SUFFICES ASSUME TypeOK, [Next]_vars PROVE TypeOK'
  OBVIOUS
<1> USE DEF TypeOK
<1>0. 0 \in 0 .. Pauses - 1
  BY PausesAssumption
<1>1. ASSUME Schedule PROVE timer' \in BOOLEAN /\ attempt' \in 0 .. Pauses - 1
  <2>1. CASE running /\ ~timer
    <3>1. timer' = TRUE
      BY <1>1, <2>1 DEF Schedule
    <3>2. attempt' = IF attempt < Pauses - 1 THEN attempt + 1 ELSE attempt
      BY <1>1, <2>1 DEF Schedule
    <3>3. attempt' \in 0 .. Pauses - 1
      BY <3>2, PausesAssumption
    <3>4. QED
      BY <3>1, <3>3
  <2>2. CASE ~(running /\ ~timer)
    BY <1>1, <2>2 DEF Schedule
  <2>3. QED
    BY <2>1, <2>2
<1>2. CASE Start
  BY <1>0, <1>2 DEF Start, TryConnect, Dial
<1>3. CASE Stop \/ SetUpdating
  BY <1>3 DEF Stop, SetUpdating
<1>4. CASE Reconnect
  BY <1>0, <1>4 DEF Reconnect, TryConnect, Dial
<1>5. CASE DialOk
  BY <1>0, <1>5 DEF DialOk
<1>6. CASE DialFail
  BY <1>1, <1>6 DEF DialFail
<1>7. CASE HelloOk \/ HelloFail \/ TakeDone
  BY <1>7 DEF HelloOk, HelloFail, TakeDone
<1>8. CASE Retry
  BY <1>8 DEF Retry, TryConnect, Dial
<1>9. CASE PeerCloses
  BY <1>1, <1>9 DEF PeerCloses
<1>10. CASE HostChanges \/ UNCHANGED vars
  BY <1>10 DEF HostChanges, vars
<1>11. QED
  BY <1>2, <1>3, <1>4, <1>5, <1>6, <1>7, <1>8, <1>9, <1>10
     DEF Next, User, Attempt

LEMMA InvInit == Init => Inv
BY TypeInit
   DEF Init, Inv, StoppedIsDown, OneSocket, AlwaysTrying, ShowsTheLink,
       LeadsToTarget

LEMMA InvStep == Inv /\ [Next]_vars => Inv'
<1> SUFFICES ASSUME Inv, [Next]_vars PROVE Inv'
  OBVIOUS
<1>0. TypeOK /\ TypeOK'
  BY TypeStep DEF Inv
<1> USE AddressesAssumption
<1> USE DEF Inv, StoppedIsDown, OneSocket, AlwaysTrying, ShowsTheLink,
            LeadsToTarget
<1>1. ASSUME Schedule PROVE (running => timer') /\ (~running => timer' = timer)
  BY <1>0, <1>1 DEF Schedule, TypeOK
<1>2. CASE Start
  BY <1>0, <1>2 DEF Start, TryConnect, Dial, TypeOK
<1>3. CASE Stop \/ SetUpdating
  BY <1>0, <1>3 DEF Stop, SetUpdating, TypeOK
<1>4. CASE Reconnect
  BY <1>0, <1>4 DEF Reconnect, TryConnect, Dial, TypeOK
<1>5. CASE DialOk
  BY <1>0, <1>5 DEF DialOk, TypeOK
<1>6. CASE DialFail
  BY <1>0, <1>1, <1>6 DEF DialFail, TypeOK
<1>7. CASE HelloOk \/ HelloFail \/ TakeDone
  BY <1>0, <1>7 DEF HelloOk, HelloFail, TakeDone, TypeOK
<1>8. CASE Retry
  BY <1>0, <1>8 DEF Retry, TryConnect, Dial, TypeOK
<1>9. CASE PeerCloses
  BY <1>0, <1>1, <1>9 DEF PeerCloses, TypeOK
<1>10. CASE HostChanges \/ UNCHANGED vars
  BY <1>0, <1>10 DEF HostChanges, vars, TypeOK
<1>11. QED
  BY <1>2, <1>3, <1>4, <1>5, <1>6, <1>7, <1>8, <1>9, <1>10
     DEF Next, User, Attempt

\* Every variable of the link keeps its type; the index into the pauses never
\* runs past the last one.
THEOREM TypeCorrect == Spec => []TypeOK
<1>1. Inv => TypeOK
  BY DEF Inv
<1>2. QED
  BY InvInit, InvStep, <1>1, PTL DEF Spec

\* Stop leaves neither a connection nor a retry, and two connections are
\* never up at once, whatever attempts were in flight.
THEOREM OneLinkWhileRunning == Spec => []NoSocketLeaked
<1>1. Inv => NoSocketLeaked
  BY DEF Inv, NoSocketLeaked
<1>2. QED
  BY InvInit, InvStep, <1>1, PTL DEF Spec

\* The link is never left down, wrong, or shown up when it is not, but by a
\* try that was handed the attempt in flight.
THEOREM OnlyJoinedTriesAreLost ==
  Spec => []LinkIsSound
<1>1. Inv => LinkIsSound
  BY DEF Inv, LinkIsSound
<1>2. QED
  BY InvInit, InvStep, <1>1, PTL DEF Spec

=============================================================================
