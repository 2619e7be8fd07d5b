--------------------------- MODULE EngineLockProofs ---------------------------
(***************************************************************************)
(* At most one session owns the engines, for any set of sessions.          *)
(***************************************************************************)
EXTENDS EngineLock, TLAPS

\* Where a session is once it has won a claim, and once it has left.
Left == {"releasing", "closing", "stopping", "gone"}
Won == {"booting", "owner"} \cup Left

\* Opened and not leaving.
Active(s) == pc[s] \notin {"off"} \cup Left

\* A lock that is written was won; its session never claims again.
WrittenOK == lock.written => lock.by \in Sessions /\ pc[lock.by] \in Won

\* A written lock about to be cleared is that of a session that has left; the
\* lock about to be released is the session's own.
SessionOK(s) ==
  /\ Active(s) => s \in registered
  /\ pc[s] = "clearing" /\ seen[s].written =>
       seen[s].by \in Sessions /\ pc[seen[s].by] \in Left
  /\ pc[s] = "releasing" => seen[s].by = s

\* What the lock says of a session that claims, owns or leaves.
NamedOK(s) ==
  /\ pc[s] = "writing" => lock.by = s /\ ~lock.written
  /\ Owns(s) => lock.by = s /\ lock.written
  /\ pc[s] \in {"closing", "stopping"} => lock.by # s

Inv == /\ TypeOK /\ WrittenOK
       /\ \A s \in Sessions : SessionOK(s)
       /\ ~cleared => \A s \in Sessions : NamedOK(s)

-----------------------------------------------------------------------------
(* Types.                                                                  *)

LEMMA LockTypes ==
  /\ NoLock \in Lock
  /\ \A s \in Sessions, b \in BOOLEAN : [by |-> s, written |-> b] \in Lock
BY DEF NoLock, Lock

LEMMA TypeInit == Init => TypeOK
<1> SUFFICES ASSUME Init PROVE TypeOK
  OBVIOUS
<1>1. lock \in Lock /\ seen \in [Sessions -> Lock]
  BY LockTypes DEF Init
<1>2. joined \in [Sessions -> BOOLEAN] /\ channels \in [Sessions -> BOOLEAN]
  BY DEF Init
<1>3. attempt \in [Sessions -> 1 .. 2]
  BY DEF Init
<1>4. QED
  BY <1>1, <1>2, <1>3 DEF Init, TypeOK

LEMMA HolderType ==
  ASSUME TypeOK, NEW s \in Sessions
  PROVE  Holder(s) \in Sessions \cup {None} /\ Owner(s) \in Sessions \cup {None}
BY DEF TypeOK, Lock, Holder, Owner

LEMMA ClearAttempt ==
  ASSUME attempt \in [Sessions -> 1 .. 2], NEW s \in Sessions, Clear(s)
  PROVE  attempt' \in [Sessions -> 1 .. 2]
<1>1. 3 - attempt[s] \in 1 .. 2
  OBVIOUS
<1>2. QED
  BY <1>1 DEF Clear

LEMMA TypeStep == TypeOK /\ [Next]_vars => TypeOK'
<1> SUFFICES ASSUME TypeOK, [Next]_vars PROVE TypeOK'
  OBVIOUS
<1> USE LockTypes DEF TypeOK, Goes, claim, links
<1>1. ASSUME NEW s \in Sessions, Open(s) PROVE TypeOK'
  BY <1>1 DEF Open
<1>2. ASSUME NEW s \in Sessions, Create(s) PROVE TypeOK'
  BY <1>2 DEF Create
<1>3. ASSUME NEW s \in Sessions, Write(s) PROVE TypeOK'
  BY <1>3 DEF Write, Lock
<1>4. ASSUME NEW s \in Sessions, Judge(s) PROVE TypeOK'
  <2>1. pc' \in {[pc EXCEPT ![s] = to] :
                   to \in {"clearing", "booting", "attached", "attaching"}}
    BY <1>4 DEF Judge, Lost
  <2>2. QED
    BY <1>4, <2>1 DEF Judge
<1>5. ASSUME NEW s \in Sessions, Remove(s)
      PROVE /\ lock' \in Lock /\ young' \in BOOLEAN /\ seen' \in [Sessions -> Lock]
            /\ cleared' \in BOOLEAN
  BY <1>5 DEF Remove
<1>6. ASSUME NEW s \in Sessions, Clear(s) PROVE TypeOK'
  BY <1>5, <1>6, ClearAttempt DEF Clear, Lost
<1>7. ASSUME NEW s \in Sessions, BecomeOwner(s) PROVE TypeOK'
  BY <1>7 DEF BecomeOwner
<1>8. ASSUME NEW s \in Sessions, Attach(s) PROVE TypeOK'
  <2>1. follows' \in [Sessions -> Sessions \cup {None}]
    BY <1>8, HolderType DEF Attach
  <2>2. channels' \in [Sessions -> BOOLEAN]
    BY <1>8 DEF Attach
  <2>3. QED
    BY <1>8, <2>1, <2>2 DEF Attach
<1>9. ASSUME NEW s \in Sessions, NotAttached(s) PROVE TypeOK'
  BY <1>9 DEF NotAttached
<1>10. ASSUME NEW s \in Sessions, Watch(s) PROVE TypeOK'
  BY <1>10 DEF Watch
<1>11. ASSUME NEW s \in Sessions, Leave(s) PROVE TypeOK'
  BY <1>11 DEF Leave
<1>12. ASSUME NEW s \in Sessions, Release(s) PROVE TypeOK'
  BY <1>5, <1>12 DEF Release
<1>13. ASSUME NEW s \in Sessions, Close(s) \/ End(s) PROVE TypeOK'
  BY <1>13 DEF Close, End
<1>14. CASE Ages
  BY <1>14 DEF Ages
<1>15. CASE UNCHANGED vars
  BY <1>15 DEF vars
<1>16. QED
  BY <1>1, <1>2, <1>3, <1>4, <1>6, <1>7, <1>8, <1>9, <1>10, <1>11, <1>12, <1>13,
     <1>14, <1>15 DEF Next, Step, Claim

\* Every variable keeps its type (TypeOK).
THEOREM TypeCorrect == Spec => []TypeOK
BY TypeInit, TypeStep, PTL DEF Spec

-----------------------------------------------------------------------------
(* One owner.                                                              *)

LEMMA NoLockFacts == NoLock.by = None /\ ~NoLock.written
BY DEF NoLock

LEMMA GoesTo ==
  ASSUME TypeOK, NEW s \in Sessions, NEW to, Goes(s, to)
  PROVE  \A t \in Sessions : pc'[t] = IF t = s THEN to ELSE pc[t]
BY DEF TypeOK, Goes

LEMMA SeenSet ==
  ASSUME TypeOK, NEW s \in Sessions, NEW STATE v, seen' = [seen EXCEPT ![s] = v]
  PROVE  \A t \in Sessions : seen'[t] = IF t = s THEN v ELSE seen[t]
BY DEF TypeOK

LEMMA InvInit == Init => Inv
BY TypeInit DEF Init, Inv, WrittenOK, SessionOK, NamedOK, Active, Left, Owns, NoLock

LEMMA Quiet ==
  ASSUME Inv, TypeOK', NEW s \in Sessions, NEW to, Goes(s, to),
         pc[s] \in {"attaching", "taking over", "attached"},
         to \in {"attaching", "taking over", "attached", "creating"},
         UNCHANGED <<lock, registered, seen, cleared>>
  PROVE  Inv'
<1> USE GoesTo DEF Left, Won, Active, Owns
<1>1. WrittenOK'
  BY DEF Inv, WrittenOK
<1>2. ASSUME NEW t \in Sessions PROVE SessionOK(t)'
  <2>1. /\ Active(t) => t \in registered
        /\ pc[t] = "clearing" /\ seen[t].written =>
             seen[t].by \in Sessions /\ pc[seen[t].by] \in Left
        /\ pc[t] = "releasing" => seen[t].by = t
    BY DEF Inv, SessionOK
  <2>2. /\ pc'[t] # "off" /\ pc'[t] \notin Left => pc[t] # "off" /\ pc[t] \notin Left
        /\ pc'[t] = "clearing" => pc[t] = "clearing"
        /\ pc'[t] = "releasing" => pc[t] = "releasing"
    BY DEF Inv
  <2>3. \A u \in Sessions : pc[u] \in Left => pc'[u] \in Left
    BY DEF Inv
  <2>4. QED
    BY <2>1, <2>2, <2>3 DEF SessionOK
<1>3. ~cleared' => \A t \in Sessions : NamedOK(t)'
  BY DEF Inv, NamedOK
<1>4. QED
  BY <1>1, <1>2, <1>3 DEF Inv

LEMMA InvStep == Inv /\ [Next]_vars => Inv'
<1> SUFFICES ASSUME Inv, [Next]_vars PROVE Inv'
  OBVIOUS
<1>0. TypeOK /\ TypeOK'
  BY TypeStep DEF Inv
<1> USE NoneAssumption, NoLockFacts DEF Left, Won, Active, Owns, links, claim
<1>1. ASSUME NEW s \in Sessions, Open(s) PROVE Inv'
  <2>1. WrittenOK'
    BY <1>0, <1>1, GoesTo DEF Inv, WrittenOK, Open
  <2>2. ASSUME NEW t \in Sessions PROVE SessionOK(t)'
    BY <1>0, <1>1, <2>2, GoesTo, SeenSet DEF Inv, WrittenOK, SessionOK, Open
  <2>3. ASSUME ~cleared', NEW t \in Sessions PROVE NamedOK(t)'
    BY <1>0, <1>1, <2>3, GoesTo, SeenSet DEF Inv, WrittenOK, SessionOK, NamedOK, Open
  <2>4. QED
    BY <1>0, <2>1, <2>2, <2>3 DEF Inv
<1>2. ASSUME NEW s \in Sessions, Create(s) PROVE Inv'
  <2>1. WrittenOK'
    BY <1>0, <1>2, GoesTo DEF Inv, WrittenOK, Create
  <2>2. ASSUME NEW t \in Sessions PROVE SessionOK(t)'
    BY <1>0, <1>2, <2>2, GoesTo, SeenSet DEF Inv, WrittenOK, SessionOK, Create
  <2>3. ASSUME ~cleared', NEW t \in Sessions PROVE NamedOK(t)'
    BY <1>0, <1>2, <2>3, GoesTo, SeenSet DEF Inv, WrittenOK, SessionOK, NamedOK, Create
  <2>4. QED
    BY <1>0, <2>1, <2>2, <2>3 DEF Inv
<1>3. ASSUME NEW s \in Sessions, Write(s) PROVE Inv'
  <2>1. WrittenOK'
    BY <1>0, <1>3, GoesTo DEF Inv, WrittenOK, Write
  <2>2. ASSUME NEW t \in Sessions PROVE SessionOK(t)'
    BY <1>0, <1>3, <2>2, GoesTo, SeenSet DEF Inv, WrittenOK, SessionOK, Write
  <2>3. ASSUME ~cleared', NEW t \in Sessions PROVE NamedOK(t)'
    BY <1>0, <1>3, <2>3, GoesTo, SeenSet DEF Inv, WrittenOK, SessionOK, NamedOK, Write
  <2>4. QED
    BY <1>0, <2>1, <2>2, <2>3 DEF Inv
<1>4. ASSUME NEW s \in Sessions, Judge(s) PROVE Inv'
  <2>1. PICK to \in {"clearing", "booting", "attached", "attaching"} : Goes(s, to)
    BY <1>4 DEF Judge, Lost
  <2>2. to = "clearing" => Holder(s) = None
    BY <1>0, <1>4, <2>1, GoesTo DEF Judge, Lost
  <2>3. WrittenOK'
    BY <1>0, <1>4, <2>1, GoesTo DEF Inv, WrittenOK, Judge
  <2>4. ASSUME Holder(s) = None, lock.written
        PROVE  lock.by \in Sessions /\ pc[lock.by] \in Left
    BY <2>4 DEF Inv, WrittenOK, SessionOK, Holder, isAlive
  <2>5. ASSUME NEW t \in Sessions PROVE SessionOK(t)'
    <3>1. CASE t = s
      <4>1. pc'[t] = to /\ registered' = registered /\ pc[t] = "judging"
        BY <1>0, <1>4, <2>1, <3>1, GoesTo DEF Judge
      <4>2. t \in registered
        BY <4>1 DEF Inv, SessionOK
      <4>3. ASSUME to = "clearing", seen'[t].written
            PROVE  seen'[t].by \in Sessions /\ pc'[seen'[t].by] \in Left
        <5>0. seen' = [seen EXCEPT ![s] = lock]
          BY <1>4, <2>2, <4>3 DEF Judge
        <5>1. seen'[t] = lock
          BY <1>0, <3>1, <5>0 DEF TypeOK
        <5>2. lock.by \in Sessions /\ pc[lock.by] \in Left
          BY <2>2, <2>4, <4>3, <5>1
        <5>3. pc'[lock.by] = pc[lock.by]
          BY <1>0, <2>1, <3>1, <4>1, <5>2, GoesTo
        <5>4. QED
          BY <5>1, <5>2, <5>3
      <4>4. QED
        BY <4>1, <4>2, <4>3 DEF SessionOK
    <3>2. CASE t # s
      BY <1>0, <1>4, <2>1, <3>2, GoesTo, SeenSet DEF Inv, SessionOK, Judge
    <3>3. QED
      BY <3>1, <3>2
  <2>6. ASSUME ~cleared', NEW t \in Sessions PROVE NamedOK(t)'
    <3>1. to = "booting" => Holder(s) = s
      BY <1>0, <1>4, <2>1, GoesTo DEF Judge, Lost
    <3>2. Holder(s) = s => lock.written /\ lock.by = s
      BY DEF Holder
    <3>3. QED
      BY <1>0, <1>4, <2>1, <2>6, <3>1, <3>2, GoesTo DEF Inv, NamedOK, Judge
  <2>7. QED
    BY <1>0, <2>3, <2>5, <2>6 DEF Inv
<1>5. ASSUME NEW s \in Sessions, Clear(s) PROVE Inv'
  <2>1. WrittenOK'
    BY <1>0, <1>5, GoesTo DEF Inv, WrittenOK, Clear, Lost, Remove, isAlive
  <2>2. ASSUME NEW t \in Sessions PROVE SessionOK(t)'
    BY <1>0, <1>5, <2>2, GoesTo, SeenSet DEF Inv, WrittenOK, SessionOK, Clear, Lost, Remove, isAlive
  <2>3. ASSUME ~cleared', NEW t \in Sessions PROVE NamedOK(t)'
    <3>1. PICK to \in {"creating", "attached", "attaching"} : Goes(s, to)
      BY <1>5 DEF Clear, Lost
    <3>2. ~cleared /\ (lock = NoLock \/ (lock = seen[s] /\ (lock.written \/ ~isAlive(lock.by))))
      BY <1>5, <2>3 DEF Clear, Remove
    <3>3. ~(Owns(t) \/ pc[t] = "writing")
      BY <1>5, <3>2 DEF Inv, NamedOK, SessionOK, isAlive, Clear
    <3>4. lock' = NoLock
      BY <1>5 DEF Clear, Remove
    <3>5. QED
      BY <1>0, <3>1, <3>3, <3>4, GoesTo DEF NamedOK
  <2>4. QED
    BY <1>0, <2>1, <2>2, <2>3 DEF Inv
<1>6. ASSUME NEW s \in Sessions, BecomeOwner(s) PROVE Inv'
  <2>1. WrittenOK'
    BY <1>0, <1>6, GoesTo DEF Inv, WrittenOK, BecomeOwner
  <2>2. ASSUME NEW t \in Sessions PROVE SessionOK(t)'
    BY <1>0, <1>6, <2>2, GoesTo, SeenSet DEF Inv, WrittenOK, SessionOK, BecomeOwner
  <2>3. ASSUME ~cleared', NEW t \in Sessions PROVE NamedOK(t)'
    BY <1>0, <1>6, <2>3, GoesTo, SeenSet DEF Inv, WrittenOK, SessionOK, NamedOK, BecomeOwner
  <2>4. QED
    BY <1>0, <2>1, <2>2, <2>3 DEF Inv
<1>7. ASSUME NEW s \in Sessions, Attach(s) PROVE Inv'
  BY <1>0, <1>7, Quiet DEF Attach
<1>8. ASSUME NEW s \in Sessions, NotAttached(s) PROVE Inv'
  <2>1. PICK to \in {"creating", "attaching"} : Goes(s, to)
    BY <1>8 DEF NotAttached
  <2>2. QED
    BY <1>0, <1>8, <2>1, Quiet DEF NotAttached
<1>9. ASSUME NEW s \in Sessions, Watch(s) PROVE Inv'
  BY <1>0, <1>9, Quiet DEF Watch
<1>10. ASSUME NEW s \in Sessions, Leave(s) PROVE Inv'
  <2>1. PICK to \in {"releasing", "closing"} : Goes(s, to)
    BY <1>10 DEF Leave
  <2>2. Holder(s) = s => lock.by = s
    BY NoneAssumption DEF Holder
  <2>3. to = "releasing" => Holder(s) = s
    BY <1>0, <1>10, <2>1, GoesTo DEF Leave
  <2>4. WrittenOK'
    BY <1>0, <1>10, <2>1, GoesTo DEF Inv, WrittenOK, Leave
  <2>5. ASSUME NEW t \in Sessions PROVE SessionOK(t)'
    <3>1. CASE t = s
      <4>1. pc'[t] = to
        BY <1>0, <2>1, <3>1, GoesTo
      <4>2. ASSUME to = "releasing" PROVE seen'[t] = lock /\ lock.by = t
        <5>1. seen' = [seen EXCEPT ![s] = lock]
          BY <1>10, <2>3, <4>2 DEF Leave
        <5>2. QED
          BY <1>0, <2>2, <2>3, <3>1, <4>2, <5>1 DEF TypeOK
      <4>3. QED
        BY <2>1, <4>1, <4>2 DEF SessionOK
    <3>2. CASE t # s
      <4>1. t \in registered => t \in registered'
        BY <1>10, <3>2 DEF Leave
      <4>2. QED
        BY <1>0, <1>10, <2>1, <3>2, <4>1, GoesTo, SeenSet DEF Inv, SessionOK, Leave
    <3>3. QED
      BY <3>1, <3>2
  <2>6. ASSUME ~cleared', NEW t \in Sessions PROVE NamedOK(t)'
    <3>1. ~cleared /\ lock.by = s /\ lock.written /\ pc[s] = "owner"
      BY <1>10, <2>6 DEF Inv, NamedOK, Leave
    <3>2. Holder(s) = s
      BY <3>1 DEF Holder, isAlive
    <3>3. Goes(s, "releasing") /\ lock' = lock
      BY <1>10, <3>2 DEF Leave
    <3>4. QED
      BY <1>0, <3>1, <3>3, GoesTo DEF Inv, NamedOK
  <2>7. QED
    BY <1>0, <2>4, <2>5, <2>6 DEF Inv
<1>11. ASSUME NEW s \in Sessions, Release(s) PROVE Inv'
  <2>1. WrittenOK'
    BY <1>0, <1>11, GoesTo DEF Inv, WrittenOK, Release, Remove
  <2>2. ASSUME NEW t \in Sessions PROVE SessionOK(t)'
    BY <1>0, <1>11, <2>2, GoesTo, SeenSet DEF Inv, WrittenOK, SessionOK, Release, Remove
  <2>3. ASSUME ~cleared', NEW t \in Sessions PROVE NamedOK(t)'
    <3>1. ~cleared /\ (lock = NoLock \/ lock = seen[s])
      BY <1>11, <2>3 DEF Release, Remove
    <3>2. ~(Owns(t) \/ pc[t] = "writing")
      BY <1>11, <3>1 DEF Inv, NamedOK, SessionOK, Release
    <3>3. lock' = NoLock
      BY <1>11 DEF Release, Remove
    <3>4. QED
      BY <1>0, <1>11, <3>2, <3>3, GoesTo DEF NamedOK, Release
  <2>4. QED
    BY <1>0, <2>1, <2>2, <2>3 DEF Inv
<1>12. ASSUME NEW s \in Sessions, Close(s) PROVE Inv'
  <2>1. WrittenOK'
    BY <1>0, <1>12, GoesTo DEF Inv, WrittenOK, Close
  <2>2. ASSUME NEW t \in Sessions PROVE SessionOK(t)'
    BY <1>0, <1>12, <2>2, GoesTo, SeenSet DEF Inv, WrittenOK, SessionOK, Close
  <2>3. ASSUME ~cleared', NEW t \in Sessions PROVE NamedOK(t)'
    BY <1>0, <1>12, <2>3, GoesTo, SeenSet DEF Inv, WrittenOK, SessionOK, NamedOK, Close
  <2>4. QED
    BY <1>0, <2>1, <2>2, <2>3 DEF Inv
<1>13. ASSUME NEW s \in Sessions, End(s) PROVE Inv'
  <2>1. WrittenOK'
    BY <1>0, <1>13, GoesTo DEF Inv, WrittenOK, End, isAlive
  <2>2. ASSUME NEW t \in Sessions PROVE SessionOK(t)'
    BY <1>0, <1>13, <2>2, GoesTo, SeenSet DEF Inv, WrittenOK, SessionOK, End, isAlive
  <2>3. ASSUME ~cleared', NEW t \in Sessions PROVE NamedOK(t)'
    BY <1>0, <1>13, <2>3, GoesTo, SeenSet DEF Inv, WrittenOK, SessionOK, NamedOK, End, isAlive
  <2>4. QED
    BY <1>0, <2>1, <2>2, <2>3 DEF Inv
<1>14. CASE Ages \/ UNCHANGED vars
  BY <1>0, <1>14 DEF Ages, vars, Inv, WrittenOK, SessionOK, NamedOK
<1>15. QED
  BY <1>1, <1>2, <1>3, <1>4, <1>5, <1>6, <1>7, <1>8, <1>9, <1>10, <1>11, <1>12, <1>13, <1>14 DEF Next, Step, Claim

\* Unless a lock was removed that was not the one looked at, no two sessions
\* own the engines (OneOwnerUnlessCleared), the lock names the one that does
\* (OwnerIsNamed), and none leaves its lock behind (LeavesNoLock).
THEOREM OneOwnerCorrect ==
  Spec => []LockTellsOwner
<1>1. Inv => LockTellsOwner
  BY DEF Inv, NamedOK, TypeOK, Lock, LockTellsOwner, OneOwnerUnlessCleared, OwnerIsNamed, LeavesNoLock
<1>2. Inv => TypeOK
  BY DEF Inv
<1>3. QED
  BY InvInit, InvStep, <1>1, PTL DEF Spec

=============================================================================
