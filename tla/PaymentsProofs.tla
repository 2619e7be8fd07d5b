----------------------------- MODULE PaymentsProofs -----------------------------
(***************************************************************************)
(* For any purchases, chats, amounts and limit: what was charged counts    *)
(* against the day, what nobody was asked about stays within its limit,    *)
(* and a schedule's order is placed once, however the app ends.            *)
(***************************************************************************)
EXTENDS Payments, FiniteSetTheorems, TLAPS

-----------------------------------------------------------------------------
(* Types.                                                                  *)

\* A record that is typed, pressed, expired, ended or settled is a record.
LEMMA Edited ==
  ASSUME NEW p \in PurchaseRecord
  PROVE  /\ [p EXCEPT !.typed = TRUE] \in PurchaseRecord
         /\ [p EXCEPT !.submitted = TRUE] \in PurchaseRecord
         /\ [p EXCEPT !.expired = TRUE] \in PurchaseRecord
         /\ \A s \in Statuses : [p EXCEPT !.status = s] \in PurchaseRecord
  BY DEF PurchaseRecord

LEMMA SettledIsRecord ==
  ASSUME NEW p \in PurchaseRecord
  PROVE  Settle(p) \in PurchaseRecord
  BY Edited DEF Settle, Statuses

\* What authorize records.
Authorized(how, amount) ==
  [NoPurchase EXCEPT !.status = "authorized", !.how = how, !.amount = amount, !.day = day]

LEMMA AuthorizedIsRecord ==
  ASSUME NEW h \in Hows, NEW a \in Nat, day \in Nat
  PROVE  Authorized(h, a) \in PurchaseRecord
  BY DEF Authorized, PurchaseRecord, NoPurchase, Statuses, Hows

LEMMA SettingsType ==
  ASSUME TypeOK, SetMode \/ NewDay
  PROVE  TypeOK'
<1>1. CASE SetMode BY <1>1, Zenon DEF TypeOK, SetMode, plan
<1>2. CASE NewDay BY <1>2, SMT DEF TypeOK, NewDay, plan
<1>3. QED BY <1>1, <1>2

LEMMA ChatType ==
  ASSUME AmountAssumption, TypeOK, NEW c \in Chats,
         (\E a \in Amounts : Ask(c, a)) \/ Authorize(c) \/ Refuse(c)
  PROVE  TypeOK'
<1>1. CASE \E a \in Amounts : Ask(c, a)
  <2>1. PICK a \in Amounts : Ask(c, a) BY <1>1
  <2>2. a \in Nat BY DEF AmountAssumption
  <2>3. QED BY <2>1, <2>2, Zenon DEF TypeOK, Ask, plan
<1>2. CASE Authorize(c)
  <2>1. PICK i \in Purchases : Record(i, asking[c].how, asking[c].amount)
    BY <1>2 DEF Authorize
  <2>2. asking[c].how \in Hows /\ asking[c].amount \in Nat
    BY <1>2 DEF Authorize, TypeOK, Hows
  <2>3. purchase' = [purchase EXCEPT ![i] = Authorized(asking[c].how, asking[c].amount)]
    BY <2>1, Zenon DEF Record, Authorized
  <2>4. Authorized(asking[c].how, asking[c].amount) \in PurchaseRecord
    BY <2>2, AuthorizedIsRecord DEF TypeOK
  <2>5. purchase' \in [Purchases -> PurchaseRecord] BY <2>3, <2>4, Zenon DEF TypeOK
  <2>6. asking' \in [Chats -> [how : {"none", "auto", "approved"}, amount : Nat]]
    BY <1>2 DEF Authorize, Answered, TypeOK
  <2>7. QED BY <1>2, <2>5, <2>6, Zenon DEF TypeOK, Authorize, plan
<1>3. CASE Refuse(c)
  <2>1. asking' \in [Chats -> [how : {"none", "auto", "approved"}, amount : Nat]]
    BY <1>3 DEF Refuse, Answered, TypeOK
  <2>2. QED BY <1>3, <2>1, Zenon DEF TypeOK, Refuse, plan
<1>4. QED BY <1>1, <1>2, <1>3

LEMMA OrderType ==
  ASSUME AmountAssumption, TypeOK, NEW i \in Purchases, NEW a \in OrderAmounts,
         AuthorizeOrder(i, a)
  PROVE  TypeOK'
<1>1. Authorized("scheduled", a) \in PurchaseRecord
  BY AuthorizedIsRecord DEF AmountAssumption, TypeOK, Hows
<1>2. purchase' = [purchase EXCEPT ![i] = Authorized("scheduled", a)]
  BY Zenon DEF AuthorizeOrder, Record, Authorized
<1>3. purchase' \in [Purchases -> PurchaseRecord] BY <1>1, <1>2, Zenon DEF TypeOK
<1>4. QED BY <1>3, Zenon DEF TypeOK, AuthorizeOrder, plan

LEMMA PurchaseType ==
  ASSUME TypeOK, NEW i \in Purchases,
         Fill(i) \/ Press(i) \/ Store(i) \/ Complete(i) \/ Expire(i)
  PROVE  TypeOK'
<1>0. purchase \in [Purchases -> PurchaseRecord] /\ purchase[i] \in PurchaseRecord
  BY Zenon DEF TypeOK
<1>1. CASE Fill(i)
  <2>1. purchase' \in [Purchases -> PurchaseRecord]
    BY <1>0, <1>1, Edited, Zenon DEF Fill
  <2>2. QED BY <1>1, <2>1, Zenon DEF TypeOK, Fill, plan
<1>2. CASE Press(i)
  <2>1. purchase' \in [Purchases -> PurchaseRecord]
    BY <1>0, <1>2, Edited, Zenon DEF Press
  <2>2. QED BY <1>2, <2>1, Zenon DEF TypeOK, Press, plan
<1>3. CASE Store(i) BY <1>3, Zenon DEF TypeOK, Store, plan
<1>4. CASE Complete(i)
  <2>1. (IF order[i] = "placed" THEN "paid" ELSE "failed") \in Statuses BY DEF Statuses
  <2>2. purchase' \in [Purchases -> PurchaseRecord]
    BY <1>0, <1>4, <2>1, Edited, Zenon DEF Complete
  <2>3. QED BY <1>4, <2>2, Zenon DEF TypeOK, Complete, plan
<1>5. CASE Expire(i)
  <2>1. purchase' \in [Purchases -> PurchaseRecord]
    BY <1>0, <1>5, Edited, Zenon DEF Expire
  <2>2. QED BY <1>5, <2>1, Zenon DEF TypeOK, Expire, plan
<1>6. QED BY <1>1, <1>2, <1>3, <1>4, <1>5

LEMMA RunType ==
  ASSUME TypeOK, StartRun \/ EndRun \/ End \/ Launch \/ Resume
  PROVE  TypeOK'
<1>1. CASE StartRun BY <1>1, Zenon DEF TypeOK, StartRun, plan
<1>2. CASE EndRun BY <1>2, Zenon DEF TypeOK, EndRun, plan
<1>3. CASE End BY <1>3, Zenon DEF TypeOK, End, plan
<1>4. CASE Launch
  <2>1. \A i \in Purchases : Settle(purchase[i]) \in PurchaseRecord
    BY SettledIsRecord, Zenon DEF TypeOK
  <2>2. purchase' \in [Purchases -> PurchaseRecord] BY <1>4, <2>1, Zenon DEF Launch
  <2>3. QED BY <1>4, <2>2, Zenon DEF TypeOK, Launch, plan
<1>5. CASE Resume
  <2>1. CASE run' = "retry" /\ used' = FALSE
    BY <1>5, <2>1, Zenon DEF TypeOK, Resume
  <2>2. CASE UNCHANGED <<run, used>>
    BY <1>5, <2>2, Zenon DEF TypeOK, Resume
  <2>3. QED BY <1>5, <2>1, <2>2, Zenon DEF Resume
<1>6. QED BY <1>1, <1>2, <1>3, <1>4, <1>5

LEMMA TypeStep == AmountAssumption /\ TypeOK /\ [Next]_vars => TypeOK'
<1>1. ASSUME AmountAssumption, TypeOK, Next PROVE TypeOK'
  BY <1>1, SettingsType, ChatType, OrderType, PurchaseType, RunType, Zenon DEF Next
<1>2. ASSUME TypeOK, UNCHANGED vars PROVE TypeOK'
  BY <1>2, Zenon DEF TypeOK, vars, plan
<1>3. QED BY <1>1, <1>2

LEMMA TypeInit == Init => TypeOK
<1>1. NoPurchase \in PurchaseRecord /\ 0 \in Nat
  BY DEF NoPurchase, PurchaseRecord, Statuses, Hows
<1>2. [how |-> "none", amount |-> 0] \in [how : {"none", "auto", "approved"}, amount : Nat]
  OBVIOUS
<1>3. ASSUME Init PROVE {started, used, cutOff} \subseteq BOOLEAN
  BY <1>3, Zenon DEF Init
<1>4. ASSUME Init PROVE /\ purchase \in [Purchases -> PurchaseRecord]
                        /\ order \in [Purchases -> {"none", "sent", "placed", "refused"}]
  BY <1>1, <1>4, Zenon DEF Init
<1>5. QED BY <1>1, <1>2, <1>3, <1>4, Zenon DEF Init, TypeOK

\* The records, the chats' calls and the schedule's run keep their types, and a
\* grant is used only in a run, which only an app that is up has.
THEOREM TypeCorrect == Spec => []TypeOK
  BY TypeInit, TypeStep, AmountAssumption, PTL DEF Spec

-----------------------------------------------------------------------------
(* What was sent counts, and is placed once.                               *)

Sent(i) == order[i] \in {"sent", "placed"}

\* An order the store has and did not refuse was recorded as pressed before.
Recorded(p) == p.status = "paid" \/ (p.status = "authorized" /\ p.submitted)
SentIsRecorded == \A i \in Purchases : Sent(i) => Recorded(purchase[i])

\* An order of the schedule that may still be placed, or was.
Scheduled(p) == p.how = "scheduled" /\ p.status # "none"
Open(i) == Scheduled(purchase[i]) /\ (purchase[i].status = "authorized" \/ Sent(i))
Charged(i) == mayHaveCharged(purchase[i])

\* One order of the schedule is open at most; none is before the first run, nor
\* in a run whose grant is still there; after a launch, one left over may have
\* charged.
OneOpen == \A i, j \in Purchases : Open(i) /\ Open(j) => i = j
GrantIsNext == run # "none" /\ ~used => \A i \in Purchases : ~Open(i)
BeforeTheRun ==
  ~started => /\ run = "none" /\ ~cutOff
              /\ \A i \in Purchases : ~Open(i)
LeftOver ==
  up /\ cutOff => /\ run = "none"
                  /\ \A i \in Purchases : Open(i) => Charged(i)

IInv ==
  TypeOK /\ SentIsRecorded /\ OneOpen /\ GrantIsNext /\ BeforeTheRun /\ LeftOver

\* A step of a purchase, outside the schedule's run and the app: no order opens
\* that was not open, and none stops being one that may have charged.
Calm == \A i \in Purchases : Open(i)' => Open(i) /\ (Charged(i) => Charged(i)')

LEMMA CalmKeeps ==
  ASSUME IInv, TypeOK', SentIsRecorded', Calm, UNCHANGED <<up, run, started, used, cutOff>>
  PROVE  IInv'
  BY DEF IInv, Calm, OneOpen, GrantIsNext, BeforeTheRun, LeftOver

LEMMA EditedFields ==
  ASSUME NEW p \in PurchaseRecord
  PROVE  /\ \A q \in {[p EXCEPT !.typed = TRUE], [p EXCEPT !.submitted = TRUE],
                      [p EXCEPT !.expired = TRUE]} :
              /\ q.status = p.status /\ q.how = p.how
              /\ mayHaveCharged(p) => mayHaveCharged(q)
              /\ Recorded(p) => Recorded(q)
         /\ mayHaveCharged([p EXCEPT !.submitted = TRUE])
         /\ p.status = "authorized" => Recorded([p EXCEPT !.submitted = TRUE])
         /\ \A s \in Statuses : /\ [p EXCEPT !.status = s].status = s
                                /\ [p EXCEPT !.status = s].how = p.how
  BY DEF PurchaseRecord, mayHaveCharged, Recorded

LEMMA SettledFields ==
  ASSUME NEW p \in PurchaseRecord
  PROVE  /\ Settle(p).how = p.how
         /\ Settle(p).status = p.status
              \/ (p.status = "authorized" /\ ~p.submitted /\ Settle(p).status = "cancelled")
         /\ Recorded(p) => Recorded(Settle(p))
         /\ Settle(p).status = "authorized" => mayHaveCharged(Settle(p))
         /\ Settle(p).status = "paid" => mayHaveCharged(Settle(p))
  BY DEF PurchaseRecord, mayHaveCharged, Recorded, Settle

LEMMA AuthorizedFields ==
  ASSUME NEW h, NEW a
  PROVE  Authorized(h, a).how = h /\ Authorized(h, a).status = "authorized"
  BY DEF Authorized, NoPurchase

\* A step that changes one record, and what the store knows of that one only.
LEMMA OneRecord ==
  ASSUME IInv, TypeOK', NEW i \in Purchases, UNCHANGED <<up, run, started, used, cutOff>>,
         \A k \in Purchases \ {i} : purchase'[k] = purchase[k] /\ order'[k] = order[k],
         Open(i)' => Open(i) /\ (Charged(i) => Charged(i)'),
         Sent(i)' => Recorded(purchase'[i])
  PROVE  IInv'
<1>1. Calm BY Zenon DEF Calm, Open, Sent, Charged
<1>2. SentIsRecorded' BY Zenon DEF IInv, SentIsRecorded, Sent
<1>3. QED BY <1>1, <1>2, CalmKeeps

LEMMA PurchaseKeeps ==
  ASSUME IInv, TypeOK', NEW i \in Purchases,
         Fill(i) \/ Press(i) \/ Store(i) \/ Complete(i) \/ Expire(i)
  PROVE  IInv'
<1>0. /\ purchase \in [Purchases -> PurchaseRecord] /\ purchase[i] \in PurchaseRecord
      /\ DOMAIN order = Purchases
      /\ Sent(i) => Recorded(purchase[i])
  BY Zenon DEF IInv, TypeOK, SentIsRecorded
<1>1. CASE Fill(i)
  <2>1. /\ purchase'[i] = [purchase[i] EXCEPT !.typed = TRUE] /\ order' = order
        /\ \A k \in Purchases \ {i} : purchase'[k] = purchase[k]
        /\ UNCHANGED <<up, run, started, used, cutOff>>
    BY <1>0, <1>1, Zenon DEF Fill, plan
  <2>2. /\ purchase'[i].status = purchase[i].status /\ purchase'[i].how = purchase[i].how
        /\ mayHaveCharged(purchase[i]) => mayHaveCharged(purchase'[i])
        /\ Recorded(purchase[i]) => Recorded(purchase'[i])
    BY <1>0, <2>1, EditedFields, Zenon
  <2>3. Open(i)' => Open(i) /\ (Charged(i) => Charged(i)')
    BY <2>1, <2>2, Zenon DEF Open, Scheduled, Sent, Charged
  <2>4. Sent(i)' => Recorded(purchase'[i])
    BY <1>0, <2>1, <2>2, Zenon DEF Sent
  <2>5. QED BY <2>1, <2>3, <2>4, OneRecord, Zenon
<1>2. CASE Press(i)
  <2>1. /\ purchase'[i] = [purchase[i] EXCEPT !.submitted = TRUE]
        /\ \A k \in Purchases \ {i} : purchase'[k] = purchase[k] /\ order'[k] = order[k]
        /\ purchase[i].status = "authorized"
        /\ UNCHANGED <<up, run, started, used, cutOff>>
    BY <1>0, <1>2, Zenon DEF Press, Live, plan
  <2>2. /\ purchase'[i].status = purchase[i].status /\ purchase'[i].how = purchase[i].how
        /\ mayHaveCharged(purchase'[i]) /\ Recorded(purchase'[i])
    BY <1>0, <2>1, EditedFields, Zenon
  <2>3. Open(i)' => Open(i) /\ (Charged(i) => Charged(i)')
    BY <2>1, <2>2, Zenon DEF Open, Scheduled, Charged
  <2>4. QED BY <2>1, <2>2, <2>3, OneRecord, Zenon
<1>3. CASE Store(i)
  <2>1. /\ purchase' = purchase /\ order[i] = "sent"
        /\ \A k \in Purchases \ {i} : order'[k] = order[k]
        /\ UNCHANGED <<up, run, started, used, cutOff>>
    BY <1>0, <1>3, Zenon DEF Store, plan
  <2>2. QED BY <1>0, <2>1, OneRecord, Zenon DEF Open, Scheduled, Sent, Charged
<1>4. CASE Complete(i)
  <2> DEFINE end == IF order[i] = "placed" THEN "paid" ELSE "failed"
  <2>1. /\ purchase'[i] = [purchase[i] EXCEPT !.status = end] /\ order' = order
        /\ \A k \in Purchases \ {i} : purchase'[k] = purchase[k]
        /\ purchase[i].status = "authorized" /\ order[i] # "sent"
        /\ UNCHANGED <<up, run, started, used, cutOff>>
    BY <1>0, <1>4, Zenon DEF Complete, plan
  <2>2. end \in Statuses BY DEF Statuses
  <2>3. purchase'[i].status = end /\ purchase'[i].how = purchase[i].how
    BY <1>0, <2>1, <2>2, EditedFields
  <2>4. Sent(i)' => Recorded(purchase'[i])
    BY <2>1, <2>3 DEF Sent, Recorded
  <2>5. Open(i)' => Open(i) /\ (Charged(i) => Charged(i)')
    BY <2>1, <2>3 DEF Open, Scheduled, Sent, Charged, mayHaveCharged
  <2>6. QED BY <2>1, <2>4, <2>5, OneRecord, Zenon
<1>5. CASE Expire(i)
  <2>1. /\ purchase'[i] = [purchase[i] EXCEPT !.expired = TRUE] /\ order' = order
        /\ \A k \in Purchases \ {i} : purchase'[k] = purchase[k]
        /\ UNCHANGED <<up, run, started, used, cutOff>>
    BY <1>0, <1>5, Zenon DEF Expire, plan
  <2>2. /\ purchase'[i].status = purchase[i].status /\ purchase'[i].how = purchase[i].how
        /\ mayHaveCharged(purchase[i]) => mayHaveCharged(purchase'[i])
        /\ Recorded(purchase[i]) => Recorded(purchase'[i])
    BY <1>0, <2>1, EditedFields, Zenon
  <2>3. Open(i)' => Open(i) /\ (Charged(i) => Charged(i)')
    BY <2>1, <2>2, Zenon DEF Open, Scheduled, Sent, Charged
  <2>4. Sent(i)' => Recorded(purchase'[i])
    BY <1>0, <2>1, <2>2, Zenon DEF Sent
  <2>5. QED BY <2>1, <2>3, <2>4, OneRecord, Zenon
<1>6. QED BY <1>1, <1>2, <1>3, <1>4, <1>5

LEMMA AuthorizeKeeps ==
  ASSUME IInv, TypeOK', NEW c \in Chats, Authorize(c)
  PROVE  IInv'
<1>1. PICK i \in Purchases : Record(i, asking[c].how, asking[c].amount)
  BY DEF Authorize
<1>2. /\ purchase'[i] = Authorized(asking[c].how, asking[c].amount)
      /\ \A k \in Purchases \ {i} : purchase'[k] = purchase[k]
      /\ purchase[i].status = "none" /\ order' = order
      /\ UNCHANGED <<up, run, started, used, cutOff>>
  BY <1>1, Zenon DEF IInv, TypeOK, Authorize, Record, Authorized, plan
<1>3. asking[c].how # "scheduled" BY DEF IInv, TypeOK
<1>4. ~Open(i)' BY <1>2, <1>3, AuthorizedFields DEF Open, Scheduled
<1>5. ~Sent(i)' BY <1>2 DEF IInv, SentIsRecorded, Recorded, Sent
<1>6. QED BY <1>2, <1>4, <1>5, OneRecord, Zenon

LEMMA OrderKeeps ==
  ASSUME IInv, TypeOK', NEW i \in Purchases, NEW a \in OrderAmounts, AuthorizeOrder(i, a)
  PROVE  IInv'
<1>1. /\ \A k \in Purchases \ {i} : purchase'[k] = purchase[k]
      /\ purchase[i].status = "none" /\ order' = order
      /\ UNCHANGED <<up, run, started, cutOff>>
      /\ up /\ run # "none" /\ ~used /\ used'
  BY Zenon DEF IInv, TypeOK, AuthorizeOrder, Record
<1>2. \A k \in Purchases : ~Open(k) BY <1>1, Zenon DEF IInv, GrantIsNext
<1>3. \A k \in Purchases : Open(k)' => k = i
  BY <1>1, <1>2, Zenon DEF Open, Sent
<1>4. SentIsRecorded' BY <1>1 DEF IInv, SentIsRecorded, Recorded, Sent
<1>5. OneOpen' BY <1>3, Zenon DEF OneOpen
<1>6. GrantIsNext' BY <1>1, Zenon DEF GrantIsNext
<1>7. BeforeTheRun' BY <1>1, Zenon DEF IInv, BeforeTheRun
<1>8. LeftOver' BY <1>1, Zenon DEF IInv, LeftOver
<1>9. QED BY <1>4, <1>5, <1>6, <1>7, <1>8, Zenon DEF IInv

\* No record and nothing at the store changes.
LEMMA SameRecords ==
  ASSUME purchase' = purchase, order' = order
  PROVE  /\ \A i \in Purchases : Open(i)' = Open(i) /\ Charged(i)' = Charged(i)
         /\ SentIsRecorded => SentIsRecorded'
         /\ OneOpen => OneOpen'
  BY Zenon DEF Open, Sent, Charged, SentIsRecorded, OneOpen

LEMMA QuietKeeps ==
  ASSUME IInv, TypeOK', UNCHANGED <<purchase, order, up, run, started, used, cutOff>>
  PROVE  IInv'
  BY SameRecords, CalmKeeps, Zenon DEF IInv, Calm

LEMMA RunKeeps ==
  ASSUME IInv, TypeOK', StartRun \/ EndRun \/ End \/ Resume
  PROVE  IInv'
<1>1. purchase' = purchase /\ order' = order
  BY Zenon DEF StartRun, EndRun, End, Resume
<1>2. /\ SentIsRecorded' /\ OneOpen'
      /\ \A i \in Purchases : Open(i)' = Open(i) /\ Charged(i)' = Charged(i)
  BY <1>1, SameRecords, Zenon DEF IInv
<1>3. GrantIsNext' /\ BeforeTheRun' /\ LeftOver'
  <2>1. CASE StartRun
    BY <1>2, <2>1, Zenon DEF IInv, StartRun, GrantIsNext, BeforeTheRun, LeftOver
  <2>2. CASE EndRun
    BY <1>2, <2>2, Zenon DEF IInv, EndRun, GrantIsNext, BeforeTheRun, LeftOver
  <2>3. CASE End
    BY <1>2, <2>3, Zenon DEF IInv, End, GrantIsNext, BeforeTheRun, LeftOver
  <2>4. CASE Resume
    <3>1. ASSUME run' = "retry", ~mayHaveBought PROVE \A i \in Purchases : ~Open(i)
      <4>1. \A i \in Purchases : Open(i) => Charged(i)
        BY <2>4, Zenon DEF Resume, IInv, LeftOver
      <4>2. \A i \in Purchases : Open(i) => ~Charged(i)
        BY <3>1, Zenon DEF mayHaveBought, Open, Scheduled, Charged
      <4>3. QED BY <4>1, <4>2
    <3>2. started BY <2>4, Zenon DEF Resume, IInv, BeforeTheRun
    <3>3. /\ started' = started /\ ~cutOff'
          /\ \/ run' = run /\ used' = used
             \/ run' = "retry" /\ ~mayHaveBought
      BY <2>4, Zenon DEF Resume
    <3>4. GrantIsNext'
      <4>1. CASE run' = run /\ used' = used
        BY <1>2, <4>1, Zenon DEF IInv, GrantIsNext
      <4>2. CASE run' = "retry" /\ ~mayHaveBought
        BY <1>2, <3>1, <4>2, Zenon DEF GrantIsNext
      <4>3. QED BY <3>3, <4>1, <4>2, Zenon
    <3>5. QED BY <3>2, <3>3, <3>4, Zenon DEF BeforeTheRun, LeftOver
  <2>5. QED BY <2>1, <2>2, <2>3, <2>4
<1>4. QED BY <1>2, <1>3, Zenon DEF IInv

LEMMA LaunchKeeps ==
  ASSUME IInv, TypeOK', Launch
  PROVE  IInv'
<1>1. /\ \A i \in Purchases : purchase'[i] = Settle(purchase[i])
      /\ order' = order /\ ~up
      /\ run' = run /\ started' = started /\ used' = used /\ cutOff' = cutOff
  BY Zenon DEF Launch, plan
<1>2. run = "none" BY <1>1, Zenon DEF IInv, TypeOK
<1>3. \A i \in Purchases : purchase[i] \in PurchaseRecord
  BY Zenon DEF IInv, TypeOK
<1>4. SentIsRecorded'
  BY <1>1, <1>3, SettledFields, Zenon DEF IInv, SentIsRecorded, Sent
<1>5. ASSUME NEW i \in Purchases, Open(i)' PROVE Open(i) /\ Charged(i)'
  <2>1. Scheduled(purchase'[i]) /\ (purchase'[i].status = "authorized" \/ Sent(i))
    BY <1>1, <1>5, Zenon DEF Open, Sent
  <2>2. purchase'[i].status \in {"authorized", "paid"}
    BY <1>1, <1>4, <2>1, Zenon DEF SentIsRecorded, Sent, Recorded
  <2>3. /\ purchase'[i].how = purchase[i].how
        /\ purchase'[i].status = purchase[i].status
    BY <1>1, <1>3, <2>2, SettledFields
  <2>4. Charged(i)' BY <1>1, <1>3, <2>2, SettledFields DEF Charged
  <2>5. QED BY <2>1, <2>3, <2>4, Zenon DEF Open, Scheduled
<1>6. OneOpen' BY <1>5, Zenon DEF IInv, OneOpen
<1>7. GrantIsNext' BY <1>1, <1>2, Zenon DEF GrantIsNext
<1>8. BeforeTheRun' BY <1>1, <1>5, Zenon DEF IInv, BeforeTheRun
<1>9. LeftOver' BY <1>1, <1>2, <1>5, Zenon DEF LeftOver
<1>10. QED BY <1>4, <1>6, <1>7, <1>8, <1>9, Zenon DEF IInv

LEMMA IInvStep == AmountAssumption /\ IInv /\ [Next]_vars => IInv'
<1> SUFFICES ASSUME AmountAssumption, IInv, [Next]_vars PROVE IInv'
  OBVIOUS
<1>1. TypeOK' BY TypeStep, Zenon DEF IInv
<1>2. CASE SetMode \/ NewDay \/ \E c \in Chats : (\E a \in Amounts : Ask(c, a)) \/ Refuse(c)
  BY <1>1, <1>2, QuietKeeps, Zenon DEF SetMode, NewDay, Ask, Refuse, plan
<1>3. CASE \E c \in Chats : Authorize(c) BY <1>1, <1>3, AuthorizeKeeps, Zenon
<1>4. CASE \E i \in Purchases, a \in OrderAmounts : AuthorizeOrder(i, a)
  BY <1>1, <1>4, OrderKeeps, Zenon
<1>5. CASE \E i \in Purchases : Fill(i) \/ Press(i) \/ Store(i) \/ Complete(i) \/ Expire(i)
  BY <1>1, <1>5, PurchaseKeeps, Zenon
<1>6. CASE StartRun \/ EndRun \/ End \/ Resume BY <1>1, <1>6, RunKeeps, Zenon
<1>7. CASE Launch BY <1>1, <1>7, LaunchKeeps, Zenon
<1>8. CASE UNCHANGED vars BY <1>1, <1>8, QuietKeeps, Zenon DEF vars, plan
<1>9. QED BY <1>2, <1>3, <1>4, <1>5, <1>6, <1>7, <1>8, Zenon DEF Next

\* The orders of the schedule that are open, across quits, launches and the
\* retry: what the two theorems rest on.
THEOREM IInvCorrect == Spec => []IInv
<1>1. Init => IInv
  <2> SUFFICES ASSUME Init PROVE IInv
    OBVIOUS
  <2>1. TypeOK BY TypeInit
  <2>2. \A i \in Purchases : order[i] = "none" /\ purchase[i].status = "none"
    BY DEF Init, NoPurchase
  <2>3. \A i \in Purchases : ~Sent(i) /\ ~Open(i) BY <2>2 DEF Sent, Open, Scheduled
  <2>4. run = "none" /\ ~cutOff BY Zenon DEF Init
  <2>5. QED
    BY <2>1, <2>3, <2>4, Zenon
    DEF IInv, SentIsRecorded, OneOpen, GrantIsNext, BeforeTheRun, LeftOver
<1>2. QED BY <1>1, IInvStep, AmountAssumption, PTL DEF Spec

\* What the store was sent and did not refuse counts against the limit, whatever
\* expires, quits or crashes (counted, settleAbandoned).
THEOREM ChargesCountCorrect == Spec => []ChargesCount
<1>1. IInv => ChargesCount
  BY DEF IInv, SentIsRecorded, Sent, Recorded, ChargesCount, counted
<1>2. QED BY <1>1, IInvCorrect, PTL

\* The schedule's order is placed once, although a cut-off run is made again
\* (plans.ts, resumeCutOffPurchases).
THEOREM NeverBoughtTwiceCorrect == Spec => []NeverBoughtTwice
<1>1. IInv => NeverBoughtTwice
  <2>1. ASSUME IInv, NEW i \in Purchases, Ordered(i) PROVE Open(i)
    BY <2>1 DEF IInv, SentIsRecorded, Sent, Recorded, Ordered, Open, Scheduled
  <2>2. QED BY <2>1, Zenon DEF IInv, OneOpen, NeverBoughtTwice
<1>2. QED BY <1>1, IInvCorrect, PTL

-----------------------------------------------------------------------------
(* The day's limit.                                                        *)

\* The units the records p count for a day, and those nobody was asked about.
Counts(p) == [i \in Purchases |-> counted(p[i])]
Spent(p, d) == Units(Counts(p), {i \in Purchases : p[i].day = d})
Unasked(p, d) == Units(Counts(p), {i \in Purchases : p[i].day = d /\ p[i].how = "auto"})

\* What is counted and was not asked about is within the limit, ordered or not:
\* what authorize compares, before anything is pressed.
InLimit ==
  \A d \in Nat : /\ IsFiniteSet(Spent(purchase, d))
                 /\ Cardinality(Unasked(purchase, d)) <= DailyLimit

LEMMA InUnits ==
  ASSUME NEW f, NEW S, NEW u
  PROVE  u \in Units(f, S) <=> \E i \in S : \E n \in 1 .. f[i] : u = <<i, n>>
<1>1. ASSUME u \in Units(f, S) PROVE \E i \in S : \E n \in 1 .. f[i] : u = <<i, n>>
  <2>1. PICK i \in S : u \in {i} \X (1 .. f[i]) BY <1>1 DEF Units
  <2>2. u = <<u[1], u[2]>> /\ u[1] = i /\ u[2] \in 1 .. f[i] BY <2>1
  <2>3. QED BY <2>2
<1>2. ASSUME NEW i \in S, NEW n \in 1 .. f[i], u = <<i, n>> PROVE u \in Units(f, S)
  BY <1>2 DEF Units
<1>3. QED BY <1>1, <1>2

LEMMA CountedType == ASSUME NEW p \in PurchaseRecord PROVE counted(p) \in Nat
  BY DEF PurchaseRecord, counted

LEMMA InSpent ==
  ASSUME NEW p, NEW d, NEW u
  PROVE  /\ u \in Spent(p, d) <=>
              \E i \in Purchases : p[i].day = d /\ \E n \in 1 .. counted(p[i]) : u = <<i, n>>
         /\ u \in Unasked(p, d) <=>
              \E i \in Purchases : /\ p[i].day = d /\ p[i].how = "auto"
                                   /\ \E n \in 1 .. counted(p[i]) : u = <<i, n>>
<1> DEFINE S == {i \in Purchases : p[i].day = d}
<1> DEFINE T == {i \in Purchases : p[i].day = d /\ p[i].how = "auto"}
<1>1. \A i \in Purchases : Counts(p)[i] = counted(p[i]) BY Zenon DEF Counts
<1>2. Spent(p, d) = Units(Counts(p), S) /\ Unasked(p, d) = Units(Counts(p), T)
  BY Zenon DEF Spent, Unasked
<1>3. /\ \A i : i \in S <=> i \in Purchases /\ p[i].day = d
      /\ \A i : i \in T <=> i \in Purchases /\ p[i].day = d /\ p[i].how = "auto"
  OBVIOUS
<1> HIDE DEF S, T
<1>4. /\ u \in Spent(p, d) <=> \E i \in S : \E n \in 1 .. Counts(p)[i] : u = <<i, n>>
      /\ u \in Unasked(p, d) <=> \E i \in T : \E n \in 1 .. Counts(p)[i] : u = <<i, n>>
  BY <1>2, InUnits
<1>5. QED BY <1>1, <1>3, <1>4

\* What nobody was asked about is part of what the day counts.
LEMMA UnaskedIsSpent ==
  ASSUME NEW p, NEW d, IsFiniteSet(Spent(p, d))
  PROVE  /\ IsFiniteSet(Unasked(p, d)) /\ Cardinality(Unasked(p, d)) \in Nat
         /\ Cardinality(Unasked(p, d)) <= Cardinality(Spent(p, d))
         /\ Cardinality(Spent(p, d)) \in Nat
<1>1. Unasked(p, d) \subseteq Spent(p, d) BY InSpent
<1>2. QED BY <1>1, FS_Subset, FS_CardinalityType

\* No record counts more than before, or for another day.
CountsLess(i) ==
  /\ counted(purchase'[i]) <= counted(purchase[i])
  /\ counted(purchase'[i]) > 0 => /\ purchase'[i].day = purchase[i].day
                                  /\ purchase'[i].how = purchase[i].how

LEMMA LessKeeps ==
  ASSUME AmountAssumption, TypeOK, TypeOK', InLimit, \A i \in Purchases : CountsLess(i)
  PROVE  InLimit'
<1> SUFFICES ASSUME NEW d \in Nat
             PROVE  /\ IsFiniteSet(Spent(purchase', d))
                    /\ Cardinality(Unasked(purchase', d)) <= DailyLimit
  BY DEF InLimit
<1>1. ASSUME NEW i \in Purchases, NEW n \in 1 .. counted(purchase'[i])
      PROVE  /\ n \in 1 .. counted(purchase[i]) /\ purchase[i].day = purchase'[i].day
             /\ purchase[i].how = purchase'[i].how
  <2>1. counted(purchase[i]) \in Nat /\ counted(purchase'[i]) \in Nat
    BY CountedType DEF TypeOK
  <2>2. QED BY <2>1 DEF CountsLess
<1>2. Spent(purchase', d) \subseteq Spent(purchase, d) BY <1>1, InSpent
<1>3. Unasked(purchase', d) \subseteq Unasked(purchase, d) BY <1>1, InSpent
<1>4. /\ IsFiniteSet(Spent(purchase, d)) /\ Cardinality(Unasked(purchase, d)) <= DailyLimit
      /\ IsFiniteSet(Unasked(purchase, d)) /\ Cardinality(Unasked(purchase, d)) \in Nat
  BY UnaskedIsSpent DEF InLimit
<1>5. IsFiniteSet(Spent(purchase', d)) BY <1>2, <1>4, FS_Subset
<1>6. Cardinality(Unasked(purchase', d)) <= Cardinality(Unasked(purchase, d))
  BY <1>3, <1>4, FS_Subset
<1>7. Cardinality(Unasked(purchase', d)) \in Nat BY <1>5, UnaskedIsSpent
<1>8. DailyLimit \in Nat BY DEF AmountAssumption
<1>9. QED BY <1>4, <1>5, <1>6, <1>7, <1>8

\* A record is made: on autopilot only while the day has room for it.
LEMMA AuthorizedCounts ==
  ASSUME NEW h \in Hows, NEW a \in Nat
  PROVE  /\ counted(Authorized(h, a)) = a /\ Authorized(h, a).day = day
         /\ Authorized(h, a).how = h
  BY DEF Authorized, NoPurchase, counted

LEMMA RecordKeeps ==
  ASSUME AmountAssumption, TypeOK, InLimit, NEW i \in Purchases, NEW h \in Hows, NEW a \in Nat,
         Record(i, h, a), h = "auto" => SpentToday + a <= DailyLimit
  PROVE  InLimit'
<1> SUFFICES ASSUME NEW d \in Nat
             PROVE  /\ IsFiniteSet(Spent(purchase', d))
                    /\ Cardinality(Unasked(purchase', d)) <= DailyLimit
  BY DEF InLimit
<1> DEFINE one == {i} \X (1 .. a)
<1>1. /\ purchase'[i] = Authorized(h, a) /\ purchase[i].status = "none"
      /\ \A k \in Purchases \ {i} : purchase'[k] = purchase[k]
  BY Zenon DEF TypeOK, Record, Authorized
<1>2. /\ counted(purchase'[i]) = a /\ purchase'[i].day = day /\ purchase'[i].how = h
  BY <1>1, AuthorizedCounts
<1>3. IsFiniteSet(one) /\ Cardinality(one) = a
  <2>1. IsFiniteSet({i}) /\ Cardinality({i}) = 1 BY FS_Singleton
  <2>2. IsFiniteSet(1 .. a) /\ Cardinality(1 .. a) = a BY FS_Interval
  <2>3. /\ IsFiniteSet(one)
        /\ Cardinality(one) = Cardinality({i}) * Cardinality(1 .. a)
    BY <2>1, <2>2, FS_Product, Zenon
  <2>4. QED BY <2>1, <2>2, <2>3
<1>4. ASSUME NEW u \in Spent(purchase', d) PROVE u \in Spent(purchase, d) \cup one
  <2>1. PICK k \in Purchases : /\ purchase'[k].day = d
                               /\ \E n \in 1 .. counted(purchase'[k]) : u = <<k, n>>
    BY InSpent
  <2>2. PICK n \in 1 .. counted(purchase'[k]) : u = <<k, n>> BY <2>1
  <2>3. CASE k = i BY <1>2, <2>2, <2>3
  <2>4. CASE k # i BY <1>1, <2>1, <2>2, <2>4, InSpent
  <2>5. QED BY <2>3, <2>4
<1>5. ASSUME NEW u \in Unasked(purchase', d)
      PROVE  u \in Unasked(purchase, d) \/ (u \in one /\ h = "auto" /\ d = day)
  <2>1. PICK k \in Purchases : /\ purchase'[k].day = d /\ purchase'[k].how = "auto"
                               /\ \E n \in 1 .. counted(purchase'[k]) : u = <<k, n>>
    BY InSpent
  <2>2. PICK n \in 1 .. counted(purchase'[k]) : u = <<k, n>> BY <2>1
  <2>3. CASE k = i BY <1>2, <2>1, <2>2, <2>3
  <2>4. CASE k # i BY <1>1, <2>1, <2>2, <2>4, InSpent
  <2>5. QED BY <2>3, <2>4
<1> HIDE DEF one
<1>6. /\ IsFiniteSet(Spent(purchase, d)) /\ Cardinality(Unasked(purchase, d)) <= DailyLimit
      /\ IsFiniteSet(Unasked(purchase, d)) /\ Cardinality(Unasked(purchase, d)) \in Nat
      /\ Cardinality(Spent(purchase, d)) \in Nat
      /\ Cardinality(Unasked(purchase, d)) <= Cardinality(Spent(purchase, d))
  BY UnaskedIsSpent DEF InLimit
<1>7. IsFiniteSet(Spent(purchase', d))
  <2>1. IsFiniteSet(Spent(purchase, d) \cup one) BY <1>3, <1>6, FS_Union
  <2>2. QED BY <1>4, <2>1, FS_Subset
<1>8. Cardinality(Unasked(purchase', d)) \in Nat BY <1>7, UnaskedIsSpent
<1>9. DailyLimit \in Nat BY DEF AmountAssumption
<1>10. CASE h = "auto" /\ d = day
  <2>1. Unasked(purchase', d) \subseteq Unasked(purchase, d) \cup one BY <1>5
  <2>2. /\ IsFiniteSet(Unasked(purchase, d) \cup one)
        /\ Cardinality(Unasked(purchase, d) \cup one) <= Cardinality(Unasked(purchase, d)) + a
    <3>1. /\ IsFiniteSet(Unasked(purchase, d) \cup one)
          /\ Cardinality(Unasked(purchase, d) \cup one) =
               Cardinality(Unasked(purchase, d)) + Cardinality(one)
                 - Cardinality(Unasked(purchase, d) \cap one)
      BY <1>3, <1>6, FS_Union
    <3>2. Cardinality(Unasked(purchase, d) \cap one) \in Nat
      <4>1. IsFiniteSet(Unasked(purchase, d) \cap one) BY <1>3, FS_Subset
      <4>2. QED BY <4>1, FS_CardinalityType
    <3>3. QED BY <1>3, <1>6, <3>1, <3>2
  <2>3. Cardinality(Unasked(purchase', d)) <= Cardinality(Unasked(purchase, d) \cup one)
    BY <2>1, <2>2, FS_Subset
  <2>4. Cardinality(Unasked(purchase, d) \cup one) \in Nat BY <2>2, FS_CardinalityType
  <2>5. SpentToday = Cardinality(Spent(purchase, d))
    BY <1>10, Zenon DEF SpentToday, Total, Spent, Counts
  <2>6. Cardinality(Spent(purchase, d)) + a <= DailyLimit BY <1>10, <2>5
  <2>7. QED BY <1>6, <1>7, <1>8, <1>9, <2>2, <2>3, <2>4, <2>6
<1>11. CASE ~(h = "auto" /\ d = day)
  <2>1. Unasked(purchase', d) \subseteq Unasked(purchase, d) BY <1>5, <1>11
  <2>2. Cardinality(Unasked(purchase', d)) <= Cardinality(Unasked(purchase, d))
    BY <1>6, <2>1, FS_Subset
  <2>3. QED BY <1>6, <1>7, <1>8, <1>9, <2>2
<1>12. QED BY <1>10, <1>11

\* Every change of a record that is there counts the same, or no more at all.
LEMMA EditedCounts ==
  ASSUME NEW p \in PurchaseRecord
  PROVE  /\ p.status = "authorized" /\ ~p.expired =>
              /\ counted([p EXCEPT !.typed = TRUE]) <= counted(p)
              /\ counted([p EXCEPT !.submitted = TRUE]) <= counted(p)
         /\ counted([p EXCEPT !.expired = TRUE]) <= counted(p)
         /\ counted([p EXCEPT !.status = "failed"]) <= counted(p)
         /\ p.status = "authorized" /\ p.submitted =>
              counted([p EXCEPT !.status = "paid"]) <= counted(p)
         /\ counted(Settle(p)) <= counted(p)
         /\ \A q \in {[p EXCEPT !.typed = TRUE], [p EXCEPT !.submitted = TRUE],
                      [p EXCEPT !.expired = TRUE], [p EXCEPT !.status = "failed"],
                      [p EXCEPT !.status = "paid"], Settle(p)} : q.day = p.day /\ q.how = p.how
  BY DEF PurchaseRecord, counted, Settle, mayHaveCharged

\* One record changes, and counts no more; the other records stay.
LEMMA OneLess ==
  ASSUME AmountAssumption, TypeOK, TypeOK', InLimit, NEW i \in Purchases,
         \A k \in Purchases \ {i} : purchase'[k] = purchase[k], CountsLess(i)
  PROVE  InLimit'
<1>1. \A k \in Purchases : counted(purchase[k]) <= counted(purchase[k])
  BY CountedType DEF TypeOK
<1>2. \A k \in Purchases \ {i} : CountsLess(k) BY <1>1, Zenon DEF CountsLess
<1>3. \A k \in Purchases : CountsLess(k) BY <1>2
<1>4. QED BY <1>3, LessKeeps

LEMMA PurchaseInLimit ==
  ASSUME AmountAssumption, IInv, TypeOK', InLimit, NEW i \in Purchases,
         Fill(i) \/ Press(i) \/ Store(i) \/ Complete(i) \/ Expire(i)
  PROVE  InLimit'
<1>0. /\ TypeOK /\ purchase \in [Purchases -> PurchaseRecord] /\ purchase[i] \in PurchaseRecord
      /\ Sent(i) => Recorded(purchase[i])
      /\ counted(purchase[i]) <= counted(purchase[i])
  BY CountedType DEF IInv, TypeOK, SentIsRecorded
<1>1. CASE Fill(i)
  <2>1. /\ purchase'[i] = [purchase[i] EXCEPT !.typed = TRUE]
        /\ \A k \in Purchases \ {i} : purchase'[k] = purchase[k]
        /\ purchase[i].status = "authorized" /\ ~purchase[i].expired
    BY <1>0, <1>1, Zenon DEF Fill, Live
  <2>2. CountsLess(i) BY <1>0, <2>1, EditedCounts DEF CountsLess
  <2>3. QED BY <1>0, <2>1, <2>2, OneLess, Zenon
<1>2. CASE Press(i)
  <2>1. /\ purchase'[i] = [purchase[i] EXCEPT !.submitted = TRUE]
        /\ \A k \in Purchases \ {i} : purchase'[k] = purchase[k]
        /\ purchase[i].status = "authorized" /\ ~purchase[i].expired
    BY <1>0, <1>2, Zenon DEF Press, Live
  <2>2. CountsLess(i) BY <1>0, <2>1, EditedCounts DEF CountsLess
  <2>3. QED BY <1>0, <2>1, <2>2, OneLess, Zenon
<1>3. CASE Store(i)
  <2>1. purchase' = purchase BY <1>3, Zenon DEF Store
  <2>2. CountsLess(i) BY <1>0, <2>1, Zenon DEF CountsLess
  <2>3. QED BY <1>0, <2>1, <2>2, OneLess, Zenon
<1>4. CASE Complete(i)
  <2>1. /\ \/ /\ purchase'[i] = [purchase[i] EXCEPT !.status = "paid"] /\ Sent(i)
           \/ purchase'[i] = [purchase[i] EXCEPT !.status = "failed"]
        /\ \A k \in Purchases \ {i} : purchase'[k] = purchase[k]
        /\ purchase[i].status = "authorized"
    BY <1>0, <1>4 DEF Complete, Sent
  <2>2. Sent(i) => purchase[i].submitted BY <1>0, <2>1 DEF Recorded
  <2>3. CASE purchase'[i] = [purchase[i] EXCEPT !.status = "paid"] /\ Sent(i)
    <3>1. CountsLess(i) BY <1>0, <2>1, <2>2, <2>3, EditedCounts DEF CountsLess
    <3>2. QED BY <1>0, <2>1, <3>1, OneLess, Zenon
  <2>4. CASE purchase'[i] = [purchase[i] EXCEPT !.status = "failed"]
    <3>1. CountsLess(i) BY <1>0, <2>4, EditedCounts DEF CountsLess
    <3>2. QED BY <1>0, <2>1, <3>1, OneLess, Zenon
  <2>5. QED BY <2>1, <2>3, <2>4
<1>5. CASE Expire(i)
  <2>1. /\ purchase'[i] = [purchase[i] EXCEPT !.expired = TRUE]
        /\ \A k \in Purchases \ {i} : purchase'[k] = purchase[k]
    BY <1>0, <1>5, Zenon DEF Expire
  <2>2. CountsLess(i) BY <1>0, <2>1, EditedCounts DEF CountsLess
  <2>3. QED BY <1>0, <2>1, <2>2, OneLess, Zenon
<1>6. QED BY <1>1, <1>2, <1>3, <1>4, <1>5

LEMMA LaunchInLimit ==
  ASSUME AmountAssumption, TypeOK, TypeOK', InLimit, Launch
  PROVE  InLimit'
<1>1. \A i \in Purchases : /\ purchase'[i] = Settle(purchase[i])
                           /\ purchase[i] \in PurchaseRecord
  BY Zenon DEF Launch, TypeOK
<1>2. \A i \in Purchases : CountsLess(i) BY <1>1, EditedCounts DEF CountsLess
<1>3. QED BY <1>2, LessKeeps

\* authorize: on autopilot, what fits, as it is counted then and not when the
\* call was looked at.
LEMMA AuthorizeInLimit ==
  ASSUME AmountAssumption, TypeOK, InLimit, NEW c \in Chats, Authorize(c)
  PROVE  InLimit'
<1>1. PICK i \in Purchases : Record(i, asking[c].how, asking[c].amount)
  BY DEF Authorize
<1>2. asking[c].how \in Hows /\ asking[c].amount \in Nat
  BY DEF Authorize, TypeOK, Hows
<1>3. asking[c].how = "auto" => SpentToday + asking[c].amount <= DailyLimit
  <2>1. ASSUME asking[c].how = "auto" PROVE ~(SpentToday + asking[c].amount > DailyLimit)
    BY <2>1, Zenon DEF Authorize, NeedsUser
  <2>2. SpentToday \in Nat
    <3>1. SpentToday = Cardinality(Spent(purchase, day)) BY Zenon DEF SpentToday, Total, Spent, Counts
    <3>2. QED BY <3>1, UnaskedIsSpent DEF InLimit, TypeOK
  <2>3. QED BY <1>2, <2>1, <2>2 DEF AmountAssumption
<1>4. QED BY <1>1, <1>2, <1>3, RecordKeeps

LEMMA InLimitStep == AmountAssumption /\ IInv /\ InLimit /\ [Next]_vars => InLimit'
<1> SUFFICES ASSUME AmountAssumption, IInv, InLimit, [Next]_vars PROVE InLimit'
  OBVIOUS
<1>1. TypeOK /\ TypeOK' BY TypeStep, Zenon DEF IInv
<1>2. ASSUME purchase' = purchase PROVE InLimit'
  BY <1>2, Zenon DEF InLimit
<1>3. CASE \E c \in Chats : Authorize(c) BY <1>1, <1>3, AuthorizeInLimit
<1>4. CASE \E i \in Purchases, a \in OrderAmounts : AuthorizeOrder(i, a)
  <2>1. PICK i \in Purchases, a \in OrderAmounts : AuthorizeOrder(i, a) BY <1>4
  <2>2. Record(i, "scheduled", a) BY <2>1, Zenon DEF AuthorizeOrder
  <2>3. "scheduled" \in Hows /\ a \in Nat BY DEF Hows, AmountAssumption
  <2>4. "scheduled" # "auto" OBVIOUS
  <2>5. QED BY <1>1, <2>2, <2>3, <2>4, RecordKeeps
<1>5. CASE \E i \in Purchases : Fill(i) \/ Press(i) \/ Store(i) \/ Complete(i) \/ Expire(i)
  BY <1>1, <1>5, PurchaseInLimit, Zenon
<1>6. CASE Launch BY <1>1, <1>6, LaunchInLimit
<1>7. CASE \/ SetMode \/ NewDay \/ StartRun \/ EndRun \/ End \/ Resume \/ UNCHANGED vars
           \/ \E c \in Chats : (\E a \in Amounts : Ask(c, a)) \/ Refuse(c)
  BY <1>2, <1>7, Zenon DEF SetMode, NewDay, StartRun, EndRun, End, Resume, Ask, Refuse, vars
<1>8. QED BY <1>3, <1>4, <1>5, <1>6, <1>7, Zenon DEF Next

LEMMA InLimitInit == AmountAssumption /\ Init => InLimit
<1> SUFFICES ASSUME AmountAssumption, Init, NEW d \in Nat
             PROVE  /\ IsFiniteSet(Spent(purchase, d))
                    /\ Cardinality(Unasked(purchase, d)) <= DailyLimit
  BY DEF InLimit
<1>1. \A i \in Purchases : counted(purchase[i]) = 0 BY DEF Init, NoPurchase, counted
<1>2. Spent(purchase, d) = {} /\ Unasked(purchase, d) = {}
  <2>1. ASSUME NEW u PROVE u \notin Spent(purchase, d) /\ u \notin Unasked(purchase, d)
    BY <1>1, InSpent
  <2>2. QED BY <2>1
<1>3. QED BY <1>2, FS_EmptySet DEF AmountAssumption

\* The purchases of one day nobody was asked about stay within its limit, however
\* many chats pay at once: authorize compares once more, after the question
\* (assess, authorize).
THEOREM WithinDailyLimitCorrect == Spec => []WithinDailyLimit
<1>1. ASSUME AmountAssumption, IInv, InLimit PROVE WithinDailyLimit
  <2> SUFFICES ASSUME NEW d \in 0 .. MaxDay
               PROVE  Total([i \in Purchases |-> purchase[i].amount],
                            {i \in Purchases : /\ purchase[i].how = "auto"
                                               /\ purchase[i].day = d
                                               /\ order[i] \in {"sent", "placed"}}) <= DailyLimit
    BY Zenon DEF WithinDailyLimit
  <2> DEFINE amounts == [i \in Purchases |-> purchase[i].amount]
  <2> DEFINE paid == {i \in Purchases : /\ purchase[i].how = "auto" /\ purchase[i].day = d
                                        /\ order[i] \in {"sent", "placed"}}
  <2>1. d \in Nat BY <1>1 DEF AmountAssumption
  <2>2. \A i \in Purchases : Sent(i) => counted(purchase[i]) = purchase[i].amount
    BY <1>1 DEF IInv, SentIsRecorded, Recorded, counted
  <2>3. \A i \in paid : /\ i \in Purchases /\ purchase[i].day = d /\ purchase[i].how = "auto"
                        /\ amounts[i] = counted(purchase[i])
    BY <2>2 DEF Sent
  <2> HIDE DEF amounts, paid
  <2>4. ASSUME NEW u \in Units(amounts, paid) PROVE u \in Unasked(purchase, d)
    <3>1. PICK i \in paid : \E n \in 1 .. amounts[i] : u = <<i, n>> BY InUnits
    <3>2. QED BY <2>3, <3>1, InSpent
  <2>5. /\ IsFiniteSet(Spent(purchase, d)) /\ Cardinality(Unasked(purchase, d)) <= DailyLimit
        /\ IsFiniteSet(Unasked(purchase, d)) /\ Cardinality(Unasked(purchase, d)) \in Nat
    BY <1>1, <2>1, UnaskedIsSpent DEF InLimit
  <2>6. /\ IsFiniteSet(Units(amounts, paid))
        /\ Cardinality(Units(amounts, paid)) <= Cardinality(Unasked(purchase, d))
    BY <2>4, <2>5, FS_Subset
  <2>7. Cardinality(Units(amounts, paid)) \in Nat BY <2>6, FS_CardinalityType
  <2>8. Cardinality(Units(amounts, paid)) <= DailyLimit
    BY <1>1, <2>5, <2>6, <2>7 DEF AmountAssumption
  <2>9. QED BY <2>8, Zenon DEF Total, amounts, paid
<1>2. QED
  BY <1>1, IInvCorrect, InLimitInit, InLimitStep, AmountAssumption, PTL DEF Spec

=============================================================================
