------------------------- MODULE SendMessageProofs -------------------------
(***************************************************************************)
(* The safety of SendMessage for every number of handlers, keys, bodies    *)
(* and chats.  AtMostOnceDispatch is not inductive: it rests on the row    *)
(* that a handler inserted being its own until it answers (Owned), on that *)
(* handler's key never having been sent before it dispatches (Unsent), and *)
(* on the row outliving the message (Recorded).                            *)
(***************************************************************************)
EXTENDS SendMessage, SequenceTheorems, TLAPS

BeforeDispatch == {"limit", "unreserve", "audit", "recheck", "dispatch"}

Message(k, b) == [key |-> k, body |-> b]

\* The row of a handler past Reserve is the one it inserted.
Owned ==
    \A h \in Handlers : pc[h] \in OwnerSteps =>
        rows[req[h].key] = PendingRow(req[h].body)

\* No two handlers are past Reserve with the same key.
Exclusive ==
    \A g, h \in Handlers :
        pc[g] \in OwnerSteps /\ pc[h] \in OwnerSteps /\ g # h
            => req[g].key # req[h].key

\* A handler that has yet to dispatch is the first to use its key.
Unsent ==
    \A h \in Handlers : pc[h] \in BeforeDispatch =>
        \A i \in DOMAIN sent : sent[i].key # req[h].key

\* A dispatched message has its row, with its body.
Recorded ==
    \A i \in DOMAIN sent :
        /\ rows[sent[i].key] # NoRow
        /\ rows[sent[i].key].body = sent[i].body

\* What a handler knows of TDLib's answer is about its own message.
Tracked ==
    \A h \in Handlers :
        /\ pc[h] = "await" =>
              /\ req[h].msg \in DOMAIN sent
              /\ sent[req[h].msg] = Message(req[h].key, req[h].body)
        /\ pc[h] # "save" => req[h].id = 0
        /\ pc[h] = "save" /\ req[h].id # 0 =>
              /\ req[h].id \in DOMAIN sent
              /\ sent[req[h].id] = Message(req[h].key, req[h].body)

\* An absent row is exactly NoRow, whatever its status column says.
WellFormed ==
    \A k \in Keys : rows[k].body \in Bodies \/ rows[k] = NoRow

\* granted[h] records a permission as soon as it holds.
Noted ==
    \A h \in Handlers :
        pc[h] \in OwnerSteps /\ perm[ChatFor(h)] => granted[h]

IInv ==
    /\ TypeOK
    /\ Owned
    /\ Exclusive
    /\ Unsent
    /\ Recorded
    /\ Tracked
    /\ WellFormed
    /\ AtMostOnceDispatch
    /\ AcceptedIsReal
    /\ Noted
    /\ RevocationHolds

-----------------------------------------------------------------------------
\* TypeOK holds initially.
LEMMA TypeInit == Init => TypeOK
<1> SUFFICES ASSUME Init PROVE TypeOK
  OBVIOUS
<1>1. rows \in [Keys -> Rows] /\ req \in [Handlers -> Requests]
  BY DEF Init, NoRow, Rows, NoRequest, Requests
<1>2. tokens \in 0..Capacity /\ sent \in Seq([key : Keys, body : Bodies])
  BY SendAssumption DEF Init
<1>3. perm \in [Chats -> BOOLEAN] /\ granted \in [Handlers -> BOOLEAN]
  BY DEF Init
<1>4. pc \in [Handlers -> Steps] /\ \A h \in Handlers : pc[h] = "idle"
  BY DEF Init, Steps
<1> QED BY <1>1, <1>2, <1>3, <1>4 DEF Init, TypeOK

\* An answered handler is idle with no request; the others are untouched.
LEMMA FinishType ==
    ASSUME TypeOK, NEW h \in Handlers, Finish(h)
    PROVE  /\ pc' \in [Handlers -> Steps]
           /\ req' \in [Handlers -> Requests]
           /\ granted' \in [Handlers -> BOOLEAN]
           /\ \A g \in Handlers : pc'[g] # "idle" =>
                  req'[g].key \in Keys /\ req'[g].body \in Bodies
<1>1. pc' \in [Handlers -> Steps]
  BY DEF Finish, TypeOK, Steps
<1>2. req' \in [Handlers -> Requests]
  BY DEF Finish, TypeOK, NoRequest, Requests
<1>3. granted' \in [Handlers -> BOOLEAN]
  BY DEF Finish, TypeOK
<1>4. \A g \in Handlers : pc'[g] # "idle" =>
         req'[g].key \in Keys /\ req'[g].body \in Bodies
  BY DEF Finish, TypeOK
<1> QED BY <1>1, <1>2, <1>3, <1>4

\* The statements on message_send_requests leave well-typed rows.
LEMMA RowsType ==
    ASSUME TypeOK, NEW h \in Handlers, pc[h] # "idle"
    PROVE  /\ Inserted(h) \in [Keys -> Rows]
           /\ Saved(h) \in [Keys -> Rows]
           /\ [rows EXCEPT ![req[h].key] = NoRow] \in [Keys -> Rows]
<1>1. Inserted(h) \in [Keys -> Rows]
  BY DEF TypeOK, Inserted, PendingRow, Rows
<1>2. Saved(h) \in [Keys -> Rows]
  <2>1. req[h].id \in Nat /\ \A k \in Keys : rows[k] \in Rows
    BY DEF TypeOK, Requests
  <2>2. ASSUME NEW k \in Keys, NEW st \in {"unknown", "accepted"}
        PROVE  [body |-> rows[k].body, status |-> st, id |-> req[h].id] \in Rows
    BY <2>1 DEF Rows
  <2> QED BY <2>2 DEF TypeOK, Saved
<1>3. [rows EXCEPT ![req[h].key] = NoRow] \in [Keys -> Rows]
  BY DEF TypeOK, NoRow, Rows
<1> QED BY <1>1, <1>2, <1>3

\* Every step keeps the types.
LEMMA TypeNext == TypeOK /\ [Next]_vars => TypeOK'
<1> SUFFICES ASSUME TypeOK, [Next]_vars PROVE TypeOK'
  OBVIOUS
<1> USE SendAssumption
<1>1. ASSUME NEW h \in Handlers, HandlerStep(h) PROVE TypeOK'
  <2>1. CASE ChatAccess(h)
    BY <2>1, FinishType DEF ChatAccess, Goto, Refuse, TypeOK, Steps, OwnerSteps
  <2>2. CASE Precheck(h)
    BY <2>2, FinishType DEF Precheck, Goto, Refuse, TypeOK, Steps, OwnerSteps
  <2>3. CASE Reserve(h)
    BY <2>3 DEF Reserve, Inserted, PendingRow, Rows, ChatFor, TypeOK, Steps, OwnerSteps
  <2>4. CASE ReserveFails(h)
    BY <2>4, FinishType, RowsType DEF ReserveFails, Refuse, TypeOK
  <2>5. CASE Duplicate(h)
    BY <2>5, FinishType DEF Duplicate, Confirm, Refuse, TypeOK, Rows, Claims, Steps, OwnerSteps
  <2>6. CASE Limit(h)
    BY <2>6 DEF Limit, Goto, TypeOK, Steps, OwnerSteps
  <2>7. CASE Unreserve(h)
    BY <2>7, FinishType, RowsType DEF Unreserve, Refuse, TypeOK
  <2>8. CASE Audit(h)
    BY <2>8, FinishType DEF Audit, Goto, Refuse, TypeOK, Steps, OwnerSteps
  <2>9. CASE Recheck(h)
    BY <2>9, FinishType DEF Recheck, Goto, Refuse, TypeOK, Steps, OwnerSteps
  <2>10. CASE Dispatch(h)
    <3>1. /\ req[h] \in Requests /\ req[h].key \in Keys /\ req[h].body \in Bodies
          /\ Len(sent) + 1 \in Nat
      BY <2>10 DEF Dispatch, TypeOK
    <3>2. [req[h] EXCEPT !.msg = Len(sent) + 1] \in Requests
      BY <3>1 DEF Requests
    <3>3. req' \in [Handlers -> Requests]
      BY <2>10, <3>2 DEF Dispatch, TypeOK
    <3>4. sent' \in Seq([key : Keys, body : Bodies])
      <4>1. [key |-> req[h].key, body |-> req[h].body] \in [key : Keys, body : Bodies]
        BY <3>1
      <4>2. Append(sent, [key |-> req[h].key, body |-> req[h].body])
                \in Seq([key : Keys, body : Bodies])
        BY <4>1, AppendProperties DEF TypeOK
      <4> QED BY <2>10, <4>2 DEF Dispatch, TypeOK
    <3>5. pc' \in [Handlers -> Steps]
      BY <2>10 DEF Dispatch, Goto, TypeOK, Steps, OwnerSteps
    <3>6. \A g \in Handlers : req'[g].key = req[g].key /\ req'[g].body = req[g].body
      <4>1. req' = req \/ req' = [req EXCEPT ![h] = [req[h] EXCEPT !.msg = Len(sent) + 1]]
        BY <2>10 DEF Dispatch
      <4>2. LET r == [req[h] EXCEPT !.msg = Len(sent) + 1]
            IN  r.key = req[h].key /\ r.body = req[h].body
        BY <3>1 DEF Requests
      <4> QED BY <4>1, <4>2 DEF TypeOK
    <3>7. \A g \in Handlers : pc'[g] # "idle" =>
             req'[g].key \in Keys /\ req'[g].body \in Bodies
      BY <2>10, <3>1, <3>6 DEF Dispatch, Goto, TypeOK
    <3> QED BY <2>10, <3>3, <3>4, <3>5, <3>7 DEF Dispatch, Goto, TypeOK
  <2>11. CASE Answer(h)
    <3>1. req[h] \in Requests /\ req[h].msg \in Nat
      BY DEF TypeOK, Requests
    <3>2. [req[h] EXCEPT !.id = req[h].msg] \in Requests
      BY <3>1 DEF Requests
    <3>3. req' \in [Handlers -> Requests]
      BY <2>11, <3>2 DEF Answer, TypeOK
    <3>4. pc' \in [Handlers -> Steps]
      BY <2>11 DEF Answer, Goto, TypeOK, Steps, OwnerSteps
    <3>5. cooldown' \in BOOLEAN
      BY <2>11 DEF Answer, TypeOK
    <3>6. \A g \in Handlers : pc'[g] # "idle" =>
             req'[g].key \in Keys /\ req'[g].body \in Bodies
      BY <2>11 DEF Answer, Goto, TypeOK, Requests
    <3> QED BY <2>11, <3>3, <3>4, <3>5, <3>6 DEF Answer, Goto, TypeOK
  <2>12. CASE Save(h)
    <3>1. told' \in SUBSET Claims
      BY <2>12 DEF Save, Confirm, Refuse, TypeOK, Requests, Claims
    <3> QED BY <2>12, <3>1, FinishType, RowsType
            DEF Save, Confirm, Refuse, TypeOK
  <2>13. CASE SaveFails(h)
    BY <2>13, FinishType, RowsType DEF SaveFails, Refuse, TypeOK
  <2> QED BY <1>1, <2>1, <2>2, <2>3, <2>4, <2>5, <2>6, <2>7, <2>8, <2>9, <2>10,
             <2>11, <2>12, <2>13 DEF HandlerStep
<1>2. ASSUME NEW h \in Handlers, NEW k \in Keys, NEW b \in Bodies, Receive(h, k, b)
      PROVE  TypeOK'
  BY <1>2 DEF Receive, TypeOK, Requests, Steps
<1>3. ASSUME NEW c \in Chats, NEW v \in BOOLEAN, SetPermission(c, v) PROVE TypeOK'
  BY <1>3 DEF SetPermission, TypeOK
<1>4. CASE Refill
  BY <1>4 DEF Refill, TypeOK
<1>5. CASE CooldownExpires
  BY <1>5 DEF CooldownExpires, TypeOK
<1>6. CASE Crash
  BY <1>6 DEF Crash, TypeOK, NoRequest, Requests, Steps
<1>7. CASE UNCHANGED vars
  BY <1>7 DEF vars, TypeOK
<1> QED BY <1>1, <1>2, <1>3, <1>4, <1>5, <1>6, <1>7 DEF Next

-----------------------------------------------------------------------------
\* The inductive step.

\* A dispatched message is a record of a key and a body.
LEMMA SentType ==
    ASSUME TypeOK
    PROVE  \A i \in DOMAIN sent :
              sent[i].key \in Keys /\ sent[i].body \in Bodies
<1>1. \A i \in 1..Len(sent) : sent[i] \in [key : Keys, body : Bodies]
  BY ElementOfSeq DEF TypeOK
<1>2. DOMAIN sent = 1..Len(sent)
  BY DEF TypeOK
<1> QED BY <1>1, <1>2

\* A handler that moves on without touching table, bucket or Telegram, either
\* before it owns a row or between its reservation and the dispatch.
LEMMA MoveStep ==
    ASSUME IInv, TypeOK', NEW h \in Handlers, NEW step \in Steps,
           Goto(h, step), UNCHANGED <<rows, perm, sent, req>>, pc[h] # "save",
           \/ step \notin OwnerSteps
           \/ pc[h] \in BeforeDispatch /\ step \in BeforeDispatch,
           step = "dispatch" => granted[h]
    PROVE  IInv'
<1> USE DEF IInv, TypeOK, Goto
<1>1. Owned'
  BY DEF Owned, OwnerSteps, BeforeDispatch
<1>2. Exclusive'
  BY DEF Exclusive, OwnerSteps, BeforeDispatch
<1>3. Unsent'
  BY DEF Unsent, OwnerSteps, BeforeDispatch
<1>4. Recorded' /\ WellFormed'
  BY DEF Recorded, WellFormed
<1>5. Tracked'
  BY DEF Tracked, OwnerSteps, BeforeDispatch
<1>6. Noted'
  BY DEF Noted, ChatFor, OwnerSteps, BeforeDispatch
<1>7. RevocationHolds'
  BY DEF RevocationHolds, OwnerSteps, BeforeDispatch
<1>8. AtMostOnceDispatch' /\ AcceptedIsReal'
  BY DEF AtMostOnceDispatch, AcceptedIsReal
<1> QED BY <1>1, <1>2, <1>3, <1>4, <1>5, <1>6, <1>7, <1>8

\* A handler that answers, having changed at most the row of its own key.
LEMMA FinishStep ==
    ASSUME IInv, TypeOK', NEW h \in Handlers, Finish(h),
           UNCHANGED <<perm, sent>>,
           \A k \in Keys : k # req[h].key => rows'[k] = rows[k],
           \/ rows' = rows
           \/ \A g \in Handlers :
                 g # h /\ pc[g] \in OwnerSteps => req[g].key # req[h].key,
           Recorded', WellFormed', AcceptedIsReal'
    PROVE  IInv'
<1> USE DEF IInv, TypeOK, Finish
<1>1. Owned'
  BY DEF Owned, OwnerSteps
<1>2. Exclusive'
  BY DEF Exclusive, OwnerSteps
<1>3. Unsent'
  BY DEF Unsent, BeforeDispatch
<1>4. Tracked'
  BY DEF Tracked, NoRequest
<1>5. Noted'
  BY DEF Noted, ChatFor, OwnerSteps
<1>6. RevocationHolds'
  BY DEF RevocationHolds
<1>7. AtMostOnceDispatch'
  BY DEF AtMostOnceDispatch
<1> QED BY <1>1, <1>2, <1>3, <1>4, <1>5, <1>6, <1>7

\* A refusal that leaves the table as it was.
LEMMA RefuseStep ==
    ASSUME IInv, TypeOK', NEW h \in Handlers, Refuse(h),
           UNCHANGED <<rows, perm, sent>>
    PROVE  IInv'
<1>1. Recorded' /\ WellFormed' /\ AcceptedIsReal'
  BY DEF IInv, Refuse, Recorded, WellFormed, AcceptedIsReal
<1> QED BY <1>1, FinishStep DEF Refuse

\* The INSERT takes a key that no handler owns and no message carries.
LEMMA InsertedFacts ==
    ASSUME IInv, NEW h \in Handlers, pc[h] = "reserve"
    PROVE  /\ req[h].key \in Keys /\ req[h].body \in Bodies
           /\ \A k \in Keys : k # req[h].key => Inserted(h)[k] = rows[k]
           /\ rows[req[h].key] # NoRow => Inserted(h) = rows
           /\ rows[req[h].key] = NoRow =>
                 /\ Inserted(h)[req[h].key] = PendingRow(req[h].body)
                 /\ \A g \in Handlers :
                       pc[g] \in OwnerSteps => req[g].key # req[h].key
                 /\ \A i \in DOMAIN sent : sent[i].key # req[h].key
<1>1. /\ req[h].key \in Keys /\ req[h].body \in Bodies
      /\ \A k \in Keys : k # req[h].key => Inserted(h)[k] = rows[k]
      /\ rows[req[h].key] # NoRow => Inserted(h) = rows
      /\ rows[req[h].key] = NoRow =>
            Inserted(h)[req[h].key] = PendingRow(req[h].body)
  BY DEF IInv, TypeOK, Inserted
<1>2. \A b : PendingRow(b) # NoRow
  BY DEF PendingRow, NoRow
<1> QED BY <1>1, <1>2 DEF IInv, Owned, Recorded

\* Whether or not the INSERT took effect, the table stays truthful.
LEMMA InsertedKeeps ==
    ASSUME IInv, NEW h \in Handlers, pc[h] = "reserve", TypeOK',
           rows' \in {rows, Inserted(h)}, UNCHANGED <<sent, told>>
    PROVE  Recorded' /\ WellFormed' /\ AcceptedIsReal'
<1>1. CASE rows' = rows
  BY <1>1 DEF IInv, Recorded, WellFormed, AcceptedIsReal
<1>2. CASE rows' = Inserted(h) /\ rows[req[h].key] = NoRow
  <2> DEFINE k == req[h].key
             row == PendingRow(req[h].body)
  <2>1. /\ k \in Keys /\ rows'[k] = row
        /\ \A x \in Keys : x # k => rows'[x] = rows[x]
        /\ \A i \in DOMAIN sent : sent[i].key # k
    BY <1>2, InsertedFacts
  <2>2. row.body \in Bodies /\ row.status = "pending"
    BY <1>2, InsertedFacts DEF PendingRow
  <2> HIDE DEF row
  <2>3. Recorded'
    BY <2>1, SentType DEF IInv, Recorded
  <2>4. WellFormed'
    BY <2>1, <2>2 DEF IInv, WellFormed
  <2>5. AcceptedIsReal'
    BY <2>1, <2>2 DEF IInv, AcceptedIsReal
  <2> QED BY <2>3, <2>4, <2>5
<1> QED BY <1>1, <1>2, InsertedFacts

\* The INSERT makes its handler the owner of a key nobody else holds and nobody
\* has sent, or finds the key taken.
LEMMA ReserveStep ==
    ASSUME IInv, NEW h \in Handlers, Reserve(h), TypeOK'
    PROVE  IInv'
<1>1. pc[h] = "reserve" /\ rows' = Inserted(h) /\ UNCHANGED <<sent, told>>
  BY DEF Reserve
<1>2. Recorded' /\ WellFormed' /\ AcceptedIsReal'
  BY <1>1, InsertedKeeps
<1>3. Owned'
  BY <1>1, InsertedFacts DEF IInv, TypeOK, Reserve, Owned, OwnerSteps
<1>4. Exclusive'
  BY <1>1, InsertedFacts DEF IInv, TypeOK, Reserve, Exclusive, OwnerSteps
<1>5. Unsent'
  BY <1>1, InsertedFacts DEF IInv, TypeOK, Reserve, Unsent, BeforeDispatch
<1>6. Tracked'
  BY DEF IInv, TypeOK, Reserve, Tracked
<1>7. Noted'
  BY DEF IInv, TypeOK, Reserve, Noted, OwnerSteps, ChatFor
<1>8. RevocationHolds'
  BY DEF IInv, TypeOK, Reserve, RevocationHolds
<1>9. AtMostOnceDispatch'
  BY <1>1 DEF IInv, AtMostOnceDispatch
<1> QED BY <1>2, <1>3, <1>4, <1>5, <1>6, <1>7, <1>8, <1>9 DEF IInv

\* A failed INSERT may leave a row without an owner, which is never dispatched.
LEMMA ReserveFailsStep ==
    ASSUME IInv, NEW h \in Handlers, ReserveFails(h), TypeOK'
    PROVE  IInv'
<1>1. /\ pc[h] = "reserve" /\ rows' \in {rows, Inserted(h)} /\ Finish(h)
      /\ UNCHANGED <<perm, sent, told>>
  BY DEF ReserveFails, Refuse
<1>2. Recorded' /\ WellFormed' /\ AcceptedIsReal'
  BY <1>1, InsertedKeeps
<1> QED BY <1>1, <1>2, InsertedFacts, FinishStep

\* A handler that gives its reservation up has sent nothing.
LEMMA UnreserveStep ==
    ASSUME IInv, NEW h \in Handlers, Unreserve(h), TypeOK'
    PROVE  IInv'
<1> DEFINE k == req[h].key
<1>1. /\ k \in Keys
      /\ \A x \in Keys : x # k => rows'[x] = rows[x]
      /\ rows'[k] \in {rows[k], NoRow}
  BY DEF IInv, TypeOK, Unreserve
<1>2. /\ \A g \in Handlers : g # h /\ pc[g] \in OwnerSteps => req[g].key # k
      /\ \A i \in DOMAIN sent : sent[i].key # k
  BY DEF IInv, Unreserve, Exclusive, Unsent, OwnerSteps, BeforeDispatch
<1>3. Finish(h) /\ UNCHANGED <<perm, sent, told>>
  BY DEF Unreserve, Refuse
<1>4. Recorded'
  BY <1>1, <1>2, <1>3, SentType DEF IInv, Recorded
<1>5. WellFormed'
  BY <1>1 DEF IInv, WellFormed
<1>6. AcceptedIsReal'
  <2>1. NoRow.status # "accepted"
    BY DEF NoRow
  <2> QED BY <1>1, <1>3, <2>1 DEF IInv, AcceptedIsReal
<1> QED BY <1>1, <1>2, <1>3, <1>4, <1>5, <1>6, FinishStep

\* The UPDATE touches the handler's own pending row and keeps its body.
LEMMA SavedFacts ==
    ASSUME IInv, NEW h \in Handlers, pc[h] = "save"
    PROVE  LET row == Saved(h)[req[h].key] IN
           /\ req[h].key \in Keys
           /\ \A k \in Keys : k # req[h].key => Saved(h)[k] = rows[k]
           /\ row # NoRow
           /\ row.body \in Bodies /\ row.body = req[h].body
           /\ row.body = rows[req[h].key].body
           /\ row.id = req[h].id
           /\ row.status = "accepted" => req[h].id # 0
           /\ \A g \in Handlers :
                 g # h /\ pc[g] \in OwnerSteps => req[g].key # req[h].key
<1> DEFINE new == [body |-> req[h].body, id |-> req[h].id,
                   status |-> IF req[h].id = 0 THEN "unknown" ELSE "accepted"]
<1>1. /\ rows[req[h].key] = PendingRow(req[h].body)
      /\ req[h].key \in Keys /\ req[h].body \in Bodies
  BY DEF IInv, TypeOK, Owned, OwnerSteps
<1>2. /\ PendingRow(req[h].body) # NoRow
      /\ PendingRow(req[h].body).body = req[h].body
  BY DEF PendingRow, NoRow
<1>3. /\ \A k \in Keys : k # req[h].key => Saved(h)[k] = rows[k]
      /\ Saved(h)[req[h].key] = new
  BY <1>1, <1>2 DEF IInv, TypeOK, Saved
<1>4. new # NoRow
  BY DEF NoRow
<1>5. new.body = req[h].body /\ new.id = req[h].id
      /\ (new.status = "accepted" => req[h].id # 0)
  OBVIOUS
<1>6. \A g \in Handlers : g # h /\ pc[g] \in OwnerSteps => req[g].key # req[h].key
  BY DEF IInv, Exclusive, OwnerSteps
<1> HIDE DEF new
<1> QED BY <1>1, <1>2, <1>3, <1>4, <1>5, <1>6

\* An UPDATE that was applied or not, answered with the message id or not.
LEMMA SavedStep ==
    ASSUME IInv, NEW h \in Handlers, TypeOK', pc[h] = "save",
           rows' \in {rows, Saved(h)},
           Refuse(h) \/ (req[h].id # 0 /\ Confirm(h, req[h].id)),
           UNCHANGED <<perm, sent>>
    PROVE  IInv'
<1> DEFINE k == req[h].key
<1>1. /\ k \in Keys
      /\ \A x \in Keys : x # k => rows'[x] = rows[x]
      /\ \A g \in Handlers : g # h /\ pc[g] \in OwnerSteps => req[g].key # k
  BY SavedFacts
<1>2. Recorded'
  BY <1>1, SavedFacts, SentType DEF IInv, Recorded
<1>3. WellFormed'
  BY <1>1, SavedFacts DEF IInv, WellFormed
<1>4. req[h].id # 0 => /\ req[h].id \in DOMAIN sent
                       /\ sent[req[h].id] = [key |-> k, body |-> req[h].body]
  BY DEF IInv, Tracked, Message
<1>5. ASSUME NEW x \in Keys, rows'[x].status = "accepted"
      PROVE  /\ rows'[x].id \in DOMAIN sent
             /\ sent[rows'[x].id] = [key |-> x, body |-> rows'[x].body]
  BY <1>1, <1>4, <1>5, SavedFacts DEF IInv, AcceptedIsReal
<1>6. ASSUME NEW c \in told'
      PROVE  /\ c.id \in DOMAIN sent
             /\ sent[c.id] = [key |-> c.key, body |-> c.body]
  BY <1>4, <1>6 DEF IInv, AcceptedIsReal, Refuse, Confirm
<1>7. AcceptedIsReal'
  BY <1>5, <1>6 DEF AcceptedIsReal
<1>8. Finish(h)
  BY DEF Refuse, Confirm
<1> QED BY <1>1, <1>2, <1>3, <1>7, <1>8, FinishStep

\* An answer from the table repeats what the owner stored.
LEMMA DuplicateStep ==
    ASSUME IInv, NEW h \in Handlers, Duplicate(h), TypeOK'
    PROVE  IInv'
<1> DEFINE row == rows[req[h].key]
<1>1. pc[h] = "duplicate" /\ UNCHANGED <<rows, perm, sent>>
  BY DEF Duplicate
<1>2. CASE Refuse(h)
  BY <1>1, <1>2, RefuseStep
<1>3. CASE row.body = req[h].body /\ row.status = "accepted" /\ Confirm(h, row.id)
  <2>1. req[h].key \in Keys
    BY <1>1 DEF IInv, TypeOK
  <2>2. /\ row.id \in DOMAIN sent
        /\ sent[row.id] = [key |-> req[h].key, body |-> req[h].body]
    BY <1>3, <2>1 DEF IInv, AcceptedIsReal
  <2>3. AcceptedIsReal'
    BY <1>1, <1>3, <2>2 DEF IInv, AcceptedIsReal, Confirm
  <2>4. Recorded' /\ WellFormed'
    BY <1>1 DEF IInv, Recorded, WellFormed
  <2> QED BY <1>1, <1>3, <2>3, <2>4, FinishStep DEF Confirm
<1> QED BY <1>2, <1>3 DEF Duplicate

\* The dispatch is the first use of the key, by the only handler that owns it.
LEMMA DispatchStep ==
    ASSUME IInv, NEW h \in Handlers, Dispatch(h), TypeOK'
    PROVE  IInv'
<1> DEFINE n == Len(sent) + 1
           m == Message(req[h].key, req[h].body)
<1>1. /\ pc[h] = "dispatch" /\ UNCHANGED <<rows, perm, told, granted>>
      /\ \A g \in Handlers : g # h => pc'[g] = pc[g] /\ req'[g] = req[g]
  BY DEF IInv, TypeOK, Dispatch, Goto
<1>2. CASE pc' = [pc EXCEPT ![h] = "save"] /\ UNCHANGED <<sent, req>>
  <2> USE <1>1, <1>2 DEF IInv, TypeOK
  <2>1. Owned' /\ Exclusive'
    BY DEF Owned, Exclusive, OwnerSteps
  <2>2. Unsent'
    BY DEF Unsent, BeforeDispatch
  <2>3. Recorded' /\ WellFormed' /\ AtMostOnceDispatch' /\ AcceptedIsReal'
    BY DEF Recorded, WellFormed, AtMostOnceDispatch, AcceptedIsReal
  <2>4. Tracked'
    BY DEF Tracked
  <2>5. Noted'
    BY DEF Noted, ChatFor, OwnerSteps
  <2>6. RevocationHolds'
    BY DEF RevocationHolds
  <2> QED BY <2>1, <2>2, <2>3, <2>4, <2>5, <2>6
<1>3. CASE /\ pc' = [pc EXCEPT ![h] = "await"]
           /\ sent' = Append(sent, m)
           /\ req' = [req EXCEPT ![h].msg = n]
  <2>1. /\ req[h] \in Requests /\ req[h].key \in Keys /\ req[h].body \in Bodies
        /\ \A g \in Handlers : req[g].key \in Keys \cup {None}
    BY <1>1 DEF IInv, TypeOK, Requests
  <2>2. /\ req'[h].key = req[h].key /\ req'[h].body = req[h].body
        /\ req'[h].id = req[h].id /\ req'[h].msg = n
    BY <1>3, <2>1 DEF IInv, TypeOK, Requests
  <2>3. m \in [key : Keys, body : Bodies]
    BY <2>1 DEF Message
  <2>4. /\ m.key = req[h].key /\ m.body = req[h].body
    BY DEF Message
  <2>5. /\ DOMAIN sent' = (DOMAIN sent) \cup {n}
        /\ n \notin DOMAIN sent
        /\ sent'[n] = m
        /\ \A i \in DOMAIN sent : sent'[i] = sent[i]
    <3> HIDE DEF m
    <3>1. sent \in Seq([key : Keys, body : Bodies])
      BY DEF IInv, TypeOK
    <3> QED BY <1>3, <2>3, <3>1, AppendProperties
  <2>6. pc' = [pc EXCEPT ![h] = "await"]
    BY <1>3
  <2> HIDE DEF n, m
  <2>7. /\ \A i \in DOMAIN sent : sent[i].key # req[h].key
        /\ rows[req[h].key] = PendingRow(req[h].body)
        /\ \A g \in Handlers : g # h /\ pc[g] \in OwnerSteps => req[g].key # req[h].key
        /\ granted[h]
    BY <1>1 DEF IInv, Unsent, Owned, Exclusive, RevocationHolds, OwnerSteps,
       BeforeDispatch
  <2>8. Owned'
    BY <1>1, <2>2, <2>6, <2>7 DEF IInv, TypeOK, Owned, OwnerSteps
  <2>9. Exclusive'
    BY <1>1, <2>2, <2>6, <2>7 DEF IInv, TypeOK, Exclusive, OwnerSteps
  <2>10. Unsent'
    BY <1>1, <2>4, <2>5, <2>6, <2>7
       DEF IInv, TypeOK, Unsent, OwnerSteps, BeforeDispatch
  <2>11. Recorded'
    <3>1. PendingRow(req[h].body) # NoRow /\ PendingRow(req[h].body).body = req[h].body
      BY DEF PendingRow, NoRow
    <3> QED BY <1>1, <2>4, <2>5, <2>7, <3>1 DEF IInv, Recorded
  <2>12. WellFormed'
    BY <1>1 DEF IInv, WellFormed
  <2>13. Tracked'
    <3>1. sent'[n] = Message(req'[h].key, req'[h].body)
      BY <2>2, <2>5 DEF m
    <3> QED BY <1>1, <2>2, <2>5, <2>6, <3>1 DEF IInv, TypeOK, Tracked
  <2>14. Noted'
    BY <1>1, <2>2, <2>6, <2>7 DEF IInv, TypeOK, Noted, ChatFor, OwnerSteps
  <2>15. RevocationHolds'
    BY <1>1, <2>6, <2>7 DEF IInv, TypeOK, RevocationHolds
  <2>16. AtMostOnceDispatch'
    BY <2>4, <2>5, <2>7 DEF IInv, AtMostOnceDispatch
  <2>17. AcceptedIsReal'
    BY <1>1, <2>5 DEF IInv, AcceptedIsReal
  <2> QED BY <2>8, <2>9, <2>10, <2>11, <2>12, <2>13, <2>14, <2>15, <2>16, <2>17
          DEF IInv
<1> QED BY <1>2, <1>3 DEF Dispatch, Goto, Message

\* TDLib's answer tells the handler the id of its own message, or nothing.
LEMMA AnswerStep ==
    ASSUME IInv, NEW h \in Handlers, Answer(h), TypeOK'
    PROVE  IInv'
<1>1. /\ pc[h] = "await" /\ pc' = [pc EXCEPT ![h] = "save"]
      /\ UNCHANGED <<rows, perm, sent, told, granted>>
      /\ \A g \in Handlers : g # h => req'[g] = req[g]
  BY DEF IInv, TypeOK, Answer, Goto
<1>2. /\ req'[h].key = req[h].key /\ req'[h].body = req[h].body
      /\ req'[h].id \in {req[h].id, req[h].msg}
  <2>1. req[h] \in Requests
    BY DEF IInv, TypeOK
  <2> QED BY <2>1 DEF IInv, TypeOK, Answer, Requests
<1>3. Owned' /\ Exclusive'
  BY <1>1, <1>2 DEF IInv, TypeOK, Owned, Exclusive, OwnerSteps
<1>4. Unsent'
  BY <1>1, <1>2 DEF IInv, TypeOK, Unsent, BeforeDispatch
<1>5. Recorded' /\ WellFormed'
  BY <1>1 DEF IInv, Recorded, WellFormed
<1>6. Tracked'
  BY <1>1, <1>2 DEF IInv, TypeOK, Tracked
<1>7. Noted'
  BY <1>1, <1>2 DEF IInv, TypeOK, Noted, ChatFor, OwnerSteps
<1>8. RevocationHolds'
  BY <1>1 DEF IInv, TypeOK, RevocationHolds
<1>9. AtMostOnceDispatch' /\ AcceptedIsReal'
  BY <1>1 DEF IInv, AtMostOnceDispatch, AcceptedIsReal
<1> QED BY <1>3, <1>4, <1>5, <1>6, <1>7, <1>8, <1>9 DEF IInv

\* Every step of a handler keeps IInv.
LEMMA HandlerInductive ==
    ASSUME IInv, NEW h \in Handlers, HandlerStep(h), TypeOK'
    PROVE  IInv'
<1>1. CASE ChatAccess(h)
  BY <1>1, MoveStep, RefuseStep DEF ChatAccess, Steps, OwnerSteps
<1>2. CASE Precheck(h)
  BY <1>2, MoveStep, RefuseStep DEF Precheck, Steps, OwnerSteps
<1>3. CASE Reserve(h) \/ ReserveFails(h)
  BY <1>3, ReserveStep, ReserveFailsStep
<1>4. CASE Duplicate(h)
  BY <1>4, DuplicateStep
<1>5. CASE Limit(h)
  BY <1>5, MoveStep DEF Limit, Steps, OwnerSteps, BeforeDispatch
<1>6. CASE Unreserve(h)
  BY <1>6, UnreserveStep
<1>7. CASE Audit(h)
  BY <1>7, MoveStep, RefuseStep DEF Audit, Steps, OwnerSteps, BeforeDispatch
<1>8. CASE Recheck(h)
  <2>1. perm[ChatFor(h)] => granted[h]
    BY <1>8 DEF IInv, Noted, Recheck, OwnerSteps
  <2> QED BY <1>8, <2>1, MoveStep, RefuseStep
          DEF Recheck, Steps, OwnerSteps, BeforeDispatch
<1>9. CASE Dispatch(h)
  BY <1>9, DispatchStep
<1>10. CASE Answer(h)
  BY <1>10, AnswerStep
<1>11. CASE Save(h)
  BY <1>11, SavedStep DEF Save
<1>12. CASE SaveFails(h)
  BY <1>12, SavedStep DEF SaveFails
<1> QED BY <1>1, <1>2, <1>3, <1>4, <1>5, <1>6, <1>7, <1>8, <1>9, <1>10, <1>11,
           <1>12 DEF HandlerStep

\* A new request owns nothing yet.
LEMMA ReceiveStep ==
    ASSUME IInv, TypeOK', NEW h \in Handlers, NEW k \in Keys, NEW b \in Bodies,
           Receive(h, k, b)
    PROVE  IInv'
<1> USE DEF IInv, TypeOK, Receive
<1>1. Owned'
  BY DEF Owned, OwnerSteps
<1>2. Exclusive'
  BY DEF Exclusive, OwnerSteps
<1>3. Unsent'
  BY DEF Unsent, BeforeDispatch
<1>4. Recorded' /\ WellFormed' /\ AtMostOnceDispatch' /\ AcceptedIsReal'
  BY DEF Recorded, WellFormed, AtMostOnceDispatch, AcceptedIsReal
<1>5. Tracked'
  BY DEF Tracked
<1>6. Noted'
  BY DEF Noted, ChatFor, OwnerSteps
<1>7. RevocationHolds'
  BY DEF RevocationHolds
<1> QED BY <1>1, <1>2, <1>3, <1>4, <1>5, <1>6, <1>7

\* A change of permission touches neither rows nor messages, and a grant is
\* noted for the handlers it concerns.
LEMMA SetPermissionStep ==
    ASSUME IInv, TypeOK', NEW c \in Chats, NEW v \in BOOLEAN, SetPermission(c, v)
    PROVE  IInv'
<1>1. UNCHANGED <<rows, sent, pc, req, told>>
  BY DEF SetPermission
<1>2. Owned' /\ Exclusive' /\ Unsent' /\ Recorded' /\ Tracked' /\ WellFormed'
  BY <1>1 DEF IInv, Owned, Exclusive, Unsent, Recorded, Tracked, WellFormed
<1>3. AtMostOnceDispatch' /\ AcceptedIsReal'
  BY <1>1 DEF IInv, AtMostOnceDispatch, AcceptedIsReal
<1>4. Noted'
  BY DEF IInv, TypeOK, SetPermission, Noted, ChatFor
<1>5. RevocationHolds'
  BY DEF IInv, TypeOK, SetPermission, RevocationHolds
<1> QED BY <1>2, <1>3, <1>4, <1>5 DEF IInv

\* After a crash no handler owns a row, and rows and messages are as they were.
LEMMA CrashStep ==
    ASSUME IInv, TypeOK', Crash
    PROVE  IInv'
<1> USE DEF IInv, TypeOK, Crash
<1>1. Owned' /\ Exclusive' /\ Unsent' /\ Noted' /\ RevocationHolds'
  BY DEF Owned, Exclusive, Unsent, Noted, RevocationHolds, OwnerSteps,
     BeforeDispatch
<1>2. Tracked'
  BY DEF Tracked, NoRequest
<1>3. Recorded' /\ WellFormed' /\ AtMostOnceDispatch' /\ AcceptedIsReal'
  BY DEF Recorded, WellFormed, AtMostOnceDispatch, AcceptedIsReal
<1> QED BY <1>1, <1>2, <1>3

\* Time passing, and stuttering, leave all but the bucket and cooldown alone.
LEMMA IdleStep ==
    ASSUME IInv, TypeOK', UNCHANGED <<rows, perm, sent, pc, req, told, granted>>
    PROVE  IInv'
<1>1. Owned' /\ Exclusive' /\ Unsent' /\ Recorded' /\ Tracked' /\ WellFormed'
  BY DEF IInv, Owned, Exclusive, Unsent, Recorded, Tracked, WellFormed
<1>2. Noted' /\ RevocationHolds' /\ AtMostOnceDispatch' /\ AcceptedIsReal'
  BY DEF IInv, Noted, ChatFor, RevocationHolds, AtMostOnceDispatch, AcceptedIsReal
<1> QED BY <1>1, <1>2 DEF IInv

\* IInv is inductive.
THEOREM Inductive == IInv /\ [Next]_vars => IInv'
<1> SUFFICES ASSUME IInv, [Next]_vars PROVE IInv'
  OBVIOUS
<1>1. TypeOK'
  BY TypeNext DEF IInv
<1> QED BY <1>1, HandlerInductive, ReceiveStep, SetPermissionStep, CrashStep, IdleStep
        DEF Next, Refill, CooldownExpires, vars

\* IInv holds before the first request.
THEOREM InitIInv == Init => IInv
<1> SUFFICES ASSUME Init PROVE IInv
  OBVIOUS
<1>1. TypeOK
  BY TypeInit
<1>2. Owned /\ Exclusive /\ Unsent /\ Noted /\ RevocationHolds
  BY DEF Init, Owned, Exclusive, Unsent, Noted, RevocationHolds, OwnerSteps,
     BeforeDispatch
<1>3. Recorded /\ AtMostOnceDispatch
  BY DEF Init, Recorded, AtMostOnceDispatch
<1>4. Tracked
  BY DEF Init, Tracked, NoRequest
<1>5. WellFormed
  BY DEF Init, WellFormed
<1>6. AcceptedIsReal
  BY DEF Init, AcceptedIsReal, NoRow
<1> QED BY <1>1, <1>2, <1>3, <1>4, <1>5, <1>6 DEF IInv

-----------------------------------------------------------------------------
\* Every variable keeps its type in every behaviour of send.go.
THEOREM TypeCorrect == Spec => []TypeOK
<1>1. Init => IInv
  BY InitIInv
<1>2. IInv /\ [Next]_vars => IInv'
  BY Inductive
<1>3. IInv => TypeOK
  BY DEF IInv
<1> QED BY <1>1, <1>2, <1>3, PTL DEF Spec

\* For any number of racing handlers, request ids and crashes, a request_id
\* reaches TDLib at most once.
THEOREM AtMostOnce == Spec => []AtMostOnceDispatch
<1>1. IInv => AtMostOnceDispatch
  BY DEF IInv
<1> QED BY InitIInv, Inductive, <1>1, PTL DEF Spec

\* Every message id that send.go stores or answers is that of the message sent
\* for that request_id with that body.
THEOREM AcceptedTruthful == Spec => []AcceptedIsReal
<1>1. IInv => AcceptedIsReal
  BY DEF IInv
<1> QED BY InitIInv, Inductive, <1>1, PTL DEF Spec

\* Nothing is dispatched to a chat whose permission was withheld all the time
\* since the reservation.
THEOREM RevocationRespected == Spec => []RevocationHolds
<1>1. IInv => RevocationHolds
  BY DEF IInv
<1> QED BY InitIInv, Inductive, <1>1, PTL DEF Spec

\* The only statements that change a row are run by the handler that inserted
\* it, while it is pending.
LEMMA OwnerWrites ==
    ASSUME IInv, [Next]_vars
    PROVE  \/ rows' = rows
           \/ \E h \in Handlers : pc[h] = "reserve" /\ rows' = Inserted(h)
           \/ \E h \in Handlers : pc[h] = "save" /\ rows' = Saved(h)
           \/ \E h \in Handlers :
                 pc[h] = "unreserve" /\ rows' = [rows EXCEPT ![req[h].key] = NoRow]
<1>1. ASSUME NEW h \in Handlers, HandlerStep(h)
      PROVE  \/ rows' = rows
             \/ pc[h] = "reserve" /\ rows' = Inserted(h)
             \/ pc[h] = "save" /\ rows' = Saved(h)
             \/ pc[h] = "unreserve" /\ rows' = [rows EXCEPT ![req[h].key] = NoRow]
  BY <1>1 DEF HandlerStep, ChatAccess, Precheck, Reserve, ReserveFails, Duplicate,
     Limit, Unreserve, Audit, Recheck, Dispatch, Answer, Save, SaveFails
<1>2. CASE \E h \in Handlers : HandlerStep(h)
  BY <1>1, <1>2
<1>3. CASE ~ \E h \in Handlers : HandlerStep(h)
  BY <1>3 DEF Next, Receive, SetPermission, Refill, CooldownExpires, Crash, vars
<1> QED BY <1>2, <1>3

\* Once dispatched, a request_id keeps its row and body, and a final status is
\* never overwritten: what a retry is answered from does not go away.
THEOREM Durable == Spec => ReservationIsDurable
<1>1. IInv /\ [Next]_vars => [KeepsReservation]_vars
  <2> SUFFICES ASSUME IInv, [Next]_vars, NEW k \in Keys
               PROVE  /\ (\E i \in DOMAIN sent : sent[i].key = k) =>
                            rows'[k] # NoRow /\ rows'[k].body = rows[k].body
                      /\ rows[k].status \in {"accepted", "unknown"} =>
                            rows'[k] = rows[k]
    BY DEF KeepsReservation
  <2>1. (\E i \in DOMAIN sent : sent[i].key = k) => rows[k] # NoRow
    BY DEF IInv, Recorded
  <2>2. NoRow.status = "none" /\ \A b : PendingRow(b).status = "pending"
    BY DEF NoRow, PendingRow
  <2>3. CASE rows' = rows
    BY <2>1, <2>3
  <2>4. ASSUME NEW h \in Handlers, pc[h] = "reserve", rows' = Inserted(h)
        PROVE  rows'[k] = rows[k] \/ rows[k] = NoRow
    BY <2>4, InsertedFacts
  <2>5. ASSUME NEW h \in Handlers, pc[h] = "save", rows' = Saved(h)
        PROVE  \/ rows'[k] = rows[k]
               \/ /\ rows[k] = PendingRow(req[h].body)
                  /\ rows'[k] # NoRow /\ rows'[k].body = rows[k].body
    <3>1. rows[req[h].key] = PendingRow(req[h].body)
      BY <2>5 DEF IInv, Owned, OwnerSteps
    <3> QED BY <2>5, <3>1, SavedFacts
  <2>6. ASSUME NEW h \in Handlers, pc[h] = "unreserve",
               rows' = [rows EXCEPT ![req[h].key] = NoRow]
        PROVE  \/ rows'[k] = rows[k]
               \/ /\ rows[k] = PendingRow(req[h].body)
                  /\ ~ \E i \in DOMAIN sent : sent[i].key = k
    <3>1. /\ rows[req[h].key] = PendingRow(req[h].body)
          /\ \A i \in DOMAIN sent : sent[i].key # req[h].key
      BY <2>6 DEF IInv, Owned, Unsent, OwnerSteps, BeforeDispatch
    <3> QED BY <2>6, <3>1 DEF IInv, TypeOK
  <2> QED BY <2>1, <2>2, <2>3, <2>4, <2>5, <2>6, OwnerWrites
<1> QED BY InitIInv, Inductive, <1>1, PTL DEF Spec, ReservationIsDurable
=============================================================================
