--------------------------- MODULE SessionsProofs ---------------------------
(***************************************************************************)
(* TDLib sessions from both sides.  First the client of a session          *)
(* (TdlibRpc), for any set of calls and any number of updates and          *)
(* messages.  Then the browser logins that open and close sessions         *)
(* (WebLogin), for any number of browsers, requests and attempts: a        *)
(* request deletes the map entry of its own attempt only (KeyFacts),       *)
(* because no attempt expires while a request works on it.                 *)
(***************************************************************************)
EXTENDS MCSessions, FiniteSetTheorems, TLAPS

\* The message at hand is what the receiver's step needs.
Handled ==
    /\ rx \in {"take", "deliver"} => msg \in Answers
    /\ rx = "update" => msg \in Updates

\* Whoever is about to use the native client holds r.mu, before r.stop.
Guarded ==
    /\ \A c \in Calls : pc[c] = "send" => mu = c /\ ~stop
    /\ rx \in {"destroy", "finish", "done"} => stop

\* Requests are numbered apart.
Numbered ==
    /\ \A c \in Calls : pc[c] # "new" => id[c] <= seq
    /\ \A c, d \in Calls :
        pc[c] # "new" /\ pc[d] # "new" /\ id[c] = id[d] => c = d

\* What TDLib holds or has answered was sent.
Asked ==
    /\ \A c \in asked : pc[c] \notin {"new", "send"} /\ c \notin served
    /\ \A c \in served : pc[c] \notin {"new", "send"}

\* An answer names the call and the number its request had.
Genuine(m) == m.kind = "answer" => m.call \in served /\ m.id = id[m.call]
Traced ==
    /\ \A i \in 1..Len(outq) : Genuine(outq[i])
    /\ rx \in {"take", "deliver"} => Genuine(msg)
    /\ rx = "deliver" => msg.call = target
    /\ \A c \in Calls : chan[c] # NoMessage => chan[c].call = c /\ c \in served
    /\ \A c \in Calls : pc[c] \in {"answered", "ok"} => c \in served

Inv == TypeOK /\ Handled /\ Guarded /\ Numbered /\ Asked /\ NoStaleEntry /\ Traced

-----------------------------------------------------------------------------
LEMMA Kinds ==
    ASSUME NEW m \in Messages
    PROVE  /\ m.kind = "answer" => m \in Answers
           /\ m.kind # "answer" => m \in Updates
           /\ m \in Answers => /\ m.kind = "answer" /\ m.call \in Calls
                               /\ m.id \in Nat /\ m.seen \in Nat
           /\ m \in Updates => m.kind # "answer"
           /\ m \in Updates /\ m.kind = "auth" => m.state \in AuthStates
BY DEF Messages, Answers, Updates

LEMMA NotMessage == NoMessage \notin Messages
BY DEF Messages, Answers, Updates, NoMessage

LEMMA InitInv ==
    Init => Inv
<1> SUFFICES ASSUME Init PROVE Inv
  OBVIOUS
<1> USE DEF Init
<1>1. TypeOK
  <2>1. stop \in BOOLEAN /\ cancelled \in BOOLEAN
    BY Zenon
  <2>2. 0 \in 0..MaxUpdates
    BY RpcAssumption
  <2>3. <<>> \in Seq(Messages)
    OBVIOUS
  <2> QED BY <2>1, <2>2, <2>3 DEF TypeOK, Steps, AuthStates
<1>2. Handled /\ Guarded /\ Numbered /\ Asked
  BY DEF Handled, Guarded, Numbered, Asked
<1>3. NoStaleEntry /\ Traced
  BY DEF NoStaleEntry, Traced
<1> QED BY <1>1, <1>2, <1>3 DEF Inv

-----------------------------------------------------------------------------
(* Types.                                                                  *)

LEMMA TypeStep ==
    ASSUME TypeOK, Handled, [Next]_vars
    PROVE  TypeOK' /\ Handled'
<1> USE DEF callVars, rxVars, sessionVars, cacheVars, tdVars
<1>0. None \notin Calls /\ MaxUpdates \in Nat
  BY RpcAssumption
<1>1. CASE UNCHANGED vars
  BY <1>1 DEF vars, TypeOK, Handled
<1>2. ASSUME NEW c \in Calls, Caller(c) PROVE TypeOK' /\ Handled'
  <2>1. seq' \in Nat /\ id' \in [Calls -> Nat]
    BY <1>2 DEF Caller, Enter, NextId, TypeOK
  <2>2. CASE stop
    BY <2>1, <2>2, <1>0, <1>2 DEF Caller, Enter, TypeOK, Steps, Handled
  <2>3. CASE ~stop
    <3>1. pending' \in SUBSET (Nat \X Calls)
      BY <2>3, <1>2 DEF Caller, Enter, NextId, TypeOK
    <3>2. pc' \in [Calls -> Steps] /\ pc'[c] = "send" /\ mu' = c
      BY <2>3, <1>2 DEF Caller, Enter, TypeOK, Steps
    <3> QED BY <2>1, <3>1, <3>2, <1>0, <1>2 DEF Caller, Enter, TypeOK, Handled
  <2> QED BY <2>2, <2>3
<1>3. ASSUME NEW c \in Calls, Send(c) PROVE TypeOK' /\ Handled'
  BY <1>0, <1>3 DEF Send, TypeOK, Steps, Handled
<1>4. ASSUME NEW c \in Calls, Await(c) \/ Timeout(c) PROVE TypeOK' /\ Handled'
  <2>1. CASE Await(c)
    BY <1>0, <2>1 DEF Await, TypeOK, Steps, Handled
  <2>2. CASE Timeout(c)
    BY <1>0, <2>2 DEF Timeout, TypeOK, Steps, Handled
  <2> QED BY <1>4, <2>1, <2>2
<1>5. ASSUME NEW c \in Calls, Cleanup(c) PROVE TypeOK' /\ Handled'
  BY <1>0, <1>5 DEF Cleanup, TypeOK, Steps, Handled
<1>6. CASE Check \/ Destroy \/ Finish
  BY <1>6 DEF Check, Destroy, Finish, TypeOK, Handled
<1>7. CASE Receive
  <2>1. CASE outq = <<>>
    BY <2>1, <1>7 DEF Receive, TypeOK, Handled
  <2>2. CASE outq # <<>>
    <3>1. outq \in Seq(Messages)
      BY DEF TypeOK
    <3>2. Head(outq) \in Messages /\ Tail(outq) \in Seq(Messages)
      BY <3>1, <2>2
    <3>3. msg' = Head(outq) /\ outq' = Tail(outq)
          /\ rx' = IF Head(outq).kind = "answer" THEN "take" ELSE "update"
      BY <1>7, <2>2 DEF Receive
    <3>4. Handled'
      BY <3>2, <3>3, Kinds DEF Handled
    <3> QED BY <3>2, <3>3, <3>4, <1>7 DEF Receive, TypeOK
  <2> QED BY <2>1, <2>2
<1>8. CASE Take
  <2>1. CASE rx' = "check"
    BY <2>1, <1>8 DEF Take, TypeOK, Handled
  <2>2. CASE rx' # "check"
    <3>1. PICK p \in pending : pending' = pending \ {p} /\ rx' = "deliver"
                               /\ target' = p[2] /\ UNCHANGED msg
      BY <2>2, <1>8 DEF Take
    <3>2. p[2] \in Calls
      BY <3>1 DEF TypeOK
    <3> QED BY <3>1, <3>2, <1>8 DEF Take, TypeOK, Handled
  <2> QED BY <2>1, <2>2
<1>9. CASE Deliver
  BY <1>9 DEF Deliver, TypeOK, Handled
<1>10. CASE Update
  <2>1. CASE msg.kind = "data" /\ Apply
    <3>1. cancelled' \in BOOLEAN
      BY <2>1, Zenon DEF Apply, TypeOK
    <3>2. cached' \in Nat
      BY <2>1 DEF Apply, TypeOK
    <3> QED BY <3>1, <3>2, <2>1, <1>10 DEF Update, Apply, TypeOK, Handled
  <2>2. CASE msg.kind = "auth" /\ Authorized
    <3>1. msg.state \in AuthStates
      BY <2>2, <1>10, Kinds DEF Update, Handled, Messages
    <3> QED BY <3>1, <2>2, <1>10 DEF Update, Authorized, TypeOK, Handled
  <2> QED BY <2>1, <2>2, <1>10 DEF Update
<1>11. CASE Watch \/ ParentCancel \/ CloseBegin \/ CloseRest
  <2>1. stop' \in BOOLEAN /\ cancelled' \in BOOLEAN
    BY <1>11, Zenon DEF Watch, ParentCancel, CloseBegin, CloseRest, CloseStop,
                        TypeOK
  <2>2. closer' \in {"idle", "call", "close", "join", "end"}
    BY <1>11 DEF Watch, ParentCancel, CloseBegin, CloseRest, TypeOK
  <2>3. UNCHANGED <<callVars, rxVars, cacheVars, tdVars>>
    BY <1>11 DEF Watch, ParentCancel, CloseBegin, CloseRest
  <2> QED BY <2>1, <2>2, <2>3 DEF TypeOK, Handled
<1>12. ASSUME NEW c \in Calls, TdAnswer(c) PROVE TypeOK' /\ Handled'
  <2> DEFINE m == [kind |-> "answer", call |-> c, id |-> id[c], seen |-> emitted]
  <2>1. m \in Messages
    BY DEF Messages, Answers, TypeOK
  <2> HIDE DEF m
  <2>2. outq' = Append(outq, m) /\ outq \in Seq(Messages)
    BY <1>12 DEF TdAnswer, Emit, TypeOK, m
  <2>3. outq' \in Seq(Messages)
    BY <2>1, <2>2
  <2> QED BY <1>12, <2>3 DEF TdAnswer, TypeOK, Handled
<1>13. CASE TdData
  <2> DEFINE m == [kind |-> "data"]
  <2>1. m \in Messages
    BY DEF Messages, Updates
  <2> HIDE DEF m
  <2>2. outq' = Append(outq, m) /\ outq \in Seq(Messages)
    BY <1>13 DEF TdData, Emit, TypeOK, m
  <2>3. outq' \in Seq(Messages)
    BY <2>1, <2>2
  <2>4. emitted' \in 0..MaxUpdates
    BY <1>0, <1>13 DEF TdData, TypeOK
  <2> QED BY <1>13, <2>3, <2>4 DEF TdData, TypeOK, Handled
<1>14. ASSUME NEW s \in AuthStates, TdAuth(s) PROVE TypeOK' /\ Handled'
  <2> DEFINE m == [kind |-> "auth", state |-> s]
  <2>1. m \in Messages
    BY DEF Messages, Updates
  <2> HIDE DEF m
  <2>2. outq' = Append(outq, m) /\ outq \in Seq(Messages)
    BY <1>14 DEF TdAuth, Emit, TypeOK, m
  <2>3. outq' \in Seq(Messages)
    BY <2>1, <2>2
  <2> QED BY <1>14, <2>3 DEF TdAuth, TypeOK, Handled
<1> QED BY <1>1, <1>2, <1>3, <1>4, <1>5, <1>6, <1>7, <1>8, <1>9, <1>10, <1>11,
           <1>12, <1>13, <1>14 DEF Next, CallStep, RxStep, Tdlib

-----------------------------------------------------------------------------
(* The lock, the numbers and the table.                                    *)

LEMMA GuardedStep ==
    ASSUME TypeOK, Guarded, [Next]_vars
    PROVE  Guarded'
<1> USE DEF callVars, rxVars, sessionVars, cacheVars, tdVars
<1>0. None \notin Calls
  BY RpcAssumption
<1>1. CASE UNCHANGED vars
  BY <1>1 DEF vars, Guarded
<1>2. ASSUME NEW c \in Calls, Caller(c) PROVE Guarded'
  <2>1. mu = None /\ \A d \in Calls : pc[d] # "send"
    BY <1>0, <1>2 DEF Caller, Enter, Guarded
  <2>2. rx' = rx /\ stop' = stop
    BY <1>2 DEF Caller, Enter
  <2>3. CASE stop
    <3>1. pc' = [pc EXCEPT ![c] = "error"]
      BY <2>3, <1>2 DEF Caller, Enter
    <3> QED BY <2>1, <2>2, <3>1 DEF Guarded, TypeOK
  <2>4. CASE ~stop
    <3>1. pc' = [pc EXCEPT ![c] = "send"] /\ mu' = c
      BY <2>4, <1>2 DEF Caller, Enter
    <3> QED BY <2>1, <2>2, <2>4, <3>1 DEF Guarded, TypeOK
  <2> QED BY <2>3, <2>4
<1>3. ASSUME NEW c \in Calls, CallStep(c) \/ Timeout(c) PROVE Guarded'
  <2>1. CASE Send(c)
    BY <2>1 DEF Send, Guarded, TypeOK
  <2>2. CASE Await(c) \/ Timeout(c)
    BY <2>2 DEF Await, Timeout, Guarded, TypeOK
  <2>3. CASE Cleanup(c)
    BY <2>3 DEF Cleanup, Guarded, TypeOK
  <2> QED BY <1>3, <2>1, <2>2, <2>3 DEF CallStep
<1>4. CASE RxStep
  <2>1. UNCHANGED <<pc, mu, stop>>
    BY <1>4 DEF RxStep, Check, Receive, Take, Deliver, Update, Destroy, Finish
  <2>2. rx' \in {"destroy", "finish", "done"} => stop
    BY <1>4 DEF RxStep, Check, Receive, Take, Deliver, Update, Destroy, Finish,
                Guarded
  <2> QED BY <2>1, <2>2 DEF Guarded
<1>5. CASE Watch \/ ParentCancel \/ CloseBegin \/ CloseRest
  <2>1. UNCHANGED <<pc, mu, rx>>
    BY <1>5 DEF Watch, ParentCancel, CloseBegin, CloseRest
  <2>2. stop' = stop \/ (mu = None /\ stop' = TRUE)
    BY <1>5 DEF Watch, ParentCancel, CloseBegin, CloseRest, CloseStop
  <2> QED BY <2>1, <2>2, <1>0 DEF Guarded
<1>6. CASE Tdlib
  <2>1. UNCHANGED <<pc, mu, rx, stop>>
    BY <1>6 DEF Tdlib, TdAnswer, TdData, TdAuth
  <2> QED BY <2>1 DEF Guarded
<1> QED BY <1>1, <1>2, <1>3, <1>4, <1>5, <1>6 DEF Next

\* Only the calls and the receiver's Take touch numbers and table.
LEMMA TableStep ==
    ASSUME TypeOK, Numbered, NoStaleEntry, [Next]_vars
    PROVE  Numbered' /\ NoStaleEntry'
<1> USE DEF callVars, rxVars, sessionVars, cacheVars, tdVars
<1>1. CASE UNCHANGED <<pc, id, seq, pending>>
  BY <1>1 DEF Numbered, NoStaleEntry
<1>2. ASSUME NEW c \in Calls, Caller(c) PROVE Numbered' /\ NoStaleEntry'
  <2>1. /\ pc[c] = "new" /\ seq' = seq + 1 /\ id' = [id EXCEPT ![c] = seq + 1]
        /\ pc' = [pc EXCEPT ![c] = IF stop THEN "error" ELSE "send"]
        /\ pending' = IF stop THEN pending
                      ELSE {p \in pending : p[1] # seq + 1} \cup {<<seq + 1, c>>}
    BY <1>2 DEF Caller, Enter, NextId
  <2>2. /\ id'[c] = seq + 1 /\ pc'[c] # "new"
        /\ pc'[c] \in {"error", "send"} /\ (~stop => pc'[c] = "send")
        /\ \A d \in Calls \ {c} : id'[d] = id[d] /\ pc'[d] = pc[d]
    BY <2>1 DEF TypeOK
  <2>3. seq \in Nat /\ \A d \in Calls : id[d] \in Nat
    BY DEF TypeOK
  <2>4. Numbered'
    BY <2>1, <2>2, <2>3 DEF Numbered
  <2>5. \A p \in pending : p[2] \in Calls \ {c}
    BY <2>1 DEF NoStaleEntry, TypeOK
  <2>6. \A p \in pending : pc'[p[2]] = pc[p[2]] /\ id'[p[2]] = id[p[2]]
    BY <2>2, <2>5
  <2>7. NoStaleEntry'
    <3>1. CASE stop
      BY <3>1, <2>1, <2>6 DEF NoStaleEntry
    <3>2. CASE ~stop
      BY <3>2, <2>1, <2>2, <2>6 DEF NoStaleEntry
    <3> QED BY <3>1, <3>2
  <2> QED BY <2>4, <2>7
<1>3. ASSUME NEW c \in Calls, Send(c) \/ Await(c) \/ Timeout(c)
      PROVE  Numbered' /\ NoStaleEntry'
  <2>1. PICK s \in {"await", "answered", "failed"} : pc' = [pc EXCEPT ![c] = s]
    BY <1>3 DEF Send, Await, Timeout
  <2>2. UNCHANGED <<id, seq, pending>> /\ pc[c] # "new"
    BY <1>3 DEF Send, Await, Timeout
  <2>3. pc'[c] = s /\ \A d \in Calls \ {c} : pc'[d] = pc[d]
    BY <2>1 DEF TypeOK
  <2>4. Numbered'
    BY <2>2, <2>3 DEF Numbered
  <2>5. NoStaleEntry'
    BY <2>2, <2>3 DEF NoStaleEntry, TypeOK
  <2> QED BY <2>4, <2>5
<1>4. ASSUME NEW c \in Calls, Cleanup(c) PROVE Numbered' /\ NoStaleEntry'
  <2>1. /\ pc[c] # "new" /\ pending' = {p \in pending : p[1] # id[c]}
        /\ UNCHANGED <<id, seq>>
        /\ pc' = [pc EXCEPT ![c] = IF pc[c] = "answered" THEN "ok" ELSE "error"]
    BY <1>4 DEF Cleanup
  <2>2. pc'[c] # "new" /\ \A d \in Calls \ {c} : pc'[d] = pc[d]
    BY <2>1 DEF TypeOK
  <2>3. Numbered'
    BY <2>1, <2>2 DEF Numbered
  <2>4. \A p \in pending' : p \in pending /\ p[2] \in Calls \ {c}
    BY <2>1 DEF NoStaleEntry, TypeOK
  <2>5. NoStaleEntry'
    BY <2>1, <2>2, <2>4 DEF NoStaleEntry
  <2> QED BY <2>3, <2>5
<1>5. CASE RxStep
  <2>1. UNCHANGED <<pc, id, seq>> /\ pending' \subseteq pending
    BY <1>5 DEF RxStep, Check, Receive, Take, Deliver, Update, Destroy, Finish
  <2> QED BY <2>1 DEF Numbered, NoStaleEntry
<1>6. CASE Watch \/ ParentCancel \/ CloseBegin \/ CloseRest \/ Tdlib
  BY <1>1, <1>6 DEF Watch, ParentCancel, CloseBegin, CloseRest, Tdlib, TdAnswer,
                    TdData, TdAuth
<1> QED BY <1>1, <1>2, <1>3, <1>4, <1>5, <1>6 DEF Next, CallStep, vars

-----------------------------------------------------------------------------
(* Answers.                                                                *)

LEMMA AskedStep ==
    ASSUME TypeOK, Asked, [Next]_vars
    PROVE  Asked'
<1> USE DEF callVars, rxVars, sessionVars, cacheVars, tdVars
<1>1. CASE UNCHANGED <<pc, asked, served>>
  BY <1>1 DEF Asked
<1>2. ASSUME NEW c \in Calls, Caller(c) PROVE Asked'
  <2>1. pc[c] = "new" /\ UNCHANGED <<asked, served>>
    BY <1>2 DEF Caller, Enter
  <2>2. \A d \in Calls \ {c} : pc'[d] = pc[d]
    BY <1>2 DEF Caller, Enter, TypeOK
  <2>3. c \notin asked /\ c \notin served
    BY <2>1 DEF Asked
  <2> QED BY <2>1, <2>2, <2>3 DEF Asked, TypeOK
<1>3. ASSUME NEW c \in Calls, Send(c) PROVE Asked'
  <2>1. pc[c] = "send" /\ asked' = asked \cup {c} /\ served' = served
        /\ pc' = [pc EXCEPT ![c] = "await"]
    BY <1>3 DEF Send
  <2>2. c \notin served
    BY <2>1 DEF Asked
  <2> QED BY <2>1, <2>2 DEF Asked, TypeOK
<1>4. ASSUME NEW c \in Calls, Await(c) \/ Timeout(c) \/ Cleanup(c) PROVE Asked'
  <2>1. PICK s \in {"answered", "failed", "ok", "error"} :
          pc' = [pc EXCEPT ![c] = s]
    BY <1>4 DEF Await, Timeout, Cleanup
  <2>2. UNCHANGED <<asked, served>>
    BY <1>4 DEF Await, Timeout, Cleanup
  <2> QED BY <2>1, <2>2 DEF Asked, TypeOK
<1>5. CASE RxStep
  BY <1>1, <1>5 DEF RxStep, Check, Receive, Take, Deliver, Update, Destroy, Finish
<1>6. CASE Watch \/ ParentCancel \/ CloseBegin \/ CloseRest
  BY <1>1, <1>6 DEF Watch, ParentCancel, CloseBegin, CloseRest
<1>7. ASSUME NEW c \in Calls, TdAnswer(c) PROVE Asked'
  BY <1>7 DEF TdAnswer, Asked, TypeOK
<1>8. ASSUME NEW s \in AuthStates, TdData \/ TdAuth(s) PROVE Asked'
  BY <1>1, <1>8 DEF TdData, TdAuth
<1> QED BY <1>1, <1>2, <1>3, <1>4, <1>5, <1>6, <1>7, <1>8
        DEF Next, CallStep, Tdlib, vars, AuthStates

\* No step takes a request's number or its answer back.
LEMMA Kept ==
    ASSUME TypeOK, Asked, [Next]_vars
    PROVE  /\ served \subseteq served'
           /\ \A c \in served : id'[c] = id[c]
<1> USE DEF callVars, rxVars, sessionVars, cacheVars, tdVars
<1>1. CASE UNCHANGED <<id, served>>
  BY <1>1
<1>2. ASSUME NEW c \in Calls, Caller(c)
      PROVE  served \subseteq served' /\ \A d \in served : id'[d] = id[d]
  <2>1. c \notin served /\ served' = served
    BY <1>2 DEF Caller, Enter, Asked
  <2>2. id' = [id EXCEPT ![c] = NextId]
    BY <1>2 DEF Caller, Enter
  <2> QED BY <2>1, <2>2 DEF TypeOK
<1>3. ASSUME NEW c \in Calls, CallStep(c) \/ Timeout(c) \/ RxStep
      PROVE  UNCHANGED <<id, served>>
  BY <1>3 DEF CallStep, Send, Await, Timeout, Cleanup, RxStep, Check, Receive,
              Take, Deliver, Update, Destroy, Finish
<1>4. CASE RxStep
  BY <1>1, <1>4 DEF RxStep, Check, Receive, Take, Deliver, Update, Destroy, Finish
<1>5. CASE Watch \/ ParentCancel \/ CloseBegin \/ CloseRest
  BY <1>1, <1>5 DEF Watch, ParentCancel, CloseBegin, CloseRest
<1>6. CASE Tdlib
  BY <1>6 DEF Tdlib, TdAnswer, TdData, TdAuth
<1> QED BY <1>1, <1>2, <1>3, <1>4, <1>5, <1>6 DEF Next, vars

\* Answers stay genuine in TDLib's queue, ...
LEMMA QueueStep ==
    ASSUME TypeOK, Asked, [Next]_vars, \A i \in 1..Len(outq) : Genuine(outq[i])
    PROVE  (\A i \in 1..Len(outq) : Genuine(outq[i]))'
<1> USE DEF callVars, rxVars, sessionVars, cacheVars, tdVars
<1> DEFINE P(m) == m.kind = "answer" => m.call \in served' /\ m.id = id'[m.call]
<1>1. outq \in Seq(Messages) /\ Len(outq) \in Nat
  BY DEF TypeOK
<1>2. \A i \in 1..Len(outq) : P(outq[i])
  BY Kept DEF Genuine
<1> SUFFICES \A i \in 1..Len(outq') : P(outq'[i])
  BY DEF Genuine
<1>3. ASSUME NEW m, P(m), outq' = Append(outq, m)
      PROVE  \A i \in 1..Len(outq') : P(outq'[i])
  <2> HIDE DEF P
  <2>1. Len(outq') = Len(outq) + 1 /\ outq'[Len(outq) + 1] = m
        /\ \A i \in 1..Len(outq) : outq'[i] = outq[i]
    BY <1>1, <1>3
  <2> QED BY <1>1, <1>2, <1>3, <2>1
<1>4. CASE outq' = outq
  BY <1>2, <1>4
<1>5. CASE Receive
  <2>1. CASE outq = <<>>
    BY <1>4, <1>5, <2>1 DEF Receive
  <2>2. CASE outq # <<>>
    <3>1. outq' = Tail(outq)
      BY <1>5, <2>2 DEF Receive
    <3>2. Len(outq') = Len(outq) - 1
          /\ \A i \in 1..Len(outq') : outq'[i] = outq[i + 1]
      BY <1>1, <2>2, <3>1
    <3> HIDE DEF P
    <3> QED BY <1>1, <1>2, <3>2
  <2> QED BY <2>1, <2>2
<1>6. ASSUME NEW c \in Calls, TdAnswer(c)
      PROVE  \A i \in 1..Len(outq') : P(outq'[i])
  <2> DEFINE m == [kind |-> "answer", call |-> c, id |-> id[c], seen |-> emitted]
  <2>1. P(m)
    BY <1>6 DEF TdAnswer
  <2>2. outq' = Append(outq, m)
    BY <1>6 DEF TdAnswer, Emit
  <2> HIDE DEF m, P
  <2> QED BY <1>3, <2>1, <2>2
<1>7. CASE TdData
  <2> DEFINE m == [kind |-> "data"]
  <2>1. P(m)
    OBVIOUS
  <2>2. outq' = Append(outq, m)
    BY <1>7 DEF TdData, Emit
  <2> HIDE DEF m, P
  <2> QED BY <1>3, <2>1, <2>2
<1>8. ASSUME NEW s \in AuthStates, TdAuth(s)
      PROVE  \A i \in 1..Len(outq') : P(outq'[i])
  <2> DEFINE m == [kind |-> "auth", state |-> s]
  <2>1. P(m)
    OBVIOUS
  <2>2. outq' = Append(outq, m)
    BY <1>8 DEF TdAuth, Emit
  <2> HIDE DEF m, P
  <2> QED BY <1>3, <2>1, <2>2
<1>9. ASSUME NEW c \in Calls, Caller(c) \/ CallStep(c) \/ Timeout(c)
      PROVE  outq' = outq
  BY <1>9 DEF Caller, Enter, CallStep, Send, Await, Timeout, Cleanup
<1>10. CASE Check \/ Take \/ Deliver \/ Update \/ Destroy \/ Finish
  BY <1>4, <1>10 DEF Check, Take, Deliver, Update, Destroy, Finish
<1>11. CASE Watch \/ ParentCancel \/ CloseBegin \/ CloseRest
  BY <1>4, <1>11 DEF Watch, ParentCancel, CloseBegin, CloseRest
<1>12. CASE UNCHANGED vars
  BY <1>4, <1>12 DEF vars
<1> HIDE DEF P
<1> QED BY <1>4, <1>5, <1>6, <1>7, <1>8, <1>9, <1>10, <1>11, <1>12
        DEF Next, RxStep, Tdlib

\* ... in the receiver's hands, where the table leads back to the call, ...
LEMMA HandStep ==
    ASSUME TypeOK, Handled, Numbered, Asked, NoStaleEntry, Traced, [Next]_vars
    PROVE  /\ (rx \in {"take", "deliver"} => Genuine(msg))'
           /\ (rx = "deliver" => msg.call = target)'
<1> USE DEF callVars, rxVars, sessionVars, cacheVars, tdVars
<1> DEFINE P(m) == m.kind = "answer" => m.call \in served' /\ m.id = id'[m.call]
<1> SUFFICES /\ rx' \in {"take", "deliver"} => P(msg')
             /\ rx' = "deliver" => msg'.call = target'
  BY DEF Genuine
<1>1. CASE UNCHANGED <<rx, msg, target>>
  BY <1>1, Kept DEF Traced, Genuine
<1>2. CASE Receive
  <2>1. CASE outq = <<>>
    BY <1>2, <2>1 DEF Receive
  <2>2. CASE outq # <<>>
    <3>1. outq \in Seq(Messages)
      BY DEF TypeOK
    <3>2. 1 \in 1..Len(outq) /\ Head(outq) = outq[1]
      BY <2>2, <3>1
    <3>3. Genuine(outq[1])
      BY <3>2 DEF Traced
    <3>4. msg' = outq[1] /\ rx' # "deliver"
      BY <1>2, <2>2, <3>2 DEF Receive
    <3> QED BY <3>3, <3>4, Kept DEF Genuine
  <2> QED BY <2>1, <2>2
<1>3. CASE Take
  <2>1. CASE rx' = "check"
    BY <2>1
  <2>2. CASE rx' # "check"
    <3>1. PICK p \in pending : p[1] = msg.id /\ rx' = "deliver"
                               /\ target' = p[2] /\ msg' = msg
      BY <2>2, <1>3 DEF Take
    <3>2. rx = "take" /\ msg \in Answers /\ Genuine(msg)
      BY <1>3 DEF Take, Handled, Traced
    <3>3. msg.kind = "answer" /\ msg.call \in Calls
      BY <3>2 DEF Answers
    <3>4. p[2] \in Calls /\ pc[p[2]] # "new" /\ id[p[2]] = msg.id
      BY <3>1 DEF NoStaleEntry, TypeOK
    <3>5. pc[msg.call] # "new" /\ id[msg.call] = msg.id
      BY <3>2, <3>3 DEF Genuine, Asked
    <3>6. msg.call = p[2]
      BY <3>3, <3>4, <3>5 DEF Numbered
    <3> QED BY <3>1, <3>2, <3>6, Kept DEF Genuine
  <2> QED BY <2>1, <2>2
<1>4. CASE Check \/ Deliver \/ Update \/ Destroy \/ Finish
  BY <1>4 DEF Check, Deliver, Update, Destroy, Finish
<1>5. ASSUME NEW c \in Calls, Caller(c) \/ CallStep(c) \/ Timeout(c)
      PROVE  UNCHANGED <<rx, msg, target>>
  BY <1>5 DEF Caller, Enter, CallStep, Send, Await, Timeout, Cleanup
<1>6. CASE Watch \/ ParentCancel \/ CloseBegin \/ CloseRest \/ Tdlib
  BY <1>1, <1>6 DEF Watch, ParentCancel, CloseBegin, CloseRest, Tdlib, TdAnswer,
                    TdData, TdAuth
<1>7. CASE UNCHANGED vars
  BY <1>1, <1>7 DEF vars
<1> HIDE DEF P
<1> QED BY <1>1, <1>2, <1>3, <1>4, <1>5, <1>6, <1>7 DEF Next, RxStep

\* ... and in the channel they are delivered to.
LEMMA ChannelStep ==
    ASSUME TypeOK, Handled, Asked, Traced, [Next]_vars
    PROVE  /\ (\A c \in Calls : chan[c] # NoMessage
                                => chan[c].call = c /\ c \in served)'
           /\ (\A c \in Calls : pc[c] \in {"answered", "ok"} => c \in served)'
<1> USE DEF callVars, rxVars, sessionVars, cacheVars, tdVars
<1>0. served \subseteq served'
  BY Kept
<1>1. CASE UNCHANGED <<pc, chan>>
  BY <1>0, <1>1 DEF Traced
<1>2. ASSUME NEW c \in Calls, Caller(c) \/ Send(c) \/ Timeout(c)
      PROVE  /\ UNCHANGED chan
             /\ \A d \in Calls : pc'[d] \in {"answered", "ok"} => pc'[d] = pc[d]
  BY <1>2 DEF Caller, Enter, Send, Timeout, TypeOK
<1>3. ASSUME NEW c \in Calls, Await(c) \/ Cleanup(c)
      PROVE  /\ UNCHANGED chan
             /\ \A d \in Calls : pc'[d] \in {"answered", "ok"} => d \in served
  BY <1>3 DEF Await, Cleanup, TypeOK, Traced
<1>4. CASE Deliver
  <2>1. target \in Calls /\ msg.call = target /\ msg.kind = "answer"
        /\ msg.call \in served
    BY <1>4 DEF Deliver, TypeOK, Handled, Traced, Genuine, Answers
  <2>2. chan' = [chan EXCEPT ![target] = msg] /\ pc' = pc
    BY <1>4 DEF Deliver
  <2> QED BY <1>0, <2>1, <2>2 DEF Traced, TypeOK
<1>5. CASE Check \/ Receive \/ Take \/ Update \/ Destroy \/ Finish
  BY <1>1, <1>5 DEF Check, Receive, Take, Update, Destroy, Finish
<1>6. CASE Watch \/ ParentCancel \/ CloseBegin \/ CloseRest \/ Tdlib
  BY <1>1, <1>6 DEF Watch, ParentCancel, CloseBegin, CloseRest, Tdlib, TdAnswer,
                    TdData, TdAuth
<1>7. CASE UNCHANGED vars
  BY <1>1, <1>7 DEF vars
<1>8. ASSUME NEW c \in Calls, Caller(c) \/ CallStep(c) \/ Timeout(c)
      PROVE  /\ \A d \in Calls : chan'[d] # NoMessage
                                 => chan'[d].call = d /\ d \in served'
             /\ \A d \in Calls : pc'[d] \in {"answered", "ok"} => d \in served'
  BY <1>0, <1>2, <1>3, <1>8 DEF CallStep, Traced
<1> QED BY <1>4, <1>5, <1>6, <1>7, <1>8 DEF Next, RxStep

LEMMA NextInv ==
    Inv /\ [Next]_vars => Inv'
<1> SUFFICES ASSUME Inv, [Next]_vars PROVE Inv'
  OBVIOUS
<1>0. TypeOK /\ Handled /\ Guarded /\ Numbered /\ Asked /\ NoStaleEntry /\ Traced
  BY DEF Inv
<1>1. TypeOK' /\ Handled'
  BY <1>0, TypeStep
<1>2. Guarded'
  BY <1>0, GuardedStep
<1>3. Numbered' /\ NoStaleEntry'
  BY <1>0, TableStep
<1>4. Asked'
  BY <1>0, AskedStep
<1>5. Traced'
  <2>1. \A i \in 1..Len(outq) : Genuine(outq[i])
    BY <1>0 DEF Traced
  <2> QED BY <1>0, <2>1, QueueStep, HandStep, ChannelStep DEF Traced
<1> QED BY <1>1, <1>2, <1>3, <1>4, <1>5 DEF Inv

-----------------------------------------------------------------------------
(* The order of updates and answers.  f counts the data updates the session's *)
(* caches will have taken when the receiver has worked through the first i    *)
(* messages of the queue.                                                     *)

Weight(m) == IF m.kind = "data" THEN 1 ELSE 0
InHand == IF rx = "update" THEN Weight(msg) ELSE 0

Counts(f) ==
    /\ f[0] = cached + InHand
    /\ \A i \in 1..Len(outq) : f[i] = f[i - 1] + Weight(outq[i])
    /\ f[Len(outq)] = emitted
    /\ \A i \in 1..Len(outq) : outq[i].kind = "answer" => outq[i].seen <= f[i - 1]

Ordered ==
    /\ \E f \in [0..Len(outq) -> Nat] : Counts(f)
    /\ rx \in {"take", "deliver"} => msg.seen <= cached
    /\ \A c \in Calls : chan[c] # NoMessage => chan[c].seen <= cached

LEMMA OrderedInit ==
    Init => Ordered
<1> SUFFICES ASSUME Init PROVE Ordered
  OBVIOUS
<1> DEFINE f == [i \in 0..0 |-> 0]
<1>1. Len(outq) = 0 /\ cached = 0 /\ emitted = 0 /\ rx = "check"
  BY DEF Init
<1>2. f \in [0..Len(outq) -> Nat] /\ f[0] = 0
  BY <1>1
<1> HIDE DEF f
<1>3. Counts(f)
  BY <1>1, <1>2 DEF Counts, InHand
<1> QED BY <1>2, <1>3 DEF Ordered, Init

\* A message TDLib emits is counted after those before it.
LEMMA CountsAppend ==
    ASSUME TypeOK, NEW f \in [0..Len(outq) -> Nat], Counts(f), NEW m \in Messages,
           outq' = Append(outq, m), UNCHANGED <<cached, rx, msg>>,
           emitted' = emitted + Weight(m),
           m.kind = "answer" => m.seen = emitted
    PROVE  \E g \in [0..Len(outq') -> Nat] : Counts(g)'
<1> DEFINE n == Len(outq)
           g == [i \in 0..(n + 1) |-> IF i <= n THEN f[i] ELSE f[n] + Weight(m)]
<1>1. outq \in Seq(Messages) /\ n \in Nat
  BY DEF TypeOK
<1>2. Len(outq') = n + 1 /\ outq'[n + 1] = m
      /\ \A i \in 1..n : outq'[i] = outq[i]
  BY <1>1
<1>3. Weight(m) \in Nat
  BY DEF Weight
<1>4. f[n] \in Nat /\ \A i \in 0..n : f[i] \in Nat
  BY <1>1
<1> HIDE DEF n
<1>5. g \in [0..(n + 1) -> Nat] /\ g[n + 1] = f[n] + Weight(m)
      /\ \A i \in 0..n : g[i] = f[i]
  BY <1>1, <1>3, <1>4
<1> HIDE DEF g
<1>6. /\ f[0] = cached + InHand /\ f[n] = emitted
      /\ \A i \in 1..n : f[i] = f[i - 1] + Weight(outq[i])
      /\ \A i \in 1..n : outq[i].kind = "answer" => outq[i].seen <= f[i - 1]
  BY DEF Counts, n
<1>7. g[0] = cached' + InHand' /\ g[n + 1] = emitted'
  BY <1>1, <1>5, <1>6 DEF InHand
<1>8. \A i \in 1..(n + 1) : g[i] = g[i - 1] + Weight(outq'[i])
  <2> SUFFICES ASSUME NEW i \in 1..(n + 1)
               PROVE  g[i] = g[i - 1] + Weight(outq'[i])
    OBVIOUS
  <2>1. CASE i \in 1..n
    <3>1. g[i] = f[i] /\ g[i - 1] = f[i - 1]
      BY <1>1, <1>5, <2>1
    <3> QED BY <3>1, <2>1, <1>2, <1>6
  <2>2. CASE i = n + 1
    BY <1>1, <1>2, <1>5, <2>2
  <2>3. i \in 1..n \/ i = n + 1
    BY <1>1
  <2> QED BY <2>1, <2>2, <2>3, Zenon
<1>9. \A i \in 1..(n + 1) : outq'[i].kind = "answer" => outq'[i].seen <= g[i - 1]
  <2> SUFFICES ASSUME NEW i \in 1..(n + 1), outq'[i].kind = "answer"
               PROVE  outq'[i].seen <= g[i - 1]
    OBVIOUS
  <2>1. CASE i \in 1..n
    <3>1. i - 1 \in 0..n
      BY <1>1, <2>1
    <3>2. g[i - 1] = f[i - 1]
      BY <1>5, <3>1
    <3> QED BY <3>2, <2>1, <1>2, <1>6
  <2>2. CASE i = n + 1
    <3>1. i - 1 = n /\ n \in 0..n
      BY <1>1, <2>2
    <3>2. outq'[i] = m
      BY <1>2, <2>2
    <3>3. m.seen = emitted
      BY <3>2
    <3>4. g[i - 1] = emitted
      BY <1>5, <1>6, <3>1
    <3>5. emitted <= emitted
      BY <1>4, <1>6
    <3>6. m.seen <= g[i - 1]
      BY <3>3, <3>4, <3>5
    <3> QED BY <3>2, <3>6
  <2>3. i \in 1..n \/ i = n + 1
    BY <1>1
  <2> QED BY <2>1, <2>2, <2>3, Zenon
<1>10. PICK h \in [0..Len(outq') -> Nat] : h = g
  BY <1>2, <1>5
<1>11. Counts(h)'
  BY <1>2, <1>7, <1>8, <1>9, <1>10 DEF Counts
<1> QED BY <1>11

\* The receiver takes the first message off the queue.
LEMMA CountsTail ==
    ASSUME TypeOK, NEW f \in [0..Len(outq) -> Nat], Counts(f), outq # <<>>,
           outq' = Tail(outq), UNCHANGED <<cached, emitted>>,
           rx = "receive", InHand' = Weight(Head(outq))
    PROVE  /\ \E g \in [0..Len(outq') -> Nat] : Counts(g)'
           /\ Head(outq).kind = "answer" => Head(outq).seen <= cached
<1> DEFINE n == Len(outq)
           g == [i \in 0..(n - 1) |-> f[i + 1]]
<1>1. outq \in Seq(Messages) /\ n \in Nat /\ n # 0 /\ Head(outq) = outq[1]
  BY DEF TypeOK
<1>2. Len(outq') = n - 1 /\ \A i \in 1..(n - 1) : outq'[i] = outq[i + 1]
  BY <1>1
<1>3. /\ f[0] = cached /\ f[n] = emitted /\ cached \in Nat
      /\ \A i \in 1..n : f[i] = f[i - 1] + Weight(outq[i])
      /\ \A i \in 1..n : outq[i].kind = "answer" => outq[i].seen <= f[i - 1]
  BY DEF Counts, InHand, TypeOK
<1> HIDE DEF n
<1>a. \A i \in 0..n : f[i] \in Nat
  BY DEF n
<1>4. g \in [0..(n - 1) -> Nat] /\ \A i \in 0..(n - 1) : g[i] = f[i + 1]
  BY <1>1, <1>a
<1> HIDE DEF g
<1>5. 1 \in 1..n /\ f[1] = cached + Weight(outq[1])
      /\ (outq[1].kind = "answer" => outq[1].seen <= cached)
  BY <1>1, <1>3
<1>6. g[0] = cached' + InHand' /\ g[n - 1] = emitted'
  BY <1>1, <1>3, <1>4, <1>5
<1>7. \A i \in 1..(n - 1) :
        /\ g[i] = g[i - 1] + Weight(outq'[i])
        /\ outq'[i].kind = "answer" => outq'[i].seen <= g[i - 1]
  <2> SUFFICES ASSUME NEW i \in 1..(n - 1)
               PROVE  /\ g[i] = g[i - 1] + Weight(outq'[i])
                      /\ outq'[i].kind = "answer" => outq'[i].seen <= g[i - 1]
    OBVIOUS
  <2>1. i \in 0..(n - 1) /\ i - 1 \in 0..(n - 1) /\ i + 1 \in 1..n
        /\ (i - 1) + 1 = i /\ (i + 1) - 1 = i
    BY <1>1
  <2>2. g[i] = f[i + 1] /\ g[i - 1] = f[i] /\ outq'[i] = outq[i + 1]
    BY <1>2, <1>4, <2>1
  <2>3. /\ f[i + 1] = f[i] + Weight(outq[i + 1])
        /\ outq[i + 1].kind = "answer" => outq[i + 1].seen <= f[i]
    BY <1>3, <2>1
  <2> QED BY <2>2, <2>3
<1>8. PICK h \in [0..Len(outq') -> Nat] : h = g
  BY <1>2, <1>4
<1>9. Counts(h)'
  BY <1>2, <1>6, <1>7, <1>8 DEF Counts
<1> QED BY <1>1, <1>5, <1>9

LEMMA OrderedStep ==
    ASSUME Inv, Ordered, [Next]_vars
    PROVE  Ordered'
<1> USE DEF callVars, rxVars, sessionVars, cacheVars, tdVars
<1>0. TypeOK /\ Handled /\ Traced
  BY DEF Inv
<1>a. PICK f \in [0..Len(outq) -> Nat] : Counts(f)
  BY DEF Ordered
<1>1. ASSUME UNCHANGED <<outq, emitted, cached, rx, msg, chan>> PROVE Ordered'
  BY <1>1 DEF Ordered, Counts, InHand
<1>2. ASSUME NEW c \in Calls, Caller(c) \/ CallStep(c) \/ Timeout(c)
      PROVE  Ordered'
  BY <1>1, <1>2 DEF Caller, Enter, CallStep, Send, Await, Timeout, Cleanup
<1>3. ASSUME Check \/ Take \/ Destroy \/ Finish PROVE Ordered'
  <2>1. UNCHANGED <<outq, emitted, cached, chan>>
    BY <1>3 DEF Check, Take, Destroy, Finish
  <2>2. rx # "update" /\ rx' # "update"
    BY <1>3 DEF Check, Take, Destroy, Finish
  <2>3. Counts(f)'
    BY <1>a, <2>1, <2>2 DEF Counts, InHand
  <2>4. rx' \in {"take", "deliver"} => msg' = msg /\ rx = "take"
    BY <1>3 DEF Check, Take, Destroy, Finish
  <2> QED BY <2>1, <2>3, <2>4 DEF Ordered
<1>4. ASSUME Receive PROVE Ordered'
  <2>1. UNCHANGED <<emitted, cached, chan>> /\ rx = "receive"
    BY <1>4 DEF Receive
  <2>2. CASE outq = <<>>
    <3>1. outq' = outq /\ rx' = "check"
      BY <1>4, <2>2 DEF Receive
    <3>2. Counts(f)'
      BY <1>a, <2>1, <3>1 DEF Counts, InHand
    <3> QED BY <2>1, <3>1, <3>2 DEF Ordered
  <2>3. CASE outq # <<>>
    <3>1. msg' = Head(outq) /\ outq' = Tail(outq)
          /\ rx' = IF Head(outq).kind = "answer" THEN "take" ELSE "update"
      BY <1>4, <2>3 DEF Receive
    <3>2. InHand' = Weight(Head(outq))
      BY <3>1 DEF InHand, Weight
    <3>3. /\ \E g \in [0..Len(outq') -> Nat] : Counts(g)'
          /\ Head(outq).kind = "answer" => Head(outq).seen <= cached
      BY <1>0, <1>a, <2>1, <2>3, <3>1, <3>2, CountsTail
    <3> QED BY <2>1, <3>1, <3>3 DEF Ordered
  <2> QED BY <2>2, <2>3
<1>5. ASSUME Deliver PROVE Ordered'
  <2>1. UNCHANGED <<outq, emitted, cached>> /\ rx = "deliver" /\ rx' = "check"
        /\ chan' = [chan EXCEPT ![target] = msg]
    BY <1>5 DEF Deliver
  <2>2. Counts(f)'
    BY <1>a, <2>1 DEF Counts, InHand
  <2>3. \A c \in Calls : chan'[c] # NoMessage => chan'[c].seen <= cached
    BY <1>0, <2>1 DEF Ordered, TypeOK
  <2> QED BY <2>1, <2>2, <2>3 DEF Ordered
<1>6. ASSUME Update PROVE Ordered'
  <2>1. UNCHANGED <<outq, emitted, chan>> /\ rx = "update" /\ rx' = "check"
    BY <1>6 DEF Update
  <2>2. cached' = cached + Weight(msg)
    <3>1. CASE msg.kind = "data" /\ Apply
      BY <3>1 DEF Apply, Weight
    <3>2. CASE msg.kind = "auth" /\ Authorized
      BY <1>0, <3>2 DEF Authorized, Weight, TypeOK
    <3> QED BY <1>6, <3>1, <3>2 DEF Update
  <2>3. cached \in Nat /\ Weight(msg) \in Nat /\ cached' \in Nat
    BY <1>0, <2>2 DEF TypeOK, Weight
  <2>4. Counts(f)'
    BY <1>a, <2>1, <2>2, <2>3 DEF Counts, InHand
  <2>5. \A c \in Calls : chan[c] # NoMessage => chan[c].seen <= cached'
    <3>1. \A c \in Calls : chan[c] # NoMessage => chan[c].seen \in Nat
      BY <1>0 DEF TypeOK, Answers
    <3> QED BY <3>1, <2>2, <2>3 DEF Ordered
  <2> QED BY <2>1, <2>4, <2>5 DEF Ordered
<1>7. ASSUME Watch \/ ParentCancel \/ CloseBegin \/ CloseRest PROVE Ordered'
  BY <1>1, <1>7 DEF Watch, ParentCancel, CloseBegin, CloseRest
<1>8. ASSUME NEW m \in Messages, outq' = Append(outq, m),
             emitted' = emitted + Weight(m), m.kind = "answer" => m.seen = emitted,
             UNCHANGED <<cached, rx, msg, chan>>
      PROVE  Ordered'
  <2>1. \E g \in [0..Len(outq') -> Nat] : Counts(g)'
    BY <1>0, <1>a, <1>8, CountsAppend
  <2> QED BY <1>8, <2>1 DEF Ordered
<1>9. ASSUME NEW c \in Calls, TdAnswer(c) PROVE Ordered'
  <2> DEFINE m == [kind |-> "answer", call |-> c, id |-> id[c], seen |-> emitted]
  <2>1. m \in Messages /\ Weight(m) = 0 /\ m.seen = emitted
    BY <1>0 DEF Messages, Answers, TypeOK, Weight
  <2> HIDE DEF m
  <2>2. outq' = Append(outq, m) /\ UNCHANGED <<emitted, cached, rx, msg, chan>>
    BY <1>9 DEF TdAnswer, Emit, m
  <2>3. emitted' = emitted + Weight(m)
    BY <1>0, <2>1, <2>2 DEF TypeOK
  <2> QED BY <1>8, <2>1, <2>2, <2>3
<1>10. ASSUME TdData PROVE Ordered'
  <2> DEFINE m == [kind |-> "data"]
  <2>1. m \in Messages /\ Weight(m) = 1 /\ m.kind # "answer"
    BY DEF Messages, Updates, Weight
  <2> HIDE DEF m
  <2>2. outq' = Append(outq, m) /\ emitted' = emitted + 1
        /\ UNCHANGED <<cached, rx, msg, chan>>
    BY <1>10 DEF TdData, Emit, m
  <2> QED BY <1>8, <2>1, <2>2
<1>11. ASSUME NEW s \in AuthStates, TdAuth(s) PROVE Ordered'
  <2> DEFINE m == [kind |-> "auth", state |-> s]
  <2>1. m \in Messages /\ Weight(m) = 0 /\ m.kind # "answer"
    BY DEF Messages, Updates, Weight
  <2> HIDE DEF m
  <2>2. outq' = Append(outq, m) /\ UNCHANGED <<emitted, cached, rx, msg, chan>>
    BY <1>11 DEF TdAuth, Emit, m
  <2>3. emitted' = emitted + Weight(m)
    BY <1>0, <2>1, <2>2 DEF TypeOK
  <2> QED BY <1>8, <2>1, <2>2, <2>3
<1>12. ASSUME UNCHANGED vars PROVE Ordered'
  BY <1>1, <1>12 DEF vars
<1> QED BY <1>2, <1>3, <1>4, <1>5, <1>6, <1>7, <1>9, <1>10, <1>11, <1>12
        DEF Next, RxStep, Tdlib

-----------------------------------------------------------------------------
IInv == Inv /\ Ordered

LEMMA Invariance ==
    Spec => []IInv
<1>1. Init => IInv
  BY InitInv, OrderedInit DEF IInv
<1>2. IInv /\ [Next]_vars => IInv'
  BY NextInv, OrderedStep DEF IInv
<1> QED BY <1>1, <1>2, PTL DEF Spec

\* The client's state keeps its types (rpc.go:25-34, session.go).
THEOREM RpcTypes ==
    Spec => []TypeOK
<1>1. IInv => TypeOK
  BY DEF IInv, Inv
<1> QED BY <1>1, Invariance, PTL

\* However many calls race with the end of the session, none reaches TDLib once
\* the receiver goes on to td_json_client_destroy: the lock a call holds from
\* its look at r.stop to Send is the one close() needs (rpc.go:86-95, 109).
THEOREM ClientNotUsedAfterDestroy ==
    Spec => []NoUseAfterDestroy
<1>1. IInv => NoUseAfterDestroy
  BY DEF IInv, Inv, Guarded, NoUseAfterDestroy
<1> QED BY <1>1, Invariance, PTL

\* For any number of calls, deadlines, late answers and updates: a caller gets
\* the answer to its own request, the caches hold what TDLib sent before that
\* answer, and the table keeps no entry of a call that has returned.
THEOREM AnswersAreSound ==
    Spec => []AnswersSound
<1>1. IInv => AnswersSound
  <2> SUFFICES ASSUME IInv PROVE AnswersSound
    OBVIOUS
  <2>1. OwnAnswer
    BY DEF IInv, Inv, Traced, OwnAnswer
  <2>2. NoStaleEntry
    BY DEF IInv, Inv
  <2>3. CachedBeforeAnswer
    <3>1. \A c \in Calls : chan[c] # NoMessage => chan[c].seen \in Nat
      BY DEF IInv, Inv, TypeOK, Answers
    <3>2. cached \in Nat
      BY DEF IInv, Inv, TypeOK
    <3> QED BY <3>1, <3>2 DEF IInv, Ordered, CachedBeforeAnswer
  <2> QED BY <2>1, <2>2, <2>3 DEF AnswersSound
<1> QED BY <1>1, Invariance, PTL

-----------------------------------------------------------------------------
(* The client implements CallService, apart from its liveness.             *)

Phase == [c \in Calls |-> PhaseAt(pc[c])]

LEMMA Phases ==
    /\ PhaseAt("new") = "new" /\ PhaseAt("send") = "new"
    /\ PhaseAt("await") = "asked"
    /\ PhaseAt("answered") = "answered" /\ PhaseAt("ok") = "answered"
    /\ PhaseAt("failed") = "failed" /\ PhaseAt("error") = "failed"
BY DEF PhaseAt

\* The steps of the service, over Phase.
LEMMA IsAsk ==
    ASSUME NEW c \in Calls, ~Destroyed, ~Destroyed', Phase[c] = "new",
           Phase' = [Phase EXCEPT ![c] = "asked"], UNCHANGED served
    PROVE  Service!Next
BY DEF Service!Next, Service!Ask, Phase

LEMMA IsServe ==
    ASSUME NEW c \in Calls, ~Destroyed, ~Destroyed',
           Phase[c] \in {"asked", "failed"},
           served' = served \cup {c}, UNCHANGED Phase
    PROVE  Service!Next
BY DEF Service!Next, Service!Serve, Phase

LEMMA IsAnswer ==
    ASSUME NEW c \in Calls, UNCHANGED rx, Phase[c] = "asked", c \in served,
           Phase' = [Phase EXCEPT ![c] = "answered"], UNCHANGED served
    PROVE  Service!Next
BY DEF Service!Next, Service!Answer, Phase, Destroyed

LEMMA IsFail ==
    ASSUME NEW c \in Calls, UNCHANGED rx, Phase[c] \in {"new", "asked"},
           Phase' = [Phase EXCEPT ![c] = "failed"], UNCHANGED served
    PROVE  Service!Next
BY DEF Service!Next, Service!Fail, Phase, Destroyed

LEMMA IsStutter ==
    ASSUME UNCHANGED <<Phase, served>>, Destroyed' <=> Destroyed
    PROVE  UNCHANGED Service!vars
BY DEF Service!vars, Phase

LEMMA ServiceStep ==
    ASSUME IInv, IInv', [Next]_vars
    PROVE  Service!Next \/ UNCHANGED Service!vars
<1> USE DEF callVars, rxVars, sessionVars, cacheVars, tdVars
<1>0. TypeOK /\ Guarded /\ Asked /\ Traced
  BY DEF IInv, Inv
<1>1. ASSUME UNCHANGED <<pc, served>>, Destroyed' <=> Destroyed
      PROVE  UNCHANGED Service!vars
  BY <1>1, IsStutter DEF Phase
<1>2. ASSUME NEW c \in Calls, Enter(c)
      PROVE  Service!Next \/ UNCHANGED Service!vars
  <2>1. UNCHANGED <<served, rx>> /\ pc[c] = "new"
    BY <1>2 DEF Enter
  <2>2. CASE stop
    <3>1. pc' = [pc EXCEPT ![c] = "error"]
      BY <1>2, <2>2 DEF Enter
    <3>2. Phase[c] = "new" /\ Phase' = [Phase EXCEPT ![c] = "failed"]
      BY <1>0, <2>1, <3>1, Phases DEF Phase, TypeOK
    <3> QED BY <2>1, <3>2, IsFail
  <2>3. CASE ~stop
    <3>1. pc' = [pc EXCEPT ![c] = "send"]
      BY <1>2, <2>3 DEF Enter
    <3>2. UNCHANGED Phase
      BY <1>0, <2>1, <3>1, Phases DEF Phase, TypeOK
    <3> QED BY <2>1, <3>2, IsStutter DEF Destroyed
  <2> QED BY <2>2, <2>3
<1>3. ASSUME NEW c \in Calls, Send(c) PROVE Service!Next
  <2>1. UNCHANGED <<served, rx>> /\ pc[c] = "send"
        /\ pc' = [pc EXCEPT ![c] = "await"]
    BY <1>3 DEF Send
  <2>2. ~Destroyed /\ ~Destroyed'
    BY <1>0, <2>1 DEF Guarded, Destroyed
  <2>3. Phase[c] = "new" /\ Phase' = [Phase EXCEPT ![c] = "asked"]
    BY <1>0, <2>1, Phases DEF Phase, TypeOK
  <2> QED BY <2>1, <2>2, <2>3, IsAsk
<1>4. ASSUME NEW c \in Calls, Await(c) \/ Timeout(c) PROVE Service!Next
  <2>1. UNCHANGED <<served, rx>> /\ pc[c] = "await"
    BY <1>4 DEF Await, Timeout
  <2>2. CASE pc' = [pc EXCEPT ![c] = "failed"]
    <3>1. Phase[c] = "asked" /\ Phase' = [Phase EXCEPT ![c] = "failed"]
      BY <1>0, <2>1, <2>2, Phases DEF Phase, TypeOK
    <3> QED BY <2>1, <3>1, IsFail
  <2>3. CASE chan[c] # NoMessage /\ pc' = [pc EXCEPT ![c] = "answered"]
    <3>1. c \in served
      BY <1>0, <2>3 DEF Traced
    <3>2. Phase[c] = "asked" /\ Phase' = [Phase EXCEPT ![c] = "answered"]
      BY <1>0, <2>1, <2>3, Phases DEF Phase, TypeOK
    <3> QED BY <2>1, <3>1, <3>2, IsAnswer
  <2> QED BY <1>4, <2>2, <2>3 DEF Await, Timeout
<1>5. ASSUME NEW c \in Calls, Cleanup(c) PROVE UNCHANGED Service!vars
  <2>1. UNCHANGED <<served, rx>>
    BY <1>5 DEF Cleanup
  <2>2. UNCHANGED Phase
    <3>1. CASE pc[c] = "answered" /\ pc' = [pc EXCEPT ![c] = "ok"]
      BY <1>0, <3>1, Phases DEF Phase, TypeOK
    <3>2. CASE pc[c] = "failed" /\ pc' = [pc EXCEPT ![c] = "error"]
      BY <1>0, <3>2, Phases DEF Phase, TypeOK
    <3> QED BY <1>5, <3>1, <3>2 DEF Cleanup
  <2> QED BY <2>1, <2>2, IsStutter DEF Destroyed
<1>6. ASSUME Check \/ Receive \/ Take \/ Deliver \/ Update \/ Finish
      PROVE  UNCHANGED Service!vars
  BY <1>1, <1>6 DEF Check, Receive, Take, Deliver, Update, Finish, Destroyed
<1>7. ASSUME Destroy PROVE Service!Next
  BY <1>7 DEF Destroy, Destroyed, Service!Next, Service!Destroy
<1>8. ASSUME Watch \/ ParentCancel \/ CloseBegin \/ CloseRest
      PROVE  UNCHANGED Service!vars
  BY <1>1, <1>8 DEF Watch, ParentCancel, CloseBegin, CloseRest, Destroyed
<1>9. ASSUME NEW c \in Calls, TdAnswer(c)
      PROVE  Service!Next \/ UNCHANGED Service!vars
  <2>1. UNCHANGED <<pc, rx>> /\ ~Destroyed /\ c \in asked
        /\ served' = served \cup {c}
    BY <1>9 DEF TdAnswer, Emit
  <2>2. UNCHANGED Phase /\ ~Destroyed'
    BY <2>1 DEF Phase, Destroyed
  <2>3. pc[c] \in {"await", "answered", "failed", "ok", "error"} /\ c \notin served
    BY <1>0, <2>1 DEF Asked, TypeOK, Steps
  <2>4. pc[c] \in {"await", "failed", "error"}
    BY <1>0, <2>3 DEF Traced
  <2>5. Phase[c] \in {"asked", "failed"}
    BY <2>4, Phases DEF Phase
  <2> QED BY <2>1, <2>2, <2>5, IsServe
<1>10. ASSUME TdData \/ \E s \in AuthStates : TdAuth(s)
       PROVE  UNCHANGED Service!vars
  BY <1>1, <1>10 DEF TdData, TdAuth, Destroyed
<1>11. ASSUME UNCHANGED vars PROVE UNCHANGED Service!vars
  BY <1>1, <1>11 DEF vars, Destroyed
<1> QED
  BY <1>2, <1>3, <1>4, <1>5, <1>6, <1>7, <1>8, <1>9, <1>10, <1>11
  DEF Next, Caller, CallStep, RxStep, Tdlib

\* The client of rpc.go is, step by step, the service CallService promises to the
\* callers: no request is accepted after the native client is gone, nobody is
\* answered before Telegram answered that request, and a call ends once.
THEOREM ImplementsService ==
    Spec => Service!Init /\ [][Service!Next]_(Service!vars)
<1>1. Init => Service!Init
  BY Phases DEF Init, Service!Init, Destroyed
<1>2. IInv /\ IInv' /\ [Next]_vars => [Service!Next]_(Service!vars)
  BY ServiceStep
<1>3. Spec => []IInv
  BY Invariance
<1> QED BY <1>1, <1>2, <1>3, PTL DEF Spec

-----------------------------------------------------------------------------
(* Browser logins.                                                         *)

\* How far a login got, and what its session is then.
LoginFacts(a) ==
    /\ att[a].profile => att[a].ses = "closed"
    /\ att[a].account => att[a].profile
    /\ att[a].complete => att[a].account
    /\ att[a].issued => att[a].complete
    /\ att[a].gone => att[a].expired \/ att[a].ses = "nil"

\* What maintain has taken out of the map has expired, and it locks nothing else.
SweptFacts(a) ==
    /\ a \in todo => att[a].expired /\ att[a].ses # "unused"
    /\ attMu[a] = Sweeper => a \in todo

\* An open session is in the map or maintain's; the map holds attempts in use.
ReachFacts(a) ==
    /\ att[a].ses \in {"open", "ready"} => a \in W!Listed \cup todo
    /\ a \in W!Listed => att[a].ses # "unused"

AttemptFacts == \A a \in Attempts : LoginFacts(a) /\ SweptFacts(a) /\ ReachFacts(a)

\* A request has an attempt, whose mutex it holds at some steps.
HolderFacts(r) ==
    /\ req[r].step # "idle" =>
          /\ req[r].key \in Keys /\ req[r].att \in Attempts
          /\ att[req[r].att].ses # "unused"
    /\ req[r].step \in W!Inside => attMu[req[r].att] = r
    /\ \A a \in Attempts : attMu[a] = r => req[r].step \in W!Inside /\ req[r].att = a

\* What it knows of the attempt at each step.
StepFacts(r) ==
    /\ req[r].step \notin {"idle", "lock"} => ~att[req[r].att].expired
    /\ req[r].step \notin {"idle", "lock", "delete"} => ~att[req[r].att].issued
    /\ req[r].step = "open" => att[req[r].att].ses = "none"
    /\ req[r].step \in {"drop", "discard"} => att[req[r].att].ses = "nil"
    /\ req[r].step = "attach" => att[req[r].att].profile
    /\ req[r].step = "audit" => att[req[r].att].account
    /\ req[r].step = "issue" => att[req[r].att].complete
    /\ req[r].step = "delete" => att[req[r].att].issued

\* The map holds the attempt under the request's key, as long as the attempt is
\* of use: nobody else deletes the entry.
KeyFacts(r) ==
    /\ req[r].step = "drop" => attempts[req[r].key] = req[r].att
    /\ /\ req[r].step \notin {"idle", "drop", "discard"}
       /\ att[req[r].att].ses # "nil" /\ ~att[req[r].att].expired
       /\ att[req[r].att].issued => req[r].step = "delete"
       => attempts[req[r].key] = req[r].att

RequestFacts ==
    \A r \in Requests : HolderFacts(r) /\ StepFacts(r) /\ KeyFacts(r)

\* An attempt is opened by one request.
OneOpener ==
    \A r, s \in Requests :
        /\ req[r].step \in {"open", "drop", "discard"}
        /\ req[s].step \in {"open", "drop", "discard"}
        /\ req[r].att = req[s].att
        => r = s

\* The limits hold of the map.
MapBounded ==
    /\ IsFiniteSet(W!Listed) /\ Cardinality(W!Listed) <= MaxAll
    /\ \A ip \in Addresses : Cardinality(W!Same(ip)) <= MaxSame

LoginInv == W!TypeOK /\ AttemptFacts /\ RequestFacts /\ OneOpener /\ MapBounded

-----------------------------------------------------------------------------
ReqType == [step : W!Steps, key : Keys \cup {None}, att : Attempts \cup {None}]

LoginTypes ==
    /\ attempts \in [Keys -> Attempts \cup {None}]
    /\ att \in [Attempts -> W!Records]
    /\ attMu \in [Attempts -> Requests \cup {Sweeper, None}]
    /\ req \in [Requests -> ReqType]
    /\ todo \in SUBSET Attempts

\* The instance's count of a set is the library's.
LEMMA SameCount ==
    ASSUME NEW S PROVE W!Cardinality(S) = Cardinality(S)
  BY DEF W!Cardinality, Cardinality

LEMMA Apart ==
    /\ None \notin Attempts /\ None \notin Requests /\ Sweeper \notin Requests
    /\ Sweeper # None /\ MaxAll \in Nat /\ MaxSame \in Nat
  BY LoginOK DEF W!LoginAssumption

LEMMA LoginParts ==
    ASSUME LoginInv
    PROVE  /\ LoginTypes /\ OneOpener /\ MapBounded
           /\ \A a \in Attempts : LoginFacts(a) /\ SweptFacts(a) /\ ReachFacts(a)
           /\ \A r \in Requests : HolderFacts(r) /\ StepFacts(r) /\ KeyFacts(r)
  BY DEF LoginInv, W!TypeOK, LoginTypes, ReqType, AttemptFacts, RequestFacts

LEMMA LoginJoin ==
    ASSUME LoginTypes', AttemptFacts', RequestFacts', OneOpener', MapBounded'
    PROVE  LoginInv'
<1>1. ASSUME NEW r \in Requests
      PROVE  req'[r].step \in W!Inside <=> \E a \in Attempts : attMu'[a] = r
  <2>1. HolderFacts(r)'
    BY DEF RequestFacts
  <2>2. req'[r].step \in W!Inside => req'[r].step # "idle"
    BY DEF W!Inside
  <2> QED
    BY <2>1, <2>2 DEF HolderFacts
<1>2. W!TypeOK'
  BY <1>1 DEF W!TypeOK, LoginTypes, ReqType
<1> QED
  BY <1>2 DEF LoginInv

LEMMA ReqFields ==
    ASSUME LoginTypes, NEW r \in Requests
    PROVE  /\ req[r] \in ReqType /\ req[r].step \in W!Steps
           /\ req[r].key \in Keys \cup {None} /\ req[r].att \in Attempts \cup {None}
  BY DEF LoginTypes, ReqType

LEMMA StepKinds ==
    /\ "idle" \notin W!Inside /\ "lock" \notin W!Inside /\ "drop" \notin W!Inside
    /\ "discard" \notin W!Inside /\ W!Inside \subseteq W!Steps
    /\ "idle" \in W!Steps /\ "lock" \in W!Steps /\ "drop" \in W!Steps
    /\ "discard" \in W!Steps
    /\ \A s \in W!Steps : s \in W!Inside \cup {"idle", "drop", "discard", "lock"}
    /\ W!NoRequest \in ReqType /\ W!NoRequest.step = "idle"
    /\ W!Unused \in W!Records /\ W!Unused.ses = "unused"
  BY DEF W!Inside, W!Steps, W!NoRequest, ReqType, W!Unused, W!Records, W!Sessions

\* A set that is part of another has no more elements.
LEMMA NoMore ==
    ASSUME NEW S, IsFiniteSet(S), NEW T, T \subseteq S, NEW n \in Nat,
           Cardinality(S) <= n
    PROVE  IsFiniteSet(T) /\ Cardinality(T) <= n
<1>1. IsFiniteSet(T) /\ Cardinality(T) <= Cardinality(S)
  BY FS_Subset
<1>2. Cardinality(T) \in Nat /\ Cardinality(S) \in Nat
  BY <1>1, FS_CardinalityType
<1> QED
  BY <1>1, <1>2

\* One attempt changes, and at most one request r with it; the map does not.
LEMMA OneAttempt ==
    ASSUME LoginInv, NEW a \in Attempts, NEW r,
           att' \in [Attempts -> W!Records],
           \A b \in Attempts \ {a} : att'[b] = att[b],
           att'[a].ip = att[a].ip, att'[a].ses # "unused",
           /\ att'[a].ses # "nil" /\ ~att'[a].expired /\ ~att'[a].issued
           => att[a].ses # "nil" /\ ~att[a].expired /\ ~att[a].issued,
           req' \in [Requests -> ReqType],
           \A s \in Requests \ {r} : req'[s] = req[s],
           \A s \in Requests \ {r} :
              req[s].step # "idle" /\ req[s].att = a => StepFacts(s)',
           attMu' \in [Attempts -> Requests \cup {Sweeper, None}],
           \A b \in Attempts \ {a} : attMu'[b] = attMu[b],
           \/ attMu'[a] = attMu[a]
           \/ {attMu[a], attMu'[a]} \subseteq {r, Sweeper, None},
           attempts' = attempts, todo' \in {todo, todo \ {a}},
           LoginFacts(a)', SweptFacts(a)', ReachFacts(a)',
           r \in Requests =>
              /\ HolderFacts(r)' /\ StepFacts(r)' /\ KeyFacts(r)'
              /\ req'[r].step \in {"open", "drop", "discard"}
                 => /\ req[r].step \in {"open", "drop", "discard"}
                    /\ req'[r].att = req[r].att
    PROVE  LoginInv'
<1>1. /\ LoginTypes /\ OneOpener /\ MapBounded
      /\ \A b \in Attempts : LoginFacts(b) /\ SweptFacts(b) /\ ReachFacts(b)
      /\ \A s \in Requests : HolderFacts(s) /\ StepFacts(s) /\ KeyFacts(s)
  BY LoginParts
<1>2. LoginTypes'
  BY <1>1 DEF LoginTypes
<1>3. W!Listed' = W!Listed
  BY DEF W!Listed
<1>4. AttemptFacts'
  <2>1. ASSUME NEW b \in Attempts \ {a}
        PROVE  LoginFacts(b)' /\ SweptFacts(b)' /\ ReachFacts(b)'
    <3>1. LoginFacts(b) /\ SweptFacts(b) /\ ReachFacts(b)
      BY <1>1
    <3>2. att'[b] = att[b] /\ attMu'[b] = attMu[b] /\ (b \in todo' <=> b \in todo)
      OBVIOUS
    <3>3. LoginFacts(b)'
      BY <3>1, <3>2 DEF LoginFacts
    <3>4. SweptFacts(b)'
      BY <3>1, <3>2 DEF SweptFacts
    <3>5. ReachFacts(b)'
      BY <1>3, <3>1, <3>2 DEF ReachFacts
    <3> QED
      BY <3>3, <3>4, <3>5
  <2> QED
    BY <2>1 DEF AttemptFacts
<1>5. RequestFacts'
  <2>1. ASSUME NEW s \in Requests \ {r}
        PROVE  HolderFacts(s)' /\ StepFacts(s)' /\ KeyFacts(s)'
    <3>1. HolderFacts(s) /\ StepFacts(s) /\ KeyFacts(s)
      BY <1>1
    <3>2. req'[s] = req[s] /\ attempts' = attempts
      OBVIOUS
    <3>3. CASE req[s].step = "idle"
      <4>1. \A b \in Attempts : attMu'[b] # s
        <5>1. \A b \in Attempts : attMu[b] # s
          BY <3>1, <3>3, StepKinds DEF HolderFacts
        <5> QED
          BY <5>1, Apart
      <4>2. HolderFacts(s)'
        BY <3>2, <3>3, <4>1, StepKinds DEF HolderFacts
      <4>3. StepFacts(s)' /\ KeyFacts(s)'
        BY <3>2, <3>3 DEF StepFacts, KeyFacts
      <4> QED
        BY <4>2, <4>3
    <3>4. CASE req[s].step # "idle"
      <4>0. PICK b \in Attempts : b = req[s].att
        BY <3>1, <3>4 DEF HolderFacts
      <4>1. HolderFacts(s)'
        <5>1. att'[b].ses # "unused"
          BY <3>1, <3>4, <4>0 DEF HolderFacts
        <5>2. req[s].step \in W!Inside => attMu'[b] = s
          BY <3>1, <4>0, Apart DEF HolderFacts
        <5>3. \A d \in Attempts : attMu'[d] = s => attMu[d] = s
          BY Apart
        <5> QED
          BY <3>1, <3>2, <3>4, <4>0, <5>1, <5>2, <5>3 DEF HolderFacts
      <4>2. StepFacts(s)'
        <5>1. CASE b = a
          BY <3>4, <4>0, <5>1
        <5>2. CASE b # a
          <6>1. att'[b] = att[b]
            BY <5>2
          <6> QED
            BY <3>1, <3>2, <4>0, <6>1 DEF StepFacts
        <5> QED
          BY <5>1, <5>2
      <4>3. KeyFacts(s)'
        <5>1. CASE b # a
          <6>1. att'[b] = att[b]
            BY <5>1
          <6> QED
            BY <3>1, <3>2, <4>0, <6>1 DEF KeyFacts
        <5>2. CASE b = a
          <6>1. req[s].step = "drop" => attempts[req[s].key] = req[s].att
            BY <3>1 DEF KeyFacts
          <6>2. CASE req[s].step = "delete"
            <7>1. attempts[req[s].key] = req[s].att
              <8>1. att[b].issued /\ ~att[b].expired
                BY <3>1, <4>0, <6>2 DEF StepFacts
              <8>2. att[b].ses = "closed"
                BY <1>1, <8>1 DEF LoginFacts
              <8> QED
                BY <3>1, <4>0, <6>2, <8>1, <8>2 DEF KeyFacts
            <7> QED
              BY <3>2, <6>2, <7>1 DEF KeyFacts
          <6>3. CASE req[s].step # "delete"
            BY <3>1, <3>2, <4>0, <5>2, <6>1, <6>3 DEF KeyFacts
          <6> QED
            BY <6>2, <6>3
        <5> QED
          BY <5>1, <5>2
      <4> QED
        BY <4>1, <4>2, <4>3
    <3> QED
      BY <3>3, <3>4
  <2> QED
    BY <2>1 DEF RequestFacts
<1>6. OneOpener'
  BY <1>1 DEF OneOpener
<1>7. MapBounded'
  <2>1. \A b \in Attempts : att'[b].ip = att[b].ip
    OBVIOUS
  <2>2. \A ip \in Addresses : W!Same(ip)' = W!Same(ip)
    BY <1>3, <2>1 DEF W!Same, W!Listed
  <2> QED
    BY <1>1, <1>3, <2>2 DEF MapBounded
<1> QED
  BY <1>2, <1>4, <1>5, <1>6, <1>7, LoginJoin

-----------------------------------------------------------------------------
LEMMA MovesTo ==
    ASSUME LoginTypes, NEW r \in Requests, NEW st \in W!Steps, W!To(r, st)
    PROVE  /\ req' \in [Requests -> ReqType]
           /\ req'[r].step = st /\ req'[r].key = req[r].key
           /\ req'[r].att = req[r].att
           /\ \A s \in Requests \ {r} : req'[s] = req[s]
<1>1. req[r] \in ReqType /\ req \in [Requests -> ReqType]
  BY DEF LoginTypes
<1>2. [req[r] EXCEPT !.step = st] \in ReqType
  BY <1>1 DEF ReqType
<1>3. req' = [req EXCEPT ![r] = [req[r] EXCEPT !.step = st]]
  BY DEF W!To
<1>4. req'[r] = [req[r] EXCEPT !.step = st]
  BY <1>1, <1>3
<1>5. req'[r].step = st /\ req'[r].key = req[r].key /\ req'[r].att = req[r].att
  BY <1>1, <1>4 DEF ReqType
<1> QED
  BY <1>1, <1>2, <1>3, <1>5

LEMMA MovesOut ==
    ASSUME LoginTypes, NEW r \in Requests, W!Ends(r)
    PROVE  /\ req' \in [Requests -> ReqType] /\ req'[r].step = "idle"
           /\ \A s \in Requests \ {r} : req'[s] = req[s]
  BY StepKinds DEF LoginTypes, W!Ends

\* At an attempt's mutex, the others wait or give the attempt up.
LEMMA OthersWait ==
    ASSUME LoginInv, NEW r \in Requests, req[r].step \in W!Inside
    PROVE  /\ req[r].att \in Attempts /\ req[r].key \in Keys
           /\ attMu[req[r].att] = r /\ att[req[r].att].ses # "unused"
           /\ ~att[req[r].att].expired /\ req[r].att \notin todo
           /\ \A s \in Requests \ {r} :
                 req[s].step # "idle" /\ req[s].att = req[r].att
                 => /\ req[s].step \in {"lock", "drop", "discard"}
                    /\ att[req[r].att].ses # "nil" => req[s].step = "lock"
<1>1. HolderFacts(r) /\ StepFacts(r)
      /\ \A s \in Requests : HolderFacts(s) /\ StepFacts(s)
  BY LoginParts
<1>2. req[r].att \in Attempts /\ req[r].key \in Keys
      /\ attMu[req[r].att] = r /\ att[req[r].att].ses # "unused"
      /\ ~att[req[r].att].expired
  BY <1>1, StepKinds DEF HolderFacts, StepFacts
<1>3. req[r].att \notin todo
  BY <1>2, LoginParts DEF SweptFacts
<1>4. ASSUME NEW s \in Requests \ {r}, req[s].step # "idle", req[s].att = req[r].att
      PROVE  /\ req[s].step \in {"lock", "drop", "discard"}
             /\ att[req[r].att].ses # "nil" => req[s].step = "lock"
  <2>1. req[s].step \notin W!Inside
    BY <1>1, <1>2, <1>4 DEF HolderFacts
  <2>2. req[s].step \in W!Steps
    BY LoginParts, ReqFields
  <2> QED
    BY <1>1, <1>4, <2>1, <2>2, StepKinds DEF StepFacts
<1> QED
  BY <1>2, <1>3, <1>4

\* Waiting knows nothing of the attempt.
LEMMA WaitersKnowNothing ==
    ASSUME NEW s \in Requests, req'[s].step = "lock"
    PROVE  StepFacts(s)'
  BY DEF StepFacts

\* A request that holds its attempt's mutex goes on to another such step, and
\* writes the attempt.
LEMMA GoesOn ==
    ASSUME LoginInv, NEW r \in Requests,
           req[r].step \in W!Inside \ {"open", "delete"},
           NEW st \in W!Inside \ {"open"}, W!To(r, st),
           NEW a \in Attempts, a = req[r].att, NEW x \in W!Records,
           att' = [att EXCEPT ![a] = x],
           att[a].ses # "nil" \/ x = att[a],
           x.ip = att[a].ip, x.expired = att[a].expired,
           x.ses \notin {"unused", "nil"} \/ x = att[a],
           LoginFacts(a)', x.ses \in {"open", "ready"} => x.ses = att[a].ses,
           StepFacts(r)',
           UNCHANGED <<attempts, attMu, todo>>
    PROVE  LoginInv'
<1>1. /\ LoginTypes /\ LoginFacts(a) /\ SweptFacts(a) /\ ReachFacts(a)
      /\ HolderFacts(r) /\ StepFacts(r) /\ KeyFacts(r)
      /\ \A s \in Requests : StepFacts(s)
  BY LoginParts
<1>2. /\ attMu[a] = r /\ att[a].ses # "unused" /\ ~att[a].expired
      /\ req[r].key \in Keys
      /\ \A s \in Requests \ {r} :
            req[s].step # "idle" /\ req[s].att = a
            => /\ req[s].step \in {"lock", "drop", "discard"}
               /\ att[a].ses # "nil" => req[s].step = "lock"
  BY OthersWait
<1>3. /\ req' \in [Requests -> ReqType]
      /\ req'[r].step = st /\ req'[r].key = req[r].key /\ req'[r].att = a
      /\ \A s \in Requests \ {r} : req'[s] = req[s]
  BY <1>1, MovesTo, StepKinds
<1>4. /\ att' \in [Attempts -> W!Records] /\ att'[a] = x
      /\ \A b \in Attempts \ {a} : att'[b] = att[b]
  BY <1>1 DEF LoginTypes
<1>5. ~att[a].issued
  BY <1>1, StepKinds DEF StepFacts
<1>6. ASSUME NEW s \in Requests \ {r}, req[s].step # "idle", req[s].att = a
      PROVE  StepFacts(s)'
  <2>1. CASE req[s].step = "lock"
    BY <1>3, <2>1, WaitersKnowNothing
  <2>2. CASE req[s].step # "lock"
    <3>1. x = att[a]
      BY <1>2, <1>6, <2>2
    <3> QED
      BY <1>1, <1>3, <1>4, <1>6, <3>1 DEF StepFacts
  <2> QED
    BY <2>1, <2>2
<1>7. SweptFacts(a)' /\ ReachFacts(a)'
  <2>1. W!Listed' = W!Listed
    BY DEF W!Listed
  <2>2. SweptFacts(a)'
    BY <1>1, <1>2, <1>4, Apart DEF SweptFacts
  <2>3. att'[a].ses # "unused"
    BY <1>2, <1>4
  <2>4. ReachFacts(a)'
    BY <1>1, <1>4, <2>1, <2>3 DEF ReachFacts
  <2> QED
    BY <2>2, <2>4
<1>8. HolderFacts(r)'
  <2>1. att'[a].ses # "unused"
    BY <1>2, <1>4
  <2> QED
    BY <1>1, <1>2, <1>3, <2>1, StepKinds DEF HolderFacts
<1>9. KeyFacts(r)'
  <2>1. att[a].ses # "nil" => attempts[req[r].key] = a
    BY <1>1, <1>2, <1>5, StepKinds DEF KeyFacts
  <2> QED
    BY <1>3, <1>4, <2>1, StepKinds DEF KeyFacts
<1>10. req'[r].step \notin {"open", "drop", "discard"}
  BY <1>3, StepKinds
<1>12. x.ses # "nil" /\ ~x.expired /\ ~x.issued
       => att[a].ses # "nil" /\ ~att[a].expired /\ ~att[a].issued
  BY <1>2, <1>5
<1>13. \A s \in Requests \ {r} :
           req[s].step # "idle" /\ req[s].att = a => StepFacts(s)'
  BY <1>6
<1>14. attMu' \in [Attempts -> Requests \cup {Sweeper, None}] /\ attMu' = attMu
  BY <1>1 DEF LoginTypes
<1> QED
  BY <1>2, <1>3, <1>4, <1>7, <1>8, <1>9, <1>10, <1>12, <1>13, <1>14, OneAttempt

LEMMA ChooseStep ==
    ASSUME LoginInv, NEW r \in Requests, W!Choose(r)
    PROVE  LoginInv'
<1>1. /\ LoginTypes
      /\ \A b \in Attempts : LoginFacts(b)
      /\ StepFacts(r)
  BY LoginParts
<1>2. req[r].step = "inside" /\ req[r].step \in W!Inside \ {"open", "delete"}
      /\ UNCHANGED <<attempts, att, attMu, todo>>
  BY DEF W!Choose, W!Inside
<1>3. PICK a \in Attempts : a = req[r].att
  BY <1>2, OthersWait
<1>4. PICK st \in {"authorize", "profile", "attach", "audit", "issue"} :
          /\ W!To(r, st)
          /\ st = "attach" => att[a].profile
          /\ st = "audit" => att[a].account
          /\ st = "issue" => att[a].complete
  BY <1>3 DEF W!Choose
<1>5. st \in W!Inside \ {"open"} /\ st \in W!Steps
  BY DEF W!Inside, W!Steps
<1>6. req'[r].step = st /\ req'[r].att = a
  BY <1>1, <1>3, <1>4, <1>5, MovesTo
<1>7. StepFacts(r)'
  BY <1>1, <1>2, <1>3, <1>4, <1>6 DEF StepFacts
<1>8. PICK x \in W!Records : x = att[a]
  BY <1>1 DEF LoginTypes
<1>9. att' = [att EXCEPT ![a] = x]
  BY <1>1, <1>2, <1>8 DEF LoginTypes
<1>10. LoginFacts(a)'
  BY <1>1, <1>2 DEF LoginFacts
<1> QED
  BY <1>2, <1>3, <1>4, <1>5, <1>7, <1>8, <1>9, <1>10, GoesOn

\* The writes of a login: one field, and the session's end with the profile.
LEMMA ProgressStep ==
    ASSUME LoginInv, NEW r \in Requests,
           W!Profile(r) \/ W!Attach(r) \/ W!Audit(r) \/ W!Issue(r)
    PROVE  LoginInv'
<1>1. /\ LoginTypes /\ \A b \in Attempts : LoginFacts(b)
      /\ StepFacts(r)
  BY LoginParts
<1>2. /\ req[r].step \in {"profile", "attach", "audit", "issue"}
      /\ req[r].step \in W!Inside \ {"open", "delete"}
      /\ UNCHANGED <<attempts, attMu, todo>>
  BY DEF W!Profile, W!Attach, W!Audit, W!Issue, W!Inside
<1>3. PICK a \in Attempts : a = req[r].att
  BY <1>2, OthersWait
<1>4. att[a].ses # "unused" /\ ~att[a].expired /\ ~att[a].issued /\ LoginFacts(a)
      /\ att[a] \in W!Records
  BY <1>1, <1>2, <1>3, OthersWait DEF StepFacts, LoginTypes
<1>5. CASE W!Profile(r)
  <2>1. req[r].step = "profile" /\ att[a].ses = "ready" /\ W!To(r, "attach")
    BY <1>3, <1>5 DEF W!Profile
  <2>2. PICK x : x = [att[a] EXCEPT !.profile = TRUE, !.ses = "closed"]
    OBVIOUS
  <2>3. att' = [att EXCEPT ![a] = x]
    BY <1>1, <1>3, <1>5, <2>2 DEF W!Profile, LoginTypes
  <2>4. /\ x \in W!Records /\ x.profile /\ x.ses = "closed" /\ x.ip = att[a].ip
        /\ x.expired = att[a].expired /\ x.account = att[a].account
        /\ x.complete = att[a].complete /\ x.issued = att[a].issued
        /\ x.gone = att[a].gone
    BY <1>4, <2>2 DEF W!Records, W!Sessions
  <2>5. req'[r].step = "attach" /\ req'[r].att = a /\ att'[a] = x
    BY <1>1, <1>3, <2>1, <2>3, MovesTo DEF W!Steps, W!Inside, LoginTypes
  <2>6. LoginFacts(a)'
    BY <1>4, <2>1, <2>4, <2>5 DEF LoginFacts
  <2>7. StepFacts(r)'
    BY <1>4, <2>4, <2>5 DEF StepFacts
  <2> QED
    BY <1>2, <1>3, <2>1, <2>3, <2>4, <2>6, <2>7, GoesOn DEF W!Inside
<1>6. CASE W!Attach(r)
  <2>1. req[r].step = "attach" /\ W!To(r, "audit")
    BY <1>6 DEF W!Attach
  <2>2. PICK x : x = [att[a] EXCEPT !.account = TRUE]
    OBVIOUS
  <2>3. att' = [att EXCEPT ![a] = x]
    BY <1>1, <1>3, <1>6, <2>2 DEF W!Attach, LoginTypes
  <2>4. /\ x \in W!Records /\ x.account /\ x.ses = att[a].ses /\ x.ip = att[a].ip
        /\ x.expired = att[a].expired /\ x.profile = att[a].profile
        /\ x.complete = att[a].complete /\ x.issued = att[a].issued
        /\ x.gone = att[a].gone
    BY <1>4, <2>2 DEF W!Records
  <2>5. req'[r].step = "audit" /\ req'[r].att = a /\ att'[a] = x
    BY <1>1, <1>3, <2>1, <2>3, MovesTo DEF W!Steps, W!Inside, LoginTypes
  <2>6. att[a].profile /\ att[a].ses = "closed"
    BY <1>1, <1>3, <1>4, <2>1 DEF StepFacts, LoginFacts
  <2>7. LoginFacts(a)'
    BY <1>4, <2>4, <2>5, <2>6 DEF LoginFacts
  <2>8. StepFacts(r)'
    BY <1>4, <2>4, <2>5 DEF StepFacts
  <2> QED
    BY <1>2, <1>3, <2>1, <2>3, <2>4, <2>6, <2>7, <2>8, GoesOn DEF W!Inside
<1>7. CASE W!Audit(r)
  <2>1. req[r].step = "audit" /\ W!To(r, "issue")
    BY <1>7 DEF W!Audit
  <2>2. PICK x : x = [att[a] EXCEPT !.complete = TRUE]
    OBVIOUS
  <2>3. att' = [att EXCEPT ![a] = x]
    BY <1>1, <1>3, <1>7, <2>2 DEF W!Audit, LoginTypes
  <2>4. /\ x \in W!Records /\ x.complete /\ x.ses = att[a].ses /\ x.ip = att[a].ip
        /\ x.expired = att[a].expired /\ x.profile = att[a].profile
        /\ x.account = att[a].account /\ x.issued = att[a].issued
        /\ x.gone = att[a].gone
    BY <1>4, <2>2 DEF W!Records
  <2>5. req'[r].step = "issue" /\ req'[r].att = a /\ att'[a] = x
    BY <1>1, <1>3, <2>1, <2>3, MovesTo DEF W!Steps, W!Inside, LoginTypes
  <2>6. att[a].account /\ att[a].ses = "closed"
    BY <1>1, <1>3, <1>4, <2>1 DEF StepFacts, LoginFacts
  <2>7. LoginFacts(a)'
    BY <1>4, <2>4, <2>5, <2>6 DEF LoginFacts
  <2>8. StepFacts(r)'
    BY <1>4, <2>4, <2>5 DEF StepFacts
  <2> QED
    BY <1>2, <1>3, <2>1, <2>3, <2>4, <2>6, <2>7, <2>8, GoesOn DEF W!Inside
<1>8. CASE W!Issue(r)
  <2>1. req[r].step = "issue" /\ W!To(r, "delete")
    BY <1>8 DEF W!Issue
  <2>2. PICK x : x = [att[a] EXCEPT !.issued = TRUE]
    OBVIOUS
  <2>3. att' = [att EXCEPT ![a] = x]
    BY <1>1, <1>3, <1>8, <2>2 DEF W!Issue, LoginTypes
  <2>4. /\ x \in W!Records /\ x.issued /\ x.ses = att[a].ses /\ x.ip = att[a].ip
        /\ x.expired = att[a].expired /\ x.profile = att[a].profile
        /\ x.account = att[a].account /\ x.complete = att[a].complete
        /\ x.gone = att[a].gone
    BY <1>4, <2>2 DEF W!Records
  <2>5. req'[r].step = "delete" /\ req'[r].att = a /\ att'[a] = x
    BY <1>1, <1>3, <2>1, <2>3, MovesTo DEF W!Steps, W!Inside, LoginTypes
  <2>6. att[a].complete /\ att[a].ses = "closed"
    BY <1>1, <1>3, <1>4, <2>1 DEF StepFacts, LoginFacts
  <2>7. LoginFacts(a)'
    BY <1>4, <2>4, <2>5, <2>6 DEF LoginFacts
  <2>8. StepFacts(r)'
    BY <1>4, <2>4, <2>5 DEF StepFacts
  <2> QED
    BY <1>2, <1>3, <2>1, <2>3, <2>4, <2>6, <2>7, <2>8, GoesOn DEF W!Inside
<1> QED
  BY <1>5, <1>6, <1>7, <1>8

\* A request leaves its attempt's mutex: what is left is about the attempt.
LEMMA LeavesAttempt ==
    ASSUME LoginInv, NEW r \in Requests, req[r].step \in W!Inside,
           NEW a \in Attempts, a = req[r].att, NEW x \in W!Records,
           att' = [att EXCEPT ![a] = x], attMu' = [attMu EXCEPT ![a] = None],
           att[a].ses # "nil" \/ x = att[a],
           x.ip = att[a].ip, x.expired = att[a].expired, x.ses # "unused",
           att[a].issued => x.issued,
           LoginFacts(a)', ReachFacts(a)',
           req' \in [Requests -> ReqType],
           \A s \in Requests \ {r} : req'[s] = req[s],
           \/ req'[r].step = "idle"
           \/ /\ req'[r].step = "drop" /\ req'[r].att = a
              /\ req[r].step = "open" /\ req'[r].key = req[r].key /\ x.ses = "nil"
              /\ attempts[req[r].key] = a /\ ~x.issued,
           UNCHANGED <<attempts, todo>>
    PROVE  LoginInv'
<1>1. /\ LoginTypes /\ LoginFacts(a) /\ SweptFacts(a) /\ ReachFacts(a)
      /\ HolderFacts(r) /\ StepFacts(r) /\ KeyFacts(r)
      /\ \A s \in Requests : StepFacts(s)
  BY LoginParts
<1>2. /\ attMu[a] = r /\ att[a].ses # "unused" /\ ~att[a].expired
      /\ req[r].key \in Keys
      /\ a \notin todo
      /\ \A s \in Requests \ {r} :
            req[s].step # "idle" /\ req[s].att = a
            => /\ req[s].step \in {"lock", "drop", "discard"}
               /\ att[a].ses # "nil" => req[s].step = "lock"
  BY OthersWait
<1>3. /\ att' \in [Attempts -> W!Records] /\ att'[a] = x
      /\ \A b \in Attempts \ {a} : att'[b] = att[b]
      /\ attMu' \in [Attempts -> Requests \cup {Sweeper, None}] /\ attMu'[a] = None
      /\ \A b \in Attempts \ {a} : attMu'[b] = attMu[b]
  BY <1>1 DEF LoginTypes
<1>4. ASSUME NEW s \in Requests \ {r}, req[s].step # "idle", req[s].att = a
      PROVE  StepFacts(s)'
  <2>1. CASE req[s].step = "lock"
    BY <2>1, WaitersKnowNothing
  <2>2. CASE req[s].step # "lock"
    <3>1. x = att[a]
      BY <1>2, <1>4, <2>2
    <3> QED
      BY <1>1, <1>3, <1>4, <3>1 DEF StepFacts
  <2> QED
    BY <2>1, <2>2
<1>5. \A s \in Requests \ {r} :
          req[s].step # "idle" /\ req[s].att = a => StepFacts(s)'
  BY <1>4
<1>6. SweptFacts(a)'
  BY <1>2, <1>3, Apart DEF SweptFacts
<1>7. \A b \in Attempts : attMu'[b] # r
  BY <1>1, <1>2, <1>3, Apart DEF HolderFacts
<1>8. HolderFacts(r)' /\ StepFacts(r)' /\ KeyFacts(r)'
  <2>1. CASE req'[r].step = "idle"
    <3>1. HolderFacts(r)'
      BY <1>7, <2>1, StepKinds DEF HolderFacts
    <3>2. StepFacts(r)' /\ KeyFacts(r)'
      BY <2>1 DEF StepFacts, KeyFacts
    <3> QED
      BY <3>1, <3>2
  <2>2. CASE /\ req'[r].step = "drop" /\ req'[r].att = a
             /\ req[r].step = "open" /\ req'[r].key = req[r].key /\ x.ses = "nil"
             /\ attempts[req[r].key] = a /\ ~x.issued
    <3>1. HolderFacts(r)'
      BY <1>2, <1>3, <1>7, <2>2, StepKinds DEF HolderFacts
    <3>2. StepFacts(r)'
      BY <1>2, <1>3, <2>2 DEF StepFacts
    <3>3. KeyFacts(r)'
      BY <2>2 DEF KeyFacts
    <3> QED
      BY <3>1, <3>2, <3>3
  <2> QED
    BY <2>1, <2>2
<1>9. req'[r].step \in {"open", "drop", "discard"}
      => req[r].step \in {"open", "drop", "discard"} /\ req'[r].att = req[r].att
  OBVIOUS
<1>10. /\ x.ses # "nil" /\ ~x.expired /\ ~x.issued
       => att[a].ses # "nil" /\ ~att[a].expired /\ ~att[a].issued
  BY <1>2
<1> QED
  BY <1>2, <1>3, <1>5, <1>6, <1>8, <1>9, <1>10, OneAttempt

LEMMA OpenStep ==
    ASSUME LoginInv, NEW r \in Requests, W!Opened(r) \/ W!OpenFailed(r)
    PROVE  LoginInv'
<1>1. /\ LoginTypes /\ StepFacts(r) /\ KeyFacts(r)
      /\ \A b \in Attempts : LoginFacts(b) /\ ReachFacts(b)
  BY LoginParts
<1>2. /\ req[r].step = "open" /\ req[r].step \in W!Inside
      /\ UNCHANGED <<attempts, todo>>
  BY DEF W!Opened, W!OpenFailed, W!Inside
<1>3. PICK a \in Attempts : a = req[r].att
  BY <1>2, OthersWait
<1>4. /\ att[a].ses = "none" /\ ~att[a].expired /\ ~att[a].issued
      /\ LoginFacts(a) /\ att[a] \in W!Records /\ req[r].key \in Keys
  BY <1>1, <1>2, <1>3, OthersWait DEF StepFacts, LoginTypes
<1>5. attempts[req[r].key] = a
  BY <1>1, <1>2, <1>3, <1>4 DEF KeyFacts
<1>6. a \in W!Listed /\ W!Listed' = W!Listed
  BY <1>2, <1>4, <1>5 DEF W!Listed
<1>7. PICK v \in {"open", "nil"} :
          /\ att' = [att EXCEPT ![req[r].att].ses = v]
          /\ attMu' = [attMu EXCEPT ![a] = None]
          /\ v = "open" => W!Ends(r)
          /\ v = "nil" => W!To(r, "drop")
  BY <1>3 DEF W!Opened, W!OpenFailed, W!Leave
<1>8. PICK x : x = [att[a] EXCEPT !.ses = v]
  OBVIOUS
<1>9. att' = [att EXCEPT ![a] = x]
  BY <1>1, <1>3, <1>7, <1>8 DEF LoginTypes
<1>10. /\ x \in W!Records /\ x.ses = v /\ x.ip = att[a].ip
       /\ x.expired = att[a].expired /\ x.profile = att[a].profile
       /\ x.account = att[a].account /\ x.complete = att[a].complete
       /\ x.issued = att[a].issued /\ x.gone = att[a].gone
  BY <1>4, <1>8 DEF W!Records, W!Sessions
<1>11. att'[a] = x
  BY <1>1, <1>9 DEF LoginTypes
<1>12. LoginFacts(a)'
  BY <1>4, <1>10, <1>11 DEF LoginFacts
<1>13. ReachFacts(a)'
  BY <1>6, <1>10, <1>11 DEF ReachFacts
<1>14. CASE v = "open"
  <2>1. /\ req' \in [Requests -> ReqType] /\ req'[r].step = "idle"
        /\ \A s \in Requests \ {r} : req'[s] = req[s]
    BY <1>1, <1>7, <1>14, MovesOut
  <2> QED
    BY <1>2, <1>3, <1>4, <1>7, <1>9, <1>10, <1>12, <1>13, <1>14, <2>1,
       LeavesAttempt
<1>15. CASE v = "nil"
  <2>1. /\ req' \in [Requests -> ReqType]
        /\ req'[r].step = "drop" /\ req'[r].key = req[r].key
        /\ req'[r].att = req[r].att
        /\ \A s \in Requests \ {r} : req'[s] = req[s]
    BY <1>1, <1>7, <1>15, MovesTo, StepKinds
  <2>2. /\ req'[r].step = "drop" /\ req'[r].att = a
        /\ req[r].step = "open" /\ req'[r].key = req[r].key /\ x.ses = "nil"
        /\ attempts[req[r].key] = a /\ ~x.issued
    BY <1>2, <1>3, <1>4, <1>5, <1>10, <1>15, <2>1
  <2>3. /\ x.ip = att[a].ip /\ x.expired = att[a].expired /\ x.ses # "unused"
        /\ att[a].ses # "nil" /\ (att[a].issued => x.issued)
    BY <1>4, <1>10
  <2> QED
    BY <1>2, <1>3, <1>7, <1>9, <1>10, <1>12, <1>13, <2>1, <2>2, <2>3,
       LeavesAttempt
<1> QED
  BY <1>14, <1>15

LEMMA FailStep ==
    ASSUME LoginInv, NEW r \in Requests, W!Fail(r)
    PROVE  LoginInv'
<1>1. /\ LoginTypes /\ \A b \in Attempts : LoginFacts(b) /\ ReachFacts(b)
  BY LoginParts
<1>2. /\ req[r].step \in W!Inside /\ UNCHANGED <<attempts, att, todo>> /\ W!Ends(r)
      /\ attMu' = [attMu EXCEPT ![req[r].att] = None]
  BY DEF W!Fail, W!Leave
<1>3. PICK a \in Attempts : a = req[r].att
  BY <1>2, OthersWait
<1>4. PICK x \in W!Records : x = att[a]
  BY <1>1 DEF LoginTypes
<1>5. att' = [att EXCEPT ![a] = x]
  BY <1>1, <1>2, <1>4 DEF LoginTypes
<1>6. /\ req' \in [Requests -> ReqType] /\ req'[r].step = "idle"
      /\ \A s \in Requests \ {r} : req'[s] = req[s]
  BY <1>1, <1>2, MovesOut
<1>7. LoginFacts(a)' /\ ReachFacts(a)'
  <2>1. W!Listed' = W!Listed
    BY <1>2 DEF W!Listed
  <2> QED
    BY <1>1, <1>2, <2>1 DEF LoginFacts, ReachFacts
<1>8. x.ses # "unused"
  BY <1>2, <1>3, <1>4, OthersWait
<1> QED
  BY <1>2, <1>3, <1>4, <1>5, <1>6, <1>7, <1>8, LeavesAttempt

\* A request that does not hold a mutex takes one, or does not.
LEMMA EntersAttempt ==
    ASSUME LoginInv, NEW r \in Requests, NEW a \in Attempts,
           att[a].ses # "unused", \A b \in Attempts : attMu[b] # r,
           UNCHANGED <<attempts, att, todo>>,
           req' \in [Requests -> ReqType],
           \A s \in Requests \ {r} : req'[s] = req[s],
           attMu' \in [Attempts -> Requests \cup {Sweeper, None}],
           \A b \in Attempts \ {a} : attMu'[b] = attMu[b],
           attMu'[a] = attMu[a] \/ (attMu[a] = None /\ attMu'[a] = r),
           HolderFacts(r)', StepFacts(r)', KeyFacts(r)',
           req'[r].step \notin {"open", "drop", "discard"}
    PROVE  LoginInv'
<1>1. /\ LoginTypes /\ LoginFacts(a) /\ SweptFacts(a) /\ ReachFacts(a)
      /\ \A s \in Requests : StepFacts(s)
  BY LoginParts
<1>2. W!Listed' = W!Listed
  BY DEF W!Listed
<1>3. LoginFacts(a)' /\ SweptFacts(a)' /\ ReachFacts(a)'
  BY <1>1, <1>2, Apart DEF LoginFacts, SweptFacts, ReachFacts
<1>4. \A s \in Requests \ {r} : StepFacts(s)'
  BY <1>1 DEF StepFacts
<1>5. att' \in [Attempts -> W!Records] /\ att' = att
  BY <1>1 DEF LoginTypes
<1>6. attMu'[a] = attMu[a] \/ {attMu[a], attMu'[a]} \subseteq {r, Sweeper, None}
  OBVIOUS
<1> QED
  BY <1>3, <1>4, <1>5, <1>6, OneAttempt

LEMMA LookStep ==
    ASSUME LoginInv, NEW r \in Requests, NEW k \in Keys, W!Look(r, k)
    PROVE  LoginInv'
<1>1. /\ LoginTypes /\ HolderFacts(r) /\ \A b \in Attempts : ReachFacts(b)
  BY LoginParts
<1>2. PICK a \in Attempts : a = attempts[k]
  BY <1>1 DEF W!Look, LoginTypes
<1>3. /\ req[r].step = "idle" /\ UNCHANGED <<attempts, att, attMu, todo>>
      /\ req' = [req EXCEPT ![r] = [step |-> "lock", key |-> k, att |-> a]]
  BY <1>2, StepKinds DEF W!Look
<1>4. [step |-> "lock", key |-> k, att |-> a] \in ReqType
  BY StepKinds DEF ReqType
<1>5. /\ req' \in [Requests -> ReqType] /\ req'[r].step = "lock"
      /\ req'[r].key = k /\ req'[r].att = a
      /\ \A s \in Requests \ {r} : req'[s] = req[s]
  BY <1>1, <1>3, <1>4 DEF LoginTypes
<1>6. att[a].ses # "unused"
  BY <1>1, <1>2 DEF ReachFacts, W!Listed
<1>7. \A b \in Attempts : attMu[b] # r
  BY <1>1, <1>3, StepKinds DEF HolderFacts
<1>8. HolderFacts(r)'
  BY <1>3, <1>5, <1>6, <1>7, StepKinds DEF HolderFacts
<1>9. StepFacts(r)' /\ KeyFacts(r)'
  BY <1>2, <1>3, <1>5 DEF StepFacts, KeyFacts
<1>10. attMu' \in [Attempts -> Requests \cup {Sweeper, None}] /\ attMu' = attMu
  BY <1>1, <1>3 DEF LoginTypes
<1> QED
  BY <1>3, <1>5, <1>6, <1>7, <1>8, <1>9, <1>10, EntersAttempt

LEMMA EnterStep ==
    ASSUME LoginInv, NEW r \in Requests, W!Enter(r)
    PROVE  LoginInv'
<1>1. /\ LoginTypes /\ HolderFacts(r) /\ KeyFacts(r)
  BY LoginParts
<1>2. /\ req[r].step = "lock" /\ attMu[req[r].att] = None
      /\ UNCHANGED <<attempts, att, todo>>
  BY DEF W!Enter
<1>3. PICK a \in Attempts : a = req[r].att
  BY <1>1, <1>2 DEF HolderFacts
<1>4. att[a].ses # "unused" /\ req[r].key \in Keys
  BY <1>1, <1>2, <1>3 DEF HolderFacts
<1>5. \A b \in Attempts : attMu[b] # r
  BY <1>1, <1>2, StepKinds DEF HolderFacts
<1>6. CASE W!Over(a) \/ att[a].ses = "none"
  <2>1. W!Ends(r) /\ attMu' = attMu
    BY <1>3, <1>6 DEF W!Enter
  <2>2. /\ req' \in [Requests -> ReqType] /\ req'[r].step = "idle"
        /\ \A s \in Requests \ {r} : req'[s] = req[s]
    BY <1>1, <2>1, MovesOut
  <2>3. HolderFacts(r)'
    BY <1>5, <2>1, <2>2, StepKinds DEF HolderFacts
  <2>4. StepFacts(r)' /\ KeyFacts(r)'
    BY <2>2 DEF StepFacts, KeyFacts
  <2>5. attMu' \in [Attempts -> Requests \cup {Sweeper, None}]
    BY <1>1, <2>1 DEF LoginTypes
  <2> QED
    BY <1>2, <1>4, <1>5, <2>1, <2>2, <2>3, <2>4, <2>5, EntersAttempt
<1>7. CASE ~(W!Over(a) \/ att[a].ses = "none")
  <2>1. W!To(r, "inside") /\ attMu' = [attMu EXCEPT ![a] = r]
    BY <1>3, <1>7 DEF W!Enter
  <2>2. /\ req' \in [Requests -> ReqType]
        /\ req'[r].step = "inside" /\ req'[r].key = req[r].key
        /\ req'[r].att = a
        /\ \A s \in Requests \ {r} : req'[s] = req[s]
    BY <1>1, <1>3, <2>1, MovesTo DEF W!Steps, W!Inside
  <2>3. /\ attMu' \in [Attempts -> Requests \cup {Sweeper, None}] /\ attMu'[a] = r
        /\ \A b \in Attempts \ {a} : attMu'[b] = attMu[b]
    BY <1>1, <2>1 DEF LoginTypes
  <2>4. HolderFacts(r)'
    BY <1>2, <1>4, <1>5, <2>2, <2>3 DEF HolderFacts, W!Inside
  <2>5. ~att[a].expired /\ ~att[a].issued
    BY <1>7 DEF W!Over
  <2>6. att[a].ses # "none"
    BY <1>7
  <2>7. StepFacts(r)'
    BY <1>2, <2>2, <2>5 DEF StepFacts
  <2>8. KeyFacts(r)'
    BY <1>1, <1>2, <1>3, <2>2, <2>5 DEF KeyFacts
  <2>9. req'[r].step \notin {"open", "drop", "discard"}
    BY <2>2
  <2>10. attMu[a] = None
    BY <1>2, <1>3
  <2> QED
    BY <1>2, <1>4, <1>5, <2>2, <2>3, <2>4, <2>7, <2>8, <2>9, <2>10, EntersAttempt
<1> QED
  BY <1>6, <1>7

\* Something happens to an attempt that no request is told of.
LEMMA AttemptStep ==
    ASSUME LoginInv, NEW a \in Attempts, NEW x \in W!Records,
           att' = [att EXCEPT ![a] = x], UNCHANGED <<attempts, req>>,
           x.ip = att[a].ip, x.ses # "unused",
           /\ x.ses # "nil" /\ ~x.expired /\ ~x.issued
           => att[a].ses # "nil" /\ ~att[a].expired /\ ~att[a].issued,
           \A s \in Requests :
              req[s].step # "idle" /\ req[s].att = a => StepFacts(s)',
           attMu' \in [Attempts -> Requests \cup {Sweeper, None}],
           \A b \in Attempts \ {a} : attMu'[b] = attMu[b],
           attMu'[a] = attMu[a] \/ {attMu[a], attMu'[a]} \subseteq {Sweeper, None},
           todo' \in {todo, todo \ {a}},
           LoginFacts(a)', SweptFacts(a)', ReachFacts(a)'
    PROVE  LoginInv'
<1>1. LoginTypes
  BY LoginParts
<1>2. /\ att' \in [Attempts -> W!Records] /\ att'[a] = x
      /\ \A b \in Attempts \ {a} : att'[b] = att[b]
      /\ req' \in [Requests -> ReqType]
  BY <1>1 DEF LoginTypes
<1>3. None \notin Requests
  BY Apart
<1>4. attMu'[a] = attMu[a] \/ {attMu[a], attMu'[a]} \subseteq {None, Sweeper, None}
  OBVIOUS
<1> QED
  BY <1>2, <1>3, <1>4, OneAttempt

LEMMA ReadyStep ==
    ASSUME LoginInv, NEW a \in Attempts, W!Ready(a)
    PROVE  LoginInv'
<1>1. /\ LoginTypes /\ LoginFacts(a) /\ SweptFacts(a) /\ ReachFacts(a)
      /\ \A s \in Requests : StepFacts(s)
  BY LoginParts
<1>2. /\ att[a] \in W!Records /\ att[a].ses = "open"
      /\ UNCHANGED <<attempts, attMu, req, todo>>
  BY <1>1 DEF W!Ready, LoginTypes
<1>3. PICK x : x = [att[a] EXCEPT !.ses = "ready"]
  OBVIOUS
<1>4. /\ att' = [att EXCEPT ![a] = x] /\ att'[a] = x
  BY <1>1, <1>3 DEF W!Ready, LoginTypes
<1>5. /\ x \in W!Records /\ x.ses = "ready" /\ x.ip = att[a].ip
      /\ x.expired = att[a].expired /\ x.profile = att[a].profile
      /\ x.account = att[a].account /\ x.complete = att[a].complete
      /\ x.issued = att[a].issued /\ x.gone = att[a].gone
  BY <1>2, <1>3 DEF W!Records, W!Sessions
<1>6. LoginFacts(a)'
  BY <1>1, <1>2, <1>4, <1>5 DEF LoginFacts
<1>7. SweptFacts(a)'
  BY <1>1, <1>2, <1>4, <1>5 DEF SweptFacts
<1>8. W!Listed' = W!Listed
  BY <1>2 DEF W!Listed
<1>9. ReachFacts(a)'
  BY <1>1, <1>2, <1>4, <1>5, <1>8 DEF ReachFacts
<1>10. ASSUME NEW s \in Requests, req[s].step # "idle", req[s].att = a
       PROVE  StepFacts(s)'
  BY <1>1, <1>2, <1>4, <1>5, <1>10 DEF StepFacts
<1>11. attMu' \in [Attempts -> Requests \cup {Sweeper, None}] /\ attMu' = attMu
  BY <1>1, <1>2 DEF LoginTypes
<1> QED
  BY <1>2, <1>4, <1>5, <1>6, <1>7, <1>9, <1>10, <1>11, AttemptStep

\* No attempt expires under a request at work.
LEMMA ExpireStep ==
    ASSUME LoginInv, ~Straddles, NEW a \in Attempts, W!Expire(a)
    PROVE  LoginInv'
<1>1. /\ LoginTypes /\ LoginFacts(a) /\ SweptFacts(a) /\ ReachFacts(a)
  BY LoginParts
<1>2. /\ att[a] \in W!Records /\ att[a].ses # "unused"
      /\ UNCHANGED <<attempts, attMu, req, todo>>
      /\ \A s \in Requests : req[s].att = a => req[s].step = "lock"
  BY <1>1 DEF W!Expire, LoginTypes
<1>3. PICK x : x = [att[a] EXCEPT !.expired = TRUE]
  OBVIOUS
<1>4. /\ att' = [att EXCEPT ![a] = x] /\ att'[a] = x
  BY <1>1, <1>3 DEF W!Expire, LoginTypes
<1>5. /\ x \in W!Records /\ x.ses = att[a].ses /\ x.ip = att[a].ip
      /\ x.expired /\ x.profile = att[a].profile
      /\ x.account = att[a].account /\ x.complete = att[a].complete
      /\ x.issued = att[a].issued /\ x.gone = att[a].gone
  BY <1>2, <1>3 DEF W!Records
<1>6. LoginFacts(a)'
  BY <1>1, <1>2, <1>4, <1>5 DEF LoginFacts
<1>7. SweptFacts(a)'
  BY <1>1, <1>2, <1>4, <1>5 DEF SweptFacts
<1>8. W!Listed' = W!Listed
  BY <1>2 DEF W!Listed
<1>9. ReachFacts(a)'
  BY <1>1, <1>2, <1>4, <1>5, <1>8 DEF ReachFacts
<1>10. ASSUME NEW s \in Requests, req[s].step # "idle", req[s].att = a
       PROVE  StepFacts(s)'
  BY <1>2, <1>10, WaitersKnowNothing
<1>11. attMu' \in [Attempts -> Requests \cup {Sweeper, None}] /\ attMu' = attMu
  BY <1>1, <1>2 DEF LoginTypes
<1> QED
  BY <1>2, <1>4, <1>5, <1>6, <1>7, <1>9, <1>10, <1>11, AttemptStep

\* maintain closes what it has taken out of the map.
LEMMA SweepLockStep ==
    ASSUME LoginInv, NEW a \in Attempts, W!SweepLock(a)
    PROVE  LoginInv'
<1>1. /\ LoginTypes /\ LoginFacts(a) /\ SweptFacts(a) /\ ReachFacts(a)
      /\ \A s \in Requests : StepFacts(s) /\ HolderFacts(s)
  BY LoginParts
<1>2. /\ att[a] \in W!Records /\ a \in todo /\ att[a].expired /\ attMu[a] = None
      /\ UNCHANGED <<attempts, req, todo>> /\ attMu' = [attMu EXCEPT ![a] = Sweeper]
  BY <1>1 DEF W!SweepLock, LoginTypes, SweptFacts
<1>3. PICK x : x = [att[a] EXCEPT !.closed = TRUE]
  OBVIOUS
<1>4. /\ att' = [att EXCEPT ![a] = x] /\ att'[a] = x
  BY <1>1, <1>3 DEF W!SweepLock, LoginTypes
<1>5. /\ x \in W!Records /\ x.ses = att[a].ses /\ x.ip = att[a].ip
      /\ x.expired /\ x.profile = att[a].profile
      /\ x.account = att[a].account /\ x.complete = att[a].complete
      /\ x.issued = att[a].issued /\ x.gone = att[a].gone
  BY <1>2, <1>3 DEF W!Records
<1>6. LoginFacts(a)'
  BY <1>1, <1>2, <1>4, <1>5 DEF LoginFacts
<1>7. SweptFacts(a)'
  BY <1>1, <1>2, <1>4, <1>5 DEF SweptFacts
<1>8. W!Listed' = W!Listed
  BY <1>2 DEF W!Listed
<1>9. ReachFacts(a)'
  BY <1>1, <1>2, <1>4, <1>5, <1>8 DEF ReachFacts
<1>10. ASSUME NEW s \in Requests, req[s].step # "idle", req[s].att = a
       PROVE  StepFacts(s)'
  <2>1. req[s].step = "lock"
    BY <1>1, <1>2, <1>10 DEF StepFacts
  <2> QED
    BY <1>2, <2>1, WaitersKnowNothing
<1>11. /\ attMu' \in [Attempts -> Requests \cup {Sweeper, None}]
       /\ attMu'[a] = Sweeper
       /\ \A b \in Attempts \ {a} : attMu'[b] = attMu[b]
  BY <1>1, <1>2 DEF LoginTypes
<1>12. x.ses # "unused"
  BY <1>1, <1>2, <1>5 DEF SweptFacts
<1> QED
  BY <1>2, <1>4, <1>5, <1>6, <1>7, <1>9, <1>10, <1>11, <1>12, AttemptStep

LEMMA SweepCloseStep ==
    ASSUME LoginInv, NEW a \in Attempts, W!SweepClose(a)
    PROVE  LoginInv'
<1>1. /\ LoginTypes /\ LoginFacts(a) /\ SweptFacts(a) /\ ReachFacts(a)
      /\ \A s \in Requests : StepFacts(s) /\ HolderFacts(s)
  BY LoginParts
<1>2. /\ att[a] \in W!Records /\ a \in todo /\ att[a].expired /\ attMu[a] = Sweeper
      /\ UNCHANGED <<attempts, req>> /\ attMu' = [attMu EXCEPT ![a] = None]
      /\ todo' = todo \ {a}
  BY <1>1 DEF W!SweepClose, LoginTypes, SweptFacts
<1>3. PICK x : x = [att[a] EXCEPT !.gone = ~att[a].account, !.ses = "closed"]
  OBVIOUS
<1>4. /\ att' = [att EXCEPT ![a] = x] /\ att'[a] = x
  BY <1>1, <1>3 DEF W!SweepClose, W!Discarded, LoginTypes
<1>5. /\ x \in W!Records /\ x.ses = "closed" /\ x.ip = att[a].ip
      /\ x.expired = att[a].expired /\ x.profile = att[a].profile
      /\ x.account = att[a].account /\ x.complete = att[a].complete
      /\ x.issued = att[a].issued
  BY <1>2, <1>3 DEF W!Records, W!Sessions
<1>6. LoginFacts(a)'
  BY <1>1, <1>2, <1>4, <1>5 DEF LoginFacts
<1>7. /\ attMu' \in [Attempts -> Requests \cup {Sweeper, None}] /\ attMu'[a] = None
      /\ \A b \in Attempts \ {a} : attMu'[b] = attMu[b]
  BY <1>1, <1>2 DEF LoginTypes
<1>8. SweptFacts(a)'
  BY <1>2, <1>7, Apart DEF SweptFacts
<1>9. ReachFacts(a)'
  BY <1>4, <1>5 DEF ReachFacts
<1>10. ASSUME NEW s \in Requests, req[s].step # "idle", req[s].att = a
       PROVE  StepFacts(s)'
  <2>1. req[s].step = "lock"
    BY <1>1, <1>2, <1>10 DEF StepFacts
  <2> QED
    BY <1>2, <2>1, WaitersKnowNothing
<1> QED
  BY <1>2, <1>4, <1>5, <1>6, <1>7, <1>8, <1>9, <1>10, AttemptStep

LEMMA DiscardStep ==
    ASSUME LoginInv, NEW r \in Requests, W!Discard(r)
    PROVE  LoginInv'
<1>1. /\ LoginTypes /\ StepFacts(r) /\ HolderFacts(r)
      /\ \A s \in Requests : StepFacts(s)
      /\ \A b \in Attempts : LoginFacts(b) /\ SweptFacts(b) /\ ReachFacts(b)
  BY LoginParts
<1>2. /\ req[r].step = "discard" /\ W!Ends(r) /\ UNCHANGED <<attempts, attMu, todo>>
  BY DEF W!Discard
<1>3. PICK a \in Attempts : a = req[r].att
  BY <1>1, <1>2 DEF HolderFacts
<1>4. att[a] \in W!Records /\ att[a].ses = "nil"
  BY <1>1, <1>2, <1>3 DEF StepFacts, LoginTypes
<1>5. PICK x : x = [att[a] EXCEPT !.gone = ~att[a].account]
  OBVIOUS
<1>6. /\ att' = [att EXCEPT ![a] = x] /\ att'[a] = x
  BY <1>1, <1>3, <1>5 DEF W!Discard, W!Discarded, LoginTypes
<1>7. /\ x \in W!Records /\ x.ses = "nil" /\ x.ip = att[a].ip
      /\ x.expired = att[a].expired /\ x.profile = att[a].profile
      /\ x.account = att[a].account /\ x.complete = att[a].complete
      /\ x.issued = att[a].issued
  BY <1>4, <1>5 DEF W!Records
<1>8. LoginFacts(a)'
  BY <1>1, <1>4, <1>6, <1>7 DEF LoginFacts
<1>9. SweptFacts(a)'
  BY <1>1, <1>2, <1>4, <1>6, <1>7 DEF SweptFacts
<1>10. ReachFacts(a)'
  BY <1>6, <1>7 DEF ReachFacts
<1>11. /\ req' \in [Requests -> ReqType] /\ req'[r].step = "idle"
       /\ \A s \in Requests \ {r} : req'[s] = req[s]
  BY <1>1, <1>2, MovesOut
<1>12. ASSUME NEW s \in Requests \ {r}, req[s].step # "idle", req[s].att = a
       PROVE  StepFacts(s)'
  BY <1>1, <1>4, <1>6, <1>7, <1>11, <1>12 DEF StepFacts
<1>13. \A b \in Attempts : attMu'[b] # r
  BY <1>1, <1>2, StepKinds DEF HolderFacts
<1>14. HolderFacts(r)'
  BY <1>11, <1>13, StepKinds DEF HolderFacts
<1>15. StepFacts(r)' /\ KeyFacts(r)'
  BY <1>11 DEF StepFacts, KeyFacts
<1>16. /\ att' \in [Attempts -> W!Records]
       /\ \A b \in Attempts \ {a} : att'[b] = att[b]
       /\ attMu' \in [Attempts -> Requests \cup {Sweeper, None}] /\ attMu' = attMu
  BY <1>1, <1>2, <1>6, <1>7 DEF LoginTypes
<1>17. ~(x.ses # "nil" /\ ~x.expired /\ ~x.issued) /\ x.ses # "unused"
  BY <1>7
<1> QED
  BY <1>2, <1>6, <1>7, <1>8, <1>9, <1>10, <1>11, <1>12, <1>14, <1>15, <1>16,
     <1>17, OneAttempt

\* A request deletes the entry of its key, which holds its attempt: a session
\* that never opened, or one that is closed.
LEMMA EntryGone ==
    ASSUME LoginInv, NEW r \in Requests, NEW a \in Attempts, a = req[r].att,
           NEW k \in Keys, k = req[r].key, attempts[k] = a,
           attempts' = [attempts EXCEPT ![k] = None],
           att[a].ses \in {"nil", "closed"},
           UNCHANGED <<att, todo>>, LoginTypes',
           \A s \in Requests \ {r} : req'[s] = req[s],
           attMu' = attMu \/ (attMu' = [attMu EXCEPT ![a] = None] /\ attMu[a] = r),
           \A s \in Requests \ {r} :
              /\ req[s].step = "drop" => req[s].att # a
              /\ /\ req[s].step \notin {"idle", "drop", "discard"}
                 /\ att[a].ses # "nil"
                 /\ att[a].issued => req[s].step = "delete"
                 => req[s].att # a,
           HolderFacts(r)', StepFacts(r)', KeyFacts(r)',
           req'[r].step \in {"open", "drop", "discard"}
           => /\ req[r].step \in {"open", "drop", "discard"}
              /\ req'[r].att = req[r].att
    PROVE  LoginInv'
<1>1. /\ LoginTypes /\ OneOpener /\ MapBounded
      /\ \A b \in Attempts : LoginFacts(b) /\ SweptFacts(b) /\ ReachFacts(b)
      /\ \A s \in Requests : HolderFacts(s) /\ StepFacts(s) /\ KeyFacts(s)
  BY LoginParts
<1>2. \A j \in Keys : attempts'[j] = IF j = k THEN None ELSE attempts[j]
  BY <1>1 DEF LoginTypes
<1>3. W!Listed' \subseteq W!Listed /\ W!Listed \subseteq W!Listed' \cup {a}
  BY <1>2, Apart DEF W!Listed
<1>4. \A b \in Attempts \ {a} : attMu'[b] = attMu[b]
  BY <1>1 DEF LoginTypes
<1>5. attMu'[a] = attMu[a] \/ (attMu[a] = r /\ attMu'[a] = None)
  BY <1>1 DEF LoginTypes
<1>6. AttemptFacts'
  <2>1. ASSUME NEW b \in Attempts
        PROVE  LoginFacts(b)' /\ SweptFacts(b)' /\ ReachFacts(b)'
    <3>1. LoginFacts(b) /\ SweptFacts(b) /\ ReachFacts(b)
      BY <1>1
    <3>2. att' = att /\ todo' = todo
      OBVIOUS
    <3>3. LoginFacts(b)'
      BY <3>1, <3>2 DEF LoginFacts
    <3>4. SweptFacts(b)'
      BY <1>4, <1>5, <3>1, <3>2, Apart DEF SweptFacts
    <3>5. ReachFacts(b)'
      BY <1>3, <3>1, <3>2 DEF ReachFacts
    <3> QED
      BY <3>3, <3>4, <3>5
  <2> QED
    BY <2>1 DEF AttemptFacts
<1>7. RequestFacts'
  <2>1. ASSUME NEW s \in Requests \ {r}
        PROVE  HolderFacts(s)' /\ StepFacts(s)' /\ KeyFacts(s)'
    <3>1. HolderFacts(s) /\ StepFacts(s) /\ KeyFacts(s)
      BY <1>1
    <3>2. req'[s] = req[s] /\ att' = att
      OBVIOUS
    <3>3. \A b \in Attempts : attMu'[b] = s <=> attMu[b] = s
      BY <1>4, <1>5, Apart
    <3>4. HolderFacts(s)'
      BY <3>1, <3>2, <3>3, StepKinds DEF HolderFacts
    <3>5. StepFacts(s)'
      BY <3>1, <3>2 DEF StepFacts
    <3>6. KeyFacts(s)'
      <4>1. req[s].step # "idle" => req[s].key \in Keys
        BY <3>1 DEF HolderFacts
      <4>2. /\ attempts[req[s].key] = req[s].att /\ req[s].att # a
            /\ req[s].key \in Keys
            => attempts'[req[s].key] = req[s].att
        BY <1>2
      <4>3. req[s].step = "drop" => attempts'[req[s].key] = req[s].att
        BY <3>1, <4>1, <4>2 DEF KeyFacts
      <4>4. ASSUME req[s].step \notin {"idle", "drop", "discard"},
                   att[req[s].att].ses # "nil", ~att[req[s].att].expired,
                   att[req[s].att].issued => req[s].step = "delete"
            PROVE  attempts'[req[s].key] = req[s].att
        <5>1. attempts[req[s].key] = req[s].att
          BY <3>1, <4>4 DEF KeyFacts
        <5>2. req[s].att # a
          BY <4>4
        <5> QED
          BY <4>1, <4>2, <4>4, <5>1, <5>2
      <4> QED
        BY <3>2, <4>3, <4>4 DEF KeyFacts
    <3> QED
      BY <3>4, <3>5, <3>6
  <2> QED
    BY <2>1 DEF RequestFacts
<1>8. OneOpener'
  BY <1>1 DEF OneOpener
<1>9. MapBounded'
  <2>1. IsFiniteSet(W!Listed')  /\ Cardinality(W!Listed') <= MaxAll
    BY <1>1, <1>3, NoMore, Apart DEF MapBounded
  <2>2. ASSUME NEW ip \in Addresses PROVE Cardinality(W!Same(ip)') <= MaxSame
    <3>1. W!Same(ip)' \subseteq W!Same(ip)
      BY <1>3 DEF W!Same
    <3>2. IsFiniteSet(W!Same(ip)) /\ Cardinality(W!Same(ip)) <= MaxSame
      BY <1>1, FS_Subset DEF MapBounded, W!Same
    <3> QED
      BY <3>1, <3>2, NoMore, Apart
  <2> QED
    BY <2>1, <2>2 DEF MapBounded
<1> QED
  BY <1>6, <1>7, <1>8, <1>9, LoginJoin

LEMMA DropStep ==
    ASSUME LoginInv, NEW r \in Requests, W!Drop(r)
    PROVE  LoginInv'
<1>1. /\ LoginTypes /\ OneOpener /\ HolderFacts(r) /\ StepFacts(r) /\ KeyFacts(r)
  BY LoginParts
<1>2. /\ req[r].step = "drop" /\ W!To(r, "discard")
      /\ UNCHANGED <<att, attMu, todo>>
      /\ attempts' = [attempts EXCEPT ![req[r].key] = None]
  BY DEF W!Drop, W!Deleted
<1>3. PICK a \in Attempts, k \in Keys : a = req[r].att /\ k = req[r].key
  BY <1>1, <1>2 DEF HolderFacts
<1>4. attempts[k] = a /\ att[a].ses = "nil" /\ ~att[a].expired
  BY <1>1, <1>2, <1>3 DEF KeyFacts, StepFacts
<1>5. /\ req' \in [Requests -> ReqType]
      /\ req'[r].step = "discard" /\ req'[r].key = req[r].key
      /\ req'[r].att = req[r].att
      /\ \A s \in Requests \ {r} : req'[s] = req[s]
  BY <1>1, <1>2, MovesTo, StepKinds
<1>6. LoginTypes'
  BY <1>1, <1>2, <1>5 DEF LoginTypes
<1>7. HolderFacts(r)'
  BY <1>1, <1>2, <1>5, StepKinds DEF HolderFacts
<1>8. StepFacts(r)' /\ KeyFacts(r)'
  BY <1>1, <1>2, <1>5 DEF StepFacts, KeyFacts
<1>9. \A s \in Requests \ {r} : req[s].step = "drop" => req[s].att # a
  BY <1>1, <1>2, <1>3 DEF OneOpener
<1> QED
  BY <1>2, <1>3, <1>4, <1>5, <1>6, <1>7, <1>8, <1>9, EntryGone

LEMMA DeleteStep ==
    ASSUME LoginInv, NEW r \in Requests, W!Delete(r)
    PROVE  LoginInv'
<1>1. /\ LoginTypes /\ HolderFacts(r) /\ StepFacts(r) /\ KeyFacts(r)
      /\ \A b \in Attempts : LoginFacts(b)
      /\ \A s \in Requests : StepFacts(s)
  BY LoginParts
<1>2. /\ req[r].step = "delete" /\ req[r].step \in W!Inside
      /\ W!Ends(r) /\ UNCHANGED <<att, todo>>
      /\ attMu' = [attMu EXCEPT ![req[r].att] = None]
      /\ attempts' = [attempts EXCEPT ![req[r].key] = None]
  BY DEF W!Delete, W!Deleted, W!Leave, W!Inside
<1>3. PICK a \in Attempts, k \in Keys : a = req[r].att /\ k = req[r].key
  BY <1>1, <1>2 DEF HolderFacts
<1>4. att[a].issued /\ ~att[a].expired /\ att[a].ses = "closed" /\ attMu[a] = r
  BY <1>1, <1>2, <1>3 DEF StepFacts, LoginFacts, HolderFacts
<1>5. attempts[k] = a
  BY <1>1, <1>2, <1>3, <1>4 DEF KeyFacts
<1>6. /\ req' \in [Requests -> ReqType] /\ req'[r].step = "idle"
      /\ \A s \in Requests \ {r} : req'[s] = req[s]
  BY <1>1, <1>2, MovesOut
<1>7. LoginTypes'
  BY <1>1, <1>2, <1>6 DEF LoginTypes
<1>8. \A b \in Attempts : attMu'[b] # r
  <2>1. \A b \in Attempts : attMu'[b] = IF b = a THEN None ELSE attMu[b]
    BY <1>1, <1>2, <1>3 DEF LoginTypes
  <2> QED
    BY <1>1, <1>3, <2>1, Apart DEF HolderFacts
<1>9. HolderFacts(r)'
  BY <1>6, <1>8, StepKinds DEF HolderFacts
<1>10. StepFacts(r)' /\ KeyFacts(r)'
  BY <1>6 DEF StepFacts, KeyFacts
<1>11. \A s \in Requests \ {r} :
          req[s].step # "idle" /\ req[s].att = a => req[s].step = "lock"
  BY <1>2, <1>3, <1>4, OthersWait
<1> QED
  BY <1>2, <1>3, <1>4, <1>5, <1>6, <1>7, <1>9, <1>10, <1>11, EntryGone

\* A new attempt comes into the map, which has room for it.
LEMMA StartStep ==
    ASSUME LoginInv, NEW r \in Requests, NEW k \in Keys, NEW ip \in Addresses,
           NEW a \in Attempts, W!Start(r, k, ip, a)
    PROVE  LoginInv'
<1>1. /\ LoginTypes /\ OneOpener /\ MapBounded
      /\ \A b \in Attempts : LoginFacts(b) /\ SweptFacts(b) /\ ReachFacts(b)
      /\ \A s \in Requests : HolderFacts(s) /\ StepFacts(s) /\ KeyFacts(s)
  BY LoginParts
<1>2. /\ req[r].step = "idle" /\ attempts[k] = None /\ ~W!Crowded(ip)
      /\ att[a] = W!Unused /\ todo' = todo
      /\ attempts' = [attempts EXCEPT ![k] = a] /\ attMu' = [attMu EXCEPT ![a] = r]
      /\ req' = [req EXCEPT ![r] = [step |-> "open", key |-> k, att |-> a]]
  BY StepKinds DEF W!Start
<1>3. PICK x : x = [att[a] EXCEPT !.ses = "none", !.ip = ip]
  OBVIOUS
<1>4. /\ att' = [att EXCEPT ![a] = x] /\ att'[a] = x /\ att[a] \in W!Records
      /\ \A b \in Attempts \ {a} : att'[b] = att[b]
  BY <1>1, <1>3 DEF W!Start, LoginTypes
<1>5. /\ x \in W!Records /\ x.ses = "none" /\ x.ip = ip /\ ~x.expired
      /\ ~x.profile /\ ~x.account /\ ~x.complete /\ ~x.issued /\ ~x.gone
  <2>1. /\ ~att[a].expired /\ ~att[a].profile /\ ~att[a].account
        /\ ~att[a].complete /\ ~att[a].issued /\ ~att[a].gone
    BY <1>2 DEF W!Unused
  <2>2. /\ x \in W!Records /\ x.ses = "none" /\ x.ip = ip
        /\ x.expired = att[a].expired /\ x.profile = att[a].profile
        /\ x.account = att[a].account /\ x.complete = att[a].complete
        /\ x.issued = att[a].issued /\ x.gone = att[a].gone
    BY <1>3, <1>4 DEF W!Records, W!Sessions
  <2> QED
    BY <2>1, <2>2
<1>6. [step |-> "open", key |-> k, att |-> a] \in ReqType
  BY DEF ReqType, W!Steps, W!Inside
<1>7. /\ req' \in [Requests -> ReqType] /\ req'[r].step = "open"
      /\ req'[r].key = k /\ req'[r].att = a
      /\ \A s \in Requests \ {r} : req'[s] = req[s]
  BY <1>1, <1>2, <1>6 DEF LoginTypes
<1>8. /\ attMu'[a] = r /\ \A b \in Attempts \ {a} : attMu'[b] = attMu[b]
      /\ attMu' \in [Attempts -> Requests \cup {Sweeper, None}]
  BY <1>1, <1>2 DEF LoginTypes
<1>9. /\ \A j \in Keys : attempts'[j] = IF j = k THEN a ELSE attempts[j]
      /\ attempts' \in [Keys -> Attempts \cup {None}]
  BY <1>1, <1>2 DEF LoginTypes
<1>10. W!Listed' = W!Listed \cup {a}
  BY <1>2, <1>9, Apart DEF W!Listed
<1>11. att[a].ses = "unused" /\ a \notin W!Listed /\ a \notin todo
  BY <1>1, <1>2, StepKinds DEF ReachFacts, SweptFacts
<1>12. \A s \in Requests : req[s].step # "idle" => req[s].att # a
  BY <1>1, <1>11 DEF HolderFacts
<1>13. attMu[a] \notin Requests
  BY <1>1, <1>12, StepKinds DEF HolderFacts
<1>14. LoginTypes'
  BY <1>1, <1>2, <1>4, <1>5, <1>7, <1>8, <1>9 DEF LoginTypes
<1>15. AttemptFacts'
  <2>1. LoginFacts(a)'
    BY <1>4, <1>5 DEF LoginFacts
  <2>2. SweptFacts(a)'
    BY <1>2, <1>8, <1>11, Apart DEF SweptFacts
  <2>3. ReachFacts(a)'
    BY <1>4, <1>5 DEF ReachFacts
  <2>4. ASSUME NEW b \in Attempts \ {a}
        PROVE  LoginFacts(b)' /\ SweptFacts(b)' /\ ReachFacts(b)'
    <3>1. LoginFacts(b) /\ SweptFacts(b) /\ ReachFacts(b)
      BY <1>1
    <3>2. att'[b] = att[b] /\ attMu'[b] = attMu[b]
      BY <1>4, <1>8
    <3>3. LoginFacts(b)'
      BY <3>1, <3>2 DEF LoginFacts
    <3>4. SweptFacts(b)'
      BY <1>2, <3>1, <3>2 DEF SweptFacts
    <3>5. ReachFacts(b)'
      BY <1>2, <1>10, <3>1, <3>2 DEF ReachFacts
    <3> QED
      BY <3>3, <3>4, <3>5
  <2> QED
    BY <2>1, <2>2, <2>3, <2>4 DEF AttemptFacts
<1>16. RequestFacts'
  <2>1. HolderFacts(r)'
    <3>1. \A b \in Attempts : attMu'[b] = r => b = a
      BY <1>1, <1>2, <1>8, StepKinds DEF HolderFacts
    <3> QED
      BY <1>4, <1>5, <1>7, <1>8, <3>1 DEF HolderFacts, W!Inside
  <2>2. StepFacts(r)'
    BY <1>4, <1>5, <1>7 DEF StepFacts
  <2>3. KeyFacts(r)'
    BY <1>7, <1>9 DEF KeyFacts
  <2>4. ASSUME NEW s \in Requests \ {r}
        PROVE  HolderFacts(s)' /\ StepFacts(s)' /\ KeyFacts(s)'
    <3>1. HolderFacts(s) /\ StepFacts(s) /\ KeyFacts(s)
      BY <1>1
    <3>2. req'[s] = req[s]
      BY <1>7
    <3>3. \A b \in Attempts : attMu'[b] = s <=> attMu[b] = s
      BY <1>8, <1>13
    <3>4. CASE req[s].step = "idle"
      <4>1. HolderFacts(s)'
        BY <3>1, <3>2, <3>3, <3>4, StepKinds DEF HolderFacts
      <4> QED
        BY <3>2, <3>4, <4>1 DEF StepFacts, KeyFacts
    <3>5. CASE req[s].step # "idle"
      <4>1. PICK b \in Attempts \ {a} : b = req[s].att
        BY <1>12, <3>1, <3>5 DEF HolderFacts
      <4>2. att'[b] = att[b]
        BY <1>4
      <4>3. HolderFacts(s)'
        BY <3>1, <3>2, <3>3, <3>5, <4>1, <4>2 DEF HolderFacts
      <4>4. StepFacts(s)'
        BY <3>1, <3>2, <4>1, <4>2 DEF StepFacts
      <4>5. attempts[req[s].key] = b => attempts'[req[s].key] = b
        BY <1>2, <1>9, <3>1, <3>5, <4>1, Apart DEF HolderFacts
      <4>6. KeyFacts(s)'
        BY <3>1, <3>2, <4>1, <4>2, <4>5 DEF KeyFacts
      <4> QED
        BY <4>3, <4>4, <4>6
    <3> QED
      BY <3>4, <3>5
  <2> QED
    BY <2>1, <2>2, <2>3, <2>4 DEF RequestFacts
<1>17. OneOpener'
  <2>1. ASSUME NEW s \in Requests \ {r}, req'[s].step \in {"open", "drop", "discard"}
        PROVE  req'[s].att # a
    BY <1>7, <1>12, <2>1
  <2>2. \A s, t \in Requests \ {r} :
            /\ req'[s].step \in {"open", "drop", "discard"}
            /\ req'[t].step \in {"open", "drop", "discard"}
            /\ req'[s].att = req'[t].att
            => s = t
    BY <1>1, <1>7 DEF OneOpener
  <2> QED
    BY <1>7, <2>1, <2>2 DEF OneOpener
<1>18. MapBounded'
  <2>1. /\ IsFiniteSet(W!Listed) /\ ~(Cardinality(W!Listed) >= MaxAll)
        /\ ~(Cardinality(W!Same(ip)) >= MaxSame)
    BY <1>1, <1>2, SameCount DEF MapBounded, W!Crowded
  <2>2. Cardinality(W!Listed) \in Nat
    BY <2>1, FS_CardinalityType
  <2>3. IsFiniteSet(W!Listed \cup {a})
        /\ Cardinality(W!Listed \cup {a}) = Cardinality(W!Listed) + 1
    BY <1>11, <2>1, FS_AddElement
  <2>4. IsFiniteSet(W!Listed') /\ Cardinality(W!Listed') <= MaxAll
    BY <1>10, <2>1, <2>2, <2>3, Apart
  <2>5. ASSUME NEW i \in Addresses PROVE Cardinality(W!Same(i)') <= MaxSame
    <3>1. IsFiniteSet(W!Same(i)) /\ Cardinality(W!Same(i)) <= MaxSame
      BY <1>1, FS_Subset DEF MapBounded, W!Same
    <3>2. CASE i # ip
      <4>1. W!Same(i)' \subseteq W!Same(i)
        BY <1>4, <1>5, <1>10, <1>11, <3>2 DEF W!Same, W!Listed
      <4> QED
        BY <3>1, <4>1, NoMore, Apart
    <3>3. CASE i = ip
      <4>1. W!Same(i)' = W!Same(i) \cup {a} /\ a \notin W!Same(i)
        BY <1>4, <1>5, <1>10, <1>11, <3>3 DEF W!Same, W!Listed
      <4>2. Cardinality(W!Same(i)) \in Nat
        BY <3>1, FS_CardinalityType
      <4>3. Cardinality(W!Same(i) \cup {a}) = Cardinality(W!Same(i)) + 1
        BY <3>1, <4>1, FS_AddElement
      <4> QED
        BY <2>1, <3>3, <4>1, <4>2, <4>3, Apart
    <3> QED
      BY <3>2, <3>3
  <2> QED
    BY <2>4, <2>5 DEF MapBounded
<1> QED
  BY <1>14, <1>15, <1>16, <1>17, <1>18, LoginJoin

\* maintain takes the expired attempts out of the map; no request works on one.
LEMMA SweepStep ==
    ASSUME LoginInv, W!Sweep
    PROVE  LoginInv'
<1>1. /\ LoginTypes /\ OneOpener /\ MapBounded
      /\ \A b \in Attempts : LoginFacts(b) /\ SweptFacts(b) /\ ReachFacts(b)
      /\ \A s \in Requests : HolderFacts(s) /\ StepFacts(s) /\ KeyFacts(s)
  BY LoginParts
<1>2. /\ todo = {} /\ todo' = {a \in W!Listed : att[a].expired}
      /\ UNCHANGED <<att, attMu, req>>
  BY DEF W!Sweep
<1>3. /\ \A j \in Keys : attempts'[j] = IF attempts[j] \in todo' THEN None
                                        ELSE attempts[j]
      /\ attempts' \in [Keys -> Attempts \cup {None}]
  BY <1>1 DEF W!Sweep, LoginTypes
<1>4. W!Listed' = W!Listed \ todo'
  BY <1>3, Apart DEF W!Listed
<1>5. W!Listed \subseteq Attempts
  BY DEF W!Listed
<1>6. LoginTypes'
  BY <1>1, <1>2, <1>3, <1>5 DEF LoginTypes
<1>7. AttemptFacts'
  <2>1. ASSUME NEW b \in Attempts
        PROVE  LoginFacts(b)' /\ SweptFacts(b)' /\ ReachFacts(b)'
    <3>1. LoginFacts(b) /\ SweptFacts(b) /\ ReachFacts(b)
      BY <1>1
    <3>2. LoginFacts(b)'
      BY <1>2, <3>1 DEF LoginFacts
    <3>3. SweptFacts(b)'
      BY <1>2, <3>1 DEF SweptFacts, ReachFacts
    <3>4. ReachFacts(b)'
      BY <1>2, <1>4, <3>1 DEF ReachFacts
    <3> QED
      BY <3>2, <3>3, <3>4
  <2> QED
    BY <2>1 DEF AttemptFacts
<1>8. RequestFacts'
  <2>1. ASSUME NEW s \in Requests
        PROVE  HolderFacts(s)' /\ StepFacts(s)' /\ KeyFacts(s)'
    <3>1. HolderFacts(s) /\ StepFacts(s) /\ KeyFacts(s)
      BY <1>1
    <3>2. HolderFacts(s)' /\ StepFacts(s)'
      BY <1>2, <3>1 DEF HolderFacts, StepFacts
    <3>3. KeyFacts(s)'
      <4>1. ASSUME req[s].step # "idle", attempts[req[s].key] = req[s].att,
                   ~att[req[s].att].expired
            PROVE  attempts'[req[s].key] = req[s].att
        BY <1>2, <1>3, <3>1, <4>1 DEF HolderFacts
      <4>2. req[s].step = "drop" => ~att[req[s].att].expired
        BY <3>1 DEF StepFacts
      <4> QED
        BY <1>2, <3>1, <4>1, <4>2 DEF KeyFacts
    <3> QED
      BY <3>2, <3>3
  <2> QED
    BY <2>1 DEF RequestFacts
<1>9. OneOpener'
  BY <1>1, <1>2 DEF OneOpener
<1>10. MapBounded'
  <2>1. IsFiniteSet(W!Listed') /\ Cardinality(W!Listed') <= MaxAll
    <3>1. W!Listed' \subseteq W!Listed
      BY <1>4
    <3> QED
      BY <1>1, <3>1, NoMore, Apart DEF MapBounded
  <2>2. ASSUME NEW ip \in Addresses PROVE Cardinality(W!Same(ip)') <= MaxSame
    <3>1. W!Same(ip)' \subseteq W!Same(ip)
      BY <1>2, <1>4 DEF W!Same
    <3>2. IsFiniteSet(W!Same(ip)) /\ Cardinality(W!Same(ip)) <= MaxSame
      BY <1>1, FS_Subset DEF MapBounded, W!Same
    <3> QED
      BY <3>1, <3>2, NoMore, Apart
  <2> QED
    BY <2>1, <2>2 DEF MapBounded
<1> QED
  BY <1>6, <1>7, <1>8, <1>9, <1>10, LoginJoin

-----------------------------------------------------------------------------
LEMMA LoginInitially == W!Init => LoginInv
<1> SUFFICES ASSUME W!Init PROVE LoginInv
  OBVIOUS
<1> USE DEF W!Init
<1>1. /\ \A a \in Attempts : att[a] = W!Unused /\ attMu[a] = None
      /\ \A r \in Requests : req[r] = W!NoRequest
      /\ W!Listed = {}
  BY Apart DEF W!Listed
<1>2. \A r \in Requests : req[r].step = "idle"
  BY <1>1, StepKinds
<1>3. W!TypeOK
  <2>1. \A r \in Requests : req[r].step \in W!Inside <=> \E a \in Attempts : attMu[a] = r
    BY <1>1, <1>2, StepKinds, Apart
  <2> QED
    BY <2>1, StepKinds DEF W!TypeOK, ReqType
<1>4. AttemptFacts
  BY <1>1, Apart DEF AttemptFacts, LoginFacts, SweptFacts, ReachFacts, W!Unused
<1>5. RequestFacts
  BY <1>1, <1>2, StepKinds, Apart DEF RequestFacts, HolderFacts, StepFacts, KeyFacts
<1>6. OneOpener
  BY <1>2 DEF OneOpener
<1>7. MapBounded
  <2>1. IsFiniteSet({}) /\ Cardinality({}) = 0
    BY FS_EmptySet
  <2>2. \A ip \in Addresses : W!Same(ip) = {}
    BY <1>1 DEF W!Same
  <2> QED
    BY <1>1, <2>1, <2>2, Apart DEF MapBounded
<1> QED
  BY <1>3, <1>4, <1>5, <1>6, <1>7 DEF LoginInv

LEMMA LoginNext ==
    ASSUME ~Straddles
    PROVE  LoginInv /\ [W!Next]_(W!vars) => LoginInv'
<1> SUFFICES ASSUME LoginInv, [W!Next]_(W!vars) PROVE LoginInv'
  OBVIOUS
<1>1. ASSUME NEW r \in Requests, W!Work(r) PROVE LoginInv'
  <2>1. CASE W!Opened(r) \/ W!OpenFailed(r)
    BY <2>1, OpenStep
  <2>2. CASE W!Profile(r) \/ W!Attach(r) \/ W!Audit(r) \/ W!Issue(r)
    BY <2>2, ProgressStep
  <2> QED
    BY <1>1, <2>1, <2>2, DropStep, DiscardStep, ChooseStep, FailStep, DeleteStep
    DEF W!Work
<1>2. CASE W!Sweeps
  BY <1>2, SweepStep, SweepLockStep, SweepCloseStep DEF W!Sweeps
<1>3. CASE UNCHANGED W!vars
  <2>1. UNCHANGED <<attempts, att, attMu, req, todo>>
    BY <1>3 DEF W!vars
  <2>2. W!Listed' = W!Listed
    BY <2>1 DEF W!Listed
  <2>3. /\ LoginTypes /\ OneOpener /\ MapBounded
        /\ \A b \in Attempts : LoginFacts(b) /\ SweptFacts(b) /\ ReachFacts(b)
        /\ \A s \in Requests : HolderFacts(s) /\ StepFacts(s) /\ KeyFacts(s)
    BY LoginParts
  <2>4. LoginTypes' /\ OneOpener'
    BY <2>1, <2>3 DEF LoginTypes, OneOpener
  <2>5. AttemptFacts'
    BY <2>1, <2>2, <2>3 DEF AttemptFacts, LoginFacts, SweptFacts, ReachFacts
  <2>6. RequestFacts'
    BY <2>1, <2>3 DEF RequestFacts, HolderFacts, StepFacts, KeyFacts
  <2>7. \A ip \in Addresses : W!Same(ip)' = W!Same(ip)
    BY <2>1, <2>2 DEF W!Same
  <2>8. MapBounded'
    BY <2>2, <2>3, <2>7 DEF MapBounded
  <2> QED
    BY <2>4, <2>5, <2>6, <2>8, LoginJoin
<1> QED
  BY <1>1, <1>2, <1>3, StartStep, LookStep, EnterStep, ReadyStep, ExpireStep
  DEF W!Next

\* What the map of attempts, the attempts' mutexes and the requests know of each
\* other, for any number of browsers, requests and attempts, as long as no
\* attempt expires under a request at work.
THEOREM LoginInvariant == ASSUME ~Straddles PROVE W!Spec => []LoginInv
  BY LoginInitially, LoginNext, PTL DEF W!Spec

\* An open login session stays within reach of somebody who closes it, and the
\* directory handed over is closed and in place.
THEOREM LoginsReachable == ASSUME ~Straddles PROVE W!Spec => []AttemptsSound
<1>1. LoginInv => AttemptsSound
  <2> SUFFICES ASSUME LoginInv PROVE W!NoOrphan /\ W!AttachSound
    BY DEF AttemptsSound, W!AttemptsSound
  <2>1. /\ \A a \in Attempts : LoginFacts(a) /\ ReachFacts(a)
        /\ \A r \in Requests : StepFacts(r) /\ HolderFacts(r)
    BY LoginParts
  <2>2. W!NoOrphan
    BY <2>1 DEF W!NoOrphan, W!Live, ReachFacts
  <2>3. ASSUME NEW r \in Requests, req[r].step = "attach"
        PROVE  att[req[r].att].ses = "closed" /\ ~att[req[r].att].gone
    <3>1. PICK a \in Attempts : a = req[r].att
      BY <2>1, <2>3 DEF HolderFacts
    <3>2. att[a].profile /\ ~att[a].expired
      BY <2>1, <2>3, <3>1 DEF StepFacts
    <3> QED
      BY <2>1, <3>1, <3>2 DEF LoginFacts
  <2> QED
    BY <2>2, <2>3 DEF W!AttachSound
<1> QED
  BY <1>1, LoginInvariant, PTL

\* The sessions that nobody is disposing of stay within the limits, which are
\* checked of the map before a session is opened.
THEOREM LoginsLimited == ASSUME ~Straddles PROVE W!Spec => []LimitsHold
<1>1. LoginInv => LimitsHold
  <2> SUFFICES ASSUME LoginInv PROVE LimitsHold
    OBVIOUS
  <2>1. MapBounded /\ \A a \in Attempts : ReachFacts(a)
    BY LoginParts
  <2>2. W!Live \ todo \subseteq W!Listed
    BY <2>1 DEF W!Live, ReachFacts
  <2>3. Cardinality(W!Live \ todo) <= MaxAll
    BY <2>1, <2>2, NoMore, Apart DEF MapBounded
  <2>4. ASSUME NEW ip \in Addresses
        PROVE  Cardinality({a \in W!Live \ todo : att[a].ip = ip}) <= MaxSame
    <3>1. {a \in W!Live \ todo : att[a].ip = ip} \subseteq W!Same(ip)
      BY <2>2 DEF W!Same
    <3>2. IsFiniteSet(W!Same(ip)) /\ Cardinality(W!Same(ip)) <= MaxSame
      BY <2>1, FS_Subset DEF MapBounded, W!Same
    <3> QED
      BY <3>1, <3>2, NoMore, Apart
  <2> QED
    BY <2>3, <2>4, SameCount DEF LimitsHold, W!LimitsHold
<1> QED
  BY <1>1, LoginInvariant, PTL
=============================================================================
