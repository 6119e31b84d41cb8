----------------------------- MODULE SendMessage -----------------------------
(***************************************************************************)
(* POST /v1/chats/{chatID}/messages (internal/httpserver/send.go): the     *)
(* only write the gateway performs on Telegram.  Concurrent requests may   *)
(* carry the same request_id, every database, Redis or Telegram call may   *)
(* fail, time out, or take effect although its caller sees an error, the   *)
(* owner may change the chat's permission between any two steps, and the   *)
(* process may crash.                                                      *)
(*                                                                         *)
(* A key stands for (account_id, client_id, request_id), the primary key   *)
(* of message_send_requests.  A body stands for the pair hashed into       *)
(* body_hash (chat id and text), so it determines the chat.  All keys      *)
(* belong to one account, which owns one send bucket and one cooldown.     *)
(***************************************************************************)
EXTENDS Naturals, Sequences

CONSTANTS
    Handlers,   \* in-flight HTTP requests the server can hold at a time
    Keys,       \* idempotency keys
    Bodies,     \* message bodies
    Chats,      \* the account's chats
    ChatOf,     \* the chat a body is addressed to
    None,       \* the absent key or body
    Capacity    \* burst of the rl:send bucket (5 in the code)

ASSUME SendAssumption ==
    /\ ChatOf \in [Bodies -> Chats]
    /\ None \notin Bodies \cup Keys
    /\ Capacity \in Nat

VARIABLES
    rows,       \* message_send_requests, by key
    perm,       \* chat_permissions.can_send, by chat
    tokens,     \* whole tokens left in the rl:send bucket
    cooldown,   \* whether the FLOOD_WAIT cooldown key lives in Redis
    sent,       \* messages handed to TDLib, in order; the index is the id
    pc,         \* next step of each handler
    req,        \* key, body, TDLib message and result id of each handler
    told,       \* history: every answer that named an accepted message
    granted     \* history: can_send held at some time since h reserved

vars == <<rows, perm, tokens, cooldown, sent, pc, req, told, granted>>

-----------------------------------------------------------------------------
NoRow == [body |-> None, status |-> "none", id |-> 0]
PendingRow(b) == [body |-> b, status |-> "pending", id |-> 0]

Rows == [body : Bodies \cup {None},
         status : {"none", "pending", "accepted", "unknown"}, id : Nat]

\* The steps a handler takes while it is the one that inserted the row.
OwnerSteps == {"limit", "unreserve", "audit", "recheck", "dispatch",
               "await", "save"}
Steps == {"idle", "access", "precheck", "reserve", "duplicate"} \cup OwnerSteps

\* What a handler knows; NoRequest between two requests.
Requests == [key : Keys \cup {None}, body : Bodies \cup {None},
             msg : Nat, id : Nat]
NoRequest == [key |-> None, body |-> None, msg |-> 0, id |-> 0]
Claims == [key : Keys, body : Bodies, id : Nat]

ChatFor(h) == ChatOf[req[h].body]

TypeOK ==
    /\ rows \in [Keys -> Rows]
    /\ perm \in [Chats -> BOOLEAN]
    /\ tokens \in 0..Capacity
    /\ cooldown \in BOOLEAN
    /\ sent \in Seq([key : Keys, body : Bodies])
    /\ pc \in [Handlers -> Steps]
    /\ req \in [Handlers -> Requests]
    /\ told \in SUBSET Claims
    /\ granted \in [Handlers -> BOOLEAN]
    /\ \A h \in Handlers : pc[h] # "idle" =>
            req[h].key \in Keys /\ req[h].body \in Bodies

\* No request in flight; existing chats start denied (migration 000016).
Init ==
    /\ rows = [k \in Keys |-> NoRow]
    /\ perm = [c \in Chats |-> FALSE]
    /\ tokens = Capacity
    /\ cooldown = FALSE
    /\ sent = <<>>
    /\ pc = [h \in Handlers |-> "idle"]
    /\ req = [h \in Handlers |-> NoRequest]
    /\ told = {}
    /\ granted = [h \in Handlers |-> FALSE]

-----------------------------------------------------------------------------
Goto(h, step) ==
    /\ pc' = [pc EXCEPT ![h] = step]
    /\ UNCHANGED <<told, granted>>

Finish(h) ==
    /\ pc' = [pc EXCEPT ![h] = "idle"]
    /\ req' = [req EXCEPT ![h] = NoRequest]
    /\ granted' = [granted EXCEPT ![h] = FALSE]

\* writeError and return: the client learns of no message id.
Refuse(h) == Finish(h) /\ UNCHANGED told

\* writeJSON with telegram_message_id and return.
Confirm(h, id) ==
    /\ told' = told \cup {[key |-> req[h].key, body |-> req[h].body, id |-> id]}
    /\ Finish(h)

\* A client sends a request, a first time or again: any key with any body.
Receive(h, k, b) ==
    /\ pc[h] = "idle"
    /\ pc' = [pc EXCEPT ![h] = "access"]
    /\ req' = [req EXCEPT ![h] = [key |-> k, body |-> b, msg |-> 0, id |-> 0]]
    /\ UNCHANGED <<rows, perm, tokens, cooldown, sent, told, granted>>

\* chatAccess calls allowChat(send = true): the permission row must say
\* can_send; an invalid id, a missing row or a database error refuses too.
ChatAccess(h) ==
    /\ pc[h] = "access"
    /\ \/ perm[ChatFor(h)] /\ Goto(h, "precheck") /\ UNCHANGED req
       \/ Refuse(h)
    /\ UNCHANGED <<rows, perm, tokens, cooldown, sent>>

\* Scope, text, request_id, chat row and session each end the request with an
\* error; an unreadable or running cooldown answers 429.
Precheck(h) ==
    /\ pc[h] = "precheck"
    /\ \/ ~cooldown /\ Goto(h, "reserve") /\ UNCHANGED req
       \/ Refuse(h)
    /\ UNCHANGED <<rows, perm, tokens, cooldown, sent>>

\* Mutant: RowsAffected of the INSERT is not looked at.
ReserveAgain(h) ==
    /\ pc[h] = "reserve"
    /\ rows' = [rows EXCEPT ![req[h].key] = PendingRow(req[h].body)]
    /\ pc' = [pc EXCEPT ![h] = "limit"]
    /\ granted' = [granted EXCEPT ![h] = perm[ChatFor(h)]]
    /\ UNCHANGED <<perm, tokens, cooldown, sent, req, told>>

\* INSERT ... ON CONFLICT DO NOTHING: what the statement leaves in the table.
Inserted(h) ==
    IF rows[req[h].key] = NoRow
    THEN [rows EXCEPT ![req[h].key] = PendingRow(req[h].body)]
    ELSE rows

Reserve(h) ==
    /\ pc[h] = "reserve"
    /\ rows' = Inserted(h)
    /\ pc' = [pc EXCEPT ![h] =
                IF rows[req[h].key] = NoRow THEN "limit" ELSE "duplicate"]
    /\ granted' = [granted EXCEPT ![h] = perm[ChatFor(h)]]
    /\ UNCHANGED <<perm, tokens, cooldown, sent, req, told>>

\* The INSERT returned an error: the row may have been written or not.
ReserveFails(h) ==
    /\ pc[h] = "reserve"
    /\ rows' \in {rows, Inserted(h)}
    /\ Refuse(h)
    /\ UNCHANGED <<perm, tokens, cooldown, sent>>

\* Mutant: body_hash is not compared.
DuplicateAnyBody(h) ==
    /\ pc[h] = "duplicate"
    /\ \/ Refuse(h)
       \/ /\ rows[req[h].key].status = "accepted"
          /\ Confirm(h, rows[req[h].key].id)
    /\ UNCHANGED <<rows, perm, tokens, cooldown, sent>>

\* The key was taken: answer from the stored row, never dispatch.  The lookup
\* may fail or find the row deleted; another body, or a message not known to
\* be accepted, answers 409.
Duplicate(h) ==
    LET row == rows[req[h].key] IN
    /\ pc[h] = "duplicate"
    /\ \/ Refuse(h)
       \/ /\ row.body = req[h].body
          /\ row.status = "accepted"
          /\ Confirm(h, row.id)
    /\ UNCHANGED <<rows, perm, tokens, cooldown, sent>>

\* Mutant: an empty bucket is overdrawn.
LimitOverdrawn(h) ==
    /\ pc[h] = "limit"
    /\ tokens' = tokens - 1
    /\ Goto(h, "audit")
    /\ UNCHANGED <<rows, perm, cooldown, sent, req>>

\* limiter.Allow on the account's send bucket; an empty bucket or a Redis
\* error (which may still have taken the token) gives the reservation up.
Limit(h) ==
    /\ pc[h] = "limit"
    /\ \/ /\ tokens > 0
          /\ tokens' = tokens - 1
          /\ \E step \in {"audit", "unreserve"} : Goto(h, step)
       \/ UNCHANGED tokens /\ Goto(h, "unreserve")
    /\ UNCHANGED <<rows, perm, cooldown, sent, req>>

\* DELETE the reservation; its error is ignored, so the row may stay.
Unreserve(h) ==
    /\ pc[h] = "unreserve"
    /\ rows' \in {rows, [rows EXCEPT ![req[h].key] = NoRow]}
    /\ Refuse(h)
    /\ UNCHANGED <<perm, tokens, cooldown, sent>>

\* The audit record TELEGRAM_SEND_REQUESTED is written before the dispatch.
Audit(h) ==
    /\ pc[h] = "audit"
    /\ \/ Goto(h, "recheck") /\ UNCHANGED req
       \/ Refuse(h)
    /\ UNCHANGED <<rows, perm, tokens, cooldown, sent>>

\* Mutant: the permission is not read again.
RecheckSkipped(h) ==
    /\ pc[h] = "recheck"
    /\ Goto(h, "dispatch")
    /\ UNCHANGED <<rows, perm, tokens, cooldown, sent, req>>

\* The second allowChat, after the reservation.
Recheck(h) ==
    /\ pc[h] = "recheck"
    /\ \/ perm[ChatFor(h)] /\ Goto(h, "dispatch") /\ UNCHANGED req
       \/ Refuse(h)
    /\ UNCHANGED <<rows, perm, tokens, cooldown, sent>>

\* SendText hands sendMessage to TDLib, or finds the client closed.
Dispatch(h) ==
    /\ pc[h] = "dispatch"
    /\ \/ /\ sent' = Append(sent, [key |-> req[h].key, body |-> req[h].body])
          /\ req' = [req EXCEPT ![h].msg = Len(sent) + 1]
          /\ Goto(h, "await")
       \/ /\ Goto(h, "save")
          /\ UNCHANGED <<sent, req>>
    /\ UNCHANGED <<rows, perm, tokens, cooldown>>

\* TDLib's answer: the message id; an error, a timeout or a cancelled request
\* (no id); or FLOOD_WAIT, whose cooldown may fail to be stored.
Answer(h) ==
    /\ pc[h] = "await"
    /\ \/ /\ req' = [req EXCEPT ![h].id = req[h].msg]
          /\ UNCHANGED cooldown
       \/ /\ cooldown' \in {cooldown, TRUE}
          /\ UNCHANGED req
    /\ Goto(h, "save")
    /\ UNCHANGED <<rows, perm, tokens, sent>>

\* Mutant: a failed delivery frees the request_id.
SavedFreed(h) ==
    [rows EXCEPT ![req[h].key] =
        IF @ = NoRow \/ req[h].id = 0 THEN NoRow
        ELSE [body |-> @.body, status |-> "accepted", id |-> req[h].id]]

\* The row after UPDATE ... SET status, telegram_message_id.
Saved(h) ==
    LET status == IF req[h].id = 0 THEN "unknown" ELSE "accepted"
    IN  [rows EXCEPT ![req[h].key] =
            IF @ = NoRow THEN @
            ELSE [body |-> @.body, status |-> status, id |-> req[h].id]]

Save(h) ==
    /\ pc[h] = "save"
    /\ rows' = Saved(h)
    /\ IF req[h].id = 0 THEN Refuse(h) ELSE Confirm(h, req[h].id)
    /\ UNCHANGED <<perm, tokens, cooldown, sent>>

\* The UPDATE returned an error, after it was applied or not: 502.
SaveFails(h) ==
    /\ pc[h] = "save"
    /\ rows' \in {rows, Saved(h)}
    /\ Refuse(h)
    /\ UNCHANGED <<perm, tokens, cooldown, sent>>

-----------------------------------------------------------------------------
\* accountPermission: the owner grants or revokes can_send at /account.
SetPermission(c, v) ==
    /\ perm' = [perm EXCEPT ![c] = v]
    /\ granted' = [h \in Handlers |->
            \/ granted[h]
            \/ v /\ pc[h] \in OwnerSteps /\ ChatFor(h) = c]
    /\ UNCHANGED <<rows, tokens, cooldown, sent, pc, req, told>>

\* The bucket refills with time; a cooldown key expires.
Refill ==
    /\ tokens < Capacity
    /\ tokens' = tokens + 1
    /\ UNCHANGED <<rows, perm, cooldown, sent, pc, req, told, granted>>

CooldownExpires ==
    /\ cooldown
    /\ cooldown' = FALSE
    /\ UNCHANGED <<rows, perm, tokens, sent, pc, req, told, granted>>

\* The process dies: handlers vanish, tables and Telegram keep what they have.
Crash ==
    /\ pc' = [h \in Handlers |-> "idle"]
    /\ req' = [h \in Handlers |-> NoRequest]
    /\ granted' = [h \in Handlers |-> FALSE]
    /\ UNCHANGED <<rows, perm, tokens, cooldown, sent, told>>

HandlerStep(h) ==
    \/ ChatAccess(h) \/ Precheck(h) \/ Reserve(h) \/ ReserveFails(h)
    \/ Duplicate(h) \/ Limit(h) \/ Unreserve(h) \/ Audit(h) \/ Recheck(h)
    \/ Dispatch(h) \/ Answer(h) \/ Save(h) \/ SaveFails(h)

Next ==
    \/ \E h \in Handlers : HandlerStep(h)
    \/ \E h \in Handlers, k \in Keys, b \in Bodies : Receive(h, k, b)
    \/ \E c \in Chats, v \in BOOLEAN : SetPermission(c, v)
    \/ Refill
    \/ CooldownExpires
    \/ Crash

Spec == Init /\ [][Next]_vars

\* Every call of a handler is bounded by a context deadline, so a request in
\* flight always takes its next step; clients and owners owe nothing.
FairSpec == Spec /\ \A h \in Handlers : WF_vars(HandlerStep(h))

-----------------------------------------------------------------------------
\* A request_id is handed to TDLib at most once, whatever is retried, however
\* many requests race, and wherever the process crashes (send.go:89-90: "Once
\* reserved, this key is never automatically dispatched again").
AtMostOnceDispatch ==
    \A i, j \in DOMAIN sent : sent[i].key = sent[j].key => i = j

\* "accepted" is never claimed of another message: a stored or replied message
\* id names the message of that very key and body, so a retry that is answered
\* from the table gets the id of what the first attempt sent.
AcceptedIsReal ==
    /\ \A k \in Keys : rows[k].status = "accepted" =>
            /\ rows[k].id \in DOMAIN sent
            /\ sent[rows[k].id] = [key |-> k, body |-> rows[k].body]
    /\ \A c \in told :
            /\ c.id \in DOMAIN sent
            /\ sent[c.id] = [key |-> c.key, body |-> c.body]

\* A revocation that completed before the reservation, or between it and the
\* second allowChat, keeps the message from Telegram: whatever reaches TDLib
\* was permitted at some moment after its key was reserved.
RevocationHolds ==
    \A h \in Handlers : pc[h] \in {"dispatch", "await"} => granted[h]

\* Once a key was dispatched its row is never removed or given another body,
\* and a final status is never overwritten.
KeepsReservation ==
    \A k \in Keys :
        /\ (\E i \in DOMAIN sent : sent[i].key = k) =>
              rows'[k] # NoRow /\ rows'[k].body = rows[k].body
        /\ rows[k].status \in {"accepted", "unknown"} => rows'[k] = rows[k]

ReservationIsDurable == [][KeepsReservation]_vars

\* The answer of send.go:94, "send rate limit exceeded; retry later with the
\* same request_id", leaves the request_id free to be retried.
LimitedIsRetryable ==
    [][\A h \in Handlers :
        Unreserve(h) => rows'[req[h].key] = NoRow]_vars
=============================================================================
