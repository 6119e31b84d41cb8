------------------------------ MODULE TdlibRpc ------------------------------
(***************************************************************************)
(* One TDLib client of a session: the callers of rpc.call, the single      *)
(* receiver goroutine, Session.update which that goroutine runs, the       *)
(* goroutine that watches the session's context, and Session.Close         *)
(* (internal/tdlib/rpc.go and session.go).  TDLib itself is external: it   *)
(* answers each request at most once, in any order, possibly never, and    *)
(* emits updates of its own.                                               *)
(*                                                                         *)
(* A call is one execution of rpc.call.  InitCall is the one initialize    *)
(* makes and CloseCall the one Session.Close makes.  r.mu is modelled      *)
(* because a call holds it across the table insertion and Send.            *)
(***************************************************************************)
EXTENDS Naturals, Sequences, FiniteSets

CONSTANTS
    Calls,          \* executions of rpc.call
    InitCall,       \* setTdlibParameters
    CloseCall,      \* the close request of Session.Close
    None,           \* no call
    MaxUpdates,     \* bound on the data updates TDLib emits
    MaxQueue        \* bound on the messages TDLib has ready

ASSUME RpcAssumption ==
    /\ {InitCall, CloseCall} \subseteq Calls /\ InitCall # CloseCall
    /\ None \notin Calls
    /\ MaxUpdates \in Nat /\ MaxQueue \in Nat

VARIABLES
    pc,         \* step of each call
    id,         \* @extra of each call
    seq,        \* r.seq
    pending,    \* r.pending: pairs <<id, call>>, the call standing for its ch
    chan,       \* content of each call's channel: the call answered, or None
    mu,         \* the call that holds r.mu, or None
    stop,       \* r.stop is closed
    rx,         \* step of the receiver goroutine; "done" once r.done is closed
    msg,        \* the message the receiver works on
    target,     \* the call whose channel the receiver took out of the table
    cancelled,  \* the session's context is done
    closer,     \* step of Session.Close
    auth,       \* s.state
    cached,     \* data updates applied to the session's caches
    asked,      \* requests TDLib holds
    outq,       \* messages TDLib has ready for td_json_client_receive
    tdstate,    \* TDLib's own authorization state
    emitted,    \* data updates TDLib has emitted
    served      \* history: requests TDLib has answered

callVars == <<pc, id, seq, pending, chan, mu>>
rxVars == <<rx, msg, target>>
sessionVars == <<stop, cancelled, closer>>
cacheVars == <<auth, cached>>
tdVars == <<asked, outq, tdstate, emitted, served>>
vars == <<callVars, rxVars, sessionVars, cacheVars, tdVars>>

-----------------------------------------------------------------------------
Steps == {"new", "send", "await", "answered", "failed",
          "ok", "error"}
AuthStates == {"starting", "params", "ready", "closed"}
\* seen: the data updates TDLib emitted before the message.
Answers == [kind : {"answer"}, call : Calls, id : Nat, seen : Nat]
Updates == [kind : {"data"}] \cup [kind : {"auth"}, state : AuthStates]
Messages == Answers \cup Updates
NoMessage == [kind |-> "none"]

TypeOK ==
    /\ pc \in [Calls -> Steps]
    /\ id \in [Calls -> Nat]
    /\ seq \in Nat
    /\ pending \in SUBSET (Nat \X Calls)
    /\ chan \in [Calls -> Answers \cup {NoMessage}]
    /\ mu \in Calls \cup {None}
    /\ stop \in BOOLEAN
    /\ rx \in {"check", "receive", "take", "deliver", "update", "destroy",
               "finish", "done"}
    /\ msg \in Messages \cup {NoMessage}
    /\ target \in Calls \cup {None}
    /\ cancelled \in BOOLEAN
    /\ closer \in {"idle", "call", "close", "join", "end"}
    /\ auth \in AuthStates
    /\ cached \in Nat
    /\ asked \in SUBSET Calls
    /\ outq \in Seq(Messages)
    /\ tdstate \in AuthStates
    /\ emitted \in 0..MaxUpdates
    /\ served \in SUBSET Calls
    /\ mu # None => pc[mu] = "send"
    /\ rx = "deliver" => target \in Calls

\* Open: the transport exists, the receiver and the watcher are started.
Init ==
    /\ pc = [c \in Calls |-> "new"]
    /\ id = [c \in Calls |-> 0]
    /\ seq = 0
    /\ pending = {}
    /\ chan = [c \in Calls |-> NoMessage]
    /\ mu = None
    /\ stop = FALSE
    /\ rx = "check" /\ msg = NoMessage /\ target = None
    /\ cancelled = FALSE
    /\ closer = "idle"
    /\ auth = "starting" /\ cached = 0
    /\ asked = {} /\ outq = <<>> /\ served = {}
    /\ tdstate = "starting" /\ emitted = 0

-----------------------------------------------------------------------------
\* Mutant: the sequence number is read and not advanced.
NextIdReused == 1

\* r.seq.Add(1), which names the request.
NextId == seq + 1

\* Mutant: the lock covers the table only, not Send.
EnterUnlocked(c) ==
    /\ pc[c] = "new" /\ mu = None
    /\ seq' = NextId
    /\ id' = [id EXCEPT ![c] = NextId]
    /\ pc' = [pc EXCEPT ![c] = IF stop THEN "error" ELSE "send"]
    /\ pending' = IF stop THEN pending ELSE pending \cup {<<NextId, c>>}
    /\ UNCHANGED <<chan, mu, rxVars, sessionVars, cacheVars, tdVars>>

\* Under r.mu: refuse after close, else enter the table, a map with one channel
\* per id, and keep the lock.
Enter(c) ==
    /\ pc[c] = "new" /\ mu = None
    /\ seq' = NextId
    /\ id' = [id EXCEPT ![c] = NextId]
    /\ IF stop
       THEN /\ pc' = [pc EXCEPT ![c] = "error"]
            /\ UNCHANGED <<pending, mu>>
       ELSE /\ pc' = [pc EXCEPT ![c] = "send"]
            /\ pending' = {p \in pending : p[1] # NextId} \cup {<<NextId, c>>}
            /\ mu' = c
    /\ UNCHANGED <<chan, rxVars, sessionVars, cacheVars, tdVars>>

\* Who calls: initialize once TDLib asked for its parameters (its error is only
\* remembered), Session.Close, and any other method of the session.
Caller(c) ==
    /\ c = InitCall => auth # "starting"
    /\ c = CloseCall => closer = "call"
    /\ Enter(c)

\* transport.Send, then r.mu is released.
Send(c) ==
    /\ pc[c] = "send"
    /\ pc' = [pc EXCEPT ![c] = "await"]
    /\ asked' = asked \cup {c}
    /\ mu' = None
    /\ UNCHANGED <<id, seq, pending, chan, rxVars, sessionVars, cacheVars,
                   outq, tdstate, emitted, served>>

\* Mutant: the end of the client returns no error.
AwaitZero(c) ==
    /\ pc[c] = "await"
    /\ chan[c] # NoMessage \/ rx = "done"
    /\ pc' = [pc EXCEPT ![c] = "answered"]
    /\ UNCHANGED <<id, seq, pending, chan, mu, rxVars, sessionVars, cacheVars,
                   tdVars>>

\* The select of call: an answer, the end of the client, or the deadline every
\* call has (the caller's, or 30 s).  Go picks any case that is ready.
Await(c) ==
    /\ pc[c] = "await"
    /\ \/ chan[c] # NoMessage /\ pc' = [pc EXCEPT ![c] = "answered"]
       \/ rx = "done" /\ pc' = [pc EXCEPT ![c] = "failed"]
    /\ UNCHANGED <<id, seq, pending, chan, mu, rxVars, sessionVars, cacheVars,
                   tdVars>>

Timeout(c) ==
    /\ pc[c] = "await"
    /\ pc' = [pc EXCEPT ![c] = "failed"]
    /\ UNCHANGED <<id, seq, pending, chan, mu, rxVars, sessionVars, cacheVars,
                   tdVars>>

\* The deferred delete.
Cleanup(c) ==
    /\ pc[c] \in {"answered", "failed"} /\ mu = None
    /\ pc' = [pc EXCEPT ![c] = IF pc[c] = "answered" THEN "ok" ELSE "error"]
    /\ pending' = {p \in pending : p[1] # id[c]}
    /\ UNCHANGED <<id, seq, chan, mu, rxVars, sessionVars, cacheVars, tdVars>>

-----------------------------------------------------------------------------
\* The receiver looks at r.stop between two messages.
Check ==
    /\ rx = "check"
    /\ rx' = IF stop THEN "destroy" ELSE "receive"
    /\ UNCHANGED <<msg, target, callVars, sessionVars, cacheVars, tdVars>>

\* td_json_client_receive waits at most 250 ms for a message.
Receive ==
    /\ rx = "receive"
    /\ IF outq = <<>>
       THEN rx' = "check" /\ UNCHANGED <<msg, outq>>
       ELSE /\ msg' = Head(outq)
            /\ outq' = Tail(outq)
            /\ rx' = IF Head(outq).kind = "answer" THEN "take" ELSE "update"
    /\ UNCHANGED <<target, callVars, sessionVars, cacheVars, asked, tdstate,
                   emitted, served>>

\* Under r.mu the channel is taken out of the table; nobody may wait any more.
Take ==
    /\ rx = "take" /\ mu = None
    /\ \/ \E p \in pending :
            /\ p[1] = msg.id
            /\ pending' = pending \ {p}
            /\ rx' = "deliver" /\ target' = p[2]
            /\ UNCHANGED msg
       \/ /\ \A p \in pending : p[1] # msg.id
          /\ rx' = "check" /\ msg' = NoMessage
          /\ UNCHANGED <<pending, target>>
    /\ UNCHANGED <<pc, id, seq, chan, mu, sessionVars, cacheVars, tdVars>>

\* Mutant: an unbuffered channel.
RoomUnbuffered(c) == pc[c] = "await"

\* ch has a buffer of one.
Room(c) == chan[c] = NoMessage

\* ch <- v, outside the lock, for a caller that may have given up.
Deliver ==
    /\ rx = "deliver" /\ Room(target)
    /\ chan' = [chan EXCEPT ![target] = msg]
    /\ rx' = "check" /\ msg' = NoMessage /\ target' = None
    /\ UNCHANGED <<pc, id, seq, pending, mu, sessionVars, cacheVars, tdVars>>

\* The session's caches take the update; OnUpdate may fail to persist it,
\* which ends the session.
Apply ==
    /\ cached' = cached + 1
    /\ \/ UNCHANGED cancelled
       \/ cancelled' = TRUE
    /\ UNCHANGED auth

\* authorizationStateClosed ends the session; WaitTdlibParameters lets
\* initialize start (below); Ready is read from the state.
Authorized ==
    /\ auth' = msg.state
    /\ cancelled' = (cancelled \/ msg.state = "closed")
    /\ UNCHANGED cached

\* Session.update, run by the receiver goroutine.
Update ==
    /\ rx = "update"
    /\ \/ msg.kind = "data" /\ Apply
       \/ msg.kind = "auth" /\ Authorized
    /\ rx' = "check" /\ msg' = NoMessage
    /\ UNCHANGED <<target, callVars, stop, closer, tdVars>>

\* The deferred calls of receive: Destroy, then close(r.done).
Destroy ==
    /\ rx = "destroy"
    /\ rx' = "finish"
    /\ UNCHANGED <<msg, target, callVars, sessionVars, cacheVars, tdVars>>

Finish ==
    /\ rx = "finish"
    /\ rx' = "done"
    /\ UNCHANGED <<msg, target, callVars, sessionVars, cacheVars, tdVars>>

Destroyed == rx \in {"finish", "done"}

-----------------------------------------------------------------------------
\* close(): once, under r.mu, r.stop is closed.
CloseStop == mu = None /\ stop' = TRUE

\* The goroutine of Open: <-run.Done(); r.close().
Watch ==
    /\ cancelled /\ ~stop /\ CloseStop
    /\ UNCHANGED <<cancelled, closer, callVars, rxVars, cacheVars, tdVars>>

\* The parent context of the session (the process, the lease) ends.
ParentCancel ==
    /\ ~cancelled /\ cancelled' = TRUE
    /\ UNCHANGED <<stop, closer, callVars, rxVars, cacheVars, tdVars>>

\* Session.Close asks TDLib to close, for at most 3 s, ...
CloseBegin ==
    /\ closer = "idle" /\ closer' = "call"
    /\ UNCHANGED <<stop, cancelled, callVars, rxVars, cacheVars, tdVars>>

\* ... then ends the context, closes the client and waits for the receiver.
CloseRest ==
    /\ \/ /\ closer = "call" /\ pc[CloseCall] \in {"ok", "error"}
          /\ cancelled' = TRUE /\ closer' = "close" /\ UNCHANGED stop
       \/ /\ closer = "close" /\ CloseStop
          /\ closer' = "join" /\ UNCHANGED cancelled
       \/ /\ closer = "join" /\ rx = "done"
          /\ closer' = "end" /\ UNCHANGED <<stop, cancelled>>
    /\ UNCHANGED <<callVars, rxVars, cacheVars, tdVars>>

-----------------------------------------------------------------------------
\* TDLib: answers and updates leave it in the order it produced them.
Emit(m) == ~Destroyed /\ Len(outq) < MaxQueue /\ outq' = Append(outq, m)

TdAnswer(c) ==
    /\ c \in asked
    /\ Emit([kind |-> "answer", call |-> c, id |-> id[c], seen |-> emitted])
    /\ asked' = asked \ {c}
    /\ served' = served \cup {c}
    /\ UNCHANGED <<tdstate, emitted, callVars, rxVars, sessionVars, cacheVars>>

TdData ==
    /\ tdstate = "ready" /\ emitted < MaxUpdates
    /\ Emit([kind |-> "data"])
    /\ emitted' = emitted + 1
    /\ UNCHANGED <<asked, tdstate, served, callVars, rxVars, sessionVars,
                   cacheVars>>

\* Parameters are asked for first; a session is closed on request or because
\* the account was logged out elsewhere.
TdAuth(s) ==
    /\ \/ tdstate = "starting" /\ s = "params"
       \/ tdstate = "params" /\ InitCall \in served /\ s = "ready"
       \/ tdstate = "ready" /\ s = "closed"
    /\ tdstate' = s
    /\ Emit([kind |-> "auth", state |-> s])
    /\ UNCHANGED <<asked, emitted, served, callVars, rxVars, sessionVars,
                   cacheVars>>

Tdlib == (\E c \in Calls : TdAnswer(c)) \/ TdData
         \/ (\E s \in AuthStates : TdAuth(s))

CallStep(c) == Send(c) \/ Await(c) \/ Cleanup(c)
RxStep == Check \/ Receive \/ Take \/ Deliver \/ Update \/ Destroy \/ Finish

Next ==
    \/ \E c \in Calls : Caller(c) \/ CallStep(c) \/ Timeout(c)
    \/ RxStep
    \/ Watch \/ ParentCancel \/ CloseBegin \/ CloseRest
    \/ Tdlib

Spec == Init /\ [][Next]_vars

\* Goroutines that can run do run, every call has a deadline, and Receive
\* returns within 250 ms.  TDLib, the callers and the owner owe nothing.
Fairness ==
    /\ \A c \in Calls : WF_vars(CallStep(c)) /\ WF_vars(Timeout(c))
    /\ WF_vars(Caller(CloseCall))
    /\ WF_vars(RxStep) /\ WF_vars(Watch) /\ WF_vars(CloseRest)

FairSpec == Spec /\ Fairness

-----------------------------------------------------------------------------
\* The native client is never used after td_json_client_destroy: when the
\* receiver has decided to destroy it, no call is between its look at r.stop
\* and Send (a use after free in C, which no Go test would show).
NoUseAfterDestroy ==
    rx \in {"destroy", "finish", "done"} => \A c \in Calls : pc[c] # "send"

\* An answer that arrives together with, or after, the timeout of its call
\* reaches nobody else: a channel only ever holds the answer to its own request.
OwnAnswer == \A c \in Calls : chan[c] # NoMessage => chan[c].call = c

\* Calls that timed out, failed or were answered late leave nothing in the
\* table: every entry belongs to a call in progress, whatever order the answer,
\* the deadline and the close came in.
NoStaleEntry ==
    \A p \in pending : /\ pc[p[2]] \in {"send", "await", "answered", "failed"}
                       /\ id[p[2]] = p[1]

\* "returns cached objects delivered before the RPC response" (session.go:204):
\* whoever holds an answer finds in the caches every update TDLib sent before.
CachedBeforeAnswer ==
    \A c \in Calls : chan[c] # NoMessage => cached >= chan[c].seen

\* Session.Close comes back, whether TDLib answers or not, and whatever calls,
\* timeouts, cancellations and updates it races with.
CloseReturns == closer # "idle" ~> closer = "end"

\* A session whose context ended - its parent's, a logged-out account's, or one
\* that could not persist an update - destroys its native client.
CancelDestroys == cancelled \/ auth = "closed" ~> rx = "done"

\* A caller is given its own answer, with everything TDLib sent before it in the
\* caches, and the table forgets it, in whatever order answer, deadline and
\* close arrive.
AnswersSound == OwnAnswer /\ NoStaleEntry /\ CachedBeforeAnswer

\* A session that is closed or cancelled comes to its end.
SessionEnds == CloseReturns /\ CancelDestroys

\* What a call's step means to its caller.
PhaseAt(s) == CASE s \in {"new", "send"} -> "new"
                [] s = "await" -> "asked"
                [] s \in {"answered", "ok"} -> "answered"
                [] s \in {"failed", "error"} -> "failed"

\* To its callers the client is a CallService: a call is accepted only while the
\* native client exists, gets the answer to its own request, and ends.
Service == INSTANCE CallService WITH
    phase <- [c \in Calls |-> PhaseAt(pc[c])],
    up <- ~Destroyed
ServiceSpec == Service!Spec
=============================================================================
