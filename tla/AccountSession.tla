--------------------------- MODULE AccountSession ---------------------------
(***************************************************************************)
(* The TDLib session of one Telegram account: the leased runner of         *)
(* gateway.Manager (internal/gateway/manager.go, internal/runtime), the    *)
(* hand-over of the directory of a new browser login (AttachLogin in       *)
(* internal/gateway/public.go) and the disposal of abandoned logins        *)
(* (internal/webauth).                                                     *)
(*                                                                         *)
(* TDLib owns a directory while a client is open on it.  Two rules keep    *)
(* clients apart: only the holder of the account's lease opens the         *)
(* account's directory, and a login closes its own client before its       *)
(* directory becomes the account's.  Any database call may fail, applied   *)
(* or not, and a process may crash between any two steps.                  *)
(*                                                                         *)
(* A lease is named by its process: a process has one runner per account,  *)
(* and a lease whose runner is gone (crash, failed release, lost commit)   *)
(* belongs to nobody (Gone), as a restarted process has a new worker id.   *)
(* All logins authenticate the account's Telegram user.                    *)
(***************************************************************************)
EXTENDS Naturals

CONSTANTS
    Processes,   \* gateway processes; the README supports one
    Dirs,        \* session directories, one per login attempt
    None, Gone,
    Stalls,      \* whether a lease may expire under a living runner
    MaxCrashes   \* bound on process crashes

ASSUME SessionAssumption ==
    /\ None \notin Processes \cup Dirs
    /\ Gone \notin Processes \cup {None}
    /\ Stalls \in BOOLEAN
    /\ MaxCrashes \in Nat

VARIABLES
    account,     \* telegram_accounts: status and session_directory_id
    row,         \* telegram_session_runtime: desired_state and the lease
    listed,      \* Run's query found the account and has not looked at it yet
    runner,      \* step of each process's runAccount
    sess,        \* the runner's tdlib.Session: directory and authorization
    ready,       \* m.ready, and the runner's activated
    login,       \* login attempts by their directory: step and process
    removed,     \* directories deleted from disk
    crashes

vars == <<account, row, listed, runner, sess, ready, login, removed, crashes>>

-----------------------------------------------------------------------------
NoSession == [dir |-> None, auth |-> "none"]
NoLogin == [step |-> "none", proc |-> None]

RunnerSteps == {"off", "acquire", "load", "open", "loop", "activate",
                "observe", "close", "release", "forget"}
LoginSteps == {"none", "login", "verified", "close", "closing", "wait",
               "commit", "attached", "expired", "remove", "done", "gone"}

\* The steps of AttachLogin that hold loginMu, and a.mu of the attempt.
Attaching == {"close", "closing", "wait", "commit"}

TypeOK ==
    /\ account \in [status : {"none", "pending", "active", "disconnected"},
                    dir : Dirs \cup {None}]
    /\ row \in [desired : {"online", "offline"},
                holder : Processes \cup {None, Gone}, live : BOOLEAN]
    /\ listed \in [Processes -> BOOLEAN]
    /\ runner \in [Processes -> RunnerSteps]
    /\ sess \in [Processes ->
                   [dir : Dirs \cup {None},
                    auth : {"none", "starting", "ready", "out", "closing",
                            "closed"}]]
    /\ ready \in [Processes -> BOOLEAN]
    /\ login \in [Dirs -> [step : LoginSteps, proc : Processes \cup {None}]]
    /\ removed \in SUBSET Dirs
    /\ crashes \in 0..MaxCrashes
    /\ row.live => row.holder # None

Init ==
    /\ account = [status |-> "none", dir |-> None]
    /\ row = [desired |-> "online", holder |-> None, live |-> FALSE]
    /\ listed = [p \in Processes |-> FALSE]
    /\ runner = [p \in Processes |-> "off"]
    /\ sess = [p \in Processes |-> NoSession]
    /\ ready = [p \in Processes |-> FALSE]
    /\ login = [d \in Dirs |-> NoLogin]
    /\ removed = {}
    /\ crashes = 0

\* lease_expires_at IS NULL OR lease_expires_at <= NOW()
LeaseFree == ~row.live

Open(p) == sess[p].auth \notin {"none", "closed"}

\* What Get hands to a tool call.
Serving(p) == ready[p] /\ sess[p].auth = "ready"

Goto(p, step) == runner' = [runner EXCEPT ![p] = step]

\* accounts.MarkDisconnected, whose error is ignored.
MarkDisconnected ==
    account' \in {account, [account EXCEPT !.status = "disconnected"]}

-----------------------------------------------------------------------------
\* Run reads the accounts that should be online ...
List(p) ==
    /\ account.status \in {"pending", "active"} /\ row.desired = "online"
    /\ ~listed[p]
    /\ listed' = [listed EXCEPT ![p] = TRUE]
    /\ UNCHANGED <<account, row, runner, sess, ready, login, removed, crashes>>

\* ... and then starts a runner where m.sessions has none.
Start(p) ==
    /\ listed[p]
    /\ listed' = [listed EXCEPT ![p] = FALSE]
    /\ Goto(p, IF runner[p] = "off" THEN "acquire" ELSE runner[p])
    /\ UNCHANGED <<account, row, sess, ready, login, removed, crashes>>

\* Mutant: a lease that has not expired is taken over.
AcquireTakesOver(p) ==
    /\ runner[p] = "acquire"
    /\ row.desired = "online"
    /\ row' = [row EXCEPT !.holder = p, !.live = TRUE]
    /\ Goto(p, "load")
    /\ UNCHANGED <<account, listed, sess, ready, login, removed, crashes>>

Acquire(p) ==
    /\ runner[p] = "acquire"
    /\ row.desired = "online" /\ LeaseFree
    /\ row' = [row EXCEPT !.holder = p, !.live = TRUE]
    /\ Goto(p, "load")
    /\ UNCHANGED <<account, listed, sess, ready, login, removed, crashes>>

\* No row matches, an error, or a commit whose answer was lost: the runner
\* ends without a release.
AcquireFails(p) ==
    /\ runner[p] = "acquire"
    /\ \/ UNCHANGED row
       \/ /\ row.desired = "online" /\ LeaseFree
          /\ row' = [row EXCEPT !.holder = Gone, !.live = TRUE]
    /\ Goto(p, "off")
    /\ UNCHANGED <<account, listed, sess, ready, login, removed, crashes>>

\* The directory is read under the lease.
Load(p) ==
    /\ runner[p] = "load"
    /\ \/ /\ sess' = [sess EXCEPT ![p] = [dir |-> account.dir, auth |-> "none"]]
          /\ Goto(p, "open")
       \/ Goto(p, "release") /\ UNCHANGED sess
    /\ UNCHANGED <<account, row, listed, ready, login, removed, crashes>>

\* tdlib.Open, and the session becomes visible in m.sessions.
OpenSession(p) ==
    /\ runner[p] = "open"
    /\ \/ /\ sess' = [sess EXCEPT ![p].auth = "starting"]
          /\ Goto(p, "loop")
       \/ Goto(p, "release") /\ UNCHANGED sess
    /\ UNCHANGED <<account, row, listed, ready, login, removed, crashes>>

\* The select sees s.Done(), or the loop finds the session logged out.
SessionDone(p) ==
    /\ runner[p] = "loop"
    /\ sess[p].auth \in {"closing", "closed"}
    /\ Goto(p, "close")
    /\ UNCHANGED <<account, row, listed, sess, ready, login, removed, crashes>>

LoggedOut(p) ==
    /\ runner[p] = "loop"
    /\ IF ready[p] THEN sess[p].auth # "ready" ELSE sess[p].auth = "out"
    /\ MarkDisconnected
    /\ Goto(p, "close")
    /\ UNCHANGED <<row, listed, sess, ready, login, removed, crashes>>

\* Mutant: the renewal does not compare worker, token and generation.
RenewStopsIfOffline(p) ==
    /\ runner[p] = "loop"
    /\ row.desired = "offline"
    /\ Goto(p, "close")
    /\ UNCHANGED <<account, row, listed, sess, ready, login, removed, crashes>>

\* Renew finds the lease lost, or desired_state is not online.  A renewal that
\* succeeds changes nothing here: its lease was live.
RenewStops(p) ==
    /\ runner[p] = "loop"
    /\ row.holder # p \/ ~row.live \/ row.desired = "offline"
    /\ Goto(p, "close")
    /\ UNCHANGED <<account, row, listed, sess, ready, login, removed, crashes>>

\* A database error, or the context of the process is cancelled.
RenewError(p) ==
    /\ runner[p] = "loop"
    /\ Goto(p, "close")
    /\ UNCHANGED <<account, row, listed, sess, ready, login, removed, crashes>>

\* getMe names the expected user, or another one.
Profile(p) ==
    /\ runner[p] = "loop" /\ ~ready[p] /\ sess[p].auth = "ready"
    /\ \/ Goto(p, "activate") /\ UNCHANGED account
       \/ Goto(p, "close") /\ MarkDisconnected
    /\ UNCHANGED <<row, listed, sess, ready, login, removed, crashes>>

Activate(p) ==
    /\ runner[p] = "activate"
    /\ \/ /\ account' = [account EXCEPT !.status = "active"]
          /\ \E step \in {"observe", "close"} : Goto(p, step)
       \/ UNCHANGED account /\ Goto(p, "close")
    /\ UNCHANGED <<row, listed, sess, ready, login, removed, crashes>>

\* SetObservedState, for the holder of the lease only.
Observe(p) ==
    /\ runner[p] = "observe"
    /\ \/ /\ row.holder = p
          /\ ready' = [ready EXCEPT ![p] = TRUE]
          /\ Goto(p, "loop")
       \/ Goto(p, "close") /\ UNCHANGED ready
    /\ UNCHANGED <<account, row, listed, sess, login, removed, crashes>>

-----------------------------------------------------------------------------
\* Mutant: the lease is released before the client is closed.
CloseSessionLater(p) ==
    /\ runner[p] = "close"
    /\ Goto(p, "release")
    /\ UNCHANGED <<account, row, listed, sess, ready, login, removed, crashes>>

\* The deferred s.Close: closeOnce lets one caller close and all callers wait.
CloseSession(p) ==
    /\ runner[p] = "close"
    /\ \/ /\ Open(p) /\ sess[p].auth # "closing"
          /\ sess' = [sess EXCEPT ![p].auth = "closing"]
          /\ UNCHANGED runner
       \/ /\ ~Open(p)
          /\ Goto(p, "release")
          /\ UNCHANGED sess
    /\ UNCHANGED <<account, row, listed, ready, login, removed, crashes>>

\* Mutant: worker_id is cleared and lease_expires_at is not.
ReleaseKeepsExpiry(p) ==
    /\ runner[p] = "release"
    /\ row' = IF row.holder = p THEN [row EXCEPT !.holder = None] ELSE row
    /\ Goto(p, "forget")
    /\ UNCHANGED <<account, listed, sess, ready, login, removed, crashes>>

\* The deferred Release, matched on worker, token and generation; when it fails
\* the lease is left to expire.
Release(p) ==
    /\ runner[p] = "release"
    /\ IF row.holder = p
       THEN row' \in {[row EXCEPT !.holder = None, !.live = FALSE],
                      [row EXCEPT !.holder = Gone]}
       ELSE UNCHANGED row
    /\ Goto(p, "forget")
    /\ UNCHANGED <<account, listed, sess, ready, login, removed, crashes>>

\* The first deferred call runs last: m.sessions and m.ready forget the account.
Forget(p) ==
    /\ runner[p] = "forget"
    /\ Goto(p, "off")
    /\ sess' = [sess EXCEPT ![p] = NoSession]
    /\ ready' = [ready EXCEPT ![p] = FALSE]
    /\ UNCHANGED <<account, row, listed, login, removed, crashes>>

\* TDLib: the session resumes, turns out to be logged out, or is closed.
Tdlib(p) ==
    /\ \E auth \in {"ready", "out", "closed"} :
          /\ \/ sess[p].auth = "starting" /\ auth \in {"ready", "out"}
             \/ sess[p].auth = "ready" /\ auth = "out"
             \/ sess[p].auth \in {"out", "closing"} /\ auth = "closed"
          /\ sess' = [sess EXCEPT ![p].auth = auth]
    /\ UNCHANGED <<account, row, listed, runner, ready, login, removed, crashes>>

\* The TTL of 45 s passes without a renewal: nobody is left to renew, or the
\* holder was held up beyond the 10 s period of Renew.
LeaseExpires ==
    /\ row.live
    /\ Stalls \/ row.holder = Gone
    /\ row' = [row EXCEPT !.live = FALSE]
    /\ UNCHANGED <<account, listed, runner, sess, ready, login, removed, crashes>>

-----------------------------------------------------------------------------
LoginGoto(d, step) == login' = [login EXCEPT ![d].step = step]

\* A directory nothing refers to stands for one with a new UUID.
Fresh(d) ==
    /\ login[d].step \in {"none", "done", "gone"}
    /\ account.dir # d
    /\ \A p \in Processes : sess[p].dir # d

\* /auth/login/start opens a client on a directory of its own.
LoginStart(p, d) ==
    /\ Fresh(d)
    /\ login' = [login EXCEPT ![d] = [step |-> "login", proc |-> p]]
    /\ removed' = removed \ {d}
    /\ UNCHANGED <<account, row, listed, runner, sess, ready, crashes>>

\* /auth/login/state: the login session is ready, getMe names the user, and the
\* session is closed.
LoginVerified(d) ==
    /\ login[d].step = "login"
    /\ LoginGoto(d, "verified")
    /\ UNCHANGED <<account, row, listed, runner, sess, ready, removed, crashes>>

\* Mutant: the runner is not told to stop.
AttachFirstOnline(d) ==
    /\ login[d].step = "verified"
    /\ \A e \in Dirs : login[e].proc = login[d].proc =>
          login[e].step \notin Attaching
    /\ account' = IF account.status = "none"
                  THEN [status |-> "pending", dir |-> d] ELSE account
    /\ LoginGoto(d, "close")
    /\ UNCHANGED <<row, listed, runner, sess, ready, removed, crashes>>

\* AttachLogin, under loginMu, first transaction: find or create the account
\* and ask its runner to stop.
AttachFirst(d) ==
    /\ login[d].step = "verified"
    /\ \A e \in Dirs : login[e].proc = login[d].proc =>
          login[e].step \notin Attaching
    /\ account' = IF account.status = "none"
                  THEN [status |-> "pending", dir |-> d] ELSE account
    /\ row' = [row EXCEPT !.desired = "offline"]
    /\ \E step \in {"close", "verified"} : LoginGoto(d, step)
    /\ UNCHANGED <<listed, runner, sess, ready, removed, crashes>>

\* old.Close() on the session this process has in m.sessions, if any.
AttachClose(d) ==
    LET p == login[d].proc IN
    /\ login[d].step = "close"
    /\ IF Open(p)
       THEN /\ sess' = [sess EXCEPT ![p].auth = "closing"]
            /\ LoginGoto(d, "closing")
       ELSE LoginGoto(d, "wait") /\ UNCHANGED sess
    /\ UNCHANGED <<account, row, listed, runner, ready, removed, crashes>>

AttachClosed(d) ==
    /\ login[d].step = "closing"
    /\ sess[login[d].proc].auth # "closing"
    /\ LoginGoto(d, "wait")
    /\ UNCHANGED <<account, row, listed, runner, sess, ready, removed, crashes>>

\* Mutant: the directory is handed over whatever the lease says.
AttachWaitSkipped(d) ==
    /\ login[d].step = "wait"
    /\ LoginGoto(d, "commit")
    /\ UNCHANGED <<account, row, listed, runner, sess, ready, removed, crashes>>

\* Poll until the lease is free; 12 s later, or on an error, give up.  The
\* account stays offline: the page may ask again.
AttachWait(d) ==
    /\ login[d].step = "wait"
    /\ \/ LeaseFree /\ LoginGoto(d, "commit")
       \/ LoginGoto(d, "verified")
    /\ UNCHANGED <<account, row, listed, runner, sess, ready, removed, crashes>>

\* Second transaction: the login's directory becomes the account's.  It may
\* fail, applied or not.
AttachSecond(d) ==
    /\ login[d].step = "commit"
    /\ \/ /\ account' = [status |-> "active", dir |-> d]
          /\ row' = [row EXCEPT !.desired = "online"]
          /\ \E step \in {"attached", "verified"} : LoginGoto(d, step)
       \/ LoginGoto(d, "verified") /\ UNCHANGED <<account, row>>
    /\ UNCHANGED <<listed, runner, sess, ready, removed, crashes>>

\* The audit record and the cookie, which needs an active account.
LoginDone(d) ==
    /\ login[d].step = "attached"
    /\ account.status = "active"
    /\ LoginGoto(d, "done")
    /\ UNCHANGED <<account, row, listed, runner, sess, ready, removed, crashes>>

\* maintain, after ten minutes: takes a.mu, so not during AttachLogin; closes
\* the login's session.
LoginExpires(d) ==
    /\ login[d].step \in {"login", "verified", "attached"}
    /\ LoginGoto(d, "expired")
    /\ UNCHANGED <<account, row, listed, runner, sess, ready, removed, crashes>>

\* DiscardLoginStorage asks whether an account uses the directory ...
Discard(d) ==
    /\ login[d].step = "expired"
    /\ \/ account.dir # d /\ LoginGoto(d, "remove")
       \/ LoginGoto(d, "gone")
    /\ UNCHANGED <<account, row, listed, runner, sess, ready, removed, crashes>>

\* ... and removes it later.
Remove(d) ==
    /\ login[d].step = "remove"
    /\ removed' = removed \cup {d}
    /\ LoginGoto(d, "gone")
    /\ UNCHANGED <<account, row, listed, runner, sess, ready, crashes>>

\* The process dies with its runner, its TDLib clients and its attempts.
Crash(p) ==
    /\ crashes < MaxCrashes
    /\ crashes' = crashes + 1
    /\ listed' = [listed EXCEPT ![p] = FALSE]
    /\ Goto(p, "off")
    /\ sess' = [sess EXCEPT ![p] = NoSession]
    /\ ready' = [ready EXCEPT ![p] = FALSE]
    /\ row' = [row EXCEPT !.holder = IF @ = p THEN Gone ELSE @]
    /\ login' = [d \in Dirs |->
            IF login[d].proc = p /\ login[d].step # "done"
            THEN [login[d] EXCEPT !.step = "gone"] ELSE login[d]]
    /\ UNCHANGED <<account, removed>>

-----------------------------------------------------------------------------
\* What a runner does next, whatever answers it gets.
Advance(p) ==
    \/ Acquire(p) \/ AcquireFails(p) \/ Load(p) \/ OpenSession(p)
    \/ SessionDone(p) \/ Activate(p) \/ Observe(p)
    \/ CloseSession(p) \/ Release(p) \/ Forget(p)

RunnerStep(p) ==
    \/ List(p) \/ Start(p) \/ Advance(p) \/ LoggedOut(p) \/ Profile(p)
    \/ RenewStops(p) \/ RenewError(p)

LoginStep(d) ==
    \/ LoginVerified(d)
    \/ AttachFirst(d) \/ AttachClose(d) \/ AttachClosed(d) \/ AttachWait(d)
    \/ AttachSecond(d) \/ LoginDone(d)
    \/ LoginExpires(d) \/ Discard(d) \/ Remove(d)

Next ==
    \/ \E p \in Processes : RunnerStep(p) \/ Tdlib(p) \/ Crash(p)
    \/ \E p \in Processes, d \in Dirs : LoginStart(p, d)
    \/ \E d \in Dirs : LoginStep(d)
    \/ LeaseExpires

Spec == Init /\ [][Next]_vars

\* A runner's calls return and TDLib answers a close; the one-second loop
\* reaches Renew every 10 s; a lease nobody renews expires; AttachLogin is
\* bounded by its contexts, and maintain ends every attempt.  No browser has
\* to come back.
Fairness ==
    /\ \A p \in Processes :
          /\ WF_vars(Advance(p)) /\ WF_vars(List(p)) /\ WF_vars(Start(p))
          /\ SF_vars(RenewStops(p))
          /\ WF_vars(sess[p].auth = "closing" /\ Tdlib(p))
    /\ \A d \in Dirs :
          /\ WF_vars(AttachClose(d) \/ AttachClosed(d) \/ AttachWait(d)
                       \/ AttachSecond(d) \/ Discard(d) \/ Remove(d))
          /\ SF_vars(LoginExpires(d))
    /\ WF_vars(row.holder = Gone /\ LeaseExpires)

FairSpec == Spec /\ Fairness

-----------------------------------------------------------------------------
\* The account has one open session at most, and none on the directory a login
\* is still using, through restarts, failed releases and hand-overs (with
\* leases renewed in time).
OneSession ==
    \A p \in Processes : Open(p) =>
        /\ \A q \in Processes : Open(q) => p = q
        /\ login[sess[p].dir].step # "login"

\* Tool calls are served by the process that holds the lease: runAccount closes
\* the session before it releases.
ServedUnderLease ==
    \A p \in Processes : Serving(p) => row.holder = p /\ row.live

\* After a login replaced the directory, nothing is served from the old one
\* (one process).
ServedIsCurrent ==
    \A p \in Processes : Serving(p) => sess[p].dir = account.dir

\* The runner of a replaced directory does not disconnect the account that the
\* login has just connected (one process), although MarkDisconnected is not
\* matched on the lease.
DisconnectsOwn ==
    account.status = "active" /\ account'.status = "disconnected" =>
        \E p \in Processes : runner[p] = "loop" /\ sess[p].dir = account.dir

\* The directory of the account, or of an open session, is never deleted as an
\* abandoned login's.
DirectoryKept ==
    /\ account.dir \notin removed
    /\ \A p \in Processes : Open(p) => sess[p].dir \notin removed

\* AttachLogin waits for something that comes: a runner asked to go offline
\* gives its lease up.
OfflineFreesLease ==
    row.desired = "offline" ~> row.desired = "online" \/ LeaseFree

\* A runner that let its lease lapse, or lost it, closes its session: the
\* renewal does not revive an expired lease.
LostLeaseStops ==
    \A p \in Processes :
        Open(p) /\ ~(row.holder = p /\ row.live) ~> ~Open(p)

\* README.md:95: "Telegram connections remain online": an active account that
\* went offline for a login comes back online.
StaysOnline ==
    account.status = "active" /\ row.desired = "offline" ~> row.desired = "online"

\* A runner stops when it is asked to, and when its lease is lost.
RunnersStop == OfflineFreesLease /\ LostLeaseStops
=============================================================================
