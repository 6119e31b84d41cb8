------------------------ MODULE AccountSessionProofs ------------------------
(***************************************************************************)
(* For any number of gateway processes and session directories: while      *)
(* leases are renewed in time, the account has one open TDLib session at   *)
(* most, never on a directory a login is using, and calls are served under *)
(* the lease.  The lease is what excludes a second process (Leased), and   *)
(* runAccount's order of deferred calls what keeps the session inside the  *)
(* lease (Inside).                                                         *)
(*                                                                         *)
(* Then for one process that runs alone, with any number of logins: the    *)
(* account's directory is replaced only while no runner has read the old   *)
(* one (AttachQuiet), so that nothing is served, deleted or disconnected   *)
(* on account of it.                                                       *)
(***************************************************************************)
EXTENDS MCAccountSession, TLAPS

\* The steps of runAccount between Acquire and Release, and those where a
\* session may be open.
HoldSteps == {"load", "open", "loop", "activate", "observe", "close", "release"}
OpenSteps == {"loop", "activate", "observe", "close"}

\* A runner past Acquire has the lease.
Leased ==
    \A p \in Processes : runner[p] \in HoldSteps => row.holder = p /\ row.live

\* A session is open only between OpenSession and the end of CloseSession.
Inside == \A p \in Processes : Open(p) => runner[p] \in OpenSteps

\* A runner is started for an account that exists, which has a directory.
Known ==
    /\ account.status # "none" => account.dir \in Dirs
    /\ \A p \in Processes : listed[p] \/ runner[p] # "off" => account.status # "none"
    /\ \A p \in Processes : runner[p] \in OpenSteps \cup {"open"} => sess[p].dir \in Dirs

\* Neither the account nor a session refers to the directory of a login that is
\* still going on.
LoginAlone ==
    \A d \in Dirs : login[d].step = "login" =>
        account.dir # d /\ \A p \in Processes : sess[p].dir # d

IInv == TypeOK /\ Leased /\ Inside /\ Known /\ LoginAlone

-----------------------------------------------------------------------------
Sessions == [dir : Dirs \cup {None},
             auth : {"none", "starting", "ready", "out", "closing", "closed"}]
Logins == [step : LoginSteps, proc : Processes \cup {None}]
Leases == [desired : {"online", "offline"},
           holder : Processes \cup {None, Gone}, live : BOOLEAN]
Accounts == [status : {"none", "pending", "active", "disconnected"},
             dir : Dirs \cup {None}]

\* TypeOK in terms of the record sets above.
LEMMA TypeParts ==
    TypeOK <=> /\ account \in Accounts /\ row \in Leases
               /\ listed \in [Processes -> BOOLEAN]
               /\ runner \in [Processes -> RunnerSteps]
               /\ sess \in [Processes -> Sessions]
               /\ ready \in [Processes -> BOOLEAN]
               /\ login \in [Dirs -> Logins]
               /\ removed \in SUBSET Dirs
               /\ crashes \in 0..MaxCrashes
               /\ row.live => row.holder # None
  BY DEF TypeOK, Accounts, Leases, Sessions, Logins

\* What an EXCEPT leaves of a session.
LEMMA SessionFields ==
    ASSUME NEW s \in Sessions,
           NEW a \in {"none", "starting", "ready", "out", "closing", "closed"}
    PROVE  /\ [s EXCEPT !.auth = a] \in Sessions
           /\ [s EXCEPT !.auth = a].dir = s.dir
           /\ [s EXCEPT !.auth = a].auth = a
  BY DEF Sessions

\* What a new step leaves of a login.
LEMMA LoginFields ==
    ASSUME NEW l \in Logins, NEW s \in LoginSteps
    PROVE  /\ [l EXCEPT !.step = s] \in Logins
           /\ [l EXCEPT !.step = s].step = s
           /\ [l EXCEPT !.step = s].proc = l.proc
  BY DEF Logins

\* MarkDisconnected keeps the directory, and an account in existence.
LEMMA Disconnected ==
    ASSUME account \in Accounts, MarkDisconnected
    PROVE  /\ account' \in Accounts /\ account'.dir = account.dir
           /\ account.status # "none" => account'.status # "none"
  BY DEF MarkDisconnected, Accounts

\* The four parts besides the types, after a step.
LEMMA Join ==
    ASSUME TypeOK', Leased', Inside', Known', LoginAlone'
    PROVE  IInv'
  BY DEF IInv

\* The loop of a runner: it moves between the steps of an open session, and the
\* account keeps its directory.
LEMMA LoopStep ==
    ASSUME IInv, NEW p \in Processes, NEW s \in OpenSteps,
           runner[p] \in OpenSteps, Goto(p, s), account' \in Accounts,
           account'.dir = account.dir,
           account.status # "none" => account'.status # "none",
           ready' \in [Processes -> BOOLEAN],
           UNCHANGED <<row, listed, sess, login, removed, crashes>>
    PROVE  IInv'
<1> USE DEF IInv
<1>1. /\ runner'[p] = s /\ \A q \in Processes \ {p} : runner'[q] = runner[q]
      /\ runner' \in [Processes -> RunnerSteps]
  BY TypeParts DEF Goto, RunnerSteps, OpenSteps
<1>2. TypeOK'
  BY <1>1 DEF TypeOK, Accounts
<1>3. Leased'
  BY <1>1 DEF Leased, HoldSteps, OpenSteps
<1>4. Inside'
  BY <1>1 DEF Inside, Open
<1>5. Known'
  BY <1>1 DEF Known, OpenSteps
<1>6. LoginAlone'
  BY DEF LoginAlone
<1> QED BY <1>2, <1>3, <1>4, <1>5, <1>6

\* The actions of the loop.
LEMMA LoopActions ==
    ASSUME IInv, NEW p \in Processes,
           \/ SessionDone(p) \/ LoggedOut(p) \/ RenewStops(p) \/ RenewError(p)
           \/ Profile(p) \/ Activate(p) \/ Observe(p)
    PROVE  IInv'
<1>1. /\ account \in Accounts /\ ready \in [Processes -> BOOLEAN]
      /\ [account EXCEPT !.status = "active"] \in Accounts
      /\ [account EXCEPT !.status = "active"].dir = account.dir
      /\ [account EXCEPT !.status = "active"].status = "active"
  BY TypeParts DEF IInv, Accounts
<1>2. CASE SessionDone(p) \/ RenewStops(p) \/ RenewError(p)
  BY <1>1, <1>2, LoopStep DEF SessionDone, RenewStops, RenewError, OpenSteps
<1>3. CASE LoggedOut(p)
  BY <1>1, <1>3, Disconnected, LoopStep DEF LoggedOut, OpenSteps
<1>4. CASE Profile(p)
  BY <1>1, <1>4, Disconnected, LoopStep DEF Profile, OpenSteps
<1>5. CASE Activate(p)
  BY <1>1, <1>5, LoopStep DEF Activate, OpenSteps
<1>6. CASE Observe(p)
  BY <1>1, <1>6, LoopStep DEF Observe, OpenSteps
<1> QED BY <1>2, <1>3, <1>4, <1>5, <1>6

-----------------------------------------------------------------------------
\* Run lists the account and starts a runner for it.
LEMMA StartStep ==
    ASSUME IInv, NEW p \in Processes, List(p) \/ Start(p)
    PROVE  IInv'
<1>1. /\ listed' \in [Processes -> BOOLEAN]
      /\ runner' \in [Processes -> RunnerSteps]
      /\ UNCHANGED <<account, row, sess, ready, login, removed, crashes>>
      /\ \A q \in Processes : listed'[q] \/ runner'[q] # "off" =>
            account.status # "none"
      /\ \A q \in Processes : runner'[q] # runner[q] =>
            runner[q] = "off" /\ runner'[q] = "acquire"
  BY DEF IInv, TypeOK, Known, List, Start, Goto, RunnerSteps
<1>2. TypeOK'
  BY <1>1 DEF IInv, TypeOK
<1>3. Leased'
  BY <1>1 DEF IInv, Leased, HoldSteps
<1>4. Inside'
  BY <1>1 DEF IInv, Inside, Open, OpenSteps
<1>5. Known'
  BY <1>1 DEF IInv, Known, OpenSteps
<1>6. LoginAlone'
  BY <1>1 DEF IInv, LoginAlone
<1> QED BY <1>2, <1>3, <1>4, <1>5, <1>6, Join

\* A free lease belongs to no runner past Acquire, so taking it harms nobody.
LEMMA AcquireStep ==
    ASSUME IInv, NEW p \in Processes, Acquire(p) \/ AcquireFails(p)
    PROVE  IInv'
<1>1. /\ runner[p] = "acquire"
      /\ UNCHANGED <<account, listed, sess, ready, login, removed, crashes>>
      /\ runner' \in [Processes -> RunnerSteps]
      /\ \A q \in Processes \ {p} : runner'[q] = runner[q]
      /\ runner'[p] \in {"load", "off"}
  BY DEF IInv, TypeOK, Acquire, AcquireFails, Goto, RunnerSteps
<1>2. /\ row' \in Leases
      /\ row'.live => row'.holder # None
      /\ row' = row \/ (LeaseFree /\ row'.live)
      /\ runner'[p] = "load" => row'.holder = p /\ row'.live
  <2>1. row \in Leases /\ (row.live => row.holder # None)
    BY TypeParts DEF IInv
  <2>2. CASE Acquire(p)
    <3> DEFINE new == [row EXCEPT !.holder = p, !.live = TRUE]
    <3>1. new \in Leases /\ new.holder = p /\ new.live /\ p # None
      BY <2>1, SessionAssumption DEF Leases
    <3>2. row' = new /\ LeaseFree
      BY <2>2 DEF Acquire
    <3> HIDE DEF new
    <3> QED BY <3>1, <3>2
  <2>3. CASE AcquireFails(p)
    <3> DEFINE new == [row EXCEPT !.holder = Gone, !.live = TRUE]
    <3>1. runner'[p] = "off"
      BY <2>3 DEF IInv, TypeOK, AcquireFails, Goto
    <3>2. new \in Leases /\ new.holder = Gone /\ new.live /\ Gone # None
      BY <2>1, SessionAssumption DEF Leases
    <3>3. row' = row \/ (row' = new /\ LeaseFree)
      BY <2>3 DEF AcquireFails
    <3> HIDE DEF new
    <3> QED BY <2>1, <3>1, <3>2, <3>3
  <2> QED BY <2>2, <2>3
<1>3. TypeOK'
  BY <1>1, <1>2 DEF IInv, TypeOK, Leases
<1>4. Leased'
  BY <1>1, <1>2 DEF IInv, Leased, LeaseFree, HoldSteps
<1>5. Inside'
  BY <1>1 DEF IInv, Inside, Open, OpenSteps
<1>6. Known'
  BY <1>1 DEF IInv, Known, OpenSteps
<1>7. LoginAlone'
  BY <1>1 DEF IInv, LoginAlone
<1> QED BY <1>3, <1>4, <1>5, <1>6, <1>7, Join

\* The directory that is loaded is the account's, which no login is using.
LEMMA LoadStep ==
    ASSUME IInv, NEW p \in Processes, Load(p)
    PROVE  IInv'
<1>1. /\ runner[p] = "load" /\ account.dir \in Dirs
      /\ UNCHANGED <<account, row, listed, ready, login, removed, crashes>>
      /\ runner' \in [Processes -> RunnerSteps]
      /\ \A q \in Processes \ {p} : runner'[q] = runner[q]
      /\ runner'[p] \in {"open", "release"}
  BY DEF IInv, TypeOK, Known, Load, Goto, RunnerSteps
<1>2. /\ sess' \in [Processes -> Sessions]
      /\ \A q \in Processes \ {p} : sess'[q] = sess[q]
      /\ \/ sess'[p] = sess[p] /\ runner'[p] = "release"
         \/ sess'[p].dir = account.dir /\ sess'[p].auth = "none"
  <2> DEFINE new == [dir |-> account.dir, auth |-> "none"]
  <2>1. sess \in [Processes -> Sessions] /\ new \in Sessions
    BY <1>1, TypeParts DEF IInv, Sessions
  <2>2. new.dir = account.dir /\ new.auth = "none"
    OBVIOUS
  <2>3. sess' \in {sess, [sess EXCEPT ![p] = new]}
    BY DEF Load
  <2>4. sess' = sess => runner'[p] = "release" \/ sess'[p] = new
    BY <2>1 DEF IInv, TypeOK, Load, Goto
  <2> HIDE DEF new
  <2> QED BY <2>1, <2>2, <2>3, <2>4
<1>3. TypeOK'
  BY <1>1, <1>2 DEF IInv, TypeOK, Sessions
<1>4. Leased'
  BY <1>1 DEF IInv, Leased, HoldSteps
<1>5. Inside'
  BY <1>1, <1>2 DEF IInv, Inside, Open, OpenSteps
<1>6. Known'
  BY <1>1, <1>2 DEF IInv, Known, OpenSteps
<1>7. LoginAlone'
  BY <1>1, <1>2 DEF IInv, LoginAlone
<1> QED BY <1>3, <1>4, <1>5, <1>6, <1>7, Join

\* A step of p's session within the steps where it may be open, or one that
\* leaves it closed.
LEMMA SessionStep ==
    ASSUME IInv, NEW p \in Processes,
           UNCHANGED <<account, row, listed, ready, login, removed, crashes>>,
           runner' \in [Processes -> RunnerSteps],
           \A q \in Processes \ {p} : runner'[q] = runner[q],
           sess' \in [Processes -> Sessions],
           \A q \in Processes \ {p} : sess'[q] = sess[q],
           sess'[p].dir = sess[p].dir,
           runner[p] \in HoldSteps \/ runner'[p] = runner[p],
           runner'[p] \in HoldSteps \/ runner'[p] = runner[p],
           Open(p)' => runner'[p] \in OpenSteps,
           runner'[p] \in OpenSteps \cup {"open"} =>
               runner[p] \in OpenSteps \cup {"open"}
    PROVE  IInv'
<1>1. TypeOK'
  BY DEF IInv, TypeOK, Sessions
<1>2. Leased'
  BY DEF IInv, Leased
<1>3. Inside'
  BY DEF IInv, Inside, Open
<1>4. Known'
  BY DEF IInv, Known, HoldSteps
<1>5. LoginAlone'
  BY DEF IInv, LoginAlone
<1> QED BY <1>1, <1>2, <1>3, <1>4, <1>5, Join

\* Opening and closing the session, and TDLib's part in it.
LEMMA SessionActions ==
    ASSUME IInv, NEW p \in Processes,
           OpenSession(p) \/ CloseSession(p) \/ Tdlib(p)
    PROVE  IInv'
<1>1. /\ runner \in [Processes -> RunnerSteps]
      /\ sess \in [Processes -> Sessions]
  BY TypeParts DEF IInv
<1>2. CASE OpenSession(p)
  <2> DEFINE new == [sess[p] EXCEPT !.auth = "starting"]
  <2>1. new \in Sessions /\ new.dir = sess[p].dir
    BY <1>1, SessionFields
  <2>2. ~Open(p)
    BY <1>2 DEF IInv, Inside, OpenSession, OpenSteps
  <2>3. CASE sess' = [sess EXCEPT ![p] = new] /\ Goto(p, "loop")
    <3> HIDE DEF new
    <3>1. /\ sess' \in [Processes -> Sessions] /\ sess'[p].dir = sess[p].dir
          /\ \A q \in Processes \ {p} : sess'[q] = sess[q]
          /\ runner' \in [Processes -> RunnerSteps] /\ runner'[p] = "loop"
          /\ \A q \in Processes \ {p} : runner'[q] = runner[q]
      BY <1>1, <2>1, <2>3 DEF Goto, RunnerSteps
    <3> QED BY <1>2, <3>1, SessionStep DEF OpenSession, HoldSteps, OpenSteps
  <2>4. CASE sess' = sess /\ Goto(p, "release")
    <3>1. /\ runner' \in [Processes -> RunnerSteps] /\ runner'[p] = "release"
          /\ \A q \in Processes \ {p} : runner'[q] = runner[q]
      BY <1>1, <2>4 DEF Goto, RunnerSteps
    <3>2. ~Open(p)'
      BY <2>2, <2>4 DEF Open
    <3> QED BY <1>1, <1>2, <2>4, <3>1, <3>2, SessionStep
            DEF OpenSession, HoldSteps, OpenSteps
  <2> QED BY <1>2, <2>3, <2>4 DEF OpenSession
<1>3. CASE CloseSession(p)
  <2> DEFINE new == [sess[p] EXCEPT !.auth = "closing"]
  <2>1. new \in Sessions /\ new.dir = sess[p].dir
    BY <1>1, SessionFields
  <2>2. CASE sess' = [sess EXCEPT ![p] = new] /\ runner' = runner
    <3> HIDE DEF new
    <3>1. /\ sess' \in [Processes -> Sessions] /\ sess'[p].dir = sess[p].dir
          /\ \A q \in Processes \ {p} : sess'[q] = sess[q]
      BY <1>1, <2>1, <2>2
    <3> QED BY <1>1, <1>3, <2>2, <3>1, SessionStep
            DEF CloseSession, HoldSteps, OpenSteps
  <2>3. CASE sess' = sess /\ ~Open(p) /\ Goto(p, "release")
    <3>1. /\ runner' \in [Processes -> RunnerSteps] /\ runner'[p] = "release"
          /\ \A q \in Processes \ {p} : runner'[q] = runner[q]
      BY <1>1, <2>3 DEF Goto, RunnerSteps
    <3>2. ~Open(p)'
      BY <2>3 DEF Open
    <3> QED BY <1>1, <1>3, <2>3, <3>1, <3>2, SessionStep
            DEF CloseSession, HoldSteps, OpenSteps
  <2> QED BY <1>3, <2>2, <2>3 DEF CloseSession
<1>4. CASE Tdlib(p)
  <2>1. PICK auth \in {"ready", "out", "closed"} :
          /\ Open(p)
          /\ sess' = [sess EXCEPT ![p].auth = auth]
    BY <1>4 DEF Tdlib, Open
  <2> DEFINE new == [sess[p] EXCEPT !.auth = auth]
  <2>2. sess[p] \in Sessions
    BY <1>1
  <2>a. auth \in {"none", "starting", "ready", "out", "closing", "closed"}
    BY <2>1
  <2>b. new \in Sessions /\ new.dir = sess[p].dir
    BY <2>2, <2>a, SessionFields
  <2>3. sess' = [sess EXCEPT ![p] = new]
    BY <1>1, <2>1
  <2> HIDE DEF new
  <2>4. /\ sess' \in [Processes -> Sessions] /\ sess'[p].dir = sess[p].dir
        /\ \A q \in Processes \ {p} : sess'[q] = sess[q]
    BY <1>1, <2>b, <2>3
  <2>5. UNCHANGED <<account, row, listed, runner, ready, login, removed, crashes>>
    BY <1>4 DEF Tdlib
  <2>6. runner[p] \in OpenSteps
    BY <2>1 DEF IInv, Inside
  <2> QED BY <1>1, <2>4, <2>5, <2>6, SessionStep
<1> QED BY <1>2, <1>3, <1>4
-----------------------------------------------------------------------------
\* The lease is given up by its holder, whose session is closed.
LEMMA ReleaseStep ==
    ASSUME IInv, NEW p \in Processes, Release(p)
    PROVE  IInv'
<1>1. /\ runner[p] = "release"
      /\ UNCHANGED <<account, listed, sess, ready, login, removed, crashes>>
      /\ runner' \in [Processes -> RunnerSteps]
      /\ \A q \in Processes \ {p} : runner'[q] = runner[q]
      /\ runner'[p] = "forget"
  BY DEF IInv, TypeOK, Release, Goto, RunnerSteps
<1>2. row.holder = p
  BY <1>1 DEF IInv, Leased, HoldSteps
<1>3. \A q \in Processes : runner'[q] \notin HoldSteps
  BY <1>1, <1>2 DEF IInv, Leased, HoldSteps
<1>4. row' \in Leases /\ (row'.live => row'.holder # None)
  <2>1. row \in Leases
    BY TypeParts DEF IInv
  <2>2. CASE row' = [row EXCEPT !.holder = None, !.live = FALSE]
    BY <2>1, <2>2 DEF Leases
  <2>3. CASE row' = [row EXCEPT !.holder = Gone]
    BY <2>1, <2>3, SessionAssumption DEF Leases
  <2> QED BY <1>2, <2>2, <2>3 DEF Release
<1>5. TypeOK'
  BY <1>1, <1>4 DEF IInv, TypeOK, Leases
<1>6. Leased'
  BY <1>3 DEF Leased
<1>7. Inside'
  BY <1>1 DEF IInv, Inside, Open, OpenSteps
<1>8. Known'
  BY <1>1 DEF IInv, Known, OpenSteps
<1>9. LoginAlone'
  BY <1>1 DEF IInv, LoginAlone
<1> QED BY <1>5, <1>6, <1>7, <1>8, <1>9, Join

\* Forgetting the session, which is closed by then.
LEMMA ForgetStep ==
    ASSUME IInv, NEW p \in Processes, Forget(p)
    PROVE  IInv'
<1>1. /\ runner[p] = "forget"
      /\ UNCHANGED <<account, row, listed, login, removed, crashes>>
      /\ runner' \in [Processes -> RunnerSteps]
      /\ \A q \in Processes \ {p} : runner'[q] = runner[q]
      /\ runner'[p] = "off"
      /\ ready' \in [Processes -> BOOLEAN]
  BY DEF IInv, TypeOK, Forget, Goto, RunnerSteps
<1>2. /\ sess' \in [Processes -> Sessions]
      /\ \A q \in Processes \ {p} : sess'[q] = sess[q]
      /\ sess'[p].dir = None /\ sess'[p].auth = "none"
  <2>1. sess \in [Processes -> Sessions] /\ sess' = [sess EXCEPT ![p] = NoSession]
    BY TypeParts DEF IInv, Forget
  <2>2. NoSession \in Sessions /\ NoSession.dir = None /\ NoSession.auth = "none"
    BY DEF NoSession, Sessions
  <2> QED BY <2>1, <2>2
<1>3. TypeOK'
  BY <1>1, <1>2 DEF IInv, TypeOK, Sessions
<1>4. Leased'
  BY <1>1 DEF IInv, Leased, HoldSteps
<1>5. Inside'
  BY <1>1, <1>2 DEF IInv, Inside, Open, OpenSteps
<1>6. Known'
  BY <1>1, <1>2 DEF IInv, Known, OpenSteps
<1>7. LoginAlone'
  BY <1>1, <1>2, SessionAssumption DEF IInv, LoginAlone
<1> QED BY <1>3, <1>4, <1>5, <1>6, <1>7, Join

\* While leases are renewed in time, one that expires has no runner.
LEMMA ExpiryStep ==
    ASSUME IInv, ~Stalls, LeaseExpires
    PROVE  IInv'
<1>1. /\ row.holder = Gone
      /\ UNCHANGED <<account, listed, runner, sess, ready, login, removed, crashes>>
  BY DEF LeaseExpires
<1>2. row' \in Leases /\ ~row'.live
  BY TypeParts DEF IInv, LeaseExpires, Leases
<1>3. TypeOK'
  BY <1>1, <1>2 DEF IInv, TypeOK, Leases
<1>4. Leased'
  BY <1>1, SessionAssumption DEF IInv, Leased
<1>5. Inside'
  BY <1>1 DEF IInv, Inside, Open
<1>6. Known'
  BY <1>1 DEF IInv, Known
<1>7. LoginAlone'
  BY <1>1 DEF IInv, LoginAlone
<1> QED BY <1>3, <1>4, <1>5, <1>6, <1>7, Join

-----------------------------------------------------------------------------
\* A login starts on a directory that neither the account nor a session has.
LEMMA LoginStartStep ==
    ASSUME IInv, NEW p \in Processes, NEW d \in Dirs, LoginStart(p, d)
    PROVE  IInv'
<1>1. /\ Fresh(d) /\ removed' \in SUBSET Dirs
      /\ UNCHANGED <<account, row, listed, runner, sess, ready, crashes>>
  BY DEF IInv, TypeOK, LoginStart
<1>2. /\ login' \in [Dirs -> Logins]
      /\ \A e \in Dirs \ {d} : login'[e] = login[e]
  <2> DEFINE new == [step |-> "login", proc |-> p]
  <2>1. login \in [Dirs -> Logins] /\ new \in Logins
    BY TypeParts DEF IInv, Logins, LoginSteps
  <2>2. login' = [login EXCEPT ![d] = new]
    BY DEF LoginStart
  <2> HIDE DEF new
  <2> QED BY <2>1, <2>2
<1>3. TypeOK'
  BY <1>1, <1>2 DEF IInv, TypeOK, Logins
<1>4. Leased'
  BY <1>1 DEF IInv, Leased
<1>5. Inside'
  BY <1>1 DEF IInv, Inside, Open
<1>6. Known'
  BY <1>1 DEF IInv, Known
<1>7. LoginAlone'
  BY <1>1, <1>2 DEF IInv, LoginAlone, Fresh
<1> QED BY <1>3, <1>4, <1>5, <1>6, <1>7, Join

\* A login that is past verification, or leaves it, may hand its directory to
\* the account, change desired_state and close a session that is open.
LEMMA LoginMoves ==
    ASSUME IInv, NEW d \in Dirs, NEW s \in LoginSteps \ {"login"},
           LoginGoto(d, s),
           UNCHANGED <<listed, runner, ready, crashes>>,
           removed' \in SUBSET Dirs,
           row' \in Leases, row'.holder = row.holder, row'.live = row.live,
           account' \in Accounts,
           account' = account \/ (account'.dir = d /\ account'.status # "none"),
           sess' \in [Processes -> Sessions],
           \A q \in Processes : sess'[q].dir = sess[q].dir /\ (Open(q)' => Open(q))
    PROVE  IInv'
<1>1. /\ login' \in [Dirs -> Logins] /\ login'[d].step = s
      /\ \A e \in Dirs \ {d} : login'[e] = login[e]
  <2> DEFINE new == [login[d] EXCEPT !.step = s]
  <2>1. login \in [Dirs -> Logins]
    BY TypeParts DEF IInv
  <2>2. new \in Logins /\ new.step = s
    BY <2>1, LoginFields
  <2>3. login' = [login EXCEPT ![d] = new]
    BY DEF LoginGoto
  <2> HIDE DEF new
  <2> QED BY <2>1, <2>2, <2>3
<1>2. TypeOK'
  BY <1>1 DEF IInv, TypeOK, Logins, Leases, Accounts, Sessions
<1>3. Leased'
  BY DEF IInv, Leased
<1>4. Inside'
  BY DEF IInv, Inside
<1>5. Known'
  BY DEF IInv, Known
<1>6. LoginAlone'
  BY <1>1 DEF IInv, LoginAlone
<1> QED BY <1>2, <1>3, <1>4, <1>5, <1>6, Join

\* The login's moves that leave the account, its lease and its session alone.
LEMMA PlainLoginMoves ==
    ASSUME IInv, NEW d \in Dirs,
           \/ LoginVerified(d) \/ AttachClosed(d) \/ AttachWait(d) \/ LoginDone(d)
           \/ LoginExpires(d) \/ Discard(d) \/ Remove(d)
    PROVE  IInv'
<1>1. /\ row \in Leases /\ account \in Accounts
      /\ sess \in [Processes -> Sessions]
  BY TypeParts DEF IInv
<1>2. UNCHANGED <<account, row, listed, runner, sess, ready, crashes>>
  BY DEF LoginVerified, AttachClosed, AttachWait, LoginDone, LoginExpires,
         Discard, Remove
<1>3. removed' \in SUBSET Dirs
  BY DEF IInv, TypeOK, LoginVerified, AttachClosed, AttachWait, LoginDone,
         LoginExpires, Discard, Remove
<1>4. \E s \in LoginSteps \ {"login"} : LoginGoto(d, s)
  BY DEF LoginVerified, AttachClosed, AttachWait, LoginDone, LoginExpires,
         Discard, Remove, LoginSteps
<1>5. \A q \in Processes : Open(q)' => Open(q)
  BY <1>2 DEF Open
<1> QED BY <1>1, <1>2, <1>3, <1>4, <1>5, LoginMoves

\* AttachLogin's transactions, and its close of the session in m.sessions.
LEMMA AttachMoves ==
    ASSUME IInv, NEW d \in Dirs,
           AttachFirst(d) \/ AttachClose(d) \/ AttachSecond(d)
    PROVE  IInv'
<1>1. /\ row \in Leases /\ account \in Accounts /\ removed \in SUBSET Dirs
      /\ sess \in [Processes -> Sessions]
  BY TypeParts DEF IInv
<1>2. \E s \in LoginSteps \ {"login"} : LoginGoto(d, s)
  BY DEF AttachFirst, AttachClose, AttachSecond, LoginSteps
<1>3. UNCHANGED <<listed, runner, ready, removed, crashes>>
  BY DEF AttachFirst, AttachClose, AttachSecond
<1>4. /\ row' \in Leases /\ row'.holder = row.holder /\ row'.live = row.live
  BY <1>1 DEF AttachFirst, AttachClose, AttachSecond, Leases
<1>5. /\ account' \in Accounts
      /\ account' = account \/ (account'.dir = d /\ account'.status # "none")
  BY <1>1 DEF AttachFirst, AttachClose, AttachSecond, Accounts
<1>6. /\ sess' \in [Processes -> Sessions]
      /\ \A q \in Processes : sess'[q].dir = sess[q].dir /\ (Open(q)' => Open(q))
  <2>1. CASE sess' = sess
    BY <1>1, <2>1 DEF Open
  <2>2. CASE sess' # sess
    <3> DEFINE p == login[d].proc
               new == [sess[p] EXCEPT !.auth = "closing"]
    <3>1. Open(p) /\ sess' = [sess EXCEPT ![p].auth = "closing"]
      BY <2>2 DEF AttachFirst, AttachClose, AttachSecond
    <3>2. CASE p \in Processes
      <4>1. new \in Sessions /\ new.dir = sess[p].dir
        BY <1>1, <3>2, SessionFields
      <4>2. sess' = [sess EXCEPT ![p] = new]
        BY <3>1
      <4> HIDE DEF new, p
      <4> QED BY <1>1, <3>1, <3>2, <4>1, <4>2 DEF Open
    <3>3. CASE p \notin Processes
      BY <1>1, <2>2, <3>1, <3>3
    <3> QED BY <3>2, <3>3
  <2> QED BY <2>1, <2>2
<1> QED BY <1>1, <1>2, <1>3, <1>4, <1>5, <1>6, LoginMoves

\* A crash leaves the lease to nobody and closes the clients of the process.
LEMMA CrashStep ==
    ASSUME IInv, NEW p \in Processes, Crash(p)
    PROVE  IInv'
<1>1. /\ UNCHANGED <<account, removed>> /\ crashes' \in 0..MaxCrashes
      /\ listed' \in [Processes -> BOOLEAN] /\ ready' \in [Processes -> BOOLEAN]
      /\ runner' \in [Processes -> RunnerSteps] /\ runner'[p] = "off" /\ ~listed'[p]
      /\ \A q \in Processes \ {p} : runner'[q] = runner[q] /\ listed'[q] = listed[q]
  BY SessionAssumption DEF IInv, TypeOK, Crash, Goto, RunnerSteps
<1>2. /\ row' \in Leases /\ row'.live = row.live
      /\ row'.live => row'.holder # None
      /\ \A q \in Processes \ {p} : row.holder = q => row'.holder = q
  <2>1. row \in Leases /\ (row.live => row.holder # None)
    BY TypeParts DEF IInv
  <2>2. row' = [row EXCEPT !.holder = IF row.holder = p THEN Gone ELSE row.holder]
    BY DEF Crash
  <2> QED BY <2>1, <2>2, SessionAssumption DEF Leases
<1>3. /\ sess' \in [Processes -> Sessions]
      /\ \A q \in Processes \ {p} : sess'[q] = sess[q]
      /\ sess'[p].dir = None /\ sess'[p].auth = "none"
  <2>1. sess \in [Processes -> Sessions] /\ sess' = [sess EXCEPT ![p] = NoSession]
    BY TypeParts DEF IInv, Crash
  <2>2. NoSession \in Sessions /\ NoSession.dir = None /\ NoSession.auth = "none"
    BY DEF NoSession, Sessions
  <2> QED BY <2>1, <2>2
<1>4. /\ login' \in [Dirs -> Logins]
      /\ \A d \in Dirs : login'[d].step = "login" => login[d].step = "login"
  <2> DEFINE ended(d) == [login[d] EXCEPT !.step = "gone"]
  <2>1. login \in [Dirs -> Logins]
    BY TypeParts DEF IInv
  <2>2. \A d \in Dirs : ended(d) \in Logins /\ ended(d).step = "gone"
    BY <2>1, LoginFields DEF LoginSteps
  <2>3. login' = [d \in Dirs |-> IF login[d].proc = p /\ login[d].step # "done"
                                 THEN ended(d) ELSE login[d]]
    BY DEF Crash
  <2> HIDE DEF ended
  <2> QED BY <2>1, <2>2, <2>3
<1>5. TypeOK'
  BY <1>1, <1>2, <1>3, <1>4 DEF IInv, TypeOK, Leases, Sessions, Logins
<1>6. Leased'
  BY <1>1, <1>2 DEF IInv, Leased, HoldSteps
<1>7. Inside'
  BY <1>1, <1>3 DEF IInv, Inside, Open
<1>8. Known'
  BY <1>1, <1>3 DEF IInv, Known, OpenSteps
<1>9. LoginAlone'
  BY <1>1, <1>3, <1>4, SessionAssumption DEF IInv, LoginAlone
<1> QED BY <1>5, <1>6, <1>7, <1>8, <1>9, Join

-----------------------------------------------------------------------------
\* The empty database, before any process has looked at it.
LEMMA InitIInv == Init => IInv
<1> SUFFICES ASSUME Init PROVE IInv
  OBVIOUS
<1>1. TypeOK
  BY SessionAssumption
     DEF Init, TypeOK, NoSession, NoLogin, RunnerSteps, LoginSteps
<1>2. Leased /\ Inside
  BY DEF Init, Leased, Inside, Open, NoSession, HoldSteps
<1>3. Known
  BY DEF Init, Known, OpenSteps
<1>4. LoginAlone
  BY DEF Init, LoginAlone, NoLogin
<1> QED BY <1>1, <1>2, <1>3, <1>4 DEF IInv

\* Every step of a runner, of TDLib, of a login and of the clock keeps the
\* invariant, while leases are renewed in time.
LEMMA Inductive == ASSUME ~Stalls PROVE IInv /\ [Next]_vars => IInv'
<1> SUFFICES ASSUME IInv, [Next]_vars PROVE IInv'
  OBVIOUS
<1>1. CASE UNCHANGED vars
  BY <1>1 DEF vars, IInv, TypeOK, Leased, Inside, Known, LoginAlone, Open
<1>2. ASSUME NEW p \in Processes, RunnerStep(p) PROVE IInv'
  BY <1>2, StartStep, AcquireStep, LoadStep, SessionActions, LoopActions,
     ReleaseStep, ForgetStep DEF RunnerStep, Advance
<1>3. ASSUME NEW p \in Processes, Tdlib(p) \/ Crash(p) PROVE IInv'
  BY <1>3, SessionActions, CrashStep
<1>4. ASSUME NEW p \in Processes, NEW d \in Dirs, LoginStart(p, d) PROVE IInv'
  BY <1>4, LoginStartStep
<1>5. ASSUME NEW d \in Dirs, LoginStep(d) PROVE IInv'
  BY <1>5, PlainLoginMoves, AttachMoves DEF LoginStep
<1>6. CASE LeaseExpires
  BY <1>6, ExpiryStep
<1> QED BY <1>1, <1>2, <1>3, <1>4, <1>5, <1>6 DEF Next

\* The state keeps its types, and a live lease has a holder, in any number of
\* gateway processes.
THEOREM SessionTypes == ASSUME ~Stalls PROVE Spec => []TypeOK
<1>1. IInv => TypeOK
  BY DEF IInv
<1> QED BY <1>1, InitIInv, Inductive, PTL DEF Spec

\* At most one process has the account open, whichever processes crash,
\* whichever commits are lost and whichever logins are handed over: runAccount
\* opens and closes its session between Acquire and Release.
THEOREM SingleSession == ASSUME ~Stalls PROVE Spec => []OneSession
<1>1. IInv => OneSession
  <2> SUFFICES ASSUME IInv, NEW p \in Processes, Open(p)
               PROVE  /\ \A q \in Processes : Open(q) => p = q
                      /\ login[sess[p].dir].step # "login"
    BY DEF OneSession
  <2>1. \A q \in Processes : Open(q) => row.holder = q
    BY DEF IInv, Inside, Leased, OpenSteps, HoldSteps
  <2>2. sess[p].dir \in Dirs
    BY DEF IInv, Inside, Known
  <2> QED BY <2>1, <2>2 DEF IInv, LoginAlone
<1> QED BY <1>1, InitIInv, Inductive, PTL DEF Spec

\* Whatever serves a tool call holds a live lease.
THEOREM LeasedService == ASSUME ~Stalls PROVE Spec => []ServedUnderLease
<1>1. IInv => ServedUnderLease
  BY DEF IInv, Inside, Leased, OpenSteps, HoldSteps, ServedUnderLease, Serving,
         Open
<1> QED BY <1>1, InitIInv, Inductive, PTL DEF Spec

-----------------------------------------------------------------------------
\* The other processes do nothing, and all logins are its own.
OthersRest ==
    /\ \A q \in Processes \ {alone} :
          runner[q] = "off" /\ sess[q] = NoSession /\ ~listed[q]
    /\ \A d \in Dirs : login[d].step # "none" => login[d].proc = alone

\* One login at a time is inside loginMu; it has told the runner to stop, and
\* when it has waited for the lease nobody takes it.
AttachQuiet ==
    /\ \A d, e \in Dirs :
          login[d].step \in Attaching /\ login[e].step \in Attaching => d = e
    /\ \A d \in Dirs : login[d].step \in Attaching => row.desired = "offline"
    /\ \A d \in Dirs : login[d].step = "commit" => ~row.live

\* The session is opened, and stays open, on the account's directory.
RunnerCurrent ==
    runner[alone] \in OpenSteps \cup {"open"} => sess[alone].dir = account.dir

\* A directory is in place while its login may still hand it over, and is not
\* the account's when it is about to be removed.
LoginsKept ==
    /\ account.dir \notin removed
    /\ \A d \in Dirs : login[d].step \notin {"none", "done", "gone"} => d \notin removed
    /\ \A d \in Dirs : login[d].step = "remove" => account.dir # d

AloneInv ==
    alone # None => /\ alone \in Processes
                    /\ OthersRest /\ AttachQuiet /\ RunnerCurrent /\ LoginsKept

\* A login that moves from step to step.
LEMMA Moved ==
    ASSUME TypeOK, NEW d \in Dirs, NEW s \in LoginSteps, LoginGoto(d, s)
    PROVE  /\ login'[d].step = s /\ login'[d].proc = login[d].proc
           /\ \A e \in Dirs \ {d} : login'[e] = login[e]
<1> DEFINE new == [login[d] EXCEPT !.step = s]
<1>1. login \in [Dirs -> Logins]
  BY TypeParts
<1>2. new.step = s /\ new.proc = login[d].proc
  BY <1>1, LoginFields
<1>3. login' = [login EXCEPT ![d] = new]
  BY DEF LoginGoto
<1> HIDE DEF new
<1> QED BY <1>1, <1>2, <1>3

\* A step of the process's runner, of TDLib or of the clock: the lease is taken
\* only for an account that should be online.
LEMMA RunnerKeeps ==
    ASSUME AloneInv, alone \in Processes, alone # None, UNCHANGED alone,
           UNCHANGED <<login, removed>>, account'.dir = account.dir,
           row'.desired = row.desired,
           row'.live => row.live \/ row.desired = "online",
           \A q \in Processes \ {alone} :
              /\ runner'[q] = runner[q] /\ sess'[q] = sess[q]
              /\ listed'[q] = listed[q],
           RunnerCurrent'
    PROVE  AloneInv'
<1>1. OthersRest /\ AttachQuiet /\ LoginsKept
  BY DEF AloneInv
<1>2. OthersRest'
  BY <1>1 DEF OthersRest
<1>3. AttachQuiet'
  BY <1>1 DEF AttachQuiet, Attaching
<1>4. LoginsKept'
  BY <1>1 DEF LoginsKept
<1> QED
  BY <1>2, <1>3, <1>4 DEF AloneInv

\* The runner's steps that leave its lease and its session alone.
LEMMA AloneLoop ==
    ASSUME IInv, AloneInv, alone \in Processes, alone # None, UNCHANGED alone,
           NEW p, p = alone,
           \/ SessionDone(p) \/ LoggedOut(p) \/ RenewStops(p) \/ RenewError(p)
           \/ Profile(p) \/ Activate(p) \/ Observe(p) \/ List(p) \/ Start(p)
    PROVE  AloneInv'
<1>1. TypeOK /\ RunnerCurrent /\ account \in Accounts /\ p \in Processes
  BY TypeParts DEF IInv, AloneInv
<1>2. UNCHANGED <<row, sess, login, removed>>
  BY DEF SessionDone, LoggedOut, RenewStops, RenewError, Profile, Activate, Observe,
         List, Start
<1>3. account'.dir = account.dir
  BY <1>1, Disconnected DEF SessionDone, LoggedOut, RenewStops, RenewError, Profile,
         Activate, Observe, List, Start, Accounts
<1>4. /\ \E s \in RunnerSteps : Goto(p, s) \/ UNCHANGED runner
      /\ listed' = [listed EXCEPT ![p] = listed'[p]] \/ UNCHANGED listed
  BY <1>1 DEF SessionDone, LoggedOut, RenewStops, RenewError, Profile, Activate, Observe,
         List, Start, RunnerSteps, TypeOK
<1>5. \A q \in Processes \ {alone} : runner'[q] = runner[q] /\ listed'[q] = listed[q]
  BY <1>1, <1>4 DEF Goto, TypeOK
<1>6. runner'[p] \in OpenSteps \cup {"open"} => runner[p] \in OpenSteps \cup {"open"}
  BY <1>1 DEF SessionDone, LoggedOut, RenewStops, RenewError, Profile, Activate, Observe,
         List, Start, OpenSteps, Goto, TypeOK
<1>7. RunnerCurrent'
  BY <1>1, <1>2, <1>3, <1>6 DEF RunnerCurrent
<1> QED
  BY <1>2, <1>3, <1>5, <1>7, RunnerKeeps

\* The steps around the loop.
LEMMA AloneSession ==
    ASSUME IInv, AloneInv, alone \in Processes, alone # None, UNCHANGED alone,
           NEW p, p = alone,
           \/ Load(p) \/ OpenSession(p) \/ CloseSession(p) \/ Forget(p) \/ Tdlib(p)
    PROVE  AloneInv'
<1>1. TypeOK /\ RunnerCurrent /\ p \in Processes /\ sess \in [Processes -> Sessions]
  BY TypeParts DEF IInv, AloneInv
<1>2. UNCHANGED <<account, row, listed, login, removed>>
  BY DEF Load, OpenSession, CloseSession, Forget, Tdlib
<1>3. \A q \in Processes \ {alone} : runner'[q] = runner[q] /\ sess'[q] = sess[q]
  BY <1>1 DEF Load, OpenSession, CloseSession, Forget, Tdlib, Goto, TypeOK
<1>4. RunnerCurrent'
  <2>1. CASE Load(p)
    <3>1. runner'[p] = "open" => sess'[p].dir = account.dir
      BY <1>1, <2>1 DEF Load, Goto, TypeOK
    <3>2. runner'[p] \in {"open", "release"}
      BY <1>1, <2>1 DEF Load, Goto, TypeOK
    <3> QED BY <1>2, <3>1, <3>2 DEF RunnerCurrent, OpenSteps
  <2>2. CASE Forget(p)
    <3>1. runner'[p] = "off"
      BY <1>1, <2>2 DEF Forget, Goto, TypeOK
    <3> QED BY <3>1 DEF RunnerCurrent, OpenSteps
  <2>3. CASE OpenSession(p) \/ CloseSession(p) \/ Tdlib(p)
    <3>1. sess' = sess \/ \E a \in {"none", "starting", "ready", "out", "closing",
                                    "closed"} :
             sess' = [sess EXCEPT ![p] = [sess[p] EXCEPT !.auth = a]]
      BY <1>1, <2>3 DEF OpenSession, CloseSession, Tdlib
    <3>2. sess'[p].dir = sess[p].dir
      BY <1>1, <3>1 DEF Sessions
    <3>3. runner'[p] \in OpenSteps \cup {"open"} => runner[p] \in OpenSteps \cup {"open"}
      BY <1>1, <2>3 DEF OpenSession, CloseSession, Tdlib, Goto, OpenSteps, TypeOK
    <3> QED BY <1>1, <1>2, <3>2, <3>3 DEF RunnerCurrent
  <2> QED BY <2>1, <2>2, <2>3
<1> QED
  BY <1>2, <1>3, <1>4, RunnerKeeps

\* The lease.
LEMMA AloneLease ==
    ASSUME IInv, AloneInv, alone \in Processes, alone # None, UNCHANGED alone,
           NEW p, p = alone,
           Acquire(p) \/ AcquireFails(p) \/ Release(p) \/ LeaseExpires
    PROVE  AloneInv'
<1>1. TypeOK /\ RunnerCurrent /\ p \in Processes /\ row \in Leases
  BY TypeParts DEF IInv, AloneInv
<1>2. UNCHANGED <<account, listed, sess, login, removed>>
  BY DEF Acquire, AcquireFails, Release, LeaseExpires
<1>3. \A q \in Processes \ {alone} : runner'[q] = runner[q]
  BY <1>1 DEF Acquire, AcquireFails, Release, LeaseExpires, Goto, TypeOK
<1>4. runner'[p] \in OpenSteps \cup {"open"} => runner[p] \in OpenSteps \cup {"open"}
  BY <1>1 DEF Acquire, AcquireFails, Release, LeaseExpires, Goto, TypeOK, OpenSteps
<1>5. RunnerCurrent'
  BY <1>1, <1>2, <1>4 DEF RunnerCurrent
<1>6. row'.desired = row.desired
  BY <1>1 DEF Acquire, AcquireFails, Release, LeaseExpires, Leases
<1>7. row'.live => row.live \/ row.desired = "online"
  BY <1>1 DEF Acquire, AcquireFails, Release, LeaseExpires, Leases
<1> QED
  BY <1>2, <1>3, <1>5, <1>6, <1>7, RunnerKeeps

-----------------------------------------------------------------------------
\* A step of a login that leaves the account and its runner alone.
LEMMA LoginKeeps ==
    ASSUME IInv, AloneInv, alone \in Processes, alone # None, UNCHANGED alone,
           NEW d \in Dirs, login[d].step # "none", NEW s \in LoginSteps \ {"none"},
           LoginGoto(d, s), UNCHANGED <<account, row, listed, runner>>,
           \A q \in Processes : sess'[q].dir = sess[q].dir,
           \A q \in Processes \ {alone} : sess'[q] = sess[q],
           s \in Attaching => login[d].step \in Attaching,
           s = "commit" => ~row.live,
           s = "remove" => account.dir # d,
           \/ UNCHANGED removed /\ login[d].step \notin {"done", "gone"}
           \/ /\ removed' = removed \cup {d} /\ s = "gone"
              /\ account.dir # d
    PROVE  AloneInv'
<1>1. TypeOK /\ OthersRest /\ AttachQuiet /\ RunnerCurrent /\ LoginsKept
  BY DEF IInv, AloneInv
<1>2. /\ login'[d].step = s /\ login'[d].proc = login[d].proc
      /\ \A e \in Dirs \ {d} : login'[e] = login[e]
  BY <1>1, Moved
<1>3. OthersRest'
  BY <1>1, <1>2 DEF OthersRest
<1>4. AttachQuiet'
  BY <1>1, <1>2 DEF AttachQuiet, Attaching
<1>5. RunnerCurrent'
  BY <1>1 DEF RunnerCurrent
<1>6. LoginsKept'
  BY <1>1, <1>2 DEF LoginsKept
<1> QED
  BY <1>3, <1>4, <1>5, <1>6 DEF AloneInv

LEMMA AlonePlain ==
    ASSUME IInv, AloneInv, alone \in Processes, alone # None, UNCHANGED alone,
           NEW d \in Dirs,
           \/ LoginVerified(d) \/ AttachClose(d) \/ AttachClosed(d) \/ AttachWait(d)
           \/ LoginDone(d) \/ LoginExpires(d) \/ Discard(d) \/ Remove(d)
    PROVE  AloneInv'
<1>1. TypeOK /\ OthersRest /\ LoginsKept /\ sess \in [Processes -> Sessions]
  BY TypeParts DEF IInv, AloneInv
<1>2. UNCHANGED <<account, row, listed, runner>> /\ login[d].step # "none"
  BY DEF LoginVerified, AttachClose, AttachClosed, AttachWait, LoginDone, LoginExpires,
         Discard, Remove
<1>3. login[d].proc = alone
  BY <1>1, <1>2 DEF OthersRest
<1>4. /\ \A q \in Processes : sess'[q].dir = sess[q].dir
      /\ \A q \in Processes \ {alone} : sess'[q] = sess[q]
  <2>1. CASE UNCHANGED sess
    BY <2>1
  <2>2. CASE sess' = [sess EXCEPT ![alone] = [sess[alone] EXCEPT !.auth = "closing"]]
    BY <1>1, <2>2 DEF Sessions
  <2>3. UNCHANGED sess
        \/ sess' = [sess EXCEPT ![alone] = [sess[alone] EXCEPT !.auth = "closing"]]
    BY <1>3 DEF LoginVerified, AttachClose, AttachClosed, AttachWait, LoginDone,
                LoginExpires, Discard, Remove
  <2> QED BY <2>1, <2>2, <2>3
<1>5. CASE Remove(d)
  BY <1>1, <1>2, <1>4, <1>5, LoginKeeps DEF Remove, LoginSteps, Attaching, LoginsKept
<1>6. CASE Discard(d)
  BY <1>1, <1>2, <1>4, <1>6, LoginKeeps DEF Discard, LoginSteps, Attaching
<1>7. CASE LoginVerified(d) \/ LoginDone(d) \/ LoginExpires(d)
  BY <1>1, <1>2, <1>4, <1>7, LoginKeeps DEF LoginVerified, LoginDone, LoginExpires,
     LoginSteps, Attaching
<1>8. CASE AttachClose(d) \/ AttachClosed(d)
  BY <1>1, <1>2, <1>4, <1>8, LoginKeeps DEF AttachClose, AttachClosed, LoginSteps,
     Attaching
<1>9. CASE AttachWait(d)
  BY <1>1, <1>2, <1>4, <1>9, LoginKeeps DEF AttachWait, LoginSteps, Attaching, LeaseFree
<1> QED
  BY <1>5, <1>6, <1>7, <1>8, <1>9

\* AttachLogin's first transaction: it enters loginMu, tells the runner to stop,
\* and makes the account if there is none; then there is no runner either.
LEMMA AloneFirst ==
    ASSUME IInv, AloneInv, alone \in Processes, alone # None, UNCHANGED alone,
           NEW d \in Dirs, AttachFirst(d)
    PROVE  AloneInv'
<1>1. /\ TypeOK /\ OthersRest /\ AttachQuiet /\ RunnerCurrent /\ LoginsKept /\ Known
      /\ row \in Leases
  BY TypeParts DEF IInv, AloneInv
<1>2. /\ login[d].step = "verified" /\ UNCHANGED <<listed, runner, sess, removed>>
      /\ \A e \in Dirs : login[e].proc = login[d].proc => login[e].step \notin Attaching
      /\ account' = IF account.status = "none"
                    THEN [status |-> "pending", dir |-> d] ELSE account
      /\ row' = [row EXCEPT !.desired = "offline"]
  BY DEF AttachFirst
<1>3. PICK s \in {"close", "verified"} : LoginGoto(d, s)
  BY DEF AttachFirst
<1>4. /\ login'[d].step = s /\ login'[d].proc = login[d].proc
      /\ \A e \in Dirs \ {d} : login'[e] = login[e]
  BY <1>1, <1>3, Moved DEF LoginSteps
<1>5. row'.desired = "offline" /\ row'.live = row.live
  BY <1>1, <1>2 DEF Leases
<1>6. \A e \in Dirs : login[e].step \notin Attaching
  <2> SUFFICES ASSUME NEW e \in Dirs, login[e].step \in Attaching PROVE FALSE
    OBVIOUS
  <2>1. login[e].step # "none" /\ login[d].step # "none"
    BY <1>2 DEF Attaching
  <2> QED BY <1>1, <1>2, <2>1 DEF OthersRest
<1>7. OthersRest'
  BY <1>1, <1>2, <1>4 DEF OthersRest
<1>8. AttachQuiet'
  BY <1>4, <1>5, <1>6 DEF AttachQuiet, Attaching
<1>9. RunnerCurrent'
  <2>1. CASE account.status = "none"
    <3>1. runner[alone] = "off"
      BY <1>1, <2>1 DEF Known
    <3> QED BY <1>2, <3>1 DEF RunnerCurrent, OpenSteps
  <2>2. CASE account.status # "none"
    BY <1>1, <1>2, <2>2 DEF RunnerCurrent
  <2> QED BY <2>1, <2>2
<1>10. LoginsKept'
  BY <1>1, <1>2, <1>4 DEF LoginsKept
<1> QED
  BY <1>7, <1>8, <1>9, <1>10 DEF AloneInv

\* The second transaction, under a lease nobody has: there is no session, and no
\* runner that has read the old directory.
LEMMA AloneSecond ==
    ASSUME IInv, AloneInv, alone \in Processes, alone # None, UNCHANGED alone,
           NEW d \in Dirs, AttachSecond(d)
    PROVE  AloneInv'
<1>1. /\ TypeOK /\ OthersRest /\ AttachQuiet /\ RunnerCurrent /\ LoginsKept /\ Leased
      /\ row \in Leases
  BY TypeParts DEF IInv, AloneInv
<1>2. login[d].step = "commit" /\ UNCHANGED <<listed, runner, sess, removed>>
  BY DEF AttachSecond
<1>3. PICK s \in {"attached", "verified"} : LoginGoto(d, s)
  BY DEF AttachSecond
<1>4. /\ login'[d].step = s /\ login'[d].proc = login[d].proc
      /\ \A e \in Dirs \ {d} : login'[e] = login[e]
  BY <1>1, <1>3, Moved DEF LoginSteps
<1>5. \A e \in Dirs \ {d} : login[e].step \notin Attaching
  BY <1>1, <1>2 DEF AttachQuiet, Attaching
<1>6. \A e \in Dirs : login'[e].step \notin Attaching
  BY <1>3, <1>4, <1>5 DEF Attaching
<1>7. runner[alone] \notin HoldSteps
  BY <1>1, <1>2 DEF AttachQuiet, Leased
<1>8. OthersRest'
  BY <1>1, <1>2, <1>4 DEF OthersRest
<1>9. AttachQuiet'
  BY <1>6 DEF AttachQuiet, Attaching
<1>10. RunnerCurrent'
  BY <1>2, <1>7 DEF RunnerCurrent, HoldSteps, OpenSteps
<1>11. account' = account \/ account'.dir = d
  BY DEF AttachSecond
<1>12. LoginsKept'
  BY <1>1, <1>2, <1>3, <1>4, <1>11 DEF LoginsKept
<1> QED
  BY <1>8, <1>9, <1>10, <1>12 DEF AloneInv

\* A new login has a directory of its own.
LEMMA AloneStart ==
    ASSUME IInv, AloneInv, alone \in Processes, alone # None, UNCHANGED alone,
           NEW p, p = alone, NEW d \in Dirs, LoginStart(p, d)
    PROVE  AloneInv'
<1>1. TypeOK /\ OthersRest /\ AttachQuiet /\ RunnerCurrent /\ LoginsKept
  BY DEF IInv, AloneInv
<1>2. /\ account.dir # d /\ UNCHANGED <<account, row, listed, runner, sess>>
      /\ removed' = removed \ {d}
      /\ login'[d].step = "login" /\ login'[d].proc = alone
      /\ \A e \in Dirs \ {d} : login'[e] = login[e]
  BY <1>1 DEF LoginStart, Fresh, TypeOK
<1>3. OthersRest'
  BY <1>1, <1>2 DEF OthersRest
<1>4. AttachQuiet'
  BY <1>1, <1>2 DEF AttachQuiet, Attaching
<1>5. RunnerCurrent'
  BY <1>1, <1>2 DEF RunnerCurrent
<1>6. LoginsKept'
  BY <1>1, <1>2 DEF LoginsKept
<1> QED
  BY <1>3, <1>4, <1>5, <1>6 DEF AloneInv

\* A crash ends the runner and the logins that are not done.
LEMMA AloneCrash ==
    ASSUME IInv, AloneInv, alone \in Processes, alone # None, UNCHANGED alone,
           NEW p, p = alone, Crash(p)
    PROVE  AloneInv'
<1>1. /\ TypeOK /\ OthersRest /\ AttachQuiet /\ RunnerCurrent /\ LoginsKept
      /\ login \in [Dirs -> Logins] /\ p \in Processes
  BY TypeParts DEF IInv, AloneInv
<1>2. /\ UNCHANGED <<account, removed>> /\ runner'[p] = "off"
      /\ \A q \in Processes \ {p} : runner'[q] = runner[q] /\ listed'[q] = listed[q]
      /\ \A q \in Processes \ {p} : sess'[q] = sess[q]
  BY <1>1 DEF Crash, Goto, TypeOK
<1>3. \A d \in Dirs : /\ login'[d].step \in {"none", "done", "gone"}
                      /\ login'[d].step # "none" => login'[d].proc = alone
  <2> SUFFICES ASSUME NEW d \in Dirs
               PROVE  /\ login'[d].step \in {"none", "done", "gone"}
                      /\ login'[d].step # "none" => login'[d].proc = alone
    OBVIOUS
  <2> DEFINE ended == [login[d] EXCEPT !.step = "gone"]
  <2>1. ended.step = "gone" /\ ended.proc = login[d].proc
    BY <1>1, LoginFields DEF LoginSteps
  <2>2. login'[d] = IF login[d].proc = p /\ login[d].step # "done"
                    THEN ended ELSE login[d]
    BY DEF Crash
  <2> HIDE DEF ended
  <2>3. CASE login[d].proc = p /\ login[d].step # "done"
    BY <2>1, <2>2, <2>3
  <2>4. CASE ~(login[d].proc = p /\ login[d].step # "done")
    BY <1>1, <2>2, <2>4 DEF OthersRest
  <2> QED BY <2>3, <2>4
<1>4. OthersRest'
  BY <1>1, <1>2, <1>3 DEF OthersRest
<1>5. AttachQuiet'
  BY <1>3 DEF AttachQuiet, Attaching
<1>6. RunnerCurrent'
  BY <1>2 DEF RunnerCurrent, OpenSteps
<1>7. LoginsKept'
  BY <1>1, <1>2, <1>3 DEF LoginsKept
<1> QED
  BY <1>4, <1>5, <1>6, <1>7 DEF AloneInv

-----------------------------------------------------------------------------
LEMMA AloneInitially == MCInit => AloneInv
<1> SUFFICES ASSUME MCInit, alone # None PROVE AloneInv
  BY DEF AloneInv
<1>1. alone \in Processes /\ Init
  BY DEF MCInit
<1>2. OthersRest
  BY <1>1 DEF Init, OthersRest, NoLogin
<1>3. AttachQuiet
  BY <1>1 DEF Init, AttachQuiet, NoLogin, Attaching
<1>4. RunnerCurrent
  BY <1>1 DEF Init, RunnerCurrent, OpenSteps
<1>5. LoginsKept
  BY <1>1 DEF Init, LoginsKept, NoLogin
<1> QED
  BY <1>1, <1>2, <1>3, <1>4, <1>5 DEF AloneInv

\* A process that runs alone takes steps of the specification.
LEMMA StepsAreNext == [MCNext]_<<alone, vars>> => [Next]_vars
<1>1. ASSUME NEW p \in Processes, AloneNext(p) PROVE Next
  BY <1>1 DEF AloneNext, Next
<1> QED
  BY <1>1 DEF MCNext

LEMMA AloneInductive == IInv /\ AloneInv /\ [MCNext]_<<alone, vars>> => AloneInv'
<1> SUFFICES ASSUME IInv, AloneInv, [MCNext]_<<alone, vars>>, alone' # None
             PROVE  AloneInv'
  BY DEF AloneInv
<1>1. CASE UNCHANGED <<alone, vars>>
  BY <1>1 DEF vars, AloneInv, OthersRest, AttachQuiet, RunnerCurrent, LoginsKept
<1>2. CASE MCNext
  <2>1. UNCHANGED alone /\ alone # None /\ alone \in Processes
    BY <1>2 DEF MCNext, AloneInv
  <2>2. PICK p \in Processes : p = alone /\ AloneNext(p)
    BY <1>2, <2>1 DEF MCNext
  <2>3. CASE RunnerStep(p) \/ Tdlib(p) \/ LeaseExpires
    BY <2>1, <2>2, <2>3, AloneLoop, AloneSession, AloneLease DEF RunnerStep, Advance
  <2>4. CASE Crash(p)
    BY <2>1, <2>2, <2>4, AloneCrash
  <2>5. ASSUME NEW d \in Dirs, LoginStart(p, d) PROVE AloneInv'
    BY <2>1, <2>2, <2>5, AloneStart
  <2>6. ASSUME NEW d \in Dirs, LoginStep(d) PROVE AloneInv'
    BY <2>1, <2>6, AlonePlain, AloneFirst, AloneSecond DEF LoginStep
  <2> QED BY <2>2, <2>3, <2>4, <2>5, <2>6 DEF AloneNext
<1> QED
  BY <1>1, <1>2

\* In one process: a login hands its directory over only while there is no runner
\* that has read the old one.
THEOREM AloneInvariant == ASSUME ~Stalls PROVE MCSpec => [](IInv /\ AloneInv)
<1>1. MCInit => IInv /\ AloneInv
  BY InitIInv, AloneInitially DEF MCInit
<1>2. IInv /\ AloneInv /\ [MCNext]_<<alone, vars>> => (IInv /\ AloneInv)'
  BY Inductive, AloneInductive, StepsAreNext
<1> QED
  BY <1>1, <1>2, PTL DEF MCSpec

\* With any number of directories, logins and crashes: a process that runs alone
\* serves nothing from a replaced directory, and neither the account's directory
\* nor that of an open session is deleted as an abandoned login's.
THEOREM HandsOver == ASSUME ~Stalls PROVE MCSpec => []AloneHandsOver
<1>1. IInv /\ AloneInv => AloneHandsOver
  <2> SUFFICES ASSUME IInv, AloneInv, alone # None
               PROVE  ServedIsCurrent /\ DirectoryKept
    BY DEF AloneHandsOver
  <2>1. OthersRest /\ RunnerCurrent /\ LoginsKept /\ Inside
    BY DEF IInv, AloneInv
  <2>2. \A q \in Processes : Open(q) => q = alone
    BY <2>1 DEF OthersRest, Open, NoSession
  <2>3. \A q \in Processes : Open(q) => sess[q].dir = account.dir
    BY <2>1, <2>2 DEF Inside, RunnerCurrent
  <2>4. \A q \in Processes : Serving(q) => Open(q)
    BY DEF Serving, Open
  <2> QED BY <2>1, <2>3, <2>4 DEF ServedIsCurrent, DirectoryKept, LoginsKept
<1> QED
  BY <1>1, AloneInvariant, PTL

\* The runner that finds itself logged out disconnects the account it serves, never
\* the one a login has connected since: it read the directory under the lease.
THEOREM KeepsLogin == ASSUME ~Stalls PROVE MCSpec => AloneKeepsLogin
<1>1. IInv /\ AloneInv /\ [MCNext]_<<alone, vars>>
         => [alone # None => DisconnectsOwn]_vars
  <2> SUFFICES ASSUME IInv, AloneInv, MCNext, alone # None,
                      account.status = "active", account'.status = "disconnected"
               PROVE  \E q \in Processes : runner[q] = "loop" /\ sess[q].dir = account.dir
    BY DEF DisconnectsOwn, vars
  <2>1. alone \in Processes /\ RunnerCurrent /\ account \in Accounts
    BY TypeParts DEF IInv, AloneInv
  <2>2. PICK p \in Processes : p = alone /\ AloneNext(p)
    BY DEF MCNext
  <2>3. account' # account
    OBVIOUS
  <2>4. runner[p] = "loop"
    <3>1. CASE RunnerStep(p)
      <4>1. \/ List(p) \/ Start(p) \/ Advance(p) \/ LoggedOut(p) \/ Profile(p)
            \/ RenewStops(p) \/ RenewError(p)
        BY <3>1 DEF RunnerStep
      <4>2. CASE LoggedOut(p) \/ Profile(p)
        BY <4>2 DEF LoggedOut, Profile
      <4>3. CASE List(p) \/ Start(p) \/ RenewStops(p) \/ RenewError(p)
        BY <2>3, <4>3 DEF List, Start, RenewStops, RenewError
      <4>4. CASE Advance(p)
        <5>1. Activate(p)
          BY <2>3, <4>4 DEF Advance, Acquire, AcquireFails, Load, OpenSession,
             SessionDone, Observe, CloseSession, Release, Forget
        <5>2. account' = [account EXCEPT !.status = "active"]
          BY <2>3, <5>1 DEF Activate
        <5> QED BY <2>1, <5>2 DEF Accounts
      <4> QED BY <4>1, <4>2, <4>3, <4>4
    <3>2. CASE Tdlib(p) \/ Crash(p) \/ LeaseExpires
      BY <2>3, <3>2 DEF Tdlib, Crash, LeaseExpires
    <3>3. ASSUME NEW d \in Dirs, LoginStart(p, d) PROVE FALSE
      BY <2>3, <3>3 DEF LoginStart
    <3>4. ASSUME NEW d \in Dirs, LoginStep(d) PROVE FALSE
      <4>1. AttachFirst(d) \/ AttachSecond(d)
        BY <2>3, <3>4 DEF LoginStep, LoginVerified, AttachClose, AttachClosed,
           AttachWait, LoginDone, LoginExpires, Discard, Remove
      <4>2. account'.status \in {"pending", "active"}
        BY <2>3, <4>1 DEF AttachFirst, AttachSecond
      <4> QED BY <4>2
    <3> QED BY <2>2, <3>1, <3>2, <3>3, <3>4 DEF AloneNext
  <2> QED BY <2>1, <2>2, <2>4 DEF RunnerCurrent, OpenSteps
<1> QED
  BY <1>1, AloneInvariant, PTL DEF MCSpec, AloneKeepsLogin

=============================================================================
