---------------------------- MODULE ContentProofs ----------------------------
(***************************************************************************)
(* MediaDownload and MessageMirror for any number of handlers, downloads,  *)
(* messages and reads.                                                     *)
(*                                                                         *)
(* Of a file: a claim that is worked under and still fresh is the one in   *)
(* the row, and a request carries the facts it has looked at.              *)
(*                                                                         *)
(* Of the mirror: every message has a function from its versions to their  *)
(* times (Dated) that the reads in flight, its row and its edits in the    *)
(* journal agree with.  Upsert compares times, so it compares versions.    *)
(***************************************************************************)
EXTENDS MCContent, Sequences, TLAPS

-----------------------------------------------------------------------------
(* Files.                                                                  *)

\* A claim younger than fifteen minutes whose handler still works under it is
\* the claim in the row, unless another handler made the row ready meanwhile.
FreshIsCurrent ==
    \A w \in Workers :
        work[w].step \in Claimed /\ work[w].fresh =>
            status = "ready" \/ (status = "downloading" /\ ~stale)

\* A handler marks the row only once the object is there.
MarkIsStored == \A w \in Workers : work[w].step = "mark" => object

\* What holds now has held since any request that is being judged began, and
\* each step of a download adds what it has looked at.
LinkFacts ==
    \A d \in Clients :
        /\ get[d] # "idle" => facts \subseteq since[d]
        /\ get[d] = "allow" => {"unexpired", "token"} \subseteq since[d]
        /\ get[d] \in {"open", "serve"} => since[d] = Facts

\* The same of a preview, whose file is open.
PreviewFacts ==
    \A w \in Workers :
        /\ work[w].step \in {"allow", "answer"} => facts \subseteq since[w]
        /\ work[w].step = "answer" => {"visible", "perm"} \subseteq since[w]

MediaInv ==
    /\ TypeOK
    /\ ReadyIsStored /\ MarkIsStored
    /\ FreshIsCurrent /\ OneFreshClaim
    /\ LinkFacts /\ PreviewFacts

WorkTypes == [kind : Kinds, step : WorkSteps, fresh : BOOLEAN]

Work == [Workers -> WorkTypes]

LEMMA IdleType == Idle \in WorkTypes
  BY DEF Idle, WorkTypes, Kinds, WorkSteps, Claimed

\* What the steps of a handler do to it.
LEMMA GotoFact ==
  ASSUME work \in Work, NEW w \in Workers, NEW s \in WorkSteps, Goto(w, s)
  PROVE  /\ work' \in Work
         /\ work'[w].step = s /\ work'[w].fresh = work[w].fresh
         /\ \A v \in Workers : v # w => work'[v] = work[v]
  BY DEF Goto, Work, WorkTypes

LEMMA LeaveFact ==
  ASSUME work \in Work, NEW w \in Workers, Leave(w)
  PROVE  /\ work' \in Work
         /\ work'[w].step = "idle"
         /\ \A v \in Workers : v # w => work'[v] = work[v]
  BY IdleType DEF Leave, Work, Idle

LEMMA ProceedFact ==
  ASSUME work \in Work, NEW w \in Workers, Proceed(w)
  PROVE  /\ work' \in Work
         /\ work'[w].step \in {"idle", "ready", "open"}
         /\ \A v \in Workers : v # w => work'[v] = work[v]
<1>1. After(work[w].kind) \in {"idle", "ready", "open"}
  BY DEF After
<1>2. {"idle", "ready", "open"} \subseteq WorkSteps
  BY DEF WorkSteps
<1> QED BY <1>1, <1>2, GotoFact, LeaveFact DEF Proceed

\* The inductive invariant holds before the message is stored, ...
THEOREM MediaInitially == Init => MediaInv
<1> SUFFICES ASSUME Init PROVE MediaInv
  OBVIOUS
<1>1. TypeOK
  <2>1. work \in Work
    BY IdleType DEF Init, Work
  <2>2. auto \in BOOLEAN /\ stale \in BOOLEAN /\ object \in BOOLEAN
    BY DEF Init
  <2>3. attempts \in 0..MaxAttempts
    BY MediaAssumption DEF Init
  <2>4. facts \in SUBSET Facts /\ since \in [Workers \cup Clients -> SUBSET Facts]
    BY DEF Init
  <2> QED BY <2>1, <2>2, <2>3, <2>4 DEF Init, TypeOK, Work, WorkTypes
<1>2. \A w \in Workers : work[w].step = "idle"
  BY DEF Init, Idle
<1> QED BY <1>1, <1>2 DEF MediaInv, ReadyIsStored, MarkIsStored, FreshIsCurrent,
          OneFreshClaim, LinkFacts, PreviewFacts, Init, Claimed

-----------------------------------------------------------------------------
LEMMA MediaTypeStep == TypeOK /\ [Next]_vars => TypeOK'
<1> SUFFICES ASSUME TypeOK, [Next]_vars PROVE TypeOK'
  OBVIOUS
<1>0. work \in Work
  BY DEF TypeOK, Work, WorkTypes
<1> USE <1>0
<1>1. CASE Register
  BY <1>1 DEF Register, Registered, TypeOK
<1>2. CASE Allow
  BY <1>2 DEF Allow, TypeOK, Facts
<1>3. CASE Stales
  <2>1. work' \in Work
    BY <1>3 DEF Stales, Work, WorkTypes
  <2> QED BY <1>3, <2>1 DEF Stales, TypeOK, Work, WorkTypes
<1>4. CASE Restart
  <2>1. work' \in Work
    BY <1>4, IdleType DEF Restart, Work
  <2> QED BY <1>4, <2>1 DEF Restart, TypeOK, Work, WorkTypes
<1>5. CASE Purge
  BY <1>5 DEF Purge, TypeOK
<1>6. ASSUME NEW f \in Facts, Ends(f) PROVE TypeOK'
  BY <1>6 DEF Ends, TypeOK
<1>7. ASSUME NEW w \in Workers, WorkStep(w) PROVE TypeOK'
  <2>1. ASSUME NEW k \in {"job", "ticket", "inspect"}, Start(w, k) PROVE TypeOK'
    <3>1. work' \in Work
      BY <2>1 DEF Start, Work, WorkTypes, After, Kinds, WorkSteps
    <3> QED BY <2>1, <3>1 DEF Start, TypeOK, Work, WorkTypes
  <2>2. CASE Look(w)
    <3>1. work' \in Work
      BY <2>2, ProceedFact, LeaveFact, GotoFact DEF Look, WorkSteps, Claimed
    <3> QED BY <2>2, <3>1 DEF Look, TypeOK, Work, WorkTypes
  <2>3. CASE Claim(w)
    <3>1. work' \in Work
      <4>1. CASE Claimable
        BY <2>3, <4>1 DEF Claim, Work, WorkTypes, WorkSteps, Claimed
      <4>2. CASE ~Claimable
        BY <2>3, <4>2, LeaveFact, ProceedFact DEF Claim
      <4> QED BY <4>1, <4>2
    <3>2. attempts' \in 0..MaxAttempts
      BY <2>3, MediaAssumption DEF Claim, Claimable, TypeOK
    <3>3. stale' \in BOOLEAN
      BY <2>3 DEF Claim, TypeOK
    <3> QED BY <2>3, <3>1, <3>2, <3>3 DEF Claim, TypeOK, Work, WorkTypes
  <2>4. CASE Source(w)
    <3>1. work' \in Work
      BY <2>4, GotoFact DEF Source, WorkSteps, Claimed
    <3> QED BY <2>4, <3>1 DEF Source, TypeOK, Work, WorkTypes
  <2>5. CASE Fetch(w)
    <3>1. work' \in Work
      BY <2>5, GotoFact DEF Fetch, WorkSteps, Claimed
    <3> QED BY <2>5, <3>1 DEF Fetch, TypeOK, Work, WorkTypes
  <2>6. CASE Put(w)
    <3>1. work' \in Work
      BY <2>6, GotoFact DEF Put, WorkSteps, Claimed
    <3> QED BY <2>6, <3>1 DEF Put, TypeOK, Work, WorkTypes
  <2>7. CASE MarkReady(w)
    <3>1. work' \in Work
      BY <2>7, GotoFact, LeaveFact, ProceedFact DEF MarkReady, WorkSteps, Claimed
    <3> QED BY <2>7, <3>1 DEF MarkReady, TypeOK, Work, WorkTypes
  <2>8. CASE MarkFailed(w)
    <3>1. ASSUME NEW v \in Workers PROVE work'[v] \in WorkTypes
      <4>1. (work[v].fresh /\ status' = status) \in BOOLEAN
        OBVIOUS
      <4>2. CASE v = w
        BY <2>8, <4>2, IdleType DEF MarkFailed
      <4>3. CASE v # w
        <5>1. /\ work'[v] = [work[v] EXCEPT !.fresh = work[v].fresh /\ status' = status]
          BY <2>8, <4>3 DEF MarkFailed
        <5> QED BY <4>1, <5>1 DEF Work, WorkTypes
      <4> QED BY <4>2, <4>3
    <3>2. work' \in Work
      BY <2>8, <3>1 DEF MarkFailed, Work
    <3> QED BY <2>8, <3>2 DEF MarkFailed, Failed, TypeOK, Work, WorkTypes
  <2>9. CASE Abandon(w)
    <3>1. work' \in Work
      BY <2>9, LeaveFact DEF Abandon, WorkSteps, Claimed
    <3> QED BY <2>9, <3>1 DEF Abandon, TypeOK, Work, WorkTypes
  <2>10. CASE CheckReady(w)
    <3>1. work' \in Work
      BY <2>10, GotoFact DEF CheckReady, WorkSteps, Claimed
    <3> QED BY <2>10, <3>1 DEF CheckReady, TypeOK, Work, WorkTypes
  <2>11. CASE InsertTicket(w)
    <3>1. work' \in Work
      BY <2>11, LeaveFact DEF InsertTicket, WorkSteps, Claimed
    <3> QED BY <2>11, <3>1 DEF InsertTicket, TypeOK, Work, WorkTypes
  <2>12. CASE InspectOpen(w)
    <3>1. work' \in Work
      BY <2>12, GotoFact DEF InspectOpen, WorkSteps, Claimed
    <3> QED BY <2>12, <3>1 DEF InspectOpen, TypeOK, Work, WorkTypes
  <2>13. CASE InspectAllow(w)
    <3>1. work' \in Work
      BY <2>13, GotoFact DEF InspectAllow, WorkSteps, Claimed
    <3> QED BY <2>13, <3>1 DEF InspectAllow, TypeOK, Work, WorkTypes
  <2> QED BY <1>7, <2>1, <2>2, <2>3, <2>4, <2>5, <2>6, <2>7, <2>8, <2>9, <2>10,
     <2>11, <2>12, <2>13 DEF WorkStep
<1>8. ASSUME NEW d \in Clients, GetStep(d) PROVE TypeOK'
  BY <1>8 DEF GetStep, GetStart, GetLookup, GetAllow, GetOpen, GetEnd, Step,
     TypeOK, Facts
<1>9. CASE UNCHANGED vars
  BY <1>9 DEF vars, TypeOK
<1> QED BY <1>1, <1>2, <1>3, <1>4, <1>5, <1>6, <1>7, <1>8, <1>9 DEF Next

-----------------------------------------------------------------------------
\* A row made ready stays so, and has its object.
StoredStep ==
    ReadyIsStored' /\ MarkIsStored' /\ (status = "ready" => status' = "ready")

\* Only StoreDownload puts a handler where it may mark the row.
LEMMA StoredKept ==
  MediaInv /\ [Next]_vars => StoredStep
<1> SUFFICES ASSUME MediaInv, [Next]_vars PROVE StoredStep
  OBVIOUS
<1>0. work \in Work /\ TypeOK
  BY DEF MediaInv, TypeOK, Work, WorkTypes
<1> USE <1>0 DEF MediaInv, StoredStep, ReadyIsStored, MarkIsStored
<1>1. CASE Register
  BY <1>1 DEF Register, Registered
<1>2. CASE Allow
  BY <1>2 DEF Allow
<1>3. CASE Stales
  BY <1>3 DEF Stales, Work, WorkTypes
<1>4. CASE Restart
  BY <1>4 DEF Restart, Idle, Claimed
<1>5. CASE Purge
  BY <1>5 DEF Purge
<1>6. ASSUME NEW f \in Facts, Ends(f) PROVE StoredStep
  BY <1>6 DEF Ends
<1>7. ASSUME NEW w \in Workers, WorkStep(w) PROVE StoredStep
  <2>1. ASSUME NEW k \in {"job", "ticket", "inspect"}, Start(w, k) PROVE StoredStep
    BY <2>1 DEF Start, Work, WorkTypes, After, Claimed
  <2>2. CASE Look(w)
    BY <2>2, ProceedFact, LeaveFact, GotoFact DEF Look, WorkSteps, Claimed
  <2>3. CASE Claim(w)
    <3>1. CASE Claimable
      <4>1. work'[w].step = "source" /\ \A v \in Workers : v # w => work'[v] = work[v]
        BY <2>3, <3>1 DEF Claim, Work, WorkTypes
      <4> QED BY <2>3, <3>1, <4>1 DEF Claim, Claimable
    <3>2. CASE ~Claimable
      BY <2>3, <3>2, LeaveFact, ProceedFact DEF Claim, Claimed
    <3> QED BY <3>1, <3>2
  <2>4. CASE Source(w)
    BY <2>4, GotoFact DEF Source, WorkSteps, Claimed
  <2>5. CASE Fetch(w)
    BY <2>5, GotoFact DEF Fetch, WorkSteps, Claimed
  <2>6. CASE Put(w)
    BY <2>6, GotoFact DEF Put, WorkSteps, Claimed
  <2>7. CASE MarkReady(w)
    BY <2>7, GotoFact, LeaveFact, ProceedFact DEF MarkReady, WorkSteps, Claimed
  <2>8. CASE MarkFailed(w)
    <3>1. \A v \in Workers : work'[v].step \in {"idle", work[v].step}
      BY <2>8 DEF MarkFailed, Idle, Work, WorkTypes
    <3> QED BY <2>8, <3>1 DEF MarkFailed, Failed
  <2>9. CASE Abandon(w)
    BY <2>9, LeaveFact DEF Abandon, WorkSteps, Claimed
  <2>10. CASE CheckReady(w)
    BY <2>10, GotoFact DEF CheckReady, WorkSteps, Claimed
  <2>11. CASE InsertTicket(w)
    BY <2>11, LeaveFact DEF InsertTicket, WorkSteps, Claimed
  <2>12. CASE InspectOpen(w)
    BY <2>12, GotoFact DEF InspectOpen, WorkSteps, Claimed
  <2>13. CASE InspectAllow(w)
    BY <2>13, GotoFact DEF InspectAllow, WorkSteps, Claimed
  <2> QED BY <1>7, <2>1, <2>2, <2>3, <2>4, <2>5, <2>6, <2>7, <2>8, <2>9, <2>10,
     <2>11, <2>12, <2>13 DEF WorkStep
<1>8. ASSUME NEW d \in Clients, GetStep(d) PROVE StoredStep
  BY <1>8 DEF GetStep, GetStart, GetLookup, GetAllow, GetOpen, GetEnd, Step
<1>9. CASE UNCHANGED vars
  BY <1>9 DEF vars
<1> QED BY <1>1, <1>2, <1>3, <1>4, <1>5, <1>6, <1>7, <1>8, <1>9 DEF Next

\* ClaimDownloadRecoverable gives out no claim while a fresh one is worked under.
LEMMA FreshKept ==
  MediaInv /\ [Next]_vars => (FreshIsCurrent /\ OneFreshClaim)'
<1> SUFFICES ASSUME MediaInv, [Next]_vars PROVE (FreshIsCurrent /\ OneFreshClaim)'
  OBVIOUS
<1>0. work \in Work /\ TypeOK
  BY DEF MediaInv, TypeOK, Work, WorkTypes
<1> USE <1>0 DEF MediaInv, FreshIsCurrent, OneFreshClaim
<1>1. CASE Register
  BY <1>1 DEF Register, Registered
<1>2. CASE Allow
  BY <1>2 DEF Allow
<1>3. CASE Stales
  BY <1>3 DEF Stales, Work, WorkTypes
<1>4. CASE Restart
  BY <1>4 DEF Restart, Idle, Claimed
<1>5. CASE Purge
  BY <1>5 DEF Purge
<1>6. ASSUME NEW f \in Facts, Ends(f) PROVE (FreshIsCurrent /\ OneFreshClaim)'
  BY <1>6 DEF Ends
<1>7. ASSUME NEW w \in Workers, WorkStep(w) PROVE (FreshIsCurrent /\ OneFreshClaim)'
  <2>1. ASSUME NEW k \in {"job", "ticket", "inspect"}, Start(w, k)
        PROVE  (FreshIsCurrent /\ OneFreshClaim)'
    BY <2>1 DEF Start, Work, WorkTypes, After, Claimed
  <2>2. CASE Look(w)
    BY <2>2, ProceedFact, LeaveFact, GotoFact DEF Look, WorkSteps, Claimed
  <2>3. CASE Claim(w)
    <3>1. CASE Claimable
      <4>1. \A v \in Workers : v # w => work'[v] = work[v]
        BY <2>3, <3>1 DEF Claim, Work
      <4>2. \A v \in Workers : ~(work[v].step \in Claimed /\ work[v].fresh)
        BY <3>1 DEF Claimable
      <4>3. status' = "downloading" /\ ~stale'
        BY <2>3, <3>1 DEF Claim
      <4> QED BY <4>1, <4>2, <4>3
    <3>2. CASE ~Claimable
      BY <2>3, <3>2, LeaveFact, ProceedFact DEF Claim, Claimed
    <3> QED BY <3>1, <3>2
  <2>4. CASE Source(w)
    BY <2>4, GotoFact DEF Source, WorkSteps, Claimed
  <2>5. CASE Fetch(w)
    BY <2>5, GotoFact DEF Fetch, WorkSteps, Claimed
  <2>6. CASE Put(w)
    BY <2>6, GotoFact DEF Put, WorkSteps, Claimed
  <2>7. CASE MarkReady(w)
    BY <2>7, GotoFact, LeaveFact, ProceedFact DEF MarkReady, WorkSteps, Claimed
  <2>8. CASE MarkFailed(w)
    <3>1. ASSUME NEW v \in Workers, work'[v].step \in Claimed, work'[v].fresh
          PROVE  /\ work[v].step \in Claimed /\ work[v].fresh
                 /\ status' = status
      <4>1. v # w
        BY <2>8, <3>1 DEF MarkFailed, Idle, Claimed
      <4>2. work'[v] = [work[v] EXCEPT !.fresh = work[v].fresh /\ status' = status]
        BY <2>8, <4>1 DEF MarkFailed
      <4>3. work[v] \in WorkTypes
        BY DEF Work
      <4>4. /\ work'[v].step = work[v].step
            /\ work'[v].fresh = (work[v].fresh /\ status' = status)
        BY <4>2, <4>3 DEF WorkTypes
      <4> QED BY <3>1, <4>4
    <3>2. stale' = stale
      BY <2>8 DEF MarkFailed
    <3> QED BY <3>1, <3>2
  <2>9. CASE Abandon(w)
    BY <2>9, LeaveFact DEF Abandon, WorkSteps, Claimed
  <2>10. CASE CheckReady(w)
    BY <2>10, GotoFact DEF CheckReady, WorkSteps, Claimed
  <2>11. CASE InsertTicket(w)
    BY <2>11, LeaveFact DEF InsertTicket, WorkSteps, Claimed
  <2>12. CASE InspectOpen(w)
    BY <2>12, GotoFact DEF InspectOpen, WorkSteps, Claimed
  <2>13. CASE InspectAllow(w)
    BY <2>13, GotoFact DEF InspectAllow, WorkSteps, Claimed
  <2> QED BY <1>7, <2>1, <2>2, <2>3, <2>4, <2>5, <2>6, <2>7, <2>8, <2>9, <2>10,
     <2>11, <2>12, <2>13 DEF WorkStep
<1>8. ASSUME NEW d \in Clients, GetStep(d) PROVE (FreshIsCurrent /\ OneFreshClaim)'
  BY <1>8 DEF GetStep, GetStart, GetLookup, GetAllow, GetOpen, GetEnd, Step
<1>9. CASE UNCHANGED vars
  BY <1>9 DEF vars
<1> QED BY <1>1, <1>2, <1>3, <1>4, <1>5, <1>6, <1>7, <1>8, <1>9 DEF Next

\* What a request has looked at held since the request began.
LEMMA FactsKept ==
  MediaInv /\ [Next]_vars => (LinkFacts /\ PreviewFacts)'
<1> SUFFICES ASSUME MediaInv, [Next]_vars PROVE (LinkFacts /\ PreviewFacts)'
  OBVIOUS
<1>0. work \in Work /\ TypeOK
  BY DEF MediaInv, TypeOK, Work, WorkTypes
<1> USE <1>0 DEF MediaInv, LinkFacts, PreviewFacts
<1>1. CASE Register
  BY <1>1 DEF Register, Registered
<1>2. CASE Allow
  <2>1. facts' = facts \cup {"perm"} /\ UNCHANGED <<get, work>>
    BY <1>2 DEF Allow
  <2>2. \A a \in Workers \cup Clients :
          since'[a] = since[a] \cup {"perm"} /\ since[a] \subseteq Facts
    BY <1>2 DEF Allow, TypeOK
  <2>3. LinkFacts'
    BY <2>1, <2>2 DEF Facts
  <2>4. PreviewFacts'
    BY <2>1, <2>2
  <2> QED BY <2>3, <2>4
<1>3. CASE Stales
  BY <1>3 DEF Stales, Work, WorkTypes
<1>4. CASE Restart
  BY <1>4 DEF Restart, Idle, Claimed
<1>5. CASE Purge
  BY <1>5 DEF Purge
<1>6. ASSUME NEW f \in Facts, Ends(f) PROVE (LinkFacts /\ PreviewFacts)'
  BY <1>6 DEF Ends
<1>7. ASSUME NEW w \in Workers, WorkStep(w) PROVE (LinkFacts /\ PreviewFacts)'
  <2>1. ASSUME NEW k \in {"job", "ticket", "inspect"}, Start(w, k)
        PROVE  (LinkFacts /\ PreviewFacts)'
    BY <2>1 DEF Start, Work, WorkTypes, After, Claimed
  <2>2. CASE Look(w)
    BY <2>2, ProceedFact, LeaveFact, GotoFact DEF Look, WorkSteps, Claimed
  <2>3. CASE Claim(w)
    <3>1. CASE Claimable
      <4>1. work'[w].step = "source" /\ \A v \in Workers : v # w => work'[v] = work[v]
        BY <2>3, <3>1 DEF Claim, Work, WorkTypes
      <4> QED BY <2>3, <3>1, <4>1 DEF Claim, Claimable
    <3>2. CASE ~Claimable
      BY <2>3, <3>2, LeaveFact, ProceedFact DEF Claim, Claimed
    <3> QED BY <3>1, <3>2
  <2>4. CASE Source(w)
    BY <2>4, GotoFact DEF Source, WorkSteps, Claimed
  <2>5. CASE Fetch(w)
    BY <2>5, GotoFact DEF Fetch, WorkSteps, Claimed
  <2>6. CASE Put(w)
    BY <2>6, GotoFact DEF Put, WorkSteps, Claimed
  <2>7. CASE MarkReady(w)
    BY <2>7, GotoFact, LeaveFact, ProceedFact DEF MarkReady, WorkSteps, Claimed
  <2>8. CASE MarkFailed(w)
    <3>1. \A v \in Workers : work'[v].step \in {"idle", work[v].step}
      BY <2>8 DEF MarkFailed, Idle, Work, WorkTypes
    <3> QED BY <2>8, <3>1 DEF MarkFailed, Failed
  <2>9. CASE Abandon(w)
    BY <2>9, LeaveFact DEF Abandon, WorkSteps, Claimed
  <2>10. CASE CheckReady(w)
    BY <2>10, GotoFact DEF CheckReady, WorkSteps, Claimed
  <2>11. CASE InsertTicket(w)
    BY <2>11, LeaveFact DEF InsertTicket, WorkSteps, Claimed
  <2>12. CASE InspectOpen(w)
    <3>1. /\ UNCHANGED <<facts, get>>
          /\ since'[w] = facts
          /\ \A a \in Workers \cup Clients : a # w => since'[a] = since[a]
      BY <2>12 DEF InspectOpen, TypeOK
    <3>2. work'[w].step = "allow" /\ \A v \in Workers : v # w => work'[v] = work[v]
      BY <2>12, GotoFact DEF InspectOpen, WorkSteps
    <3>3. \A d \in Clients : d # w
      BY MediaAssumption
    <3>4. LinkFacts'
      BY <3>1, <3>3
    <3>5. PreviewFacts'
      BY <3>1, <3>2
    <3> QED BY <3>4, <3>5
  <2>13. CASE InspectAllow(w)
    BY <2>13, GotoFact DEF InspectAllow, WorkSteps, Claimed
  <2> QED BY <1>7, <2>1, <2>2, <2>3, <2>4, <2>5, <2>6, <2>7, <2>8, <2>9, <2>10,
     <2>11, <2>12, <2>13 DEF WorkStep
<1>8. ASSUME NEW d \in Clients, GetStep(d) PROVE (LinkFacts /\ PreviewFacts)'
  <2>1. \A a \in Workers \cup Clients : a # d => since'[a] = since[a]
    BY <1>8 DEF GetStep, GetStart, GetLookup, GetAllow, GetOpen, GetEnd, Step, TypeOK
  <2>2. \A w \in Workers : w # d
    BY MediaAssumption
  <2>3. PreviewFacts'
    BY <1>8, <2>1, <2>2 DEF GetStep, GetStart, GetLookup, GetAllow, GetOpen,
       GetEnd, Step
  <2>4. \A e \in Clients : e # d => get'[e] = get[e]
    BY <1>8 DEF GetStep, GetStart, GetLookup, GetAllow, GetOpen, GetEnd, Step, TypeOK
  <2>5. facts' = facts /\ since[d] \subseteq Facts
    BY <1>8 DEF GetStep, GetStart, GetLookup, GetAllow, GetOpen, GetEnd, Step, TypeOK
  <2>6. /\ get'[d] # "idle" => facts \subseteq since'[d]
        /\ get'[d] = "allow" => {"unexpired", "token"} \subseteq since'[d]
        /\ get'[d] \in {"open", "serve"} => since'[d] = Facts
    <3>1. CASE GetStart(d)
      BY <3>1 DEF GetStart, Step, TypeOK
    <3>2. CASE GetLookup(d)
      BY <3>2 DEF GetLookup, Step, TypeOK
    <3>3. CASE GetAllow(d)
      BY <3>3, <2>5 DEF GetAllow, Step, TypeOK, Facts
    <3>4. CASE GetOpen(d)
      BY <3>4 DEF GetOpen, Step, TypeOK
    <3>5. CASE GetEnd(d)
      BY <3>5 DEF GetEnd, TypeOK
    <3> QED BY <1>8, <3>1, <3>2, <3>3, <3>4, <3>5 DEF GetStep
  <2>7. LinkFacts'
    BY <2>1, <2>4, <2>5, <2>6
  <2> QED BY <2>3, <2>7
<1>9. CASE UNCHANGED vars
  BY <1>9 DEF vars
<1> QED BY <1>1, <1>2, <1>3, <1>4, <1>5, <1>6, <1>7, <1>8, <1>9 DEF Next

-----------------------------------------------------------------------------
\* ... and always after.
THEOREM MediaInvariant == Spec => []MediaInv
<1>1. MediaInv /\ [Next]_vars => MediaInv'
  BY MediaTypeStep, StoredKept, FreshKept, FactsKept DEF MediaInv, StoredStep
<1> QED BY <1>1, MediaInitially, PTL DEF Spec

\* Two handlers never both work under a claim younger than fifteen minutes
\* (ClaimDownloadRecoverable), for any number of handlers and attempts.
THEOREM MediaClaims == Spec => []OneFreshClaim
<1>1. MediaInv => OneFreshClaim
  BY DEF MediaInv
<1> QED BY <1>1, MediaInvariant, PTL

\* Neither a link nor a preview serves a byte on a permission that ended before
\* it was asked for: mediaDownload and inspectMedia look again after every wait.
THEOREM MediaBytes == Spec => []BytesRecheck
<1>1. MediaInv => BytesRecheck
  BY DEF MediaInv, LinkFacts, PreviewFacts, BytesRecheck, LinksRecheck,
     PreviewRechecks
<1> QED BY <1>1, MediaInvariant, PTL

\* A row marked ready keeps its object and stays ready: neither RegisterPending,
\* a late MarkFailed nor a handler that lost its claim takes it back.
THEOREM MediaReadyHolds == Spec => ReadyHolds
<1>1. MediaInv /\ [Next]_vars =>
          [ReadyIsStored' /\ (status = "ready" => status' = "ready")]_vars
  BY StoredKept DEF StoredStep
<1> QED BY <1>1, MediaInvariant, PTL DEF Spec, ReadyHolds

-----------------------------------------------------------------------------
(* The mirror.                                                             *)

\* What is assumed of the constants.
LEMMA MirrorBounds ==
  /\ MaxTime \in Nat \ {0} /\ MaxEdits \in Nat /\ None \notin Messages
  BY MirrorOK DEF M!MirrorAssumption

-----------------------------------------------------------------------------
Is(i, m, kind) == journal[i].msg = m /\ journal[i].kind = kind

\* An event for a new message carries the first version.
NewsAreFirst ==
    \A i \in DOMAIN journal :
        journal[i].kind = "new" => journal[i].ver = 0 /\ journal[i].at = 0

\* Nothing is known of a message Telegram does not have yet.
UnsentIsUnknown ==
    \A m \in Messages :
        tg[m].state = "none" =>
            /\ tg[m] = M!Unsent
            /\ ~rows[m].stored /\ rows[m].edit = 0 /\ heard[m] = M!Nothing
            /\ \A i \in DOMAIN journal : journal[i].msg # m
            /\ \A r \in Readers : read[r].msg # m

\* What RunUpdates has processed of the head of the journal is persisted.
HeadIsDone ==
    drain # "process" =>
        /\ journal[1].kind = "delete" => journal[1].msg \in tombs
        /\ journal[1].kind = "new" => rows[journal[1].msg].stored

GoneIsTombed ==
    \A m \in Messages :
        heard[m].gone => M!Awaited(m, {"delete"}) \/ m \in tombs

\* The edits of a message the journal brought come after the message.
NewsComeFirst ==
    \A m \in Messages : \A i \in DOMAIN journal :
        heard[m].new /\ Is(i, m, "content") =>
            rows[m].stored \/ \E j \in 1..(i - 1) : Is(j, m, "new")

\* On-demand reads fetch and store one at a time, so what one of them stores is
\* not older than what another one is about to list.
ReadsTakeTurns ==
    /\ \A r \in Readers : read[r].step # "idle" => read[r].msg \in Messages
    /\ auto => \A r \in Readers : read[r].step # "list"
    /\ ~auto => \A r, s \in Readers :
         /\ {read[r].step, read[s].step} \subseteq {"upsert", "apply"} => r = s
         /\ /\ read[r].step = "upsert" /\ read[s].step = "list"
            /\ read[s].msg = read[r].msg
            => read[s].ver <= read[r].ver

\* D gives the time of each version of m so far: later versions are not earlier,
\* and they are later unless m is unsure.  Every read holds a version with its
\* time.
Dated(m, D) ==
    /\ D[0] = tg[m].sent /\ D[tg[m].ver] = M!Age(m, tg[m].edit)
    /\ D[tg[m].ver] <= 2 * now
    /\ \A u, v \in 0..tg[m].ver : u < v => D[u] <= D[v]
    /\ m \notin unsure => \A u, v \in 0..tg[m].ver : u < v => D[u] < D[v]
    /\ \A r \in Readers :
         read[r].msg = m =>
            read[r].ver <= tg[m].ver /\ M!Age(m, read[r].edit) = D[read[r].ver]

\* The journal brought m, and its versions can be told apart by their times.
Tracked(m) == heard[m].new /\ m \notin unsure

\* The row of such a message has at least the version P, the last one that
\* RunUpdates took from the journal, and its time.
RowSeen(m, D, P) ==
    /\ rows[m].stored => rows[m].ver >= P /\ M!Age(m, rows[m].edit) >= D[P]
    /\ ~rows[m].stored => P = 0 /\ rows[m].edit = 0

\* The last edit of m that was journalled is P, or waits behind all the others.
LastEdit(m, P) ==
    \/ heard[m].ver = P /\ \A i \in DOMAIN journal : ~Is(i, m, "content")
    \/ \E i \in DOMAIN journal :
         /\ Is(i, m, "content") /\ journal[i].ver = heard[m].ver
         /\ \A k \in DOMAIN journal : k > i => ~Is(k, m, "content")

\* What the journal still holds of m is not older than P, nor than the edits
\* before it.
HasSeen(m, D, P) ==
    /\ P <= tg[m].ver
    /\ RowSeen(m, D, P)
    /\ LastEdit(m, P)
    /\ \A i \in DOMAIN journal : Is(i, m, "content") => journal[i].ver <= tg[m].ver
    /\ \A i \in DOMAIN journal :
         Is(i, m, "edited") =>
            /\ journal[i].at >= D[P]
            /\ \A j \in 1..(i - 1) :
                 Is(j, m, "content") => journal[i].at >= D[journal[j].ver]
    /\ drain # "process" /\ Is(1, m, "content") => journal[1].ver = P

\* No edit of m was journalled: its row is a version with its time, and not
\* older than what the reads stored.
Quiet(m) == heard[m].ver = 0

RowDated(m, D) ==
    /\ rows[m].stored => rows[m].ver <= tg[m].ver /\ M!Age(m, rows[m].edit) = D[rows[m].ver]
    /\ ~rows[m].stored => rows[m].edit = 0

RowListed(m) ==
    ~auto => \A r \in Readers :
        read[r].msg = m /\ read[r].step \in {"apply", "list"} =>
            rows[m].stored /\ rows[m].ver >= read[r].ver

QuietRow(m, D) ==
    /\ \A i \in DOMAIN journal : ~Is(i, m, "content") /\ ~Is(i, m, "edited")
    /\ RowDated(m, D)
    /\ RowListed(m)

Ordered(m, D) ==
    /\ Dated(m, D)
    /\ Quiet(m) => QuietRow(m, D)
    /\ Tracked(m) => \E P \in M!Versions : HasSeen(m, D, P)

VersionsOrdered == \A m \in Messages : \E D \in [M!Versions -> M!Times] : Ordered(m, D)

MirrorInv ==
    /\ M!TypeOK /\ NewsAreFirst /\ UnsentIsUnknown /\ HeadIsDone
    /\ GoneIsTombed /\ M!NewIsStored /\ NewsComeFirst
    /\ ReadsTakeTurns /\ VersionsOrdered

-----------------------------------------------------------------------------
\* Upsert writes one row: its content follows the age, its time only grows.
LEMMA UpsertedFact ==
  ASSUME rows \in [Messages -> M!Rows], NEW m \in Messages, NEW ver \in M!Versions,
         NEW edit \in M!Times
  PROVE  /\ M!Upserted(m, ver, edit) \in [Messages -> M!Rows]
         /\ M!Upserted(m, ver, edit)[m].stored
         /\ M!Upserted(m, ver, edit)[m].deleted = rows[m].deleted
         /\ M!Upserted(m, ver, edit)[m].ver =
                IF ~rows[m].stored \/ M!Age(m, edit) >= M!Age(m, rows[m].edit)
                THEN ver ELSE rows[m].ver
         /\ M!Upserted(m, ver, edit)[m].edit =
                IF edit > rows[m].edit THEN edit ELSE rows[m].edit
         /\ \A n \in Messages : n # m => M!Upserted(m, ver, edit)[n] = rows[n]
<1> DEFINE v == IF ~rows[m].stored \/ M!Age(m, edit) >= M!Age(m, rows[m].edit)
                THEN ver ELSE rows[m].ver
           e == IF edit > rows[m].edit THEN edit ELSE rows[m].edit
           row == [stored |-> TRUE, ver |-> v, edit |-> e,
                   deleted |-> rows[m].deleted]
<1>0. rows[m] \in M!Rows
  OBVIOUS
<1>1. v \in M!Versions /\ e \in M!Times /\ rows[m].deleted \in BOOLEAN
  BY <1>0 DEF M!Rows
<1>2. M!Upserted(m, ver, edit) = [rows EXCEPT ![m] = row]
  BY DEF M!Upserted
<1> HIDE DEF v, e
<1>3. row \in M!Rows
  BY <1>1 DEF M!Rows
<1>4. row.stored /\ row.ver = v /\ row.edit = e /\ row.deleted = rows[m].deleted
  OBVIOUS
<1> HIDE DEF row
<1>5. /\ M!Upserted(m, ver, edit) \in [Messages -> M!Rows]
      /\ M!Upserted(m, ver, edit)[m] = row
      /\ \A n \in Messages : n # m => M!Upserted(m, ver, edit)[n] = rows[n]
  BY <1>2, <1>3
<1> QED BY <1>4, <1>5 DEF v, e

\* ApplyTombstones changes nothing but the deleted flags.
LEMMA AppliedFact ==
  ASSUME rows \in [Messages -> M!Rows]
  PROVE  /\ M!Applied \in [Messages -> M!Rows]
         /\ \A m \in Messages : /\ M!Applied[m].stored = rows[m].stored
                                /\ M!Applied[m].ver = rows[m].ver
                                /\ M!Applied[m].edit = rows[m].edit
<1> SUFFICES ASSUME NEW m \in Messages
             PROVE  /\ M!Applied[m] \in M!Rows
                    /\ M!Applied[m].stored = rows[m].stored
                    /\ M!Applied[m].ver = rows[m].ver
                    /\ M!Applied[m].edit = rows[m].edit
  BY DEF M!Applied
<1>1. rows[m] \in M!Rows
  OBVIOUS
<1> QED BY <1>1 DEF M!Applied, M!Rows

\* A sequence without its head.
LEMMA Pop ==
  ASSUME NEW S, NEW s \in Seq(S), s # <<>>
  PROVE  /\ Tail(s) \in Seq(S) /\ Len(s) \in Nat /\ Len(s) > 0
         /\ Head(s) = s[1] /\ s[1] \in S
         /\ DOMAIN s = 1..Len(s)
         /\ DOMAIN Tail(s) = 1..(Len(s) - 1)
         /\ \A i \in 1..(Len(s) - 1) : Tail(s)[i] = s[i + 1]
  OBVIOUS

\* A sequence with another behind it.
LEMMA Push ==
  ASSUME NEW S, NEW s \in Seq(S), NEW t \in Seq(S)
  PROVE  /\ s \o t \in Seq(S) /\ Len(s) \in Nat /\ Len(t) \in Nat
         /\ DOMAIN s = 1..Len(s)
         /\ DOMAIN (s \o t) = 1..(Len(s) + Len(t))
         /\ \A i \in 1..Len(s) : (s \o t)[i] = s[i]
         /\ \A i \in 1..Len(t) : (s \o t)[Len(s) + i] = t[i]
  OBVIOUS

\* The events Telegram may cause, and the clock, have their types.
LEMMA EventTypes ==
  ASSUME M!TypeOK, NEW m \in Messages, NEW v \in M!Versions
  PROVE  /\ [kind |-> "new", msg |-> m, ver |-> 0, at |-> 0] \in M!Events
         /\ [kind |-> "delete", msg |-> m, ver |-> 0, at |-> 0] \in M!Events
         /\ [kind |-> "content", msg |-> m, ver |-> v, at |-> 0] \in M!Events
         /\ [kind |-> "edited", msg |-> m, ver |-> 0, at |-> 2 * now] \in M!Events
         /\ 2 * now \in M!Times /\ 2 * now + 1 \in M!Times /\ 0 \in M!Times /\ 0 \in M!Versions
<1>1. /\ 2 * now \in M!Times /\ 2 * now + 1 \in M!Times /\ 0 \in M!Times
      /\ 0 \in M!Versions
  BY MirrorBounds DEF M!TypeOK, M!Times, M!Versions
<1> QED BY <1>1 DEF M!Events

LEMMA MirrorTypeInit == M!Init => M!TypeOK
<1> SUFFICES ASSUME M!Init PROVE M!TypeOK
  OBVIOUS
<1>1. 0 \in M!Versions /\ 0 \in M!Times /\ 1 \in M!Times /\ now \in 1..MaxTime
  BY MirrorBounds DEF M!Init, M!Versions, M!Times
<1>2. /\ M!Unsent \in M!Originals /\ M!Old \in M!Originals /\ M!NoRow \in M!Rows
      /\ M!NoRead \in M!Reads
      /\ M!Nothing \in M!Heard
  BY <1>1 DEF M!Unsent, M!Old, M!Originals, M!NoRow, M!Rows, M!NoRead, M!Reads,
     M!Nothing, M!Heard
<1>3. journal \in Seq(M!Events)
  BY DEF M!Init
<1> QED BY <1>1, <1>2, <1>3 DEF M!Init, M!TypeOK

LEMMA MirrorTypeStep == M!TypeOK /\ ReadsTakeTurns /\ [M!Next]_(M!vars) => M!TypeOK'
<1> SUFFICES ASSUME M!TypeOK, ReadsTakeTurns, [M!Next]_(M!vars) PROVE M!TypeOK'
  OBVIOUS
<1>0. /\ 0 \in M!Versions /\ 0 \in M!Times /\ 2 * now \in M!Times
      /\ 2 * now + 1 \in M!Times
      /\ now \in Nat
  BY MirrorBounds DEF M!TypeOK, M!Times, M!Versions
<1> USE <1>0
<1>1. CASE M!Tick
  BY <1>1, MirrorBounds DEF M!Tick, M!TypeOK
<1>2. ASSUME NEW m \in Messages, M!TgSend(m) PROVE M!TypeOK'
  <2>1. tg' \in [Messages -> M!Originals]
    BY <1>2 DEF M!TgSend, M!TypeOK, M!Originals
  <2>2. heard' \in [Messages -> M!Heard]
    BY <1>2 DEF M!TgSend, M!TypeOK, M!Heard, M!Journalled
  <2>3. <<[kind |-> "new", msg |-> m, ver |-> 0, at |-> 0]>> \in Seq(M!Events)
    BY DEF M!Events
  <2>4. journal' \in Seq(M!Events) /\ (journal # <<>> => journal' # <<>>)
    BY <1>2, <2>3, Push DEF M!TgSend, M!TypeOK, M!Journalled
  <2> QED BY <1>2, <2>1, <2>2, <2>4 DEF M!TgSend, M!TypeOK
<1>3. ASSUME NEW m \in Messages, M!TgEdit(m) PROVE M!TypeOK'
  <2>0. tg[m].ver + 1 \in M!Versions /\ tg[m] \in M!Originals
    BY <1>3, MirrorBounds DEF M!TgEdit, M!TypeOK, M!Originals, M!Versions
  <2>1. tg' \in [Messages -> M!Originals]
    BY <1>3, <2>0 DEF M!TgEdit, M!TypeOK, M!Originals
  <2>2. heard' \in [Messages -> M!Heard]
    BY <1>3, <2>0 DEF M!TgEdit, M!TypeOK, M!Heard, M!Journalled
  <2> DEFINE c == [kind |-> "content", msg |-> m, ver |-> tg[m].ver + 1, at |-> 0]
             e == [kind |-> "edited", msg |-> m, ver |-> 0, at |-> 2 * now]
  <2>3. c \in M!Events /\ e \in M!Events
    BY <2>0 DEF M!Events
  <2>4. journal' = IF auto THEN journal \o <<c, e>> ELSE journal
    BY <1>3 DEF M!TgEdit, M!Journalled
  <2> HIDE DEF c, e
  <2>5. journal' \in Seq(M!Events) /\ (journal # <<>> => journal' # <<>>)
    BY <2>3, <2>4, Push DEF M!TypeOK
  <2>6. unsure' \in SUBSET Messages
    BY <1>3 DEF M!TgEdit, M!TypeOK
  <2> QED BY <1>3, <2>1, <2>2, <2>5, <2>6 DEF M!TgEdit, M!TypeOK
<1>4. ASSUME NEW m \in Messages, M!TgDelete(m) PROVE M!TypeOK'
  <2>1. tg' \in [Messages -> M!Originals]
    BY <1>4 DEF M!TgDelete, M!TypeOK, M!Originals
  <2>2. heard' \in [Messages -> M!Heard]
    BY <1>4 DEF M!TgDelete, M!TypeOK, M!Heard, M!Journalled
  <2>3. <<[kind |-> "delete", msg |-> m, ver |-> 0, at |-> 0]>> \in Seq(M!Events)
    BY DEF M!Events
  <2>4. journal' \in Seq(M!Events) /\ (journal # <<>> => journal' # <<>>)
    BY <1>4, <2>3, Push DEF M!TgDelete, M!TypeOK, M!Journalled
  <2> QED BY <1>4, <2>1, <2>2, <2>4 DEF M!TgDelete, M!TypeOK
<1>5. CASE M!Process
  <2>1. Head(journal) \in M!Events
    BY <1>5, Pop DEF M!Process, M!TypeOK
  <2>2. rows' \in [Messages -> M!Rows]
    <3> DEFINE e == Head(journal)
    <3>1. e.msg \in Messages /\ e.ver \in M!Versions /\ e.at \in M!Times
      BY <2>1 DEF M!Events
    <3>2. M!Upserted(e.msg, e.ver, e.at) \in [Messages -> M!Rows]
      BY <3>1, UpsertedFact DEF M!TypeOK
    <3>3. [rows EXCEPT ![e.msg].ver = e.ver, ![e.msg].edit = 2 * now + 1] \in [Messages -> M!Rows]
      BY <3>1 DEF M!TypeOK, M!Rows
    <3>4. [rows EXCEPT ![e.msg].edit = e.at] \in [Messages -> M!Rows]
      BY <3>1 DEF M!TypeOK, M!Rows
    <3> QED BY <1>5, <3>2, <3>3, <3>4 DEF M!Process, M!TypeOK, M!Current
  <2>3. tombs' \in SUBSET Messages /\ unsure' \in SUBSET Messages
    BY <1>5, <2>1 DEF M!Process, M!TypeOK, M!Current, M!Events, M!Tombstoned
  <2>4. /\ drain' \in {"apply", "ack"} /\ journal # <<>>
        /\ UNCHANGED <<auto, now, tg, journal, read, heard>>
    BY <1>5 DEF M!Process
  <2> QED BY <2>2, <2>3, <2>4 DEF M!TypeOK
<1>6. CASE M!Apply
  BY <1>6, AppliedFact DEF M!Apply, M!TypeOK
<1>7. CASE M!Ack
  BY <1>7, Pop DEF M!Ack, M!TypeOK
<1>8. CASE M!Retry
  BY <1>8 DEF M!Retry, M!TypeOK
<1>9. CASE M!Restart
  <2>1. M!NoRead \in M!Reads
    BY DEF M!NoRead, M!Reads
  <2> QED BY <1>9, <2>1 DEF M!Restart, M!TypeOK
<1>10. ASSUME NEW r \in Readers, NEW m \in Messages, M!Fetch(r, m) PROVE M!TypeOK'
  <2>1. read' \in [Readers -> M!Reads]
    BY <1>10 DEF M!Fetch, M!TypeOK, M!Reads, M!Originals
  <2> QED BY <1>10, <2>1 DEF M!Fetch, M!TypeOK
<1>11. ASSUME NEW r \in Readers, M!ReadUpsert(r) PROVE M!TypeOK'
  <2>0. read[r].msg \in Messages
    BY <1>11 DEF M!ReadUpsert, ReadsTakeTurns
  <2>1. read' \in [Readers -> M!Reads]
    BY <1>11 DEF M!ReadUpsert, M!TypeOK, M!Reads
  <2>2. read[r].ver \in M!Versions /\ read[r].edit \in M!Times
    BY DEF M!TypeOK, M!Reads
  <2>3. rows' \in [Messages -> M!Rows]
    BY <1>11, <2>0, <2>2, UpsertedFact DEF M!ReadUpsert, M!TypeOK
  <2> QED BY <1>11, <2>1, <2>3 DEF M!ReadUpsert, M!TypeOK
<1>12. ASSUME NEW r \in Readers, M!ReadApply(r) PROVE M!TypeOK'
  <2>1. read' \in [Readers -> M!Reads]
    BY <1>12 DEF M!ReadApply, M!TypeOK, M!Reads, M!NoRead
  <2> QED BY <1>12, <2>1, AppliedFact DEF M!ReadApply, M!TypeOK
<1>13. ASSUME NEW r \in Readers, M!ReadList(r) PROVE M!TypeOK'
  <2>1. read' \in [Readers -> M!Reads]
    BY <1>13 DEF M!ReadList, M!TypeOK, M!Reads
  <2> QED BY <1>13, <2>1 DEF M!ReadList, M!TypeOK
<1>14. ASSUME NEW r \in Readers, M!ReadFails(r) PROVE M!TypeOK'
  <2>1. read' \in [Readers -> M!Reads]
    BY <1>14 DEF M!ReadFails, M!TypeOK, M!Reads, M!NoRead
  <2> QED BY <1>14, <2>1 DEF M!ReadFails, M!TypeOK
<1>15. CASE UNCHANGED M!vars
  BY <1>15 DEF M!vars, M!TypeOK
<1> QED BY <1>1, <1>2, <1>3, <1>4, <1>5, <1>6, <1>7, <1>8, <1>9, <1>10, <1>11,
   <1>12, <1>13, <1>14, <1>15 DEF M!Next

-----------------------------------------------------------------------------
\* What is stored stays stored, and what is deleted stays deleted.
LEMMA Persisted ==
  ASSUME M!TypeOK, ReadsTakeTurns, [M!Next]_(M!vars)
  PROVE  /\ tombs \subseteq tombs'
         /\ \A m \in Messages : rows[m].stored => rows'[m].stored
<1>0. rows \in [Messages -> M!Rows] /\ 0 \in M!Times /\ 0 \in M!Versions
  BY MirrorBounds DEF M!TypeOK, M!Times, M!Versions
<1>1. CASE M!Process
  <2>1. Head(journal) \in M!Events
    BY <1>1, Pop DEF M!Process, M!TypeOK
  <2> DEFINE e == Head(journal)
  <2>2. e.msg \in Messages /\ e.ver \in M!Versions /\ e.at \in M!Times
    BY <2>1 DEF M!Events
  <2>3. \A m \in Messages : rows[m].stored => M!Upserted(e.msg, e.ver, e.at)[m].stored
    BY <2>2, <1>0, UpsertedFact
  <2>4. \A m \in Messages : rows[m].stored => [rows EXCEPT ![e.msg].ver = e.ver, ![e.msg].edit = 2 * now + 1][m].stored
    BY <1>0, <2>2 DEF M!Rows
  <2>5. \A m \in Messages : rows[m].stored => [rows EXCEPT ![e.msg].edit = e.at][m].stored
    BY <1>0, <2>2 DEF M!Rows
  <2>6. tombs \subseteq tombs'
    BY <1>1 DEF M!Process, M!Tombstoned
  <2> QED BY <1>1, <2>3, <2>4, <2>5, <2>6 DEF M!Process, M!Current
<1>2. CASE M!Apply
  BY <1>0, <1>2, AppliedFact DEF M!Apply
<1>3. ASSUME NEW r \in Readers, M!ReadUpsert(r)
      PROVE  tombs' = tombs /\ \A m \in Messages : rows[m].stored => rows'[m].stored
  <2>1. /\ read[r].msg \in Messages /\ read[r].ver \in M!Versions
        /\ read[r].edit \in M!Times
    BY <1>3 DEF M!ReadUpsert, ReadsTakeTurns, M!TypeOK, M!Reads
  <2> QED BY <1>0, <1>3, <2>1, UpsertedFact DEF M!ReadUpsert
<1>4. ASSUME NEW r \in Readers, M!ReadApply(r)
      PROVE  tombs' = tombs /\ \A m \in Messages : rows[m].stored => rows'[m].stored
  BY <1>0, <1>4, AppliedFact DEF M!ReadApply
<1>5. CASE UNCHANGED <<rows, tombs>>
  BY <1>5
<1>6. \/ M!Process \/ M!Apply \/ UNCHANGED <<rows, tombs>>
      \/ \E r \in Readers : M!ReadUpsert(r) \/ M!ReadApply(r)
  BY DEF M!Next, M!vars, M!Tick, M!TgSend, M!TgEdit, M!TgDelete, M!Ack, M!Retry,
     M!Restart, M!Fetch,
         M!ReadList, M!ReadFails
<1> QED BY <1>1, <1>2, <1>3, <1>4, <1>5, <1>6

\* A step of Telegram's: the events it journals.
NewEvent(m) == [kind |-> "new", msg |-> m, ver |-> 0, at |-> 0]
DeleteEvent(m) == [kind |-> "delete", msg |-> m, ver |-> 0, at |-> 0]
ContentEvent(m) == [kind |-> "content", msg |-> m, ver |-> tg[m].ver + 1, at |-> 0]
EditedEvent(m) == [kind |-> "edited", msg |-> m, ver |-> 0, at |-> 2 * now]

Pushed(ev) ==
    /\ ev \in Seq(M!Events)
    /\ DOMAIN journal = 1..Len(journal) /\ Len(journal) \in Nat
    /\ DOMAIN journal' = 1..(Len(journal) + Len(ev))
    /\ \A i \in 1..Len(journal) : journal'[i] = journal[i]
    /\ \A i \in 1..Len(ev) : journal'[Len(journal) + i] = ev[i]

LEMMA PushedFact ==
  ASSUME M!TypeOK, NEW ev \in Seq(M!Events), journal' = journal \o ev
  PROVE  Pushed(ev)
  BY Push DEF M!TypeOK, Pushed

\* In automatic mode it appends one event, or two for an edit; otherwise nothing.
LEMMA SendPushes ==
  ASSUME M!TypeOK, NEW m \in Messages, M!TgSend(m)
  PROVE  (auto /\ Pushed(<<NewEvent(m)>>)) \/ (~auto /\ journal' = journal)
<1>1. NewEvent(m) \in M!Events
  BY EventTypes, MirrorBounds DEF NewEvent, M!Events, M!Versions, M!Times
<1>2. <<NewEvent(m)>> \in Seq(M!Events)
  BY <1>1
<1>3. journal' = IF auto THEN journal \o <<NewEvent(m)>> ELSE journal
  BY DEF M!TgSend, M!Journalled, NewEvent
<1> QED BY <1>2, <1>3, PushedFact

LEMMA DeletePushes ==
  ASSUME M!TypeOK, NEW m \in Messages, M!TgDelete(m)
  PROVE  (auto /\ Pushed(<<DeleteEvent(m)>>)) \/ (~auto /\ journal' = journal)
<1>1. DeleteEvent(m) \in M!Events
  BY EventTypes, MirrorBounds DEF DeleteEvent, M!Events, M!Versions, M!Times
<1>2. <<DeleteEvent(m)>> \in Seq(M!Events)
  BY <1>1
<1>3. journal' = IF auto THEN journal \o <<DeleteEvent(m)>> ELSE journal
  BY DEF M!TgDelete, M!Journalled, DeleteEvent
<1> QED BY <1>2, <1>3, PushedFact

LEMMA EditPushes ==
  ASSUME M!TypeOK, NEW m \in Messages, M!TgEdit(m)
  PROVE  (auto /\ Pushed(<<ContentEvent(m), EditedEvent(m)>>)) \/ (~auto /\ journal' = journal)
<1>0. tg[m].ver + 1 \in M!Versions
  BY MirrorBounds DEF M!TgEdit, M!TypeOK, M!Originals, M!Versions
<1>1. ContentEvent(m) \in M!Events /\ EditedEvent(m) \in M!Events
  BY <1>0, EventTypes DEF ContentEvent, EditedEvent
<1>2. <<ContentEvent(m), EditedEvent(m)>> \in Seq(M!Events)
  BY <1>1
<1>3. journal' = IF auto THEN journal \o <<ContentEvent(m), EditedEvent(m)>> ELSE journal
  BY DEF M!TgEdit, M!Journalled, ContentEvent, EditedEvent
<1> QED BY <1>2, <1>3, PushedFact

\* Acknowledging an update takes it from the head of the journal.
LEMMA AckPops ==
  ASSUME M!TypeOK, M!Ack
  PROVE  /\ DOMAIN journal = 1..Len(journal) /\ Len(journal) \in Nat /\ Len(journal) > 0
         /\ DOMAIN journal' = 1..(Len(journal) - 1)
         /\ \A i \in 1..(Len(journal) - 1) : journal'[i] = journal[i + 1]
  BY Pop DEF M!TypeOK, M!Ack

\* How a step changes the journal.
LEMMA JournalStep ==
  ASSUME M!TypeOK, [M!Next]_(M!vars)
  PROVE  \/ journal' = journal
         \/ M!Ack
         \/ \E m \in Messages : M!TgSend(m) /\ Pushed(<<NewEvent(m)>>)
         \/ \E m \in Messages : M!TgDelete(m) /\ Pushed(<<DeleteEvent(m)>>)
         \/ \E m \in Messages : M!TgEdit(m) /\ Pushed(<<ContentEvent(m), EditedEvent(m)>>)
<1>1. \/ journal' = journal \/ M!Ack
      \/ \E m \in Messages : M!TgSend(m) \/ M!TgDelete(m) \/ M!TgEdit(m)
  BY DEF M!Next, M!vars, M!Tick, M!Process, M!Apply, M!Retry, M!Restart,
     M!Fetch, M!ReadUpsert,
         M!ReadApply, M!ReadList, M!ReadFails
<1> QED BY <1>1, SendPushes, DeletePushes, EditPushes

\* The events a step appends.
LEMMA PushedEvents ==
  ASSUME NEW m \in Messages
  PROVE  /\ Len(<<NewEvent(m)>>) = 1 /\ <<NewEvent(m)>>[1] = NewEvent(m)
         /\ Len(<<DeleteEvent(m)>>) = 1 /\ <<DeleteEvent(m)>>[1] = DeleteEvent(m)
         /\ Len(<<ContentEvent(m), EditedEvent(m)>>) = 2
         /\ <<ContentEvent(m), EditedEvent(m)>>[1] = ContentEvent(m)
         /\ <<ContentEvent(m), EditedEvent(m)>>[2] = EditedEvent(m)
         /\ NewEvent(m).kind = "new" /\ NewEvent(m).msg = m
         /\ NewEvent(m).ver = 0 /\ NewEvent(m).at = 0
         /\ DeleteEvent(m).kind = "delete" /\ DeleteEvent(m).msg = m
         /\ ContentEvent(m).kind = "content" /\ ContentEvent(m).msg = m
         /\ ContentEvent(m).ver = tg[m].ver + 1
         /\ EditedEvent(m).kind = "edited" /\ EditedEvent(m).msg = m
         /\ EditedEvent(m).at = 2 * now
  BY DEF NewEvent, DeleteEvent, ContentEvent, EditedEvent

LEMMA NewsAreFirstKept == M!TypeOK /\ NewsAreFirst /\ [M!Next]_(M!vars) => NewsAreFirst'
<1> SUFFICES ASSUME M!TypeOK, NewsAreFirst, [M!Next]_(M!vars) PROVE NewsAreFirst'
  OBVIOUS
<1> USE DEF NewsAreFirst
<1>1. CASE journal' = journal
  BY <1>1
<1>2. CASE M!Ack
  BY <1>2, AckPops
<1>3. ASSUME NEW m \in Messages, M!TgSend(m), Pushed(<<NewEvent(m)>>)
      PROVE  NewsAreFirst'
  BY <1>3, PushedEvents DEF Pushed
<1>4. ASSUME NEW m \in Messages, M!TgDelete(m), Pushed(<<DeleteEvent(m)>>)
      PROVE  NewsAreFirst'
  BY <1>4, PushedEvents DEF Pushed
<1>5. ASSUME NEW m \in Messages, M!TgEdit(m), Pushed(<<ContentEvent(m), EditedEvent(m)>>)
      PROVE NewsAreFirst'
  <2> SUFFICES ASSUME NEW i \in DOMAIN journal', journal'[i].kind = "new"
               PROVE  journal'[i].ver = 0 /\ journal'[i].at = 0
    OBVIOUS
  <2>1. i \in 1..Len(journal) \/ i = Len(journal) + 1 \/ i = Len(journal) + 2
    BY <1>5, PushedEvents DEF Pushed
  <2> QED BY <1>5, <2>1, PushedEvents DEF Pushed
<1> QED BY <1>1, <1>2, <1>3, <1>4, <1>5, JournalStep

\* What waits in the journal waits until it is acknowledged.
LEMMA AwaitedKept ==
  ASSUME M!TypeOK, [M!Next]_(M!vars), NEW m \in Messages, NEW kinds, M!Awaited(m, kinds)
  PROVE  \/ M!Awaited(m, kinds)'
         \/ M!Ack /\ journal[1].msg = m /\ journal[1].kind \in kinds
<1> USE DEF M!Awaited
<1>0. PICK i \in DOMAIN journal : journal[i].msg = m /\ journal[i].kind \in kinds
  OBVIOUS
<1>1. CASE journal' = journal
  BY <1>0, <1>1
<1>2. CASE M!Ack
  <2>1. CASE i = 1
    BY <1>0, <1>2, <2>1
  <2>2. CASE i # 1
    <3>1. i - 1 \in DOMAIN journal' /\ journal'[i - 1] = journal[i]
      BY <1>0, <1>2, <2>2, AckPops
    <3> QED BY <1>0, <3>1
  <2> QED BY <2>1, <2>2
<1>3. ASSUME NEW n \in Messages, Pushed(<<NewEvent(n)>>) PROVE M!Awaited(m, kinds)'
  BY <1>0, <1>3, PushedEvents DEF Pushed
<1>4. ASSUME NEW n \in Messages, Pushed(<<DeleteEvent(n)>>)
      PROVE  M!Awaited(m, kinds)'
  BY <1>0, <1>4, PushedEvents DEF Pushed
<1>5. ASSUME NEW n \in Messages, Pushed(<<ContentEvent(n), EditedEvent(n)>>)
      PROVE M!Awaited(m, kinds)'
  BY <1>0, <1>5, PushedEvents DEF Pushed
<1> QED BY <1>1, <1>2, <1>3, <1>4, <1>5, JournalStep

\* While RunUpdates is at work on it, the head of the journal stays.
LEMMA HeadKept ==
  ASSUME M!TypeOK, [M!Next]_(M!vars), drain' # "process"
  PROVE  1 \in DOMAIN journal /\ journal'[1] = journal[1] /\ (drain # "process" \/ M!Process)
<1>1. drain # "process" \/ M!Process
  BY DEF M!Next, M!vars, M!Tick, M!TgSend, M!TgEdit, M!TgDelete, M!Apply, M!Ack,
     M!Retry, M!Restart, M!Fetch, M!ReadUpsert,
         M!ReadApply, M!ReadList, M!ReadFails
<1>2. 1 \in DOMAIN journal
  BY <1>1, Pop DEF M!TypeOK, M!Process
<1>3. ~M!Ack
  BY DEF M!Ack
<1>4. \A n \in Messages : \/ Pushed(<<NewEvent(n)>>) \/ Pushed(<<DeleteEvent(n)>>)
                          \/ Pushed(<<ContentEvent(n), EditedEvent(n)>>)
                          => journal'[1] = journal[1]
  BY <1>2 DEF Pushed
<1> QED BY <1>1, <1>2, <1>3, <1>4, JournalStep

\* A step leaves what was processed persisted.
LEMMA HeadIsDoneKept ==
  M!TypeOK /\ ReadsTakeTurns /\ HeadIsDone /\ [M!Next]_(M!vars) => HeadIsDone'
<1> SUFFICES ASSUME M!TypeOK, ReadsTakeTurns, HeadIsDone, [M!Next]_(M!vars), drain' # "process"
             PROVE  /\ journal'[1].kind = "delete" => journal'[1].msg \in tombs'
                    /\ journal'[1].kind = "new" => rows'[journal'[1].msg].stored
  BY DEF HeadIsDone
<1>1. 1 \in DOMAIN journal /\ journal'[1] = journal[1] /\ (drain # "process" \/ M!Process)
  BY HeadKept
<1>2. journal[1] \in M!Events /\ journal # <<>> /\ Head(journal) = journal[1]
  BY <1>1, Pop DEF M!TypeOK
<1>3. /\ journal[1].msg \in Messages /\ journal[1].ver \in M!Versions
      /\ journal[1].at \in M!Times
  BY <1>2 DEF M!Events
<1>4. CASE drain # "process"
  BY <1>1, <1>3, <1>4, Persisted DEF HeadIsDone
<1>5. CASE M!Process
  <2>1. rows \in [Messages -> M!Rows]
    BY DEF M!TypeOK
  <2>2. M!Upserted(journal[1].msg, journal[1].ver, journal[1].at)[journal[1].msg].stored
    BY <1>3, <2>1, UpsertedFact
  <2>3. journal[1].kind = "new" => rows' = M!Upserted(journal[1].msg, journal[1].ver, journal[1].at)
    BY <1>2, <1>5 DEF M!Process, M!Current
  <2>4. journal[1].kind = "delete" => tombs' = tombs \cup {journal[1].msg}
    BY <1>2, <1>5 DEF M!Process, M!Current, M!Tombstoned
  <2> QED BY <1>1, <2>2, <2>3, <2>4
<1> QED BY <1>1, <1>4, <1>5

\* What is journalled of a message, by a step.
LEMMA HeardStep ==
  ASSUME M!TypeOK, [M!Next]_(M!vars), NEW m \in Messages
  PROVE  /\ heard'[m].gone =>
              heard[m].gone \/ (M!TgDelete(m) /\ Pushed(<<DeleteEvent(m)>>))
         /\ heard'[m].new =>
              heard[m].new \/ (M!TgSend(m) /\ Pushed(<<NewEvent(m)>>))
         /\ heard'[m].ver # heard[m].ver =>
              /\ M!TgEdit(m) /\ Pushed(<<ContentEvent(m), EditedEvent(m)>>)
              /\ heard'[m].ver = tg[m].ver + 1
<1>0. heard[m] \in M!Heard /\ heard \in [Messages -> M!Heard]
  BY DEF M!TypeOK
<1>1. CASE heard' = heard
  BY <1>1
<1>2. ASSUME NEW n \in Messages, M!TgSend(n)
      PROVE  /\ heard'[m].gone = heard[m].gone /\ heard'[m].ver = heard[m].ver
             /\ heard'[m].new => heard[m].new \/ (n = m /\ Pushed(<<NewEvent(m)>>))
  BY <1>0, <1>2, SendPushes DEF M!TgSend, M!Journalled, M!Heard
<1>3. ASSUME NEW n \in Messages, M!TgDelete(n)
      PROVE  /\ heard'[m].new = heard[m].new /\ heard'[m].ver = heard[m].ver
             /\ heard'[m].gone => heard[m].gone \/ (n = m /\ Pushed(<<DeleteEvent(m)>>))
  BY <1>0, <1>3, DeletePushes DEF M!TgDelete, M!Journalled, M!Heard
<1>4. ASSUME NEW n \in Messages, M!TgEdit(n)
      PROVE  /\ heard'[m].new = heard[m].new /\ heard'[m].gone = heard[m].gone
             /\ heard'[m].ver # heard[m].ver =>
                  /\ n = m /\ Pushed(<<ContentEvent(m), EditedEvent(m)>>)
                  /\ heard'[m].ver = tg[m].ver + 1
  BY <1>0, <1>4, EditPushes DEF M!TgEdit, M!Journalled, M!Heard
<1>5. heard' = heard \/ \E n \in Messages : M!TgSend(n) \/ M!TgDelete(n) \/ M!TgEdit(n)
  BY DEF M!Next, M!vars, M!Tick, M!Process, M!Apply, M!Ack, M!Retry, M!Restart,
     M!Fetch, M!ReadUpsert,
         M!ReadApply, M!ReadList, M!ReadFails
<1> QED BY <1>1, <1>2, <1>3, <1>4, <1>5

\* A deletion waits in the journal or has its tombstone.
LEMMA DeletionsKept ==
  M!TypeOK /\ ReadsTakeTurns /\ HeadIsDone /\ GoneIsTombed /\ [M!Next]_(M!vars) => GoneIsTombed'
<1> SUFFICES ASSUME M!TypeOK, ReadsTakeTurns, HeadIsDone, GoneIsTombed, [M!Next]_(M!vars),
                    NEW m \in Messages, heard'[m].gone, m \notin tombs'
             PROVE  M!Awaited(m, {"delete"})'
  BY DEF GoneIsTombed
<1>1. m \notin tombs
  BY Persisted
<1>2. CASE heard[m].gone
  <2>1. M!Awaited(m, {"delete"})
    BY <1>1, <1>2 DEF GoneIsTombed
  <2>2. ~(M!Ack /\ journal[1].msg = m /\ journal[1].kind \in {"delete"})
    BY <1>1 DEF M!Ack, HeadIsDone
  <2> QED BY <2>1, <2>2, AwaitedKept
<1>3. CASE Pushed(<<DeleteEvent(m)>>)
  BY <1>3, PushedEvents DEF Pushed, M!Awaited
<1> QED BY <1>2, <1>3, HeardStep

\* A new message waits in the journal or has its row.
LEMMA NewIsStoredKept ==
  M!TypeOK /\ ReadsTakeTurns /\ HeadIsDone /\ M!NewIsStored /\ [M!Next]_(M!vars) => M!NewIsStored'
<1> SUFFICES ASSUME M!TypeOK, ReadsTakeTurns, HeadIsDone, M!NewIsStored, [M!Next]_(M!vars),
                    NEW m \in Messages, heard'[m].new, ~rows'[m].stored
             PROVE  M!Awaited(m, {"new"})'
  BY DEF M!NewIsStored
<1>1. ~rows[m].stored
  BY Persisted
<1>2. CASE heard[m].new
  <2>1. M!Awaited(m, {"new"})
    BY <1>1, <1>2 DEF M!NewIsStored
  <2>2. ~(M!Ack /\ journal[1].msg = m /\ journal[1].kind \in {"new"})
    BY <1>1 DEF M!Ack, HeadIsDone
  <2> QED BY <2>1, <2>2, AwaitedKept
<1>3. CASE Pushed(<<NewEvent(m)>>)
  BY <1>3, PushedEvents DEF Pushed, M!Awaited
<1> QED BY <1>2, <1>3, HeardStep

LEMMA NewsComeFirstKept ==
  ASSUME M!TypeOK, ReadsTakeTurns, HeadIsDone, UnsentIsUnknown, M!NewIsStored,
         NewsComeFirst, [M!Next]_(M!vars)
  PROVE  NewsComeFirst'
<1> SUFFICES ASSUME NEW m \in Messages, NEW i \in DOMAIN journal', heard'[m].new,
                    journal'[i].msg = m, journal'[i].kind = "content",
                    ~rows'[m].stored
             PROVE  \E j \in 1..(i - 1) : Is(j, m, "new")'
  BY DEF NewsComeFirst, Is
<1>1. ~rows[m].stored
  BY Persisted
<1>2. heard[m].new
  <2> SUFFICES ASSUME M!TgSend(m), Pushed(<<NewEvent(m)>>) PROVE FALSE
    BY HeardStep
  <2>1. \A k \in DOMAIN journal : journal[k].msg # m
    BY DEF M!TgSend, UnsentIsUnknown, M!Unsent
  <2> QED BY <2>1, PushedEvents DEF Pushed
<1>3. ASSUME NEW k \in DOMAIN journal, journal[k].msg = m, journal[k].kind = "content"
      PROVE  \E j \in 1..(k - 1) : journal[j].msg = m /\ journal[j].kind = "new"
  BY <1>1, <1>2, <1>3 DEF NewsComeFirst, Is
<1>4. CASE journal' = journal
  BY <1>3, <1>4 DEF Is
<1>5. CASE M!Ack
  <2>1. /\ i \in 1..(Len(journal) - 1) /\ i + 1 \in DOMAIN journal
        /\ journal'[i] = journal[i + 1]
        /\ Len(journal) \in Nat
    BY <1>5, AckPops
  <2>2. PICK j \in 1..i : journal[j].msg = m /\ journal[j].kind = "new"
    BY <1>3, <2>1
  <2>3. j # 1
    BY <1>1, <1>5, <2>2 DEF M!Ack, HeadIsDone
  <2>4. j - 1 \in 1..(i - 1) /\ journal'[j - 1] = journal[j]
    BY <1>5, <2>1, <2>3, AckPops
  <2> QED BY <2>2, <2>4 DEF Is
<1>6. ASSUME NEW ev, Pushed(ev), i <= Len(journal)
      PROVE  \E j \in 1..(i - 1) : Is(j, m, "new")'
  BY <1>3, <1>6 DEF Is, Pushed
<1>7. ASSUME NEW n \in Messages, M!TgSend(n), Pushed(<<NewEvent(n)>>)
      PROVE  i <= Len(journal)
  BY <1>7, PushedEvents DEF Pushed
<1>8. ASSUME NEW n \in Messages, M!TgDelete(n), Pushed(<<DeleteEvent(n)>>)
      PROVE  i <= Len(journal)
  BY <1>8, PushedEvents DEF Pushed
<1>9. ASSUME NEW n \in Messages, M!TgEdit(n), Pushed(<<ContentEvent(n), EditedEvent(n)>>),
             ~(i <= Len(journal))
      PROVE  \E j \in 1..(i - 1) : Is(j, m, "new")'
  <2>1. PICK j \in DOMAIN journal : journal[j].msg = m /\ journal[j].kind = "new"
    BY <1>1, <1>2 DEF M!NewIsStored, M!Awaited
  <2>2. j \in 1..(i - 1) /\ journal'[j] = journal[j]
    BY <1>9 DEF Pushed
  <2> QED BY <2>1, <2>2 DEF Is
<1> QED BY <1>4, <1>5, <1>6, <1>7, <1>8, <1>9, JournalStep

-----------------------------------------------------------------------------
LEMMA UnsentKept ==
  ASSUME M!TypeOK, ReadsTakeTurns, UnsentIsUnknown, [M!Next]_(M!vars)
  PROVE  UnsentIsUnknown'
<1> SUFFICES ASSUME NEW m \in Messages, tg'[m].state = "none"
             PROVE  /\ tg'[m] = M!Unsent
                    /\ ~rows'[m].stored /\ rows'[m].edit = 0 /\ heard'[m] = M!Nothing
                    /\ \A i \in DOMAIN journal' : journal'[i].msg # m
                    /\ \A r \in Readers : read'[r].msg # m
  BY DEF UnsentIsUnknown
<1>1. tg'[m] = tg[m] /\ \A n \in Messages : M!TgSend(n) \/ M!TgDelete(n) \/ M!TgEdit(n) => n # m
  <2>1. tg' = tg \/ \E n \in Messages : M!TgSend(n) \/ M!TgDelete(n) \/ M!TgEdit(n)
    BY DEF M!Next, M!vars, M!Tick, M!Process, M!Apply, M!Ack, M!Retry,
       M!Restart, M!Fetch, M!ReadUpsert,
           M!ReadApply, M!ReadList, M!ReadFails
  <2>2. ASSUME NEW n \in Messages, M!TgSend(n) PROVE n # m /\ tg'[m] = tg[m]
    BY <2>2 DEF M!TgSend, M!TypeOK
  <2>3. ASSUME NEW n \in Messages, M!TgDelete(n) PROVE n # m /\ tg'[m] = tg[m]
    BY <2>3 DEF M!TgDelete, M!TypeOK, M!Originals
  <2>4. ASSUME NEW n \in Messages, M!TgEdit(n) PROVE n # m /\ tg'[m] = tg[m]
    <3>1. tg'[n].state = tg[n].state /\ \A k \in Messages : k # n => tg'[k] = tg[k]
      BY <2>4 DEF M!TgEdit, M!TypeOK, M!Originals
    <3> QED BY <2>4, <3>1 DEF M!TgEdit
  <2> QED BY <2>1, <2>2, <2>3, <2>4
<1>2. /\ tg[m] = M!Unsent /\ tg[m].state = "none"
      /\ ~rows[m].stored /\ rows[m].edit = 0 /\ heard[m] = M!Nothing
      /\ \A i \in DOMAIN journal : journal[i].msg # m
      /\ \A r \in Readers : read[r].msg # m
  BY <1>1 DEF UnsentIsUnknown
<1>3. \A i \in DOMAIN journal' : journal'[i].msg # m
  <2>1. CASE M!Ack
    BY <1>2, <2>1, AckPops
  <2>2. ASSUME NEW n \in Messages, M!TgSend(n), Pushed(<<NewEvent(n)>>)
        PROVE  \A i \in DOMAIN journal' : journal'[i].msg # m
    BY <1>1, <1>2, <2>2, PushedEvents DEF Pushed
  <2>3. ASSUME NEW n \in Messages, M!TgDelete(n), Pushed(<<DeleteEvent(n)>>)
        PROVE  \A i \in DOMAIN journal' : journal'[i].msg # m
    BY <1>1, <1>2, <2>3, PushedEvents DEF Pushed
  <2>4. ASSUME NEW n \in Messages, M!TgEdit(n), Pushed(<<ContentEvent(n), EditedEvent(n)>>),
               NEW i \in DOMAIN journal'
        PROVE  journal'[i].msg # m
    <3>1. i \in 1..Len(journal) \/ i = Len(journal) + 1 \/ i = Len(journal) + 2
      BY <2>4, PushedEvents DEF Pushed
    <3> QED BY <1>1, <1>2, <2>4, <3>1, PushedEvents DEF Pushed
  <2> QED BY <1>2, <2>1, <2>2, <2>3, <2>4, JournalStep
<1>4. heard'[m] = heard[m]
  <2>1. heard' = heard \/ \E n \in Messages : M!TgSend(n) \/ M!TgDelete(n) \/ M!TgEdit(n)
    BY DEF M!Next, M!vars, M!Tick, M!Process, M!Apply, M!Ack, M!Retry,
       M!Restart, M!Fetch, M!ReadUpsert,
           M!ReadApply, M!ReadList, M!ReadFails
  <2>2. ASSUME NEW n \in Messages, M!TgSend(n) \/ M!TgDelete(n) \/ M!TgEdit(n)
        PROVE  heard'[m] = heard[m]
    BY <1>1, <2>2 DEF M!TgSend, M!TgDelete, M!TgEdit, M!Journalled, M!TypeOK
  <2> QED BY <2>1, <2>2
<1>5. \A r \in Readers : read'[r].msg # m
  <2>1. ASSUME NEW r \in Readers, NEW n \in Messages, M!Fetch(r, n)
        PROVE  \A q \in Readers : read'[q].msg # m
    BY <1>2, <2>1 DEF M!Fetch, M!TypeOK
  <2>2. ASSUME NEW r \in Readers, M!ReadUpsert(r)
        PROVE  \A q \in Readers : read'[q].msg # m
    BY <1>2, <2>2 DEF M!ReadUpsert, M!TypeOK, M!Reads
  <2>3. ASSUME NEW r \in Readers, M!ReadApply(r)
        PROVE  \A q \in Readers : read'[q].msg # m
    BY <1>2, <2>3, MirrorBounds DEF M!ReadApply, M!TypeOK, M!Reads, M!NoRead
  <2>4. ASSUME NEW r \in Readers, M!ReadList(r)
        PROVE  \A q \in Readers : read'[q].msg # m
    BY <1>2, <2>4 DEF M!ReadList, M!TypeOK, M!Reads
  <2>5. ASSUME NEW r \in Readers, M!ReadFails(r)
        PROVE  \A q \in Readers : read'[q].msg # m
    BY <1>2, <2>5, MirrorBounds DEF M!ReadFails, M!TypeOK, M!Reads, M!NoRead
  <2>6. CASE M!Restart
    BY <2>6, MirrorBounds DEF M!Restart, M!NoRead
  <2>7. \/ read' = read \/ M!Restart
        \/ \E r \in Readers : \/ \E n \in Messages : M!Fetch(r, n)
                              \/ M!ReadUpsert(r) \/ M!ReadApply(r) \/ M!ReadList(r) \/ M!ReadFails(r)
    BY DEF M!Next, M!vars, M!Tick, M!TgSend, M!TgEdit, M!TgDelete, M!Process,
       M!Apply, M!Ack, M!Retry
  <2> QED BY <1>2, <2>1, <2>2, <2>3, <2>4, <2>5, <2>6, <2>7
<1>6. rows'[m].stored = rows[m].stored /\ rows'[m].edit = rows[m].edit
  <2>1. CASE M!Process
    <3>1. /\ Head(journal) \in M!Events /\ 1 \in DOMAIN journal
          /\ Head(journal) = journal[1]
      BY <2>1, Pop DEF M!Process, M!TypeOK
    <3>2. Head(journal).msg # m
      BY <1>2, <3>1
    <3>3. /\ Head(journal).msg \in Messages /\ Head(journal).ver \in M!Versions
          /\ Head(journal).at \in M!Times
      BY <3>1 DEF M!Events
    <3>4. M!Upserted(Head(journal).msg, Head(journal).ver, Head(journal).at)[m] = rows[m]
      BY <3>2, <3>3, UpsertedFact DEF M!TypeOK
    <3> QED BY <2>1, <3>2, <3>3, <3>4 DEF M!Process, M!Current, M!TypeOK
  <2>2. M!Applied[m].stored = rows[m].stored /\ M!Applied[m].edit = rows[m].edit
    BY AppliedFact DEF M!TypeOK
  <2>3. ASSUME NEW r \in Readers, M!ReadUpsert(r) PROVE rows'[m] = rows[m]
    <3>1. /\ read[r].msg \in Messages /\ read[r].ver \in M!Versions
          /\ read[r].edit \in M!Times
      BY <2>3 DEF M!ReadUpsert, ReadsTakeTurns, M!TypeOK, M!Reads
    <3> QED BY <1>2, <2>3, <3>1, UpsertedFact DEF M!ReadUpsert, M!TypeOK
  <2>4. rows' = rows \/ M!Process \/ rows' = M!Applied \/ \E r \in Readers : M!ReadUpsert(r)
    BY DEF M!Next, M!vars, M!Tick, M!TgSend, M!TgEdit, M!TgDelete, M!Apply,
       M!Ack, M!Retry, M!Restart, M!Fetch,
           M!ReadApply, M!ReadList, M!ReadFails
  <2> QED BY <2>1, <2>2, <2>3, <2>4
<1> QED BY <1>1, <1>2, <1>3, <1>4, <1>5, <1>6

-----------------------------------------------------------------------------
\* A read holds a version Telegram has, or had.
LEMMA ReadIsPast ==
  ASSUME VersionsOrdered, NEW r \in Readers, read[r].msg \in Messages
  PROVE  read[r].ver <= tg[read[r].msg].ver
  BY DEF VersionsOrdered, Ordered, Dated

LEMMA TurnsKept ==
  ASSUME M!TypeOK, ReadsTakeTurns, VersionsOrdered, [M!Next]_(M!vars)
  PROVE  ReadsTakeTurns'
<1>0. read \in [Readers -> M!Reads]
  BY DEF M!TypeOK
<1>1. CASE UNCHANGED <<read, auto>>
  BY <1>1 DEF ReadsTakeTurns
<1>2. ASSUME NEW r \in Readers, NEW m \in Messages, M!Fetch(r, m)
      PROVE  ReadsTakeTurns'
  <2>1. /\ read'[r].step = "upsert" /\ read'[r].msg = m /\ read'[r].ver = tg[m].ver
        /\ \A s \in Readers : s # r => read'[s] = read[s]
        /\ auto' = auto
    BY <1>0, <1>2 DEF M!Fetch
  <2>2. ~auto => \A s \in Readers : read[s].step \notin {"upsert", "apply"}
    BY <1>2 DEF M!Fetch, M!Turn
  <2>3. \A s \in Readers : read[s].msg = m => read[s].ver <= tg[m].ver
    BY ReadIsPast
  <2> QED BY <2>1, <2>2, <2>3 DEF ReadsTakeTurns
<1>3. ASSUME NEW r \in Readers, M!ReadUpsert(r) PROVE ReadsTakeTurns'
  <2>1. /\ read'[r].step = "apply" /\ read'[r].msg = read[r].msg
        /\ \A s \in Readers : s # r => read'[s] = read[s]
        /\ auto' = auto /\ read[r].step = "upsert"
    BY <1>0, <1>3 DEF M!ReadUpsert, M!Reads
  <2> QED BY <2>1 DEF ReadsTakeTurns
<1>4. ASSUME NEW r \in Readers, M!ReadApply(r) PROVE ReadsTakeTurns'
  <2>1. /\ read'[r].step \in {"idle", "list"} /\ (auto => read'[r].step = "idle")
        /\ ~auto => read'[r].msg = read[r].msg /\ read'[r].ver = read[r].ver
        /\ \A s \in Readers : s # r => read'[s] = read[s]
        /\ auto' = auto /\ read[r].step = "apply"
    BY <1>0, <1>4 DEF M!ReadApply, M!Reads, M!NoRead
  <2>2. \A s \in Readers : s # r => read'[s] = read[s]
    BY <2>1
  <2>3. \A s \in Readers : read'[s].step # "idle" => read'[s].msg \in Messages
    BY <2>1 DEF ReadsTakeTurns
  <2>4. auto' => \A s \in Readers : read'[s].step # "list"
    BY <2>1, <2>2 DEF ReadsTakeTurns
  <2>5. ASSUME ~auto', NEW p \in Readers, NEW s \in Readers
        PROVE  /\ {read'[p].step, read'[s].step} \subseteq {"upsert", "apply"} => p = s
               /\ /\ read'[p].step = "upsert" /\ read'[s].step = "list"
                  /\ read'[s].msg = read'[p].msg
                  => read'[s].ver <= read'[p].ver
    BY <2>1, <2>2, <2>5 DEF ReadsTakeTurns
  <2> QED BY <2>3, <2>4, <2>5 DEF ReadsTakeTurns
<1>5. ASSUME NEW r \in Readers, M!ReadList(r) PROVE ReadsTakeTurns'
  <2>1. /\ read'[r].step \in {"idle", "told"} /\ read'[r].msg = read[r].msg
        /\ \A s \in Readers : s # r => read'[s] = read[s]
        /\ auto' = auto /\ read[r].step = "list"
    BY <1>0, <1>5 DEF M!ReadList, M!Reads
  <2> QED BY <2>1 DEF ReadsTakeTurns
<1>6. ASSUME NEW r \in Readers, M!ReadFails(r) PROVE ReadsTakeTurns'
  <2>1. /\ read'[r].step = "idle"
        /\ \A s \in Readers : s # r => read'[s] = read[s]
        /\ auto' = auto
    BY <1>0, <1>6 DEF M!ReadFails, M!NoRead
  <2>2. \A s \in Readers : read'[s].step # "idle" => s # r /\ read'[s] = read[s]
    BY <2>1
  <2>3. \A s \in Readers : read'[s].step # "idle" => read'[s].msg \in Messages
    BY <2>2 DEF ReadsTakeTurns
  <2>4. auto' => \A s \in Readers : read'[s].step # "list"
    BY <2>1, <2>2 DEF ReadsTakeTurns
  <2>5. ASSUME ~auto', NEW p \in Readers, NEW s \in Readers
        PROVE  /\ {read'[p].step, read'[s].step} \subseteq {"upsert", "apply"} => p = s
               /\ /\ read'[p].step = "upsert" /\ read'[s].step = "list"
                  /\ read'[s].msg = read'[p].msg
                  => read'[s].ver <= read'[p].ver
    BY <2>1, <2>2, <2>5 DEF ReadsTakeTurns
  <2> QED BY <2>3, <2>4, <2>5 DEF ReadsTakeTurns
<1>7. CASE M!Restart
  <2>1. \A s \in Readers : read'[s].step = "idle"
    BY <1>7 DEF M!Restart, M!NoRead
  <2> QED BY <2>1 DEF ReadsTakeTurns
<1>8. \/ UNCHANGED <<read, auto>> \/ M!Restart
      \/ \E r \in Readers : \/ \E n \in Messages : M!Fetch(r, n)
                            \/ M!ReadUpsert(r) \/ M!ReadApply(r) \/ M!ReadList(r) \/ M!ReadFails(r)
  BY DEF M!Next, M!vars, M!Tick, M!TgSend, M!TgEdit, M!TgDelete, M!Process,
     M!Apply, M!Ack, M!Retry
<1> QED BY <1>1, <1>2, <1>3, <1>4, <1>5, <1>6, <1>7, <1>8

-----------------------------------------------------------------------------
(* The order of a message's versions, step by step.                        *)

\* A step neither adds a version of m nor journals anything more of it that
\* matters to the order.
Calm(m) ==
    /\ tg'[m].ver = tg[m].ver /\ tg'[m].sent = tg[m].sent /\ tg'[m].edit = tg[m].edit
    /\ now <= now' /\ (m \in unsure => m \in unsure')
    /\ heard'[m].ver = heard[m].ver /\ (heard'[m].new => heard[m].new)

\* A read of m holds what it held, or Telegram's version.
ReadsDated(m) ==
    \A r \in Readers :
        read'[r].msg = m =>
            \/ /\ read[r].msg = m
               /\ read'[r].ver = read[r].ver /\ read'[r].edit = read[r].edit
            \/ read'[r].ver = tg[m].ver /\ read'[r].edit = tg[m].edit

\* A read of m that has stored what it holds had done so before.
ReadsListed(m) ==
    ~auto' => \A r \in Readers :
        read'[r].msg = m /\ read'[r].step \in {"apply", "list"} =>
            /\ ~auto /\ read[r].msg = m /\ read[r].step \in {"apply", "list"}
            /\ read'[r].ver = read[r].ver

RowSame(m) ==
    /\ rows'[m].stored = rows[m].stored
    /\ rows'[m].ver = rows[m].ver /\ rows'[m].edit = rows[m].edit

\* No edit of m is added to the journal, and nothing taken from it.
JournalSame(m) ==
    /\ DOMAIN journal = 1..Len(journal) /\ Len(journal) \in Nat
    /\ DOMAIN journal \subseteq DOMAIN journal'
    /\ \A i \in DOMAIN journal : journal'[i] = journal[i]
    /\ \A i \in DOMAIN journal' :
         Is(i, m, "content")' \/ Is(i, m, "edited")' => i \in DOMAIN journal

HeadSame(m) == drain' # "process" /\ Is(1, m, "content")' => drain # "process"

LEMMA DateTypes ==
  ASSUME M!TypeOK, NEW m \in Messages, NEW D \in [M!Versions -> M!Times]
  PROVE  /\ tg[m].ver \in Nat /\ tg[m].ver \in M!Versions
         /\ tg[m].sent \in Nat /\ tg[m].edit \in Nat /\ tg[m].edit \in M!Times
         /\ 0..tg[m].ver \subseteq M!Versions
         /\ \A v \in M!Versions : v \in Nat /\ D[v] \in Nat /\ D[v] \in M!Times
         /\ \A e \in M!Times : e \in Nat /\ M!Age(m, e) \in Nat
         /\ now \in Nat
         /\ rows[m].ver \in M!Versions /\ rows[m].edit \in M!Times /\ rows[m].stored \in BOOLEAN
         /\ \A r \in Readers : read[r].ver \in M!Versions /\ read[r].edit \in M!Times
<1>1. tg[m] \in M!Originals /\ rows[m] \in M!Rows /\ \A r \in Readers : read[r] \in M!Reads
  BY DEF M!TypeOK
<1>2. \A v \in M!Versions : v \in Nat
  BY MirrorBounds DEF M!Versions
<1>3. \A e \in M!Times : e \in Nat
  BY MirrorBounds DEF M!Times
<1>4. 0..tg[m].ver \subseteq M!Versions
  BY <1>1, MirrorBounds DEF M!Originals, M!Versions
<1>5. now \in Nat
  BY MirrorBounds DEF M!TypeOK
<1> QED BY <1>1, <1>2, <1>3, <1>4, <1>5 DEF M!Originals, M!Rows, M!Reads, M!Age

LEMMA DatedKept ==
  ASSUME M!TypeOK, NEW m \in Messages, NEW D \in [M!Versions -> M!Times], Dated(m, D),
         now' \in Nat, Calm(m), ReadsDated(m)
  PROVE  Dated(m, D)'
<1>1. \A e : M!Age(m, e)' = M!Age(m, e)
  BY DEF M!Age, Calm
<1>2. D[tg'[m].ver] <= 2 * now'
  BY DateTypes DEF Dated, Calm
<1>3. /\ D[0] = tg'[m].sent /\ D[tg'[m].ver] = M!Age(m, tg'[m].edit)
      /\ \A u, v \in 0..tg'[m].ver : u < v => D[u] <= D[v]
      /\ m \notin unsure' => \A u, v \in 0..tg'[m].ver : u < v => D[u] < D[v]
  BY DEF Dated, Calm
<1>4. ASSUME NEW r \in Readers, read'[r].msg = m
      PROVE  read'[r].ver <= tg'[m].ver /\ M!Age(m, read'[r].edit) = D[read'[r].ver]
  BY <1>4, DateTypes DEF Dated, Calm, ReadsDated
<1> QED BY <1>1, <1>2, <1>3, <1>4 DEF Dated

LEMMA RowKept ==
  ASSUME NEW m \in Messages, NEW D, Calm(m), RowSame(m)
  PROVE  /\ RowDated(m, D) => RowDated(m, D)'
         /\ \A P : RowSeen(m, D, P) => RowSeen(m, D, P)'
<1>1. M!Age(m, rows[m].edit)' = M!Age(m, rows[m].edit)
  BY DEF M!Age, Calm, RowSame
<1> QED BY <1>1 DEF RowDated, RowSeen, RowSame, Calm

LEMMA QuietKept ==
  ASSUME NEW m \in Messages, NEW D, QuietRow(m, D), JournalSame(m),
         RowDated(m, D)', RowListed(m)'
  PROVE  QuietRow(m, D)'
  BY DEF QuietRow, JournalSame, Is

LEMMA SeenKept ==
  ASSUME NEW m \in Messages, NEW D, NEW P, HasSeen(m, D, P), M!TypeOK,
         Calm(m), JournalSame(m), HeadSame(m), RowSeen(m, D, P)'
  PROVE  HasSeen(m, D, P)'
<1>1. P <= tg'[m].ver
  BY DEF HasSeen, Calm
<1>2. LastEdit(m, P)'
  <2>1. CASE heard[m].ver = P /\ \A i \in DOMAIN journal : ~Is(i, m, "content")
    BY <2>1 DEF LastEdit, Calm, JournalSame, Is
  <2>2. ASSUME NEW i \in DOMAIN journal, Is(i, m, "content"), journal[i].ver = heard[m].ver,
               \A k \in DOMAIN journal : k > i => ~Is(k, m, "content")
        PROVE  LastEdit(m, P)'
    <3>1. /\ i \in DOMAIN journal' /\ Is(i, m, "content")'
          /\ journal'[i].ver = heard'[m].ver
      BY <2>2 DEF JournalSame, Is, Calm
    <3>2. \A k \in DOMAIN journal' : k > i => ~Is(k, m, "content")'
      BY <2>2 DEF JournalSame, Is
    <3> QED BY <3>1, <3>2 DEF LastEdit
  <2> QED BY <2>1, <2>2 DEF HasSeen, LastEdit
<1>3. \A i \in DOMAIN journal' : Is(i, m, "content")' => journal'[i].ver <= tg'[m].ver
  BY DEF HasSeen, JournalSame, Calm, Is
<1>4. ASSUME NEW i \in DOMAIN journal', Is(i, m, "edited")'
      PROVE  /\ journal'[i].at >= D[P]
             /\ \A j \in 1..(i - 1) :
                  Is(j, m, "content")' => journal'[i].at >= D[journal'[j].ver]
  <2>1. i \in DOMAIN journal /\ journal'[i] = journal[i]
    BY <1>4 DEF JournalSame
  <2>2. \A j \in 1..(i - 1) : j \in DOMAIN journal /\ journal'[j] = journal[j]
    BY <2>1 DEF JournalSame
  <2> QED BY <1>4, <2>1, <2>2 DEF HasSeen, Is
<1>5. drain' # "process" /\ Is(1, m, "content")' => journal'[1].ver = P
  <2>1. drain # "process" => 1 \in DOMAIN journal
    BY Pop DEF M!TypeOK
  <2> QED BY <2>1 DEF HasSeen, HeadSame, JournalSame, Is
<1> QED BY <1>1, <1>2, <1>3, <1>4, <1>5 DEF HasSeen

LEMMA CalmOrdered ==
  ASSUME M!TypeOK, NEW m \in Messages, NEW D \in [M!Versions -> M!Times], Ordered(m, D),
         now' \in Nat, Calm(m), ReadsDated(m), ReadsListed(m), RowSame(m),
         JournalSame(m), HeadSame(m)
  PROVE  Ordered(m, D)'
<1>1. Dated(m, D)'
  BY DatedKept DEF Ordered
<1>2. ASSUME Quiet(m)' PROVE QuietRow(m, D)'
  <2>1. QuietRow(m, D)
    BY <1>2 DEF Ordered, Quiet, Calm
  <2>2. RowDated(m, D)'
    BY <2>1, RowKept DEF QuietRow
  <2>3. RowListed(m)'
    BY <2>1 DEF QuietRow, RowListed, RowSame, ReadsListed
  <2> QED BY <2>1, <2>2, <2>3, QuietKept
<1>3. ASSUME Tracked(m)' PROVE \E P \in M!Versions : HasSeen(m, D, P)'
  <2>1. Tracked(m)
    BY <1>3 DEF Tracked, Calm
  <2>2. PICK P \in M!Versions : HasSeen(m, D, P)
    BY <2>1 DEF Ordered
  <2>3. RowSeen(m, D, P)'
    BY <2>2, RowKept DEF HasSeen
  <2> QED BY <2>2, <2>3, SeenKept
<1> QED BY <1>1, <1>2, <1>3 DEF Ordered

\* Upsert keeps the order: of two versions with their times the later one stays.
LEMMA UpsertOrdered ==
  ASSUME M!TypeOK, NEW m \in Messages, NEW D \in [M!Versions -> M!Times], Dated(m, D),
         NEW u \in M!Versions, u <= tg[m].ver, NEW a \in M!Times, M!Age(m, a) = D[u]
  PROVE  LET row == M!Upserted(m, u, a)[m] IN
         /\ row.stored
         /\ RowDated(m, D) => /\ row.ver <= tg[m].ver /\ M!Age(m, row.edit) = D[row.ver]
                              /\ row.ver >= u
         /\ m \notin unsure =>
              \A P \in 0..tg[m].ver :
                RowSeen(m, D, P) => row.ver >= P /\ M!Age(m, row.edit) >= D[P]
<1> DEFINE row == M!Upserted(m, u, a)[m]
<1>1. /\ row.stored
      /\ row.ver = IF ~rows[m].stored \/ M!Age(m, a) >= M!Age(m, rows[m].edit)
                   THEN u ELSE rows[m].ver
      /\ row.edit = IF a > rows[m].edit THEN a ELSE rows[m].edit
  BY UpsertedFact DEF M!TypeOK
<1> HIDE DEF row
<1>2. /\ tg[m].ver \in Nat /\ tg[m].sent \in Nat /\ 0..tg[m].ver \subseteq M!Versions
      /\ \A v \in M!Versions : v \in Nat /\ D[v] \in Nat
      /\ rows[m].ver \in Nat /\ rows[m].edit \in Nat /\ rows[m].stored \in BOOLEAN
      /\ u \in Nat /\ a \in Nat /\ 0 \in 0..tg[m].ver /\ u \in 0..tg[m].ver
  BY DateTypes
<1>3. \A v \in 0..tg[m].ver : D[0] <= D[v]
  BY <1>2 DEF Dated
<1>4. D[0] = tg[m].sent
  BY DEF Dated
<1>5. ASSUME RowDated(m, D)
      PROVE  /\ row.ver <= tg[m].ver /\ M!Age(m, row.edit) = D[row.ver]
             /\ row.ver >= u
  <2>1. CASE ~rows[m].stored
    BY <1>1, <1>2, <1>3, <1>4, <1>5, <2>1 DEF RowDated, M!Age
  <2>2. CASE rows[m].stored /\ M!Age(m, a) >= M!Age(m, rows[m].edit)
    <3>1. M!Age(m, rows[m].edit) = D[rows[m].ver] /\ rows[m].ver \in 0..tg[m].ver
      BY <1>2, <1>5, <2>2 DEF RowDated
    <3>2. D[rows[m].ver] <= D[u] /\ D[0] <= D[rows[m].ver] /\ row.ver = u
      BY <1>1, <1>3, <2>2, <3>1
    <3>3. M!Age(m, row.edit) = D[u]
      BY <1>1, <1>2, <1>4, <3>1, <3>2 DEF M!Age
    <3> QED BY <1>2, <3>2, <3>3
  <2>3. CASE rows[m].stored /\ ~(M!Age(m, a) >= M!Age(m, rows[m].edit))
    <3>1. M!Age(m, rows[m].edit) = D[rows[m].ver] /\ rows[m].ver \in 0..tg[m].ver
      BY <1>2, <1>5, <2>3 DEF RowDated
    <3>2. D[u] < D[rows[m].ver] /\ D[0] <= D[u] /\ row.ver = rows[m].ver
      BY <1>1, <1>2, <1>3, <2>3, <3>1
    <3>3. row.edit = rows[m].edit
      BY <1>1, <1>2, <1>4, <3>1, <3>2 DEF M!Age
    <3>4. u <= rows[m].ver
      <4>1. rows[m].ver < u => D[rows[m].ver] <= D[u]
        BY <1>2, <3>1 DEF Dated
      <4> QED BY <1>2, <3>1, <3>2, <4>1
    <3> QED BY <1>2, <3>1, <3>2, <3>3, <3>4
  <2> QED BY <1>2, <2>1, <2>2, <2>3
<1>6. ASSUME m \notin unsure, NEW P \in 0..tg[m].ver, RowSeen(m, D, P)
      PROVE  row.ver >= P /\ M!Age(m, row.edit) >= D[P]
  <2>0. P \in 0..tg[m].ver /\ P \in Nat /\ D[P] \in Nat
    BY <1>2
  <2>1. CASE ~rows[m].stored
    BY <1>1, <1>2, <1>3, <1>4, <1>6, <2>1 DEF RowSeen, M!Age
  <2>2. CASE rows[m].stored
    <3>1. rows[m].ver >= P /\ M!Age(m, rows[m].edit) >= D[P]
      BY <1>6, <2>2 DEF RowSeen
    <3>2. D[u] >= D[P] => u >= P
      <4>1. u < P => D[u] < D[P]
        BY <1>2, <1>6, <2>0 DEF Dated
      <4> QED BY <1>2, <2>0, <4>1
    <3>3. row.ver >= P
      BY <1>1, <1>2, <2>0, <2>2, <3>1, <3>2 DEF M!Age
    <3>4. M!Age(m, row.edit) >= D[P]
      <4>1. CASE rows[m].edit # 0
        BY <1>1, <1>2, <2>0, <3>1, <4>1 DEF M!Age
      <4>2. CASE rows[m].edit = 0 /\ a = 0
        BY <1>1, <1>2, <2>0, <3>1, <4>2 DEF M!Age
      <4>3. CASE rows[m].edit = 0 /\ a # 0
        BY <1>1, <1>2, <1>3, <1>4, <2>0, <3>1, <4>3 DEF M!Age
      <4> QED BY <4>1, <4>2, <4>3
    <3> QED BY <3>3, <3>4
  <2> QED BY <1>2, <2>1, <2>2
<1> QED BY <1>1, <1>5, <1>6 DEF row

-----------------------------------------------------------------------------
LEMMA JournalKept ==
  ASSUME M!TypeOK, NEW m \in Messages, journal' = journal
  PROVE  JournalSame(m)
<1>1. DOMAIN journal = 1..Len(journal) /\ Len(journal) \in Nat
  BY Push DEF M!TypeOK
<1> QED BY <1>1 DEF JournalSame

\* The event of a send or of a deletion is no edit; an edit of another message
\* is no edit of m.
LEMMA PushedOther ==
  ASSUME M!TypeOK, M!TypeOK', NEW m \in Messages, NEW n \in Messages,
         \/ Pushed(<<NewEvent(n)>>) \/ Pushed(<<DeleteEvent(n)>>)
         \/ n # m /\ Pushed(<<ContentEvent(n), EditedEvent(n)>>)
  PROVE  JournalSame(m)
<1>1. DOMAIN journal = 1..Len(journal) /\ Len(journal) \in Nat
  BY Push DEF M!TypeOK
<1>2. CASE Pushed(<<NewEvent(n)>>)
  BY <1>1, <1>2, PushedEvents DEF Pushed, JournalSame, Is
<1>3. CASE Pushed(<<DeleteEvent(n)>>)
  BY <1>1, <1>3, PushedEvents DEF Pushed, JournalSame, Is
<1>4. CASE n # m /\ Pushed(<<ContentEvent(n), EditedEvent(n)>>)
  <2>1. DOMAIN journal \subseteq DOMAIN journal' /\ \A i \in DOMAIN journal : journal'[i] = journal[i]
    BY <1>1, <1>4, PushedEvents DEF Pushed
  <2>2. ASSUME NEW i \in DOMAIN journal', journal'[i].msg = m
        PROVE  i \in DOMAIN journal
    <3>1. i \in 1..Len(journal) \/ i = Len(journal) + 1 \/ i = Len(journal) + 2
      BY <1>4, PushedEvents DEF Pushed
    <3> QED BY <1>1, <1>4, <2>2, <3>1, PushedEvents DEF Pushed
  <2> QED BY <1>1, <2>1, <2>2 DEF JournalSame, Is
<1> QED BY <1>2, <1>3, <1>4

\* The steps that do not change the row of m, its versions or its edits in the
\* journal.
LEMMA CalmStep ==
  ASSUME M!TypeOK, M!TypeOK', ReadsTakeTurns, UnsentIsUnknown, NEW m \in Messages,
         NEW D \in [M!Versions -> M!Times], Ordered(m, D),
         \/ M!Tick \/ M!Apply \/ M!Retry \/ M!Restart \/ UNCHANGED M!vars
         \/ \E n \in Messages : \/ M!TgDelete(n)
                                \/ n # m /\ (M!TgSend(n) \/ M!TgEdit(n))
         \/ \E r \in Readers : \/ \E n \in Messages : M!Fetch(r, n)
                               \/ M!ReadApply(r) \/ M!ReadList(r) \/ M!ReadFails(r)
  PROVE  Ordered(m, D)'
<1>0. now \in Nat /\ now' \in Nat
  BY MirrorBounds DEF M!TypeOK
<1>1. CASE UNCHANGED <<auto, rows, read, heard, unsure, journal, tg>>
             /\ (M!Tick \/ M!Retry \/ UNCHANGED M!vars)
  <2>1. Calm(m) /\ ReadsDated(m) /\ ReadsListed(m) /\ RowSame(m) /\ HeadSame(m)
    BY <1>0, <1>1 DEF Calm, ReadsDated, ReadsListed, RowSame, HeadSame, M!Tick,
       M!Retry, M!vars
  <2>2. JournalSame(m)
    BY <1>1, JournalKept
  <2> QED BY <1>0, <2>1, <2>2, CalmOrdered
<1>2. CASE M!Tick \/ M!Retry \/ UNCHANGED M!vars
  BY <1>1, <1>2 DEF M!Tick, M!Retry, M!vars
<1>3. CASE M!Restart
  <2>1. Calm(m) /\ RowSame(m) /\ HeadSame(m) /\ journal' = journal
    BY <1>0, <1>3 DEF Calm, RowSame, HeadSame, M!Restart
  <2>2. \A r \in Readers : read'[r].msg # m
    BY <1>3, MirrorBounds DEF M!Restart, M!NoRead
  <2>3. ReadsDated(m) /\ ReadsListed(m)
    BY <2>2 DEF ReadsDated, ReadsListed
  <2>4. JournalSame(m)
    BY <2>1, JournalKept
  <2> QED BY <1>0, <2>1, <2>3, <2>4, CalmOrdered
<1>4. CASE M!Apply
  <2>1. /\ Calm(m) /\ ReadsDated(m) /\ ReadsListed(m) /\ HeadSame(m)
        /\ journal' = journal
    BY <1>0, <1>4 DEF Calm, ReadsDated, ReadsListed, HeadSame, M!Apply
  <2>2. RowSame(m)
    BY <1>4, AppliedFact DEF M!Apply, RowSame, M!TypeOK
  <2>4. JournalSame(m)
    BY <2>1, JournalKept
  <2> QED BY <1>0, <2>1, <2>2, <2>4, CalmOrdered
<1>5. ASSUME NEW n \in Messages, M!TgDelete(n) PROVE Ordered(m, D)'
  <2>1. /\ tg'[m].ver = tg[m].ver /\ tg'[m].sent = tg[m].sent
        /\ tg'[m].edit = tg[m].edit
    BY <1>5 DEF M!TgDelete, M!TypeOK, M!Originals
  <2>2. heard'[m].ver = heard[m].ver /\ heard'[m].new = heard[m].new
    BY <1>5 DEF M!TgDelete, M!TypeOK, M!Heard, M!Journalled
  <2>3. UNCHANGED <<auto, now, rows, drain, read, unsure>>
    BY <1>5 DEF M!TgDelete
  <2>4. Calm(m) /\ ReadsDated(m) /\ ReadsListed(m) /\ RowSame(m) /\ HeadSame(m)
    BY <1>0, <2>1, <2>2, <2>3 DEF Calm, ReadsDated, ReadsListed, RowSame, HeadSame
  <2>5. JournalSame(m)
    BY <1>5, DeletePushes, PushedOther, JournalKept
  <2> QED BY <1>0, <2>4, <2>5, CalmOrdered
<1>6. ASSUME NEW n \in Messages, n # m, M!TgSend(n) \/ M!TgEdit(n)
      PROVE  Ordered(m, D)'
  <2>1. tg'[m] = tg[m]
    BY <1>6 DEF M!TgSend, M!TgEdit, M!TypeOK
  <2>2. heard'[m] = heard[m]
    BY <1>6 DEF M!TgSend, M!TgEdit, M!TypeOK, M!Journalled
  <2>3. UNCHANGED <<auto, now, rows, drain, read>> /\ unsure \subseteq unsure'
    BY <1>6 DEF M!TgSend, M!TgEdit
  <2>4. Calm(m) /\ ReadsDated(m) /\ ReadsListed(m) /\ RowSame(m) /\ HeadSame(m)
    BY <1>0, <2>1, <2>2, <2>3 DEF Calm, ReadsDated, ReadsListed, RowSame, HeadSame
  <2>5. JournalSame(m)
    BY <1>6, SendPushes, EditPushes, PushedOther, JournalKept
  <2> QED BY <1>0, <2>4, <2>5, CalmOrdered
<1>7. ASSUME NEW r \in Readers, UNCHANGED <<auto, now, tg, journal, tombs, drain, heard, unsure>>,
             RowSame(m), ReadsDated(m), ReadsListed(m)
      PROVE  Ordered(m, D)'
  <2>1. Calm(m) /\ HeadSame(m)
    BY <1>0, <1>7 DEF Calm, HeadSame
  <2>2. JournalSame(m)
    BY <1>7, JournalKept
  <2> QED BY <1>0, <1>7, <2>1, <2>2, CalmOrdered
<1>8. ASSUME NEW r \in Readers, NEW n \in Messages, M!Fetch(r, n)
      PROVE  Ordered(m, D)'
  <2>1. /\ read'[r].step = "upsert" /\ read'[r].msg = n
        /\ read'[r].ver = tg[n].ver /\ read'[r].edit = tg[n].edit
        /\ \A q \in Readers : q # r => read'[q] = read[q]
    BY <1>8 DEF M!Fetch, M!TypeOK
  <2>2. UNCHANGED <<auto, now, tg, journal, tombs, drain, heard, unsure, rows>>
    BY <1>8 DEF M!Fetch
  <2>3. RowSame(m) /\ ReadsDated(m) /\ ReadsListed(m)
    BY <2>1, <2>2 DEF RowSame, ReadsDated, ReadsListed
  <2> QED BY <1>7, <2>2, <2>3
<1>9. ASSUME NEW r \in Readers, M!ReadApply(r) PROVE Ordered(m, D)'
  <2>1. /\ read[r].step = "apply"
        /\ auto => read'[r].msg = None
        /\ ~auto => /\ read'[r].msg = read[r].msg /\ read'[r].ver = read[r].ver
                    /\ read'[r].edit = read[r].edit
        /\ \A q \in Readers : q # r => read'[q] = read[q]
    BY <1>9 DEF M!ReadApply, M!TypeOK, M!NoRead, M!Reads
  <2>2. UNCHANGED <<auto, now, tg, journal, tombs, drain, heard, unsure>>
    BY <1>9 DEF M!ReadApply
  <2>3. RowSame(m)
    BY <1>9, AppliedFact DEF M!ReadApply, RowSame, M!TypeOK
  <2>4. ReadsDated(m) /\ ReadsListed(m)
    BY <2>1, <2>2, MirrorBounds DEF ReadsDated, ReadsListed
  <2> QED BY <1>7, <2>2, <2>3, <2>4
<1>10. ASSUME NEW r \in Readers, M!ReadList(r) PROVE Ordered(m, D)'
  <2>1. /\ read'[r].step \in {"idle", "told"}
        /\ read'[r].msg = read[r].msg /\ read'[r].ver = read[r].ver
        /\ read'[r].edit = read[r].edit
        /\ \A q \in Readers : q # r => read'[q] = read[q]
    BY <1>10 DEF M!ReadList, M!TypeOK, M!Reads
  <2>2. UNCHANGED <<auto, now, tg, journal, tombs, drain, heard, unsure, rows>>
    BY <1>10 DEF M!ReadList
  <2>3. RowSame(m) /\ ReadsDated(m) /\ ReadsListed(m)
    BY <2>1, <2>2 DEF RowSame, ReadsDated, ReadsListed
  <2> QED BY <1>7, <2>2, <2>3
<1>11. ASSUME NEW r \in Readers, M!ReadFails(r) PROVE Ordered(m, D)'
  <2>1. /\ read'[r].msg = None
        /\ \A q \in Readers : q # r => read'[q] = read[q]
    BY <1>11 DEF M!ReadFails, M!TypeOK, M!NoRead
  <2>2. UNCHANGED <<auto, now, tg, journal, tombs, drain, heard, unsure, rows>>
    BY <1>11 DEF M!ReadFails
  <2>3. RowSame(m) /\ ReadsDated(m) /\ ReadsListed(m)
    BY <2>1, <2>2, MirrorBounds DEF RowSame, ReadsDated, ReadsListed
  <2> QED BY <1>7, <2>2, <2>3
<1> QED BY <1>2, <1>3, <1>4, <1>5, <1>6, <1>8, <1>9, <1>10, <1>11

-----------------------------------------------------------------------------
\* A step that stores a version of m with its time.
LEMMA UpsertStep ==
  ASSUME M!TypeOK, NEW m \in Messages, NEW D \in [M!Versions -> M!Times], Ordered(m, D),
         NEW u \in M!Versions, u <= tg[m].ver, NEW a \in M!Times, M!Age(m, a) = D[u],
         rows' = M!Upserted(m, u, a), now' \in Nat,
         Calm(m), ReadsDated(m), JournalSame(m), HeadSame(m),
         ~auto' => \A r \in Readers :
            read'[r].msg = m /\ read'[r].step \in {"apply", "list"} => read'[r].ver <= u,
         \A r \in Readers : read'[r].ver \in Nat
  PROVE  Ordered(m, D)'
<1>1. Dated(m, D) /\ Dated(m, D)'
  BY DatedKept DEF Ordered
<1>2. \A e : M!Age(m, e)' = M!Age(m, e)
  BY DEF M!Age, Calm
<1>3. /\ rows'[m].stored
      /\ RowDated(m, D) => /\ rows'[m].ver <= tg[m].ver /\ M!Age(m, rows'[m].edit) = D[rows'[m].ver]
                           /\ rows'[m].ver >= u
      /\ m \notin unsure =>
           \A P \in 0..tg[m].ver :
             RowSeen(m, D, P) => rows'[m].ver >= P /\ M!Age(m, rows'[m].edit) >= D[P]
  BY <1>1, UpsertOrdered
<1>4. M!Age(m, rows[m].edit)' = M!Age(m, rows'[m].edit)
  BY DEF M!Age, Calm
<1>5. ASSUME Quiet(m)' PROVE QuietRow(m, D)'
  <2>1. QuietRow(m, D)
    BY <1>5 DEF Ordered, Quiet, Calm
  <2>2. RowDated(m, D)'
    BY <1>3, <1>4, <2>1 DEF QuietRow, RowDated, Calm
  <2>3. rows'[m].ver >= u /\ rows'[m].ver \in Nat /\ u \in Nat
    <3>1. rows'[m].ver = u \/ rows'[m].ver = rows[m].ver
      BY UpsertedFact DEF M!TypeOK
    <3> QED BY <1>3, <2>1, <3>1, DateTypes DEF QuietRow
  <2>4. RowListed(m)'
    BY <1>3, <2>3 DEF RowListed
  <2> QED BY <2>1, <2>2, <2>4, QuietKept
<1>6. ASSUME Tracked(m)' PROVE \E P \in M!Versions : HasSeen(m, D, P)'
  <2>1. Tracked(m) /\ m \notin unsure
    BY <1>6 DEF Tracked, Calm
  <2>2. PICK P \in M!Versions : HasSeen(m, D, P)
    BY <2>1 DEF Ordered
  <2>3. P \in 0..tg[m].ver
    BY <2>2, DateTypes DEF HasSeen
  <2>4. RowSeen(m, D, P)'
    BY <1>3, <1>4, <2>1, <2>2, <2>3 DEF HasSeen, RowSeen
  <2> QED BY <2>2, <2>4, SeenKept
<1> QED BY <1>1, <1>5, <1>6 DEF Ordered

\* A read stores what it fetched, of m or of another message.
LEMMA ReadUpsertStep ==
  ASSUME M!TypeOK, M!TypeOK', ReadsTakeTurns, NEW m \in Messages,
         NEW D \in [M!Versions -> M!Times], Ordered(m, D),
         NEW r \in Readers, M!ReadUpsert(r)
  PROVE  Ordered(m, D)'
<1>0. now \in Nat /\ now' \in Nat /\ \A q \in Readers : read'[q].ver \in Nat
  <2>1. \A q \in Readers : read'[q].ver \in M!Versions
    BY DEF M!TypeOK, M!Reads
  <2> QED BY <2>1, MirrorBounds DEF M!TypeOK, M!Versions
<1>1. /\ read[r].step = "upsert"
      /\ read'[r].step = "apply" /\ read'[r].msg = read[r].msg
      /\ read'[r].ver = read[r].ver /\ read'[r].edit = read[r].edit
      /\ \A q \in Readers : q # r => read'[q] = read[q]
  BY DEF M!ReadUpsert, M!TypeOK, M!Reads
<1>2. UNCHANGED <<auto, now, tg, journal, tombs, drain, heard, unsure>>
  BY DEF M!ReadUpsert
<1>3. Calm(m) /\ HeadSame(m) /\ ReadsDated(m)
  BY <1>0, <1>1, <1>2 DEF Calm, HeadSame, ReadsDated
<1>4. JournalSame(m)
  BY <1>2, JournalKept
<1>5. /\ read[r].msg \in Messages /\ read[r].ver \in M!Versions
      /\ read[r].edit \in M!Times
  BY <1>1 DEF ReadsTakeTurns, M!TypeOK, M!Reads
<1>6. CASE read[r].msg = m
  <2>1. read[r].ver <= tg[m].ver /\ M!Age(m, read[r].edit) = D[read[r].ver]
    BY <1>6 DEF Ordered, Dated
  <2>2. rows' = M!Upserted(m, read[r].ver, read[r].edit)
    BY <1>6 DEF M!ReadUpsert
  <2>3. ASSUME ~auto', NEW q \in Readers, read'[q].msg = m, read'[q].step \in {"apply", "list"}
        PROVE  read'[q].ver <= read[r].ver
    <3>1. CASE q = r
      BY <1>0, <1>1, <3>1
    <3>2. CASE q # r
      BY <1>1, <1>2, <1>6, <2>3, <3>2 DEF ReadsTakeTurns
    <3> QED BY <3>1, <3>2
  <2> QED BY <1>0, <1>3, <1>4, <1>5, <2>1, <2>2, <2>3, UpsertStep
<1>7. CASE read[r].msg # m
  <2>1. RowSame(m)
    BY <1>5, <1>7, UpsertedFact DEF M!ReadUpsert, RowSame, M!TypeOK
  <2>2. ReadsListed(m)
    BY <1>1, <1>2, <1>7 DEF ReadsListed
  <2> QED BY <1>0, <1>3, <1>4, <2>1, <2>2, CalmOrdered
<1> QED BY <1>6, <1>7

\* RunUpdates takes an update from the journal.
LEMMA ProcessStep ==
  ASSUME M!TypeOK, M!TypeOK', ReadsTakeTurns, NewsAreFirst, NewsComeFirst,
         NEW m \in Messages, NEW D \in [M!Versions -> M!Times], Ordered(m, D), M!Process
  PROVE  Ordered(m, D)'
<1> DEFINE e == journal[1]
<1>0. now \in Nat /\ now' \in Nat /\ \A q \in Readers : read'[q].ver \in Nat
  <2>1. \A q \in Readers : read'[q].ver \in M!Versions
    BY DEF M!TypeOK, M!Reads
  <2> QED BY <2>1, MirrorBounds DEF M!TypeOK, M!Versions
<1>1. /\ UNCHANGED <<auto, now, tg, journal, read, heard>>
      /\ unsure \subseteq unsure' /\ auto
      /\ drain = "process"
  BY DEF M!Process
<1>2. journal # <<>> /\ e = Head(journal) /\ e \in M!Events /\ 1 \in DOMAIN journal
  BY Pop DEF M!Process, M!TypeOK
<1>3. e.msg \in Messages /\ e.ver \in M!Versions /\ e.at \in M!Times
      /\ e.kind \in {"new", "content", "edited", "delete"}
  BY <1>2 DEF M!Events
<1>4. /\ e.kind = "new" => rows' = M!Upserted(e.msg, e.ver, e.at)
      /\ e.kind = "content" =>
           \/ rows' = IF rows[e.msg].stored
                      THEN [rows EXCEPT ![e.msg].ver = e.ver, ![e.msg].edit = 2 * now + 1]
                      ELSE rows
           \/ unsure' = unsure \cup {e.msg} /\ rows' = rows
      /\ e.kind = "edited" =>
           rows' = IF rows[e.msg].stored THEN [rows EXCEPT ![e.msg].edit = e.at] ELSE rows
      /\ e.kind = "delete" => rows' = rows
  BY <1>2 DEF M!Process, M!Current
<1>5. Calm(m) /\ ReadsDated(m) /\ ReadsListed(m)
  BY <1>0, <1>1 DEF Calm, ReadsDated, ReadsListed
<1>6. JournalSame(m)
  BY <1>1, JournalKept
<1> HIDE DEF e
<1>7. Is(1, m, "content")' => e.msg = m /\ e.kind = "content"
  BY <1>1 DEF Is, e
<1>8. CASE e.msg # m \/ e.kind = "delete"
  <2>1. HeadSame(m)
    BY <1>7, <1>8 DEF HeadSame
  <2>2. RowSame(m)
    <3>1. rows \in [Messages -> M!Rows]
      BY DEF M!TypeOK
    <3>2. e.msg # m => M!Upserted(e.msg, e.ver, e.at)[m] = rows[m]
      BY <1>3, <3>1, UpsertedFact
    <3> QED BY <1>3, <1>4, <1>8, <3>1, <3>2 DEF RowSame
  <2> QED BY <1>0, <1>5, <1>6, <2>1, <2>2, CalmOrdered
<1>9. CASE e.msg = m /\ e.kind = "new"
  <2>1. e.ver = 0 /\ e.at = 0
    BY <1>2, <1>9 DEF NewsAreFirst, e
  <2>2. HeadSame(m)
    BY <1>7, <1>9 DEF HeadSame
  <2>3. M!Age(m, 0) = D[0] /\ 0 <= tg[m].ver
    BY DateTypes DEF Ordered, Dated, M!Age
  <2> QED BY <1>0, <1>1, <1>3, <1>4, <1>5, <1>6, <1>9, <2>1, <2>2, <2>3, UpsertStep
<1>10. CASE e.msg = m /\ e.kind \in {"content", "edited"}
  <2>1. Dated(m, D) /\ Dated(m, D)'
    BY <1>0, <1>5, DatedKept DEF Ordered
  <2>2. ~Quiet(m)'
    <3>1. Is(1, m, "content") \/ Is(1, m, "edited")
      BY <1>10 DEF Is, e
    <3>2. ~Quiet(m)
      BY <1>2, <3>1 DEF Ordered, QuietRow
    <3> QED BY <1>5, <3>2 DEF Quiet, Calm
  <2>3. ASSUME Tracked(m)' PROVE \E P \in M!Versions : HasSeen(m, D, P)'
    <3>1. Tracked(m) /\ m \notin unsure' /\ heard[m].new
      BY <1>1, <1>5, <2>3 DEF Tracked, Calm
    <3>2. PICK P \in M!Versions : HasSeen(m, D, P)
      BY <3>1 DEF Ordered
    <3>3. CASE e.kind = "edited"
      <4>1. HeadSame(m)
        BY <1>7, <3>3 DEF HeadSame
      <4>2. e.at >= D[P]
        BY <1>2, <1>10, <3>2, <3>3 DEF HasSeen, Is, e
      <4>3. RowSeen(m, D, P)'
        <5>1. CASE ~rows[m].stored
          <6>1. rows' = rows
            BY <1>4, <1>10, <3>3, <5>1
          <6>2. RowSame(m)
            BY <6>1 DEF RowSame
          <6> QED BY <1>5, <3>2, <6>2, RowKept DEF HasSeen
        <5>2. CASE rows[m].stored
          <6>1. /\ rows'[m].stored /\ rows'[m].ver = rows[m].ver
                /\ rows'[m].edit = e.at
            BY <1>4, <1>10, <3>3, <5>2 DEF M!TypeOK, M!Rows
          <6>2. M!Age(m, rows[m].edit)' = IF e.at = 0 THEN tg[m].sent ELSE e.at
            BY <1>1, <6>1 DEF M!Age
          <6>3. M!Age(m, rows[m].edit)' >= D[P]
            BY <1>3, <4>2, <6>2, DateTypes
          <6>4. rows[m].ver >= P
            BY <3>2, <5>2 DEF HasSeen, RowSeen
          <6> QED BY <6>1, <6>3, <6>4 DEF RowSeen
        <5> QED BY <5>1, <5>2
      <4> QED BY <1>5, <1>6, <3>2, <4>1, <4>3, SeenKept
    <3>4. CASE e.kind = "content"
      <4>0. PICK c \in M!Versions : c = e.ver
        BY <1>3
      <4>1. rows[m].stored
        BY <1>2, <1>10, <3>1, <3>4 DEF NewsComeFirst, Is, e
      <4>2. rows'[m].stored /\ rows'[m].ver = c /\ rows'[m].edit = 2 * now + 1
        <5>1. rows' = [rows EXCEPT ![m].ver = c, ![m].edit = 2 * now + 1]
          BY <1>4, <1>10, <3>1, <3>4, <4>0, <4>1
        <5> QED BY <4>1, <5>1 DEF M!TypeOK, M!Rows
      <4>3. c <= tg[m].ver
        BY <1>2, <1>10, <3>2, <3>4, <4>0 DEF HasSeen, Is, e
      <4>4. M!Age(m, rows[m].edit)' = 2 * now + 1
        BY <1>0, <4>2 DEF M!Age
      <4>5. D[c] <= 2 * now
        <5>1. c \in 0..tg[m].ver /\ tg[m].ver \in 0..tg[m].ver /\ tg[m].ver \in Nat
          BY <4>3, DateTypes
        <5>2. D[tg[m].ver] <= 2 * now /\ (c < tg[m].ver => D[c] <= D[tg[m].ver])
          BY <2>1, <5>1 DEF Dated
        <5>3. D[c] \in Nat /\ D[tg[m].ver] \in Nat
          BY DateTypes
        <5> QED BY <1>0, <5>1, <5>2, <5>3
      <4>6. RowSeen(m, D, c)'
        <5>1. D[c] \in Nat /\ c \in Nat
          BY DateTypes
        <5>2. rows'[m].ver >= c /\ 2 * now + 1 >= D[c]
          BY <1>0, <4>2, <4>5, <5>1
        <5> QED BY <4>2, <4>4, <5>2 DEF RowSeen
      <4>7. LastEdit(m, c)'
        <5>1. Is(1, m, "content")
          BY <1>10, <3>4 DEF Is, e
        <5>2. \E i \in DOMAIN journal :
                /\ Is(i, m, "content") /\ journal[i].ver = heard[m].ver
                /\ \A k \in DOMAIN journal : k > i => ~Is(k, m, "content")
          BY <1>2, <3>2, <5>1 DEF HasSeen, LastEdit
        <5> QED BY <1>1, <5>2 DEF LastEdit, Is
      <4>8. \A i \in DOMAIN journal' : Is(i, m, "content")' => journal'[i].ver <= tg'[m].ver
        BY <1>1, <3>2 DEF HasSeen, Is
      <4>9. ASSUME NEW i \in DOMAIN journal', Is(i, m, "edited")'
            PROVE  /\ journal'[i].at >= D[c]
                   /\ \A j \in 1..(i - 1) :
                        Is(j, m, "content")' => journal'[i].at >= D[journal'[j].ver]
        <5>1. i \in DOMAIN journal /\ Is(i, m, "edited") /\ i # 1
          BY <1>1, <1>10, <3>4, <4>9 DEF Is, e
        <5>2. 1 \in 1..(i - 1)
          BY <1>6, <5>1 DEF JournalSame
        <5> QED BY <1>1, <1>10, <3>2, <3>4, <4>0, <5>1, <5>2 DEF HasSeen, Is, e
      <4>10. journal'[1].ver = c /\ c <= tg'[m].ver
        BY <1>1, <4>0, <4>3 DEF e
      <4>11. HasSeen(m, D, c)'
        BY <4>6, <4>7, <4>8, <4>9, <4>10 DEF HasSeen
      <4> QED BY <4>11
    <3> QED BY <1>10, <3>3, <3>4
  <2> QED BY <2>1, <2>2, <2>3 DEF Ordered
<1> QED BY <1>3, <1>8, <1>9, <1>10

\* It acknowledges one.
LEMMA AckStep ==
  ASSUME M!TypeOK, M!TypeOK', NEW m \in Messages, NEW D \in [M!Versions -> M!Times],
         Ordered(m, D), M!Ack
  PROVE  Ordered(m, D)'
<1>0. now \in Nat /\ now' \in Nat
  BY MirrorBounds DEF M!TypeOK
<1>1. /\ UNCHANGED <<auto, now, tg, rows, tombs, read, heard, unsure>>
      /\ drain = "ack" /\ drain' = "process"
  BY DEF M!Ack
<1>2. /\ DOMAIN journal = 1..Len(journal) /\ Len(journal) \in Nat /\ Len(journal) > 0
      /\ DOMAIN journal' = 1..(Len(journal) - 1)
      /\ \A i \in 1..(Len(journal) - 1) : journal'[i] = journal[i + 1]
  BY AckPops
<1>3. Calm(m) /\ ReadsDated(m) /\ RowSame(m)
  BY <1>0, <1>1 DEF Calm, ReadsDated, RowSame
<1>4. Dated(m, D)'
  BY <1>0, <1>3, DatedKept DEF Ordered
<1>5. ASSUME NEW i \in DOMAIN journal'
      PROVE  i \in Nat /\ i + 1 \in DOMAIN journal /\ \A kind : Is(i, m, kind)' <=> Is(i + 1, m, kind)
  BY <1>2 DEF Is
<1>6. ASSUME Quiet(m)' PROVE QuietRow(m, D)'
  <2>1. QuietRow(m, D)
    BY <1>3, <1>6 DEF Ordered, Quiet, Calm
  <2>2. RowDated(m, D)' /\ RowListed(m)'
    BY <1>1, <1>3, <2>1, RowKept DEF QuietRow, RowListed
  <2>3. \A i \in DOMAIN journal' : ~Is(i, m, "content")' /\ ~Is(i, m, "edited")'
    BY <1>5, <2>1 DEF QuietRow
  <2> QED BY <2>2, <2>3 DEF QuietRow
<1>7. ASSUME Tracked(m)' PROVE \E P \in M!Versions : HasSeen(m, D, P)'
  <2>1. Tracked(m)
    BY <1>3, <1>7 DEF Tracked, Calm
  <2>2. PICK P \in M!Versions : HasSeen(m, D, P)
    BY <2>1 DEF Ordered
  <2>3. RowSeen(m, D, P)'
    BY <1>3, <2>2, RowKept DEF HasSeen
  <2>4. LastEdit(m, P)'
    <3>1. CASE heard[m].ver = P /\ \A i \in DOMAIN journal : ~Is(i, m, "content")
      BY <1>1, <1>5, <3>1 DEF LastEdit
    <3>2. ASSUME NEW i \in DOMAIN journal, Is(i, m, "content"), journal[i].ver = heard[m].ver,
                 \A k \in DOMAIN journal : k > i => ~Is(k, m, "content")
          PROVE  LastEdit(m, P)'
      <4>1. CASE i = 1
        <5>1. heard'[m].ver = P
          BY <1>1, <2>2, <3>2, <4>1 DEF HasSeen
        <5>2. \A k \in DOMAIN journal' : ~Is(k, m, "content")'
          <6> SUFFICES ASSUME NEW k \in DOMAIN journal' PROVE ~Is(k, m, "content")'
            OBVIOUS
          <6>1. k + 1 > i /\ k + 1 \in DOMAIN journal
            BY <1>2, <1>5, <4>1
          <6> QED BY <1>5, <3>2, <6>1
        <5> QED BY <5>1, <5>2 DEF LastEdit
      <4>2. CASE i # 1
        <5>1. /\ i - 1 \in DOMAIN journal' /\ journal'[i - 1] = journal[i]
              /\ i - 1 \in Nat
          BY <1>2, <4>2
        <5>2. Is(i - 1, m, "content")' /\ journal'[i - 1].ver = heard'[m].ver
          BY <1>1, <3>2, <5>1 DEF Is
        <5>3. ASSUME NEW k \in DOMAIN journal', k > i - 1
              PROVE  ~Is(k, m, "content")'
          <6>1. k + 1 > i /\ k + 1 \in DOMAIN journal
            BY <1>2, <1>5, <5>3
          <6> QED BY <1>5, <3>2, <6>1
        <5> QED BY <5>1, <5>2, <5>3 DEF LastEdit
      <4> QED BY <4>1, <4>2
    <3> QED BY <2>2, <3>1, <3>2 DEF HasSeen, LastEdit
  <2>5. \A i \in DOMAIN journal' : Is(i, m, "content")' => journal'[i].ver <= tg'[m].ver
    BY <1>1, <1>2, <1>5, <2>2 DEF HasSeen
  <2>6. ASSUME NEW i \in DOMAIN journal', Is(i, m, "edited")'
        PROVE  /\ journal'[i].at >= D[P]
               /\ \A j \in 1..(i - 1) :
                    Is(j, m, "content")' => journal'[i].at >= D[journal'[j].ver]
    <3>1. /\ i + 1 \in DOMAIN journal /\ Is(i + 1, m, "edited")
          /\ journal'[i] = journal[i + 1]
      BY <1>2, <1>5, <2>6
    <3>2. ASSUME NEW j \in 1..(i - 1), Is(j, m, "content")'
          PROVE  /\ j + 1 \in 1..((i + 1) - 1) /\ Is(j + 1, m, "content")
                 /\ journal'[j] = journal[j + 1]
      BY <1>2, <3>2 DEF Is
    <3> QED BY <2>2, <3>1, <3>2 DEF HasSeen
  <2>7. P <= tg'[m].ver
    BY <1>1, <2>2 DEF HasSeen
  <2>8. HasSeen(m, D, P)'
    BY <1>1, <2>3, <2>4, <2>5, <2>6, <2>7 DEF HasSeen
  <2> QED BY <2>8
<1> QED BY <1>4, <1>6, <1>7 DEF Ordered

\* A message Telegram sends has one version, dated now.
LEMMA SendStep ==
  ASSUME M!TypeOK, M!TypeOK', UnsentIsUnknown, NEW m \in Messages, M!TgSend(m)
  PROVE  \E D \in [M!Versions -> M!Times] : Ordered(m, D)'
<1>0. now \in Nat /\ 2 * now \in M!Times /\ 0 \in M!Versions
  BY EventTypes, MirrorBounds DEF M!TypeOK, M!Versions, M!Times
<1>1. PICK D \in [M!Versions -> M!Times] : D[0] = 2 * now
  <2>1. [v \in M!Versions |-> 2 * now] \in [M!Versions -> M!Times]
    BY <1>0
  <2> QED BY <1>0, <2>1
<1>2. /\ tg'[m].ver = 0 /\ tg'[m].sent = 2 * now /\ tg'[m].edit = 0
      /\ UNCHANGED <<auto, now, rows, drain, read, unsure>>
  BY DEF M!TgSend, M!TypeOK
<1>3. /\ ~rows[m].stored /\ rows[m].edit = 0 /\ heard[m] = M!Nothing
      /\ \A i \in DOMAIN journal : journal[i].msg # m
      /\ \A r \in Readers : read[r].msg # m
  BY DEF M!TgSend, UnsentIsUnknown, M!Unsent
<1>4. heard'[m].ver = 0
  BY <1>3 DEF M!TgSend, M!Journalled, M!TypeOK, M!Nothing, M!Heard
<1>5. \A i \in DOMAIN journal' : ~Is(i, m, "content")' /\ ~Is(i, m, "edited")'
  <2>1. CASE Pushed(<<NewEvent(m)>>)
    BY <1>3, <2>1, PushedEvents DEF Pushed, Is
  <2>2. CASE journal' = journal
    BY <1>3, <2>2 DEF Is
  <2> QED BY <2>1, <2>2, SendPushes
<1>6. 1 \notin DOMAIN journal' => drain' = "process"
  BY Pop DEF M!TypeOK
<1>7. Dated(m, D)'
  <2>1. M!Age(m, tg[m].edit)' = 2 * now
    BY <1>2 DEF M!Age
  <2>2. 0..tg'[m].ver = {0}
    BY <1>2
  <2> QED BY <1>0, <1>1, <1>2, <1>3, <2>1, <2>2 DEF Dated
<1>8. QuietRow(m, D)'
  BY <1>2, <1>3, <1>5 DEF QuietRow, RowDated, RowListed
<1>9. HasSeen(m, D, 0)'
  <2>1. LastEdit(m, 0)'
    BY <1>4, <1>5 DEF LastEdit
  <2>2. RowSeen(m, D, 0)'
    BY <1>2, <1>3 DEF RowSeen
  <2> QED BY <1>2, <1>5, <1>6, <2>1, <2>2 DEF HasSeen
<1>10. Ordered(m, D)'
  BY <1>0, <1>7, <1>8, <1>9 DEF Ordered
<1> QED BY <1>1, <1>10

\* An edit dates a version after all the others.
LEMMA EditStep ==
  ASSUME M!TypeOK, M!TypeOK', M!NewIsStored, NEW m \in Messages,
         NEW D \in [M!Versions -> M!Times], Ordered(m, D), M!TgEdit(m)
  PROVE  \E E \in [M!Versions -> M!Times] : Ordered(m, E)'
<1>a. PICK v \in M!Versions : v = tg[m].ver
  BY DateTypes
<1>b. PICK t \in M!Times : t = 2 * now
  BY EventTypes, DateTypes
<1> DEFINE E == [D EXCEPT ![v + 1] = t]
<1>0. now \in Nat /\ v \in Nat /\ v + 1 \in M!Versions /\ t \in Nat /\ now' = now
  BY <1>a, <1>b, MirrorBounds DEF M!TypeOK, M!Versions, M!TgEdit
<1>1. E \in [M!Versions -> M!Times] /\ E[v + 1] = t /\ \A u \in M!Versions : u # v + 1 => E[u] = D[u]
  BY <1>0
<1> HIDE DEF E
<1>2. /\ tg'[m].ver = v + 1 /\ tg'[m].sent = tg[m].sent /\ tg'[m].edit = t
      /\ UNCHANGED <<auto, now, rows, drain, read>> /\ unsure \subseteq unsure'
      /\ m \notin unsure' => t \notin {tg[m].sent, tg[m].edit}
  <2>1. tg'[m].ver = v + 1 /\ tg'[m].sent = tg[m].sent /\ tg'[m].edit = t
    BY <1>a, <1>b DEF M!TgEdit, M!TypeOK, M!Originals
  <2> QED BY <1>b, <2>1 DEF M!TgEdit
<1>3. /\ tg[m].sent \in Nat /\ tg[m].edit \in Nat /\ 0..v \subseteq M!Versions
      /\ \A u \in M!Versions : u \in Nat /\ D[u] \in Nat /\ E[u] \in Nat
      /\ 0 \in 0..v /\ v \in 0..v
  BY <1>0, <1>1, <1>a, DateTypes
<1>4. \A u \in 0..v : E[u] = D[u]
  BY <1>0, <1>1, <1>3
<1>5. Dated(m, D)
  BY DEF Ordered
<1>6. D[v] <= t /\ (m \notin unsure' => D[v] < t)
  BY <1>0, <1>2, <1>3, <1>5, <1>a, <1>b DEF Dated, M!Age
<1>7. \A u \in 0..v : D[u] <= D[v] /\ D[u] <= t /\ (m \notin unsure' => D[u] < t)
  <2>1. \A u \in 0..v : D[u] <= D[v]
    BY <1>3, <1>5, <1>a DEF Dated
  <2> QED BY <1>0, <1>3, <1>6, <2>1
<1>8. \A e : M!Age(m, e)' = M!Age(m, e)
  BY <1>2 DEF M!Age
<1>9. Dated(m, E)'
  <2>1. E[0] = tg'[m].sent
    BY <1>2, <1>3, <1>4, <1>5 DEF Dated
  <2>2. M!Age(m, tg[m].edit)' = t /\ E[tg'[m].ver] = t
    <3>1. t # 0 \/ tg[m].sent = 0
      BY <1>0, <1>3, <1>5, <1>7 DEF Dated
    <3> QED BY <1>1, <1>2, <3>1 DEF M!Age
  <2>3. E[tg'[m].ver] <= 2 * now'
    BY <1>0, <1>b, <2>2
  <2>4. ASSUME NEW u \in 0..(v + 1), NEW w \in 0..(v + 1), u < w
        PROVE  E[u] <= E[w] /\ (m \notin unsure' => E[u] < E[w])
    <3>1. u \in 0..v /\ E[u] = D[u]
      BY <1>0, <1>4, <2>4
    <3>2. CASE w = v + 1
      BY <1>1, <1>7, <3>1, <3>2
    <3>3. CASE w # v + 1
      <4>1. w \in 0..v /\ E[w] = D[w]
        BY <1>0, <1>4, <3>3
      <4> QED BY <1>2, <1>5, <1>a, <2>4, <3>1, <4>1 DEF Dated
    <3> QED BY <3>2, <3>3
  <2>5. ASSUME NEW r \in Readers, read'[r].msg = m
        PROVE  /\ read'[r].ver <= tg'[m].ver
               /\ M!Age(m, read'[r].edit) = E[read'[r].ver]
    <3>1. /\ read[r].ver <= v /\ M!Age(m, read[r].edit) = D[read[r].ver]
          /\ read[r].ver \in 0..v
      <4>1. read[r].ver \in Nat /\ read[r].msg = m
        BY <1>2, <1>3, <2>5, DateTypes
      <4> QED BY <1>0, <1>5, <1>a, <4>1 DEF Dated
    <3> QED BY <1>0, <1>2, <1>4, <3>1
  <2>6. ASSUME NEW r \in Readers, read'[r].msg = m
        PROVE  /\ read'[r].ver <= tg'[m].ver
               /\ M!Age(m, read[r].edit)' = E[read'[r].ver]
    BY <1>2, <1>8, <2>5, <2>6 DEF M!Age
  <2> QED BY <1>2, <2>1, <2>2, <2>3, <2>4, <2>6 DEF Dated
<1>10. CASE journal' = journal /\ heard' = heard
  <2>1. ASSUME Quiet(m)' PROVE QuietRow(m, E)'
    <3>1. QuietRow(m, D)
      BY <1>10, <2>1 DEF Ordered, Quiet
    <3>2. RowDated(m, E)'
      <4>1. CASE rows[m].stored
        <5>1. rows[m].ver \in 0..v /\ M!Age(m, rows[m].edit) = D[rows[m].ver]
          <6>1. rows[m].ver \in Nat
            BY <1>3, DateTypes
          <6> QED BY <1>0, <1>a, <3>1, <4>1, <6>1 DEF QuietRow, RowDated
        <5>2. /\ M!Age(m, rows[m].edit)' = E[rows'[m].ver]
              /\ rows'[m].ver <= tg'[m].ver
          BY <1>0, <1>2, <1>4, <5>1 DEF M!Age
        <5> QED BY <1>2, <4>1, <5>2 DEF RowDated
      <4>2. CASE ~rows[m].stored
        BY <1>2, <3>1, <4>2 DEF QuietRow, RowDated
      <4> QED BY <4>1, <4>2
    <3> QED BY <1>2, <1>10, <3>1, <3>2 DEF QuietRow, RowListed, Is
  <2>2. ASSUME Tracked(m)' PROVE \E P \in M!Versions : HasSeen(m, E, P)'
    <3>1. Tracked(m)
      BY <1>2, <1>10, <2>2 DEF Tracked
    <3>2. PICK P \in M!Versions : HasSeen(m, D, P)
      BY <3>1 DEF Ordered
    <3>3. P \in 0..v /\ E[P] = D[P] /\ P <= v + 1
      BY <1>0, <1>3, <1>4, <1>a, <3>2 DEF HasSeen
    <3>4. M!Age(m, rows[m].edit)' = M!Age(m, rows[m].edit)
      BY <1>2 DEF M!Age
    <3>5. RowSeen(m, E, P)'
      BY <1>2, <3>2, <3>3, <3>4 DEF HasSeen, RowSeen
    <3>6. LastEdit(m, P)'
      BY <1>10, <3>2 DEF HasSeen, LastEdit, Is
    <3>7. \A i \in DOMAIN journal : journal[i].ver \in Nat /\ DOMAIN journal = 1..Len(journal)
      <4>1. \A i \in DOMAIN journal : journal[i] \in M!Events /\ DOMAIN journal = 1..Len(journal)
        BY Push DEF M!TypeOK
      <4> QED BY <1>3, <4>1 DEF M!Events
    <3>8. \A i \in DOMAIN journal : Is(i, m, "content") =>
            /\ journal[i].ver \in 0..v /\ journal[i].ver <= v + 1
            /\ E[journal[i].ver] = D[journal[i].ver]
      BY <1>0, <1>4, <1>a, <3>2, <3>7 DEF HasSeen
    <3>9. \A i \in DOMAIN journal' : Is(i, m, "content")' => journal'[i].ver <= tg'[m].ver
      BY <1>2, <1>10, <3>8 DEF Is
    <3>10. ASSUME NEW i \in DOMAIN journal', Is(i, m, "edited")'
           PROVE  /\ journal'[i].at >= E[P]
                  /\ \A j \in 1..(i - 1) :
                       Is(j, m, "content")' => journal'[i].at >= E[journal'[j].ver]
      <4>1. i \in DOMAIN journal /\ Is(i, m, "edited") /\ journal' = journal
        BY <1>10, <3>10 DEF Is
      <4>2. \A j \in 1..(i - 1) : j \in DOMAIN journal
        BY <4>1, Push DEF M!TypeOK
      <4> QED BY <3>2, <3>3, <3>8, <4>1, <4>2 DEF HasSeen, Is
    <3>11. drain' # "process" /\ Is(1, m, "content")' => journal'[1].ver = P
      BY <1>2, <1>10, <3>2 DEF HasSeen, Is
    <3>12. HasSeen(m, E, P)'
      BY <1>2, <3>3, <3>5, <3>6, <3>9, <3>10, <3>11 DEF HasSeen
    <3> QED BY <3>12
  <2>3. Ordered(m, E)'
    BY <1>9, <2>1, <2>2 DEF Ordered
  <2> QED BY <1>1, <2>3
<1>11. CASE auto /\ Pushed(<<ContentEvent(m), EditedEvent(m)>>)
  <2>c. PICK L \in Nat : L = Len(journal)
    BY <1>11 DEF Pushed
  <2>0. DOMAIN journal = 1..L /\ DOMAIN journal' = 1..(L + 2)
        /\ (\A i \in 1..L : journal'[i] = journal[i])
    BY <1>11, <2>c, PushedEvents DEF Pushed
  <2>1. /\ journal'[L + 1].kind = "content" /\ journal'[L + 1].msg = m
        /\ journal'[L + 1].ver = v + 1
        /\ journal'[L + 2].kind = "edited" /\ journal'[L + 2].msg = m
        /\ journal'[L + 2].at = t
    BY <1>11, <1>a, <1>b, <2>c, PushedEvents DEF Pushed
  <2>2. heard'[m].ver = v + 1 /\ heard'[m].new = heard[m].new
    BY <1>11, <1>a DEF M!TgEdit, M!Journalled, M!TypeOK, M!Heard
  <2>3. \A i \in DOMAIN journal' : i \in 1..L \/ i = L + 1 \/ i = L + 2
    BY <2>0
  <2>4. \A i \in 1..L : journal[i].ver \in Nat /\ journal[i].at \in Nat
    <3>1. \A i \in 1..L : journal[i] \in M!Events
      BY <2>0 DEF M!TypeOK
    <3>2. \A e \in M!Times : e \in Nat
      BY DateTypes
    <3> QED BY <1>3, <3>1, <3>2 DEF M!Events
  <2>5. ~Quiet(m)'
    BY <1>0, <2>2 DEF Quiet
  <2>6. ASSUME Tracked(m)' PROVE \E P \in M!Versions : HasSeen(m, E, P)'
    <3>1. Tracked(m)
      BY <1>2, <2>2, <2>6 DEF Tracked
    <3>2. PICK P \in M!Versions : HasSeen(m, D, P)
      BY <3>1 DEF Ordered
    <3>3. P \in 0..v /\ E[P] = D[P] /\ P <= v + 1 /\ D[P] <= t
      <4>1. P \in 0..v
        BY <1>0, <1>3, <1>a, <3>2 DEF HasSeen
      <4> QED BY <1>0, <1>4, <1>7, <4>1
    <3>4. M!Age(m, rows[m].edit)' = M!Age(m, rows[m].edit)
      BY <1>2 DEF M!Age
    <3>5. RowSeen(m, E, P)'
      BY <1>2, <3>2, <3>3, <3>4 DEF HasSeen, RowSeen
    <3>6. LastEdit(m, P)'
      <4>1. L + 1 \in DOMAIN journal' /\ Is(L + 1, m, "content")'
            /\ journal'[L + 1].ver = heard'[m].ver
        BY <2>0, <2>1, <2>2 DEF Is
      <4>2. \A k \in DOMAIN journal' : k > L + 1 => ~Is(k, m, "content")'
        BY <2>0, <2>1, <2>3 DEF Is
      <4> QED BY <4>1, <4>2 DEF LastEdit
    <3>7. \A i \in 1..L : Is(i, m, "content") =>
            /\ journal[i].ver \in 0..v /\ journal[i].ver <= v + 1
            /\ E[journal[i].ver] = D[journal[i].ver]
      <4>1. \A i \in 1..L : Is(i, m, "content") => journal[i].ver <= v
        BY <1>a, <2>0, <3>2 DEF HasSeen
      <4> QED BY <1>0, <1>4, <2>4, <4>1
    <3>8. \A i \in DOMAIN journal' : Is(i, m, "content")' => journal'[i].ver <= v + 1
      BY <1>0, <2>0, <2>1, <2>3, <3>7 DEF Is
    <3>9. ASSUME NEW i \in DOMAIN journal', Is(i, m, "edited")'
          PROVE  /\ journal'[i].at >= E[P]
                 /\ \A j \in 1..(i - 1) :
                      Is(j, m, "content")' => journal'[i].at >= E[journal'[j].ver]
      <4>1. CASE i \in 1..L
        <5>1. Is(i, m, "edited") /\ journal'[i] = journal[i]
          BY <2>0, <3>9, <4>1 DEF Is
        <5>2. \A j \in 1..(i - 1) : j \in 1..L /\ journal'[j] = journal[j]
          BY <2>0, <4>1
        <5> QED BY <2>0, <3>2, <3>3, <3>7, <4>1, <5>1, <5>2 DEF HasSeen, Is
      <4>2. CASE i = L + 2
        <5>1. journal'[i].at = t /\ t >= E[P]
          BY <1>0, <1>3, <2>1, <3>3, <4>2
        <5>2. ASSUME NEW j \in 1..(i - 1), Is(j, m, "content")'
              PROVE  t >= E[journal'[j].ver]
          <6>1. CASE j \in 1..L
            <7>1. Is(j, m, "content") /\ journal'[j] = journal[j]
              BY <2>0, <5>2, <6>1 DEF Is
            <7>2. journal[j].ver \in 0..v /\ E[journal'[j].ver] = D[journal[j].ver]
              BY <3>7, <6>1, <7>1
            <7>3. D[journal[j].ver] <= t /\ D[journal[j].ver] \in Nat
              BY <1>3, <1>7, <7>2
            <7> QED BY <1>0, <7>2, <7>3
          <6>2. CASE j = L + 1
            BY <1>0, <1>1, <2>1, <6>2
          <6> QED BY <2>0, <4>2, <6>1, <6>2
        <5> QED BY <5>1, <5>2
      <4>3. i # L + 1
        BY <2>1, <3>9 DEF Is
      <4> QED BY <2>3, <4>1, <4>2, <4>3
    <3>10. drain' # "process" /\ Is(1, m, "content")' => journal'[1].ver = P
      <4>1. drain # "process" => 1 \in 1..L
        BY <2>0, Pop DEF M!TypeOK
      <4> QED BY <1>2, <2>0, <3>2, <4>1 DEF HasSeen, Is
    <3>11. HasSeen(m, E, P)'
      BY <1>2, <3>3, <3>5, <3>6, <3>8, <3>9, <3>10 DEF HasSeen
    <3> QED BY <3>11
  <2>7. Ordered(m, E)'
    BY <1>9, <2>5, <2>6 DEF Ordered
  <2> QED BY <1>1, <2>7
<1>12. ~auto => heard' = heard
  BY DEF M!TgEdit, M!Journalled
<1> QED BY <1>10, <1>11, <1>12, EditPushes

LEMMA OrderKept ==
  ASSUME M!TypeOK, M!TypeOK', ReadsTakeTurns, NewsAreFirst, UnsentIsUnknown,
         M!NewIsStored, NewsComeFirst, VersionsOrdered, [M!Next]_(M!vars)
  PROVE  VersionsOrdered'
<1> SUFFICES ASSUME NEW m \in Messages
             PROVE  \E D \in [M!Versions -> M!Times] : Ordered(m, D)'
  BY DEF VersionsOrdered
<1>1. PICK D \in [M!Versions -> M!Times] : Ordered(m, D)
  BY DEF VersionsOrdered
<1>2. CASE \/ M!Tick \/ M!Apply \/ M!Retry \/ M!Restart \/ UNCHANGED M!vars
           \/ \E n \in Messages : \/ M!TgDelete(n)
                                  \/ n # m /\ (M!TgSend(n) \/ M!TgEdit(n))
           \/ \E r \in Readers : \/ \E n \in Messages : M!Fetch(r, n)
                                 \/ M!ReadApply(r) \/ M!ReadList(r) \/ M!ReadFails(r)
  BY <1>1, <1>2, CalmStep
<1>3. CASE M!Process
  BY <1>1, <1>3, ProcessStep
<1>4. CASE M!Ack
  BY <1>1, <1>4, AckStep
<1>5. CASE M!TgSend(m)
  BY <1>5, SendStep
<1>6. CASE M!TgEdit(m)
  BY <1>1, <1>6, EditStep
<1>7. ASSUME NEW r \in Readers, M!ReadUpsert(r)
      PROVE  \E E \in [M!Versions -> M!Times] : Ordered(m, E)'
  BY <1>1, <1>7, ReadUpsertStep
<1> QED BY <1>2, <1>3, <1>4, <1>5, <1>6, <1>7 DEF M!Next

-----------------------------------------------------------------------------
\* The inductive invariant holds of an empty mirror.
THEOREM MirrorInitially == M!Init => MirrorInv
<1> SUFFICES ASSUME M!Init PROVE MirrorInv
  OBVIOUS
<1>1. M!TypeOK
  BY MirrorTypeInit
<1>2. DOMAIN journal = {}
  BY DEF M!Init
<1>3. /\ \A m \in Messages : /\ ~rows[m].stored /\ rows[m].edit = 0
                             /\ heard[m] = M!Nothing /\ ~heard[m].new /\ ~heard[m].gone
                             /\ heard[m].ver = 0
      /\ \A r \in Readers : read[r].step = "idle" /\ read[r].msg \notin Messages
  BY MirrorBounds DEF M!Init, M!NoRow, M!NoRead, M!Nothing
<1>4. ASSUME NEW m \in Messages
      PROVE  \E D \in [M!Versions -> M!Times] : Ordered(m, D)
  <2>1. tg[m] \in {M!Unsent, M!Old}
    BY DEF M!Init
  <2>2. PICK s \in M!Times : s = tg[m].sent
    BY <1>1, MirrorBounds DEF M!TypeOK, M!Originals
  <2>3. PICK D \in [M!Versions -> M!Times] : D[0] = s
    <3>1. [v \in M!Versions |-> s] \in [M!Versions -> M!Times] /\ 0 \in M!Versions
      BY MirrorBounds DEF M!Versions
    <3> QED BY <3>1
  <2>4. tg[m].ver = 0 /\ tg[m].edit = 0 /\ tg[m].sent \in 0..1
    BY <2>1 DEF M!Unsent, M!Old
  <2>5. 0..tg[m].ver = {0} /\ now = 1
    BY <2>4 DEF M!Init
  <2>6. Dated(m, D)
    BY <1>3, <2>2, <2>3, <2>4, <2>5 DEF Dated, M!Age
  <2>7. QuietRow(m, D)
    BY <1>2, <1>3 DEF QuietRow, RowDated, RowListed
  <2> QED BY <1>3, <2>6, <2>7 DEF Ordered, Tracked
<1>5. UnsentIsUnknown
  <2>1. \A m \in Messages : tg[m].state = "none" => tg[m] = M!Unsent
    BY DEF M!Init, M!Unsent, M!Old
  <2> QED BY <1>2, <1>3, <2>1 DEF UnsentIsUnknown
<1>6. NewsAreFirst /\ HeadIsDone /\ NewsComeFirst
  BY <1>2 DEF NewsAreFirst, HeadIsDone, NewsComeFirst, M!Init
<1>7. GoneIsTombed /\ M!NewIsStored /\ ReadsTakeTurns
  BY <1>3 DEF GoneIsTombed, M!NewIsStored, ReadsTakeTurns
<1> QED BY <1>1, <1>4, <1>5, <1>6, <1>7 DEF MirrorInv, VersionsOrdered

\* It holds whatever the order of updates, jobs, reads, failures and restarts.
THEOREM MirrorInvariant == M!Spec => []MirrorInv
<1>1. MirrorInv /\ [M!Next]_(M!vars) => MirrorInv'
  <2> SUFFICES ASSUME MirrorInv, [M!Next]_(M!vars) PROVE MirrorInv'
    OBVIOUS
  <2> USE DEF MirrorInv
  <2>1. M!TypeOK'
    BY MirrorTypeStep
  <2>2. NewsAreFirst' /\ HeadIsDone'
    BY NewsAreFirstKept, HeadIsDoneKept
  <2>3. UnsentIsUnknown' /\ NewsComeFirst'
    BY UnsentKept, NewsComeFirstKept
  <2>4. GoneIsTombed' /\ M!NewIsStored'
    BY DeletionsKept, NewIsStoredKept
  <2>5. ReadsTakeTurns'
    BY TurnsKept
  <2>6. VersionsOrdered'
    BY <2>1, OrderKept
  <2> QED BY <2>1, <2>2, <2>3, <2>4, <2>5, <2>6
<1> QED BY <1>1, MirrorInitially, PTL DEF M!Spec

\* A deletion that left the journal hides its message for good, whatever page
\* is stored later (messages/repository.go ApplyTombstones and the view
\* active_messages), for any number of messages, readers and edits.
THEOREM MirrorHidesDeleted == M!Spec => []DeletedIsHidden
<1>1. MirrorInv => DeletedIsHidden
  BY DEF MirrorInv, GoneIsTombed, DeletedIsHidden, M!DeletedIsHidden, M!Visible
<1> QED BY <1>1, MirrorInvariant, PTL

\* RunUpdates acknowledges a new message or an edit only once the mirror holds
\* it, and Upsert lets no page with an older version take it back, for any number
\* of messages, readers, edits and restarts.
THEOREM MirrorHoldsUpdates == M!Spec => []UpdatesArrive
<1>1. MirrorInv => UpdatesArrive
  <2> SUFFICES ASSUME MirrorInv, NEW m \in Messages \ unsure, heard[m].new,
                      ~M!Awaited(m, {"new", "content", "edited"})
               PROVE  rows[m].ver >= heard[m].ver
    BY DEF UpdatesArrive, M!UpdatesArrive, M!EditsArrive, MirrorInv
  <2>1. PICK D \in [M!Versions -> M!Times], P \in M!Versions : HasSeen(m, D, P)
    BY DEF MirrorInv, VersionsOrdered, Ordered, Tracked
  <2>2. heard[m].ver = P
    BY <2>1 DEF HasSeen, LastEdit, Is, M!Awaited
  <2>3. rows[m].stored
    BY DEF MirrorInv, M!NewIsStored, M!Awaited
  <2> QED BY <2>1, <2>2, <2>3 DEF HasSeen, RowSeen
<1> QED BY <1>1, MirrorInvariant, PTL

\* ListActiveByIDs answers an on-demand read with nothing older than the read
\* itself fetched, because Refresh lets one read at a time fetch and store.
THEOREM MirrorFreshRead == M!Spec => FreshRead
<1>1. MirrorInv /\ [M!Next]_(M!vars) =>
        [\A r \in Readers :
            read'[r].step = "told" /\ read[r].step = "list" =>
                \/ rows[read[r].msg].ver >= read[r].ver
                \/ heard[read[r].msg].ver > 0]_(M!vars)
  <2> SUFFICES ASSUME MirrorInv, NEW r \in Readers, read[r].step = "list"
               PROVE  \/ rows[read[r].msg].ver >= read[r].ver
                      \/ heard[read[r].msg].ver > 0
    OBVIOUS
  <2>1. read[r].msg \in Messages /\ ~auto
    BY DEF MirrorInv, ReadsTakeTurns
  <2>2. PICK m \in Messages : m = read[r].msg
    BY <2>1
  <2>3. heard[m].ver \in Nat
    BY MirrorBounds DEF MirrorInv, M!TypeOK, M!Heard, M!Versions
  <2>4. CASE Quiet(m)
    <3>1. PICK D \in [M!Versions -> M!Times] : QuietRow(m, D)
      BY <2>4 DEF MirrorInv, VersionsOrdered, Ordered
    <3> QED BY <2>1, <2>2, <3>1 DEF QuietRow, RowListed
  <2>5. CASE ~Quiet(m)
    BY <2>2, <2>3, <2>5 DEF Quiet
  <2> QED BY <2>4, <2>5
<1> QED BY <1>1, MirrorInvariant, PTL DEF M!Spec, FreshRead, M!FreshRead
=============================================================================
