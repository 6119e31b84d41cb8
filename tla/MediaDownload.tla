---------------------------- MODULE MediaDownload ----------------------------
(***************************************************************************)
(* One attachment: its row in message_media, the object that holds its     *)
(* bytes, the handlers that fetch it from Telegram (worker/media.go), and  *)
(* the downloads through the links (httpserver/media_download.go).  With   *)
(* automatic sync the handlers are queued jobs, several at a time; without *)
(* it they run inside the requests for a link or a preview, one at a time  *)
(* per account.  A restart may change the mode.  A handler whose context   *)
(* ended, or whose process crashed, writes nothing more.                   *)
(* Meanwhile the message may be deleted, the token revoked, the chat's     *)
(* permission changed and the link expire.                                 *)
(***************************************************************************)
EXTENDS Naturals, FiniteSets

CONSTANTS
    Workers,        \* handlers in flight
    Clients,        \* downloads through a link in flight
    MaxAttempts     \* claims of an attachment (5 in the code)

ASSUME MediaAssumption == MaxAttempts \in Nat /\ Workers \cap Clients = {}

VARIABLES
    auto,       \* TELEGRAM_AUTO_SYNC of the running process
    status,     \* download_status
    attempts,   \* attempt_count
    stale,      \* last_attempt_at is 15 minutes old
    object,     \* the object store holds the file
    facts,      \* what holds now: see Facts
    link,       \* a row of media_read_tickets
    work,       \* kind and step of each handler, and whether the claim in the
                \* row is its own and younger than 15 minutes
    get,        \* step of each download
    since       \* history: the facts that held at some time since the step a
                \* request is judged from

vars == <<auto, status, attempts, stale, object, facts, link, work, get, since>>

-----------------------------------------------------------------------------
\* The bearer token is valid, the message is in active_messages, the chat may
\* be read, the link has not expired.
Facts == {"token", "visible", "perm", "unexpired"}

Kinds == {"none", "job", "ticket", "inspect"}
Claimed == {"source", "fetch", "put", "mark", "fail"}
WorkSteps == {"idle", "look", "claim", "ready", "open", "insert", "allow",
              "answer"} \cup Claimed
Idle == [kind |-> "none", step |-> "idle", fresh |-> FALSE]

TypeOK ==
    /\ auto \in BOOLEAN
    /\ status \in {"none", "pending", "downloading", "failed", "ready"}
    /\ attempts \in 0..MaxAttempts
    /\ stale \in BOOLEAN
    /\ object \in BOOLEAN
    /\ facts \in SUBSET Facts
    /\ link \in {"none", "issued", "purged"}
    /\ work \in [Workers -> [kind : Kinds, step : WorkSteps, fresh : BOOLEAN]]
    /\ get \in [Clients -> {"idle", "lookup", "allow", "open", "serve"}]
    /\ since \in [Workers \cup Clients -> SUBSET Facts]

Init ==
    /\ auto \in BOOLEAN
    /\ status = "none" /\ attempts = 0 /\ stale = FALSE
    /\ object = FALSE
    /\ facts = Facts
    /\ link = "none"
    /\ work = [w \in Workers |-> Idle]
    /\ get = [d \in Clients |-> "idle"]
    /\ since = [a \in Workers \cup Clients |-> {}]

-----------------------------------------------------------------------------
(* The world: messages, owners, time.                                      *)

\* RegisterPending, for a message that is stored the first time or again.
Registered == IF status = "none" THEN "pending" ELSE status

Register ==
    /\ status' = Registered
    /\ UNCHANGED <<auto, attempts, stale, object, facts, link, work, get, since>>

\* Revocation of the token, deletion of the message, expiry of the link, or the
\* owner taking the permission away.
Ends(f) ==
    /\ f \in facts
    /\ f = "unexpired" => link = "issued"
    /\ facts' = facts \ {f}
    /\ UNCHANGED <<auto, status, attempts, stale, object, link, work, get, since>>

\* The owner allows the chat again; it counts for the requests in flight.
Allow ==
    /\ "perm" \notin facts
    /\ facts' = facts \cup {"perm"}
    /\ since' = [a \in DOMAIN since |-> since[a] \cup {"perm"}]
    /\ UNCHANGED <<auto, status, attempts, stale, object, link, work, get>>

\* Fifteen minutes pass since the claim.  An on-demand request is over after
\* 45 s; a queued job may still be at work.
Stales ==
    /\ status = "downloading" /\ ~stale
    /\ auto \/ \A w \in Workers : work[w].step \notin Claimed
    /\ stale' = TRUE
    /\ work' = [w \in Workers |-> [work[w] EXCEPT !.fresh = FALSE]]
    /\ UNCHANGED <<auto, status, attempts, object, facts, link, get, since>>

\* The process ends, with everything it had in flight, and starts again.
Restart ==
    /\ auto' \in BOOLEAN
    /\ work' = [w \in Workers |-> Idle]
    /\ get' = [d \in Clients |-> "idle"]
    /\ since' = [a \in DOMAIN since |-> {}]
    /\ UNCHANGED <<status, attempts, stale, object, facts, link>>

\* Maintain deletes expired tickets.
Purge ==
    /\ link = "issued" /\ "unexpired" \notin facts
    /\ link' = "purged"
    /\ UNCHANGED <<auto, status, attempts, stale, object, facts, work, get, since>>

-----------------------------------------------------------------------------
Goto(w, step) == work' = [work EXCEPT ![w].step = step]
Leave(w) == work' = [work EXCEPT ![w] = Idle]

\* What a handler that found the file stored goes on with.
After(kind) == CASE kind = "ticket" -> "ready"
                 [] kind = "inspect" -> "open"
                 [] OTHER -> "idle"

Proceed(w) == IF work[w].kind = "job" THEN Leave(w)
              ELSE Goto(w, After(work[w].kind))

\* A job, or a request whose token, scope, permission (chatAccess) and active
\* media row (GetActive) were found: refreshRead does nothing in automatic mode.
Start(w, kind) ==
    /\ work[w] = Idle /\ status # "none"
    /\ kind = "job" => auto
    /\ kind # "job" => {"token", "visible", "perm"} \subseteq facts
    /\ work' = [work EXCEPT ![w] =
                    [kind |-> kind, fresh |-> FALSE,
                     step |-> IF auto /\ kind # "job" THEN After(kind)
                              ELSE "look"]]
    /\ UNCHANGED <<auto, status, attempts, stale, object, facts, link, get, since>>

\* Refresh holds the account's lock from here to the end of the handler.
Serialized == auto \/ \A v \in Workers : work[v].step \notin {"claim"} \cup Claimed

\* GetForWorker: ready is a success, exhausted attempts are not.
Look(w) ==
    /\ work[w].step = "look" /\ Serialized
    /\ \/ status = "ready" /\ Proceed(w)
       \/ status # "ready" /\ attempts < MaxAttempts /\ Goto(w, "claim")
       \/ status # "ready" /\ attempts >= MaxAttempts /\ Leave(w)
    /\ UNCHANGED <<auto, status, attempts, stale, object, facts, link, get, since>>

\* Mutant: a claim does not look at the age of the one before.
ClaimableAlways == attempts < MaxAttempts
                   /\ status \in {"pending", "failed", "downloading"}

\* The WHERE of ClaimDownloadRecoverable.
Claimable ==
    /\ attempts < MaxAttempts
    /\ \/ status \in {"pending", "failed"}
       \/ status = "downloading" /\ stale

Claim(w) ==
    /\ work[w].step = "claim"
    /\ \/ /\ Claimable
          /\ status' = "downloading" /\ attempts' = attempts + 1
          /\ stale' = FALSE
          /\ work' = [work EXCEPT ![w].step = "source", ![w].fresh = TRUE]
       \/ /\ ~Claimable
          /\ IF status = "ready" THEN Proceed(w) ELSE Leave(w)
          /\ UNCHANGED <<auto, status, attempts, stale>>
    /\ UNCHANGED <<auto, object, facts, link, get, since>>

\* DownloadSource and ResolveMessageFile, then DownloadFile.
Source(w) ==
    /\ work[w].step = "source"
    /\ \/ "visible" \in facts /\ Goto(w, "fetch")
       \/ Goto(w, "fail")
    /\ UNCHANGED <<auto, status, attempts, stale, object, facts, link, get, since>>

Fetch(w) ==
    /\ work[w].step = "fetch"
    /\ Goto(w, "put") \/ Goto(w, "fail")
    /\ UNCHANGED <<auto, status, attempts, stale, object, facts, link, get, since>>

\* Mutant: the row is marked before the object is written.
PutLater(w) ==
    /\ work[w].step = "put"
    /\ Goto(w, "mark")
    /\ UNCHANGED <<auto, status, attempts, stale, object, facts, link, get, since>>

\* StoreDownload: the object is complete or the Put fails.
Put(w) ==
    /\ work[w].step = "put"
    /\ \/ object' = TRUE /\ Goto(w, "mark")
       \/ Goto(w, "fail") /\ UNCHANGED object
    /\ UNCHANGED <<auto, status, attempts, stale, facts, link, get, since>>

\* MarkReady, WHERE download_status = 'downloading'; then the audit entry.
MarkReady(w) ==
    /\ work[w].step = "mark"
    /\ \/ /\ status = "downloading" /\ status' = "ready"
          /\ Proceed(w) \/ Leave(w)
       \/ Goto(w, "fail") /\ UNCHANGED status
    /\ UNCHANGED <<auto, attempts, stale, object, facts, link, get, since>>

\* MarkFailed, WHERE download_status = 'downloading': whoever claimed it.
Failed == IF status = "downloading" THEN "failed" ELSE status

MarkFailed(w) ==
    /\ work[w].step = "fail"
    /\ status' = Failed
    /\ work' = [v \in Workers |->
                  IF v = w THEN Idle
                  ELSE [work[v] EXCEPT !.fresh = @ /\ status' = status]]
    /\ UNCHANGED <<auto, attempts, stale, object, facts, link, get, since>>

\* The request is cancelled or times out, the process crashes, or a call that
\* is not followed by MarkFailed returns an error.
Abandon(w) ==
    /\ work[w] # Idle
    /\ Leave(w)
    /\ UNCHANGED <<auto, status, attempts, stale, object, facts, link, get, since>>

-----------------------------------------------------------------------------
\* mediaTicket: CheckReady, the audit entry, and a link for five minutes.
CheckReady(w) ==
    /\ work[w].step = "ready"
    /\ "visible" \in facts /\ status = "ready"
    /\ Goto(w, "insert")
    /\ UNCHANGED <<auto, status, attempts, stale, object, facts, link, get, since>>

InsertTicket(w) ==
    /\ work[w].step = "insert"
    /\ link = "none"
    /\ link' = "issued"
    /\ Leave(w)
    /\ UNCHANGED <<auto, status, attempts, stale, object, facts, get, since>>

\* OpenRead: the active row, ready, and its object.
Openable == "visible" \in facts /\ status = "ready" /\ object

\* inspectMedia opens the object, renders it, and asks for the permission again.
InspectOpen(w) ==
    /\ work[w].step = "open" /\ Openable
    /\ Goto(w, "allow")
    /\ since' = [since EXCEPT ![w] = facts]
    /\ UNCHANGED <<auto, status, attempts, stale, object, facts, link, get>>

\* allowMedia: the row is active and its chat may be read.
InspectAllow(w) ==
    /\ work[w].step = "allow" /\ {"visible", "perm"} \subseteq facts
    /\ Goto(w, "answer")
    /\ UNCHANGED <<auto, status, attempts, stale, object, facts, link, get, since>>

WorkStep(w) ==
    \/ \E k \in {"job", "ticket", "inspect"} : Start(w, k)
    \/ Look(w) \/ Claim(w) \/ Source(w) \/ Fetch(w) \/ Put(w) \/ MarkReady(w)
    \/ MarkFailed(w) \/ Abandon(w) \/ CheckReady(w) \/ InsertTicket(w)
    \/ InspectOpen(w) \/ InspectAllow(w)

-----------------------------------------------------------------------------
Step(d, from, to) ==
    /\ get[d] = from
    /\ get' = [get EXCEPT ![d] = to]
    /\ UNCHANGED <<auto, status, attempts, stale, object, facts, link, work>>

\* A download through the link begins.
GetStart(d) == Step(d, "idle", "lookup") /\ since' = [since EXCEPT ![d] = facts]

\* Mutant: the token of the link is not looked at again.
GetLookupLinkOnly(d) ==
    /\ link = "issued" /\ "unexpired" \in facts
    /\ Step(d, "lookup", "allow") /\ UNCHANGED since

\* The link joined with its token, client and account: all valid now.
GetLookup(d) ==
    /\ link = "issued" /\ {"unexpired", "token"} \subseteq facts
    /\ Step(d, "lookup", "allow") /\ UNCHANGED since

GetAllow(d) ==
    /\ {"visible", "perm"} \subseteq facts
    /\ Step(d, "allow", "open") /\ UNCHANGED since

\* OpenRead and the audit entry; the bytes follow.
GetOpen(d) == Openable /\ Step(d, "open", "serve") /\ UNCHANGED since

\* 404, 403, 503, or the end of the download.
GetEnd(d) ==
    /\ get[d] # "idle"
    /\ get' = [get EXCEPT ![d] = "idle"]
    /\ since' = [since EXCEPT ![d] = {}]
    /\ UNCHANGED <<auto, status, attempts, stale, object, facts, link, work>>

GetStep(d) == GetStart(d) \/ GetLookup(d) \/ GetAllow(d) \/ GetOpen(d)
              \/ GetEnd(d)

Next ==
    \/ Register \/ Allow \/ Stales \/ Restart \/ Purge
    \/ \E f \in Facts : Ends(f)
    \/ \E w \in Workers : WorkStep(w)
    \/ \E d \in Clients : GetStep(d)

Spec == Init /\ [][Next]_vars

-----------------------------------------------------------------------------
\* A row that says ready has its object, whichever of several handlers wrote
\* the row and the object last and wherever they were interrupted.
ReadyIsStored == status = "ready" => object

\* "media download is currently owned by another worker" (media.go:60): while a
\* claim is younger than fifteen minutes nobody else obtains one, so two handlers
\* never both work under such a claim, unless one that outlived its own claim has
\* failed the other's.
OneFreshClaim ==
    \A v, w \in Workers :
        /\ work[v].step \in Claimed /\ work[v].fresh
        /\ work[w].step \in Claimed /\ work[w].fresh
        => v = w

\* "Downloads recheck token validity and the active media projection, so expiry,
\* revocation and Telegram deletion invalidate previously issued links"
\* (README.md:314): no download that began after one of them serves a byte.
LinksRecheck == \A d \in Clients : get[d] = "serve" => since[d] = Facts

\* A preview is answered only if the chat could be read, and the message was
\* there, at some time after the file was opened: a permission withdrawn while
\* the file was being fetched counts.
PreviewRechecks ==
    \A w \in Workers :
        work[w].step = "answer" => {"visible", "perm"} \subseteq since[w]

\* No byte of a file leaves on a permission that ended before it was asked for,
\* by a link or as a preview.
BytesRecheck == LinksRecheck /\ PreviewRechecks

\* A file that is ready can be read, now and later: every step that leaves the
\* row ready leaves its object stored, and neither a handler that lost its claim,
\* a message stored again nor a late failure takes the row back.
ReadyHolds == [][ReadyIsStored' /\ (status = "ready" => status' = "ready")]_vars
=============================================================================
