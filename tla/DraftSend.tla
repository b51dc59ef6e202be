------------------------------ MODULE DraftSend ------------------------------
(***************************************************************************)
(* Sending mail from a saved draft: the owner's requests (create, edit,    *)
(* delete, send, and a direct send), the scheduler that fires due drafts,  *)
(* the idempotency keys of keyed sends, and the SMTP transport whose       *)
(* answer can be lost after it has accepted the message.                   *)
(*                                                                         *)
(* One step is one critical section of the store's connection lock, one    *)
(* effect of the transport, or one return of a handler: everything that    *)
(* can interleave between two awaits of backend/src/api.rs does.           *)
(***************************************************************************)
EXTENDS Naturals, FiniteSets

CONSTANTS
  Drafts,       \* draft ids (uuids: an id is never used twice)
  Unreadable,   \* scheduled rows whose sealed columns no longer open
  Handlers,     \* concurrent HTTP requests
  Keys,         \* idempotency keys
  LegacyKeys,   \* keys that still have a row in the old mail_idempotency table
  Bodies,       \* message contents; a content is also its request hash
  Scheduler,    \* the single scheduled-draft task
  NoDraft, NoKey, NoBody,
  NoTime,       \* send_at IS NULL
  BadTime,      \* a send_at from before validation: not blank, does not parse
  MaxTime,      \* bound: the clock runs from 0 to MaxTime
  PollLimit,    \* rows one poll loads (16 in the program)
  MaxRequests,  \* bound: owner requests in a behaviour
  MaxFaults     \* bound: restarts and failing store calls in a behaviour

ASSUME UnreadableAreDrafts == Unreadable \subseteq Drafts
ASSUME LegacyAreKeys == LegacyKeys \subseteq Keys
ASSUME SchedulerIsNotAHandler == Scheduler \notin Handlers
ASSUME Sentinels ==
  /\ NoDraft \notin Drafts
  /\ NoKey \notin Keys
  /\ NoBody \notin Bodies
  /\ NoTime \notin Nat
  /\ BadTime \notin Nat
  /\ NoTime # BadTime
ASSUME Bounds ==
  /\ MaxTime \in Nat
  /\ PollLimit \in Nat \ {0}
  /\ MaxRequests \in Nat
  /\ MaxFaults \in Nat
ASSUME SomeBody == Bodies # {}

VARIABLES
  \* the drafts table
  status,       \* [Drafts -> Statuses]
  sendAt,       \* [Drafts -> SendTimes]
  body,         \* [Drafts -> Bodies]
  \* the mail_send_claims table
  claimedFor,   \* [Keys -> Bodies \cup {NoBody}]: the request that holds the key
  replay,       \* [Keys -> BOOLEAN]: its response is stored
  \* volatile state: lost in a crash
  pc,           \* [Procs -> PCs]
  job,          \* [Procs -> Jobs]: what the process has in local variables
  batch,        \* draft ids the current poll listed and has not tried yet
  polledAt,     \* the scheduler's `now`, read once per poll
  \* environment
  now, requests, faults,
  \* history, for the properties only
  accepted,     \* [Drafts -> SUBSET Routes]: how the transport accepted the
                \*   row's contents since the owner last wrote them
  keyAccepts,   \* [Keys -> Nat]: messages the transport accepted under a key
  autoSpent,    \* drafts the scheduler handed over since the owner last acted
  parked        \* drafts the scheduler parked and the owner has not rewritten

table   == <<status, sendAt, body>>
claims  == <<claimedFor, replay>>
local   == <<pc, job>>
poll    == <<batch, polledAt>>
world   == <<now, requests, faults>>
history == <<accepted, keyAccepts, autoSpent, parked>>
vars    == <<table, claims, local, poll, world, history>>

-----------------------------------------------------------------------------
(* Values                                                                  *)

Procs == Handlers \cup {Scheduler}

Times == 0..MaxTime
SendTimes == Times \cup {NoTime, BadTime}

\* "absent": not created yet; "deleted": the row is gone for good.
Statuses ==
  {"absent", "draft", "scheduled", "sending", "sent", "failed", "deleted"}

\* Mutants of Editable: a claimed, or a sent, draft can be claimed again.
EditableClaimed == {"draft", "scheduled", "failed", "sending"}
EditableSent == {"draft", "scheduled", "failed", "sent"}

\* draft_is_editable, and the predicate of claim_draft and update_draft.
Editable == {"draft", "scheduled", "failed"}

\* Where a status read and a settlement put the row back to.
BackTo == {"draft", "scheduled", "failed"}

Routes == {"auto", "keyed", "plain"}

\* Program points between two awaits of the send paths:
\*   edit      update_draft has read the row, has not written it
\*   claim     send_draft has read the row / claim_due_draft has read send_at
\*   check     the row is claimed; the outbound checks have not run
\*   claimKey  lookup_send found no claim; claim_send has not run
\*   transport the message is being handed to the relay
\*   accepted  the relay took it; the sender has not seen the answer
\*   complete  the outbound row is stored; complete_send has not run
\*   recheck   a keyed send failed; keyed_send_never_claimed has not run
\*   settle    the outcome is known; finish_draft_send has not run
PCs == {"idle", "edit", "claim", "check", "claimKey", "transport",
        "accepted", "complete", "recheck", "settle"}

Jobs == [draft : Drafts \cup {NoDraft},
         key   : Keys \cup {NoKey},
         body  : Bodies \cup {NoBody},  \* what is being sent or written
         at    : SendTimes,             \* send_at read, judged or to be written
         back  : BackTo,                \* status a failed send restores
         ok    : BOOLEAN]               \* the send succeeded

NoJob == [draft |-> NoDraft, key |-> NoKey, body |-> NoBody,
          at |-> NoTime, back |-> "draft", ok |-> FALSE]

Keyed(p) == job[p].key # NoKey

Route(p) == IF p = Scheduler THEN "auto" ELSE IF Keyed(p) THEN "keyed" ELSE "plain"

\* The process owns the claim of draft d: it moved the row to `sending`.
ClaimPCs == {"check", "claimKey", "transport", "accepted",
             "complete", "recheck", "settle"}
Holds(p, d) == job[p].draft = d /\ pc[p] \in ClaimPCs

\* A row the API can load: get_draft fails on a row that does not open.
Visible(d) == d \notin Unreadable /\ status[d] \notin {"absent", "deleted"}

IsDue(d, t) ==
  /\ status[d] = "scheduled"
  /\ sendAt[d] # NoTime
  /\ sendAt[d] = BadTime \/ sendAt[d] \in 0..t

\* Order of list_due_drafts: a time that does not parse sorts first.
Older(c, d) ==
  \/ sendAt[c] = BadTime /\ sendAt[d] # BadTime
  \/ /\ {sendAt[c], sendAt[d]} \subseteq Nat
     /\ sendAt[c] < sendAt[d]

\* The due rows one poll may take: the oldest PollLimit of them. The limit
\* counts rows, and the ones that do not open are dropped only afterwards.
DueBatches(t) ==
  LET due == {d \in Drafts : IsDue(d, t)}
  IN  {b \in SUBSET due :
         /\ b = due \/ Cardinality(b) = PollLimit
         /\ Cardinality(b) <= PollLimit
         /\ \A d \in b, c \in due \ b : ~Older(c, d)}

\* read_send_claim for key k and the request whose hash is b.
Lookup(k, b) ==
  CASE k \in LegacyKeys -> "unresolved"
    [] k \notin LegacyKeys /\ claimedFor[k] = NoBody -> "none"
    [] k \notin LegacyKeys /\ claimedFor[k] \notin {NoBody, b} -> "conflict"
    [] k \notin LegacyKeys /\ claimedFor[k] = b /\ replay[k] -> "replay"
    [] OTHER -> "unresolved"

-----------------------------------------------------------------------------
(* Control flow shared by the send paths                                   *)

Goto(p, point) == pc' = [pc EXCEPT ![p] = point]

Finish(p) ==
  /\ pc' = [pc EXCEPT ![p] = "idle"]
  /\ job' = [job EXCEPT ![p] = NoJob]

\* send_message has its response. A direct send returns it; a draft send
\* goes on to settle the draft.
Respond(p, point, ok) ==
  IF job[p].draft = NoDraft
  THEN Finish(p)
  ELSE /\ Goto(p, point)
       /\ job' = [job EXCEPT ![p].ok = ok]

\* Mutant of RespondUnclear: every failure restores the draft.
RespondUnclearRestores(p) == Respond(p, "settle", FALSE)

\* A failure that is a 409 or a 5xx: with a key, send_draft asks whether the
\* key was ever claimed; without one, every failure restores the draft.
RespondUnclear(p) == Respond(p, IF Keyed(p) THEN "recheck" ELSE "settle", FALSE)

\* An owner request starts.
Request(h) ==
  /\ pc[h] = "idle"
  /\ requests < MaxRequests
  /\ requests' = requests + 1

-----------------------------------------------------------------------------
(* The owner's draft requests                                              *)

\* create_draft: one insert. A refused draft leaves no row.
CreateDraft(h, d, b, t) ==
  /\ Request(h)
  /\ status[d] = "absent"
  /\ status' = [status EXCEPT ![d] = IF t = NoTime THEN "draft" ELSE "scheduled"]
  /\ sendAt' = [sendAt EXCEPT ![d] = t]
  /\ body' = [body EXCEPT ![d] = b]
  /\ UNCHANGED <<claims, local, poll, now, faults, history>>

\* update_draft reads the row and validates the new contents ...
EditRead(h, d, b, t) ==
  /\ Request(h)
  /\ Visible(d)
  /\ status[d] \in Editable
  /\ Goto(h, "edit")
  /\ job' = [job EXCEPT ![h] = [NoJob EXCEPT !.draft = d, !.body = b, !.at = t]]
  /\ UNCHANGED <<table, claims, poll, now, faults, history>>

\* Mutant of EditWrite: the write is not guarded by the status.
EditWriteUnguarded(h) ==
  LET d == job[h].draft
  IN  /\ pc[h] = "edit"
      /\ body' = [body EXCEPT ![d] = job[h].body]
      /\ Finish(h)
      /\ UNCHANGED <<status, sendAt, claims, poll, world, history>>

\* ... and writes it, only while the row is still editable.
EditWrite(h) ==
  LET d == job[h].draft
      t == job[h].at
  IN  /\ pc[h] = "edit"
      /\ IF status[d] \in Editable
         THEN /\ status' = [status EXCEPT
                              ![d] = IF t = NoTime THEN "draft" ELSE "scheduled"]
              /\ sendAt' = [sendAt EXCEPT ![d] = t]
              /\ body' = [body EXCEPT ![d] = job[h].body]
              /\ accepted' = [accepted EXCEPT ![d] = {}]
              /\ autoSpent' = autoSpent \ {d}
              /\ parked' = parked \ {d}
         ELSE UNCHANGED <<table, accepted, autoSpent, parked>>
      /\ Finish(h)
      /\ UNCHANGED <<claims, poll, world, keyAccepts>>

\* delete_draft, or delete_inbox through the drafts' foreign key (which takes
\* the rows that do not open too): unguarded, also for a row being sent.
DeleteDraft(h, d) ==
  /\ Request(h)
  /\ status[d] \notin {"absent", "deleted"}
  /\ status' = [status EXCEPT ![d] = "deleted"]
  /\ UNCHANGED <<sendAt, body, claims, local, poll, now, faults, history>>

\* Mutant of SendRead: a failure restores whatever status was read.
SendReadRestoresStatus(h, d, k) ==
  /\ Request(h)
  /\ Visible(d)
  /\ Goto(h, "claim")
  /\ job' = [job EXCEPT ![h] =
               [NoJob EXCEPT !.draft = d, !.key = k, !.back = status[d]]]
  /\ UNCHANGED <<table, claims, poll, now, faults, history>>

\* send_draft reads the row and remembers whether it was parked ...
SendRead(h, d, k) ==
  /\ Request(h)
  /\ Visible(d)
  /\ Goto(h, "claim")
  /\ job' = [job EXCEPT ![h] =
               [NoJob EXCEPT !.draft = d, !.key = k,
                  !.back = IF status[d] = "failed" THEN "failed" ELSE "draft"]]
  /\ UNCHANGED <<table, claims, poll, now, faults, history>>

\* ... claims it, and decides from both what a failure restores.
SendClaim(h) ==
  LET d == job[h].draft
  IN  /\ h \in Handlers
      /\ pc[h] = "claim"
      /\ IF status[d] \in Editable
         THEN /\ status' = [status EXCEPT ![d] = "sending"]
              /\ Goto(h, "check")
              /\ job' = [job EXCEPT
                           ![h].body = body[d],
                           ![h].back = IF job[h].back = "failed" THEN "failed"
                                       ELSE IF sendAt[d] # NoTime
                                            THEN "scheduled" ELSE "draft"]
              /\ autoSpent' = autoSpent \ {d}
         ELSE Finish(h) /\ UNCHANGED <<status, autoSpent>>
      /\ UNCHANGED <<sendAt, body, claims, poll, world,
                     accepted, keyAccepts, parked>>

\* POST /send: the same send_message without a draft. Without a key such a
\* request touches nothing modelled here.
DirectSend(h, k, b) ==
  /\ Request(h)
  /\ Goto(h, "check")
  /\ job' = [job EXCEPT ![h] = [NoJob EXCEPT !.key = k, !.body = b]]
  /\ UNCHANGED <<table, claims, poll, now, faults, history>>

-----------------------------------------------------------------------------
(* The scheduler                                                           *)

\* spawn_draft_scheduler: read the clock, list the due drafts.
Poll ==
  /\ pc[Scheduler] = "idle"
  /\ batch = {}
  /\ \E b \in DueBatches(now) : batch' = b \ Unreadable
  /\ batch' # {}
  /\ polledAt' = now
  /\ UNCHANGED <<table, claims, local, world, history>>

\* Mutants of DueRead: a failed attempt is scheduled again; a send_at that
\* does not parse is never due.
DueReadRetries(d) ==
  /\ pc[Scheduler] = "idle"
  /\ d \in batch
  /\ batch' = batch \ {d}
  /\ IF IsDue(d, polledAt)
     THEN /\ Goto(Scheduler, "claim")
          /\ job' = [job EXCEPT ![Scheduler] =
                       [NoJob EXCEPT !.draft = d, !.at = sendAt[d],
                                     !.back = "scheduled"]]
     ELSE UNCHANGED local
  /\ UNCHANGED <<table, claims, polledAt, world, history>>

DueReadSkipsUnparsed(d) ==
  /\ pc[Scheduler] = "idle"
  /\ d \in batch
  /\ batch' = batch \ {d}
  /\ IF IsDue(d, polledAt) /\ sendAt[d] # BadTime
     THEN /\ Goto(Scheduler, "claim")
          /\ job' = [job EXCEPT ![Scheduler] =
                       [NoJob EXCEPT !.draft = d, !.at = sendAt[d],
                                     !.back = "failed"]]
     ELSE UNCHANGED local
  /\ UNCHANGED <<table, claims, polledAt, world, history>>

\* claim_due_draft reads send_at of a listed draft and judges it ...
DueRead(d) ==
  /\ pc[Scheduler] = "idle"
  /\ d \in batch
  /\ batch' = batch \ {d}
  /\ IF IsDue(d, polledAt)
     THEN /\ Goto(Scheduler, "claim")
          /\ job' = [job EXCEPT ![Scheduler] =
                       [NoJob EXCEPT !.draft = d, !.at = sendAt[d],
                                     !.back = "failed"]]
     ELSE UNCHANGED local
  /\ UNCHANGED <<table, claims, polledAt, world, history>>

\* ... and claims the row only if it still has that send_at.
DueClaim ==
  LET d == job[Scheduler].draft
  IN  /\ pc[Scheduler] = "claim"
      /\ IF status[d] = "scheduled" /\ sendAt[d] = job[Scheduler].at
         THEN /\ status' = [status EXCEPT ![d] = "sending"]
              /\ Goto(Scheduler, "check")
              /\ job' = [job EXCEPT ![Scheduler].body = body[d]]
         ELSE Finish(Scheduler) /\ UNCHANGED status
      /\ UNCHANGED <<sendAt, body, claims, poll, world, history>>

-----------------------------------------------------------------------------
(* send_message and send_from_inbox, for every sender                      *)

\* A refusal before the transport: shape, policy, unknown inbox, no transport.
CheckRefused(p) ==
  /\ pc[p] = "check"
  /\ Respond(p, "settle", FALSE)
  /\ UNCHANGED <<table, claims, poll, world, history>>

\* The checks pass. A keyed request is looked up before the transport.
CheckPassed(p) ==
  /\ pc[p] = "check"
  /\ job[p].at # BadTime
  /\ IF ~Keyed(p)
     THEN Goto(p, "transport") /\ UNCHANGED job
     ELSE CASE Lookup(job[p].key, job[p].body) = "none" ->
                 Goto(p, "claimKey") /\ UNCHANGED job
            [] Lookup(job[p].key, job[p].body) = "replay" ->
                 Respond(p, "settle", TRUE)
            [] OTHER -> RespondUnclear(p)
  /\ UNCHANGED <<table, claims, poll, world, history>>

\* claim_send: look again under the lock and insert the pending claim.
ClaimKey(p) ==
  LET k == job[p].key
      b == job[p].body
  IN  /\ pc[p] = "claimKey"
      /\ CASE Lookup(k, b) = "none" ->
                /\ claimedFor' = [claimedFor EXCEPT ![k] = b]
                /\ Goto(p, "transport")
                /\ UNCHANGED job
           [] Lookup(k, b) = "replay" ->
                Respond(p, "settle", TRUE) /\ UNCHANGED claimedFor
           [] OTHER -> RespondUnclear(p) /\ UNCHANGED claimedFor
      /\ UNCHANGED <<table, replay, poll, world, history>>

\* The relay takes the message. The answer is still on its way.
TransportAccepts(p) ==
  LET d == job[p].draft
      k == job[p].key
  IN  /\ pc[p] = "transport"
      /\ Goto(p, "accepted")
      /\ accepted' = IF d = NoDraft THEN accepted
                     ELSE [accepted EXCEPT ![d] = @ \cup {Route(p)}]
      /\ keyAccepts' = IF k = NoKey THEN keyAccepts
                       ELSE [keyAccepts EXCEPT ![k] = @ + 1]
      /\ autoSpent' = IF p = Scheduler THEN autoSpent \cup {d} ELSE autoSpent
      /\ UNCHANGED <<table, claims, job, poll, world, parked>>

\* Mutant of SendFails: an error gives the key back for a retry.
SendFailsReleasesKey(p) ==
  /\ pc[p] \in {"transport", "accepted"}
  /\ claimedFor' = IF Keyed(p) THEN [claimedFor EXCEPT ![job[p].key] = NoBody]
                   ELSE claimedFor
  /\ RespondUnclear(p)
  /\ UNCHANGED <<table, replay, poll, world, history>>

\* send_from_inbox returns an error: the relay refused, or it accepted and
\* the 30 s timeout hit, its answer was lost, or insert_message failed.
SendFails(p) ==
  /\ pc[p] \in {"transport", "accepted"}
  /\ RespondUnclear(p)
  /\ UNCHANGED <<table, claims, poll, world, history>>

\* The answer arrives and the outbound row is stored.
SendRecorded(p) ==
  /\ pc[p] = "accepted"
  /\ IF Keyed(p) THEN Goto(p, "complete") /\ UNCHANGED job
                 ELSE Respond(p, "settle", TRUE)
  /\ UNCHANGED <<table, claims, poll, world, history>>

\* complete_send: store the response under the pending claim.
CompleteKey(p) ==
  LET k == job[p].key
  IN  /\ pc[p] = "complete"
      /\ IF claimedFor[k] = job[p].body /\ ~replay[k]
         THEN replay' = [replay EXCEPT ![k] = TRUE] /\ Respond(p, "settle", TRUE)
         ELSE RespondUnclear(p) /\ UNCHANGED replay
      /\ UNCHANGED <<table, claimedFor, poll, world, history>>

\* keyed_send_never_claimed: only a key that was never claimed for this
\* request restores the draft. Otherwise the row stays `sending`.
Recheck(p) ==
  /\ pc[p] = "recheck"
  /\ IF Lookup(job[p].key, job[p].body) \in {"none", "conflict"}
     THEN Goto(p, "settle") /\ UNCHANGED job
     ELSE Finish(p)
  /\ UNCHANGED <<table, claims, poll, world, history>>

\* finish_draft_send, guarded on `sending`. The scheduler's failures park the
\* draft (fail_scheduled_draft).
Settle(p) ==
  LET d == job[p].draft
  IN  /\ pc[p] = "settle"
      /\ IF status[d] = "sending"
         THEN /\ status' = [status EXCEPT
                              ![d] = IF job[p].ok THEN "sent" ELSE job[p].back]
              /\ sendAt' = IF job[p].ok THEN [sendAt EXCEPT ![d] = NoTime]
                                        ELSE sendAt
              /\ parked' = IF p = Scheduler /\ ~job[p].ok
                           THEN parked \cup {d} ELSE parked
         ELSE UNCHANGED <<status, sendAt, parked>>
      /\ Finish(p)
      /\ UNCHANGED <<body, claims, poll, world, accepted, keyAccepts, autoSpent>>

\* A store call fails. Before the transport and in complete_send that is a
\* 500; a failed recheck or settlement leaves the row `sending`.
StoreFails(p) ==
  /\ faults < MaxFaults
  /\ faults' = faults + 1
  /\ \/ /\ pc[p] = "claimKey" \/ pc[p] = "complete"
                              \/ (pc[p] = "check" /\ Keyed(p))
        /\ RespondUnclear(p)
     \/ /\ pc[p] \in {"edit", "claim", "recheck", "settle"}
        /\ Finish(p)
  /\ UNCHANGED <<table, claims, poll, now, requests, history>>

-----------------------------------------------------------------------------
(* Environment                                                             *)

Tick ==
  /\ now < MaxTime
  /\ now' = now + 1
  /\ UNCHANGED <<table, claims, local, poll, requests, faults, history>>

\* The process dies at any point and starts again: the tables stay.
Crash ==
  /\ faults < MaxFaults
  /\ faults' = faults + 1
  /\ pc' = [p \in Procs |-> "idle"]
  /\ job' = [p \in Procs |-> NoJob]
  /\ batch' = {}
  /\ UNCHANGED <<table, claims, polledAt, now, requests, history>>

\* The client goes away and the HTTP server drops the handler at an await.
Disconnect(h) ==
  /\ pc[h] # "idle"
  /\ Finish(h)
  /\ UNCHANGED <<table, claims, poll, world, history>>

-----------------------------------------------------------------------------
(* Specification                                                           *)

\* A database may hold scheduled rows from earlier versions: rows whose
\* content no longer opens, and rows whose send_at never parsed.
Init ==
  /\ \E legacy \in SUBSET (Drafts \ Unreadable) :
       /\ status = [d \in Drafts |->
                      IF d \in legacy \cup Unreadable THEN "scheduled" ELSE "absent"]
       /\ sendAt = [d \in Drafts |->
                      IF d \in legacy THEN BadTime
                      ELSE IF d \in Unreadable THEN 0 ELSE NoTime]
  /\ body = [d \in Drafts |-> CHOOSE b \in Bodies : TRUE]
  /\ claimedFor = [k \in Keys |-> NoBody]
  /\ replay = [k \in Keys |-> FALSE]
  /\ pc = [p \in Procs |-> "idle"]
  /\ job = [p \in Procs |-> NoJob]
  /\ batch = {}
  /\ polledAt = 0
  /\ now = 0
  /\ requests = 0
  /\ faults = 0
  /\ accepted = [d \in Drafts |-> {}]
  /\ keyAccepts = [k \in Keys |-> 0]
  /\ autoSpent = {}
  /\ parked = {}

OwnerStep(h) ==
  \/ \E d \in Drafts \ Unreadable, b \in Bodies, t \in Times \cup {NoTime} :
       CreateDraft(h, d, b, t) \/ EditRead(h, d, b, t)
  \/ \E d \in Drafts : DeleteDraft(h, d)
  \/ \E d \in Drafts, k \in Keys \cup {NoKey} : SendRead(h, d, k)
  \/ \E k \in Keys, b \in Bodies : DirectSend(h, k, b)
  \/ EditWrite(h)
  \/ SendClaim(h)
  \/ Disconnect(h)

SchedulerStep ==
  \/ Poll
  \/ \E d \in Drafts : DueRead(d)
  \/ DueClaim

SendStep(p) ==
  \/ CheckRefused(p) \/ CheckPassed(p)
  \/ ClaimKey(p)
  \/ TransportAccepts(p) \/ SendFails(p) \/ SendRecorded(p)
  \/ CompleteKey(p)
  \/ Recheck(p)
  \/ Settle(p)
  \/ StoreFails(p)

Next ==
  \/ \E h \in Handlers : OwnerStep(h)
  \/ SchedulerStep
  \/ \E p \in Procs : SendStep(p)
  \/ Tick
  \/ Crash

Spec == Init /\ [][Next]_vars

\* The scheduler task keeps running: its loop has no exit, every store call
\* returns, and a hand-over to the relay is bounded by SEND_TIMEOUT.
Fairness == WF_vars(SchedulerStep) /\ WF_vars(SendStep(Scheduler))

FairSpec == Spec /\ Fairness

-----------------------------------------------------------------------------
(* Properties                                                              *)

TypeOK ==
  /\ status \in [Drafts -> Statuses]
  /\ sendAt \in [Drafts -> SendTimes]
  /\ body \in [Drafts -> Bodies]
  /\ claimedFor \in [Keys -> Bodies \cup {NoBody}]
  /\ replay \in [Keys -> BOOLEAN]
  /\ pc \in [Procs -> PCs]
  /\ job \in [Procs -> Jobs]
  /\ batch \in SUBSET Drafts
  /\ polledAt \in Times
  /\ now \in Times
  /\ requests \in 0..MaxRequests
  /\ faults \in 0..MaxFaults
  /\ accepted \in [Drafts -> SUBSET Routes]
  /\ keyAccepts \in [Keys -> Nat]
  /\ autoSpent \in SUBSET Drafts
  /\ parked \in SUBSET Drafts

\* Two senders never own the same draft, and a draft with an owner is out of
\* reach of everybody else: nothing but a deletion moves it (api.rs: "Claim
\* before the transport so the scheduler, a double-click, or an unkeyed agent
\* retry cannot deliver the same draft twice").
ClaimIsExclusive ==
  \A p \in Procs, d \in Drafts :
    Holds(p, d) =>
      /\ status[d] \in {"sending", "deleted"}
      /\ \A q \in Procs \ {p} : ~Holds(q, d)

\* What a claimed draft's sender hands over is what the row says, whatever
\* edits raced with the claim (store.rs, claim_draft_where and update_draft).
SendsTheClaimedRow ==
  \A p \in Procs, d \in Drafts : Holds(p, d) => job[p].body = body[d]

\* However requests, retries, disconnects and restarts interleave, the relay
\* accepts at most one message under an idempotency key.
KeyDeliversOnce == \A k \in Keys : keyAccepts[k] <= 1

\* Once the relay accepted a keyed send of a draft, no path makes the draft
\* sendable again: not the ambiguous failure, not a failed replay record, not
\* a restart (api.rs send_draft: "Leave the draft `sending` rather than risk
\* delivering it twice").
KeyedSendNeverResendable ==
  \A d \in Drafts :
    "keyed" \in accepted[d] => status[d] \in {"sending", "sent", "deleted"}

\* The scheduler hands a draft to the relay at most once for each time the
\* owner schedules, edits or sends it: an attempt with an unknown outcome is
\* never retried on its own.
SchedulerNeverRepeats ==
  \A d \in Drafts :
    Holds(Scheduler, d) /\ pc[Scheduler] = "transport" => d \notin autoSpent

\* The relay took the row's contents, or a stored response stands for them.
Backed(d) ==
  \/ accepted[d] # {}
  \/ \E k \in Keys : replay[k] /\ claimedFor[k] = body[d]

\* A draft shown as sent was accepted by the relay with the contents the row
\* still has, or repeats a request whose stored response is replayed.
SentWasAccepted == \A d \in Drafts : status[d] = "sent" => Backed(d)

\* What a draft's row says of its delivery and what the relay did agree in both
\* directions: what a keyed send delivered is not offered for sending again, and
\* what is shown as sent was delivered.
StatusAgreesWithRelay == KeyedSendNeverResendable /\ SentWasAccepted

\* What no step may do to a finished or an abandoned draft.
RetiresFinishedDrafts ==
  \A d \in Drafts :
    /\ status[d] = "sent" =>
         status'[d] \in {"sent", "deleted"} /\ accepted'[d] = accepted[d]
    /\ (status[d] = "sending" /\ \A p \in Procs : ~Holds(p, d)) =>
         status'[d] \in {"sending", "deleted"} /\ accepted'[d] = accepted[d]

\* A sent draft is final: the row is only ever deleted and the relay never
\* takes it again. A draft whose sender is gone (crash, dropped request) is
\* never claimed again either: it stays `sending` until it is deleted.
NeverResent == [][RetiresFinishedDrafts]_vars

\* A due scheduled draft that opens is eventually taken out of `scheduled`
\* (sent, parked, edited or deleted), even with rows that never open ahead of
\* it, as long as those do not fill the poll.
DueDraftIsHandled ==
  \A d \in Drafts \ Unreadable : IsDue(d, now) ~> ~IsDue(d, now)

\* The keyed send implements the abstract key of SendKey.
Phase == [k \in Keys |-> IF claimedFor[k] = NoBody THEN "fresh"
                         ELSE IF replay[k] THEN "acknowledged" ELSE "pending"]

Key == INSTANCE SendKey WITH phase <- Phase, deliveries <- keyAccepts

\* claim_send, the transport and complete_send move a key the way SendKey
\* says: "Persist intent before transport", "Complete only the original
\* pending claim. Never replace an acknowledged response" (store.rs).
ImplementsSendKey == Key!Spec

\* What the comments claim and the code does not do (see the README).

\* api.rs, send_draft: "Every other failure is decided before or by the
\* transport refusing the message, so the draft becomes sendable again".
RestoredOnlyIfRefused ==
  \A d \in Drafts :
    "plain" \in accepted[d] => status[d] \notin {"draft", "scheduled"}

\* api.rs, fail_scheduled_draft: "Re-scheduling (PATCH) or sending it
\* explicitly are the only ways it goes out".
ParkedIsNotSentBySchedule ==
  \A d \in parked : ~(Holds(Scheduler, d) /\ pc[Scheduler] = "transport")

-----------------------------------------------------------------------------
(* Inductive invariant (proved in DraftSend_proofs)                        *)

\* What a program point says of the sender's local variables.
JobInvOf(p) ==
  /\ pc[p] \in ClaimPCs \cup {"edit"} => job[p].body \in Bodies
  /\ pc[p] \in {"edit", "claim", "recheck", "settle"} => job[p].draft \in Drafts
  /\ pc[p] \in {"claimKey", "complete", "recheck"} => Keyed(p)
  /\ p = Scheduler =>
       /\ pc[p] \notin {"edit", "claimKey", "complete", "recheck"}
       /\ ~Keyed(p)
       /\ pc[p] # "idle" => job[p].draft \in Drafts /\ job[p].back = "failed"

JobInv == \A p \in Procs : JobInvOf(p)

\* A keyed sender between its claim and its completion.
InFlight(p) == Keyed(p) /\ pc[p] \in {"transport", "accepted", "complete"}

\* Such a sender owns the pending claim of its key, alone, and its program
\* point tells whether the relay took the message.
KeyInv ==
  /\ \A p \in Procs :
       InFlight(p) =>
         /\ claimedFor[job[p].key] = job[p].body
         /\ ~replay[job[p].key]
         /\ keyAccepts[job[p].key] = IF pc[p] = "transport" THEN 0 ELSE 1
         /\ \A q \in Procs \ {p} : InFlight(q) => job[q].key # job[p].key
  /\ \A k \in Keys :
       /\ claimedFor[k] = NoBody => keyAccepts[k] = 0 /\ ~replay[k]
       /\ replay[k] => keyAccepts[k] = 1
       /\ keyAccepts[k] \in {0, 1}

\* The owner of a draft whose keyed send was accepted can only mark it sent
\* or leave it `sending`.
KeyedOwnerInv ==
  \A p \in Procs, d \in Drafts :
    Holds(p, d) /\ "keyed" \in accepted[d] =>
      /\ Keyed(p)
      /\ pc[p] \in {"accepted", "complete", "recheck", "settle"}
      /\ claimedFor[job[p].key] = job[p].body
      /\ pc[p] = "settle" => job[p].ok

\* A draft the scheduler handed over is out of its reach until the owner acts.
AutoInv ==
  /\ \A d \in autoSpent : status[d] \in {"sending", "sent", "failed", "deleted"}
  /\ \A p \in Procs, d \in autoSpent :
       Holds(p, d) => p = Scheduler /\ pc[p] \in {"accepted", "settle"}

\* An owner on its way to mark draft d sent has the transport's acceptance or
\* a replayed response behind it.
OwnerBacked(p, d) ==
  /\ pc[p] \in {"accepted", "complete"} => accepted[d] # {}
  /\ pc[p] = "settle" /\ job[p].ok => Backed(d)
  /\ pc[p] = "recheck" => ~job[p].ok

SentInv ==
  /\ \A p \in Procs, d \in Drafts : Holds(p, d) => OwnerBacked(p, d)
  /\ SentWasAccepted

\* All of it, preserved by every step.
IInv ==
  /\ TypeOK
  /\ JobInv
  /\ ClaimIsExclusive
  /\ SendsTheClaimedRow
  /\ KeyInv
  /\ KeyedOwnerInv
  /\ KeyedSendNeverResendable
  /\ AutoInv
  /\ SentInv

=============================================================================
