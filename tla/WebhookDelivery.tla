-------------------------- MODULE WebhookDelivery --------------------------
(***************************************************************************)
(* Webhooks and the deliveries of mail events to them: the routes that     *)
(* create, patch and delete a webhook (src/backend/src/api.rs), the event  *)
(* that a handler records, and the tasks that post it                      *)
(* (src/backend/src/webhooks.rs).                                          *)
(*                                                                         *)
(* A webhook is read, changed and written back as a whole row, and the     *)
(* connection is free between the read and the write, so requests and      *)
(* deliveries interleave at every store call.  A delivery works from the   *)
(* copy of the webhook that the event's lookup returned.                   *)
(***************************************************************************)
EXTENDS Naturals, Sequences, Functions

CONSTANTS
  Hooks,        \* webhook ids
  Events,       \* event ids
  Axes,         \* what a webhook filters by: its inbox ids, pod ids, event types
  Values,       \* inbox ids, pod ids and event type names
  FactOf,       \* [Events -> [Axes -> Values \cup {NoValue}]]
  Inbox,        \* the axis of inbox ids
  Patches,      \* the bodies of PATCH requests that are tried
  Requests,     \* concurrent webhook requests
  MaxAttempts,  \* MAX_ATTEMPTS of webhooks.rs
  MaxSecrets, MaxFaults, MaxCrashes, MaxRequests,   \* bounds
  NoValue, NoHook, NoRow, NoTask, NoPatch, Keep

ASSUME WebhookBounds ==
  /\ MaxAttempts \in Nat \ {0} /\ MaxSecrets \in Nat /\ MaxFaults \in Nat
  /\ MaxCrashes \in Nat /\ MaxRequests \in Nat
  /\ Inbox \in Axes /\ NoValue \notin Values /\ Hooks # {}
  /\ FactOf \in [Events -> [Axes -> Values \cup {NoValue}]]

VARIABLES
  hooks,      \* table webhooks
  log,        \* table mail_events
  rows,       \* table webhook_deliveries, by webhook and event
  emitting,   \* how far record_event has come with each event
  tasks,      \* the running deliver_one tasks
  requests,   \* the webhook requests in progress
  posts,      \* history: the receiver's verdicts on the posts of each delivery
  born,       \* history: the inbox whose own routes alone have written a webhook
  spent       \* faults, crashes, requests and secrets so far

vars_wd == <<hooks, log, rows, emitting, tasks, requests, posts, born, spent>>

Pairs == Hooks \X Events

Webhook == [url: {"public", "private"}, secret: 0..MaxSecrets, enabled: BOOLEAN,
            only: [Axes -> SUBSET Values]]
Patch == [url: {"public", "private", Keep}, enabled: BOOLEAN \cup {Keep},
          only: [Axes -> (SUBSET Values) \cup {Keep}],
          drop: [Axes -> SUBSET Values], rotate: BOOLEAN]

ASSUME PatchesAreBodies ==
  Patches \subseteq Patch /\ NoPatch \notin Patches

Row == [status: {"pending", "retrying", "delivered", "failed"}, attempts: 0..MaxAttempts]
Task == [hook: Webhook, attempt: 1..MaxAttempts,
         stage: {"screen", "post", "answered", "noted", "over"}, ok: BOOLEAN]
Emission == [stage: {"new", "stored", "matched", "over"}, todo: [Hooks -> Webhook \cup {NoHook}]]
Request == [stage: {"idle", "scoped", "read", "screened"}, hook: Hooks,
            scope: Values \cup {NoValue}, patch: Patches \cup {NoPatch},
            deletes: BOOLEAN, copy: Webhook \cup {NoHook}]

ASSUME NoneIsNoRecord ==
  NoHook \notin Webhook /\ NoRow \notin Row /\ NoTask \notin Task

NoMatches == [h \in Hooks |-> NoHook]

WebhookTypeOK ==
  /\ hooks \in [Hooks -> Webhook \cup {NoHook}]
  /\ log \in SUBSET Events
  /\ rows \in [Pairs -> Row \cup {NoRow}]
  /\ emitting \in [Events -> Emission]
  /\ tasks \in [Pairs -> Task \cup {NoTask}]
  /\ requests \in [Requests -> Request]
  /\ posts \in [Pairs -> Seq({"accepted", "refused"})]
  /\ born \in [Hooks -> Values \cup {NoValue}]
  /\ spent \in [faults: 0..MaxFaults, crashes: 0..MaxCrashes, requests: 0..MaxRequests,
                secrets: 0..MaxSecrets]

Idle(h) == [stage |-> "idle", hook |-> h, scope |-> NoValue, patch |-> NoPatch,
            deletes |-> FALSE, copy |-> NoHook]
AnyIdle == Idle(CHOOSE h \in Hooks : TRUE)

WebhookInit ==
  /\ hooks = [h \in Hooks |-> NoHook]
  /\ log = {}
  /\ rows = [p \in Pairs |-> NoRow]
  /\ emitting = [e \in Events |-> [stage |-> "new", todo |-> NoMatches]]
  /\ tasks = [p \in Pairs |-> NoTask]
  /\ requests = [r \in Requests |-> AnyIdle]
  /\ posts = [p \in Pairs |-> <<>>]
  /\ born = [h \in Hooks |-> NoValue]
  /\ spent = [faults |-> 0, crashes |-> 0, requests |-> 0, secrets |-> 0]

\* A fault: one SQLite call answers with an error.
Fault ==
  /\ spent.faults < MaxFaults
  /\ spent' = [spent EXCEPT !.faults = @ + 1]

NewSecret == spent.secrets + 1

(***************************************************************************)
(* The destination check.  A private name or address never passes; a       *)
(* public one passes when it resolves, and to public addresses only.       *)
(***************************************************************************)
Screens(url) == IF url = "public" THEN BOOLEAN ELSE {FALSE}

(***************************************************************************)
(* The routes.                                                             *)
(***************************************************************************)
\* POST /webhooks and POST /inboxes/{id}/webhooks: the inbox route replaces the
\* inbox filter by its own inbox, and both insert after the destination check.
\* The id is new: no row, request or pending dispatch has it.
CreateHook(h, scope, only, enabled) ==
  /\ hooks[h] = NoHook /\ \A p \in Pairs : p[1] = h => rows[p] = NoRow
  /\ \A r \in Requests : requests[r].stage # "idle" => requests[r].hook # h
  /\ \A e \in Events : emitting[e].todo[h] = NoHook
  /\ spent.requests < MaxRequests /\ NewSecret <= MaxSecrets
  /\ hooks' = [hooks EXCEPT ![h] =
       [url |-> "public", secret |-> NewSecret, enabled |-> enabled,
        only |-> IF scope = NoValue THEN only ELSE [only EXCEPT ![Inbox] = {scope}]]]
  /\ born' = [born EXCEPT ![h] = scope]
  /\ spent' = [spent EXCEPT !.requests = @ + 1, !.secrets = NewSecret]
  /\ UNCHANGED <<log, rows, emitting, tasks, requests, posts>>

\* A request that names a webhook starts: a patch, a header update (NoPatch) or
\* a delete, through the global routes or those of an inbox.
Arrive(r, h, scope, patch, deletes) ==
  /\ requests[r].stage = "idle"
  /\ spent.requests < MaxRequests
  /\ requests' = [requests EXCEPT ![r] =
       [stage |-> IF scope # NoValue /\ patch = NoPatch THEN "scoped" ELSE "read", hook |-> h,
        scope |-> scope, patch |-> patch, deletes |-> deletes, copy |-> NoHook]]
  /\ spent' = [spent EXCEPT !.requests = @ + 1]
  /\ UNCHANGED <<hooks, log, rows, emitting, tasks, posts, born>>

Answer(r) == requests' = [requests EXCEPT ![r] = AnyIdle]

BoundTo(h, scope) == hooks[h] # NoHook /\ scope \in hooks[h].only[Inbox]

\* inbox_webhook_out_of_scope: a read of its own, before the handler's read.
CheckScope(r) ==
  LET q == requests[r] IN
  /\ q.stage = "scoped"
  /\ IF BoundTo(q.hook, q.scope)
     THEN requests' = [requests EXCEPT ![r].stage = "read"]
     ELSE Answer(r)
  /\ UNCHANGED <<hooks, log, rows, emitting, tasks, posts, born, spent>>

\* get_webhook of a patch or header update; the patch of an inbox route looks at
\* the copy for its scope.
ReadHook(r) ==
  LET q == requests[r] IN
  /\ q.stage = "read" /\ ~q.deletes
  /\ IF hooks[q.hook] = NoHook \/ (q.patch # NoPatch /\ q.scope # NoValue /\ ~BoundTo(q.hook, q.scope))
     THEN Answer(r)
     ELSE requests' = [requests EXCEPT ![r].stage = "screened", ![r].copy = hooks[q.hook]]
  /\ UNCHANGED <<hooks, log, rows, emitting, tasks, posts, born, spent>>

\* Mutant of Patched: the inbox of the route is not put back after the removals.
PatchedUnscoped(copy, patch, scope, secret) ==
  LET set == [a \in Axes |-> IF patch.only[a] = Keep THEN copy.only[a] ELSE patch.only[a]]
  IN [copy EXCEPT !.only = [a \in Axes |-> set[a] \ patch.drop[a]]]

\* The copy as a patch changes it: the url, whole filters, removals, then the
\* inbox of the route, then the secret.
Patched(copy, patch, scope, secret) ==
  LET set == [a \in Axes |-> IF patch.only[a] = Keep THEN copy.only[a] ELSE patch.only[a]]
      cut == [a \in Axes |-> set[a] \ patch.drop[a]]
  IN [url |-> IF patch.url = Keep THEN copy.url ELSE patch.url,
      secret |-> IF patch.rotate THEN secret ELSE copy.secret,
      enabled |-> IF patch.enabled = Keep THEN copy.enabled ELSE patch.enabled,
      only |-> IF scope = NoValue THEN cut ELSE [cut EXCEPT ![Inbox] = {scope}]]

\* update_webhook: the whole row is written; a row deleted meanwhile stays gone.
WriteRow(r, webhook) ==
  LET q == requests[r] IN
  /\ hooks' = IF hooks[q.hook] = NoHook THEN hooks ELSE [hooks EXCEPT ![q.hook] = webhook]
  /\ born' = IF q.scope = NoValue THEN [born EXCEPT ![q.hook] = NoValue] ELSE born

PatchHook(r) ==
  LET q == requests[r] IN
  /\ q.stage = "screened" /\ q.patch # NoPatch
  /\ q.patch.rotate => NewSecret <= MaxSecrets
  /\ \/ /\ q.patch.url = Keep \/ TRUE \in Screens(q.patch.url)
        /\ WriteRow(r, Patched(q.copy, q.patch, q.scope, NewSecret))
        /\ spent' = IF q.patch.rotate THEN [spent EXCEPT !.secrets = NewSecret] ELSE spent
     \/ /\ q.patch.url # Keep /\ FALSE \in Screens(q.patch.url)
        /\ UNCHANGED <<hooks, born, spent>>
     \/ Fault /\ UNCHANGED <<hooks, born>>
  /\ Answer(r)
  /\ UNCHANGED <<log, rows, emitting, tasks, posts>>

\* update_webhook_headers writes the copy back with other header values.
WriteHeaders(r) ==
  LET q == requests[r] IN
  /\ q.stage = "screened" /\ q.patch = NoPatch
  /\ WriteRow(r, q.copy)
  /\ Answer(r)
  /\ UNCHANGED <<log, rows, emitting, tasks, posts, spent>>

\* delete_webhook: the delivery rows stay.
DeleteHook(r) ==
  LET q == requests[r] IN
  /\ q.stage = "read" /\ q.deletes
  /\ hooks' = [hooks EXCEPT ![q.hook] = NoHook]
  /\ Answer(r)
  /\ UNCHANGED <<log, rows, emitting, tasks, posts, born, spent>>

(***************************************************************************)
(* record_event and dispatch_event, in the task of the handler that has    *)
(* something to tell.                                                      *)
(***************************************************************************)
\* insert_event; an event that is not stored goes no further.
StoreEvent(e) ==
  /\ emitting[e].stage = "new"
  /\ \/ /\ log' = log \cup {e}
        /\ emitting' = [emitting EXCEPT ![e].stage = "stored"]
        /\ UNCHANGED spent
     \/ /\ Fault
        /\ emitting' = [emitting EXCEPT ![e].stage = "over"]
        /\ UNCHANGED log
  /\ UNCHANGED <<hooks, rows, tasks, requests, posts, born>>

Matches(webhook, e) ==
  /\ webhook.enabled
  /\ \A a \in Axes : webhook.only[a] = {} \/ FactOf[e][a] \in webhook.only[a]

\* matching_webhooks: the copies the deliveries will work from.
MatchHooks(e) ==
  /\ emitting[e].stage = "stored"
  /\ \/ /\ emitting' = [emitting EXCEPT ![e] =
             [stage |-> "matched",
              todo |-> [h \in Hooks |-> IF hooks[h] # NoHook /\ Matches(hooks[h], e)
                                        THEN hooks[h] ELSE NoHook]]]
        /\ UNCHANGED spent
     \/ /\ Fault
        /\ emitting' = [emitting EXCEPT ![e].stage = "over"]
  /\ UNCHANGED <<hooks, log, rows, tasks, requests, posts, born>>

\* create_delivery_if_new, then the task is spawned; an error or an existing row
\* skips the webhook.
Dispatch(e, h) ==
  LET webhook == emitting[e].todo[h] IN
  /\ emitting[e].stage = "matched" /\ webhook # NoHook
  /\ emitting' = [emitting EXCEPT ![e].todo[h] = NoHook]
  /\ \/ /\ IF rows[<<h, e>>] # NoRow THEN UNCHANGED <<rows, tasks>> ELSE
             /\ rows' = [rows EXCEPT ![<<h, e>>] = [status |-> "pending", attempts |-> 0]]
             /\ tasks' = [tasks EXCEPT ![<<h, e>>] =
                  [hook |-> webhook, attempt |-> 1, stage |-> "screen", ok |-> FALSE]]
        /\ UNCHANGED spent
     \/ Fault /\ UNCHANGED <<rows, tasks>>
  /\ UNCHANGED <<hooks, log, requests, posts, born>>

(***************************************************************************)
(* deliver_one.                                                            *)
(***************************************************************************)
\* screened_destination before every attempt; a refusal ends the loop.
Screen(p) ==
  /\ tasks[p] # NoTask /\ tasks[p].stage = "screen"
  /\ \E safe \in Screens(tasks[p].hook.url) :
       tasks' = [tasks EXCEPT ![p].stage = IF safe THEN "post" ELSE "over"]
  /\ UNCHANGED <<hooks, log, rows, emitting, requests, posts, born, spent>>

\* The request: the receiver takes the event or not, and its answer is seen or,
\* after a timeout or a broken connection, not.
Post(p) ==
  /\ tasks[p] # NoTask /\ tasks[p].stage = "post"
  /\ \E verdict \in {"accepted", "refused"}, seen \in BOOLEAN :
       /\ posts' = [posts EXCEPT ![p] = Append(@, verdict)]
       /\ tasks' = [tasks EXCEPT ![p].stage = "answered", ![p].ok = (verdict = "accepted" /\ seen)]
  /\ UNCHANGED <<hooks, log, rows, emitting, requests, born, spent>>

\* update_delivery: an error leaves the row as it is and is not looked at.
WriteDelivery(p, status, attempts) ==
  \/ rows' = [rows EXCEPT ![p] = [status |-> status, attempts |-> attempts]] /\ UNCHANGED spent
  \/ Fault /\ UNCHANGED rows

\* Mutant of Note: the task ends with the first answer, whatever it was.
NoteOnce(p) ==
  /\ tasks[p] # NoTask /\ tasks[p].stage = "answered"
  /\ WriteDelivery(p, IF tasks[p].ok THEN "delivered" ELSE "retrying", tasks[p].attempt)
  /\ tasks' = [tasks EXCEPT ![p] = NoTask]
  /\ UNCHANGED <<hooks, log, emitting, requests, posts, born>>

\* Mutant of Note: the loop goes on after a delivery that succeeded.
NoteGoesOn(p) ==
  /\ tasks[p] # NoTask /\ tasks[p].stage = "answered"
  /\ WriteDelivery(p, IF tasks[p].ok THEN "delivered" ELSE "retrying", tasks[p].attempt)
  /\ tasks' = [tasks EXCEPT ![p].stage = "noted"]
  /\ UNCHANGED <<hooks, log, emitting, requests, posts, born>>

Note(p) ==
  /\ tasks[p] # NoTask /\ tasks[p].stage = "answered"
  /\ WriteDelivery(p, IF tasks[p].ok THEN "delivered" ELSE "retrying", tasks[p].attempt)
  /\ tasks' = IF tasks[p].ok THEN [tasks EXCEPT ![p] = NoTask]
              ELSE [tasks EXCEPT ![p].stage = "noted"]
  /\ UNCHANGED <<hooks, log, emitting, requests, posts, born>>

\* Mutant of Retry: one attempt too many.
RetryOnceMore(p) ==
  /\ tasks[p] # NoTask /\ tasks[p].stage = "noted"
  /\ tasks' = IF tasks[p].attempt <= MaxAttempts
              THEN [tasks EXCEPT ![p].stage = "screen", ![p].attempt = @ + 1]
              ELSE [tasks EXCEPT ![p].stage = "over"]
  /\ UNCHANGED <<hooks, log, rows, emitting, requests, posts, born, spent>>

Retry(p) ==
  /\ tasks[p] # NoTask /\ tasks[p].stage = "noted"
  /\ tasks' = IF tasks[p].attempt < MaxAttempts
              THEN [tasks EXCEPT ![p].stage = "screen", ![p].attempt = @ + 1]
              ELSE [tasks EXCEPT ![p].stage = "over"]
  /\ UNCHANGED <<hooks, log, rows, emitting, requests, posts, born, spent>>

GiveUpOn(p) ==
  /\ tasks[p] # NoTask /\ tasks[p].stage = "over"
  /\ WriteDelivery(p, "failed", MaxAttempts)
  /\ tasks' = [tasks EXCEPT ![p] = NoTask]
  /\ UNCHANGED <<hooks, log, emitting, requests, posts, born>>

TaskStep(p) == Screen(p) \/ Post(p) \/ Note(p) \/ Retry(p) \/ GiveUpOn(p)

\* The process stops: what ran in memory is gone, and nothing at a start picks
\* up a delivery that was not settled.
CrashService ==
  /\ spent.crashes < MaxCrashes
  /\ spent' = [spent EXCEPT !.crashes = @ + 1]
  /\ emitting' = [e \in Events |->
       IF emitting[e].stage = "new" THEN emitting[e] ELSE [stage |-> "over", todo |-> NoMatches]]
  /\ tasks' = [p \in Pairs |-> NoTask]
  /\ requests' = [r \in Requests |-> AnyIdle]
  /\ UNCHANGED <<hooks, log, rows, posts, born>>

(***************************************************************************)
(* The specification.                                                      *)
(***************************************************************************)
Routes ==
  \/ \E h \in Hooks, scope \in Values \cup {NoValue}, enabled \in BOOLEAN :
       CreateHook(h, scope, [a \in Axes |-> {}], enabled)
  \/ \E r \in Requests, h \in Hooks, scope \in Values \cup {NoValue} :
       \/ \E patch \in Patches \cup {NoPatch} : Arrive(r, h, scope, patch, FALSE)
       \/ Arrive(r, h, scope, NoPatch, TRUE)
  \/ \E r \in Requests : CheckScope(r) \/ ReadHook(r) \/ PatchHook(r) \/ WriteHeaders(r)
                         \/ DeleteHook(r)

EventStep(e) == StoreEvent(e) \/ MatchHooks(e) \/ \E h \in Hooks : Dispatch(e, h)

WebhookNext ==
  \/ Routes
  \/ \E e \in Events : EventStep(e)
  \/ \E p \in Pairs : TaskStep(p)
  \/ CrashService

WebhookSpec == WebhookInit /\ [][WebhookNext]_vars_wd

\* The runtime goes on polling a spawned task, and each of its waits has a
\* timeout: the request's, and the pause between two attempts.
WebhookFairSpec == WebhookSpec /\ \A p \in Pairs : WF_vars_wd(TaskStep(p))

(***************************************************************************)
(* Properties.                                                             *)
(***************************************************************************)
\* A delivery row never claims more than happened: `delivered' after k attempts
\* means k posts of which the last was taken, and no row counts more attempts
\* than there were posts, except the one that gave up.  And what a receiver gets
\* was told to the owner first: its event is in the log and its row exists.
RowTellsTheOutcome ==
  /\ \A p \in Pairs : posts[p] # <<>> => p[2] \in log /\ rows[p] # NoRow
  /\ \A p \in Pairs : rows[p] # NoRow =>
       /\ rows[p].status = "delivered" =>
            /\ Len(posts[p]) = rows[p].attempts
            /\ posts[p][Len(posts[p])] = "accepted"
       /\ rows[p].status = "retrying" => rows[p].attempts <= Len(posts[p])
       /\ Len(posts[p]) <= MaxAttempts

\* A webhook that only the routes of one inbox ever wrote gets no event of
\* another inbox: the patch of an inbox route cannot widen it, in any order of
\* patches, header updates and deliveries.
InboxHookKeepsItsInbox ==
  \A p \in Pairs :
    posts[p] # <<>> /\ born[p[1]] # NoValue => FactOf[p[2]][Inbox] = born[p[1]]

\* A delivery that was begun settles: its row ends as delivered or failed, unless
\* the process stops or the store refuses the last write.
DeliveriesSettle ==
  \A p \in Pairs : tasks[p] # NoTask ~>
    \/ rows[p] # NoRow /\ rows[p].status \in {"delivered", "failed"}
    \/ spent.crashes > 0 \/ spent.faults > 0

\* The deliveries implement EventDelivery: whatever requests, lookups, tasks, failing
\* writes and crashes do, a delivery is begun once and from a logged event, each row
\* counts the posts behind it, and nothing posts or rewrites one that is settled.
Outcome == INSTANCE EventDelivery WITH told <- log
ImplementsEventDelivery == Outcome!Spec
=============================================================================
