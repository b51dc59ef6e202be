--------------------------- MODULE Interfaces_proofs -------------------------
(* Proofs about what leaves the service and comes to it: webhook deliveries, the    *)
(* realtime streams, calls to the host, the sidecar's handoff file and the proof of *)
(* a peer, for any number of webhooks, clients, calls, runs, ports and faults.      *)
EXTENDS WebhookDelivery, RealtimeStream, HostCalls, SidecarHandoff, PeerProof, TLAPS,
        Selection_proofs

(*****************************************************************************)
(* WebhookDelivery.                                                          *)
(*****************************************************************************)

\* One delivery: its task counts the posts, and its row never claims more.
Delivery(p) ==
  /\ tasks[p] # NoTask \/ posts[p] # <<>> => p[2] \in log /\ rows[p] # NoRow
  /\ tasks[p] # NoTask =>
       /\ rows[p].status \in {"pending", "retrying"}
       /\ tasks[p].stage \in {"screen", "post"} => Len(posts[p]) = tasks[p].attempt - 1
       /\ tasks[p].stage \in {"answered", "noted"} => Len(posts[p]) = tasks[p].attempt
       /\ tasks[p].stage = "answered" /\ tasks[p].ok => posts[p][Len(posts[p])] = "accepted"
  /\ rows[p] # NoRow =>
       /\ rows[p].status = "delivered" =>
            /\ Len(posts[p]) = rows[p].attempts
            /\ posts[p][Len(posts[p])] = "accepted"
       /\ rows[p].status = "retrying" => rows[p].attempts <= Len(posts[p])
  /\ Len(posts[p]) <= MaxAttempts
Deliveries == \A p \in Pairs : Delivery(p)
EmittedIsLogged == \A e \in Events : emitting[e].stage \in {"stored", "matched"} => e \in log

\* A webhook that one inbox's routes alone have written is filtered by that inbox,
\* and so is every copy that a request, an event or a task has of it.
RowIsScoped ==
  \A h \in Hooks : born[h] # NoValue /\ hooks[h] # NoHook => hooks[h].only[Inbox] = {born[h]}
CopyIsScoped ==
  \A r \in Requests :
    LET q == requests[r] IN
    q.stage = "screened" /\ born[q.hook] # NoValue =>
      /\ q.copy # NoHook /\ q.copy.only[Inbox] = {born[q.hook]}
      /\ q.patch # NoPatch /\ q.scope # NoValue => q.scope = born[q.hook]
ScreenedHasCopy == \A r \in Requests : requests[r].stage = "screened" => requests[r].copy # NoHook
MatchIsScoped ==
  \A e \in Events : \A h \in Hooks :
    emitting[e].todo[h] # NoHook /\ born[h] # NoValue => FactOf[e][Inbox] = born[h]
TaskIsScoped ==
  \A p \in Pairs : tasks[p] # NoTask /\ born[p[1]] # NoValue => FactOf[p[2]][Inbox] = born[p[1]]

Scoped == /\ RowIsScoped /\ CopyIsScoped /\ ScreenedHasCopy /\ MatchIsScoped /\ TaskIsScoped
          /\ InboxHookKeepsItsInbox
WebhookInv == WebhookTypeOK /\ Deliveries /\ EmittedIsLogged /\ Scoped

LEMMA RowsTell == Deliveries => RowTellsTheOutcome
  BY DEF Deliveries, Delivery, RowTellsTheOutcome

LEMMA PairParts == \A p \in Pairs : p[1] \in Hooks /\ p[2] \in Events
  BY DEF Pairs

-----------------------------------------------------------------------------
(* Initial states and records.                                               *)

LEMMA IdleTyped == AnyIdle \in Request /\ AnyIdle.stage = "idle"
<1>1. (CHOOSE h \in Hooks : TRUE) \in Hooks
  BY WebhookBounds
<1> QED BY <1>1 DEF AnyIdle, Idle, Request

LEMMA WebhookInitInv == WebhookInit => WebhookInv
<1> SUFFICES ASSUME WebhookInit PROVE WebhookInv
  OBVIOUS
<1>1. \A p \in Pairs : rows[p] = NoRow /\ tasks[p] = NoTask /\ posts[p] = <<>>
  BY DEF WebhookInit
<1>2. requests \in [Requests -> Request] /\ \A r \in Requests : requests[r].stage = "idle"
  BY IdleTyped DEF WebhookInit
<1>3. /\ emitting \in [Events -> Emission]
      /\ \A e \in Events : emitting[e].stage = "new"
      /\ \A e \in Events : \A h \in Hooks : emitting[e].todo[h] = NoHook
  BY DEF WebhookInit, Emission, NoMatches
<1>4. WebhookTypeOK
  <2>1. spent \in [faults: 0..MaxFaults, crashes: 0..MaxCrashes, requests: 0..MaxRequests,
                   secrets: 0..MaxSecrets]
    BY WebhookBounds DEF WebhookInit
  <2>2. posts \in [Pairs -> Seq({"accepted", "refused"})]
    <3>1. <<>> \in Seq({"accepted", "refused"})
      OBVIOUS
    <3> QED BY <3>1 DEF WebhookInit
  <2> QED BY <1>2, <1>3, <2>1, <2>2 DEF WebhookInit, WebhookTypeOK
<1>5. Deliveries
  BY <1>1, WebhookBounds DEF Deliveries, Delivery
<1>6. EmittedIsLogged
  BY <1>3 DEF EmittedIsLogged
<1>7. Scoped
  BY <1>1, <1>2, <1>3 DEF WebhookInit, Scoped, RowIsScoped, CopyIsScoped, ScreenedHasCopy,
                          MatchIsScoped, TaskIsScoped, InboxHookKeepsItsInbox
<1> QED BY <1>4, <1>5, <1>6, <1>7 DEF WebhookInv

Spent == [faults: 0..MaxFaults, crashes: 0..MaxCrashes, requests: 0..MaxRequests,
          secrets: 0..MaxSecrets]

LEMMA SpentForms ==
  ASSUME spent \in Spent
  PROVE  /\ Fault => spent' \in Spent
         /\ spent.requests < MaxRequests =>
              [spent EXCEPT !.requests = @ + 1] \in Spent
         /\ spent.crashes < MaxCrashes => [spent EXCEPT !.crashes = @ + 1] \in Spent
         /\ NewSecret <= MaxSecrets =>
              /\ NewSecret \in 0..MaxSecrets
              /\ [spent EXCEPT !.secrets = NewSecret] \in Spent
              /\ spent.requests < MaxRequests =>
                   [spent EXCEPT !.requests = @ + 1, !.secrets = NewSecret] \in Spent
<1>1. \A n, m \in Nat : n < m => n + 1 \in 0..m
  OBVIOUS
<1>2. /\ spent.faults \in 0..MaxFaults /\ spent.crashes \in 0..MaxCrashes
      /\ spent.requests \in 0..MaxRequests /\ spent.secrets \in 0..MaxSecrets
      /\ MaxFaults \in Nat /\ MaxCrashes \in Nat /\ MaxRequests \in Nat /\ MaxSecrets \in Nat
  BY WebhookBounds DEF Spent
<1>3. /\ spent.faults < MaxFaults => spent.faults + 1 \in 0..MaxFaults
      /\ spent.crashes < MaxCrashes => spent.crashes + 1 \in 0..MaxCrashes
      /\ spent.requests < MaxRequests => spent.requests + 1 \in 0..MaxRequests
      /\ NewSecret <= MaxSecrets => NewSecret \in 0..MaxSecrets
  BY <1>1, <1>2 DEF NewSecret
<1>4. Fault => spent' \in Spent
  BY <1>3 DEF Fault, Spent
<1>5. /\ spent.requests < MaxRequests => [spent EXCEPT !.requests = @ + 1] \in Spent
      /\ spent.crashes < MaxCrashes => [spent EXCEPT !.crashes = @ + 1] \in Spent
  BY <1>3 DEF Spent
<1>6. NewSecret <= MaxSecrets =>
        /\ [spent EXCEPT !.secrets = NewSecret] \in Spent
        /\ spent.requests < MaxRequests =>
             [spent EXCEPT !.requests = @ + 1, !.secrets = NewSecret] \in Spent
  BY <1>3 DEF Spent
<1> QED BY <1>3, <1>4, <1>5, <1>6

\* A delivery that a step does not touch.
LEMMA OthersKeep ==
  ASSUME NEW q \in Pairs, Delivery(q), rows'[q] = rows[q], tasks'[q] = tasks[q],
         posts'[q] = posts[q], log \subseteq log'
  PROVE  Delivery(q)'
  BY DEF Delivery

LEMMA DeliveriesQuiet ==
  ASSUME Deliveries, UNCHANGED <<rows, tasks, posts>>, log \subseteq log'
  PROVE  Deliveries'
  BY OthersKeep DEF Deliveries

-----------------------------------------------------------------------------
(* The routes.                                                               *)

LEMMA CreateInv ==
  ASSUME WebhookInv, NEW h \in Hooks, NEW scope \in Values \cup {NoValue}, NEW enabled \in BOOLEAN,
         CreateHook(h, scope, [a \in Axes |-> {}], enabled)
  PROVE  WebhookInv'
<1>1. WebhookTypeOK /\ Deliveries /\ EmittedIsLogged /\ Scoped
  BY DEF WebhookInv
<1> DEFINE none == [a \in Axes |-> {}]
           only == IF scope = NoValue THEN none ELSE [none EXCEPT ![Inbox] = {scope}]
           hook == [url |-> "public", secret |-> NewSecret, enabled |-> enabled, only |-> only]
<1>2. /\ hooks' = [hooks EXCEPT ![h] = hook] /\ born' = [born EXCEPT ![h] = scope]
      /\ UNCHANGED <<log, rows, emitting, tasks, requests, posts>>
      /\ \A p \in Pairs : p[1] = h => rows[p] = NoRow
      /\ \A r \in Requests : requests[r].stage # "idle" => requests[r].hook # h
      /\ \A e \in Events : emitting[e].todo[h] = NoHook
      /\ spent' = [spent EXCEPT !.requests = @ + 1, !.secrets = NewSecret]
      /\ spent.requests < MaxRequests /\ NewSecret <= MaxSecrets
  BY DEF CreateHook
<1>3. spent \in Spent
  BY <1>1 DEF WebhookTypeOK, Spent
<1>4. only \in [Axes -> SUBSET Values] /\ (scope # NoValue => only[Inbox] = {scope})
  BY WebhookBounds
<1>5. hook \in Webhook /\ hook.only = only
  <2> HIDE DEF only
  <2>1. NewSecret \in 0..MaxSecrets
    BY <1>2, <1>3, SpentForms
  <2> QED BY <1>4, <2>1 DEF Webhook
<1> HIDE DEF hook, only
<1>6. hooks' \in [Hooks -> Webhook \cup {NoHook}] /\ born' \in [Hooks -> Values \cup {NoValue}]
      /\ hooks'[h] = hook /\ born'[h] = scope
      /\ \A g \in Hooks \ {h} : hooks'[g] = hooks[g] /\ born'[g] = born[g]
  BY <1>1, <1>2, <1>5 DEF WebhookTypeOK
<1>7. WebhookTypeOK'
  <2>1. spent' \in Spent
    BY <1>2, <1>3, SpentForms
  <2> QED BY <1>1, <1>2, <1>6, <2>1 DEF WebhookTypeOK, Spent
<1>8. Deliveries' /\ EmittedIsLogged'
  BY <1>1, <1>2, DeliveriesQuiet DEF EmittedIsLogged
<1>9. RowIsScoped'
  BY <1>1, <1>4, <1>5, <1>6 DEF Scoped, RowIsScoped
<1>10. CopyIsScoped' /\ ScreenedHasCopy'
  <2>1. \A r \in Requests : requests[r].stage = "screened" => requests[r].hook \in Hooks \ {h}
    BY <1>1, <1>2 DEF WebhookTypeOK, Request
  <2> QED BY <1>1, <1>2, <1>6, <2>1 DEF Scoped, CopyIsScoped, ScreenedHasCopy
<1>11. MatchIsScoped'
  BY <1>1, <1>2, <1>6 DEF Scoped, MatchIsScoped
<1>12. TaskIsScoped' /\ InboxHookKeepsItsInbox'
  <2>1. \A p \in Pairs : p[1] = h => tasks[p] = NoTask /\ posts[p] = <<>>
    BY <1>1, <1>2 DEF Deliveries, Delivery
  <2>2. \A p \in Pairs : p[1] # h => born'[p[1]] = born[p[1]]
    BY <1>6, PairParts
  <2> QED BY <1>1, <1>2, <2>1, <2>2 DEF Scoped, TaskIsScoped, InboxHookKeepsItsInbox
<1> QED BY <1>7, <1>8, <1>9, <1>10, <1>11, <1>12 DEF WebhookInv, Scoped

\* Steps of requests that write no row.
LEMMA ReadsInv ==
  ASSUME WebhookInv, NEW r \in Requests, NEW q \in Request,
         requests' = [requests EXCEPT ![r] = q],
         UNCHANGED <<hooks, log, rows, emitting, tasks, posts, born>>, spent' \in Spent,
         q.stage = "screened" =>
           /\ q.copy = hooks[q.hook] /\ q.copy # NoHook
           /\ q.patch # NoPatch /\ q.scope # NoValue => BoundTo(q.hook, q.scope)
  PROVE  WebhookInv'
<1>1. WebhookTypeOK /\ Deliveries /\ EmittedIsLogged /\ Scoped
  BY DEF WebhookInv
<1>2. /\ requests' \in [Requests -> Request] /\ requests'[r] = q
      /\ \A s \in Requests \ {r} : requests'[s] = requests[s]
  BY <1>1 DEF WebhookTypeOK
<1>3. WebhookTypeOK'
  BY <1>1, <1>2 DEF WebhookTypeOK, Spent
<1>4. Deliveries' /\ EmittedIsLogged'
  BY <1>1, DeliveriesQuiet DEF EmittedIsLogged
<1>5. q.stage = "screened" /\ born[q.hook] # NoValue =>
        /\ q.copy # NoHook /\ q.copy.only[Inbox] = {born[q.hook]}
        /\ q.patch # NoPatch /\ q.scope # NoValue => q.scope = born[q.hook]
  <2>1. q.hook \in Hooks
    BY DEF Request
  <2> QED BY <1>1, <2>1 DEF Scoped, RowIsScoped, BoundTo
<1>6. CopyIsScoped'
  <2> SUFFICES ASSUME NEW s \in Requests,
                      requests'[s].stage = "screened", born[requests'[s].hook] # NoValue
               PROVE  /\ requests'[s].copy # NoHook
                      /\ requests'[s].copy.only[Inbox] = {born[requests'[s].hook]}
                      /\ requests'[s].patch # NoPatch /\ requests'[s].scope # NoValue
                           => requests'[s].scope = born[requests'[s].hook]
    BY DEF CopyIsScoped
  <2> QED BY <1>1, <1>2, <1>5 DEF Scoped, CopyIsScoped
<1>7. ScreenedHasCopy'
  BY <1>1, <1>2 DEF Scoped, ScreenedHasCopy
<1>8. RowIsScoped' /\ MatchIsScoped' /\ TaskIsScoped' /\ InboxHookKeepsItsInbox'
  BY <1>1 DEF Scoped, RowIsScoped, MatchIsScoped, TaskIsScoped, InboxHookKeepsItsInbox
<1> QED BY <1>3, <1>4, <1>6, <1>7, <1>8 DEF WebhookInv, Scoped

LEMMA RequestsInv ==
  ASSUME WebhookInv, NEW r \in Requests,
         \/ \E h \in Hooks, scope \in Values \cup {NoValue} :
              \/ \E patch \in Patches \cup {NoPatch} : Arrive(r, h, scope, patch, FALSE)
              \/ Arrive(r, h, scope, NoPatch, TRUE)
         \/ CheckScope(r) \/ ReadHook(r)
  PROVE  WebhookInv'
<1>1. WebhookTypeOK /\ spent \in Spent /\ requests[r] \in Request /\ NoHook \notin Webhook
  BY NoneIsNoRecord DEF WebhookInv, WebhookTypeOK, Spent
<1>2. ASSUME NEW h \in Hooks, NEW scope \in Values \cup {NoValue},
             NEW patch \in Patches \cup {NoPatch}, NEW deletes \in BOOLEAN,
             Arrive(r, h, scope, patch, deletes)
      PROVE  WebhookInv'
  <2> DEFINE stage == IF scope # NoValue /\ patch = NoPatch THEN "scoped" ELSE "read"
             q == [stage |-> stage, hook |-> h, scope |-> scope, patch |-> patch,
                   deletes |-> deletes, copy |-> NoHook]
  <2>1. q \in Request /\ q.stage # "screened"
    BY DEF Request
  <2>2. requests' = [requests EXCEPT ![r] = q] /\ spent' \in Spent
    BY <1>1, <1>2, SpentForms DEF Arrive
  <2> HIDE DEF q
  <2> QED BY <1>2, <2>1, <2>2, ReadsInv DEF Arrive
<1>3. ASSUME Answer(r), UNCHANGED <<hooks, log, rows, emitting, tasks, posts, born, spent>>
      PROVE  WebhookInv'
  BY <1>1, <1>3, IdleTyped, ReadsInv DEF Answer
<1>4. CASE CheckScope(r)
  <2>1. CASE requests' = [requests EXCEPT ![r].stage = "read"]
    <3> DEFINE q == [requests[r] EXCEPT !.stage = "read"]
    <3>1. q \in Request /\ q.stage = "read"
      BY <1>1 DEF Request
    <3>2. requests' = [requests EXCEPT ![r] = q]
      BY <1>1, <2>1 DEF WebhookTypeOK
    <3> HIDE DEF q
    <3> QED BY <1>1, <1>4, <3>1, <3>2, ReadsInv DEF CheckScope
  <2>2. CASE Answer(r)
    BY <1>3, <1>4, <2>2 DEF CheckScope
  <2> QED BY <1>4, <2>1, <2>2 DEF CheckScope
<1>5. CASE ReadHook(r)
  <2> DEFINE p == requests[r]
             q == [p EXCEPT !.stage = "screened", !.copy = hooks[p.hook]]
  <2>1. CASE Answer(r)
    BY <1>3, <1>5, <2>1 DEF ReadHook
  <2>2. CASE ~ Answer(r)
    <3>1. /\ requests' = [requests EXCEPT ![r].stage = "screened", ![r].copy = hooks[p.hook]]
          /\ hooks[p.hook] # NoHook
          /\ p.patch # NoPatch /\ p.scope # NoValue => BoundTo(p.hook, p.scope)
          /\ UNCHANGED <<hooks, log, rows, emitting, tasks, posts, born, spent>>
      BY <1>5, <2>2 DEF ReadHook
    <3>2. requests' = [requests EXCEPT ![r] = q]
      BY <1>1, <3>1 DEF WebhookTypeOK
    <3>3. hooks[p.hook] \in Webhook
      BY <1>1, <3>1 DEF WebhookTypeOK, Request
    <3>4. /\ q \in Request /\ q.stage = "screened" /\ q.copy = hooks[q.hook] /\ q.hook = p.hook
          /\ q.patch = p.patch /\ q.scope = p.scope
      BY <1>1, <3>3 DEF Request
    <3> HIDE DEF p, q
    <3>5. BoundTo(p.hook, p.scope) = BoundTo(q.hook, q.scope)
      BY <3>4
    <3>6. q.copy # NoHook /\ (q.patch # NoPatch /\ q.scope # NoValue => BoundTo(q.hook, q.scope))
      BY <3>1, <3>4, <3>5
    <3> QED BY <1>1, <3>1, <3>2, <3>4, <3>6, ReadsInv
  <2> QED BY <2>1, <2>2
<1> QED BY <1>2, <1>4, <1>5

\* Steps of requests that write a row, or delete it.
LEMMA WritesInv ==
  ASSUME WebhookInv, NEW r \in Requests, NEW webhook \in Webhook,
         LET h == requests[r].hook IN
         /\ \/ hooks' = hooks
            \/ hooks' = [hooks EXCEPT ![h] = webhook]
            \/ hooks' = [hooks EXCEPT ![h] = NoHook]
         /\ \/ born' = [born EXCEPT ![h] = NoValue]
            \/ /\ born' = born
               /\ \/ hooks' # [hooks EXCEPT ![h] = webhook]
                  \/ born[h] # NoValue => webhook.only[Inbox] = {born[h]},
         Answer(r), UNCHANGED <<log, rows, emitting, tasks, posts>>, spent' \in Spent
  PROVE  WebhookInv'
<1>1. WebhookTypeOK /\ Deliveries /\ EmittedIsLogged /\ Scoped
  BY DEF WebhookInv
<1> DEFINE h == requests[r].hook
<1>2. h \in Hooks
  BY <1>1 DEF WebhookTypeOK, Request
<1>3. /\ \A g \in Hooks \ {h} : hooks'[g] = hooks[g]
      /\ \A g \in Hooks : born'[g] = born[g] \/ born'[g] = NoValue
      /\ hooks' \in [Hooks -> Webhook \cup {NoHook}] /\ born' \in [Hooks -> Values \cup {NoValue}]
  BY <1>1, <1>2 DEF WebhookTypeOK
<1>4. /\ requests' \in [Requests -> Request] /\ requests'[r].stage = "idle"
      /\ \A s \in Requests \ {r} : requests'[s] = requests[s]
  BY <1>1, IdleTyped DEF WebhookTypeOK, Answer
<1>5. WebhookTypeOK'
  BY <1>1, <1>3, <1>4 DEF WebhookTypeOK, Spent
<1>6. Deliveries' /\ EmittedIsLogged'
  BY <1>1, DeliveriesQuiet DEF EmittedIsLogged
<1>7. RowIsScoped'
  <2> SUFFICES ASSUME NEW g \in Hooks, born'[g] # NoValue, hooks'[g] # NoHook
               PROVE  hooks'[g].only[Inbox] = {born'[g]}
    BY DEF RowIsScoped
  <2>1. born'[g] = born[g]
    BY <1>3
  <2>2. CASE hooks'[g] = hooks[g]
    BY <1>1, <2>1, <2>2 DEF Scoped, RowIsScoped
  <2>3. CASE hooks'[g] # hooks[g]
    <3>1. g = h /\ hooks' = [hooks EXCEPT ![h] = webhook] /\ hooks'[h] = webhook
      BY <1>1, <1>2, <1>3, <2>3 DEF WebhookTypeOK
    <3>2. born' = born
      BY <1>1, <1>2, <3>1 DEF WebhookTypeOK
    <3>3. born[h] # NoValue => webhook.only[Inbox] = {born[h]}
      BY <1>1, <1>2, <3>1, <3>2 DEF WebhookTypeOK
    <3> QED BY <3>1, <3>2, <3>3
  <2> QED BY <2>2, <2>3
<1>8. CopyIsScoped' /\ ScreenedHasCopy'
  <2>1. ASSUME NEW s \in Requests, requests'[s].stage = "screened"
        PROVE  /\ requests'[s] = requests[s] /\ requests[s].stage = "screened"
               /\ requests[s].hook \in Hooks
    BY <1>1, <1>4, <2>1 DEF WebhookTypeOK, Request
  <2>2. ASSUME NEW s \in Requests, requests'[s].stage = "screened",
               born'[requests'[s].hook] # NoValue
        PROVE  born'[requests'[s].hook] = born[requests[s].hook]
    BY <1>3, <2>1, <2>2
  <2> QED BY <1>1, <2>1, <2>2 DEF Scoped, CopyIsScoped, ScreenedHasCopy
<1>9. MatchIsScoped' /\ TaskIsScoped' /\ InboxHookKeepsItsInbox'
  BY <1>1, <1>3, PairParts DEF Scoped, MatchIsScoped, TaskIsScoped, InboxHookKeepsItsInbox
<1> QED BY <1>5, <1>6, <1>7, <1>8, <1>9 DEF WebhookInv, Scoped

LEMMA PatchedTyped ==
  ASSUME NEW copy \in Webhook, NEW patch \in Patches, NEW scope \in Values \cup {NoValue},
         NEW secret, patch.rotate => secret \in 0..MaxSecrets
  PROVE  /\ Patched(copy, patch, scope, secret) \in Webhook
         /\ scope # NoValue => Patched(copy, patch, scope, secret).only[Inbox] = {scope}
<1>1. patch \in Patch
  BY PatchesAreBodies
<1> DEFINE set == [a \in Axes |-> IF patch.only[a] = Keep THEN copy.only[a] ELSE patch.only[a]]
           cut == [a \in Axes |-> set[a] \ patch.drop[a]]
           only == IF scope = NoValue THEN cut ELSE [cut EXCEPT ![Inbox] = {scope}]
           url == IF patch.url = Keep THEN copy.url ELSE patch.url
           new == IF patch.rotate THEN secret ELSE copy.secret
           enabled == IF patch.enabled = Keep THEN copy.enabled ELSE patch.enabled
<1>2. set \in [Axes -> SUBSET Values]
  BY <1>1 DEF Patch, Webhook
<1>3. cut \in [Axes -> SUBSET Values]
  <2> HIDE DEF set
  <2> QED BY <1>2
<1>4. only \in [Axes -> SUBSET Values] /\ (scope # NoValue => only[Inbox] = {scope})
  <2> HIDE DEF cut
  <2> QED BY <1>3, WebhookBounds
<1>5. url \in {"public", "private"} /\ new \in 0..MaxSecrets
  BY <1>1 DEF Patch, Webhook
<1>6. enabled \in BOOLEAN
  BY <1>1 DEF Patch, Webhook
<1>7. Patched(copy, patch, scope, secret)
        = [url |-> url, secret |-> new, enabled |-> enabled, only |-> only]
  BY DEF Patched
<1> HIDE DEF set, cut, only, url, new, enabled
<1> QED BY <1>4, <1>5, <1>6, <1>7 DEF Webhook

LEMMA UpdatesInv ==
  ASSUME WebhookInv, NEW r \in Requests, PatchHook(r) \/ WriteHeaders(r) \/ DeleteHook(r)
  PROVE  WebhookInv'
<1>1. WebhookTypeOK /\ Scoped /\ spent \in Spent /\ requests[r] \in Request
  BY DEF WebhookInv, WebhookTypeOK, Spent
<1> DEFINE q == requests[r]
           h == q.hook
<1>2. h \in Hooks /\ q.scope \in Values \cup {NoValue}
  BY <1>1 DEF Request
<1>3. q.stage = "screened" => q.copy \in Webhook
  BY <1>1 DEF Scoped, ScreenedHasCopy, Request
<1>4. q.stage = "screened" /\ born[h] # NoValue =>
        /\ q.copy.only[Inbox] = {born[h]}
        /\ q.patch # NoPatch /\ q.scope # NoValue => q.scope = born[h]
  BY <1>1 DEF Scoped, CopyIsScoped
<1> HIDE DEF q
<1>5. ASSUME NEW webhook \in Webhook, WriteRow(r, webhook), Answer(r),
             UNCHANGED <<log, rows, emitting, tasks, posts>>, spent' \in Spent,
             q.scope # NoValue /\ born[h] # NoValue => webhook.only[Inbox] = {born[h]}
      PROVE  WebhookInv'
  BY <1>5, WritesInv DEF WriteRow, q
<1>6. CASE WriteHeaders(r)
  BY <1>1, <1>3, <1>4, <1>5, <1>6 DEF WriteHeaders, q
<1>7. CASE PatchHook(r)
  <2> DEFINE webhook == Patched(q.copy, q.patch, q.scope, NewSecret)
  <2>1. /\ q.stage = "screened" /\ q.patch # NoPatch /\ (q.patch.rotate => NewSecret <= MaxSecrets)
        /\ Answer(r) /\ UNCHANGED <<log, rows, emitting, tasks, posts>>
    BY <1>7 DEF PatchHook, q
  <2>2. q.patch \in Patches
    BY <1>1, <2>1 DEF Request, q
  <2>3. /\ webhook \in Webhook
        /\ q.scope # NoValue => webhook.only[Inbox] = {q.scope}
    <3>1. q.patch.rotate => NewSecret \in 0..MaxSecrets
      BY <1>1, <2>1, SpentForms
    <3> QED BY <1>2, <1>3, <2>1, <2>2, <3>1, PatchedTyped
  <2> HIDE DEF webhook
  <2>4. CASE /\ WriteRow(r, webhook)
             /\ spent' = IF q.patch.rotate THEN [spent EXCEPT !.secrets = NewSecret] ELSE spent
    <3>1. spent' \in Spent
      BY <1>1, <2>1, <2>4, SpentForms
    <3> QED BY <1>4, <1>5, <2>1, <2>3, <2>4, <3>1
  <2>5. CASE UNCHANGED <<hooks, born>> /\ (spent' = spent \/ Fault)
    <3>1. spent' \in Spent
      BY <1>1, <2>5, SpentForms
    <3>2. \/ hooks' # [hooks EXCEPT ![h] = webhook]
          \/ born[h] # NoValue => webhook.only[Inbox] = {born[h]}
      <4>1. CASE hooks = [hooks EXCEPT ![h] = webhook]
        <5>1. hooks[h] = webhook
          BY <1>1, <1>2, <4>1 DEF WebhookTypeOK
        <5> QED BY <1>1, <1>2, <2>3, <5>1, NoneIsNoRecord DEF Scoped, RowIsScoped
      <4> QED BY <2>5, <4>1
    <3> QED BY <2>1, <2>3, <2>5, <3>1, <3>2, WritesInv DEF q
  <2> QED BY <1>7, <2>4, <2>5 DEF PatchHook, q, webhook
<1>8. CASE DeleteHook(r)
  <2> DEFINE some == [url |-> "public", secret |-> 0, enabled |-> TRUE,
                      only |-> [a \in Axes |-> {}]]
  <2>1. some \in Webhook
    BY WebhookBounds DEF Webhook
  <2> HIDE DEF some
  <2>2. hooks' # [hooks EXCEPT ![h] = some]
    <3>1. hooks'[h] = NoHook
      BY <1>1, <1>2, <1>8 DEF DeleteHook, WebhookTypeOK, q
    <3>2. [hooks EXCEPT ![h] = some][h] = some
      BY <1>1, <1>2 DEF WebhookTypeOK
    <3> QED BY <2>1, <3>1, <3>2, NoneIsNoRecord
  <2> QED BY <1>1, <1>8, <2>1, <2>2, WritesInv DEF DeleteHook, q
<1> QED BY <1>6, <1>7, <1>8

-----------------------------------------------------------------------------
(* Events.                                                                   *)

LEMMA EventsInv ==
  ASSUME WebhookInv, NEW e \in Events, StoreEvent(e) \/ MatchHooks(e)
  PROVE  WebhookInv'
<1>1. /\ WebhookTypeOK /\ Deliveries /\ EmittedIsLogged /\ Scoped /\ spent \in Spent
      /\ emitting[e] \in Emission
  BY DEF WebhookInv, WebhookTypeOK, Spent
<1>2. UNCHANGED <<hooks, rows, tasks, requests, posts, born>> /\ log \subseteq log'
  BY DEF StoreEvent, MatchHooks
<1> DEFINE taken == [h \in Hooks |-> IF hooks[h] # NoHook /\ Matches(hooks[h], e)
                                     THEN hooks[h] ELSE NoHook]
<1>3. spent' \in Spent /\ log' \in SUBSET Events
  BY <1>1, SpentForms DEF StoreEvent, MatchHooks, WebhookTypeOK
<1>4. PICK stage \in {"stored", "matched", "over"}, todo \in {emitting[e].todo, taken} :
        /\ emitting' = [emitting EXCEPT ![e] = [stage |-> stage, todo |-> todo]]
        /\ stage \in {"stored", "matched"} => e \in log'
  <2>1. CASE StoreEvent(e)
    <3>1. PICK stage \in {"stored", "over"} :
            /\ emitting' = [emitting EXCEPT ![e].stage = stage]
            /\ stage = "stored" => e \in log'
      BY <2>1 DEF StoreEvent
    <3> DEFINE em == [emitting[e] EXCEPT !.stage = stage]
    <3>2. em = [stage |-> stage, todo |-> emitting[e].todo]
      BY <1>1 DEF Emission
    <3>3. emitting' = [emitting EXCEPT ![e] = em]
      BY <1>1, <3>1 DEF WebhookTypeOK
    <3> HIDE DEF em
    <3> QED BY <3>1, <3>2, <3>3
  <2>2. CASE MatchHooks(e)
    <3>1. emitting[e].stage = "stored" /\ log' = log /\ e \in log
      BY <1>1, <2>2 DEF MatchHooks, EmittedIsLogged
    <3>2. CASE emitting' = [emitting EXCEPT ![e] = [stage |-> "matched", todo |-> taken]]
      BY <3>1, <3>2
    <3>3. CASE emitting' = [emitting EXCEPT ![e].stage = "over"]
      <4> DEFINE em == [emitting[e] EXCEPT !.stage = "over"]
      <4>1. em = [stage |-> "over", todo |-> emitting[e].todo]
        BY <1>1 DEF Emission
      <4>2. emitting' = [emitting EXCEPT ![e] = em]
        BY <1>1, <3>3 DEF WebhookTypeOK
      <4> HIDE DEF em
      <4> QED BY <3>1, <4>1, <4>2
    <3> QED BY <2>2, <3>2, <3>3 DEF MatchHooks
  <2> QED BY <2>1, <2>2
<1>5. /\ taken \in [Hooks -> Webhook \cup {NoHook}] /\ emitting[e].todo \in [Hooks -> Webhook \cup {NoHook}]
  BY <1>1 DEF WebhookTypeOK, Emission
<1>6. ASSUME NEW h \in Hooks, taken[h] # NoHook, born[h] # NoValue
      PROVE  FactOf[e][Inbox] = born[h]
  <2>1. hooks[h] # NoHook /\ Matches(hooks[h], e)
    BY <1>6
  <2>2. hooks[h].only[Inbox] = {born[h]}
    BY <1>1, <1>6, <2>1 DEF Scoped, RowIsScoped
  <2>3. hooks[h].only[Inbox] = {} \/ FactOf[e][Inbox] \in hooks[h].only[Inbox]
    BY <2>1, WebhookBounds DEF Matches
  <2> QED BY <2>2, <2>3
<1> HIDE DEF taken
<1>7. /\ emitting' \in [Events -> Emission]
      /\ emitting'[e].stage = stage /\ emitting'[e].todo = todo
      /\ \A d \in Events \ {e} : emitting'[d] = emitting[d]
  <2>1. [stage |-> stage, todo |-> todo] \in Emission
    BY <1>4, <1>5 DEF Emission
  <2> QED BY <1>1, <1>4, <2>1 DEF WebhookTypeOK
<1>8. WebhookTypeOK'
  BY <1>1, <1>2, <1>3, <1>7 DEF WebhookTypeOK, Spent
<1>9. Deliveries'
  BY <1>1, <1>2, DeliveriesQuiet
<1>10. EmittedIsLogged'
  BY <1>1, <1>2, <1>4, <1>7 DEF EmittedIsLogged
<1>11. MatchIsScoped'
  <2> SUFFICES ASSUME NEW d \in Events, NEW h \in Hooks,
                      emitting'[d].todo[h] # NoHook, born[h] # NoValue
               PROVE  FactOf[d][Inbox] = born[h]
    BY <1>2 DEF MatchIsScoped
  <2>1. CASE d # e
    BY <1>1, <1>7, <2>1 DEF Scoped, MatchIsScoped
  <2>2. CASE d = e
    BY <1>1, <1>4, <1>6, <1>7, <2>2 DEF Scoped, MatchIsScoped
  <2> QED BY <2>1, <2>2
<1>12. RowIsScoped' /\ CopyIsScoped' /\ ScreenedHasCopy' /\ TaskIsScoped' /\ InboxHookKeepsItsInbox'
  BY <1>1, <1>2 DEF Scoped, RowIsScoped, CopyIsScoped, ScreenedHasCopy, TaskIsScoped,
                    InboxHookKeepsItsInbox
<1> QED BY <1>8, <1>9, <1>10, <1>11, <1>12 DEF WebhookInv, Scoped

\* A step of one delivery: its row, its task and its posts alone.
LEMMA DeliveryInv ==
  ASSUME WebhookInv, NEW p \in Pairs, NEW row \in Row \cup {NoRow}, NEW task \in Task \cup {NoTask},
         NEW verdicts \in Seq({"accepted", "refused"}),
         rows' = [rows EXCEPT ![p] = row], tasks' = [tasks EXCEPT ![p] = task],
         posts' = [posts EXCEPT ![p] = verdicts],
         UNCHANGED <<hooks, log, requests, born>>, spent' \in Spent,
         emitting' \in [Events -> Emission],
         \A e \in Events : emitting'[e].stage = emitting[e].stage
         /\ \A h \in Hooks : emitting'[e].todo[h] \in {emitting[e].todo[h], NoHook},
         Delivery(p)',
         (task # NoTask \/ verdicts # <<>>) /\ born[p[1]] # NoValue
            => FactOf[p[2]][Inbox] = born[p[1]]
  PROVE  WebhookInv'
<1>1. WebhookTypeOK /\ Deliveries /\ EmittedIsLogged /\ Scoped
  BY DEF WebhookInv
<1>2. /\ rows' \in [Pairs -> Row \cup {NoRow}] /\ tasks' \in [Pairs -> Task \cup {NoTask}]
      /\ posts' \in [Pairs -> Seq({"accepted", "refused"})]
      /\ \A q \in Pairs \ {p} : rows'[q] = rows[q] /\ tasks'[q] = tasks[q] /\ posts'[q] = posts[q]
      /\ tasks'[p] = task /\ posts'[p] = verdicts
  BY <1>1 DEF WebhookTypeOK
<1>3. WebhookTypeOK'
  BY <1>1, <1>2 DEF WebhookTypeOK, Spent
<1>4. Deliveries'
  <2> SUFFICES ASSUME NEW q \in Pairs PROVE Delivery(q)'
    BY DEF Deliveries
  <2>1. CASE q # p
    BY <1>1, <1>2, <2>1, OthersKeep DEF Deliveries
  <2> QED BY <2>1
<1>5. EmittedIsLogged' /\ MatchIsScoped'
  BY <1>1 DEF EmittedIsLogged, Scoped, MatchIsScoped
<1>6. RowIsScoped' /\ CopyIsScoped' /\ ScreenedHasCopy'
  BY <1>1 DEF Scoped, RowIsScoped, CopyIsScoped, ScreenedHasCopy
<1>7. TaskIsScoped' /\ InboxHookKeepsItsInbox'
  <2> SUFFICES ASSUME NEW q \in Pairs, tasks'[q] # NoTask \/ posts'[q] # <<>>, born[q[1]] # NoValue
               PROVE  FactOf[q[2]][Inbox] = born[q[1]]
    BY DEF TaskIsScoped, InboxHookKeepsItsInbox
  <2>1. CASE q # p
    BY <1>1, <1>2, <2>1 DEF Scoped, TaskIsScoped, InboxHookKeepsItsInbox
  <2>2. CASE q = p
    BY <1>2, <2>2
  <2> QED BY <2>1, <2>2
<1> QED BY <1>3, <1>4, <1>5, <1>6, <1>7 DEF WebhookInv, Scoped

LEMMA DispatchInv ==
  ASSUME WebhookInv, NEW e \in Events, NEW h \in Hooks, Dispatch(e, h)
  PROVE  WebhookInv'
<1>1. /\ WebhookTypeOK /\ Deliveries /\ EmittedIsLogged /\ Scoped /\ spent \in Spent
  BY DEF WebhookInv, WebhookTypeOK, Spent
<1> DEFINE p == <<h, e>>
           webhook == emitting[e].todo[h]
           row == [status |-> "pending", attempts |-> 0]
           task == [hook |-> webhook, attempt |-> 1, stage |-> "screen", ok |-> FALSE]
<1>2. p \in Pairs /\ p[1] = h /\ p[2] = e
  BY DEF Pairs
<1>3. /\ emitting[e].stage = "matched" /\ webhook # NoHook /\ e \in log
      /\ UNCHANGED <<hooks, log, requests, posts, born>>
      /\ emitting' = [emitting EXCEPT ![e].todo[h] = NoHook]
  BY <1>1 DEF Dispatch, EmittedIsLogged
<1>4. /\ emitting' \in [Events -> Emission]
      /\ \A d \in Events : /\ emitting'[d].stage = emitting[d].stage
                           /\ \A g \in Hooks : emitting'[d].todo[g] \in {emitting[d].todo[g], NoHook}
  BY <1>1, <1>3 DEF WebhookTypeOK, Emission
<1>5. webhook \in Webhook
  BY <1>1, <1>3 DEF WebhookTypeOK, Emission
<1>6. spent' \in Spent
  BY <1>1, SpentForms DEF Dispatch
<1>7. /\ rows = [rows EXCEPT ![p] = rows[p]] /\ tasks = [tasks EXCEPT ![p] = tasks[p]]
      /\ posts = [posts EXCEPT ![p] = posts[p]]
      /\ rows[p] \in Row \cup {NoRow} /\ tasks[p] \in Task \cup {NoTask}
      /\ posts[p] \in Seq({"accepted", "refused"})
  BY <1>1, <1>2 DEF WebhookTypeOK
<1>8. born[h] # NoValue => FactOf[e][Inbox] = born[h]
  BY <1>1, <1>3 DEF Scoped, MatchIsScoped
<1>9. CASE UNCHANGED <<rows, tasks>>
  <2>1. Delivery(p)'
    BY <1>1, <1>2, <1>3, <1>9, OthersKeep DEF Deliveries
  <2>2. /\ rows' = [rows EXCEPT ![p] = rows[p]] /\ tasks' = [tasks EXCEPT ![p] = tasks[p]]
        /\ posts' = [posts EXCEPT ![p] = posts[p]]
    BY <1>3, <1>7, <1>9
  <2>3. born[p[1]] # NoValue => FactOf[p[2]][Inbox] = born[p[1]]
    BY <1>2, <1>8
  <2> HIDE DEF p, webhook, row, task
  <2> QED BY <1>2, <1>3, <1>4, <1>6, <1>7, <2>1, <2>2, <2>3, DeliveryInv, ZenonT(60)
<1>10. CASE /\ rows[p] = NoRow
            /\ rows' = [rows EXCEPT ![p] = row] /\ tasks' = [tasks EXCEPT ![p] = task]
  <2>1. row \in Row /\ row.status = "pending"
    BY WebhookBounds DEF Row
  <2>2. task \in Task /\ task.stage = "screen" /\ task.attempt = 1
    BY <1>5, WebhookBounds DEF Task
  <2> HIDE DEF row, task, webhook
  <2>3. posts[p] = <<>>
    BY <1>1, <1>2, <1>10 DEF Deliveries, Delivery
  <2>4. rows'[p] = row /\ tasks'[p] = task /\ posts'[p] = <<>> /\ Len(posts'[p]) = 0
    BY <1>1, <1>2, <1>3, <1>10, <2>3 DEF WebhookTypeOK
  <2> HIDE DEF p
  <2>5. Delivery(p)'
    BY <1>2, <1>3, <2>1, <2>2, <2>4, NoneIsNoRecord, WebhookBounds DEF Delivery
  <2> QED BY <1>2, <1>3, <1>4, <1>6, <1>7, <1>8, <1>10, <2>1, <2>2, <2>5, DeliveryInv
<1> QED BY <1>9, <1>10 DEF Dispatch

-----------------------------------------------------------------------------
(* deliver_one.                                                              *)

LEMMA TaskInv == ASSUME WebhookInv, NEW p \in Pairs, TaskStep(p) PROVE WebhookInv'
<1>1. /\ WebhookTypeOK /\ Deliveries /\ Scoped /\ spent \in Spent /\ MaxAttempts \in Nat \ {0}
      /\ Delivery(p)
  BY WebhookBounds DEF WebhookInv, WebhookTypeOK, Spent, Deliveries
<1> DEFINE t == tasks[p]
<1>2. /\ t # NoTask /\ t \in Task /\ rows[p] # NoRow /\ rows[p] \in Row /\ p[2] \in log
      /\ posts[p] \in Seq({"accepted", "refused"}) /\ Len(posts[p]) \in Nat
      /\ t.attempt \in 1..MaxAttempts
      /\ UNCHANGED <<hooks, log, requests, born>> /\ emitting' = emitting
  BY <1>1 DEF TaskStep, Screen, Post, Note, Retry, GiveUpOn, WebhookTypeOK, Task, Delivery
<1>3. born[p[1]] # NoValue => FactOf[p[2]][Inbox] = born[p[1]]
  BY <1>1, <1>2 DEF Scoped, TaskIsScoped
<1>4. /\ rows = [rows EXCEPT ![p] = rows[p]] /\ posts = [posts EXCEPT ![p] = posts[p]]
      /\ emitting \in [Events -> Emission]
  BY <1>1 DEF WebhookTypeOK
\* The cases give the row, the task and the posts after the step.
<1>5. ASSUME NEW row \in Row, NEW task \in Task \cup {NoTask},
             NEW verdicts \in Seq({"accepted", "refused"}),
             rows' = [rows EXCEPT ![p] = row], tasks' = [tasks EXCEPT ![p] = task],
             posts' = [posts EXCEPT ![p] = verdicts], spent' \in Spent, Delivery(p)'
      PROVE  WebhookInv'
  BY <1>2, <1>3, <1>4, <1>5, DeliveryInv
<1>6. ASSUME NEW row, NEW task, NEW verdicts,
             rows' = [rows EXCEPT ![p] = row], tasks' = [tasks EXCEPT ![p] = task],
             posts' = [posts EXCEPT ![p] = verdicts]
      PROVE  rows'[p] = row /\ tasks'[p] = task /\ posts'[p] = verdicts
  BY <1>1, <1>6 DEF WebhookTypeOK
<1>7. CASE Screen(p) \/ Retry(p)
  <2>1. PICK task \in Task :
          /\ tasks' = [tasks EXCEPT ![p] = task]
          /\ \/ t.stage = "screen" /\ task.stage \in {"post", "over"} /\ task.attempt = t.attempt
             \/ /\ t.stage = "noted"
                /\ \/ task.stage = "screen" /\ task.attempt = t.attempt + 1
                   \/ task.stage = "over"
    <3>1. CASE Screen(p)
      <4>1. PICK stage \in {"post", "over"} : tasks' = [tasks EXCEPT ![p].stage = stage]
        BY <3>1 DEF Screen
      <4> DEFINE task == [t EXCEPT !.stage = stage]
      <4>2. task \in Task /\ task.stage = stage /\ task.attempt = t.attempt
        BY <1>2 DEF Task
      <4>3. tasks' = [tasks EXCEPT ![p] = task]
        BY <1>1, <4>1 DEF WebhookTypeOK
      <4>4. t.stage = "screen"
        BY <3>1 DEF Screen
      <4> HIDE DEF task, t
      <4> QED BY <4>1, <4>2, <4>3, <4>4
    <3>2. CASE Retry(p) /\ t.attempt < MaxAttempts
      <4> DEFINE task == [t EXCEPT !.stage = "screen", !.attempt = @ + 1]
      <4>1. tasks' = [tasks EXCEPT ![p].stage = "screen", ![p].attempt = @ + 1]
            /\ t.stage = "noted"
        BY <3>2 DEF Retry
      <4>2. task \in Task /\ task.stage = "screen" /\ task.attempt = t.attempt + 1
        <5>1. t.attempt + 1 \in 1..MaxAttempts
          BY <1>1, <1>2, <3>2
        <5> QED BY <1>2, <5>1 DEF Task
      <4>3. tasks' = [tasks EXCEPT ![p] = task]
        BY <1>1, <1>2, <4>1 DEF WebhookTypeOK, Task
      <4> HIDE DEF task, t
      <4> QED BY <4>1, <4>2, <4>3
    <3>3. CASE Retry(p) /\ ~ (t.attempt < MaxAttempts)
      <4> DEFINE task == [t EXCEPT !.stage = "over"]
      <4>1. tasks' = [tasks EXCEPT ![p].stage = "over"] /\ t.stage = "noted"
        BY <3>3 DEF Retry
      <4>2. task \in Task /\ task.stage = "over"
        BY <1>2 DEF Task
      <4>3. tasks' = [tasks EXCEPT ![p] = task]
        BY <1>1, <4>1 DEF WebhookTypeOK
      <4> HIDE DEF task, t
      <4> QED BY <4>1, <4>2, <4>3
    <3> QED BY <1>7, <3>1, <3>2, <3>3
  <2>2. UNCHANGED <<rows, posts, spent>>
    BY <1>7 DEF Screen, Retry
  <2>3. rows'[p] = rows[p] /\ tasks'[p] = task /\ posts'[p] = posts[p]
    BY <1>1, <2>1, <2>2 DEF WebhookTypeOK
  <2>4. Delivery(p)'
    <3>1. t.stage = "noted" => Len(posts[p]) = t.attempt
      BY <1>1, <1>2 DEF Delivery
    <3>2. t.stage = "screen" => Len(posts[p]) = t.attempt - 1
      BY <1>1, <1>2 DEF Delivery
    <3>3. task.stage \notin {"answered", "noted"}
          /\ (task.stage \in {"screen", "post"} => Len(posts[p]) = task.attempt - 1)
      BY <1>2, <2>1, <3>1, <3>2
    <3> QED BY <1>1, <1>2, <2>3, <3>3 DEF Delivery
  <2> QED BY <1>1, <1>2, <1>4, <1>5, <2>1, <2>2, <2>4
<1>8. CASE Post(p)
  <2>1. PICK verdict \in {"accepted", "refused"}, ok \in BOOLEAN :
          /\ posts' = [posts EXCEPT ![p] = Append(@, verdict)]
          /\ tasks' = [tasks EXCEPT ![p].stage = "answered", ![p].ok = ok]
          /\ ok => verdict = "accepted"
    BY <1>8 DEF Post
  <2>2. t.stage = "post" /\ UNCHANGED <<rows, spent>>
    BY <1>8 DEF Post
  <2> DEFINE task == [t EXCEPT !.stage = "answered", !.ok = ok]
             verdicts == Append(posts[p], verdict)
  <2>3. task \in Task /\ task.stage = "answered" /\ task.ok = ok /\ task.attempt = t.attempt
    BY <1>2 DEF Task
  <2>4. /\ verdicts \in Seq({"accepted", "refused"}) /\ Len(verdicts) = Len(posts[p]) + 1
        /\ verdicts[Len(verdicts)] = verdict /\ verdicts # <<>>
    BY <1>2
  <2>5. tasks' = [tasks EXCEPT ![p] = task] /\ posts' = [posts EXCEPT ![p] = verdicts]
    BY <1>1, <1>2, <2>1 DEF WebhookTypeOK, Task
  <2> HIDE DEF task, verdicts
  <2>6. rows'[p] = rows[p] /\ tasks'[p] = task /\ posts'[p] = verdicts
    BY <1>1, <2>2, <2>5 DEF WebhookTypeOK
  <2>7. Len(posts[p]) = t.attempt - 1 /\ rows[p].status \in {"pending", "retrying"}
    BY <1>1, <1>2, <2>2 DEF Delivery
  <2>8. Len(verdicts) = t.attempt /\ Len(verdicts) <= MaxAttempts
    BY <1>1, <1>2, <2>4, <2>7
  <2>9. rows[p].status = "retrying" => rows[p].attempts <= Len(verdicts)
    <3>1. rows[p].status = "retrying" => rows[p].attempts <= Len(posts[p])
      BY <1>1, <1>2 DEF Delivery
    <3>2. rows[p].attempts \in Nat
      BY <1>1, <1>2 DEF Row
    <3> QED BY <1>2, <2>4, <3>1, <3>2
  <2>10. Delivery(p)'
    BY <1>2, <2>1, <2>3, <2>4, <2>6, <2>7, <2>8, <2>9 DEF Delivery
  <2> QED BY <1>1, <1>2, <1>4, <1>5, <2>2, <2>3, <2>4, <2>5, <2>10
<1>9. ASSUME NEW status \in {"delivered", "retrying", "failed"}, NEW attempts \in 0..MaxAttempts,
             WriteDelivery(p, status, attempts)
      PROVE  \E row \in Row : /\ rows' = [rows EXCEPT ![p] = row] /\ spent' \in Spent
                              /\ \/ row = rows[p]
                                 \/ row.status = status /\ row.attempts = attempts
  <2>1. CASE UNCHANGED rows
    BY <1>1, <1>2, <1>4, <1>9, <2>1, SpentForms DEF WriteDelivery
  <2>2. CASE rows' = [rows EXCEPT ![p] = [status |-> status, attempts |-> attempts]]
             /\ UNCHANGED spent
    <3>1. [status |-> status, attempts |-> attempts] \in Row
      BY DEF Row
    <3> QED BY <1>1, <2>2, <3>1
  <2> QED BY <1>9, <2>1, <2>2 DEF WriteDelivery
<1>10. CASE Note(p)
  <2> DEFINE status == IF t.ok THEN "delivered" ELSE "retrying"
  <2>1. t.stage = "answered" /\ WriteDelivery(p, status, t.attempt) /\ UNCHANGED posts
    BY <1>10 DEF Note
  <2>2. t.attempt \in 0..MaxAttempts
    BY <1>1, <1>2
  <2>3. PICK row \in Row : /\ rows' = [rows EXCEPT ![p] = row] /\ spent' \in Spent
                           /\ \/ row = rows[p]
                              \/ row.status = status /\ row.attempts = t.attempt
    BY <1>9, <2>1, <2>2
  <2>4. PICK task \in Task \cup {NoTask} :
          /\ tasks' = [tasks EXCEPT ![p] = task]
          /\ \/ task = NoTask
             \/ ~ t.ok /\ task \in Task /\ task.stage = "noted" /\ task.attempt = t.attempt
    <3>1. CASE t.ok
      BY <1>10, <3>1 DEF Note
    <3>2. CASE ~ t.ok
      <4> DEFINE task == [t EXCEPT !.stage = "noted"]
      <4>1. task \in Task /\ task.stage = "noted" /\ task.attempt = t.attempt
        BY <1>2 DEF Task
      <4>2. tasks' = [tasks EXCEPT ![p] = task]
        BY <1>1, <1>10, <3>2 DEF Note, WebhookTypeOK
      <4> HIDE DEF task
      <4> QED BY <3>2, <4>1, <4>2
    <3> QED BY <3>1, <3>2
  <2>5. rows'[p] = row /\ tasks'[p] = task /\ posts'[p] = posts[p]
    BY <1>1, <2>1, <2>3, <2>4 DEF WebhookTypeOK
  <2>6. /\ Len(posts[p]) = t.attempt /\ (t.ok => posts[p][Len(posts[p])] = "accepted")
        /\ rows[p].status \in {"pending", "retrying"}
    BY <1>1, <1>2, <2>1 DEF Delivery
  <2>7. row # NoRow
    BY NoneIsNoRecord
  <2>8. task # NoTask => row.status \in {"pending", "retrying"}
    BY <2>3, <2>4, <2>6
  <2>9. /\ row.status = "delivered" =>
             Len(posts[p]) = row.attempts /\ posts[p][Len(posts[p])] = "accepted"
        /\ row.status = "retrying" => row.attempts <= Len(posts[p])
    <3>1. CASE row = rows[p]
      BY <1>1, <1>2, <3>1 DEF Delivery
    <3>2. CASE row.status = status /\ row.attempts = t.attempt
      BY <1>1, <1>2, <2>6, <3>2
    <3> QED BY <2>3, <3>1, <3>2
  <2> HIDE DEF t, status
  <2>10. Len(posts[p]) <= MaxAttempts
    BY <1>1 DEF Delivery
  <2>11. task # NoTask => task.stage = "noted" /\ task.attempt = Len(posts[p])
    BY <2>4, <2>6
  <2>12. Delivery(p)'
    BY <1>2, <2>5, <2>7, <2>8, <2>9, <2>10, <2>11 DEF Delivery
  <2> QED BY <1>1, <1>2, <1>4, <1>5, <2>1, <2>3, <2>4, <2>12
<1>11. CASE GiveUpOn(p)
  <2>1. PICK row \in Row : /\ rows' = [rows EXCEPT ![p] = row] /\ spent' \in Spent
                           /\ row = rows[p] \/ row.status = "failed"
    <3>1. MaxAttempts \in 0..MaxAttempts
      BY <1>1
    <3> QED BY <1>9, <1>11, <3>1 DEF GiveUpOn
  <2>2. tasks' = [tasks EXCEPT ![p] = NoTask] /\ UNCHANGED posts
    BY <1>11 DEF GiveUpOn
  <2>3. rows'[p] = row /\ tasks'[p] = NoTask /\ posts'[p] = posts[p] /\ row # NoRow
    BY <1>1, <2>1, <2>2, NoneIsNoRecord DEF WebhookTypeOK
  <2>4. Delivery(p)'
    BY <1>1, <1>2, <2>1, <2>3 DEF Delivery
  <2> QED BY <1>2, <1>4, <1>5, <2>1, <2>2, <2>4
<1> QED BY <1>7, <1>8, <1>10, <1>11 DEF TaskStep

LEMMA CrashInv == ASSUME WebhookInv, CrashService PROVE WebhookInv'
<1>1. /\ WebhookTypeOK /\ Deliveries /\ EmittedIsLogged /\ Scoped /\ spent \in Spent
  BY DEF WebhookInv, WebhookTypeOK, Spent
<1>2. /\ UNCHANGED <<hooks, log, rows, posts, born>> /\ spent' \in Spent
      /\ tasks' = [p \in Pairs |-> NoTask] /\ requests' = [r \in Requests |-> AnyIdle]
  BY <1>1, SpentForms DEF CrashService
<1>3. /\ emitting' \in [Events -> Emission]
      /\ \A e \in Events : /\ emitting'[e].stage \in {"new", "over"}
                           /\ emitting'[e] = emitting[e] \/ emitting'[e].todo = NoMatches
  BY <1>1 DEF CrashService, WebhookTypeOK, Emission, NoMatches
<1>4. WebhookTypeOK'
  BY <1>1, <1>2, <1>3, IdleTyped DEF WebhookTypeOK, Spent
<1>5. Deliveries'
  <2> SUFFICES ASSUME NEW p \in Pairs PROVE Delivery(p)'
    BY DEF Deliveries
  <2>1. Delivery(p) /\ tasks'[p] = NoTask
    BY <1>1, <1>2 DEF Deliveries
  <2> QED BY <1>2, <2>1 DEF Delivery
<1>6. EmittedIsLogged' /\ MatchIsScoped'
  BY <1>1, <1>2, <1>3 DEF EmittedIsLogged, Scoped, MatchIsScoped, NoMatches
<1>7. CopyIsScoped' /\ ScreenedHasCopy' /\ TaskIsScoped'
  BY <1>2, IdleTyped DEF CopyIsScoped, ScreenedHasCopy, TaskIsScoped
<1>8. RowIsScoped' /\ InboxHookKeepsItsInbox'
  BY <1>1, <1>2 DEF Scoped, RowIsScoped, InboxHookKeepsItsInbox
<1> QED BY <1>4, <1>5, <1>6, <1>7, <1>8 DEF WebhookInv, Scoped

-----------------------------------------------------------------------------
(* The theorems.                                                             *)

LEMMA WebhookStepInv == WebhookInv /\ [WebhookNext]_vars_wd => WebhookInv'
<1> SUFFICES ASSUME WebhookInv, [WebhookNext]_vars_wd PROVE WebhookInv'
  OBVIOUS
<1>1. CASE UNCHANGED vars_wd
  <2>1. WebhookTypeOK'
    BY <1>1 DEF WebhookInv, WebhookTypeOK, vars_wd
  <2>2. Deliveries' /\ EmittedIsLogged'
    BY <1>1, DeliveriesQuiet DEF WebhookInv, EmittedIsLogged, vars_wd
  <2>3. Scoped'
    BY <1>1 DEF WebhookInv, vars_wd, Scoped, RowIsScoped, CopyIsScoped, ScreenedHasCopy,
                MatchIsScoped, TaskIsScoped, InboxHookKeepsItsInbox
  <2> QED BY <2>1, <2>2, <2>3 DEF WebhookInv
<1>2. CASE Routes
  BY <1>2, CreateInv, RequestsInv, UpdatesInv DEF Routes
<1>3. CASE \E e \in Events : EventStep(e)
  BY <1>3, EventsInv, DispatchInv DEF EventStep
<1>4. CASE \E p \in Pairs : TaskStep(p)
  BY <1>4, TaskInv
<1>5. CASE CrashService
  BY <1>5, CrashInv
<1> QED BY <1>1, <1>2, <1>3, <1>4, <1>5 DEF WebhookNext

LEMMA WebhookInductive == WebhookSpec => []WebhookInv
  BY WebhookInitInv, WebhookStepInv, PTL DEF WebhookSpec

\* Every variable of the webhooks keeps its type.
THEOREM WebhookTypeCorrect == WebhookSpec => []WebhookTypeOK
<1>1. WebhookInv => WebhookTypeOK
  BY DEF WebhookInv
<1> QED BY <1>1, WebhookInductive, PTL

\* A delivery row never claims more than its task did, and nothing is posted that
\* the log does not have (deliver_one, create_delivery_if_new).
THEOREM RowsAreHonest == WebhookSpec => []RowTellsTheOutcome
<1>1. WebhookInv => RowTellsTheOutcome
  BY RowsTell DEF WebhookInv
<1> QED BY <1>1, WebhookInductive, PTL

\* A webhook that only the routes of one inbox have written gets no event of
\* another inbox, however patches, header updates, deletes and deliveries of any
\* number of requests interleave (patch_webhook_record).
THEOREM InboxHooksAreConfined == WebhookSpec => []InboxHookKeepsItsInbox
<1>1. WebhookInv => InboxHookKeepsItsInbox
  BY DEF WebhookInv, Scoped
<1> QED BY <1>1, WebhookInductive, PTL

-----------------------------------------------------------------------------
(* The deliveries implement EventDelivery.                                   *)

\* What a write of a delivery row leaves: the row it names, or the row there was.
LEMMA WrittenOrNot ==
  ASSUME NEW p \in Pairs, NEW status, NEW attempts, WriteDelivery(p, status, attempts)
  PROVE  rows' = rows \/ rows' = [rows EXCEPT ![p] = [status |-> status, attempts |-> attempts]]
  BY DEF WriteDelivery

\* A delivery with a task is open, and its task counts the posts.
LEMMA TaskIsOpen ==
  ASSUME WebhookInv, NEW p \in Pairs, tasks[p] # NoTask
  PROVE  /\ Outcome!Open(p) /\ MaxAttempts \in Nat \ {0}
         /\ tasks[p] \in Task /\ tasks[p].attempt \in 1..MaxAttempts
         /\ posts[p] \in Seq({"accepted", "refused"}) /\ Len(posts[p]) \in Nat
<1>1. Delivery(p) /\ tasks[p] \in Task
  BY DEF WebhookInv, WebhookTypeOK, Deliveries
<1>2. posts[p] \in Seq({"accepted", "refused"})
  BY DEF WebhookInv, WebhookTypeOK
<1>3. Outcome!Open(p)
  BY <1>1 DEF Delivery, Outcome!Open, Outcome!Begun
<1> QED BY <1>1, <1>2, <1>3, WebhookBounds DEF Task

\* Every step of a task is one of EventDelivery's, or leaves the delivery as it is.
LEMMA TaskIsOutcome ==
  ASSUME WebhookInv, NEW p \in Pairs, TaskStep(p)
  PROVE  Outcome!Next \/ UNCHANGED Outcome!vars
<1>1. /\ tasks[p] # NoTask /\ Delivery(p) /\ log' = log
  BY DEF TaskStep, Screen, Post, Note, Retry, GiveUpOn, WebhookInv, Deliveries
<1>2. /\ Outcome!Open(p) /\ MaxAttempts \in Nat \ {0} /\ tasks[p].attempt \in 1..MaxAttempts
      /\ posts[p] \in Seq({"accepted", "refused"}) /\ Len(posts[p]) \in Nat
  BY <1>1, TaskIsOpen
<1>3. p \in Outcome!Pairs
  BY DEF Pairs, Outcome!Pairs
<1>4. CASE Screen(p) \/ Retry(p)
  BY <1>4 DEF Screen, Retry, Outcome!vars
<1>5. CASE Post(p)
  <2>1. PICK verdict \in {"accepted", "refused"} : posts' = [posts EXCEPT ![p] = Append(@, verdict)]
    BY <1>5 DEF Post
  <2>2. Len(posts[p]) = tasks[p].attempt - 1 /\ rows' = rows
    BY <1>1, <1>5 DEF Post, Delivery
  <2>3. Len(posts[p]) < MaxAttempts
    BY <1>2, <2>2
  <2>4. Outcome!Attempt(p, verdict)
    BY <1>1, <1>2, <2>1, <2>2, <2>3 DEF Outcome!Attempt
  <2> QED BY <1>3, <2>4 DEF Outcome!Next
<1>6. CASE Note(p)
  <2>1. /\ posts' = posts /\ Len(posts[p]) = tasks[p].attempt
        /\ tasks[p].ok => posts[p][Len(posts[p])] = "accepted"
        /\ WriteDelivery(p, IF tasks[p].ok THEN "delivered" ELSE "retrying", tasks[p].attempt)
    BY <1>1, <1>6 DEF Note, Delivery
  <2>2. posts[p] # <<>>
    BY <1>2, <2>1
  <2>3. CASE rows' = rows
    BY <1>1, <2>1, <2>3 DEF Outcome!vars
  <2>4. CASE tasks[p].ok /\ rows' = [rows EXCEPT ![p] = [status |-> "delivered", attempts |-> Len(posts[p])]]
    <3>1. Outcome!Deliver(p)
      BY <1>1, <1>2, <2>1, <2>2, <2>4 DEF Outcome!Deliver, Outcome!SaysOf
    <3> QED BY <1>3, <3>1 DEF Outcome!Next
  <2>5. CASE rows' = [rows EXCEPT ![p] = [status |-> "retrying", attempts |-> Len(posts[p])]]
    <3>1. Outcome!WillRetry(p)
      BY <1>1, <1>2, <2>1, <2>2, <2>5 DEF Outcome!WillRetry, Outcome!SaysOf
    <3> QED BY <1>3, <3>1 DEF Outcome!Next
  <2> QED BY <2>1, <2>3, <2>4, <2>5, WrittenOrNot
<1>7. CASE GiveUpOn(p)
  <2>1. posts' = posts /\ WriteDelivery(p, "failed", MaxAttempts)
    BY <1>7 DEF GiveUpOn
  <2>2. CASE rows' = rows
    BY <1>1, <2>1, <2>2 DEF Outcome!vars
  <2>3. CASE rows' = [rows EXCEPT ![p] = [status |-> "failed", attempts |-> MaxAttempts]]
    <3>1. Outcome!GiveUp(p)
      BY <1>1, <1>2, <2>1, <2>3 DEF Outcome!GiveUp, Outcome!SaysOf
    <3> QED BY <1>3, <3>1 DEF Outcome!Next
  <2> QED BY <2>1, <2>2, <2>3, WrittenOrNot
<1> QED BY <1>4, <1>5, <1>6, <1>7 DEF TaskStep

\* So is every step that an event takes on its way to the tasks.
LEMMA EventIsOutcome ==
  ASSUME WebhookInv, NEW e \in Events, EventStep(e)
  PROVE  Outcome!Next \/ UNCHANGED Outcome!vars
<1>1. CASE StoreEvent(e)
  <2>1. rows' = rows /\ posts' = posts /\ (log' = log \cup {e} \/ log' = log)
    BY <1>1 DEF StoreEvent
  <2>2. CASE log' = log \cup {e}
    <3>1. Outcome!Tell(e)
      BY <2>1, <2>2 DEF Outcome!Tell
    <3> QED BY <3>1 DEF Outcome!Next
  <2> QED BY <2>1, <2>2 DEF Outcome!vars
<1>2. CASE MatchHooks(e)
  BY <1>2 DEF MatchHooks, Outcome!vars
<1>3. ASSUME NEW h \in Hooks, Dispatch(e, h)
      PROVE  Outcome!Next \/ UNCHANGED Outcome!vars
  <2> DEFINE p == <<h, e>>
  <2>1. p \in Outcome!Pairs /\ p[2] = e /\ e \in log /\ log' = log /\ posts' = posts
    BY <1>3 DEF Outcome!Pairs, Dispatch, WebhookInv, EmittedIsLogged
  <2>2. CASE rows' = rows
    BY <2>1, <2>2 DEF Outcome!vars
  <2>3. CASE rows[p] = NoRow /\ rows' = [rows EXCEPT ![p] = [status |-> "pending", attempts |-> 0]]
    <3>1. Outcome!Begin(p)
      BY <2>1, <2>3 DEF Outcome!Begin, Outcome!Begun, Outcome!SaysOf
    <3> HIDE DEF p
    <3> QED BY <2>1, <3>1 DEF Outcome!Next
  <2> QED BY <1>3, <2>2, <2>3 DEF Dispatch
<1> QED BY <1>1, <1>2, <1>3 DEF EventStep

LEMMA WebhookIsOutcome ==
  WebhookInv /\ [WebhookNext]_vars_wd => [Outcome!Next]_(Outcome!vars)
<1> SUFFICES ASSUME WebhookInv, [WebhookNext]_vars_wd
             PROVE  Outcome!Next \/ UNCHANGED Outcome!vars
  OBVIOUS
<1>1. CASE UNCHANGED vars_wd
  BY <1>1 DEF vars_wd, Outcome!vars
<1>2. CASE Routes
  <2>1. UNCHANGED <<log, rows, posts>>
    BY <1>2 DEF Routes, CreateHook, Arrive, CheckScope, ReadHook, PatchHook, WriteHeaders, DeleteHook
  <2> QED BY <2>1 DEF Outcome!vars
<1>3. CASE \E e \in Events : EventStep(e)
  BY <1>3, EventIsOutcome
<1>4. CASE \E p \in Pairs : TaskStep(p)
  BY <1>4, TaskIsOutcome
<1>5. CASE CrashService
  BY <1>5 DEF CrashService, Outcome!vars
<1> QED BY <1>1, <1>2, <1>3, <1>4, <1>5 DEF WebhookNext

LEMMA OutcomeStarts == WebhookInit => Outcome!Init
  BY DEF WebhookInit, Outcome!Init, Outcome!Pairs, Pairs

\* Whatever any number of requests, lookups and tasks do, and whichever store calls
\* fail and however often the process stops, a delivery is begun once and from a
\* logged event, its row counts the posts behind it, and a settled one is neither
\* posted again nor rewritten (record_event, deliver_one).
THEOREM DeliveryRefinement == WebhookSpec => ImplementsEventDelivery
  BY WebhookInductive, OutcomeStarts, WebhookIsOutcome, PTL
     DEF WebhookSpec, ImplementsEventDelivery, Outcome!Spec

(*****************************************************************************)
(* RealtimeStream.                                                           *)
(*****************************************************************************)

EventFrames == {EventFrame(e) : e \in Emitted}
PublishedIsStored ==
  /\ \A e \in Emitted : emitter[e] = "stored" => e \in stored
  /\ \A i \in 1..Len(published) : published[i] \in stored
\* A client reads after its upgrade, and its last acknowledgement is its filter.
FilterIsAcked(c) ==
  \E i \in 1..Len(frames[c]) :
    /\ frames[c][i] = Ack(client[c].filter)
    /\ \A k \in (i + 1)..Len(frames[c]) : frames[c][k].kind = "event"
ClientsAreAcked ==
  \A c \in Clients :
    /\ client[c].up => frames[c] # <<>>
    /\ frames[c] # <<>> =>
         /\ client[c].since \in 1..client[c].next /\ client[c].next \in 1..(Len(published) + 1)
         /\ FilterIsAcked(c)
StreamInv ==
  /\ StreamTypeOK /\ PublishedIsStored /\ ClientsAreAcked
  /\ StreamedIsStored /\ AckedFilterHolds /\ NothingElseIsLost

LEMMA FrameKinds ==
  /\ \A f \in EventFilters \cup {NoFilter} :
       Ack(f) \in Frame /\ Ack(f).kind = "ack" /\ Ack(f).filter = f /\ Ack(f) \notin EventFrames
  /\ \A e \in Emitted : /\ EventFrame(e) \in Frame /\ EventFrame(e).kind = "event"
                        /\ EventFrame(e).id = e /\ EventFrame(e) \in EventFrames
<1>1. ASSUME NEW f \in EventFilters \cup {NoFilter}
      PROVE  Ack(f) \in Frame /\ Ack(f).kind = "ack" /\ Ack(f).filter = f
  BY DEF Ack, Frame
<1>2. ASSUME NEW e \in Emitted
      PROVE  /\ EventFrame(e) \in Frame /\ EventFrame(e).kind = "event" /\ EventFrame(e).id = e
             /\ EventFrame(e) \in EventFrames
  BY DEF EventFrame, Frame, EventFrames
<1>3. \A e \in Emitted : EventFrame(e).kind # "ack"
  BY <1>2
<1>4. \A f \in EventFilters \cup {NoFilter} : Ack(f) \notin EventFrames
  BY <1>1, <1>3 DEF EventFrames
<1> QED BY <1>1, <1>2, <1>4

\* One more frame for a client: an acknowledgement, or an event its filter takes.
\* What the new state must satisfy of the client depends on its own frames alone.
FramesOk(fs, cl, pub, sto, c, L) ==
  /\ fs \in Seq(Frame) /\ cl \in Client
  /\ cl.up => fs # <<>>
  /\ fs # <<>> =>
       /\ cl.since \in 1..cl.next /\ cl.next \in 1..(Len(pub) + 1)
       /\ \E i \in 1..Len(fs) :
            /\ fs[i] = Ack(cl.filter)
            /\ \A k \in (i + 1)..Len(fs) : fs[k].kind = "event"
  /\ \A i \in 1..Len(fs) : fs[i].kind = "event" => fs[i].id \in sto
  /\ \A i, j \in 1..Len(fs) :
       /\ i < j /\ fs[i].kind = "ack" /\ fs[j].kind = "event"
       /\ \A k \in (i + 1)..(j - 1) : fs[k].kind = "event"
       => Wanted(fs[i].filter, fs[j].id)
  /\ c \notin L /\ fs # <<>> /\ (\A i \in 1..Len(fs) : fs[i].kind = "ack" => fs[i].filter = NoFilter)
     => Selected(fs, EventFrames) = [i \in 1..(cl.next - cl.since) |->
                                       EventFrame(pub[cl.since + i - 1])]

LEMMA InvByClient ==
    ASSUME frames \in [Clients -> Seq(Frame)], client \in [Clients -> Client]
    PROVE  (\A c \in Clients : FramesOk(frames[c], client[c], published, stored, c, lagged))
           <=> ClientsAreAcked /\ StreamedIsStored /\ AckedFilterHolds /\ NothingElseIsLost
<1>1. \A c \in Clients : frames[c] \in Seq(Frame) /\ client[c] \in Client
  OBVIOUS
<1>2. \A c \in Clients : EventsOf(c) = Selected(frames[c], EventFrames)
  BY DEF EventsOf, EventFrames
<1>3. ASSUME \A c \in Clients : FramesOk(frames[c], client[c], published, stored, c, lagged)
      PROVE  ClientsAreAcked /\ StreamedIsStored /\ AckedFilterHolds /\ NothingElseIsLost
  <2>1. ClientsAreAcked
    BY <1>3 DEF FramesOk, ClientsAreAcked, FilterIsAcked
  <2>2. StreamedIsStored
    BY <1>3 DEF FramesOk, StreamedIsStored
  <2>3. AckedFilterHolds
    BY <1>3, Zenon DEF FramesOk, AckedFilterHolds
  <2>4. NothingElseIsLost
    BY <1>2, <1>3 DEF FramesOk, NothingElseIsLost
  <2> QED BY <2>1, <2>2, <2>3, <2>4
<1>4. ASSUME ClientsAreAcked, StreamedIsStored, AckedFilterHolds, NothingElseIsLost, NEW c \in Clients
      PROVE  FramesOk(frames[c], client[c], published, stored, c, lagged)
  <2> DEFINE fs == frames[c]
             cl == client[c]
  <2>1. /\ fs \in Seq(Frame) /\ cl \in Client
        /\ cl.up => fs # <<>>
        /\ fs # <<>> =>
             /\ cl.since \in 1..cl.next /\ cl.next \in 1..(Len(published) + 1)
             /\ \E i \in 1..Len(fs) :
                  /\ fs[i] = Ack(cl.filter)
                  /\ \A k \in (i + 1)..Len(fs) : fs[k].kind = "event"
    BY <1>1, <1>4 DEF ClientsAreAcked, FilterIsAcked
  <2>2. \A i \in 1..Len(fs) : fs[i].kind = "event" => fs[i].id \in stored
    BY <1>4 DEF StreamedIsStored
  <2>3. \A i, j \in 1..Len(fs) :
           /\ i < j /\ fs[i].kind = "ack" /\ fs[j].kind = "event"
           /\ \A k \in (i + 1)..(j - 1) : fs[k].kind = "event"
           => Wanted(fs[i].filter, fs[j].id)
    BY <1>4, Zenon DEF AckedFilterHolds
  <2>4. c \notin lagged /\ fs # <<>>
        /\ (\A i \in 1..Len(fs) : fs[i].kind = "ack" => fs[i].filter = NoFilter)
        => Selected(fs, EventFrames) = [i \in 1..(cl.next - cl.since) |->
                                          EventFrame(published[cl.since + i - 1])]
    BY <1>2, <1>4 DEF NothingElseIsLost
  <2> QED BY <2>1, <2>2, <2>3, <2>4 DEF FramesOk
<1> QED BY <1>3, <1>4

\* More rows and more values on the channel, and a lag, change nothing of it.
LEMMA LaterIsOk ==
    ASSUME NEW fs, NEW cl, NEW pub, NEW sto, NEW c, NEW L, FramesOk(fs, cl, pub, sto, c, L),
           pub \in Seq(Emitted), NEW pub2 \in Seq(Emitted), Len(pub) <= Len(pub2),
           \A i \in 1..Len(pub) : pub2[i] = pub[i],
           NEW sto2, sto \subseteq sto2
    PROVE  FramesOk(fs, cl, pub2, sto2, c, L)
<1>1. Len(pub) \in Nat /\ Len(pub2) \in Nat
  OBVIOUS
<1>2. fs \in Seq(Frame) /\ cl \in Client /\ (cl.up => fs # <<>>)
      /\ (fs # <<>> => cl.since \in 1..cl.next /\ cl.next \in 1..(Len(pub) + 1))
  BY DEF FramesOk
<1>3. cl.since \in Nat /\ cl.next \in Nat
  BY <1>2 DEF Client
<1>4. fs # <<>> => cl.next \in 1..(Len(pub2) + 1)
  BY <1>1, <1>2, <1>3
<1>5. fs # <<>> => [i \in 1..(cl.next - cl.since) |-> EventFrame(pub[cl.since + i - 1])]
                 = [i \in 1..(cl.next - cl.since) |-> EventFrame(pub2[cl.since + i - 1])]
  <2>1. ASSUME fs # <<>>, NEW i \in 1..(cl.next - cl.since)
        PROVE  pub[cl.since + i - 1] = pub2[cl.since + i - 1]
    <3>1. cl.since + i - 1 \in 1..Len(pub)
      BY <1>1, <1>2, <1>3, <2>1
    <3> QED BY <3>1
  <2> QED BY <2>1
<1>6. \A i \in 1..Len(fs) : fs[i].kind = "event" => fs[i].id \in sto2
  BY DEF FramesOk
<1>7. \A i, j \in 1..Len(fs) :
       /\ i < j /\ fs[i].kind = "ack" /\ fs[j].kind = "event"
       /\ \A k \in (i + 1)..(j - 1) : fs[k].kind = "event"
       => Wanted(fs[i].filter, fs[j].id)
  BY Zenon DEF FramesOk
<1>8. fs # <<>> => \E i \in 1..Len(fs) :
            /\ fs[i] = Ack(cl.filter)
            /\ \A k \in (i + 1)..Len(fs) : fs[k].kind = "event"
  BY Zenon DEF FramesOk
<1>9. c \notin L /\ fs # <<>> /\ (\A i \in 1..Len(fs) : fs[i].kind = "ack" => fs[i].filter = NoFilter)
     => Selected(fs, EventFrames) = [i \in 1..(cl.next - cl.since) |->
                                       EventFrame(pub2[cl.since + i - 1])]
  <2>1. c \notin L /\ fs # <<>> /\ (\A i \in 1..Len(fs) : fs[i].kind = "ack" => fs[i].filter = NoFilter)
     => Selected(fs, EventFrames) = [i \in 1..(cl.next - cl.since) |->
                                       EventFrame(pub[cl.since + i - 1])]
    BY Zenon DEF FramesOk
  <2> QED BY <1>5, <2>1, Zenon
<1> QED BY <1>2, <1>4, <1>6, <1>7, <1>8, <1>9, Zenon DEF FramesOk

\* The part of FramesOk about the events so far.
LEMMA AckIsOk ==
    ASSUME NEW fs, NEW cl, NEW pub \in Seq(Emitted), NEW sto, NEW c, NEW L,
           FramesOk(fs, cl, pub, sto, c, L), fs # <<>>, NEW f \in EventFilters \cup {NoFilter}
    PROVE  FramesOk(Append(fs, Ack(f)), [cl EXCEPT !.filter = f], pub, sto, c, L)
<1> DEFINE gs == Append(fs, Ack(f))
           dl == [cl EXCEPT !.filter = f]
<1>1. fs \in Seq(Frame) /\ cl \in Client /\ Len(fs) \in Nat
      /\ cl.since \in 1..cl.next /\ cl.next \in 1..(Len(pub) + 1)
  BY DEF FramesOk
<1>2. dl \in Client /\ dl.filter = f /\ dl.next = cl.next /\ dl.since = cl.since
  BY <1>1 DEF Client
<1>3. Ack(f) \in Frame /\ Ack(f).kind = "ack" /\ Ack(f).filter = f /\ Ack(f) \notin EventFrames
  BY FrameKinds
<1>4. /\ gs \in Seq(Frame) /\ Len(gs) = Len(fs) + 1 /\ gs[Len(fs) + 1] = Ack(f) /\ gs # <<>>
      /\ \A i \in 1..Len(fs) : gs[i] = fs[i]
  BY <1>1, <1>3
<1>5. Selected(gs, EventFrames) = Selected(fs, EventFrames)
  BY <1>1, <1>3, SelectedAppend
<1> HIDE DEF gs, dl
<1>6. \A i \in 1..Len(gs) : gs[i].kind = "event" => i \in 1..Len(fs) /\ gs[i] = fs[i]
  BY <1>1, <1>3, <1>4
<1>7. \A i \in 1..Len(gs) : gs[i].kind = "event" => gs[i].id \in sto
  BY <1>6 DEF FramesOk
<1>8. \A i, j \in 1..Len(gs) :
       /\ i < j /\ gs[i].kind = "ack" /\ gs[j].kind = "event"
       /\ \A k \in (i + 1)..(j - 1) : gs[k].kind = "event"
       => Wanted(gs[i].filter, gs[j].id)
  <2>1. ASSUME NEW i \in 1..Len(gs), NEW j \in 1..Len(gs), i < j, gs[i].kind = "ack",
               gs[j].kind = "event", \A k \in (i + 1)..(j - 1) : gs[k].kind = "event"
        PROVE  Wanted(gs[i].filter, gs[j].id)
    <3>1. j \in 1..Len(fs) /\ i \in 1..Len(fs) /\ gs[i] = fs[i] /\ gs[j] = fs[j]
      BY <1>1, <1>4, <1>6, <2>1
    <3>2. \A k \in (i + 1)..(j - 1) : k \in 1..Len(fs) /\ gs[k] = fs[k]
      BY <1>1, <1>4, <3>1
    <3>3. \A k \in (i + 1)..(j - 1) : fs[k].kind = "event"
      BY <2>1, <3>2
    <3>4. fs[i].kind = "ack" /\ fs[j].kind = "event"
      BY <2>1, <3>1
    <3>5. Wanted(fs[i].filter, fs[j].id)
      BY <2>1, <3>1, <3>3, <3>4, Zenon DEF FramesOk
    <3> QED BY <3>1, <3>5
  <2> QED BY <2>1
<1>9. \E i \in 1..Len(gs) : gs[i] = Ack(dl.filter) /\ \A k \in (i + 1)..Len(gs) : gs[k].kind = "event"
  <2>1. Len(fs) + 1 \in 1..Len(gs) /\ (Len(fs) + 2)..Len(gs) = {}
    BY <1>1, <1>4
  <2>2. Len(fs) + 1 + 1 = Len(fs) + 2
    BY <1>1
  <2> QED BY <1>2, <1>4, <2>1, <2>2
<1>10. c \notin L /\ (\A i \in 1..Len(gs) : gs[i].kind = "ack" => gs[i].filter = NoFilter)
     => Selected(gs, EventFrames) = [i \in 1..(dl.next - dl.since) |->
                                       EventFrame(pub[dl.since + i - 1])]
  <2>1. ASSUME c \notin L, \A i \in 1..Len(gs) : gs[i].kind = "ack" => gs[i].filter = NoFilter
        PROVE  Selected(fs, EventFrames) = [i \in 1..(cl.next - cl.since) |->
                                              EventFrame(pub[cl.since + i - 1])]
    <3>1. \A i \in 1..Len(fs) : i \in 1..Len(gs)
      BY <1>1, <1>4
    <3>2. \A i \in 1..Len(fs) : fs[i].kind = "ack" => fs[i].filter = NoFilter
      BY <1>4, <2>1, <3>1
    <3> QED BY <2>1, <3>2, Zenon DEF FramesOk
  <2> QED BY <1>2, <1>5, <2>1
<1>11. dl.since \in 1..dl.next /\ dl.next \in 1..(Len(pub) + 1)
  BY <1>1, <1>2
<1> QED BY <1>2, <1>4, <1>7, <1>8, <1>9, <1>10, <1>11, Zenon DEF FramesOk, gs, dl

\* The filter of a client that has only open subscriptions acknowledged is open.
LEMMA OpenFilter ==
    ASSUME NEW fs, NEW cl, NEW pub, NEW sto, NEW c, NEW L, FramesOk(fs, cl, pub, sto, c, L), fs # <<>>,
           \A i \in 1..Len(fs) : fs[i].kind = "ack" => fs[i].filter = NoFilter
    PROVE  cl.filter = NoFilter
<1>1. PICK i \in 1..Len(fs) : fs[i] = Ack(cl.filter)
  BY DEF FramesOk
<1>2. cl.filter \in EventFilters \cup {NoFilter}
  BY DEF FramesOk, Client
<1> QED BY <1>1, <1>2, FrameKinds

\* The client is sent the value it is at, and its filter takes it.
LEMMA SentIsOk ==
    ASSUME NEW fs, NEW cl, NEW pub \in Seq(Emitted), NEW sto, NEW c, NEW L,
           FramesOk(fs, cl, pub, sto, c, L), fs # <<>>,
           cl.next \in 1..Len(pub), pub[cl.next] \in sto, Wanted(cl.filter, pub[cl.next])
    PROVE  FramesOk(Append(fs, EventFrame(pub[cl.next])), [cl EXCEPT !.next = cl.next + 1],
                    pub, sto, c, L)
<1> DEFINE e == pub[cl.next]
           gs == Append(fs, EventFrame(e))
           dl == [cl EXCEPT !.next = cl.next + 1]
           m == Len(fs) + 1
<1>1. fs \in Seq(Frame) /\ cl \in Client /\ Len(fs) \in Nat /\ Len(pub) \in Nat
      /\ cl.since \in 1..cl.next /\ cl.next \in 1..(Len(pub) + 1)
      /\ cl.since \in Nat /\ cl.next \in Nat
  BY DEF FramesOk, Client
<1>2. dl \in Client /\ dl.filter = cl.filter /\ dl.next = cl.next + 1 /\ dl.since = cl.since
  BY <1>1 DEF Client
<1>3. e \in Emitted /\ EventFrame(e) \in Frame /\ EventFrame(e).kind = "event"
      /\ EventFrame(e).id = e /\ EventFrame(e) \in EventFrames
  BY FrameKinds
<1> HIDE DEF e
<1>4. /\ gs \in Seq(Frame) /\ Len(gs) = m /\ gs[m] = EventFrame(e) /\ gs # <<>>
      /\ \A i \in 1..Len(fs) : gs[i] = fs[i]
  BY <1>1, <1>3
<1>5. Selected(gs, EventFrames) = Append(Selected(fs, EventFrames), EventFrame(e))
  BY <1>1, <1>3, SelectedAppend
<1>6. m \in Nat /\ 1..Len(gs) = 1..Len(fs) \cup {m} /\ m \notin 1..Len(fs)
  <2> HIDE DEF gs
  <2> QED BY <1>1, <1>4
<1> HIDE DEF gs, dl
<1>7. \A i \in 1..Len(gs) : gs[i].kind = "event" => gs[i].id \in sto
  <2>1. \A i \in 1..Len(fs) : fs[i].kind = "event" => fs[i].id \in sto
    BY DEF FramesOk
  <2>2. e \in sto
    BY DEF e
  <2> HIDE DEF m
  <2> QED BY <1>3, <1>4, <1>6, <2>1, <2>2
<1>8. PICK a \in 1..Len(fs) : fs[a] = Ack(cl.filter)
                              /\ \A k \in (a + 1)..Len(fs) : fs[k].kind = "event"
  BY DEF FramesOk
<1>9. \A i, j \in 1..Len(gs) :
       /\ i < j /\ gs[i].kind = "ack" /\ gs[j].kind = "event"
       /\ \A k \in (i + 1)..(j - 1) : gs[k].kind = "event"
       => Wanted(gs[i].filter, gs[j].id)
  <2>1. ASSUME NEW i \in 1..Len(gs), NEW j \in 1..Len(gs), i < j, gs[i].kind = "ack",
               gs[j].kind = "event", \A k \in (i + 1)..(j - 1) : gs[k].kind = "event"
        PROVE  Wanted(gs[i].filter, gs[j].id)
    <3>1. i \in 1..Len(fs) /\ gs[i] = fs[i] /\ i \in Nat /\ j \in Nat
      BY <1>1, <1>4, <1>6, <2>1
    <3>2. \A k \in (i + 1)..(j - 1) : k \in 1..Len(fs) /\ fs[k].kind = "event"
      <4>1. ASSUME NEW k \in (i + 1)..(j - 1) PROVE k \in 1..Len(fs)
        BY <1>1, <1>4, <3>1
      <4> QED BY <1>4, <2>1, <4>1
    <3>3. CASE j \in 1..Len(fs)
      <4>1. fs[i].kind = "ack" /\ fs[j].kind = "event" /\ gs[j] = fs[j]
        BY <1>4, <2>1, <3>1, <3>3
      <4>2. Wanted(fs[i].filter, fs[j].id)
        BY <2>1, <3>1, <3>2, <3>3, <4>1, Zenon DEF FramesOk
      <4> QED BY <3>1, <4>1, <4>2
    <3>4. CASE j = m
      <4>1. fs[i].kind = "ack" /\ fs[a].kind = "ack" /\ a \in Nat
        BY <1>1, <1>2, <1>8, <2>1, <3>1, FrameKinds DEF Client
      <4>2. ~(i < a)
        <5>1. i < a => a \in (i + 1)..(j - 1)
          BY <1>1, <1>8, <3>1, <3>4, <4>1
        <5> QED BY <3>2, <4>1, <5>1
      <4>3. ~(a < i)
        <5>1. a < i => i \in (a + 1)..Len(fs)
          BY <1>1, <1>8, <3>1, <4>1
        <5> QED BY <1>8, <4>1, <5>1
      <4>4. i = a
        BY <3>1, <4>1, <4>2, <4>3
      <4>5. gs[i].filter = cl.filter /\ gs[j].id = e
        <5> HIDE DEF m
        <5> QED BY <1>1, <1>3, <1>4, <1>8, <3>1, <3>4, <4>4, FrameKinds DEF Client
      <4> QED BY <4>5 DEF e
    <3> QED BY <1>6, <3>3, <3>4
  <2> QED BY <2>1
<1>10. \E i \in 1..Len(gs) : gs[i] = Ack(dl.filter) /\ \A k \in (i + 1)..Len(gs) : gs[k].kind = "event"
  <2>1. a \in 1..Len(gs) /\ gs[a] = Ack(dl.filter)
    <3> HIDE DEF m
    <3> QED BY <1>2, <1>4, <1>6, <1>8
  <2>2. ASSUME NEW k \in (a + 1)..Len(gs) PROVE gs[k].kind = "event"
    <3>1. (k \in (a + 1)..Len(fs) /\ k \in 1..Len(fs)) \/ k = m
      BY <1>1, <1>4, <1>8, SMTT(30)
    <3> HIDE DEF m
    <3> QED BY <1>3, <1>4, <1>8, <3>1
  <2> QED BY <2>1, <2>2
<1>11. c \notin L /\ (\A i \in 1..Len(gs) : gs[i].kind = "ack" => gs[i].filter = NoFilter)
     => Selected(gs, EventFrames) = [i \in 1..(dl.next - dl.since) |->
                                       EventFrame(pub[dl.since + i - 1])]
  <2>1. ASSUME c \notin L, \A i \in 1..Len(gs) : gs[i].kind = "ack" => gs[i].filter = NoFilter
        PROVE  Selected(gs, EventFrames) = [i \in 1..(dl.next - dl.since) |->
                                              EventFrame(pub[dl.since + i - 1])]
    <3> DEFINE n == cl.next - cl.since
               S == Selected(fs, EventFrames)
    <3>1. \A i \in 1..Len(fs) : fs[i].kind = "ack" => fs[i].filter = NoFilter
      <4> HIDE DEF m
      <4> QED BY <1>4, <1>6, <2>1
    <3>2. S = [i \in 1..n |-> EventFrame(pub[cl.since + i - 1])]
      BY <2>1, <3>1, Zenon DEF FramesOk
    <3>3. n \in Nat /\ dl.next - dl.since = n + 1 /\ dl.since + (n + 1) - 1 = cl.next
      BY <1>1, <1>2
    <3>4. S \in Seq(Frame \cap EventFrames)
      BY <1>1, SelectedIsList
    <3> HIDE DEF n, S
    <3>5. Len(S) = n /\ DOMAIN S = 1..n
      BY <3>2, <3>3
    <3> DEFINE T == Append(S, EventFrame(e))
    <3>6. T = [i \in 1..(n + 1) |-> IF i = n + 1 THEN EventFrame(e) ELSE S[i]]
      <4>1. T \in Seq(Frame) /\ Len(T) = n + 1
            /\ \A i \in 1..(n + 1) : T[i] = IF i = n + 1 THEN EventFrame(e) ELSE S[i]
        <5>1. S \in Seq(Frame)
          BY <3>4, SeqMonotonic
        <5> QED BY <1>3, <3>3, <3>5, <5>1
      <4> HIDE DEF T
      <4>2. T \in [1..(n + 1) -> Frame]
        BY <4>1, LenProperties
      <4> QED BY <4>1, <4>2
    <3>7. \A i \in 1..(n + 1) : (IF i = n + 1 THEN EventFrame(e) ELSE S[i])
                                 = EventFrame(pub[dl.since + i - 1])
      <4>1. ASSUME NEW i \in 1..(n + 1), i # n + 1 PROVE S[i] = EventFrame(pub[dl.since + i - 1])
        <5>1. i \in 1..n
          BY <3>3, <4>1
        <5> QED BY <1>2, <3>2, <5>1
      <4>2. EventFrame(e) = EventFrame(pub[dl.since + (n + 1) - 1])
        BY <3>3 DEF e
      <4> QED BY <4>1, <4>2
    <3> HIDE DEF T
    <3>8. T = [i \in 1..(n + 1) |-> EventFrame(pub[dl.since + i - 1])]
      BY <3>6, <3>7
    <3> QED BY <1>5, <3>3, <3>8 DEF S, T
  <2> QED BY <2>1
<1>12. dl.since \in 1..dl.next /\ dl.next \in 1..(Len(pub) + 1)
  BY <1>1, <1>2
<1> QED BY <1>2, <1>4, <1>7, <1>9, <1>10, <1>11, <1>12, Zenon DEF FramesOk, gs, dl, e

\* The client passes over a value its filter leaves out.
LEMMA PassedIsOk ==
    ASSUME NEW fs, NEW cl, NEW pub \in Seq(Emitted), NEW sto, NEW c, NEW L,
           FramesOk(fs, cl, pub, sto, c, L), fs # <<>>,
           cl.next \in 1..Len(pub), ~Wanted(cl.filter, pub[cl.next])
    PROVE  FramesOk(fs, [cl EXCEPT !.next = cl.next + 1], pub, sto, c, L)
<1> DEFINE dl == [cl EXCEPT !.next = cl.next + 1]
<1>1. fs \in Seq(Frame) /\ cl \in Client /\ Len(pub) \in Nat
      /\ cl.since \in 1..cl.next /\ cl.next \in Nat /\ cl.since \in Nat
  BY DEF FramesOk, Client
<1>2. dl \in Client /\ dl.filter = cl.filter /\ dl.next = cl.next + 1 /\ dl.since = cl.since
  <2>1. cl.next + 1 \in Nat
    BY <1>1
  <2> DEFINE n == cl.next + 1
  <2> HIDE DEF n
  <2>2. [cl EXCEPT !.next = n] \in Client /\ [cl EXCEPT !.next = n].filter = cl.filter
        /\ [cl EXCEPT !.next = n].next = n /\ [cl EXCEPT !.next = n].since = cl.since
    BY <1>1, <2>1 DEF Client, n
  <2> QED BY <2>2 DEF n
<1>3. ~(\A i \in 1..Len(fs) : fs[i].kind = "ack" => fs[i].filter = NoFilter)
  BY OpenFilter DEF Wanted
<1>4. dl.since \in 1..dl.next /\ dl.next \in 1..(Len(pub) + 1)
  BY <1>1, <1>2
<1> HIDE DEF dl
<1> QED BY <1>2, <1>3, <1>4, Zenon DEF FramesOk, dl

\* Its receiver lost values.
LEMMA LaggedIsOk ==
    ASSUME NEW fs, NEW cl, NEW pub \in Seq(Emitted), NEW sto, NEW c, NEW L,
           FramesOk(fs, cl, pub, sto, c, L), fs # <<>>,
           NEW n \in Nat, cl.next < n, n <= Len(pub) + 1
    PROVE  FramesOk(fs, [cl EXCEPT !.next = n], pub, sto, c, L \cup {c})
<1> DEFINE dl == [cl EXCEPT !.next = n]
<1>1. fs \in Seq(Frame) /\ cl \in Client /\ Len(pub) \in Nat
      /\ cl.since \in 1..cl.next /\ cl.next \in Nat /\ cl.since \in Nat
  BY DEF FramesOk, Client
<1>2. dl \in Client /\ dl.filter = cl.filter /\ dl.next = n /\ dl.since = cl.since
  BY <1>1 DEF Client
<1>3. dl.since \in 1..dl.next /\ dl.next \in 1..(Len(pub) + 1)
  BY <1>1, <1>2
<1> HIDE DEF dl
<1> QED BY <1>2, <1>3, Zenon DEF FramesOk, dl

LEMMA ClosedIsOk ==
    ASSUME NEW fs, NEW cl, NEW pub, NEW sto, NEW c, NEW L, FramesOk(fs, cl, pub, sto, c, L), cl.up
    PROVE  FramesOk(fs, [cl EXCEPT !.up = FALSE], pub, sto, c, L)
<1> DEFINE dl == [cl EXCEPT !.up = FALSE]
<1>1. cl \in Client
  BY DEF FramesOk
<1>2. dl \in Client /\ dl.filter = cl.filter /\ dl.next = cl.next /\ dl.since = cl.since
  BY <1>1 DEF Client
<1>3. fs # <<>>
  BY DEF FramesOk
<1> HIDE DEF dl
<1> QED BY <1>2, <1>3, Zenon DEF FramesOk, dl

LEMMA OpenedIsOk ==
    ASSUME NEW pub \in Seq(Emitted), NEW sto, NEW c, NEW L
    PROVE  FramesOk(<<Ack(NoFilter)>>, [up |-> TRUE, next |-> Len(pub) + 1, filter |-> NoFilter,
                                        since |-> Len(pub) + 1], pub, sto, c, L)
<1> DEFINE fs == <<Ack(NoFilter)>>
           cl == [up |-> TRUE, next |-> Len(pub) + 1, filter |-> NoFilter, since |-> Len(pub) + 1]
<1>1. Ack(NoFilter) \in Frame /\ Ack(NoFilter).kind = "ack" /\ Ack(NoFilter).filter = NoFilter
      /\ Ack(NoFilter) \notin EventFrames
  BY FrameKinds
<1>2. fs \in Seq(Frame) /\ Len(fs) = 1 /\ fs[1] = Ack(NoFilter) /\ fs # <<>>
  BY <1>1
<1>3. /\ cl \in Client /\ cl.since \in 1..cl.next /\ cl.next \in 1..(Len(pub) + 1)
      /\ cl.filter = NoFilter /\ cl.next - cl.since = 0
  BY DEF Client
<1> HIDE DEF fs, cl
<1>4. \A i \in 1..Len(fs) : i = 1 /\ fs[i].kind = "ack"
  BY <1>1, <1>2
<1>5. \E i \in 1..Len(fs) : fs[i] = Ack(cl.filter) /\ \A k \in (i + 1)..Len(fs) : fs[k].kind = "event"
  BY <1>2, <1>3
<1>6. Selected(fs, EventFrames) = [i \in 1..(cl.next - cl.since) |->
                                     EventFrame(pub[cl.since + i - 1])]
  <2>1. PlacesIn(fs, EventFrames) = {}
    BY <1>1, <1>2 DEF PlacesIn
  <2>2. Cardinality(PlacesIn(fs, EventFrames)) = 0
    BY <2>1, FS_EmptySet
  <2> QED BY <1>3, <2>2 DEF Selected
<1>7. /\ \A i \in 1..Len(fs) : fs[i].kind = "event" => fs[i].id \in sto
      /\ \A i, j \in 1..Len(fs) :
           /\ i < j /\ fs[i].kind = "ack" /\ fs[j].kind = "event"
           /\ \A k \in (i + 1)..(j - 1) : fs[k].kind = "event"
           => Wanted(fs[i].filter, fs[j].id)
  BY <1>4
<1> QED BY <1>2, <1>3, <1>5, <1>6, <1>7, Zenon DEF FramesOk, fs, cl

-----------------------------------------------------------------------------
(* Realtime streams: every step keeps the invariant.                         *)

AllOk ==
  \A c \in Clients : FramesOk(frames[c], client[c], published, stored, c, lagged)
StreamCore == StreamTypeOK /\ PublishedIsStored /\ AllOk

LEMMA StreamCoreIsInv == StreamCore <=> StreamInv
  BY InvByClient DEF StreamCore, StreamInv, StreamTypeOK, AllOk

LEMMA InitStream == StreamInit => StreamCore
<1> SUFFICES ASSUME StreamInit PROVE StreamCore
  OBVIOUS
<1> USE DEF StreamInit
<1>1. StreamTypeOK
  BY StreamBounds DEF StreamTypeOK, Client
<1>2. PublishedIsStored
  BY DEF PublishedIsStored
<1>3. ASSUME NEW c \in Clients
      PROVE  FramesOk(frames[c], client[c], published, stored, c, lagged)
  <2>1. frames[c] = <<>> /\ client[c] \in Client /\ ~client[c].up /\ Len(frames[c]) = 0
        /\ frames[c] \in Seq(Frame)
    BY DEF Client
  <2> QED BY <2>1 DEF FramesOk
<1> QED BY <1>1, <1>2, <1>3 DEF StreamCore, AllOk

\* A step of one client leaves the others as they were.
LEMMA OneClient ==
    ASSUME StreamCore, UNCHANGED <<stored, emitter, published>>, NEW c \in Clients,
           NEW fs, NEW cl, lagged' \in SUBSET Clients,
           client' = [client EXCEPT ![c] = cl], frames' = [frames EXCEPT ![c] = fs],
           \A d \in Clients : d # c => (d \in lagged' <=> d \in lagged),
           asked' \in [faults: 0..MaxFaultyStores, filters: 0..MaxRequestsSent],
           FramesOk(fs, cl, published, stored, c, lagged')
    PROVE  StreamCore'
<1>1. StreamTypeOK /\ PublishedIsStored /\ AllOk
  BY DEF StreamCore
<1>2. fs \in Seq(Frame) /\ cl \in Client
  BY DEF FramesOk
<1>3. /\ client' \in [Clients -> Client] /\ frames' \in [Clients -> Seq(Frame)]
      /\ client'[c] = cl /\ frames'[c] = fs
      /\ \A d \in Clients : d # c => client'[d] = client[d] /\ frames'[d] = frames[d]
  BY <1>1, <1>2 DEF StreamTypeOK
<1>4. StreamTypeOK'
  BY <1>1, <1>3 DEF StreamTypeOK
<1>5. ASSUME NEW d \in Clients
      PROVE  FramesOk(frames'[d], client'[d], published', stored', d, lagged')
  <2>1. CASE d = c
    BY <1>3, <2>1
  <2>2. CASE d # c
    <3>1. (d \in lagged') <=> (d \in lagged)
      BY <2>2
    <3>2. FramesOk(frames[d], client[d], published, stored, d, lagged)
      BY <1>1 DEF AllOk
    <3>3. FramesOk(frames[d], client[d], published, stored, d, lagged')
      BY <3>1, <3>2, Zenon DEF FramesOk
    <3> QED BY <1>3, <2>2, <3>3
  <2> QED BY <2>1, <2>2
<1>6. AllOk'
  BY <1>5, Zenon DEF AllOk, FramesOk, Wanted, Ack, EventFrame, EventFrames, Frame, Client
<1>7. PublishedIsStored'
  BY <1>1 DEF PublishedIsStored
<1> QED BY <1>4, <1>6, <1>7 DEF StreamCore

LEMMA EmitterKeeps ==
    ASSUME StreamCore, NEW e \in Emitted, StoreRow(e) \/ Publish(e)
    PROVE  StreamCore'
<1>1. StreamTypeOK /\ PublishedIsStored /\ AllOk
  BY DEF StreamCore
<1>2. /\ stored \subseteq stored' /\ stored' \in SUBSET Emitted
      /\ published' = published \/ (published' = Append(published, e) /\ e \in stored)
      /\ emitter' \in [Emitted -> {"new", "stored", "over"}]
      /\ asked' \in [faults: 0..MaxFaultyStores, filters: 0..MaxRequestsSent]
      /\ UNCHANGED <<client, frames, lagged>>
      /\ \A x \in Emitted : emitter'[x] = "stored" => x \in stored'
  <2>1. CASE StoreRow(e)
    <3>1. asked' \in [faults: 0..MaxFaultyStores, filters: 0..MaxRequestsSent]
      BY <1>1, <2>1, StreamBounds DEF StoreRow, StreamTypeOK
    <3> QED BY <1>1, <2>1, <3>1 DEF StoreRow, StreamTypeOK, PublishedIsStored
  <2>2. CASE Publish(e)
    BY <1>1, <2>2 DEF Publish, StreamTypeOK, PublishedIsStored
  <2> QED BY <2>1, <2>2
<1>3. /\ published \in Seq(Emitted) /\ published' \in Seq(Emitted)
      /\ Len(published) <= Len(published')
      /\ \A i \in 1..Len(published) : published'[i] = published[i]
      /\ \A i \in 1..Len(published') : published'[i] \in stored'
  <2>1. published \in Seq(Emitted) /\ Len(published) \in Nat
        /\ \A i \in 1..Len(published) : published[i] \in stored
    BY <1>1 DEF StreamTypeOK, PublishedIsStored
  <2>2. CASE published' = published
    BY <1>2, <2>1, <2>2
  <2>3. CASE published' = Append(published, e) /\ e \in stored
    BY <1>2, <2>1, <2>3
  <2> QED BY <1>2, <2>2, <2>3
<1>4. StreamTypeOK'
  BY <1>1, <1>2, <1>3 DEF StreamTypeOK
<1>5. PublishedIsStored'
  BY <1>2, <1>3 DEF PublishedIsStored
<1>6. ASSUME NEW c \in Clients
      PROVE  FramesOk(frames'[c], client'[c], published', stored', c, lagged')
  <2>1. FramesOk(frames[c], client[c], published, stored, c, lagged)
    BY <1>1 DEF AllOk
  <2>2. FramesOk(frames[c], client[c], published', stored', c, lagged)
    BY <1>2, <1>3, <2>1, LaterIsOk
  <2> QED BY <1>2, <2>2
<1>7. AllOk'
  BY <1>6, Zenon DEF AllOk, FramesOk, Wanted, Ack, EventFrame, EventFrames, Frame, Client
<1> QED BY <1>4, <1>5, <1>7 DEF StreamCore

LEMMA ClientKeeps ==
    ASSUME StreamCore, NEW c \in Clients,
           Connect(c) \/ Turn(c) \/ Disconnect(c)
             \/ \E f \in EventFilters \cup {NoFilter} : Subscribe(c, f)
    PROVE  StreamCore'
<1>1. /\ StreamTypeOK /\ PublishedIsStored /\ AllOk
      /\ FramesOk(frames[c], client[c], published, stored, c, lagged)
      /\ published \in Seq(Emitted) /\ Len(published) \in Nat
      /\ client \in [Clients -> Client] /\ frames \in [Clients -> Seq(Frame)]
      /\ lagged \in SUBSET Clients
      /\ asked \in [faults: 0..MaxFaultyStores, filters: 0..MaxRequestsSent]
  BY DEF StreamCore, AllOk, StreamTypeOK
<1>2. /\ client[c] \in Client /\ client[c].next \in Nat
      /\ client[c].up => frames[c] # <<>>
  BY <1>1 DEF FramesOk, Client
<1>3. CASE Connect(c)
  <2> DEFINE fs == <<Ack(NoFilter)>>
             cl == [up |-> TRUE, next |-> Len(published) + 1, filter |-> NoFilter,
                    since |-> Len(published) + 1]
  <2>1. /\ client' = [client EXCEPT ![c] = cl] /\ frames' = [frames EXCEPT ![c] = fs]
        /\ UNCHANGED <<stored, emitter, published>> /\ lagged' = lagged /\ asked' = asked
    BY <1>3 DEF Connect
  <2>2. FramesOk(fs, cl, published, stored, c, lagged')
    BY <1>1, OpenedIsOk
  <2> HIDE DEF fs, cl
  <2> QED BY <1>1, <2>1, <2>2, OneClient
<1>4. ASSUME NEW f \in EventFilters \cup {NoFilter}, Subscribe(c, f) PROVE StreamCore'
  <2> DEFINE fs == Append(frames[c], Ack(f))
             cl == [client[c] EXCEPT !.filter = f]
  <2>1. /\ client' = [client EXCEPT ![c] = cl] /\ frames' = [frames EXCEPT ![c] = fs]
        /\ UNCHANGED <<stored, emitter, published>> /\ lagged' = lagged
        /\ client[c].up
    BY <1>1, <1>4 DEF Subscribe
  <2>2. asked' \in [faults: 0..MaxFaultyStores, filters: 0..MaxRequestsSent]
    <3>1. asked.filters \in 0..MaxRequestsSent /\ asked.filters < MaxRequestsSent
      BY <1>1, <1>4 DEF Subscribe
    <3>2. asked.filters + 1 \in 0..MaxRequestsSent
      BY <3>1, StreamBounds
    <3>3. asked' = [asked EXCEPT !.filters = asked.filters + 1]
      BY <1>4 DEF Subscribe
    <3> QED BY <1>1, <3>2, <3>3
  <2>3. FramesOk(fs, cl, published, stored, c, lagged')
    <3>1. frames[c] # <<>>
      BY <1>2, <2>1
    <3>2. FramesOk(fs, cl, published, stored, c, lagged)
      BY <1>1, <3>1, AckIsOk
    <3> QED BY <2>1, <3>2
  <2> HIDE DEF fs, cl
  <2> QED BY <1>1, <2>1, <2>2, <2>3, OneClient
<1>5. CASE SkipLost(c)
  <2> DEFINE cl == [client[c] EXCEPT !.next = Oldest]
             fs == frames[c]
  <2>1. /\ client' = [client EXCEPT ![c] = cl] /\ frames' = [frames EXCEPT ![c] = fs]
        /\ UNCHANGED <<stored, emitter, published>> /\ lagged' = lagged \cup {c} /\ asked' = asked
        /\ client[c].up /\ client[c].next < Oldest
    BY <1>1, <1>5 DEF SkipLost
  <2>2. Oldest \in Nat /\ Oldest <= Len(published) + 1
    BY <1>1, StreamBounds DEF Oldest
  <2>3. FramesOk(fs, cl, published, stored, c, lagged \cup {c})
    <3> HIDE DEF Oldest
    <3> QED BY <1>1, <1>2, <2>1, <2>2, LaggedIsOk
  <2>5. FramesOk(fs, cl, published, stored, c, lagged')
    BY <2>1, <2>3
  <2> HIDE DEF fs, cl
  <2> QED BY <1>1, <2>1, <2>5, OneClient
<1>6. CASE Forward(c)
  <2> DEFINE e == published[client[c].next]
             cl == [client[c] EXCEPT !.next = client[c].next + 1]
             fs == IF Wanted(client[c].filter, e) THEN Append(frames[c], EventFrame(e)) ELSE frames[c]
  <2>1. /\ client' = [client EXCEPT ![c] = cl] /\ frames' = [frames EXCEPT ![c] = fs]
        /\ UNCHANGED <<stored, emitter, published>> /\ lagged' = lagged
        /\ asked' = asked /\ client[c].up /\ client[c].next \in Oldest..Len(published)
    BY <1>1, <1>6 DEF Forward
  <2>2. client[c].next \in 1..Len(published)
    <3>1. Oldest \in Nat /\ Oldest >= 1
      BY <1>1, StreamBounds DEF Oldest
    <3> QED BY <1>1, <1>2, <2>1, <3>1
  <2>3. e \in stored /\ frames[c] # <<>>
    BY <1>1, <1>2, <2>1, <2>2 DEF PublishedIsStored
  <2>4. FramesOk(fs, cl, published, stored, c, lagged)
    <3>1. CASE Wanted(client[c].filter, e)
      BY <1>1, <2>2, <2>3, <3>1, SentIsOk
    <3>2. CASE ~Wanted(client[c].filter, e)
      BY <1>1, <2>2, <2>3, <3>2, PassedIsOk
    <3> QED BY <3>1, <3>2
  <2>5. FramesOk(fs, cl, published, stored, c, lagged')
    BY <2>1, <2>4
  <2> HIDE DEF fs, cl
  <2> QED BY <1>1, <2>1, <2>5, OneClient
<1>7. CASE Disconnect(c)
  <2> DEFINE cl == [client[c] EXCEPT !.up = FALSE]
             fs == frames[c]
  <2>1. /\ client' = [client EXCEPT ![c] = cl] /\ frames' = [frames EXCEPT ![c] = fs]
        /\ UNCHANGED <<stored, emitter, published>> /\ lagged' = lagged
        /\ asked' = asked /\ client[c].up
    BY <1>1, <1>7 DEF Disconnect
  <2>2. FramesOk(fs, cl, published, stored, c, lagged')
    BY <1>1, <2>1, ClosedIsOk
  <2> HIDE DEF fs, cl
  <2> QED BY <1>1, <2>1, <2>2, OneClient
<1> QED BY <1>3, <1>4, <1>5, <1>6, <1>7 DEF Turn

LEMMA StreamStep == StreamCore /\ [StreamNext]_vars_rs => StreamCore'
<1> SUFFICES ASSUME StreamCore, [StreamNext]_vars_rs PROVE StreamCore'
  OBVIOUS
<1>1. ASSUME NEW e \in Emitted, StoreRow(e) \/ Publish(e) PROVE StreamCore'
  BY <1>1, EmitterKeeps
<1>2. ASSUME NEW c \in Clients,
             Connect(c) \/ Turn(c) \/ Disconnect(c)
               \/ \E f \in EventFilters \cup {NoFilter} : Subscribe(c, f)
      PROVE  StreamCore'
  BY <1>2, ClientKeeps
<1>3. CASE UNCHANGED vars_rs
  <2>1. UNCHANGED <<stored, emitter, published, client, frames, lagged, asked>>
    BY <1>3 DEF vars_rs
  <2>2. StreamTypeOK /\ PublishedIsStored /\ AllOk
    BY DEF StreamCore
  <2> SUFFICES AllOk'
    BY <2>1, <2>2 DEF StreamCore, StreamTypeOK, PublishedIsStored
  <2>3. ASSUME NEW c \in Clients
        PROVE  FramesOk(frames'[c], client'[c], published', stored', c, lagged')
    BY <2>1, <2>2 DEF AllOk
  <2> QED BY <2>3, Zenon DEF AllOk, FramesOk, Wanted, Ack, EventFrame, EventFrames, Frame, Client
<1> QED BY <1>1, <1>2, <1>3 DEF StreamNext

\* Every variable of RealtimeStream keeps its type.
THEOREM StreamTypeCorrect == StreamSpec => []StreamTypeOK
<1>1. StreamSpec => []StreamCore
  BY InitStream, StreamStep, PTL DEF StreamSpec
<1>2. StreamCore => StreamTypeOK
  BY DEF StreamCore
<1> QED BY <1>1, <1>2, PTL

\* A client is sent its subscription: every event in order unless its receiver
\* lagged, none its last acknowledged filter leaves out, none the log does not have.
THEOREM StreamDeliversItsSubscription == StreamSpec => []DeliversItsSubscription
<1>1. StreamSpec => []StreamCore
  BY InitStream, StreamStep, PTL DEF StreamSpec
<1>2. StreamCore => DeliversItsSubscription
  BY StreamCoreIsInv DEF StreamInv, DeliversItsSubscription
<1> QED BY <1>1, <1>2, PTL

(*****************************************************************************)
(* HostCalls: what is reported of a call.                                    *)
(*****************************************************************************)

CallKinds == {"emit", "publish", "report", "authorize", "status", "provider", "model", "email",
              "email status"}
\* Core acted on what it answered that it did.
AnswerTellsIfActed(j) ==
    \/ j.answer = TransportFailed
    \/ /\ j.answer \in Answers
       /\ j.acted <=> j.answer.status = "ok" /\ (j.kind = "authorize" => j.answer.body = "yes")
CallRows == [at : {"idle", "sent", "answered", "done"}, kind : CallKinds \cup {None_hc},
             acted : BOOLEAN, answer : Answers \cup {TransportFailed},
             result : Results \cup {None_hc}]
CallOK(j) ==
    /\ j \in CallRows
    /\ j.at = "sent" => ~j.acted /\ j.kind \in CallKinds
    /\ j.at = "answered" => j.kind \in CallKinds /\ AnswerTellsIfActed(j)
    /\ j.at = "done" /\ j.kind \notin {"status", "email status"} =>
         /\ j.result = "ok" => j.acted
         /\ j.result \in {"Invalid", "NotHosted", "Rejected"} => ~j.acted
CallsInv == call \in [HostCallers -> CallRows] /\ \A c \in HostCallers : CallOK(call[c])

LEMMA IdleFields ==
    /\ Idle_hc \in CallRows /\ Idle_hc.at = "idle" /\ Idle_hc.acted = FALSE
    /\ Idle_hc.answer = TransportFailed
  BY DEF Idle_hc, CallRows

LEMMA FailedCallOK ==
    ASSUME NEW k \in CallKinds, NEW r,
           \/ r \in {"Invalid", "NotHosted"}
           \/ k = "email status" /\ r \in {"configured", "missing"}
    PROVE  CallOK(FailsWith(k, r))
<1> DEFINE j == FailsWith(k, r)
<1>1. r \in Results
  BY DEF Results, ModelStreamError
<1>2. j \in CallRows
  BY <1>1, IdleFields, Zenon DEF FailsWith, CallRows
<1>3. j.at = "done" /\ ~j.acted /\ j.result = r /\ j.kind = k
  BY DEF FailsWith, Idle_hc
<1> HIDE DEF j
<1> QED BY <1>2, <1>3 DEF CallOK, j

LEMMA SentCallOK ==
    ASSUME NEW k \in CallKinds PROVE CallOK(Sends(k))
<1> DEFINE j == Sends(k)
<1>1. j \in CallRows
  BY IdleFields, Zenon DEF Sends, CallRows
<1>2. j.at = "sent" /\ ~j.acted /\ j.kind = k
  BY DEF Sends, Idle_hc
<1> HIDE DEF j
<1> QED BY <1>1, <1>2 DEF CallOK, j

\* A success of Core's is reported as one, and a refusal as one.
LEMMA ResultTells ==
    ASSUME NEW k \in CallKinds, NEW a \in Answers \cup {TransportFailed}
    PROVE  /\ ResultOf(k, a) \in Results
           /\ k \notin {"status", "email status"} /\ ResultOf(k, a) = "ok" =>
                a \in Answers /\ a.status = "ok" /\ (k = "authorize" => a.body = "yes")
           /\ k \notin {"status", "email status"}
                /\ ResultOf(k, a) \in {"Invalid", "NotHosted", "Rejected"} =>
                a \in Answers /\ ~(a.status = "ok" /\ (k = "authorize" => a.body = "yes"))
<1>1. a.status \in {"ok", "rejected", "none"} /\ a.body \in Bodies
      /\ (a.status # "none" => a \in Answers)
  BY DEF Answers, TransportFailed, Bodies
<1> USE <1>1 DEF Results, ModelStreamError, EmailFailures, Bodies, Checked, Parsed
<1>2. CASE k = "emit"
  BY <1>2 DEF ResultOf, EmitResult
<1>3. CASE k = "publish"
  BY <1>3 DEF ResultOf, PublishResult
<1>4. CASE k = "report"
  BY <1>4 DEF ResultOf, ReportResult
<1>5. CASE k = "authorize"
  BY <1>5 DEF ResultOf, AuthorizeResult
<1>6. CASE k = "status"
  BY <1>6 DEF ResultOf, StatusResult
<1>7. CASE k = "provider"
  BY <1>7 DEF ResultOf, ProviderResult
<1>8. CASE k = "model"
  BY <1>8 DEF ResultOf, OpenResult
<1>9. CASE k = "email"
  BY <1>9 DEF ResultOf, EmailResult, EmailPost
<1>10. CASE k = "email status"
  BY <1>10 DEF ResultOf, EmailStatusResult, EmailPost
<1> QED BY <1>2, <1>3, <1>4, <1>5, <1>6, <1>7, <1>8, <1>9, <1>10 DEF CallKinds

LEMMA CallReplaced ==
    ASSUME CallsInv, NEW c \in HostCallers, NEW j, CallOK(j), call' = [call EXCEPT ![c] = j]
    PROVE  CallsInv'
<1>1. j \in CallRows
  BY DEF CallOK
<1>2. call' \in [HostCallers -> CallRows] /\ \A d \in HostCallers : CallOK(call'[d])
  BY <1>1 DEF CallsInv
<1> QED BY <1>2 DEF CallsInv, CallOK, CallRows, AnswerTellsIfActed

LEMMA BeginKeeps ==
    ASSUME CallsInv, NEW c \in HostCallers,
           \/ Emit(c) \/ PublishRoom(c) \/ Report(c) \/ Authorize(c) \/ AskStatus(c)
           \/ CallProvider(c) \/ OpenStream(c) \/ EmailStatus(c) \/ SendEmail(c)
    PROVE  CallsInv' /\ UNCHANGED <<env, stream>> /\ made < MaxHostCalls /\ made' = made + 1
<1>1. ASSUME NEW j, CallOK(j), Begins(c, j)
      PROVE  CallsInv' /\ UNCHANGED <<env, stream>> /\ made < MaxHostCalls /\ made' = made + 1
  BY <1>1, CallReplaced DEF Begins
<1>2. ASSUME NEW k \in CallKinds, NEW valid, Try(c, k, valid)
      PROVE  CallsInv' /\ UNCHANGED <<env, stream>> /\ made < MaxHostCalls /\ made' = made + 1
  <2>1. Begins(c, IF ~valid THEN FailsWith(k, "Invalid")
                  ELSE IF ~IsHosted THEN FailsWith(k, "NotHosted") ELSE Sends(k))
    BY <1>2 DEF Try
  <2>2. CallOK(FailsWith(k, "Invalid")) /\ CallOK(FailsWith(k, "NotHosted")) /\ CallOK(Sends(k))
    BY FailedCallOK, SentCallOK
  <2>3. CASE ~valid
    BY <1>1, <2>1, <2>2, <2>3
  <2>4. CASE valid /\ ~IsHosted
    BY <1>1, <2>1, <2>2, <2>4
  <2>5. CASE valid /\ IsHosted
    BY <1>1, <2>1, <2>2, <2>5
  <2> QED BY <2>3, <2>4, <2>5
<1>3. {"emit", "publish", "report", "authorize", "status", "provider", "model", "email",
       "email status"} = CallKinds
  BY DEF CallKinds
<1>4. CASE Emit(c)
  BY <1>2, <1>3, <1>4 DEF Emit
<1>5. CASE PublishRoom(c)
  BY <1>2, <1>3, <1>5 DEF PublishRoom
<1>6. CASE Report(c)
  BY <1>2, <1>3, <1>6 DEF Report
<1>7. CASE Authorize(c)
  BY <1>2, <1>3, <1>7 DEF Authorize
<1>8. CASE AskStatus(c)
  BY <1>2, <1>3, <1>8 DEF AskStatus
<1>9. CASE CallProvider(c)
  BY <1>2, <1>3, <1>9 DEF CallProvider
<1>10. CASE OpenStream(c)
  BY <1>2, <1>3, <1>10 DEF OpenStream
<1>11. CASE EmailStatus(c)
  <2>1. /\ CallOK(Sends("email status")) /\ CallOK(FailsWith("email status", "configured"))
        /\ CallOK(FailsWith("email status", "missing"))
    BY <1>3, FailedCallOK, SentCallOK
  <2>2. \/ Begins(c, Sends("email status")) \/ Begins(c, FailsWith("email status", "configured"))
        \/ Begins(c, FailsWith("email status", "missing"))
    BY <1>11 DEF EmailStatus
  <2> QED BY <1>1, <2>1, <2>2
<1>12. CASE SendEmail(c)
  <2>1. CallOK(Sends("email")) /\ CallOK(FailsWith("email", "NotHosted"))
    BY <1>3, FailedCallOK, SentCallOK
  <2>2. Begins(c, Sends("email")) \/ Begins(c, FailsWith("email", "NotHosted"))
    BY <1>12 DEF SendEmail
  <2> QED BY <1>1, <2>1, <2>2
<1> QED BY <1>4, <1>5, <1>6, <1>7, <1>8, <1>9, <1>10, <1>11, <1>12

LEMMA AnswerKeeps ==
    ASSUME CallsInv, NEW c \in HostCallers, Answered(c) \/ Lost(c) \/ Returns(c)
    PROVE  CallsInv'
<1> DEFINE old == call[c]
<1>1. old \in CallRows /\ CallOK(old) /\ call = [d \in HostCallers |-> call[d]]
  BY DEF CallsInv
<1>2. CASE Answered(c)
  <2>1. PICK a \in Answers :
          call' = [call EXCEPT
             ![c].at = "answered", ![c].answer = a,
             ![c].acted = a.status = "ok" /\ (call[c].kind = "authorize" => a.body = "yes")]
    BY <1>2 DEF Answered
  <2>2. old.at = "sent" /\ old.kind \in CallKinds
    BY <1>1, <1>2 DEF Answered, CallOK
  <2> DEFINE did == a.status = "ok" /\ (old.kind = "authorize" => a.body = "yes")
  <2>3. did \in BOOLEAN
    OBVIOUS
  <2> HIDE DEF did
  <2> PICK j : j = [old EXCEPT !.at = "answered", !.answer = a, !.acted = did]
    OBVIOUS
  <2>4. call' = [call EXCEPT ![c] = j]
    BY <2>1, Zenon DEF CallsInv, CallRows, did
  <2>5. j \in CallRows /\ j.at = "answered" /\ j.kind = old.kind /\ j.answer = a /\ (j.acted <=> did)
    <3>1. j \in CallRows
      BY <1>1, <2>3, Zenon DEF CallRows
    <3>2. j.at = "answered" /\ j.kind = old.kind /\ j.answer = a /\ (j.acted <=> did)
      BY <1>1, <2>3 DEF CallRows
    <3> QED BY <3>1, <3>2
  <2>6. CallOK(j)
    BY <2>2, <2>5 DEF CallOK, AnswerTellsIfActed, did
  <2> QED BY <2>4, <2>6, CallReplaced
<1>3. CASE Lost(c)
  <2>1. old.at \in {"sent", "answered"} /\ old.kind \in CallKinds
    BY <1>1, <1>3 DEF Lost, CallOK
  <2> PICK j : j = [[old EXCEPT !.at = "answered"] EXCEPT !.answer = TransportFailed]
    OBVIOUS
  <2>2. call' = [call EXCEPT ![c] = j]
    BY <1>1, <1>3 DEF Lost
  <2>3. j \in CallRows /\ j.at = "answered" /\ j.kind = old.kind /\ j.answer = TransportFailed
    <3>1. j \in CallRows
      BY <1>1, Zenon DEF CallRows
    <3> QED BY <1>1, <3>1 DEF CallRows
  <2>4. CallOK(j)
    BY <2>1, <2>3 DEF CallOK, AnswerTellsIfActed
  <2> QED BY <2>2, <2>4, CallReplaced
<1>4. CASE Returns(c)
  <2> DEFINE r == ResultOf(old.kind, old.answer)
  <2>1. old.at = "answered" /\ old.kind \in CallKinds /\ AnswerTellsIfActed(old)
        /\ old.answer \in Answers \cup {TransportFailed}
    BY <1>1, <1>4 DEF Returns, CallOK, CallRows
  <2>2. /\ r \in Results
        /\ old.kind \notin {"status", "email status"} /\ r = "ok" =>
             old.answer \in Answers /\ old.answer.status = "ok"
             /\ (old.kind = "authorize" => old.answer.body = "yes")
        /\ old.kind \notin {"status", "email status"} /\ r \in {"Invalid", "NotHosted", "Rejected"} =>
             old.answer \in Answers /\ ~(old.answer.status = "ok"
                                        /\ (old.kind = "authorize" => old.answer.body = "yes"))
    BY <2>1, ResultTells
  <2> HIDE DEF r
  <2> PICK j : j = [[old EXCEPT !.at = "done"] EXCEPT !.result = r]
    OBVIOUS
  <2>3. call' = [call EXCEPT ![c] = j]
    BY <1>1, <1>4 DEF Returns, r
  <2>4. j \in CallRows /\ j.at = "done" /\ j.kind = old.kind /\ j.result = r /\ j.acted = old.acted
    <3>1. r \in Results \cup {None_hc}
      BY <2>2
    <3>2. j \in CallRows
      BY <1>1, <3>1, Zenon DEF CallRows
    <3> QED BY <1>1, <3>2 DEF CallRows
  <2>5. TransportFailed \notin Answers
    BY DEF TransportFailed, Answers
  <2>6. old.kind \notin {"status", "email status"} =>
          /\ r = "ok" => old.acted
          /\ r \in {"Invalid", "NotHosted", "Rejected"} => ~old.acted
    BY <2>1, <2>2, <2>5 DEF AnswerTellsIfActed
  <2>7. CallOK(j)
    BY <2>4, <2>6 DEF CallOK
  <2> QED BY <2>3, <2>7, CallReplaced
<1> QED BY <1>2, <1>3, <1>4

-----------------------------------------------------------------------------
(* Model streams: the reader of a whole wire.                                *)

Symbols == WireLines \cup {NL, CR}
Wires == Seq(Symbols)
Reads == [frames : Seq(Wires), rest : Wires]
ReadStart == [frames |-> <<>>, rest |-> <<>>]

LEMMA StartIsRead == ReadStart \in Reads /\ ReadStart.frames = <<>> /\ ReadStart.rest = <<>>
  BY DEF ReadStart, Reads, Wires

LEMMA ReadSymbolTyped ==
    ASSUME NEW r \in Reads, NEW x \in Symbols
    PROVE  ReadSymbol(r, x) \in Reads
<1> DEFINE f == r.frames
           t == r.rest
<1>1. f \in Seq(Wires) /\ t \in Wires
  BY DEF Reads
<1>2. CASE x = NL /\ t # <<>> /\ Last(t) = NL
  <2>1. Front(t) \in Wires
    BY <1>1, <1>2 DEF Front, Wires
  <2>2. Append(f, Front(t)) \in Seq(Wires)
    BY <1>1, <2>1
  <2>3. <<>> \in Wires
    BY DEF Wires
  <2>4. ReadSymbol(r, x) = [frames |-> Append(f, Front(t)), rest |-> <<>>]
    BY <1>2 DEF ReadSymbol
  <2>5. [frames |-> Append(f, Front(t)), rest |-> <<>>] \in Reads
    BY <2>2, <2>3 DEF Reads
  <2> QED BY <2>4, <2>5
<1>3. CASE ~(x = NL /\ t # <<>> /\ Last(t) = NL)
  <2>1. Append(t, x) \in Wires
    BY <1>1 DEF Wires
  <2>2. ReadSymbol(r, x) = [frames |-> f, rest |-> Append(t, x)]
    BY <1>3 DEF ReadSymbol
  <2>3. [frames |-> f, rest |-> Append(t, x)] \in Reads
    BY <1>1, <2>1 DEF Reads
  <2> QED BY <2>2, <2>3
<1> QED BY <1>2, <1>3

\* The definition by recursion on the place has a value at every place.
LEMMA ReadExists ==
    ASSUME NEW w \in Wires, NEW m \in 0..Len(w)
    PROVE  \E g : g = [n \in 0..m |-> IF n = 0 THEN ReadStart ELSE ReadSymbol(g[n - 1], w[n])]
<1> DEFINE E(k) == \E g : g = [n \in 0..k |-> IF n = 0 THEN ReadStart ELSE ReadSymbol(g[n - 1], w[n])]
           S == {k \in Nat : ~E(k)}
<1>1. SUFFICES S = {}
  <2>1. m \in Nat
    BY DEF Wires
  <2> QED BY <1>1, <2>1
<1>2. ASSUME S # {} PROVE FALSE
  <2>1. PICK k \in S : \A y \in S : k <= y
    BY <1>2, FirstExists
  <2>2. k \in Nat /\ ~E(k)
    BY <2>1
  <2>3. CASE k = 0
    <3> DEFINE g == [n \in 0..k |-> ReadStart]
    <3>1. \A n \in 0..k : n = 0
      BY <2>3
    <3>2. g = [n \in 0..k |-> IF n = 0 THEN ReadStart ELSE ReadSymbol(g[n - 1], w[n])]
      BY <3>1
    <3> QED BY <2>2, <3>2
  <2>4. CASE k # 0
    <3>1. k - 1 \in Nat /\ ~(k <= k - 1)
      BY <2>2, <2>4
    <3>2. E(k - 1)
      <4> HIDE DEF E
      <4> QED BY <2>1, <3>1
    <3>3. PICK g : g = [n \in 0..(k - 1) |-> IF n = 0 THEN ReadStart ELSE ReadSymbol(g[n - 1], w[n])]
      BY <3>2
    <3> DEFINE h == [n \in 0..k |-> IF n = k THEN ReadSymbol(g[k - 1], w[k]) ELSE g[n]]
    <3>4. ASSUME NEW n \in 0..k
          PROVE  h[n] = IF n = 0 THEN ReadStart ELSE ReadSymbol(h[n - 1], w[n])
      <4>1. CASE n = k
        <5>1. k - 1 \in 0..k /\ k - 1 # k
          BY <2>2, <2>4
        <5>2. h[k - 1] = g[k - 1] /\ h[k] = ReadSymbol(g[k - 1], w[k])
          BY <5>1, <4>1
        <5> HIDE DEF h
        <5> QED BY <2>4, <4>1, <5>2
      <4>2. CASE n # k /\ n # 0
        <5>1. n \in 0..(k - 1) /\ n - 1 \in 0..k /\ n - 1 # k
          BY <2>2, <4>2
        <5>2. h[n] = g[n] /\ h[n - 1] = g[n - 1]
          BY <4>2, <5>1
        <5>3. g[n] = ReadSymbol(g[n - 1], w[n])
          BY <3>3, <4>2, <5>1
        <5> HIDE DEF h
        <5> QED BY <4>2, <5>2, <5>3
      <4>3. CASE n # k /\ n = 0
        <5>1. n \in 0..(k - 1)
          BY <2>2, <4>3
        <5>2. h[n] = g[n] /\ g[n] = ReadStart
          BY <3>3, <4>3, <5>1
        <5> HIDE DEF h
        <5> QED BY <4>3, <5>2
      <4> QED BY <4>1, <4>2, <4>3
    <3>5. h = [n \in 0..k |-> IF n = 0 THEN ReadStart ELSE ReadSymbol(h[n - 1], w[n])]
      <4>1. h = [n \in 0..k |-> h[n]]
        OBVIOUS
      <4> HIDE DEF h
      <4> QED BY <3>4, <4>1
    <3>6. E(k)
      <4> HIDE DEF h
      <4> QED BY <3>5
    <3> QED BY <2>2, <3>6
  <2> QED BY <2>3, <2>4
<1> QED BY <1>2

LEMMA ReadUnfolds ==
    ASSUME NEW w \in Wires
    PROVE  /\ Len(w) \in Nat
           /\ ReadOf(w)[0] = ReadStart
           /\ \A n \in 1..Len(w) : ReadOf(w)[n] = ReadSymbol(ReadOf(w)[n - 1], w[n])
           /\ \A n \in 0..Len(w) : ReadOf(w)[n] \in Reads
<1>1. Len(w) \in Nat
  BY DEF Wires
<1>2. Len(w) \in 0..Len(w)
  BY <1>1
<1>3. \E g : g = [n \in 0..Len(w) |-> IF n = 0 THEN ReadStart ELSE ReadSymbol(g[n - 1], w[n])]
  BY <1>2, ReadExists
<1> DEFINE r == ReadOf(w)
<1>4. r = [n \in 0..Len(w) |-> IF n = 0 THEN ReadStart ELSE ReadSymbol(r[n - 1], w[n])]
  BY <1>3, Zenon DEF ReadOf, ReadStart
<1> HIDE DEF r
<1>5. r[0] = ReadStart
  BY <1>1, <1>4
<1>6. \A n \in 1..Len(w) : r[n] = ReadSymbol(r[n - 1], w[n])
  BY <1>1, <1>4
<1>7. \A n \in 0..Len(w) : r[n] \in Reads
  <2> DEFINE S == {n \in 0..Len(w) : r[n] \notin Reads}
  <2>1. ASSUME S # {} PROVE FALSE
    <3>1. S \subseteq Nat
      BY <1>1
    <3>2. PICK k \in S : \A y \in S : k <= y
      BY <2>1, <3>1, FirstExists
    <3>3. k \in 0..Len(w) /\ k # 0 /\ k \in Nat
      BY <1>1, <1>5, <3>2, StartIsRead
    <3>4. k - 1 \in 0..Len(w) /\ ~(k <= k - 1) /\ k \in 1..Len(w)
      BY <1>1, <3>3
    <3>5. r[k - 1] \in Reads
      BY <3>2, <3>4
    <3>6. w[k] \in Symbols
      BY <3>4 DEF Wires
    <3>7. r[k] \in Reads
      BY <1>6, <3>4, <3>5, <3>6, ReadSymbolTyped
    <3> QED BY <3>2, <3>7
  <2> QED BY <2>1
<1> QED BY <1>1, <1>5, <1>6, <1>7 DEF r

\* What is read up to a place depends on the wire up to it alone.
LEMMA ReadAgrees ==
    ASSUME NEW w \in Wires, NEW v \in Wires, Len(w) <= Len(v), \A i \in 1..Len(w) : v[i] = w[i]
    PROVE  \A n \in 0..Len(w) : ReadOf(v)[n] = ReadOf(w)[n]
<1> DEFINE r == ReadOf(w)
           q == ReadOf(v)
           S == {n \in 0..Len(w) : q[n] # r[n]}
<1>1. /\ Len(w) \in Nat /\ Len(v) \in Nat /\ r[0] = ReadStart /\ q[0] = ReadStart
      /\ \A n \in 1..Len(w) : r[n] = ReadSymbol(r[n - 1], w[n])
      /\ \A n \in 1..Len(v) : q[n] = ReadSymbol(q[n - 1], v[n])
  BY ReadUnfolds
<1> HIDE DEF r, q
<1>2. ASSUME S # {} PROVE FALSE
  <2>1. S \subseteq Nat
    BY <1>1
  <2>2. PICK k \in S : \A y \in S : k <= y
    BY <1>2, <2>1, FirstExists
  <2>3. k \in 0..Len(w) /\ k # 0 /\ k \in Nat
    BY <1>1, <2>2
  <2>4. k - 1 \in 0..Len(w) /\ ~(k <= k - 1) /\ k \in 1..Len(w) /\ k \in 1..Len(v)
    BY <1>1, <2>3
  <2>5. q[k - 1] = r[k - 1]
    BY <2>2, <2>4
  <2>6. q[k] = r[k]
    BY <1>1, <2>4, <2>5
  <2> QED BY <2>2, <2>6
<1>3. \A n \in 0..Len(w) : q[n] = r[n]
  BY <1>2
<1> QED BY <1>3 DEF r, q

\* As long as no empty line is over, what is read after the end of a frame is the
\* rest of the wire.
LEMMA ReadWithin ==
    ASSUME NEW w \in Wires, NEW p \in 0..Len(w), ReadOf(w)[p].rest = <<>>,
           NEW b, b = SubSeq(w, p + 1, Len(w)), NEW m \in 0..Len(b),
           \A y \in Boundaries(b) : m <= y
    PROVE  \A k \in 0..m : ReadOf(w)[p + k] = [frames |-> ReadOf(w)[p].frames, rest |-> SubSeq(b, 1, k)]
<1> DEFINE r == ReadOf(w)
           F == r[p].frames
           now(k) == [frames |-> F, rest |-> SubSeq(b, 1, k)]
           S == {k \in 0..m : r[p + k] # now(k)}
<1>1. /\ Len(w) \in Nat /\ \A n \in 1..Len(w) : r[n] = ReadSymbol(r[n - 1], w[n])
      /\ \A n \in 0..Len(w) : r[n] \in Reads
  BY ReadUnfolds
<1>2. /\ b \in Wires /\ Len(b) = Len(w) - p /\ Len(b) \in Nat /\ m \in Nat /\ p \in Nat
      /\ \A i \in 1..Len(b) : b[i] = w[p + i]
  <2>1. \A i \in (p + 1)..Len(w) : w[i] \in Symbols
    BY <1>1 DEF Wires
  <2>2. p + 1 \in Int /\ Len(w) \in Int /\ p \in Nat
    BY <1>1
  <2>3. /\ b \in Seq(Symbols) /\ Len(b) = IF p + 1 <= Len(w) THEN Len(w) - (p + 1) + 1 ELSE 0
        /\ \A i \in 1..(Len(w) - (p + 1) + 1) : b[i] = w[(p + 1) + i - 1]
    BY <2>1, <2>2, SubSeqProperties
  <2>4. Len(b) = Len(w) - p /\ Len(b) \in Nat
    BY <1>1, <2>3
  <2>5. \A i \in 1..Len(b) : i \in 1..(Len(w) - (p + 1) + 1) /\ (p + 1) + i - 1 = p + i
    BY <1>1, <2>2, <2>4
  <2>6. \A i \in 1..Len(b) : b[i] = w[p + i]
    BY <2>3, <2>5
  <2> QED BY <2>2, <2>3, <2>4, <2>6 DEF Wires
<1>3. \A k \in 0..m : SubSeq(b, 1, k) \in Wires /\ Len(SubSeq(b, 1, k)) = k
                     /\ \A i \in 1..k : SubSeq(b, 1, k)[i] = b[i]
  BY <1>2 DEF Wires
<1> HIDE DEF r
<1>4. ASSUME S # {} PROVE FALSE
  <2>1. S \subseteq Nat
    BY <1>2
  <2>2. PICK k \in S : \A y \in S : k <= y
    BY <1>4, <2>1, FirstExists
  <2>3. k \in 0..m /\ r[p + k] # now(k)
    BY <2>2
  <2>4. r[p] = now(0)
    <3>1. r[p] \in Reads /\ r[p].rest = <<>>
      BY <1>1 DEF r
    <3>2. r[p] = [frames |-> r[p].frames, rest |-> <<>>]
      BY <3>1 DEF Reads
    <3>3. SubSeq(b, 1, 0) = <<>>
      BY <1>2
    <3> QED BY <3>2, <3>3
  <2>5. k # 0 /\ k \in Nat
    <3>1. p + 0 = p
      BY <1>2
    <3> QED BY <1>2, <2>3, <2>4, <3>1
  <2>6. /\ k - 1 \in 0..m /\ ~(k <= k - 1) /\ p + k \in 1..Len(w) /\ p + (k - 1) = (p + k) - 1
        /\ k \in 1..Len(b)
    BY <1>1, <1>2, <2>3, <2>5
  <2>7. r[(p + k) - 1] = now(k - 1)
    BY <2>2, <2>6
  <2>8. r[p + k] = ReadSymbol(now(k - 1), b[k])
    BY <1>1, <1>2, <2>6, <2>7
  <2> DEFINE t == SubSeq(b, 1, k - 1)
  <2>9. ~(b[k] = NL /\ t # <<>> /\ Last(t) = NL)
    <3>1. ASSUME b[k] = NL, t # <<>>, Last(t) = NL PROVE FALSE
      <4>1. t \in Wires /\ Len(t) = k - 1 /\ \A i \in 1..(k - 1) : t[i] = b[i]
        BY <1>3, <2>6
      <4>2. k - 1 # 0
        <5> HIDE DEF t
        <5> QED BY <2>5, <3>1, <4>1 DEF Wires
      <4>3. k - 1 \in 1..(k - 1) /\ k - 1 \in 1..(Len(b) - 1) /\ (k - 1) + 1 = k
        BY <1>2, <2>5, <2>6, <4>2
      <4>4. b[k - 1] = NL
        BY <3>1, <4>1, <4>3 DEF Last
      <4>5. k - 1 \in Boundaries(b)
        BY <3>1, <4>3, <4>4 DEF Boundaries
      <4>6. m <= k - 1
        BY <4>5
      <4> QED BY <1>2, <2>3, <2>5, <4>6
    <3> QED BY <3>1
  <2>10. r[p + k] = [frames |-> F, rest |-> Append(t, b[k])]
    BY <2>8, <2>9 DEF ReadSymbol
  <2>11. Append(t, b[k]) = SubSeq(b, 1, k)
    <3> DEFINE u == Append(t, b[k])
               v == SubSeq(b, 1, k)
    <3>1. t \in Seq(Symbols) /\ Len(t) = k - 1 /\ (\A i \in 1..(k - 1) : t[i] = b[i])
          /\ b[k] \in Symbols
      BY <1>2, <1>3, <2>6 DEF Wires
    <3>2. v \in Seq(Symbols) /\ Len(v) = k /\ \A i \in 1..k : v[i] = b[i]
      BY <1>3, <2>3 DEF Wires
    <3> HIDE DEF t, v
    <3>3. u \in Seq(Symbols) /\ Len(u) = k /\ \A i \in 1..k : u[i] = b[i]
      BY <2>5, <3>1, SMTT(30)
    <3> HIDE DEF u
    <3>4. Len(u) = Len(v) /\ \A i \in 1..Len(u) : u[i] = v[i]
      BY <3>2, <3>3
    <3>5. u = v
      BY <3>2, <3>3, <3>4, SeqEqual
    <3> QED BY <3>5 DEF u, v
  <2> QED BY <2>3, <2>10, <2>11
<1>5. \A k \in 0..m : r[p + k] = now(k)
  BY <1>4
<1> QED BY <1>5 DEF r

\* At the first empty line after a frame's end the next frame is read.
LEMMA ReadFrame ==
    ASSUME NEW w \in Wires, NEW p \in 0..Len(w), ReadOf(w)[p].rest = <<>>,
           NEW b, b = SubSeq(w, p + 1, Len(w)), NEW cut \in Boundaries(b),
           \A y \in Boundaries(b) : cut <= y
    PROVE  /\ p + cut + 1 \in 0..Len(w) /\ SubSeq(b, 1, cut - 1) \in Wires
           /\ ReadOf(w)[p + cut + 1] =
                [frames |-> Append(ReadOf(w)[p].frames, SubSeq(b, 1, cut - 1)), rest |-> <<>>]
<1> DEFINE r == ReadOf(w)
           F == r[p].frames
           t == SubSeq(b, 1, cut)
<1>1. /\ Len(w) \in Nat /\ p \in Nat /\ \A n \in 1..Len(w) : r[n] = ReadSymbol(r[n - 1], w[n])
  <2>1. /\ Len(w) \in Nat
        /\ \A n \in 1..Len(w) : ReadOf(w)[n] = ReadSymbol(ReadOf(w)[n - 1], w[n])
    BY ReadUnfolds, Zenon
  <2>2. p \in Nat
    BY <2>1
  <2> QED BY <2>1, <2>2, Zenon DEF r
<1>2. /\ b \in Wires /\ Len(b) = Len(w) - p /\ Len(b) \in Nat
      /\ \A i \in 1..Len(b) : b[i] = w[p + i]
  BY <1>1, SMTT(30) DEF Wires
<1>3. cut \in 1..(Len(b) - 1) /\ b[cut] = NL /\ b[cut + 1] = NL /\ cut \in Nat
  BY <1>2 DEF Boundaries
<1>4. cut \in 0..Len(b) /\ cut \in 0..cut
  BY <1>2, <1>3
<1>5. r[p + cut] = [frames |-> F, rest |-> t]
  BY <1>4, ReadWithin
<1>6. p + cut + 1 \in 1..Len(w) /\ (p + cut + 1) - 1 = p + cut /\ w[p + cut + 1] = NL
  <2>1. cut + 1 \in 1..Len(b) /\ p + (cut + 1) = p + cut + 1
    <3>1. Len(b) \in Nat /\ cut \in Nat /\ cut \in 1..(Len(b) - 1) /\ p \in Nat
      BY <1>1, <1>2, <1>3
    <3> QED BY <3>1, SMTT(30)
  <2>2. b[cut + 1] = w[p + cut + 1]
    BY <1>2, <2>1
  <2> QED BY <1>1, <1>2, <1>3, <2>2, SMTT(30)
<1>7. t \in Wires /\ t # <<>> /\ Last(t) = NL /\ Front(t) = SubSeq(b, 1, cut - 1)
      /\ SubSeq(b, 1, cut - 1) \in Wires
  <2>1. t \in Seq(Symbols) /\ Len(t) = cut /\ t[cut] = b[cut]
    BY <1>2, <1>3 DEF Wires
  <2>2. SubSeq(t, 1, cut - 1) = SubSeq(b, 1, cut - 1) /\ SubSeq(b, 1, cut - 1) \in Seq(Symbols)
    <3> DEFINE u == SubSeq(t, 1, cut - 1)
               v == SubSeq(b, 1, cut - 1)
    <3>1. u \in Seq(Symbols) /\ Len(u) = cut - 1 /\ \A i \in 1..(cut - 1) : u[i] = b[i]
      <4>1. \A i \in 1..(cut - 1) : t[i] = b[i]
        BY <1>2, <1>3
      <4> HIDE DEF t
      <4> QED BY <1>3, <2>1, <4>1
    <3>2. v \in Seq(Symbols) /\ Len(v) = cut - 1 /\ \A i \in 1..(cut - 1) : v[i] = b[i]
      BY <1>2, <1>3 DEF Wires
    <3> HIDE DEF u, v
    <3>3. u = v
      BY <3>1, <3>2, SeqEqual
    <3> QED BY <3>2, <3>3 DEF u, v
  <2> HIDE DEF t
  <2> QED BY <1>3, <2>1, <2>2, SMTT(30) DEF Wires, Last, Front
<1>8. r[p + cut + 1] = ReadSymbol([frames |-> F, rest |-> t], NL)
  BY <1>1, <1>5, <1>6
<1> HIDE DEF r, F, t
<1>9. r[p + cut + 1] = [frames |-> Append(F, SubSeq(b, 1, cut - 1)), rest |-> <<>>]
  BY <1>7, <1>8 DEF ReadSymbol
<1>10. p + cut + 1 \in 0..Len(w)
  BY <1>1, <1>6
<1> QED BY <1>7, <1>9, <1>10 DEF r, F

\* What a frame tells: an event, or nothing.
LEMMA FrameTells ==
    ASSUME NEW frame \in Wires
    PROVE  ParseFrame(frame) \in StreamEvents \cup {"nothing"}
<1> DEFINE data == Selected(frame, DataLines)
<1>1. data \in Seq(Symbols \cap DataLines)
  BY SelectedIsList DEF Wires
<1>2. data # <<>> => Head(data) \in DataLines
  BY <1>1
<1> HIDE DEF data
<1>3. CASE "binary" \in ToSet(frame)
  BY <1>3 DEF ParseFrame, StreamEvents
<1>4. CASE "binary" \notin ToSet(frame)
  <2>1. ParseFrame(frame) =
          IF data = <<>> \/ Head(data) = "other" THEN "nothing"
          ELSE CASE Head(data) = "[DONE]" -> "completed"
                 [] Head(data) = "error" -> "failed"
                 [] Head(data) = "garbage" -> "Protocol"
                 [] OTHER -> Head(data)
    BY <1>4 DEF ParseFrame, data
  <2> QED BY <1>2, <2>1 DEF StreamEvents, DataLines
<1> QED BY <1>3, <1>4

\* One frame more is one event more, or none.
LEMMA EventsOfOneMore ==
    ASSUME NEW F \in Seq(Wires), NEW g \in Wires
    PROVE  /\ EventsOfFrames(F) \in Seq(StreamEvents)
           /\ EventsOfFrames(Append(F, g)) = Yielded(EventsOfFrames(F), ParseFrame(g))
<1> DEFINE V == StreamEvents \cup {"nothing"}
           told(G) == [i \in 1..Len(G) |-> ParseFrame(G[i])]
<1>1. \A G \in Seq(Wires) : told(G) \in Seq(V) /\ Len(told(G)) = Len(G)
                           /\ \A i \in 1..Len(G) : told(G)[i] = ParseFrame(G[i])
  <2>1. ASSUME NEW G \in Seq(Wires) PROVE told(G) \in Seq(V) /\ Len(told(G)) = Len(G)
    <3>1. \A i \in 1..Len(G) : ParseFrame(G[i]) \in V
      BY FrameTells
    <3>2. Len(G) \in Nat
      OBVIOUS
    <3> HIDE DEF V
    <3> QED BY <3>1, <3>2
  <2> QED BY <2>1
<1>2. Append(F, g) \in Seq(Wires) /\ Len(Append(F, g)) = Len(F) + 1 /\ Len(F) \in Nat
      /\ (\A i \in 1..Len(F) : Append(F, g)[i] = F[i]) /\ Append(F, g)[Len(F) + 1] = g
  BY AppendProperties
<1>3. ParseFrame(g) \in V
  BY FrameTells
<1>4. told(Append(F, g)) = Append(told(F), ParseFrame(g))
  <2> DEFINE s == told(Append(F, g))
             t == Append(told(F), ParseFrame(g))
  <2>1. s \in Seq(V) /\ Len(s) = Len(F) + 1
        /\ \A i \in 1..(Len(F) + 1) : s[i] = ParseFrame(Append(F, g)[i])
    BY <1>1, <1>2
  <2>2. t \in Seq(V) /\ Len(t) = Len(F) + 1 /\ t[Len(F) + 1] = ParseFrame(g)
        /\ \A i \in 1..Len(F) : t[i] = ParseFrame(F[i])
    <3>1. told(F) \in Seq(V) /\ Len(told(F)) = Len(F)
          /\ \A i \in 1..Len(F) : told(F)[i] = ParseFrame(F[i])
      BY <1>1
    <3> HIDE DEF told, V
    <3> QED BY <1>3, <3>1, AppendProperties
  <2> HIDE DEF s, t
  <2>3. \A i \in 1..(Len(F) + 1) : s[i] = t[i]
    <3>1. ASSUME NEW i \in 1..(Len(F) + 1) PROVE s[i] = t[i]
      <4>1. i \in 1..Len(F) \/ i = Len(F) + 1
        BY <1>2
      <4> QED BY <1>2, <2>1, <2>2, <4>1
    <3> QED BY <3>1
  <2>4. Len(s) = Len(t) /\ \A i \in 1..Len(s) : s[i] = t[i]
    BY <2>1, <2>2, <2>3
  <2> HIDE DEF V
  <2>5. s = t
    BY <2>1, <2>2, <2>4, SeqEqual
  <2> QED BY <2>5 DEF s, t
<1>5. EventsOfFrames(F) = Selected(told(F), StreamEvents)
      /\ EventsOfFrames(Append(F, g)) = Selected(told(Append(F, g)), StreamEvents)
  BY DEF EventsOfFrames
<1>6. told(F) \in Seq(V)
  BY <1>1
<1> HIDE DEF told, V
<1>7. Selected(Append(told(F), ParseFrame(g)), StreamEvents) =
        IF ParseFrame(g) \in StreamEvents THEN Append(Selected(told(F), StreamEvents), ParseFrame(g))
        ELSE Selected(told(F), StreamEvents)
  BY <1>3, <1>6, SelectedAppend
<1>8. ParseFrame(g) \in StreamEvents <=> ParseFrame(g) # "nothing"
  BY <1>3 DEF V, StreamEvents
<1>9. Selected(told(F), StreamEvents) \in Seq(StreamEvents)
  <2>1. Selected(told(F), StreamEvents) \in Seq(V \cap StreamEvents)
    BY <1>6, SelectedIsList
  <2>2. V \cap StreamEvents = StreamEvents
    BY DEF V
  <2> QED BY <2>1, <2>2
<1> QED BY <1>4, <1>5, <1>7, <1>8, <1>9 DEF Yielded

\* The events of no frame.
LEMMA NoFrames == EventsOfFrames(<<>>) = <<>>
<1> DEFINE e == [i \in 1..Len(<<>>) |-> ParseFrame(<<>>[i])]
<1>1. e \in Seq(StreamEvents) /\ Len(e) = 0
  OBVIOUS
<1> HIDE DEF e
<1>2. Selected(e, StreamEvents) \in Seq(StreamEvents \cap StreamEvents)
      /\ Len(Selected(e, StreamEvents)) = Cardinality(PlacesIn(e, StreamEvents))
  BY <1>1, SelectedIsList
<1>3. PlacesIn(e, StreamEvents) = {}
  BY <1>1 DEF PlacesIn
<1>4. Len(Selected(e, StreamEvents)) = 0
  BY <1>2, <1>3, FS_EmptySet
<1>5. Selected(e, StreamEvents) = <<>>
  BY <1>2, <1>4
<1> QED BY <1>5 DEF EventsOfFrames, e

StartsWith(t, s) == Len(s) <= Len(t) /\ \A i \in 1..Len(s) : t[i] = s[i]
EventsAt(w, n) == EventsOfFrames(ReadOf(w)[n].frames)

\* Reading on keeps the events so far.
LEMMA EventsGrow ==
    ASSUME NEW w \in Wires, NEW n \in 0..Len(w)
    PROVE  /\ EventsAt(w, n) \in Seq(StreamEvents) /\ EventsAt(w, Len(w)) \in Seq(StreamEvents)
           /\ StartsWith(EventsAt(w, Len(w)), EventsAt(w, n))
<1> DEFINE r == ReadOf(w)
           E(k) == EventsAt(w, k)
           S == {k \in n..Len(w) : ~StartsWith(E(k), E(n))}
<1>1. /\ Len(w) \in Nat /\ n \in Nat /\ \A k \in 1..Len(w) : r[k] = ReadSymbol(r[k - 1], w[k])
      /\ \A k \in 0..Len(w) : r[k] \in Reads
  BY ReadUnfolds
<1>2. \A k \in 0..Len(w) : E(k) \in Seq(StreamEvents)
  <2>1. ASSUME NEW k \in 0..Len(w) PROVE E(k) \in Seq(StreamEvents)
    <3>1. r[k].frames \in Seq(Wires)
      BY <1>1 DEF Reads
    <3>2. <<>> \in Wires
      BY DEF Wires
    <3> QED BY <3>1, <3>2, EventsOfOneMore DEF EventsAt
  <2> QED BY <2>1
<1>3. ASSUME NEW k \in 1..Len(w)
      PROVE  E(k) = E(k - 1) \/ \E x \in StreamEvents : E(k) = Append(E(k - 1), x)
  <2> DEFINE q == r[k - 1]
  <2>1. q \in Reads /\ r[k] = ReadSymbol(q, w[k])
    <3>1. k - 1 \in 0..Len(w)
      BY <1>1
    <3> QED BY <1>1, <3>1
  <2>2. q.frames \in Seq(Wires) /\ q.rest \in Wires
    BY <2>1 DEF Reads
  <2>3. r[k].frames = q.frames \/ (q.rest # <<>> /\ r[k].frames = Append(q.frames, Front(q.rest)))
    <3> HIDE DEF q, r
    <3> QED BY <2>1 DEF ReadSymbol
  <2>4. CASE r[k].frames = q.frames
    BY <2>4 DEF EventsAt
  <2>5. CASE q.rest # <<>> /\ r[k].frames = Append(q.frames, Front(q.rest))
    <3> DEFINE g == Front(q.rest)
    <3>1. g \in Wires
      BY <2>2, <2>5 DEF Front, Wires
    <3>2. EventsOfFrames(Append(q.frames, g)) = Yielded(EventsOfFrames(q.frames), ParseFrame(g))
      BY <2>2, <3>1, EventsOfOneMore
    <3>3. ParseFrame(g) \in StreamEvents \cup {"nothing"}
      BY <3>1, FrameTells
    <3>4. E(k) = EventsOfFrames(Append(q.frames, g)) /\ E(k - 1) = EventsOfFrames(q.frames)
      BY <2>5 DEF EventsAt
    <3> HIDE DEF g, q, r, E
    <3> QED BY <3>2, <3>3, <3>4 DEF Yielded
  <2> QED BY <2>3, <2>4, <2>5
<1> HIDE DEF r, E
<1>4. ASSUME S # {} PROVE FALSE
  <2>1. S \subseteq Nat
    BY <1>1
  <2>2. PICK k \in S : \A y \in S : k <= y
    BY <1>4, <2>1, FirstExists
  <2>3. k \in n..Len(w) /\ ~StartsWith(E(k), E(n)) /\ k \in Nat
    BY <1>1, <2>2
  <2>4. StartsWith(E(n), E(n))
    <3>1. Len(E(n)) \in Nat
      BY <1>2
    <3> QED BY <3>1 DEF StartsWith
  <2>5. k # n
    BY <2>3, <2>4
  <2>6. k - 1 \in n..Len(w) /\ ~(k <= k - 1) /\ k \in 1..Len(w) /\ k - 1 \in 0..Len(w)
    BY <1>1, <2>3, <2>5
  <2>7. StartsWith(E(k - 1), E(n))
    BY <2>2, <2>6
  <2>8. CASE E(k) = E(k - 1)
    BY <2>3, <2>7, <2>8
  <2>9. ASSUME NEW x \in StreamEvents, E(k) = Append(E(k - 1), x) PROVE FALSE
    <3> DEFINE s == E(k - 1)
               t == E(n)
    <3>1. s \in Seq(StreamEvents) /\ t \in Seq(StreamEvents)
      BY <1>2, <2>6
    <3>2. StartsWith(s, t)
      BY <2>7
    <3> HIDE DEF s, t
    <3>3. StartsWith(Append(s, x), t)
      BY <3>1, <3>2 DEF StartsWith
    <3> QED BY <2>3, <2>9, <3>3 DEF s, t
  <2> QED BY <1>3, <2>6, <2>8, <2>9
<1>5. Len(w) \in n..Len(w) /\ Len(w) \in 0..Len(w)
  BY <1>1
<1>6. StartsWith(E(Len(w)), E(n))
  BY <1>4, <1>5
<1> QED BY <1>2, <1>5, <1>6 DEF E

-----------------------------------------------------------------------------
(* Model streams: what the app is handed.                                    *)

Handed_hc == StreamEvents \cup {"Transport"}
StreamRows == [at : {"closed", "open", "ended"}, wire : Wires, buffer : Wires,
               out : Seq(Handed_hc), broken : BOOLEAN]
\* The buffer is the wire after the last frame, and the app was handed the events
\* of the frames so far, none of them terminal.
ReadUpTo(p, wire, buffer, out) ==
    /\ p \in 0..Len(wire) /\ ReadOf(wire)[p].rest = <<>>
    /\ buffer = SubSeq(wire, p + 1, Len(wire))
    /\ out = EventsAt(wire, p)
    /\ \A i \in 1..Len(out) : ~Terminal(out[i])
StreamOK(s) ==
    /\ s \in StreamRows /\ Len(s.wire) <= MaxWire
    /\ s.at = "open" => ~s.broken /\ \E p \in 0..Len(s.wire) : ReadUpTo(p, s.wire, s.buffer, s.out)
    /\ s.at = "ended" /\ ~s.broken => s.out = Reference(s.wire)

LEMMA ClosedOK == StreamOK(NoStream) /\ StreamOK(OpenedStream)
<1>1. <<>> \in Wires /\ <<>> \in Seq(Handed_hc) /\ Len(<<>>) = 0 /\ MaxWire \in Nat
  BY HostAssumption DEF Wires
<1>2. NoStream \in StreamRows /\ OpenedStream \in StreamRows
  BY <1>1 DEF NoStream, OpenedStream, StreamRows
<1>3. /\ NoStream.wire = <<>> /\ NoStream.at = "closed"
      /\ OpenedStream.wire = <<>> /\ OpenedStream.at = "open" /\ OpenedStream.buffer = <<>>
      /\ OpenedStream.out = <<>> /\ ~OpenedStream.broken
  BY DEF NoStream, OpenedStream
<1>4. ReadUpTo(0, <<>>, <<>>, <<>>)
  <2>1. ReadOf(<<>>)[0] = ReadStart
    BY <1>1, ReadUnfolds
  <2>2. ReadOf(<<>>)[0].rest = <<>> /\ ReadOf(<<>>)[0].frames = <<>>
    BY <2>1, StartIsRead
  <2>3. SubSeq(<<>>, 0 + 1, 0) = <<>>
    OBVIOUS
  <2> QED BY <1>1, <2>2, <2>3, NoFrames DEF ReadUpTo, EventsAt
<1>5. StreamOK(NoStream)
  BY <1>1, <1>2, <1>3 DEF StreamOK
<1>6. \E p \in 0..Len(<<>>) : ReadUpTo(p, <<>>, <<>>, <<>>)
  BY <1>1, <1>4
<1>7. StreamOK(OpenedStream)
  <2> DEFINE s == OpenedStream
  <2>1. s.at # "ended" /\ Len(s.wire) <= MaxWire
    BY <1>1, <1>3
  <2>2. \E p \in 0..Len(s.wire) : ReadUpTo(p, s.wire, s.buffer, s.out)
    BY <1>3, <1>6, Zenon
  <2>3. s \in StreamRows /\ ~s.broken
    BY <1>2, <1>3
  <2> HIDE DEF s
  <2>4. StreamOK(s)
    BY <2>1, <2>2, <2>3 DEF StreamOK
  <2> QED BY <2>4 DEF s
<1> QED BY <1>5, <1>7

\* More of the wire, wherever it is cut, changes nothing of what was read.
LEMMA ChunkOK ==
    ASSUME NEW w \in Wires, NEW b, NEW o, NEW p, ReadUpTo(p, w, b, o), NEW c \in Wires
    PROVE  p \in 0..Len(w \o c) /\ ReadUpTo(p, w \o c, b \o c, o)
<1> DEFINE v == w \o c
<1>1. /\ v \in Wires /\ Len(v) = Len(w) + Len(c) /\ Len(w) \in Nat /\ Len(c) \in Nat
      /\ \A i \in 1..Len(w) : v[i] = w[i]
      /\ \A i \in 1..Len(v) : v[i] = IF i <= Len(w) THEN w[i] ELSE c[i - Len(w)]
  <2>1. w \in Seq(Symbols) /\ c \in Seq(Symbols)
    BY DEF Wires
  <2>2. /\ v \in Seq(Symbols) /\ Len(v) = Len(w) + Len(c)
        /\ \A i \in 1..(Len(w) + Len(c)) : v[i] = IF i <= Len(w) THEN w[i] ELSE c[i - Len(w)]
    BY <2>1, ConcatProperties
  <2> HIDE DEF v
  <2> QED BY <2>1, <2>2 DEF Wires
<1>2. p \in 0..Len(w) /\ p \in Nat /\ b = SubSeq(w, p + 1, Len(w)) /\ ReadOf(w)[p].rest = <<>>
      /\ o = EventsAt(w, p) /\ \A i \in 1..Len(o) : ~Terminal(o[i])
  BY <1>1 DEF ReadUpTo
<1>3. ReadOf(v)[p] = ReadOf(w)[p]
  <2> HIDE DEF v
  <2> QED BY <1>1, <1>2, ReadAgrees
<1>4. b \in Wires /\ Len(b) = Len(w) - p /\ \A i \in 1..Len(b) : b[i] = w[p + i]
  BY <1>1, <1>2 DEF Wires
<1>5. b \o c = SubSeq(v, p + 1, Len(v))
  <2> DEFINE x == b \o c
             y == SubSeq(v, p + 1, Len(v))
             n == Len(v) - p
  <2>1. x \in Seq(Symbols) /\ Len(x) = n
        /\ \A i \in 1..n : x[i] = IF i <= Len(b) THEN b[i] ELSE c[i - Len(b)]
    <3>1. b \in Seq(Symbols) /\ c \in Seq(Symbols)
      BY <1>4 DEF Wires
    <3>2. Len(b) + Len(c) = n
      <4> HIDE DEF v
      <4>1. /\ Len(b) = Len(w) - p /\ Len(v) = Len(w) + Len(c)
            /\ p \in Nat /\ Len(w) \in Nat /\ Len(c) \in Nat
        BY <1>1, <1>2, <1>4
      <4> QED BY <4>1
    <3> HIDE DEF n
    <3> QED BY <3>1, <3>2, ConcatProperties
  <2>2. y \in Seq(Symbols) /\ Len(y) = n /\ \A i \in 1..n : y[i] = v[p + i]
    <3> HIDE DEF v
    <3>1. v \in Seq(Symbols) /\ p \in Nat /\ p <= Len(v)
      BY <1>1, <1>2 DEF Wires
    <3> QED BY <3>1
  <2> HIDE DEF x, y
  <2>3. ASSUME NEW i \in 1..n PROVE x[i] = y[i]
    <3>1. p + i \in 1..Len(v) /\ i \in Nat /\ i >= 1
      <4> HIDE DEF v
      <4>1. Len(v) \in Nat /\ p \in Nat /\ p <= Len(v)
        BY <1>1, <1>2
      <4> QED BY <4>1
    <3>2. CASE i <= Len(b)
      <4>1. i \in 1..Len(b) /\ p + i \in 1..Len(w)
        <5>1. Len(b) = Len(w) - p /\ p \in Nat /\ p <= Len(w) /\ Len(w) \in Nat /\ i \in Nat /\ i >= 1
          BY <1>1, <1>2, <1>4, <3>1
        <5> QED BY <5>1, <3>2
      <4> HIDE DEF v
      <4> QED BY <1>1, <1>4, <2>1, <2>2, <3>2, <4>1
    <3>3. CASE ~(i <= Len(b))
      <4>1. ~(p + i <= Len(w)) /\ (p + i) - Len(w) = i - Len(b)
        <5>1. Len(b) = Len(w) - p /\ p \in Nat /\ p <= Len(w) /\ Len(w) \in Nat /\ i \in Nat
          BY <1>1, <1>2, <1>4, <3>1
        <5> QED BY <5>1, <3>3
      <4> HIDE DEF v
      <4>2. v[p + i] = c[(p + i) - Len(w)]
        BY <1>1, <3>1, <4>1
      <4> QED BY <2>1, <2>2, <3>3, <4>1, <4>2
    <3> QED BY <3>2, <3>3
  <2>4. Len(x) = Len(y) /\ \A i \in 1..Len(x) : x[i] = y[i]
    BY <2>1, <2>2, <2>3
  <2>5. x = y
    BY <2>1, <2>2, <2>4, SeqEqual
  <2> QED BY <2>5 DEF x, y
<1>6. p \in 0..Len(v)
  <2> HIDE DEF v
  <2> QED BY <1>1, <1>2
<1> HIDE DEF v
<1>7. ReadUpTo(p, v, b \o c, o)
  BY <1>2, <1>3, <1>5, <1>6 DEF ReadUpTo, EventsAt
<1> QED BY <1>6, <1>7 DEF v

\* A frame is over: the app is handed its event, and a terminal one is the last.
LEMMA DrainOK ==
    ASSUME NEW w \in Wires, NEW b, NEW o, NEW p, ReadUpTo(p, w, b, o), NEW cut \in Boundaries(b),
           \A y \in Boundaries(b) : cut <= y,
           NEW event, event = ParseFrame(SubSeq(b, 1, cut - 1))
    PROVE  /\ event \in StreamEvents \cup {"nothing"}
           /\ SubSeq(b, cut + 2, Len(b)) \in Wires
           /\ o \in Seq(StreamEvents) /\ Yielded(o, event) \in Seq(StreamEvents)
           /\ Terminal(event) => Yielded(o, event) = Reference(w)
           /\ ~Terminal(event) => \E q \in 0..Len(w) :
                 ReadUpTo(q, w, SubSeq(b, cut + 2, Len(b)), Yielded(o, event))
<1> DEFINE g == SubSeq(b, 1, cut - 1)
           q == p + cut + 1
           out == Yielded(o, event)
           E == EventsAt(w, Len(w))
           F == ReadOf(w)[p].frames
<1>1. /\ Len(w) \in Nat /\ p \in 0..Len(w) /\ p \in Nat /\ b = SubSeq(w, p + 1, Len(w))
      /\ ReadOf(w)[p].rest = <<>> /\ o = EventsAt(w, p)
      /\ (\A i \in 1..Len(o) : ~Terminal(o[i]))
      /\ F \in Seq(Wires)
  <2>1. /\ p \in 0..Len(w) /\ b = SubSeq(w, p + 1, Len(w)) /\ ReadOf(w)[p].rest = <<>>
        /\ o = EventsAt(w, p) /\ \A i \in 1..Len(o) : ~Terminal(o[i])
    BY Zenon DEF ReadUpTo
  <2>2. Len(w) \in Nat /\ \A n \in 0..Len(w) : ReadOf(w)[n] \in Reads
    BY ReadUnfolds, Zenon
  <2>3. p \in Nat
    BY <2>1, <2>2
  <2>4. ReadOf(w)[p] \in Reads
    BY <2>1, <2>2, Zenon
  <2>5. F \in Seq(Wires)
    BY <2>4 DEF Reads
  <2> QED BY <2>1, <2>2, <2>3, <2>5, Zenon
<1>2. /\ q \in 0..Len(w) /\ g \in Wires
      /\ ReadOf(w)[q] = [frames |-> Append(F, g), rest |-> <<>>]
  BY <1>1, ReadFrame, ZenonT(60)
<1> HIDE DEF F
<1>3. event \in StreamEvents \cup {"nothing"}
  BY <1>2, FrameTells
<1>4. EventsAt(w, q) = out /\ o \in Seq(StreamEvents)
  <2>1. o = EventsOfFrames(F)
    BY <1>1 DEF EventsAt, F
  <2>2. EventsAt(w, q) = EventsOfFrames(Append(F, g))
    BY <1>2 DEF EventsAt
  <2>3. EventsOfFrames(F) \in Seq(StreamEvents)
        /\ EventsOfFrames(Append(F, g)) = Yielded(EventsOfFrames(F), ParseFrame(g))
    <3> HIDE DEF g
    <3> QED BY <1>1, <1>2, EventsOfOneMore
  <2> QED BY <2>1, <2>2, <2>3
<1>5. out \in Seq(StreamEvents) /\ E \in Seq(StreamEvents) /\ StartsWith(E, out)
  <2>1. /\ EventsAt(w, q) \in Seq(StreamEvents) /\ E \in Seq(StreamEvents)
        /\ StartsWith(E, EventsAt(w, q))
    <3> HIDE DEF q
    <3> QED BY <1>2, EventsGrow
  <2> QED BY <1>4, <2>1
<1>6. b \in Wires /\ Len(b) = Len(w) - p /\ Len(b) \in Nat /\ cut \in 1..(Len(b) - 1) /\ cut \in Nat
      /\ \A i \in 1..Len(b) : b[i] = w[p + i]
  <2>1. b \in Wires /\ Len(b) = Len(w) - p /\ Len(b) \in Nat /\ \A i \in 1..Len(b) : b[i] = w[p + i]
    BY <1>1 DEF Wires
  <2> QED BY <2>1 DEF Boundaries
<1>7. SubSeq(b, cut + 2, Len(b)) \in Wires /\ SubSeq(b, cut + 2, Len(b)) = SubSeq(w, q + 1, Len(w))
  <2> DEFINE x == SubSeq(b, cut + 2, Len(b))
             y == SubSeq(w, q + 1, Len(w))
             n == Len(w) - q
  <2>1. n \in Nat /\ q + 1 \in Nat /\ cut + 2 \in Nat /\ n = Len(b) - (cut + 1)
    <3>1. Len(w) \in Nat /\ p \in Nat /\ cut \in Nat /\ Len(b) = Len(w) - p
          /\ p + cut + 1 <= Len(w)
      BY <1>1, <1>2, <1>6
    <3>2. Len(w) - (p + cut + 1) \in Nat /\ (p + cut + 1) + 1 \in Nat /\ cut + 2 \in Nat
          /\ Len(w) - (p + cut + 1) = (Len(w) - p) - (cut + 1)
      BY <3>1
    <3> QED BY <3>1, <3>2
  <2>2. x \in Seq(Symbols) /\ Len(x) = n /\ \A i \in 1..n : x[i] = b[cut + 1 + i]
    <3> HIDE DEF n
    <3>1. b \in Seq(Symbols)
      BY <1>6 DEF Wires
    <3>2. /\ x \in Seq(Symbols)
          /\ Len(x) = IF cut + 2 <= Len(b) THEN Len(b) - (cut + 2) + 1 ELSE 0
          /\ \A i \in 1..(Len(b) - (cut + 2) + 1) : x[i] = b[(cut + 2) + i - 1]
      <4>1. \A i \in (cut + 2)..Len(b) : b[i] \in Symbols
        BY <1>6, <3>1
      <4>2. cut + 2 \in Int /\ Len(b) \in Int
        BY <1>6
      <4> QED BY <4>1, <4>2, SubSeqProperties
    <3> HIDE DEF x
    <3>3. Len(x) = n
      BY <1>6, <2>1, <3>2
    <3>4. ASSUME NEW i \in 1..n PROVE x[i] = b[cut + 1 + i]
      <4>1. i \in 1..(Len(b) - (cut + 2) + 1) /\ (cut + 2) + i - 1 = cut + 1 + i
        BY <1>6, <2>1
      <4> QED BY <3>2, <4>1
    <3> QED BY <3>2, <3>3, <3>4
  <2>3. y \in Seq(Symbols) /\ Len(y) = n /\ \A i \in 1..n : y[i] = w[q + i]
    <3> HIDE DEF q
    <3>1. w \in Seq(Symbols) /\ q \in Nat /\ q <= Len(w)
      BY <1>1, <1>2 DEF Wires
    <3> QED BY <1>1, <3>1
  <2> HIDE DEF x, y
  <2>4. ASSUME NEW i \in 1..n PROVE x[i] = y[i]
    <3>1. cut + 1 + i \in 1..Len(b) /\ p + (cut + 1 + i) = q + i
      BY <1>1, <1>6, <2>1
    <3>2. b[cut + 1 + i] = w[q + i]
      BY <1>6, <3>1
    <3> QED BY <2>2, <2>3, <3>2
  <2>5. Len(x) = Len(y) /\ \A i \in 1..Len(x) : x[i] = y[i]
    BY <2>2, <2>3, <2>4
  <2>6. x = y
    BY <2>2, <2>3, <2>5, SeqEqual
  <2> QED BY <2>2, <2>6 DEF x, y, Wires
<1>8. ASSUME ~Terminal(event)
      PROVE  ReadUpTo(q, w, SubSeq(b, cut + 2, Len(b)), out)
  <2>1. \A i \in 1..Len(out) : ~Terminal(out[i])
    BY <1>1, <1>3, <1>4, <1>8 DEF Yielded
  <2> HIDE DEF q, out
  <2>2. ReadOf(w)[q].rest = <<>>
    BY <1>2
  <2> QED BY <1>2, <1>4, <1>7, <2>1, <2>2 DEF ReadUpTo
<1>9. ASSUME Terminal(event) PROVE out = Reference(w)
  <2>1. event \in StreamEvents
    BY <1>3, <1>9 DEF Terminal, StreamEvents
  <2>2. out = Append(o, event)
    BY <2>1 DEF Yielded, StreamEvents
  <2> DEFINE m == Len(o) + 1
             ends == {i \in 1..Len(E) : Terminal(E[i])}
  <2>3. Len(out) = m /\ out[m] = event /\ (\A i \in 1..Len(o) : out[i] = o[i]) /\ Len(o) \in Nat
    BY <1>4, <2>1, <2>2
  <2>4. m \in 1..Len(E) /\ (\A i \in 1..m : E[i] = out[i]) /\ Len(E) \in Nat
    <3> HIDE DEF E, out
    <3> QED BY <1>5, <2>3 DEF StartsWith
  <2>5. m \in ends
    <3>1. E[m] = event
      <4>1. m \in 1..m
        BY <2>3
      <4> HIDE DEF m, E, out
      <4> QED BY <2>3, <2>4, <4>1
    <3> HIDE DEF E, m
    <3> QED BY <1>9, <2>4, <3>1
  <2>6. \A i \in ends : m <= i
    <3>1. ASSUME NEW i \in ends, ~(m <= i) PROVE FALSE
      <4>1. i \in 1..Len(o) /\ i \in 1..m
        <5> HIDE DEF E
        <5> QED BY <2>3, <2>4, <3>1
      <4>2. E[i] = o[i]
        <5> HIDE DEF E, out, m
        <5> QED BY <2>3, <2>4, <4>1
      <4>3. Terminal(E[i])
        <5> HIDE DEF E
        <5> QED OBVIOUS
      <4> QED BY <1>1, <4>1, <4>2, <4>3
    <3> QED BY <3>1
  <2>7. Min(ends) = m
    <3>1. \A x \in ends : (\A y \in ends : x <= y) => x = m
      <4>1. ASSUME NEW x \in ends, \A y \in ends : x <= y PROVE x = m
        <5>1. x <= m /\ m <= x
          BY <2>5, <2>6, <4>1
        <5>2. x \in Nat /\ m \in Nat
          <6> HIDE DEF E
          <6> QED BY <2>3, <2>4
        <5> HIDE DEF m
        <5> QED BY <5>1, <5>2
      <4> QED BY <4>1
    <3> HIDE DEF ends, m
    <3> QED BY <2>5, <2>6, <3>1 DEF Min
  <2>8. SubSeq(E, 1, m) = out
    <3> HIDE DEF E, out, m
    <3>1. m \in Nat /\ m <= Len(E) /\ E \in Seq(StreamEvents) /\ out \in Seq(StreamEvents) /\ Len(out) = m
      BY <1>5, <2>3, <2>4
    <3> DEFINE u == SubSeq(E, 1, m)
    <3>2. u \in Seq(StreamEvents) /\ Len(u) = m /\ \A i \in 1..m : u[i] = E[i]
      BY <3>1
    <3> HIDE DEF u
    <3>3. Len(u) = Len(out) /\ \A i \in 1..Len(u) : u[i] = out[i]
      BY <2>4, <3>1, <3>2
    <3>4. u = out
      BY <3>1, <3>2, <3>3, SeqEqual
    <3> QED BY <3>4 DEF u
  <2>9. Reference(w) = IF ends = {} THEN Append(E, "Protocol") ELSE SubSeq(E, 1, Min(ends))
    BY DEF Reference, FramesOf, EventsAt
  <2> HIDE DEF ends, E, m, out
  <2> QED BY <2>5, <2>7, <2>8, <2>9
<1> HIDE DEF q
<1> QED BY <1>2, <1>3, <1>4, <1>5, <1>7, <1>8, <1>9

\* The upstream ends and no frame is over: nothing terminal was on the wire.
LEMMA EndOK ==
    ASSUME NEW w \in Wires, NEW b, NEW o, NEW p, ReadUpTo(p, w, b, o), Boundaries(b) = {}
    PROVE  o \in Seq(StreamEvents) /\ Append(o, "Protocol") = Reference(w)
<1>1. /\ Len(w) \in Nat /\ p \in 0..Len(w) /\ p \in Nat /\ b = SubSeq(w, p + 1, Len(w))
      /\ ReadOf(w)[p].rest = <<>> /\ o = EventsAt(w, p)
      /\ (\A i \in 1..Len(o) : ~Terminal(o[i]))
  BY DEF ReadUpTo, Wires
<1>2. Len(b) = Len(w) - p /\ Len(b) \in 0..Len(b)
  BY <1>1 DEF Wires
<1>3. \A k \in 0..Len(b) :
        ReadOf(w)[p + k] = [frames |-> ReadOf(w)[p].frames, rest |-> SubSeq(b, 1, k)]
  BY <1>1, <1>2, ReadWithin
<1>4. p + Len(b) = Len(w)
  BY <1>1, <1>2
<1>5. ReadOf(w)[Len(w)].frames = ReadOf(w)[p].frames
  <2>1. ReadOf(w)[p + Len(b)] = [frames |-> ReadOf(w)[p].frames, rest |-> SubSeq(b, 1, Len(b))]
    BY <1>2, <1>3, Zenon
  <2>2. ReadOf(w)[p + Len(b)].frames = ReadOf(w)[p].frames
    BY <2>1
  <2> QED BY <1>4, <2>2, Zenon
<1>6. EventsOfFrames(FramesOf(w)) = o
  BY <1>1, <1>5 DEF FramesOf, EventsAt
<1>7. o \in Seq(StreamEvents)
  BY <1>1, EventsGrow
<1>8. {i \in 1..Len(o) : Terminal(o[i])} = {}
  BY <1>1
<1> QED BY <1>6, <1>7, <1>8 DEF Reference

-----------------------------------------------------------------------------
(* The inductive invariant of the host calls.                                *)

HostInv == env \in HostEnvs /\ CallsInv /\ StreamOK(stream) /\ made \in 0..MaxHostCalls

LEMMA HostStarts == HostInit => HostInv
<1> SUFFICES ASSUME HostInit PROVE HostInv
  OBVIOUS
<1>1. CallsInv
  <2>1. CallOK(Idle_hc)
    BY IdleFields DEF CallOK
  <2>2. call \in [HostCallers -> CallRows] /\ \A c \in HostCallers : call[c] = Idle_hc
    BY IdleFields DEF HostInit
  <2> QED BY <2>1, <2>2 DEF CallsInv
<1>2. StreamOK(stream)
  BY ClosedOK DEF HostInit
<1> QED BY <1>1, <1>2, HostAssumption DEF HostInit, HostInv

\* What a stream that is being read was handed and keeps.
LEMMA OpenStreamOK ==
    ASSUME StreamOK(stream), stream.at = "open"
    PROVE  /\ stream \in StreamRows /\ stream.wire \in Wires /\ Len(stream.wire) <= MaxWire
           /\ ~stream.broken
           /\ \E p \in 0..Len(stream.wire) :
                ReadUpTo(p, stream.wire, stream.buffer, stream.out) 
  BY DEF StreamOK, StreamRows

LEMMA HandedGrows ==
    ASSUME NEW o \in Seq(StreamEvents)
    PROVE  /\ o \in Seq(Handed_hc)
           /\ Append(o, "Transport") \in Seq(Handed_hc) /\ Append(o, "Protocol") \in Seq(Handed_hc)
<1>1. StreamEvents \subseteq Handed_hc /\ "Transport" \in Handed_hc /\ "Protocol" \in Handed_hc
  BY DEF Handed_hc, StreamEvents
<1>2. o \in Seq(Handed_hc)
  <2> HIDE DEF Handed_hc, StreamEvents
  <2> QED BY <1>1
<1> HIDE DEF Handed_hc, StreamEvents
<1> QED BY <1>1, <1>2

LEMMA ChunkArrivesOK ==
    ASSUME StreamOK(stream), NEW chunk \in Chunks, ChunkArrives(chunk)
    PROVE  StreamOK(stream')
<1>1. /\ stream.at = "open" /\ Len(stream.wire) + Len(chunk) <= MaxWire
      /\ stream' = [stream EXCEPT !.wire = @ \o chunk, !.buffer = @ \o chunk]
  BY DEF ChunkArrives, ReadsNext
<1>2. /\ stream \in StreamRows /\ stream.wire \in Wires /\ ~stream.broken
      /\ stream.buffer \in Wires /\ stream.out \in Seq(Handed_hc)
  BY <1>1, OpenStreamOK DEF StreamRows
<1>3. PICK p \in 0..Len(stream.wire) : ReadUpTo(p, stream.wire, stream.buffer, stream.out)
  BY <1>1, OpenStreamOK
<1>4. chunk \in Wires
  <2>1. PICK n \in 1..3 : chunk \in [1..n -> WireLines \cup {NL, CR}]
    BY DEF Chunks
  <2> QED BY <2>1 DEF Wires, Symbols
<1> DEFINE t == [at |-> "open", wire |-> stream.wire \o chunk, buffer |-> stream.buffer \o chunk,
                 out |-> stream.out, broken |-> FALSE]
<1>5. stream' = t
  BY <1>1, <1>2 DEF StreamRows
<1>6. /\ stream.wire \o chunk \in Wires /\ stream.buffer \o chunk \in Wires
      /\ Len(stream.wire \o chunk) = Len(stream.wire) + Len(chunk)
  BY <1>2, <1>4 DEF Wires
<1>7. t \in StreamRows
  BY <1>2, <1>6 DEF StreamRows
<1>8. \E q \in 0..Len(t.wire) : ReadUpTo(q, t.wire, t.buffer, t.out)
  BY <1>2, <1>3, <1>4, ChunkOK
<1>9. t.at = "open" /\ ~t.broken /\ Len(t.wire) <= MaxWire
  BY <1>1, <1>6
<1> HIDE DEF t
<1>10. StreamOK(t)
  BY <1>7, <1>8, <1>9 DEF StreamOK
<1> QED BY <1>5, <1>10

LEMMA DrainFrameOK ==
    ASSUME StreamOK(stream), DrainFrame
    PROVE  StreamOK(stream')
<1> DEFINE w == stream.wire
           b == stream.buffer
           o == stream.out
           cut == Min(Boundaries(b))
           event == ParseFrame(SubSeq(b, 1, cut - 1))
           over == SubSeq(b, cut + 2, Len(b))
           handed == Yielded(o, event)
           t == [at |-> IF Terminal(event) THEN "ended" ELSE "open", wire |-> w,
                 buffer |-> over, out |-> handed, broken |-> FALSE]
<1>1. /\ stream.at = "open" /\ Boundaries(b) # {}
      /\ stream' = [stream EXCEPT !.buffer = over, !.out = handed,
                                  !.at = IF Terminal(event) THEN "ended" ELSE @]
  BY DEF DrainFrame
<1>2. /\ stream \in StreamRows /\ w \in Wires /\ ~stream.broken /\ Len(w) <= MaxWire
  BY <1>1, OpenStreamOK
<1>3. PICK p \in 0..Len(w) : ReadUpTo(p, w, b, o)
  BY <1>1, OpenStreamOK
<1>4. cut \in Boundaries(b) /\ \A y \in Boundaries(b) : cut <= y
  <2>1. Boundaries(b) \subseteq Nat
    BY DEF Boundaries
  <2>2. PICK x \in Boundaries(b) : \A y \in Boundaries(b) : x <= y
    BY <1>1, <2>1, FirstExists
  <2> HIDE DEF b
  <2> QED BY <2>2 DEF Min
<1>5. stream' = t
  <2> HIDE DEF event, over, handed
  <2> QED BY <1>1, <1>2 DEF StreamRows
<1>6. /\ event \in StreamEvents \cup {"nothing"}
      /\ over \in Wires
      /\ o \in Seq(StreamEvents) /\ handed \in Seq(StreamEvents)
      /\ Terminal(event) => handed = Reference(w)
      /\ ~Terminal(event) => \E q \in 0..Len(w) : ReadUpTo(q, w, over, handed)
  <2> HIDE DEF w, b, o, cut
  <2> QED BY <1>2, <1>3, <1>4, DrainOK
<1>7. handed \in Seq(Handed_hc)
  BY <1>6, HandedGrows
<1>8. t \in StreamRows
  <2> HIDE DEF w, over, handed, event
  <2> QED BY <1>2, <1>6, <1>7 DEF StreamRows
<1>9. /\ t.wire = w /\ t.buffer = over /\ t.out = handed /\ ~t.broken
      /\ t.at = IF Terminal(event) THEN "ended" ELSE "open"
  OBVIOUS
<1> HIDE DEF t, w, b, o, over, handed, event
<1>10. StreamOK(t)
  <2>1. CASE Terminal(event)
    BY <1>2, <1>6, <1>8, <1>9, <2>1 DEF StreamOK
  <2>2. CASE ~Terminal(event)
    BY <1>2, <1>6, <1>8, <1>9, <2>2 DEF StreamOK
  <2> QED BY <2>1, <2>2
<1> QED BY <1>5, <1>10

LEMMA StreamStopsOK ==
    ASSUME StreamOK(stream), ReadFails \/ UpstreamEnds
    PROVE  StreamOK(stream')
<1>1. stream.at = "open" /\ Boundaries(stream.buffer) = {}
  BY DEF ReadFails, UpstreamEnds, ReadsNext
<1>2. /\ stream \in StreamRows /\ stream.wire \in Wires /\ ~stream.broken
      /\ Len(stream.wire) <= MaxWire
  BY <1>1, OpenStreamOK
<1>3. PICK p \in 0..Len(stream.wire) : ReadUpTo(p, stream.wire, stream.buffer, stream.out)
  BY <1>1, OpenStreamOK
<1>4. stream.out \in Seq(StreamEvents) /\ Append(stream.out, "Protocol") = Reference(stream.wire)
  BY <1>1, <1>2, <1>3, EndOK
<1> DEFINE t(x, y) == [at |-> "ended", wire |-> stream.wire, buffer |-> stream.buffer,
                       out |-> Append(stream.out, x), broken |-> y]
<1>5. t("Transport", TRUE) \in StreamRows /\ t("Protocol", FALSE) \in StreamRows
  BY <1>2, <1>4, HandedGrows DEF StreamRows
<1>6. stream' = t("Transport", TRUE) \/ stream' = t("Protocol", FALSE)
  BY <1>2 DEF ReadFails, UpstreamEnds, StreamRows
<1>7. StreamOK(t("Transport", TRUE)) /\ StreamOK(t("Protocol", FALSE))
  BY <1>2, <1>4, <1>5 DEF StreamOK
<1> QED BY <1>6, <1>7

LEMMA HostStep == HostInv /\ [HostNext]_hostVars => HostInv'
<1> SUFFICES ASSUME HostInv, [HostNext]_hostVars PROVE HostInv'
  OBVIOUS
<1>1. env \in HostEnvs /\ CallsInv /\ StreamOK(stream) /\ made \in 0..MaxHostCalls /\ MaxHostCalls \in Nat
  BY HostAssumption DEF HostInv
<1>2. ASSUME UNCHANGED call PROVE CallsInv'
  BY <1>1, <1>2 DEF CallsInv
<1>3. ASSUME UNCHANGED stream PROVE StreamOK(stream')
  BY <1>1, <1>3
<1>4. ASSUME UNCHANGED <<env, call, made>>, StreamOK(stream') PROVE HostInv'
  BY <1>1, <1>2, <1>4 DEF HostInv
<1>5. ASSUME NEW c \in HostCallers,
             \/ Emit(c) \/ PublishRoom(c) \/ Report(c) \/ Authorize(c) \/ AskStatus(c)
             \/ CallProvider(c) \/ OpenStream(c) \/ EmailStatus(c) \/ SendEmail(c)
      PROVE  HostInv'
  <2>1. CallsInv' /\ UNCHANGED <<env, stream>> /\ made < MaxHostCalls /\ made' = made + 1
    BY <1>1, <1>5, BeginKeeps
  <2>2. made' \in 0..MaxHostCalls
    BY <1>1, <2>1
  <2> QED BY <1>1, <1>3, <2>1, <2>2 DEF HostInv
<1>6. ASSUME NEW c \in HostCallers, Answered(c) \/ Lost(c) \/ Returns(c) PROVE HostInv'
  <2>1. CallsInv'
    BY <1>1, <1>6, AnswerKeeps
  <2>2. UNCHANGED <<env, made>> /\ (UNCHANGED stream \/ stream' = OpenedStream)
    BY <1>6 DEF Answered, Lost, Returns
  <2>3. StreamOK(stream')
    BY <1>1, <2>2, ClosedOK
  <2> QED BY <1>1, <2>1, <2>2, <2>3 DEF HostInv
<1>7. ASSUME NEW chunk \in Chunks, ChunkArrives(chunk) PROVE HostInv'
  <2>1. StreamOK(stream')
    BY <1>1, <1>7, ChunkArrivesOK
  <2> QED BY <1>4, <1>7, <2>1 DEF ChunkArrives
<1>8. CASE DrainFrame
  <2>1. StreamOK(stream')
    BY <1>1, <1>8, DrainFrameOK
  <2> QED BY <1>4, <1>8, <2>1 DEF DrainFrame
<1>9. CASE ReadFails \/ UpstreamEnds
  <2>1. StreamOK(stream')
    BY <1>1, <1>9, StreamStopsOK
  <2> QED BY <1>4, <1>9, <2>1 DEF ReadFails, UpstreamEnds
<1>10. CASE DropStream
  <2>1. StreamOK(stream')
    BY <1>10, ClosedOK DEF DropStream
  <2> QED BY <1>4, <1>10, <2>1 DEF DropStream
<1>11. CASE UNCHANGED hostVars
  BY <1>3, <1>4, <1>11 DEF hostVars
<1>12. CASE HostNext
  BY <1>5, <1>6, <1>7, <1>8, <1>9, <1>10, <1>12 DEF HostNext
<1> QED BY <1>11, <1>12

LEMMA HostIsTyped == HostInv => HostTypeOK
<1> SUFFICES ASSUME HostInv PROVE HostTypeOK
  OBVIOUS
<1>1. ASSUME NEW c \in HostCallers
      PROVE  /\ call[c].at \in {"idle", "sent", "answered", "done"} /\ call[c].acted \in BOOLEAN
             /\ call[c].answer \in Answers \cup {TransportFailed}
             /\ call[c].result \in Results \cup {None_hc}
  <2>1. call[c] \in CallRows
    BY DEF HostInv, CallsInv
  <2> QED BY <2>1 DEF CallRows
<1>2. stream.at \in {"closed", "open", "ended"} /\ Len(stream.wire) <= MaxWire
  BY DEF HostInv, StreamOK, StreamRows
<1> QED BY <1>1, <1>2 DEF HostInv, HostTypeOK

LEMMA HostReports == HostInv => HostIsReported
<1> SUFFICES ASSUME HostInv PROVE HostIsReported
  OBVIOUS
<1>1. StreamIsWhole
  BY DEF HostInv, StreamOK, StreamIsWhole
<1>2. OutcomeIsTrue
  BY DEF HostInv, CallsInv, CallOK, OutcomeIsTrue
<1> QED BY <1>1, <1>2 DEF HostIsReported

\* The types of the calls and of the model stream (ryu-app-events, host.rs).
THEOREM HostTypeCorrect == HostSpec => []HostTypeOK
<1>1. HostSpec => []HostInv
  BY HostStarts, HostStep, PTL DEF HostSpec
<1> QED BY <1>1, HostIsTyped, PTL

\* Whatever the callers and Core do, and wherever the wire of a model stream is cut:
\* a call that reports success was done and one that reports a refusal was not,
\* and a stream that ends hands on what a reader of the whole wire would have.
THEOREM HostIsAlwaysReported == HostSpec => []HostIsReported
<1>1. HostSpec => []HostInv
  BY HostStarts, HostStep, PTL DEF HostSpec
<1> QED BY <1>1, HostReports, PTL

(*****************************************************************************)
(* SidecarHandoff.                                                           *)
(*****************************************************************************)

\* The file, and what the other process loaded from it, hold a token of some run.
Published == [port : RunPorts, token : {TokenOf(r) : r \in Runs}]
FileIsPublished == handoff = Nobody \/ handoff \in Published
\* A run that has started has a port.
StartedHasPort ==
    /\ runOf \in [Runs -> [at : {"new", "bound", "up", "remove", "closing", "gone"},
                           port : RunPorts \cup {Nobody}]]
    /\ \A r \in Runs : runOf[r].at \notin {"new", "gone"} => runOf[r].port \in RunPorts
ListenersAreRuns == listens \in [RunPorts -> Runs \cup {Nobody, Stranger}]
LoadedIsPublished ==
    /\ local.at \in {"idle", "probe", "connected"}
    /\ local \in [at : {"idle", "probe", "connected"}, seen : {local.seen},
                  answer : {"none", "own store", "answered", "refused", "cut text", "error"}]
    /\ local.at # "idle" => local.seen \in Published
CallsAreCounted == callsMade \in 0..MaxCalls

HandoffInv == /\ FileIsPublished /\ StartedHasPort /\ ListenersAreRuns
        /\ LoadedIsPublished /\ CallsAreCounted /\ HandoffOpensItsRun

LEMMA HandoffInvTyped == HandoffInv => HandoffTypeOK
  BY DEF HandoffInv, FileIsPublished, Published, StartedHasPort, ListenersAreRuns, LoadedIsPublished,
         CallsAreCounted, HandoffTypeOK

LEMMA HandoffInitInv == HandoffInit => HandoffInv
<1> SUFFICES ASSUME HandoffInit PROVE HandoffInv
  OBVIOUS
<1>1. FileIsPublished /\ ListenersAreRuns /\ CallsAreCounted /\ HandoffOpensItsRun
  BY HandoffAssumption DEF HandoffInit, FileIsPublished, ListenersAreRuns, CallsAreCounted,
                           HandoffOpensItsRun
<1>2. StartedHasPort
  BY DEF HandoffInit, StartedHasPort
<1>3. LoadedIsPublished
  BY DEF HandoffInit, LoadedIsPublished, NotCalling
<1> QED BY <1>1, <1>2, <1>3 DEF HandoffInv

-----------------------------------------------------------------------------
(* The sidecars: the callers' part stays as it is.                           *)

LEMMA Calling ==
  ASSUME HandoffInv, CallsSame
  PROVE  LoadedIsPublished' /\ CallsAreCounted' /\ HandoffOpensItsRun'
  BY DEF HandoffInv, CallsSame, LoadedIsPublished, CallsAreCounted, HandoffOpensItsRun

\* A run moves on with the port it has.
LEMMA MovedKeepsPorts ==
  ASSUME HandoffInv, NEW r \in Runs, NEW at \in {"bound", "up", "remove", "closing"},
         runOf[r].at \notin {"new", "gone"}, Moved(r, at)
  PROVE  StartedHasPort'
<1>1. StartedHasPort
  BY DEF HandoffInv
<1>2. runOf' = [runOf EXCEPT ![r].at = at]
  BY DEF Moved
<1>3. /\ runOf' \in [Runs -> [at : {"new", "bound", "up", "remove", "closing", "gone"},
                              port : RunPorts \cup {Nobody}]]
      /\ \A q \in Runs \ {r} : runOf'[q] = runOf[q]
      /\ runOf'[r].port = runOf[r].port
  BY <1>1, <1>2 DEF StartedHasPort
<1>4. runOf[r].port \in RunPorts
  BY <1>1 DEF StartedHasPort
<1> QED BY <1>1, <1>3, <1>4 DEF StartedHasPort

LEMMA SidecarInv ==
  ASSUME HandoffInv, NEW r \in Runs,
         \/ PublishHandoff(r) \/ LoadToWithdraw(r) \/ RemoveHandoff(r) \/ StopRun(r)
         \/ \E p \in RunPorts : StartRun(r, p)
  PROVE  HandoffInv'
<1>1. FileIsPublished /\ StartedHasPort /\ ListenersAreRuns
  BY DEF HandoffInv
<1>2. CallsSame
  BY DEF PublishHandoff, LoadToWithdraw, RemoveHandoff, StopRun, StartRun
<1>3. CASE PublishHandoff(r)
  <2>1. StartedHasPort'
    BY <1>3, MovedKeepsPorts DEF PublishHandoff
  <2>2. FileIsPublished' /\ ListenersAreRuns'
    BY <1>1, <1>3 DEF PublishHandoff, Handoff, FileIsPublished, Published, StartedHasPort,
                      ListenersAreRuns
  <2> QED BY <1>2, <2>1, <2>2, Calling DEF HandoffInv
<1>4. CASE LoadToWithdraw(r)
  <2>1. StartedHasPort'
    <3>1. PICK at \in {"remove", "closing"} : Moved(r, at)
      BY <1>4 DEF LoadToWithdraw
    <3> QED BY <1>4, <3>1, MovedKeepsPorts DEF LoadToWithdraw
  <2>2. FileIsPublished' /\ ListenersAreRuns'
    BY <1>1, <1>4 DEF LoadToWithdraw, FileIsPublished, ListenersAreRuns
  <2> QED BY <1>2, <2>1, <2>2, Calling DEF HandoffInv
<1>5. CASE RemoveHandoff(r)
  <2>1. StartedHasPort'
    BY <1>5, MovedKeepsPorts DEF RemoveHandoff
  <2>2. FileIsPublished' /\ ListenersAreRuns'
    BY <1>1, <1>5 DEF RemoveHandoff, FileIsPublished, ListenersAreRuns
  <2> QED BY <1>2, <2>1, <2>2, Calling DEF HandoffInv
<1>6. CASE StopRun(r)
  <2>1. StartedHasPort'
    BY <1>1, <1>6 DEF StopRun, StartedHasPort
  <2>2. FileIsPublished' /\ ListenersAreRuns'
    BY <1>1, <1>6 DEF StopRun, FileIsPublished, ListenersAreRuns
  <2> QED BY <1>2, <2>1, <2>2, Calling DEF HandoffInv
<1>7. ASSUME NEW p \in RunPorts, StartRun(r, p) PROVE HandoffInv'
  <2>1. StartedHasPort'
    BY <1>1, <1>7 DEF StartRun, StartedHasPort
  <2>2. FileIsPublished' /\ ListenersAreRuns'
    BY <1>1, <1>7 DEF StartRun, FileIsPublished, ListenersAreRuns
  <2> QED BY <1>2, <2>1, <2>2, Calling DEF HandoffInv
<1> QED BY <1>3, <1>4, <1>5, <1>6, <1>7

LEMMA StrangerInv == ASSUME HandoffInv, NEW p \in RunPorts, StrangerListens(p) PROVE HandoffInv'
<1>1. FileIsPublished' /\ StartedHasPort' /\ ListenersAreRuns'
  BY DEF StrangerListens, HandoffInv, FileIsPublished, StartedHasPort, ListenersAreRuns
<1>2. CallsSame
  BY DEF StrangerListens
<1> QED BY <1>1, <1>2, Calling DEF HandoffInv

-----------------------------------------------------------------------------
(* The other process.                                                        *)

HandoffAnswers == {"none", "own store", "answered", "refused", "cut text", "error"}

LEMMA Serving ==
  ASSUME HandoffInv, RunsSame
  PROVE  FileIsPublished' /\ StartedHasPort' /\ ListenersAreRuns'
  BY DEF HandoffInv, RunsSame, FileIsPublished, StartedHasPort, ListenersAreRuns

LEMMA AnswerIsLocal ==
  ASSUME NEW a \in HandoffAnswers, LastAnswer(a) PROVE LoadedIsPublished'
  BY DEF LastAnswer, NotCalling, LoadedIsPublished, HandoffAnswers

LEMMA LoadInv == ASSUME HandoffInv, LoadHandoff PROVE HandoffInv'
<1>1. FileIsPublished /\ LoadedIsPublished /\ CallsAreCounted /\ HandoffOpensItsRun
  BY DEF HandoffInv
<1>2. LoadedIsPublished'
  <2>1. CASE handoff = Nobody
    BY <2>1, AnswerIsLocal DEF LoadHandoff, HandoffAnswers
  <2>2. CASE handoff # Nobody
    <3>1. local' = [at |-> "probe", seen |-> handoff, answer |-> "none"] /\ handoff \in Published
      BY <1>1, <2>2 DEF LoadHandoff, FileIsPublished
    <3> HIDE DEF Published
    <3> QED BY <3>1 DEF LoadedIsPublished
  <2> QED BY <2>1, <2>2
<1>3. CallsAreCounted' /\ HandoffOpensItsRun'
  <2>1. MaxCalls \in Nat /\ callsMade < MaxCalls /\ callsMade' = callsMade + 1 /\ opened' = opened
    BY HandoffAssumption DEF LoadHandoff
  <2> QED BY <1>1, <2>1 DEF CallsAreCounted, HandoffOpensItsRun
<1>4. RunsSame
  BY DEF LoadHandoff
<1> QED BY <1>2, <1>3, <1>4, Serving DEF HandoffInv

LEMMA ProbeInv == ASSUME HandoffInv, ProbeHealth PROVE HandoffInv'
<1>1. LoadedIsPublished /\ CallsAreCounted /\ HandoffOpensItsRun
  BY DEF HandoffInv
<1>2. LoadedIsPublished'
  <2>1. CASE LastAnswer("own store")
    BY <2>1, AnswerIsLocal DEF HandoffAnswers
  <2>2. CASE local' = [local EXCEPT !.at = "connected"]
    BY <1>1, <2>2 DEF ProbeHealth, LoadedIsPublished
  <2> QED BY <2>1, <2>2 DEF ProbeHealth
<1>3. CallsAreCounted' /\ HandoffOpensItsRun'
  BY <1>1 DEF ProbeHealth, CallsAreCounted, HandoffOpensItsRun
<1>4. RunsSame
  BY DEF ProbeHealth
<1> QED BY <1>2, <1>3, <1>4, Serving DEF HandoffInv

\* What the listener opens: the loaded token is some run's, and no run takes
\* another run's token, or Core's for it.
LEMMA AuthorizedIsOwn ==
  ASSUME HandoffInv, NEW l \in Runs, NEW path, local.at = "connected",
         Authorized(l, local.seen.token, path)
  PROVE  local.seen.token = TokenOf(l) /\ \E p \in HandoffRoutes : IsPrefix(p, path)
<1>1. PICK r \in Runs : local.seen.token = TokenOf(r)
  BY DEF HandoffInv, LoadedIsPublished, Published
<1>2. local.seen.token # CoreToken
  BY <1>1, HandoffAssumption DEF TokenOf
<1> QED BY <1>2 DEF Authorized, TokenOk

LEMMA CallInv == ASSUME HandoffInv, NEW path \in AskedPaths, CallSidecar(path) PROVE HandoffInv'
<1>1. LoadedIsPublished /\ CallsAreCounted /\ HandoffOpensItsRun
  BY DEF HandoffInv
<1> DEFINE l == listens[local.seen.port]
           token == local.seen.token
<1>2. LoadedIsPublished'
  <2>1. \A response \in Responses : ParsedResponse(response) \in HandoffAnswers
    BY DEF ParsedResponse, HandoffAnswers
  <2>2. PICK a \in HandoffAnswers : LastAnswer(a)
    <3>1. "error" \in HandoffAnswers
      BY DEF HandoffAnswers
    <3> QED BY <2>1, <3>1 DEF CallSidecar
  <2> QED BY <2>2, AnswerIsLocal
<1>3. \/ opened' = opened
      \/ opened' = opened \cup {<<l, token, path>>} /\ l \in Runs /\ Authorized(l, token, path)
  BY DEF CallSidecar
<1>4. HandoffOpensItsRun'
  <2>1. CASE opened' = opened
    BY <1>1, <2>1 DEF HandoffOpensItsRun
  <2>2. CASE /\ opened' = opened \cup {<<l, token, path>>}
             /\ l \in Runs /\ Authorized(l, token, path)
    <3>1. token = TokenOf(l) /\ \E p \in HandoffRoutes : IsPrefix(p, path)
      BY <2>2, AuthorizedIsOwn DEF CallSidecar
    <3> QED BY <1>1, <2>2, <3>1 DEF HandoffOpensItsRun
  <2> QED BY <1>3, <2>1, <2>2
<1>5. CallsAreCounted' /\ RunsSame
  BY <1>1 DEF CallSidecar, CallsAreCounted
<1> QED BY <1>2, <1>4, <1>5, Serving DEF HandoffInv

-----------------------------------------------------------------------------
(* The theorems.                                                             *)

LEMMA HandoffStepInv == HandoffInv /\ [HandoffNext]_handoffVars => HandoffInv'
<1> SUFFICES ASSUME HandoffInv, [HandoffNext]_handoffVars PROVE HandoffInv'
  OBVIOUS
<1>1. CASE UNCHANGED handoffVars
  <2>1. CallsSame /\ RunsSame
    BY <1>1 DEF handoffVars, CallsSame, RunsSame
  <2> QED BY <2>1, Calling, Serving DEF HandoffInv
<1>2. CASE \E r \in Runs : \/ PublishHandoff(r) \/ LoadToWithdraw(r) \/ RemoveHandoff(r)
                           \/ StopRun(r) \/ \E p \in RunPorts : StartRun(r, p)
  BY <1>2, SidecarInv
<1>3. CASE \E p \in RunPorts : StrangerListens(p)
  BY <1>3, StrangerInv
<1>4. CASE LoadHandoff \/ ProbeHealth \/ \E path \in AskedPaths : CallSidecar(path)
  BY <1>4, LoadInv, ProbeInv, CallInv
<1> QED BY <1>1, <1>2, <1>3, <1>4 DEF HandoffNext

LEMMA HandoffInductive == HandoffSpec => []HandoffInv
  BY HandoffInitInv, HandoffStepInv, PTL DEF HandoffSpec

\* Every variable of the handoff keeps its type, however runs overlap.
THEOREM HandoffTypeCorrect == HandoffSpec => []HandoffTypeOK
  BY HandoffInvTyped, HandoffInductive, PTL

\* A token of the handoff file opens the routes of its own run alone, and only
\* those under its prefixes, whatever listens on the port by the time it is used
\* (authorize of handoff.rs).
THEOREM HandoffIsConfined == HandoffSpec => []HandoffOpensItsRun
<1>1. HandoffInv => HandoffOpensItsRun
  BY DEF HandoffInv
<1> QED BY <1>1, HandoffInductive, PTL

(*****************************************************************************)
(* PeerProof.                                                                *)
(*****************************************************************************)

Asking == [at : {"idle", "probe", "proven", "unproven", "send"},
           port : ProofPorts \cup {NoListener},
           token : Bearers \cup {NoListener}, since : 0..MaxClock]
Entries == [port : ProofPorts, token : Bearers, at : 0..MaxClock]

\* The time of a proof is in the past.
PastProofs == \A p \in ProofPorts, b \in Bearers :
    proved[p][b] # Never_sp => proved[p][b] <= clock_sp
\* A client that is not idle asks a port for a bearer.
Busy(c) == asker[c].at # "idle" =>
    asker[c].port \in ProofPorts /\ asker[c].token \in Bearers /\ asker[c].since <= clock_sp
\* A probe has not gone on for longer than it may.
ShortProbe(c) == asker[c].at \in {"probe", "proven"} =>
    clock_sp <= asker[c].since + ProbeTime
\* What it proved, it proved since it began.
FreshProof(c) == asker[c].at = "proven" =>
    /\ proved[asker[c].port][asker[c].token] # Never_sp
    /\ asker[c].since <= proved[asker[c].port][asker[c].token]
ProvedBearer(c) == asker[c].at = "send" =>
    /\ proved[asker[c].port][asker[c].token] # Never_sp
    /\ asker[c].since < proved[asker[c].port][asker[c].token] + Ttl + ProbeTime
ClientOK(c) == Busy(c) /\ ShortProbe(c) /\ FreshProof(c) /\ ProvedBearer(c)
\* A remembered proof was given, at most one probe before it was remembered.
CacheOK == proofCache # NoProof =>
    /\ proved[proofCache.port][proofCache.token] # Never_sp
    /\ proofCache.at <= proved[proofCache.port][proofCache.token] + ProbeTime
    /\ proofCache.at <= clock_sp
PeerInv == ProofTypeOK /\ PastProofs /\ CacheOK /\ \A c \in ProofClients : ClientOK(c)

LEMMA NoProofIsNone == NoProof \notin Entries
  BY ProofAssumption DEF NoProof, Entries
LEMMA NeverIsLater == Never_sp \in Nat /\ Never_sp \notin 0..MaxClock
  BY ProofAssumption DEF Never_sp

LEMMA PeerInitInv == ProofInit => PeerInv
<1> SUFFICES ASSUME ProofInit PROVE PeerInv
  OBVIOUS
<1>1. ProofTypeOK
  BY ProofAssumption DEF ProofInit, ProofTypeOK, NoProof, Quiet, Never_sp
<1>2. PastProofs /\ CacheOK
  BY DEF ProofInit, PastProofs, CacheOK
<1>3. ASSUME NEW c \in ProofClients PROVE ClientOK(c)
  BY DEF ProofInit, ClientOK, Busy, ShortProbe, FreshProof, ProvedBearer, Quiet
<1> QED BY <1>1, <1>2, <1>3 DEF PeerInv

\* A client that stays as it is stays sound while no proof is forgotten or grows
\* older, and the time does not move.
LEMMA ClientStays ==
  ASSUME ProofTypeOK, ProofTypeOK', NEW c \in ProofClients, ClientOK(c),
         asker'[c] = asker[c], clock_sp' = clock_sp,
         \A p \in ProofPorts, b \in Bearers : proved[p][b] # Never_sp =>
             proved'[p][b] # Never_sp /\ proved[p][b] <= proved'[p][b]
  PROVE  ClientOK(c)'
<1> DEFINE p == asker[c].port
           b == asker[c].token
<1>1. Busy(c)' /\ ShortProbe(c)'
  BY DEF ClientOK, Busy, ShortProbe
<1>2. asker[c].at # "idle" => p \in ProofPorts /\ b \in Bearers
  BY DEF ClientOK, Busy
<1>3. asker[c].since \in Nat
  BY ProofAssumption DEF ProofTypeOK
<1>4. asker[c].at # "idle" => proved[p][b] \in Nat /\ proved'[p][b] \in Nat
  BY <1>2, NeverIsLater DEF ProofTypeOK
<1>5. FreshProof(c)'
  BY <1>2, <1>3, <1>4 DEF ClientOK, FreshProof
<1>6. ProvedBearer(c)'
  BY <1>2, <1>3, <1>4, ProofAssumption DEF ClientOK, ProvedBearer
<1> QED BY <1>1, <1>5, <1>6 DEF ClientOK

LEMMA CacheStays ==
  ASSUME ProofTypeOK, ProofTypeOK', CacheOK, proofCache' = proofCache, clock_sp' = clock_sp,
         \A p \in ProofPorts, b \in Bearers : proved[p][b] # Never_sp =>
             proved'[p][b] # Never_sp /\ proved[p][b] <= proved'[p][b]
  PROVE  CacheOK'
<1> SUFFICES ASSUME proofCache # NoProof PROVE CacheOK'
  BY DEF CacheOK, NoProof
<1> DEFINE p == proofCache.port
           b == proofCache.token
<1>1. p \in ProofPorts /\ b \in Bearers /\ proofCache.at \in Nat
  BY ProofAssumption DEF ProofTypeOK
<1>2. proved[p][b] \in Nat /\ proved'[p][b] \in Nat
  BY <1>1, NeverIsLater DEF ProofTypeOK
<1> QED BY <1>1, <1>2, ProofAssumption DEF CacheOK

\* Steps that leave the time and the proofs alone, but for one client.
LEMMA OthersStay ==
  ASSUME PeerInv, ProofTypeOK', NEW c \in ProofClients, clock_sp' = clock_sp, proved' = proved,
         \A d \in ProofClients \ {c} : asker'[d] = asker[d],
         CacheOK', ClientOK(c)'
  PROVE  PeerInv'
<1>1. \A p \in ProofPorts, b \in Bearers : proved[p][b] # Never_sp =>
        proved'[p][b] # Never_sp /\ proved[p][b] <= proved'[p][b]
  BY NeverIsLater DEF PeerInv, ProofTypeOK
<1>2. ASSUME NEW d \in ProofClients PROVE ClientOK(d)'
  <2>1. CASE d = c
    BY <2>1
  <2>2. CASE d # c
    BY <2>2, <1>1, ClientStays DEF PeerInv
  <2> QED BY <2>1, <2>2
<1>3. PastProofs'
  BY DEF PeerInv, PastProofs
<1> QED BY <1>2, <1>3 DEF PeerInv

LEMMA AskInv ==
  ASSUME PeerInv, NEW c \in ProofClients, NEW p \in ProofPorts, NEW b \in Bearers, Ask(c, p, b)
  PROVE  PeerInv'
<1> DEFINE next == [at |-> IF IsFresh(p, b) THEN "send" ELSE "probe", port |-> p, token |-> b,
                    since |-> clock_sp]
<1>1. ProofTypeOK
  BY DEF PeerInv
<1>2. next \in Asking
  BY <1>1 DEF ProofTypeOK, Asking
<1>3. asker' = [asker EXCEPT ![c] = next] /\ UNCHANGED <<holder, proofCache, proved, clock_sp>>
      /\ asks < MaxAsks /\ asks' = asks + 1
  BY DEF Ask
<1>4. asker' \in [ProofClients -> Asking]
  BY <1>1, <1>2, <1>3 DEF ProofTypeOK, Asking
<1>5. ProofTypeOK'
  BY <1>1, <1>3, <1>4, ProofAssumption DEF ProofTypeOK, Asking
<1>6. asker'[c] = next
  BY <1>1, <1>3 DEF ProofTypeOK
<1>7. CacheOK'
  BY <1>3 DEF PeerInv, CacheOK, NoProof
<1>8. Busy(c)' /\ ShortProbe(c)' /\ FreshProof(c)'
  BY <1>1, <1>3, <1>6, ProofAssumption DEF Busy, ShortProbe, FreshProof, ProofTypeOK
<1>9. ProvedBearer(c)'
  <2> SUFFICES ASSUME IsFresh(p, b)
               PROVE  proved[p][b] # Never_sp /\ clock_sp < proved[p][b] + Ttl + ProbeTime
    BY <1>3, <1>6 DEF ProvedBearer
  <2>1. proofCache # NoProof
    BY ProofAssumption DEF IsFresh, NoProof
  <2>2. /\ proved[p][b] # Never_sp /\ proofCache.at <= proved[p][b] + ProbeTime
        /\ clock_sp - proofCache.at < Ttl
    BY <2>1 DEF PeerInv, CacheOK, IsFresh
  <2>3. proofCache.at \in Nat /\ proved[p][b] \in Nat /\ clock_sp \in Nat
    BY <1>1, <2>1, NeverIsLater DEF ProofTypeOK
  <2> QED BY <2>2, <2>3, ProofAssumption
<1>10. ClientOK(c)'
  BY <1>8, <1>9 DEF ClientOK
<1> QED BY <1>1, <1>3, <1>5, <1>7, <1>10, OthersStay DEF ProofTypeOK

\* The answer of the listener: a proof is as old as the clock.
LEMMA ChallengeInv ==
  ASSUME PeerInv, NEW c \in ProofClients, Challenge(c)
  PROVE  PeerInv'
<1> DEFINE p == asker[c].port
           b == asker[c].token
<1>1. ProofTypeOK /\ PastProofs /\ CacheOK /\ \A d \in ProofClients : ClientOK(d)
  BY DEF PeerInv
<1>2. asker[c].at = "probe" /\ UNCHANGED <<holder, proofCache, clock_sp, asks>>
  BY DEF Challenge
<1>3. p \in ProofPorts /\ b \in Bearers /\ asker[c].since <= clock_sp
      /\ clock_sp <= asker[c].since + ProbeTime
  BY <1>1, <1>2 DEF ClientOK, Busy, ShortProbe
<1>4. PICK answer : /\ Becomes(c, IF answer = "Proven" THEN "proven" ELSE "unproven")
                    /\ proved' = IF answer = "Proven" THEN [proved EXCEPT ![p][b] = clock_sp]
                                 ELSE proved
  BY DEF Challenge
<1>5. clock_sp \in 0..MaxClock /\ clock_sp \in 0..Never_sp /\ clock_sp # Never_sp
  BY <1>1, ProofAssumption DEF ProofTypeOK, Never_sp
<1>6. asker' \in [ProofClients -> Asking]
  BY <1>1, <1>4 DEF ProofTypeOK, Becomes, Asking
<1>7. proved' \in [ProofPorts -> [Bearers -> 0..Never_sp]]
  BY <1>1, <1>3, <1>4, <1>5 DEF ProofTypeOK
<1>8. ProofTypeOK'
  BY <1>1, <1>2, <1>6, <1>7 DEF ProofTypeOK, Asking, NoProof, Never_sp
<1>9. \A q \in ProofPorts, a \in Bearers : proved[q][a] # Never_sp =>
        proved'[q][a] # Never_sp /\ proved[q][a] <= proved'[q][a]
  <2> SUFFICES ASSUME NEW q \in ProofPorts, NEW a \in Bearers, proved[q][a] # Never_sp
               PROVE  proved'[q][a] # Never_sp /\ proved[q][a] <= proved'[q][a]
    OBVIOUS
  <2>1. proved[q][a] \in Nat /\ proved[q][a] <= clock_sp
    BY <1>1, NeverIsLater DEF ProofTypeOK, PastProofs
  <2>2. proved'[q][a] = proved[q][a] \/ proved'[q][a] = clock_sp
    BY <1>1, <1>3, <1>4 DEF ProofTypeOK
  <2> QED BY <2>1, <2>2, <1>5
<1>10. PastProofs'
  <2> SUFFICES ASSUME NEW q \in ProofPorts, NEW a \in Bearers, proved'[q][a] # Never_sp
               PROVE  proved'[q][a] <= clock_sp
    BY <1>2 DEF PastProofs, Never_sp
  <2>1. proved'[q][a] = proved[q][a] \/ proved'[q][a] = clock_sp
    BY <1>1, <1>3, <1>4 DEF ProofTypeOK
  <2> QED BY <2>1, <1>1, <1>5 DEF PastProofs
<1>11. CacheOK'
  BY <1>1, <1>2, <1>8, <1>9, CacheStays
<1>12. ClientOK(c)'
  <2>1. asker'[c] = [asker[c] EXCEPT !.at = IF answer = "Proven" THEN "proven" ELSE "unproven"]
    BY <1>1, <1>4 DEF Becomes, ProofTypeOK
  <2>2. asker[c] \in Asking
    BY <1>1 DEF ProofTypeOK, Asking
  <2>3. /\ asker'[c].at = (IF answer = "Proven" THEN "proven" ELSE "unproven")
        /\ asker'[c].port = p /\ asker'[c].token = b /\ asker'[c].since = asker[c].since
    BY <2>1, <2>2 DEF Asking
  <2>4. Busy(c)' /\ ShortProbe(c)' /\ ProvedBearer(c)'
    BY <1>2, <1>3, <2>3 DEF Busy, ShortProbe, ProvedBearer
  <2>5. answer = "Proven" => proved'[p][b] = clock_sp
    BY <1>1, <1>3, <1>4 DEF ProofTypeOK
  <2>6. FreshProof(c)'
    BY <1>3, <1>5, <2>3, <2>5 DEF FreshProof, Never_sp
  <2> QED BY <2>4, <2>6 DEF ClientOK
<1>13. ASSUME NEW d \in ProofClients, d # c PROVE ClientOK(d)'
  <2>1. asker'[d] = asker[d]
    BY <1>1, <1>4, <1>13 DEF Becomes, ProofTypeOK
  <2> QED BY <1>1, <1>2, <1>8, <1>9, <2>1, ClientStays
<1> QED BY <1>8, <1>10, <1>11, <1>12, <1>13 DEF PeerInv

LEMMA RememberInv ==
  ASSUME PeerInv, NEW c \in ProofClients, Remember(c)
  PROVE  PeerInv'
<1> DEFINE p == asker[c].port
           b == asker[c].token
<1>1. ProofTypeOK /\ CacheOK /\ ClientOK(c)
  BY DEF PeerInv
<1>2. /\ asker[c].at = "proven" /\ UNCHANGED <<holder, proved, clock_sp, asks>>
      /\ proofCache' = [port |-> p, token |-> b, at |-> clock_sp]
  BY DEF Remember
<1>3. p \in ProofPorts /\ b \in Bearers /\ proved[p][b] # Never_sp
      /\ asker[c].since <= proved[p][b] /\ clock_sp <= asker[c].since + ProbeTime
  BY <1>1, <1>2 DEF ClientOK, Busy, ShortProbe, FreshProof
<1>4. proved[p][b] \in Nat /\ asker[c].since \in Nat /\ clock_sp \in 0..MaxClock
  BY <1>1, <1>3, NeverIsLater DEF ProofTypeOK
<1>5. asker' \in [ProofClients -> Asking]
  BY <1>1, ZenonT(60) DEF ProofTypeOK, Remember, Asking
<1>6. ProofTypeOK'
  BY <1>1, <1>2, <1>3, <1>4, <1>5 DEF ProofTypeOK, Asking, Never_sp, NoProof
<1>7. clock_sp <= proved[p][b] + ProbeTime /\ clock_sp < proved[p][b] + Ttl + ProbeTime
  BY <1>3, <1>4, ProofAssumption
<1>8. CacheOK'
  BY <1>2, <1>3, <1>4, <1>7 DEF CacheOK, Never_sp
<1>9. /\ asker'[c].at = "send" /\ asker'[c].port = p /\ asker'[c].token = b
      /\ asker'[c].since = clock_sp
  BY <1>1 DEF Remember, ProofTypeOK
<1>10. ClientOK(c)'
  BY <1>2, <1>3, <1>4, <1>7, <1>9
     DEF ClientOK, Busy, ShortProbe, FreshProof, ProvedBearer, Never_sp
<1>11. \A d \in ProofClients \ {c} : asker'[d] = asker[d]
  BY <1>1 DEF Remember, ProofTypeOK
<1> QED BY <1>2, <1>6, <1>8, <1>10, <1>11, OthersStay

\* A client that gives up or is done, whatever it leaves in the cache.
LEMMA QuietInv ==
  ASSUME PeerInv, NEW c \in ProofClients, asker' = [asker EXCEPT ![c] = Quiet],
         proofCache' \in {proofCache, NoProof}, UNCHANGED <<holder, proved, clock_sp, asks>>
  PROVE  PeerInv'
<1>1. ProofTypeOK /\ CacheOK
  BY DEF PeerInv
<1>2. Quiet \in Asking
  BY ProofAssumption DEF Quiet, Asking
<1>3. asker' \in [ProofClients -> Asking]
  BY <1>1, <1>2 DEF ProofTypeOK, Asking
<1>4. ProofTypeOK'
  BY <1>1, <1>3 DEF ProofTypeOK, Asking, Never_sp, NoProof
<1>5. CacheOK'
  BY <1>1 DEF CacheOK, NoProof, Never_sp
<1>6. asker'[c] = Quiet
  BY <1>1 DEF ProofTypeOK
<1>7. ClientOK(c)'
  BY <1>6 DEF ClientOK, Busy, ShortProbe, FreshProof, ProvedBearer, Quiet
<1>8. \A d \in ProofClients \ {c} : asker'[d] = asker[d]
  BY <1>1 DEF ProofTypeOK
<1> QED BY <1>4, <1>5, <1>7, <1>8, OthersStay

\* Time passes: a probe still lasts no longer than it may.
LEMMA TickInv == ASSUME PeerInv, TickProof PROVE PeerInv'
<1>1. ProofTypeOK /\ PastProofs /\ CacheOK /\ \A c \in ProofClients : ClientOK(c)
  BY DEF PeerInv
<1>2. /\ clock_sp \in 0..MaxClock /\ clock_sp < MaxClock /\ clock_sp' = clock_sp + 1
      /\ UNCHANGED <<holder, proofCache, asker, proved, asks>>
  BY <1>1 DEF TickProof, ProofTypeOK
<1>3. ProofTypeOK'
  BY <1>1, <1>2, ProofAssumption DEF ProofTypeOK, Never_sp, NoProof
<1>4. PastProofs'
  BY <1>1, <1>2, NeverIsLater DEF ProofTypeOK, PastProofs
<1>5. CacheOK'
  <2> SUFFICES ASSUME proofCache # NoProof PROVE proofCache.at <= clock_sp + 1
    BY <1>1, <1>2 DEF CacheOK, NoProof, Never_sp
  <2>1. proofCache.at \in Nat
    BY <1>1 DEF ProofTypeOK
  <2> QED BY <1>1, <1>2, <2>1 DEF CacheOK
<1>6. ASSUME NEW c \in ProofClients PROVE ClientOK(c)'
  <2>1. asker[c].since \in Nat
    BY <1>1 DEF ProofTypeOK
  <2>2. Busy(c)'
    BY <1>1, <1>2, <2>1 DEF ClientOK, Busy
  <2>3. ShortProbe(c)'
    BY <1>2, <2>1, ProofAssumption DEF ShortProbe, TickProof
  <2>4. FreshProof(c)' /\ ProvedBearer(c)'
    BY <1>1, <1>2 DEF ClientOK, FreshProof, ProvedBearer, Never_sp
  <2> QED BY <2>2, <2>3, <2>4 DEF ClientOK
<1> QED BY <1>3, <1>4, <1>5, <1>6 DEF PeerInv

LEMMA RebindInv ==
  ASSUME PeerInv, NEW p \in ProofPorts, NEW h \in Bearers \cup {NoListener, Impostor}, Rebind(p, h)
  PROVE  PeerInv'
<1>1. holder' \in [ProofPorts -> Bearers \cup {NoListener, Impostor}]
  BY DEF PeerInv, ProofTypeOK, Rebind
<1> QED BY <1>1 DEF Rebind, PeerInv, ProofTypeOK, PastProofs, CacheOK, ClientOK, Busy, ShortProbe,
                    FreshProof, ProvedBearer, Never_sp, NoProof

LEMMA PeerNextInv == PeerInv /\ [ProofNext]_proofVars => PeerInv'
<1> SUFFICES ASSUME PeerInv, [ProofNext]_proofVars PROVE PeerInv'
  OBVIOUS
<1>1. ASSUME NEW c \in ProofClients, Forget(c) PROVE PeerInv'
  BY <1>1, QuietInv DEF Forget
<1>2. ASSUME NEW c \in ProofClients, SendBearer(c) PROVE PeerInv'
  BY <1>2, QuietInv DEF SendBearer
<1>3. CASE UNCHANGED proofVars
  BY <1>3 DEF proofVars, PeerInv, ProofTypeOK, PastProofs, CacheOK, ClientOK, Busy, ShortProbe,
              FreshProof, ProvedBearer, Never_sp, NoProof
<1> QED BY <1>1, <1>2, <1>3, AskInv, ChallengeInv, RememberInv, TickInv, RebindInv
        DEF ProofNext

\* Every variable of PeerProof keeps its type.
THEOREM ProofTypeCorrect == ProofSpec => []ProofTypeOK
<1>1. PeerInv => ProofTypeOK
  BY DEF PeerInv
<1> QED BY <1>1, PeerInitInv, PeerNextInv, PTL DEF ProofSpec

\* Nobody sends a bearer to a port that no proof of this very bearer came from within
\* the time to live and one probe, however clients share and replace the one
\* remembered proof while ports and tokens change (peer_holds_token).
THEOREM BearersAreProved == ProofSpec => []BearerIsProved
<1>1. PeerInv => BearerIsProved
  BY DEF PeerInv, ClientOK, ProvedBearer, BearerIsProved
<1> QED BY <1>1, PeerInitInv, PeerNextInv, PTL DEF ProofSpec
=============================================================================
