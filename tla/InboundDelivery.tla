--------------------------- MODULE InboundDelivery ---------------------------
(***************************************************************************)
(* Mail posted to an inbox: the signature's time window, the duplicate     *)
(* checks before and inside the transaction that stores the message, the   *)
(* replay tombstones and their pruning, deletions, restarts, and a clock   *)
(* that is corrected.                                                      *)
(*                                                                         *)
(* One step is one critical section of the store's connection lock, or one *)
(* stretch of the handler `inbound` between two awaits.                    *)
(***************************************************************************)
EXTENDS Integers

CONSTANTS
  Mails,      \* raw MIME bodies
  MessageId,  \* [Mails -> ids \cup {NoId}]: the Message-ID header
  NoId,       \* no usable header: the parser then makes up a fresh id
  Stamps,     \* X-Ryu-Timestamp values relays sign
  NoStamp,    \* the older signature over the body alone
  NoTomb,     \* no tombstone row
  NoPost,     \* an idle handler has no post
  Handlers,   \* concurrent posts
  Tolerance,  \* seconds a timestamp may be off, either way (300)
  Retention,  \* seconds a tombstone is kept (86 400)
  MaxSkew,    \* bound: how far the clock is ever set back
  MaxHold,    \* bound: clock ticks between a post's arrival and its answer
  MaxTime,    \* bound: the clock runs from 0 to MaxTime
  MaxFaults   \* bound: restarts and failing store calls in a behaviour

ASSUME MessageIdIsFunction == MessageId = [m \in Mails |-> MessageId[m]]
ASSUME StampsAreTimes == Stamps \subseteq Nat
ASSUME NoValues == NoStamp \notin Nat /\ NoTomb \notin Int
ASSUME TimeBounds ==
  {Tolerance, Retention, MaxSkew, MaxHold, MaxTime, MaxFaults} \subseteq Nat

\* The program asserts Retention > 2 * Tolerance at compile time. What is left
\* of the day must cover the corrections of the clock and the slowest post.
ASSUME RetentionCovers ==
  Retention >= 2 * Tolerance + 2 * MaxSkew + MaxHold

VARIABLES
  \* the inbox row, its messages and the tombstone table
  inbox,        \* the inbox exists
  stampNeeded,  \* its require_timestamp
  live,         \* [Mails -> Nat]: stored inbound messages with that raw body
  tombs,        \* [Signed -> Int \cup {NoTomb}]: seen_at of the tombstone
  unfinished,   \* tombstones of an earlier version, with no message id
  \* volatile state of the handlers
  pc,           \* [Handlers -> PCs]
  req,          \* [Handlers -> Deliveries \cup {NoPost}]: the post in hand
  seenAt,       \* [Handlers -> Int]: the clock it read for its tombstone
  since,        \* [Handlers -> Nat]: `high` when its signature was verified
  \* environment
  clock,        \* the receiver's wall clock
  high,         \* the latest time the clock has shown
  faults,
  \* history, for the properties only
  stores,       \* [Signed -> Nat]: messages stored from that delivery
  everStored,   \* mails that were stored at some time
  answered      \* deliveries answered with 200

rows     == <<inbox, stampNeeded, live, tombs, unfinished>>
handlers == <<pc, req, seenAt, since>>
world    == <<clock, high, faults>>
history  == <<stores, everStored, answered>>
vars     == <<rows, handlers, world, history>>

-----------------------------------------------------------------------------
(* Values                                                                  *)

\* A post is a mail and how it was signed. The digest of a signed post, the
\* key of its tombstone, is the post itself.
Deliveries == [mail : Mails, at : Stamps \cup {NoStamp}]
Signed     == [mail : Mails, at : Stamps]

\* Program points of `inbound` between two awaits:
\*   policy  the signature is verified; the sender lists and the Message-ID
\*           have not been looked up
\*   insert  no duplicate was found; insert_inbound_message has not run
\*   event   the message is stored; the event is not recorded
PCs == {"idle", "policy", "insert", "event"}

\* verify_inbound_signature's window.
InWindow(t) == clock - t <= Tolerance /\ t - clock <= Tolerance

\* find_inbound_by_message_id: a stored message has the post's Message-ID.
SameId(m, n) == MessageId[m] # NoId /\ MessageId[m] = MessageId[n]
Known(m) == \E n \in Mails : live[n] > 0 /\ SameId(m, n)

\* claim_inbound_tombstone prunes with the clock of the post that claims.
\* Mutant: the retention is measured as the window is.
PrunedEarly(s) ==
  [d \in Signed |-> IF tombs[d] # NoTomb /\ tombs[d] < s - Tolerance
                    THEN NoTomb ELSE tombs[d]]
Pruned(s) ==
  [d \in Signed |-> IF tombs[d] # NoTomb /\ tombs[d] < s - Retention
                    THEN NoTomb ELSE tombs[d]]

\* The upsert finds a finished row: the delivery is a replay.
\* Mutant: a claim whose message was never stored counts.
ReplayedUnfinished(d, s) == d \in Signed /\ Pruned(s)[d] # NoTomb
Replayed(d, s) == d \in Signed /\ Pruned(s)[d] # NoTomb /\ d \notin unfinished

-----------------------------------------------------------------------------
(* The handler `inbound`                                                   *)

Finish(h) ==
  /\ pc' = [pc EXCEPT ![h] = "idle"]
  /\ req' = [req EXCEPT ![h] = NoPost]
  /\ seenAt' = [seenAt EXCEPT ![h] = 0]
  /\ since' = [since EXCEPT ![h] = 0]

Answer(h) ==
  /\ Finish(h)
  /\ answered' = answered \cup {req[h]}

\* get_inbox and the signature check. A refused post leaves no trace.
Receive(h, d) ==
  /\ pc[h] = "idle"
  /\ inbox
  /\ IF d.at = NoStamp THEN ~stampNeeded ELSE InWindow(d.at)
  /\ pc' = [pc EXCEPT ![h] = "policy"]
  /\ req' = [req EXCEPT ![h] = d]
  /\ since' = [since EXCEPT ![h] = high]
  /\ UNCHANGED <<rows, seenAt, world, history>>

\* Unparseable, a blocked sender, or the lists could not be read.
Refused(h) ==
  /\ pc[h] = "policy"
  /\ Finish(h)
  /\ UNCHANGED <<rows, world, history>>

KnownMessageId(h) ==
  /\ pc[h] = "policy"
  /\ Known(req[h].mail)
  /\ Answer(h)
  /\ UNCHANGED <<rows, world, stores, everStored>>

\* No stored message has the Message-ID, or the lookup failed, which the
\* handler takes for the same. The clock is read again.
NewMessageId(h) ==
  /\ pc[h] = "policy"
  /\ IF Known(req[h].mail)
     THEN faults < MaxFaults /\ faults' = faults + 1
     ELSE UNCHANGED faults
  /\ pc' = [pc EXCEPT ![h] = "insert"]
  /\ seenAt' = [seenAt EXCEPT ![h] = clock]
  /\ UNCHANGED <<rows, req, since, clock, high, history>>

-----------------------------------------------------------------------------
(* insert_inbound_message: one transaction under the connection lock       *)

\* A byte-identical message or a finished tombstone: nothing is written, the
\* pruning included.
InsertDuplicate(h) ==
  /\ pc[h] = "insert"
  /\ live[req[h].mail] > 0 \/ Replayed(req[h], seenAt[h])
  /\ Answer(h)
  /\ UNCHANGED <<rows, world, stores, everStored>>

\* Tombstone and message commit together. A tombstone without a message id
\* is taken over.
Commit(h) ==
  LET d == req[h]
  IN  /\ live' = [live EXCEPT ![d.mail] = @ + 1]
      /\ IF d \in Signed
         THEN /\ tombs' = [Pruned(seenAt[h]) EXCEPT ![d] = seenAt[h]]
              /\ unfinished' = unfinished \ {d}
              /\ stores' = [stores EXCEPT ![d] = @ + 1]
         ELSE UNCHANGED <<tombs, unfinished, stores>>
      /\ everStored' = everStored \cup {d.mail}
      /\ pc' = [pc EXCEPT ![h] = "event"]
      /\ UNCHANGED <<inbox, stampNeeded, req, seenAt, since, world, answered>>

\* Mutant of InsertStores: no check for a byte-identical message.
InsertStoresCopy(h) ==
  /\ pc[h] = "insert"
  /\ inbox /\ ~Replayed(req[h], seenAt[h])
  /\ Commit(h)

\* The inbox exists, no stored message has these bytes, no replay.
InsertStores(h) ==
  /\ pc[h] = "insert"
  /\ inbox /\ live[req[h].mail] = 0 /\ ~Replayed(req[h], seenAt[h])
  /\ Commit(h)

\* The inbox is gone, a blob cannot be written, or a statement fails: the
\* transaction rolls back and the sender gets a 500.
InsertFails(h) ==
  /\ pc[h] = "insert"
  /\ IF inbox THEN faults < MaxFaults /\ faults' = faults + 1
              ELSE UNCHANGED faults
  /\ Finish(h)
  /\ UNCHANGED <<rows, clock, high, history>>

\* record_event, whose failures are only logged, then the 200.
RecordEvent(h) ==
  /\ pc[h] = "event"
  /\ Answer(h)
  /\ UNCHANGED <<rows, world, stores, everStored>>

-----------------------------------------------------------------------------
(* The owner                                                               *)

\* Mutant of DeleteMessage: the row count of the DELETE is not looked at.
DeleteMessageBlind(m) ==
  /\ live' = [live EXCEPT ![m] = @ - 1]
  /\ UNCHANGED <<inbox, stampNeeded, tombs, unfinished, handlers, world, history>>

\* The tombstone stays.
DeleteMessage(m) ==
  /\ live[m] > 0
  /\ live' = [live EXCEPT ![m] = @ - 1]
  /\ UNCHANGED <<inbox, stampNeeded, tombs, unfinished, handlers, world, history>>

\* The messages go with the inbox, the tombstones have no foreign key.
DeleteInbox ==
  /\ inbox
  /\ inbox' = FALSE
  /\ live' = [m \in Mails |-> 0]
  /\ UNCHANGED <<stampNeeded, tombs, unfinished, handlers, world, history>>

\* update_inbox with require_timestamp.
RequireTimestamp ==
  /\ inbox
  /\ stampNeeded' = ~stampNeeded
  /\ UNCHANGED <<inbox, live, tombs, unfinished, handlers, world, history>>

-----------------------------------------------------------------------------
(* Environment                                                             *)

\* Time passes. No post takes longer than MaxHold.
Tick ==
  /\ clock < MaxTime
  /\ clock' = clock + 1
  /\ high' = IF clock' > high THEN clock' ELSE high
  /\ \A h \in Handlers : pc[h] # "idle" => high' <= since[h] + MaxHold
  /\ UNCHANGED <<rows, handlers, faults, history>>

\* The clock is set back.
Correct ==
  /\ clock > 0
  /\ clock - 1 >= high - MaxSkew
  /\ clock' = clock - 1
  /\ UNCHANGED <<rows, handlers, high, faults, history>>

Crash ==
  /\ faults < MaxFaults
  /\ faults' = faults + 1
  /\ pc' = [h \in Handlers |-> "idle"]
  /\ req' = [h \in Handlers |-> NoPost]
  /\ seenAt' = [h \in Handlers |-> 0]
  /\ since' = [h \in Handlers |-> 0]
  /\ UNCHANGED <<rows, clock, high, history>>

\* The relay goes away and the HTTP server drops the handler at an await.
Disconnect(h) ==
  /\ pc[h] # "idle"
  /\ Finish(h)
  /\ UNCHANGED <<rows, world, history>>

-----------------------------------------------------------------------------
(* Specification                                                           *)

\* A database of an earlier version may hold claims it never finished.
Init ==
  /\ inbox = TRUE
  /\ stampNeeded = FALSE
  /\ live = [m \in Mails |-> 0]
  /\ unfinished \in SUBSET Signed
  /\ tombs = [d \in Signed |-> IF d \in unfinished THEN 0 ELSE NoTomb]
  /\ pc = [h \in Handlers |-> "idle"]
  /\ req = [h \in Handlers |-> NoPost]
  /\ seenAt = [h \in Handlers |-> 0]
  /\ since = [h \in Handlers |-> 0]
  /\ clock = 0 /\ high = 0 /\ faults = 0
  /\ stores = [d \in Signed |-> 0]
  /\ everStored = {}
  /\ answered = {}

Post(h) ==
  \/ \E d \in Deliveries : Receive(h, d)
  \/ Refused(h) \/ KnownMessageId(h) \/ NewMessageId(h)
  \/ InsertDuplicate(h) \/ InsertStores(h) \/ InsertFails(h)
  \/ RecordEvent(h)
  \/ Disconnect(h)

Owner == (\E m \in Mails : DeleteMessage(m)) \/ DeleteInbox \/ RequireTimestamp

Next == (\E h \in Handlers : Post(h)) \/ Owner \/ Tick \/ Correct \/ Crash

Spec == Init /\ [][Next]_vars

-----------------------------------------------------------------------------
(* Properties                                                              *)

TypeOK ==
  /\ inbox \in BOOLEAN
  /\ stampNeeded \in BOOLEAN
  /\ live \in [Mails -> Nat]
  /\ tombs \in [Signed -> Int \cup {NoTomb}]
  /\ unfinished \in SUBSET Signed
  /\ pc \in [Handlers -> PCs]
  /\ req \in [Handlers -> Deliveries \cup {NoPost}]
  /\ seenAt \in [Handlers -> Int]
  /\ since \in [Handlers -> Nat]
  /\ clock \in Nat
  /\ high \in Nat
  /\ faults \in 0..MaxFaults
  /\ stores \in [Signed -> Nat]
  /\ everStored \in SUBSET Mails
  /\ answered \in SUBSET Deliveries

\* Concurrent copies of one mail store one message, signed with a timestamp
\* or not (store.rs: "concurrent copies of one delivery store exactly one
\* message"), and nothing is stored in an inbox that is gone ("a late inbound
\* delivery would resurrect an orphan message").
OneLiveCopy == \A m \in Mails : live[m] <= (IF inbox THEN 1 ELSE 0)

\* A timestamped delivery stores at most one message ever, though the message
\* is deleted in between, its tombstone is pruned, posts are slow and the
\* clock is set back (api.rs: "A timestamped delivery seen before is a replay
\* even when the message it stored has since been deleted").
ReplayStoresNothing == \A d \in Signed : stores[d] <= 1

\* A post is answered with success only if its mail, or one with the same
\* Message-ID, was stored: a crash or a failed insert leaves nothing that
\* would answer the sender's retry as a duplicate.
AnsweredWasStored ==
  \A d \in answered :
    d.mail \in everStored \/ \E m \in everStored : SameId(d.mail, m)
=============================================================================
