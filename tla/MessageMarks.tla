---------------------------- MODULE MessageMarks ----------------------------
(***************************************************************************)
(* What changes on a stored message after it was stored, and who changes   *)
(* it at the same time: pixel requests that record an open, label and read *)
(* updates of a message or of a whole thread, and the deletes of both      *)
(* (src/backend/src/api.rs over src/backend/src/store.rs).                 *)
(*                                                                         *)
(* Each store call takes the connection on its own.  A label update and an *)
(* open read the message in one call and write in another, so what they    *)
(* write may come from a row that changed in between.                      *)
(***************************************************************************)
EXTENDS Naturals, FiniteSets

CONSTANTS
  Messages,      \* message ids of one thread of one inbox
  Tracked,       \* the outbound messages whose stored HTML carries their pixel
  Labels,        \* labels requests add and remove
  Opened,        \* the label of an opened message
  ThreadLimit,   \* LIMIT of messages_for_thread
  Workers,       \* concurrent requests
  MaxMarks, MaxStoreFaults,   \* bounds: requests and failing store calls
  Gone, Never, Coming

ASSUME MarksBounds ==
  /\ Tracked \subseteq Messages /\ Opened \notin Labels
  /\ ThreadLimit \in Nat \ {0} /\ MaxMarks \in Nat /\ MaxStoreFaults \in Nat
  /\ IsFiniteSet(Messages) /\ Messages # {}

VARIABLES
  rowOf,    \* table messages: labels, read and opened_at; Coming before it arrives
  order,    \* created_at: the messages in the order they arrived, as ranks
  worker,   \* the requests in progress
  opens,    \* the message.opened events recorded: pairs of message and timestamp
  clock,    \* Utc::now(): one tick per request
  failed    \* store calls that failed so far

vars_mm == <<rowOf, order, worker, opens, clock, failed>>

AllLabels == Labels \cup {Opened}
MessageRow == [labels: SUBSET AllLabels, read: BOOLEAN, opened: (0..MaxMarks) \cup {Never}]

Kinds == {"open", "label", "thread label", "thread delete", "read", "delete"}

\* A missing message, one to come and the absence of a time are no values of a row.
ASSUME MarksAreDistinct ==
  /\ Gone # Coming /\ Gone \notin MessageRow /\ Coming \notin MessageRow
  /\ Never \notin 0..MaxMarks

\* `todo' is what is left of the thread listing, `copy' the row a write is made from.
Job == [kind: Kinds \cup {"none"}, stage: {"idle", "look", "copy", "write", "tell", "list", "each"},
        id: Messages, add: SUBSET Labels, drop: SUBSET Labels,
        listed: SUBSET Messages, todo: SUBSET Messages, copy: MessageRow \cup {Gone}, done: BOOLEAN]

MarksTypeOK ==
  /\ rowOf \in [Messages -> MessageRow \cup {Gone, Coming}]
  /\ order \in [Messages -> 0..Cardinality(Messages)]
  /\ worker \in [Workers -> Job]
  /\ opens \in SUBSET (Messages \X (0..MaxMarks))
  /\ clock \in 0..MaxMarks
  /\ failed \in 0..MaxStoreFaults

Live(m) == rowOf[m] \notin {Gone, Coming}
NewRow == [labels |-> {}, read |-> FALSE, opened |-> Never]
Free == [kind |-> "none", stage |-> "idle", id |-> CHOOSE m \in Messages : TRUE, add |-> {},
         drop |-> {}, listed |-> {}, todo |-> {}, copy |-> Gone, done |-> FALSE]

MarksInit ==
  /\ rowOf = [m \in Messages |-> Coming]
  /\ order = [m \in Messages |-> 0]
  /\ worker = [w \in Workers |-> Free]
  /\ opens = {}
  /\ clock = 0
  /\ failed = 0

Fails == failed < MaxStoreFaults /\ failed' = failed + 1

\* A mail of the thread is stored.
Store(m) ==
  /\ rowOf[m] = Coming
  /\ rowOf' = [rowOf EXCEPT ![m] = NewRow]
  /\ order' = [order EXCEPT ![m] = Cardinality({n \in Messages : rowOf[n] # Coming}) + 1]
  /\ UNCHANGED <<worker, opens, clock, failed>>

Serve(w, kind, stage, m, add, drop) ==
  /\ worker[w].stage = "idle" /\ ~worker[w].done
  /\ clock < MaxMarks /\ clock' = clock + 1
  /\ worker' = [worker EXCEPT ![w] = [Free EXCEPT !.kind = kind, !.stage = stage, !.id = m,
                                                  !.add = add, !.drop = drop]]
  /\ UNCHANGED <<rowOf, order, opens, failed>>

Start(w) ==
  \E m \in Messages :
    \/ Serve(w, "open", "look", m, {}, {})
    \/ Serve(w, "read", "look", m, {}, {})
    \/ Serve(w, "delete", "look", m, {}, {})
    \/ \E add, drop \in SUBSET Labels :
         /\ add \cup drop # {}
         /\ Serve(w, "label", "look", m, add, drop) \/ Serve(w, "thread label", "list", m, add, drop)
    \/ Serve(w, "thread delete", "list", m, {}, {})

End(w) == worker' = [worker EXCEPT ![w] = Free]
Goto(w, stage) == worker' = [worker EXCEPT ![w].stage = stage]

\* The first read of a request on one message: a missing message ends it, and so
\* does an open of a message that is not tracked or already opened.
Look(w) ==
  LET j == worker[w]  m == worker[w].id IN
  /\ j.stage = "look"
  /\ IF ~Live(m) \/ (j.kind = "open" /\ (m \notin Tracked \/ rowOf[m].opened # Never))
     THEN End(w)
     ELSE Goto(w, IF j.kind \in {"open", "label"} THEN "copy" ELSE "write")
  /\ UNCHANGED <<rowOf, order, opens, clock, failed>>

\* get_message inside mark_message_opened and update_message_labels.  An open that
\* finds the message opened by now goes on to tell of it.
Copy(w) ==
  LET j == worker[w]  m == worker[w].id IN
  /\ j.stage = "copy"
  /\ CASE ~Live(m) -> IF j.kind = "thread label" THEN Goto(w, "each") ELSE End(w)
       [] Live(m) /\ j.kind = "open" /\ rowOf[m].opened # Never ->
            worker' = [worker EXCEPT ![w].stage = "tell", ![w].copy = rowOf[m]]
       [] OTHER -> worker' = [worker EXCEPT ![w].stage = "write", ![w].copy = rowOf[m]]
  /\ UNCHANGED <<rowOf, order, opens, clock, failed>>

\* UPDATE messages SET opened_at, labels_json WHERE opened_at IS NULL.
WriteOpened(w) ==
  LET j == worker[w]  m == worker[w].id IN
  /\ j.stage = "write" /\ j.kind = "open"
  /\ \/ /\ rowOf' = IF Live(m) /\ rowOf[m].opened = Never
                    THEN [rowOf EXCEPT ![m] = [@ EXCEPT !.opened = clock,
                                                        !.labels = j.copy.labels \cup {Opened}]]
                    ELSE rowOf
        /\ Goto(w, "tell")
        /\ UNCHANGED failed
     \/ Fails /\ End(w) /\ UNCHANGED rowOf
  /\ UNCHANGED <<order, opens, clock>>

\* Mutant of TellOpened: the event carries the time of its own request.
TellOwnTime(w) ==
  LET j == worker[w]  m == worker[w].id IN
  /\ j.stage = "tell"
  /\ opens' = IF Live(m) /\ rowOf[m].opened # Never THEN opens \cup {<<m, clock>>} ELSE opens
  /\ End(w)
  /\ UNCHANGED <<rowOf, order, clock, failed>>

\* The row is read again and its own opened_at told: the event of an open.
TellOpened(w) ==
  LET j == worker[w]  m == worker[w].id IN
  /\ j.stage = "tell"
  /\ opens' = IF Live(m) /\ rowOf[m].opened # Never THEN opens \cup {<<m, rowOf[m].opened>>} ELSE opens
  /\ End(w)
  /\ UNCHANGED <<rowOf, order, clock, failed>>

\* UPDATE messages SET labels_json: all labels, from the copy.  A label update may
\* go on to set `read'; a thread update goes on with the next message.
WriteLabels(w) ==
  LET j == worker[w]  m == worker[w].id IN
  /\ j.stage = "write" /\ j.kind \in {"label", "thread label"}
  /\ \/ /\ rowOf' = IF Live(m)
                    THEN [rowOf EXCEPT ![m].labels = (j.copy.labels \cup j.add) \ j.drop]
                    ELSE rowOf
        /\ UNCHANGED failed
        /\ \/ j.kind = "thread label" /\ Goto(w, "each")
           \/ j.kind = "label" /\ End(w)
           \/ j.kind = "label" /\ worker' = [worker EXCEPT ![w].kind = "read"]
     \/ Fails /\ End(w) /\ UNCHANGED rowOf
  /\ UNCHANGED <<order, opens, clock>>

\* mark_message_read and delete_message of one message.
WriteRead(w) ==
  LET j == worker[w]  m == worker[w].id IN
  /\ j.stage = "write" /\ j.kind = "read"
  /\ rowOf' = IF Live(m) THEN [rowOf EXCEPT ![m].read = ~@] ELSE rowOf
  /\ End(w)
  /\ UNCHANGED <<order, opens, clock, failed>>

Delete(w) ==
  LET j == worker[w]  m == worker[w].id IN
  /\ j.stage = "write" /\ j.kind = "delete"
  /\ \/ /\ rowOf' = IF Live(m) THEN [rowOf EXCEPT ![m] = Gone] ELSE rowOf
        /\ UNCHANGED failed
     \/ Fails /\ UNCHANGED rowOf
  /\ End(w)
  /\ UNCHANGED <<order, opens, clock>>

\* messages_for_thread: the newest messages of the thread, at most ThreadLimit.
Thread == {m \in Messages : Live(m)}
Listing == {m \in Thread : Cardinality({n \in Thread : order[n] > order[m]}) < ThreadLimit}

ListThread(w) ==
  LET j == worker[w] IN
  /\ j.stage = "list"
  /\ IF Listing = {} THEN End(w)
     ELSE worker' = [worker EXCEPT ![w].stage = "each", ![w].listed = Listing, ![w].todo = Listing]
  /\ UNCHANGED <<rowOf, order, opens, clock, failed>>

\* The loop of update_thread and delete_thread over the listing, newest first.  An
\* error ends the request where it is.
Newest(set) == CHOOSE m \in set : \A n \in set : order[n] <= order[m]

Each(w) ==
  LET j == worker[w]  m == Newest(worker[w].todo) IN
  /\ j.stage = "each"
  /\ \/ /\ j.todo = {}
        /\ worker' = [worker EXCEPT ![w].stage = "idle", ![w].done = TRUE]
        /\ UNCHANGED <<rowOf, failed>>
     \/ /\ j.todo # {} /\ j.kind = "thread label"
        /\ worker' = [worker EXCEPT ![w].stage = "copy", ![w].id = m, ![w].todo = @ \ {m}]
        /\ UNCHANGED <<rowOf, failed>>
     \/ /\ j.todo # {} /\ j.kind = "thread delete"
        /\ \/ /\ rowOf' = IF Live(m) THEN [rowOf EXCEPT ![m] = Gone] ELSE rowOf
              /\ worker' = [worker EXCEPT ![w].todo = @ \ {m}]
              /\ UNCHANGED failed
           \/ Fails /\ End(w) /\ UNCHANGED rowOf
  /\ UNCHANGED <<order, opens, clock>>

MarksNext ==
  \/ \E m \in Messages : Store(m)
  \/ \E w \in Workers :
       Start(w) \/ Look(w) \/ Copy(w) \/ WriteOpened(w) \/ TellOpened(w) \/ WriteLabels(w)
       \/ WriteRead(w) \/ Delete(w) \/ ListThread(w) \/ Each(w)

MarksSpec == MarksInit /\ [][MarksNext]_vars_mm

(***************************************************************************)
(* Properties.                                                             *)
(***************************************************************************)
\* Pixel requests that overlap may each record a message.opened event, and then
\* every one of them carries the one time that the row keeps.
OpensAgree ==
  \A m \in Messages :
    /\ \A t, u \in 0..MaxMarks : <<m, t>> \in opens /\ <<m, u>> \in opens => t = u
    /\ \A t \in 0..MaxMarks : <<m, t>> \in opens /\ Live(m) => rowOf[m].opened = t

\* A thread delete that answered `ok' left none of the messages it listed, in
\* spite of the updates and deletes that ran beside it: one that failed half way
\* never answers so, and what a label update writes does not bring a row back.
DeletedThreadIsGone ==
  \A w \in Workers :
    worker[w].done /\ worker[w].kind = "thread delete" =>
      \A m \in worker[w].listed : rowOf[m] = Gone

\* Both: updates of a message that overlap never undo one another's stamp or
\* deletion (record_open, update_message_labels, delete_thread).
MarksHold == OpensAgree /\ DeletedThreadIsGone
=============================================================================
