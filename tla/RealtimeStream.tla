--------------------------- MODULE RealtimeStream ---------------------------
(***************************************************************************)
(* The realtime endpoint of src/backend/src/api.rs: handlers record events *)
(* in the log and publish them on a broadcast channel of bounded capacity, *)
(* and a task per WebSocket client forwards what the client subscribed to. *)
(*                                                                         *)
(* The channel is tokio's: it keeps the newest Capacity values, a receiver *)
(* that falls further behind is told so once and goes on at the oldest     *)
(* value that is left.                                                     *)
(***************************************************************************)
EXTENDS Naturals, Sequences, Selection

CONSTANTS
  Emitted,        \* event ids
  EventFilters,   \* the filters clients ask for: sets of events; the code's filter is by
                  \* type and inbox, and an empty list of either takes everything
  Clients,        \* WebSocket clients
  Capacity,       \* of the broadcast channel
  MaxFaultyStores, MaxRequestsSent,
  NoFilter        \* the subscription of a new client: every event

ASSUME StreamBounds ==
  /\ Capacity \in Nat \ {0} /\ MaxFaultyStores \in Nat /\ MaxRequestsSent \in Nat
  /\ EventFilters \subseteq SUBSET Emitted /\ NoFilter \notin EventFilters

VARIABLES
  stored,      \* table mail_events
  emitter,     \* how far record_event has come with each event
  published,   \* every value sent on the channel, in order
  client,      \* the stream tasks
  frames,      \* what each client was sent: subscriptions acknowledged and events
  lagged,      \* history: the client whose receiver lost values
  asked        \* store faults and subscription requests so far

vars_rs == <<stored, emitter, published, client, frames, lagged, asked>>

\* The values a new receiver starts after: those already published.
Client == [up: BOOLEAN, next: Nat, filter: EventFilters \cup {NoFilter}, since: Nat]
Frame == [kind: {"ack"}, filter: EventFilters \cup {NoFilter}] \cup [kind: {"event"}, id: Emitted]

StreamTypeOK ==
  /\ stored \in SUBSET Emitted
  /\ emitter \in [Emitted -> {"new", "stored", "over"}]
  /\ published \in Seq(Emitted)
  /\ client \in [Clients -> Client]
  /\ frames \in [Clients -> Seq(Frame)]
  /\ lagged \in SUBSET Clients
  /\ asked \in [faults: 0..MaxFaultyStores, filters: 0..MaxRequestsSent]

Ack(filter) == [kind |-> "ack", filter |-> filter]
EventFrame(e) == [kind |-> "event", id |-> e]

StreamInit ==
  /\ stored = {}
  /\ emitter = [e \in Emitted |-> "new"]
  /\ published = <<>>
  /\ client = [c \in Clients |-> [up |-> FALSE, next |-> 1, filter |-> NoFilter, since |-> 1]]
  /\ frames = [c \in Clients |-> <<>>]
  /\ lagged = {}
  /\ asked = [faults |-> 0, filters |-> 0]

\* record_event: the row first; an event whose row fails is not published.
StoreRow(e) ==
  /\ emitter[e] = "new"
  /\ \/ /\ stored' = stored \cup {e}
        /\ emitter' = [emitter EXCEPT ![e] = "stored"]
        /\ UNCHANGED asked
     \/ /\ asked.faults < MaxFaultyStores
        /\ asked' = [asked EXCEPT !.faults = @ + 1]
        /\ emitter' = [emitter EXCEPT ![e] = "over"]
        /\ UNCHANGED stored
  /\ UNCHANGED <<published, client, frames, lagged>>

\* publish_event: sending never waits and its result is not looked at.
Publish(e) ==
  /\ emitter[e] = "stored"
  /\ emitter' = [emitter EXCEPT ![e] = "over"]
  /\ published' = Append(published, e)
  /\ UNCHANGED <<stored, client, frames, lagged, asked>>

\* The upgrade: the receiver is made first, then the hello frame tells of the
\* open subscription.
Connect(c) ==
  /\ ~client[c].up /\ frames[c] = <<>>
  /\ client' = [client EXCEPT ![c] =
       [up |-> TRUE, next |-> Len(published) + 1, filter |-> NoFilter, since |-> Len(published) + 1]]
  /\ frames' = [frames EXCEPT ![c] = <<Ack(NoFilter)>>]
  /\ UNCHANGED <<stored, emitter, published, lagged, asked>>

\* A subscription request replaces the filter and is acknowledged, in one turn of
\* the task's loop.
Subscribe(c, filter) ==
  /\ client[c].up
  /\ asked.filters < MaxRequestsSent
  /\ asked' = [asked EXCEPT !.filters = @ + 1]
  /\ client' = [client EXCEPT ![c].filter = filter]
  /\ frames' = [frames EXCEPT ![c] = Append(@, Ack(filter))]
  /\ UNCHANGED <<stored, emitter, published, lagged>>

Oldest == IF Len(published) > Capacity THEN Len(published) - Capacity + 1 ELSE 1

\* recv answers Lagged: the receiver moves to the oldest value kept, and the task
\* goes round its loop without a word to the client.
SkipLost(c) ==
  /\ client[c].up /\ client[c].next < Oldest
  /\ client' = [client EXCEPT ![c].next = Oldest]
  /\ lagged' = lagged \cup {c}
  /\ UNCHANGED <<stored, emitter, published, frames, asked>>

Wanted(filter, e) == filter = NoFilter \/ e \in filter

\* Mutant of Forward: only the newest value is taken.
ForwardNewest(c) ==
  /\ client[c].up /\ client[c].next \in Oldest..Len(published)
  /\ client' = [client EXCEPT ![c].next = Len(published) + 1]
  /\ frames' = IF Wanted(client[c].filter, published[Len(published)])
               THEN [frames EXCEPT ![c] = Append(@, EventFrame(published[Len(published)]))]
               ELSE frames
  /\ UNCHANGED <<stored, emitter, published, lagged, asked>>

\* recv answers a value: it is sent when the filter takes it.
Forward(c) ==
  LET i == client[c].next IN
  /\ client[c].up /\ i \in Oldest..Len(published)
  /\ client' = [client EXCEPT ![c].next = i + 1]
  /\ frames' = IF Wanted(client[c].filter, published[i])
               THEN [frames EXCEPT ![c] = Append(@, EventFrame(published[i]))]
               ELSE frames
  /\ UNCHANGED <<stored, emitter, published, lagged, asked>>

\* The client closes, or a send to it fails.
Disconnect(c) ==
  /\ client[c].up
  /\ client' = [client EXCEPT ![c].up = FALSE]
  /\ UNCHANGED <<stored, emitter, published, frames, lagged, asked>>

Turn(c) == SkipLost(c) \/ Forward(c)

StreamNext ==
  \/ \E e \in Emitted : StoreRow(e) \/ Publish(e)
  \/ \E c \in Clients : Connect(c) \/ Turn(c) \/ Disconnect(c)
  \/ \E c \in Clients, filter \in EventFilters \cup {NoFilter} : Subscribe(c, filter)

StreamSpec == StreamInit /\ [][StreamNext]_vars_rs

(***************************************************************************)
(* Properties.                                                             *)
(***************************************************************************)
EventsOf(c) == Selected(frames[c], {EventFrame(e) : e \in Emitted})

\* An event reaches a client only after its row is in the log, so whatever a
\* client saw, and whatever its socket lost, can be read again through
\* GET /api/mail/events ("Events remain replayable").
StreamedIsStored ==
  \A c \in Clients : \A i \in 1..Len(frames[c]) :
    frames[c][i].kind = "event" => frames[c][i].id \in stored

\* A client that kept the open subscription and whose receiver did not lag was
\* sent every event published since its upgrade, once each and in the order of
\* publishing: the channel and the loop lose nothing else.
NothingElseIsLost ==
  \A c \in Clients :
    c \notin lagged /\ frames[c] # <<>>
    /\ (\A i \in 1..Len(frames[c]) : frames[c][i].kind = "ack" => frames[c][i].filter = NoFilter)
    => EventsOf(c) = [i \in 1..(client[c].next - client[c].since) |->
                        EventFrame(published[client[c].since + i - 1])]
\* Between an acknowledgement and the next, a client is sent only what the
\* acknowledged filter takes, although events published before the request may
\* still be waiting in the channel.
AckedFilterHolds ==
  \A c \in Clients : \A i, j \in 1..Len(frames[c]) :
    /\ i < j /\ frames[c][i].kind = "ack" /\ frames[c][j].kind = "event"
    /\ \A k \in (i + 1)..(j - 1) : frames[c][k].kind = "event"
    => Wanted(frames[c][i].filter, frames[c][j].id)
\* What a client is sent is its subscription: all of it unless its receiver
\* lagged, nothing that the filter last acknowledged leaves out, and nothing that
\* the event log does not have (the turns of handle_realtime_socket's task).
DeliversItsSubscription == NothingElseIsLost /\ AckedFilterHolds /\ StreamedIsStored
=============================================================================
