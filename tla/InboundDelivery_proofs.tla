----------------------- MODULE InboundDelivery_proofs -----------------------
(***************************************************************************)
(* Proofs about InboundDelivery.                                           *)
(*                                                                         *)
(* The argument for the replays: a timestamp that passed the window is     *)
(* within Tolerance of a clock that is within MaxSkew of the latest time   *)
(* shown (`high`), and the post is answered before `high` has moved by     *)
(* more than MaxHold.  So no post of a delivery is in hand once `high` is  *)
(* past Expiry(d).  A tombstone is pruned only when `high` is past that.   *)
(***************************************************************************)
EXTENDS InboundDelivery, TLAPS

-----------------------------------------------------------------------------
(* The inductive invariant                                                 *)

ClockInv == clock <= high /\ high <= clock + MaxSkew

\* What a handler with a post in hand knows of it.
PostInv(h) ==
  pc[h] # "idle" =>
    /\ req[h] \in Deliveries
    /\ since[h] <= high
    /\ high <= since[h] + MaxHold
    /\ req[h] \in Signed => /\ since[h] <= req[h].at + Tolerance + MaxSkew
                            /\ req[h].at <= since[h] + Tolerance

\* The clock it read for its tombstone.
ReadInv(h) ==
  pc[h] = "insert" => seenAt[h] <= high /\ since[h] <= seenAt[h] + MaxSkew

PostsInv == \A h \in Handlers : PostInv(h) /\ ReadInv(h)

\* No post of d is in hand or will pass the window.
Expired(d) == high > d.at + Tolerance + MaxSkew + MaxHold

Guarded(d) ==
  tombs[d] # NoTomb /\ d \notin unfinished /\ d.at <= tombs[d] + Tolerance + MaxSkew

\* What was stored keeps its tombstone until no copy can arrive any more.
TombInv ==
  \A d \in Signed :
    /\ stores[d] <= 1
    /\ stores[d] > 0 => Expired(d) \/ Guarded(d)

\* Whatever could answer a post as a duplicate was stored.
StoredInv ==
  /\ \A m \in Mails : live[m] > 0 => m \in everStored
  /\ \A d \in Signed : tombs[d] # NoTomb => d \in unfinished \/ d.mail \in everStored
  /\ \A h \in Handlers : pc[h] = "event" => req[h].mail \in everStored
  /\ AnsweredWasStored

LEMMA Values ==
  /\ Signed \subseteq Deliveries
  /\ \A d \in Deliveries : d.mail \in Mails
  /\ \A d \in Signed : d.mail \in Mails /\ d.at \in Nat
  /\ \A d \in Deliveries : d.at # NoStamp => d \in Signed
  /\ \A d \in Signed : d.at # NoStamp
BY StampsAreTimes, NoValues DEF Signed, Deliveries

-----------------------------------------------------------------------------
(* Types                                                                   *)

\* The end of a post leaves the local state well-typed.
LEMMA FinishType ==
  ASSUME TypeOK, NEW h \in Handlers, Finish(h)
  PROVE  /\ pc' \in [Handlers -> PCs]
         /\ req' \in [Handlers -> Deliveries \cup {NoPost}]
         /\ seenAt' \in [Handlers -> Int]
         /\ since' \in [Handlers -> Nat]
BY DEF TypeOK, Finish, PCs

LEMMA TypeStep == TypeOK /\ PostsInv /\ [Next]_vars => TypeOK'
<1> SUFFICES ASSUME TypeOK, PostsInv, [Next]_vars PROVE TypeOK'
  OBVIOUS
<1> USE DEF rows, world, history, handlers
<1>1. ASSUME NEW h \in Handlers, NEW d \in Deliveries, Receive(h, d) PROVE TypeOK'
  BY <1>1 DEF TypeOK, Receive, PCs
<1>2. ASSUME NEW h \in Handlers, Refused(h) \/ Disconnect(h) PROVE TypeOK'
  BY <1>2, FinishType DEF TypeOK, Refused, Disconnect
<1>3. ASSUME NEW h \in Handlers, KnownMessageId(h) \/ InsertDuplicate(h) \/ RecordEvent(h)
      PROVE  TypeOK'
  <2>1. req[h] \in Deliveries
    BY <1>3 DEF PostsInv, PostInv, KnownMessageId, InsertDuplicate, RecordEvent
  <2>2. Finish(h) /\ answered' = answered \cup {req[h]}
    BY <1>3 DEF KnownMessageId, InsertDuplicate, RecordEvent, Answer
  <2>3. UNCHANGED <<rows, world, stores, everStored>>
    BY <1>3 DEF KnownMessageId, InsertDuplicate, RecordEvent
  <2>4. QED
    BY <2>1, <2>2, <2>3, FinishType DEF TypeOK
<1>4. ASSUME NEW h \in Handlers, NewMessageId(h) PROVE TypeOK'
  BY <1>4, TimeBounds DEF TypeOK, NewMessageId, PCs
<1>5. ASSUME NEW h \in Handlers, InsertStores(h) PROVE TypeOK'
  <2>1. req[h] \in Deliveries /\ req[h].mail \in Mails
    BY <1>5, Values DEF PostsInv, PostInv, InsertStores
  <2>2. Commit(h)
    BY <1>5 DEF InsertStores
  <2>3. Pruned(seenAt[h]) \in [Signed -> Int \cup {NoTomb}]
    BY DEF Pruned, TypeOK
  <2>4. seenAt[h] \in Int
    BY DEF TypeOK
  <2>5. /\ tombs' \in [Signed -> Int \cup {NoTomb}]
        /\ unfinished' \in SUBSET Signed
        /\ stores' \in [Signed -> Nat]
    BY <2>2, <2>3, <2>4 DEF Commit, TypeOK
  <2>6. QED
    BY <2>1, <2>2, <2>5 DEF Commit, TypeOK, PCs
<1>6. ASSUME NEW h \in Handlers, InsertFails(h) PROVE TypeOK'
  BY <1>6, FinishType, TimeBounds DEF TypeOK, InsertFails
<1>7. ASSUME NEW m \in Mails, DeleteMessage(m) PROVE TypeOK'
  BY <1>7 DEF TypeOK, DeleteMessage
<1>8. CASE DeleteInbox \/ RequireTimestamp
  <2>1. CASE DeleteInbox
    <3>1. inbox' \in BOOLEAN /\ live' \in [Mails -> Nat]
      BY <2>1 DEF DeleteInbox
    <3>2. QED
      BY <2>1, <3>1 DEF TypeOK, DeleteInbox
  <2>2. CASE RequireTimestamp
    <3>1. stampNeeded' \in BOOLEAN
      BY <2>2 DEF RequireTimestamp
    <3>2. QED
      BY <2>2, <3>1 DEF TypeOK, RequireTimestamp
  <2>3. QED
    BY <1>8, <2>1, <2>2
<1>9. CASE Tick \/ Correct
  BY <1>9 DEF TypeOK, Tick, Correct
<1>10. CASE Crash
  BY <1>10, TimeBounds DEF TypeOK, Crash, PCs
<1>11. CASE UNCHANGED vars
  BY <1>11 DEF TypeOK, vars
<1>12. QED
  BY <1>1, <1>2, <1>3, <1>4, <1>5, <1>6, <1>7, <1>8, <1>9, <1>10, <1>11
  DEF Next, Post, Owner

-----------------------------------------------------------------------------
(* The clock and the posts in hand                                         *)

LEMMA ClockStep == TypeOK /\ ClockInv /\ [Next]_vars => ClockInv'
<1> SUFFICES ASSUME TypeOK, ClockInv, [Next]_vars PROVE ClockInv'
  OBVIOUS
<1>1. CASE Tick
  BY <1>1, TimeBounds DEF Tick, TypeOK, ClockInv
<1>2. CASE Correct
  BY <1>2, TimeBounds DEF Correct, TypeOK, ClockInv
<1>3. CASE UNCHANGED <<clock, high>>
  BY <1>3 DEF ClockInv
<1>4. ASSUME NEW h \in Handlers, Post(h) PROVE UNCHANGED <<clock, high>>
  BY <1>4 DEF Post, Receive, Refused, KnownMessageId, NewMessageId, InsertDuplicate,
     InsertStores, Commit, InsertFails, RecordEvent, Disconnect, world
<1>5. CASE Owner \/ Crash \/ UNCHANGED vars
  BY <1>3, <1>5 DEF Owner, DeleteMessage, DeleteInbox, RequireTimestamp, Crash, vars, world
<1>6. QED
  BY <1>1, <1>2, <1>3, <1>4, <1>5 DEF Next

\* A handler that goes idle disturbs no other and holds nothing.
LEMMA FinishPosts ==
  ASSUME TypeOK, PostsInv, NEW h \in Handlers, Finish(h), high' = high
  PROVE  PostsInv'
<1> SUFFICES ASSUME NEW g \in Handlers PROVE PostInv(g)' /\ ReadInv(g)'
  BY DEF PostsInv
<1>1. CASE g = h
  BY <1>1 DEF Finish, TypeOK, PostInv, ReadInv
<1>2. CASE g # h
  BY <1>2 DEF Finish, TypeOK, PostInv, ReadInv, PostsInv
<1>3. QED
  BY <1>1, <1>2

LEMMA PostsStep == TypeOK /\ ClockInv /\ PostsInv /\ [Next]_vars => PostsInv'
<1> SUFFICES ASSUME TypeOK, ClockInv, PostsInv, [Next]_vars PROVE PostsInv'
  OBVIOUS
<1> USE DEF world, handlers
<1>1. ASSUME NEW h \in Handlers, NEW d \in Deliveries, Receive(h, d) PROVE PostsInv'
  <2> SUFFICES ASSUME NEW g \in Handlers PROVE PostInv(g)' /\ ReadInv(g)'
    BY DEF PostsInv
  <2>1. CASE g # h
    BY <1>1, <2>1 DEF Receive, TypeOK, PostInv, ReadInv, PostsInv
  <2>2. CASE g = h
    <3>1. /\ pc'[g] = "policy" /\ req'[g] = d /\ since'[g] = high /\ high' = high
      BY <1>1, <2>2 DEF Receive, TypeOK
    <3>2. d \in Signed => InWindow(d.at) /\ d.at \in Nat
      BY <1>1, Values DEF Receive
    <3>3. d \in Signed => high <= d.at + Tolerance + MaxSkew /\ d.at <= high + Tolerance
      BY <3>2, TimeBounds DEF InWindow, TypeOK, ClockInv
    <3>4. high <= high + MaxHold /\ high <= high
      BY TimeBounds DEF TypeOK
    <3>5. QED
      BY <3>1, <3>3, <3>4 DEF PostInv, ReadInv
  <2>3. QED
    BY <2>1, <2>2
<1>2. ASSUME NEW h \in Handlers,
             \/ Refused(h) \/ Disconnect(h) \/ KnownMessageId(h)
             \/ InsertDuplicate(h) \/ RecordEvent(h) \/ InsertFails(h)
      PROVE  PostsInv'
  <2>1. Finish(h) /\ high' = high
    BY <1>2 DEF Refused, Disconnect, KnownMessageId, InsertDuplicate, RecordEvent,
       InsertFails, Answer
  <2>2. QED
    BY <2>1, FinishPosts
<1>3. ASSUME NEW h \in Handlers, NewMessageId(h) PROVE PostsInv'
  <2> SUFFICES ASSUME NEW g \in Handlers PROVE PostInv(g)' /\ ReadInv(g)'
    BY DEF PostsInv
  <2>1. CASE g # h
    BY <1>3, <2>1 DEF NewMessageId, TypeOK, PostInv, ReadInv, PostsInv
  <2>2. CASE g = h
    <3>1. /\ pc[g] # "idle" /\ pc'[g] = "insert" /\ seenAt'[g] = clock
          /\ req' = req /\ since' = since /\ high' = high
      BY <1>3, <2>2 DEF NewMessageId, TypeOK
    <3>2. PostInv(g)'
      BY <3>1 DEF PostInv, PostsInv
    <3>3. since[g] <= high /\ since[g] \in Nat
      BY <3>1 DEF PostInv, PostsInv, TypeOK
    <3>4. clock <= high /\ since[g] <= clock + MaxSkew
      BY <3>3, TimeBounds DEF ClockInv, TypeOK
    <3>5. QED
      BY <3>1, <3>2, <3>4 DEF ReadInv
  <2>3. QED
    BY <2>1, <2>2
<1>4. ASSUME NEW h \in Handlers, InsertStores(h) PROVE PostsInv'
  <2> SUFFICES ASSUME NEW g \in Handlers PROVE PostInv(g)' /\ ReadInv(g)'
    BY DEF PostsInv
  <2>1. /\ UNCHANGED <<req, since, seenAt, high>>
        /\ pc[h] = "insert" /\ pc' = [pc EXCEPT ![h] = "event"]
    BY <1>4 DEF InsertStores, Commit
  <2>2. QED
    BY <2>1 DEF PostInv, ReadInv, PostsInv, TypeOK
<1>5. CASE Tick
  <2> SUFFICES ASSUME NEW g \in Handlers PROVE PostInv(g)' /\ ReadInv(g)'
    BY DEF PostsInv
  <2>1. /\ UNCHANGED <<pc, req, since, seenAt>>
        /\ high' \in Nat /\ high <= high'
        /\ pc[g] # "idle" => high' <= since[g] + MaxHold
    BY <1>5 DEF Tick, TypeOK
  <2>2. /\ PostInv(g) /\ ReadInv(g)
        /\ since[g] \in Nat /\ seenAt[g] \in Int /\ high \in Nat
    BY DEF PostsInv, TypeOK
  <2>3. /\ since[g] <= high => since[g] <= high'
        /\ seenAt[g] <= high => seenAt[g] <= high'
    BY <2>1, <2>2
  <2>4. PostInv(g)'
    BY <2>1, <2>2, <2>3 DEF PostInv
  <2>5. ReadInv(g)'
    BY <2>1, <2>2, <2>3 DEF ReadInv
  <2>6. QED
    BY <2>4, <2>5
<1>6. CASE Crash
  BY <1>6 DEF Crash, TypeOK, PostInv, ReadInv, PostsInv
<1>7. CASE Owner \/ Correct \/ UNCHANGED vars
  <2>1. UNCHANGED <<handlers, high>>
    BY <1>7 DEF Owner, DeleteMessage, DeleteInbox, RequireTimestamp, Correct, vars
  <2>2. QED
    BY <2>1 DEF PostInv, ReadInv, PostsInv
<1>8. QED
  BY <1>1, <1>2, <1>3, <1>4, <1>5, <1>6, <1>7 DEF Next, Post

-----------------------------------------------------------------------------
(* Replays                                                                 *)

\* No post of an expired delivery is in hand.
LEMMA ExpiredNotInHand ==
  ASSUME TypeOK, PostsInv, NEW h \in Handlers, pc[h] # "idle", req[h] \in Signed
  PROVE  ~Expired(req[h])
<1>1. /\ high \in Nat /\ since[h] \in Nat /\ req[h].at \in Nat
      /\ high <= since[h] + MaxHold
      /\ since[h] <= req[h].at + Tolerance + MaxSkew
  BY Values DEF TypeOK, PostsInv, PostInv
<1>2. QED
  BY <1>1, TimeBounds DEF Expired

\* A guarded delivery keeps its tombstone or has expired when another post
\* prunes with a clock it has read.
LEMMA PruneKeepsGuard ==
  ASSUME TypeOK, NEW s \in Int, s <= high, NEW d \in Signed, Guarded(d)
  PROVE  Expired(d) \/ Pruned(s)[d] = tombs[d]
<1>1. tombs[d] \in Int /\ d.at \in Nat /\ high \in Nat
  BY Values DEF Guarded, TypeOK
<1>2. CASE tombs[d] < s - Retention
  <2>1. tombs[d] + Retention < high
    BY <1>1, <1>2, TimeBounds
  <2>2. d.at <= tombs[d] + Tolerance + MaxSkew
    BY DEF Guarded
  <2>3. QED
    BY <1>1, <2>1, <2>2, TimeBounds, RetentionCovers DEF Expired
<1>3. CASE ~(tombs[d] < s - Retention)
  BY <1>3 DEF Pruned
<1>4. QED
  BY <1>2, <1>3

LEMMA TombStep ==
  TypeOK /\ PostsInv /\ TombInv /\ [Next]_vars => TombInv'
<1> SUFFICES ASSUME TypeOK, PostsInv, TombInv, [Next]_vars PROVE TombInv'
  OBVIOUS
<1>1. ASSUME UNCHANGED <<tombs, unfinished, stores>>, high' >= high PROVE TombInv'
  <2> SUFFICES ASSUME NEW d \in Signed
               PROVE  /\ stores'[d] <= 1
                      /\ stores'[d] > 0 => Expired(d)' \/ Guarded(d)'
    BY DEF TombInv
  <2>1. Expired(d) /\ high' \in Nat => Expired(d)'
    BY <1>1, Values, TimeBounds DEF Expired, TypeOK
  <2>2. Guarded(d) => Guarded(d)'
    BY <1>1 DEF Guarded
  <2>3. high' \in Nat
    BY TypeStep DEF TypeOK
  <2>4. QED
    BY <1>1, <2>1, <2>2, <2>3 DEF TombInv
<1>2. ASSUME NEW h \in Handlers, InsertStores(h) PROVE TombInv'
  <2> DEFINE e == req[h]
             s == seenAt[h]
  <2> SUFFICES ASSUME NEW d \in Signed
               PROVE  /\ stores'[d] <= 1
                      /\ stores'[d] > 0 => Expired(d)' \/ Guarded(d)'
    BY DEF TombInv
  <2>1. /\ pc[h] = "insert" /\ ~Replayed(e, s) /\ Commit(h) /\ high' = high
    BY <1>2 DEF InsertStores, Commit, world
  <2>2. s \in Int /\ s <= high /\ since[h] <= s + MaxSkew /\ since[h] \in Nat
    BY <2>1 DEF TypeOK, PostsInv, ReadInv
  <2>3. Expired(d) => Expired(d)'
    BY <2>1 DEF Expired
  <2>4. CASE e \notin Signed
    <3>1. UNCHANGED <<tombs, unfinished, stores>>
      BY <2>1, <2>4 DEF Commit
    <3>2. QED
      BY <1>1, <2>1, <3>1 DEF TombInv, TypeOK
  <2>5. CASE e \in Signed /\ d # e
    <3>1. /\ stores'[d] = stores[d] /\ tombs'[d] = Pruned(s)[d]
          /\ unfinished' = unfinished \ {e}
      BY <2>1, <2>5 DEF Commit, TypeOK, Pruned
    <3>2. Guarded(d) => Expired(d) \/ Pruned(s)[d] = tombs[d]
      BY <2>2, PruneKeepsGuard
    <3>3. QED
      BY <2>3, <3>1, <3>2 DEF Guarded, TombInv
  <2>6. CASE e \in Signed /\ d = e
    <3>1. /\ stores'[d] = stores[d] + 1 /\ tombs'[d] = s
          /\ unfinished' = unfinished \ {d}
      BY <2>1, <2>6 DEF Commit, TypeOK, Pruned
    <3>2. ~Expired(d)
      BY <2>1, <2>6, ExpiredNotInHand
    <3>3. ~Guarded(d)
      <4> SUFFICES ASSUME Guarded(d) PROVE FALSE
        OBVIOUS
      <4>1. Pruned(s)[d] # NoTomb
        BY <2>2, <3>2, PruneKeepsGuard DEF Guarded
      <4>2. QED
        BY <2>1, <2>6, <4>1 DEF Replayed, Guarded
    <3>4. stores[d] = 0
      BY <3>2, <3>3 DEF TombInv, TypeOK
    <3>5. d.at <= s + Tolerance + MaxSkew
      <4>1. d.at <= since[h] + Tolerance /\ d.at \in Nat
        BY <2>1, <2>6, Values DEF PostsInv, PostInv
      <4>2. QED
        BY <2>2, <4>1, TimeBounds
    <3>6. tombs'[d] # NoTomb
      BY <2>2, <3>1, NoValues
    <3>7. QED
      BY <3>1, <3>4, <3>5, <3>6 DEF Guarded
  <2>7. QED
    BY <2>4, <2>5, <2>6
<1>3. ASSUME NEW h \in Handlers,
             \/ \E d \in Deliveries : Receive(h, d)
             \/ Refused(h) \/ Disconnect(h) \/ KnownMessageId(h)
             \/ NewMessageId(h) \/ InsertDuplicate(h) \/ RecordEvent(h)
             \/ InsertFails(h)
      PROVE  UNCHANGED <<tombs, unfinished, stores, high>>
  BY <1>3 DEF Receive, Refused, Disconnect, KnownMessageId, NewMessageId,
     InsertDuplicate, RecordEvent, InsertFails, rows, world, history
<1>4. CASE Owner \/ Correct \/ Crash \/ UNCHANGED vars
  <2>1. UNCHANGED <<tombs, unfinished, stores, high>>
    BY <1>4 DEF Owner, DeleteMessage, DeleteInbox, RequireTimestamp, Correct, Crash,
       rows, world, history, vars
  <2>2. QED
    BY <1>1, <2>1 DEF TypeOK
<1>5. CASE Tick
  <2>1. UNCHANGED <<tombs, unfinished, stores>> /\ high' >= high
    BY <1>5 DEF Tick, rows, history, TypeOK
  <2>2. QED
    BY <1>1, <2>1
<1>6. high >= high
  BY DEF TypeOK
<1>7. QED
  BY <1>1, <1>2, <1>3, <1>4, <1>5, <1>6 DEF Next, Post

-----------------------------------------------------------------------------
(* Answers                                                                 *)

LEMMA StoredStep ==
  TypeOK /\ PostsInv /\ StoredInv /\ [Next]_vars => StoredInv'
<1> SUFFICES ASSUME TypeOK, PostsInv, StoredInv, [Next]_vars PROVE StoredInv'
  OBVIOUS
<1> USE DEF rows, world, history, handlers
<1>1. ASSUME NEW h \in Handlers, Finish(h), answered' = answered \cup {req[h]},
             UNCHANGED <<rows, world, stores, everStored>>,
             \/ req[h].mail \in everStored
             \/ \E m \in everStored : SameId(req[h].mail, m)
      PROVE  StoredInv'
  <2>1. \A g \in Handlers : pc'[g] = "event" => pc[g] = "event" /\ req'[g] = req[g]
    BY <1>1 DEF Finish, TypeOK
  <2>2. AnsweredWasStored'
    BY <1>1 DEF AnsweredWasStored, StoredInv, SameId
  <2>3. QED
    BY <1>1, <2>1, <2>2 DEF StoredInv
<1>2. ASSUME NEW h \in Handlers, KnownMessageId(h) PROVE StoredInv'
  <2>1. PICK m \in Mails : live[m] > 0 /\ SameId(req[h].mail, m)
    BY <1>2 DEF KnownMessageId, Known
  <2>2. QED
    BY <1>1, <1>2, <2>1 DEF KnownMessageId, Answer, StoredInv
<1>3. ASSUME NEW h \in Handlers, InsertDuplicate(h) PROVE StoredInv'
  <2>1. req[h] \in Deliveries /\ req[h].mail \in Mails
    BY <1>3, Values DEF InsertDuplicate, PostsInv, PostInv
  <2>2. CASE live[req[h].mail] > 0
    BY <1>1, <1>3, <2>1, <2>2 DEF InsertDuplicate, Answer, StoredInv
  <2>3. CASE Replayed(req[h], seenAt[h])
    <3>1. req[h] \in Signed /\ tombs[req[h]] # NoTomb /\ req[h] \notin unfinished
      BY <2>3 DEF Replayed, Pruned
    <3>2. QED
      BY <1>1, <1>3, <3>1 DEF InsertDuplicate, Answer, StoredInv
  <2>4. QED
    BY <1>3, <2>2, <2>3 DEF InsertDuplicate
<1>4. ASSUME NEW h \in Handlers, RecordEvent(h) PROVE StoredInv'
  BY <1>1, <1>4 DEF RecordEvent, Answer, StoredInv
<1>5. ASSUME NEW h \in Handlers, InsertStores(h) PROVE StoredInv'
  <2> DEFINE e == req[h]
  <2>1. Commit(h) /\ e \in Deliveries /\ e.mail \in Mails
    BY <1>5, Values DEF InsertStores, PostsInv, PostInv
  <2>2. everStored' = everStored \cup {e.mail} /\ answered' = answered
    BY <2>1 DEF Commit
  <2>3. \A m \in Mails : live'[m] > 0 => m \in everStored'
    BY <2>1, <2>2 DEF Commit, StoredInv, TypeOK
  <2>4. ASSUME NEW d \in Signed, tombs'[d] # NoTomb
        PROVE  d \in unfinished' \/ d.mail \in everStored'
    <3>1. CASE e \notin Signed
      BY <2>1, <2>2, <2>4, <3>1 DEF Commit, StoredInv
    <3>2. CASE e \in Signed /\ d = e
      BY <2>2, <3>2
    <3>3. CASE e \in Signed /\ d # e
      <4>1. tombs'[d] = Pruned(seenAt[h])[d] /\ unfinished' = unfinished \ {e}
        BY <2>1, <3>3 DEF Commit, Pruned
      <4>2. tombs[d] # NoTomb
        BY <2>4, <4>1 DEF Pruned
      <4>3. QED
        BY <2>2, <3>3, <4>1, <4>2 DEF StoredInv
    <3>4. QED
      BY <3>1, <3>2, <3>3
  <2>5. \A g \in Handlers : pc'[g] = "event" => req'[g].mail \in everStored'
    BY <2>1, <2>2 DEF Commit, StoredInv, TypeOK
  <2>6. AnsweredWasStored'
    BY <2>2 DEF AnsweredWasStored, StoredInv, SameId
  <2>7. QED
    BY <2>3, <2>4, <2>5, <2>6 DEF StoredInv
<1>6. ASSUME UNCHANGED <<tombs, unfinished, everStored, answered>>,
             \A m \in Mails : live'[m] > 0 => live[m] > 0,
             \A g \in Handlers : pc'[g] = "event" => pc[g] = "event" /\ req'[g] = req[g]
      PROVE  StoredInv'
  <2>1. AnsweredWasStored'
    BY <1>6 DEF AnsweredWasStored, StoredInv, SameId
  <2>2. QED
    BY <1>6, <2>1 DEF StoredInv
<1>7. ASSUME NEW h \in Handlers,
             \/ \E d \in Deliveries : Receive(h, d)
             \/ Refused(h) \/ Disconnect(h) \/ NewMessageId(h) \/ InsertFails(h)
      PROVE  StoredInv'
  <2>1. UNCHANGED <<tombs, unfinished, everStored, answered, live>>
    BY <1>7 DEF Receive, Refused, Disconnect, NewMessageId, InsertFails
  <2>2. \A g \in Handlers : pc'[g] = "event" => pc[g] = "event" /\ req'[g] = req[g]
    BY <1>7 DEF Receive, Refused, Disconnect, NewMessageId, InsertFails, Finish, TypeOK
  <2>3. QED
    BY <1>6, <2>1, <2>2
<1>8. ASSUME NEW m \in Mails, DeleteMessage(m) PROVE StoredInv'
  BY <1>6, <1>8 DEF DeleteMessage, TypeOK
<1>9. CASE DeleteInbox \/ RequireTimestamp
  BY <1>6, <1>9 DEF DeleteInbox, RequireTimestamp
<1>10. CASE Tick \/ Correct \/ Crash \/ UNCHANGED vars
  BY <1>6, <1>10 DEF Tick, Correct, Crash, vars
<1>11. QED
  BY <1>2, <1>3, <1>4, <1>5, <1>7, <1>8, <1>9, <1>10 DEF Next, Post, Owner

-----------------------------------------------------------------------------
(* Theorems                                                                *)

IInv == TypeOK /\ ClockInv /\ PostsInv /\ TombInv /\ StoredInv

LEMMA IInvHolds == Spec => []IInv
<1>1. Init => IInv
  <2> SUFFICES ASSUME Init PROVE IInv
    OBVIOUS
  <2>1. TypeOK
    <3>1. inbox \in BOOLEAN /\ stampNeeded \in BOOLEAN
      BY DEF Init
    <3>2. /\ live \in [Mails -> Nat]
          /\ tombs \in [Signed -> Int \cup {NoTomb}]
          /\ unfinished \in SUBSET Signed
          /\ stores \in [Signed -> Nat]
      BY DEF Init
    <3>3. /\ pc \in [Handlers -> PCs]
          /\ req \in [Handlers -> Deliveries \cup {NoPost}]
          /\ seenAt \in [Handlers -> Int]
          /\ since \in [Handlers -> Nat]
      BY DEF Init, PCs
    <3>4. clock \in Nat /\ high \in Nat /\ faults \in 0..MaxFaults
      BY TimeBounds DEF Init
    <3>5. everStored \in SUBSET Mails /\ answered \in SUBSET Deliveries
      BY DEF Init
    <3>6. QED
      BY <3>1, <3>2, <3>3, <3>4, <3>5 DEF TypeOK
  <2>2. ClockInv /\ PostsInv
    BY TimeBounds DEF Init, ClockInv, PostsInv, PostInv, ReadInv
  <2>3. TombInv
    BY DEF Init, TombInv
  <2>4. StoredInv
    BY DEF Init, StoredInv, AnsweredWasStored
  <2>5. QED
    BY <2>1, <2>2, <2>3, <2>4 DEF IInv
<1>2. IInv /\ [Next]_vars => IInv'
  BY TypeStep, ClockStep, PostsStep, TombStep, StoredStep DEF IInv
<1>3. QED
  BY <1>1, <1>2, PTL DEF Spec

\* The types of the rows and of what the handlers hold, for any number of
\* posts, deliveries and corrections of the clock.
THEOREM TypeCorrect == Spec => []TypeOK
BY IInvHolds, PTL DEF IInv

\* A timestamped delivery stores at most one message ever: the retention of
\* the tombstones covers deletions, slow posts and a clock that is set back,
\* for all values RetentionCovers allows.
THEOREM ReplayHarmless == Spec => []ReplayStoresNothing
<1>1. IInv => ReplayStoresNothing
  BY DEF IInv, TombInv, ReplayStoresNothing
<1>2. QED
  BY <1>1, IInvHolds, PTL

\* A post answered with success had its mail, or one with the same
\* Message-ID, stored: nothing a crash leaves answers a retry.
THEOREM AnswersAreStored == Spec => []AnsweredWasStored
<1>1. IInv => AnsweredWasStored
  BY DEF IInv, StoredInv
<1>2. QED
  BY <1>1, IInvHolds, PTL

LEMMA CopyStep == TypeOK /\ OneLiveCopy /\ PostsInv /\ [Next]_vars => OneLiveCopy'
<1> SUFFICES ASSUME TypeOK, OneLiveCopy, PostsInv, [Next]_vars PROVE OneLiveCopy'
  OBVIOUS
<1> USE DEF rows
<1>1. ASSUME NEW h \in Handlers, InsertStores(h) PROVE OneLiveCopy'
  <2>1. req[h].mail \in Mails
    BY <1>1, Values DEF InsertStores, PostsInv, PostInv
  <2>2. QED
    BY <1>1, <2>1 DEF InsertStores, Commit, OneLiveCopy, TypeOK
<1>2. ASSUME NEW m \in Mails, DeleteMessage(m) PROVE OneLiveCopy'
  BY <1>2 DEF DeleteMessage, OneLiveCopy, TypeOK
<1>3. CASE DeleteInbox
  BY <1>3 DEF DeleteInbox, OneLiveCopy
<1>4. ASSUME UNCHANGED <<inbox, live>> PROVE OneLiveCopy'
  BY <1>4 DEF OneLiveCopy
<1>5. ASSUME NEW h \in Handlers, Post(h), ~InsertStores(h) PROVE OneLiveCopy'
  BY <1>4, <1>5 DEF Post, Receive, Refused, KnownMessageId, NewMessageId,
     InsertDuplicate, InsertFails, RecordEvent, Disconnect
<1>6. CASE RequireTimestamp \/ Tick \/ Correct \/ Crash \/ UNCHANGED vars
  BY <1>4, <1>6 DEF RequireTimestamp, Tick, Correct, Crash, vars
<1>7. QED
  BY <1>1, <1>2, <1>3, <1>5, <1>6 DEF Next, Owner

\* Concurrent and repeated posts of one mail keep one message, and an inbox
\* that was deleted keeps none.
THEOREM OneCopyStored == Spec => []OneLiveCopy
<1>1. Init => OneLiveCopy
  <2> SUFFICES ASSUME Init, NEW m \in Mails
               PROVE  live[m] <= (IF inbox THEN 1 ELSE 0)
    BY DEF OneLiveCopy
  <2>1. inbox = TRUE /\ live[m] = 0
    BY DEF Init
  <2>2. (IF inbox THEN 1 ELSE 0) = 1
    BY <2>1
  <2>3. QED
    BY <2>1, <2>2
<1>2. IInv /\ OneLiveCopy /\ [Next]_vars => OneLiveCopy'
  BY CopyStep DEF IInv
<1>3. QED
  BY <1>1, <1>2, IInvHolds, PTL DEF Spec

=============================================================================
