-------------------------- MODULE DraftSend_proofs --------------------------
(***************************************************************************)
(* Proofs about DraftSend.  The state splits into what the processes hold  *)
(* in local variables (LocalOK, JobInv), the tables (TableOK) and the rest *)
(* (OtherOK).  The control operators of DraftSend are used through lemmas  *)
(* that say what one step does to the process that takes it (the *Effect   *)
(* lemmas), so that the later proofs never open the record of a job.       *)
(***************************************************************************)
EXTENDS DraftSend, TLAPS

-----------------------------------------------------------------------------
(* Types                                                                   *)

\* A job stays a job when one local variable is overwritten with a value of
\* its type.
LEMMA JobsClosed ==
  /\ NoJob \in Jobs
  /\ \A j \in Jobs :
       /\ j.draft \in Drafts \cup {NoDraft}
       /\ j.key \in Keys \cup {NoKey}
       /\ j.body \in Bodies \cup {NoBody}
       /\ j.at \in SendTimes
       /\ j.back \in BackTo
       /\ j.ok \in BOOLEAN
       /\ \A d \in Drafts \cup {NoDraft} : [j EXCEPT !.draft = d] \in Jobs
       /\ \A k \in Keys \cup {NoKey} : [j EXCEPT !.key = k] \in Jobs
       /\ \A b \in Bodies \cup {NoBody} : [j EXCEPT !.body = b] \in Jobs
       /\ \A t \in SendTimes : [j EXCEPT !.at = t] \in Jobs
       /\ \A s \in BackTo : [j EXCEPT !.back = s] \in Jobs
       /\ \A x \in BOOLEAN : [j EXCEPT !.ok = x] \in Jobs
<1>1. NoJob \in Jobs
  BY DEF NoJob, Jobs, BackTo, SendTimes
<1>2. QED
  BY <1>1 DEF Jobs

\* The type invariant in three parts.
LocalOK == pc \in [Procs -> PCs] /\ job \in [Procs -> Jobs]

\* The control operators keep the local state well-typed.
LEMMA ControlType ==
  ASSUME LocalOK, NEW p \in Procs
  PROVE  /\ \A point \in PCs : Goto(p, point) => pc' \in [Procs -> PCs]
         /\ Finish(p) => LocalOK'
         /\ \A point \in PCs, ok \in BOOLEAN : Respond(p, point, ok) => LocalOK'
         /\ RespondUnclear(p) => LocalOK'
<1>1. \A point \in PCs : Goto(p, point) => pc' \in [Procs -> PCs]
  BY DEF Goto, LocalOK
<1>2. Finish(p) => LocalOK'
  BY JobsClosed DEF Finish, LocalOK, PCs
<1>3. ASSUME NEW point \in PCs, NEW ok \in BOOLEAN, Respond(p, point, ok)
      PROVE  LocalOK'
  <2>1. CASE job[p].draft = NoDraft
    BY <1>2, <1>3, <2>1 DEF Respond
  <2>2. CASE job[p].draft # NoDraft
    <3>1. [job[p] EXCEPT !.ok = ok] \in Jobs
      BY JobsClosed DEF LocalOK
    <3>2. job' = [job EXCEPT ![p] = [job[p] EXCEPT !.ok = ok]]
      BY <1>3, <2>2 DEF Respond, LocalOK
    <3>3. QED
      BY <1>1, <1>3, <2>2, <3>1, <3>2 DEF Respond, LocalOK
  <2>3. QED
    BY <2>1, <2>2
<1>4. RespondUnclear(p) => LocalOK'
  BY <1>3 DEF RespondUnclear, PCs
<1>5. QED
  BY <1>1, <1>2, <1>3, <1>4


TableOK ==
  /\ status \in [Drafts -> Statuses]
  /\ sendAt \in [Drafts -> SendTimes]
  /\ body \in [Drafts -> Bodies]
  /\ claimedFor \in [Keys -> Bodies \cup {NoBody}]
  /\ replay \in [Keys -> BOOLEAN]

OtherOK ==
  /\ batch \in SUBSET Drafts
  /\ polledAt \in Times
  /\ now \in Times
  /\ requests \in 0..MaxRequests
  /\ faults \in 0..MaxFaults
  /\ accepted \in [Drafts -> SUBSET Routes]
  /\ keyAccepts \in [Keys -> Nat]
  /\ autoSpent \in SUBSET Drafts
  /\ parked \in SUBSET Drafts

\* Every step keeps the processes' local state well-typed.
LEMMA LocalStep == TableOK /\ LocalOK /\ JobInv /\ [Next]_vars => LocalOK'
<1> SUFFICES ASSUME TableOK, LocalOK, JobInv, [Next]_vars PROVE LocalOK'
  OBVIOUS
<1> USE DEF Procs
<1>1. ASSUME NEW h \in Handlers, NEW d \in Drafts \ Unreadable,
             NEW b \in Bodies, NEW t \in Times \cup {NoTime},
             CreateDraft(h, d, b, t)
      PROVE  LocalOK'
  BY <1>1 DEF CreateDraft, LocalOK, local
<1>2. ASSUME NEW h \in Handlers, NEW d \in Drafts \ Unreadable,
             NEW b \in Bodies, NEW t \in Times \cup {NoTime},
             EditRead(h, d, b, t)
      PROVE  LocalOK'
  <2>1. [NoJob EXCEPT !.draft = d, !.body = b, !.at = t] \in Jobs
    BY JobsClosed DEF SendTimes
  <2>2. QED
    BY <1>2, <2>1, ControlType DEF EditRead, PCs, LocalOK
<1>3. ASSUME NEW h \in Handlers, NEW d \in Drafts, DeleteDraft(h, d)
      PROVE  LocalOK'
  BY <1>3 DEF DeleteDraft, LocalOK, local
<1>4. ASSUME NEW h \in Handlers, NEW d \in Drafts, NEW k \in Keys \cup {NoKey}, SendRead(h, d, k)
      PROVE  LocalOK'
  <2>1. DEFINE s == IF status[d] = "failed" THEN "failed" ELSE "draft"
  <2>2. [NoJob EXCEPT !.draft = d, !.key = k, !.back = s] \in Jobs
    BY JobsClosed DEF BackTo
  <2>3. QED
    BY <1>4, <2>2, ControlType DEF SendRead, PCs, LocalOK
<1>5. ASSUME NEW h \in Handlers, NEW k \in Keys, NEW b \in Bodies, DirectSend(h, k, b)
      PROVE  LocalOK'
  <2>1. [NoJob EXCEPT !.key = k, !.body = b] \in Jobs
    BY JobsClosed
  <2>2. QED
    BY <1>5, <2>1, ControlType DEF DirectSend, PCs, LocalOK
<1>6. ASSUME NEW h \in Handlers, EditWrite(h)
      PROVE  LocalOK'
  BY <1>6, ControlType DEF EditWrite, PCs
<1>7. ASSUME NEW h \in Handlers, SendClaim(h)
      PROVE  LocalOK'
  <2>1. CASE status[job[h].draft] \notin Editable
    BY <1>7, <2>1, ControlType DEF SendClaim
  <2>2. CASE status[job[h].draft] \in Editable
    <3>. DEFINE d == job[h].draft
                s == IF job[h].back = "failed" THEN "failed"
                     ELSE IF sendAt[d] # NoTime THEN "scheduled" ELSE "draft"
    <3>1. body[d] \in Bodies
      BY <1>7 DEF SendClaim, JobInv, JobInvOf, TableOK, Procs
    <3>2. [job[h] EXCEPT !.body = body[d], !.back = s] \in Jobs
      BY <3>1, JobsClosed DEF BackTo, LocalOK, Procs
    <3>3. job' = [job EXCEPT ![h] = [job[h] EXCEPT !.body = body[d], !.back = s]]
      BY <1>7, <2>2 DEF SendClaim
    <3>4. Goto(h, "check")
      BY <1>7, <2>2 DEF SendClaim
    <3>. HIDE DEF s
    <3>5. QED
      BY <3>2, <3>3, <3>4, ControlType DEF PCs, LocalOK, Procs
  <2>3. QED
    BY <2>1, <2>2
<1>8. ASSUME NEW h \in Handlers, Disconnect(h)
      PROVE  LocalOK'
  BY <1>8, ControlType DEF Disconnect, PCs
<1>9. ASSUME Poll
      PROVE  LocalOK'
  BY <1>9 DEF Poll, LocalOK, local
<1>10. ASSUME NEW d \in Drafts, DueRead(d)
      PROVE  LocalOK'
  <2>1. sendAt[d] \in SendTimes
    BY DEF TableOK
  <2>2. [NoJob EXCEPT !.draft = d, !.at = sendAt[d], !.back = "failed"] \in Jobs
    BY <2>1, JobsClosed DEF BackTo
  <2>3. QED
    BY <1>10, <2>2, ControlType DEF DueRead, PCs, local, LocalOK
<1>11. ASSUME DueClaim
      PROVE  LocalOK'
  <2>1. body[job[Scheduler].draft] \in Bodies
    BY <1>11 DEF DueClaim, JobInv, JobInvOf, TableOK
  <2>2. [job[Scheduler] EXCEPT !.body = body[job[Scheduler].draft]] \in Jobs
    BY <2>1, JobsClosed DEF LocalOK, Procs
  <2>3. QED
    BY <1>11, <2>2, ControlType DEF DueClaim, PCs, LocalOK
<1>12. ASSUME NEW p \in Procs, CheckRefused(p)
      PROVE  LocalOK'
  BY <1>12, ControlType DEF CheckRefused, PCs
<1>13. ASSUME NEW p \in Procs, CheckPassed(p)
      PROVE  LocalOK'
  BY <1>13, ControlType DEF CheckPassed, PCs, LocalOK
<1>14. ASSUME NEW p \in Procs, ClaimKey(p)
      PROVE  LocalOK'
  BY <1>14, ControlType DEF ClaimKey, PCs, LocalOK
<1>15. ASSUME NEW p \in Procs, TransportAccepts(p)
      PROVE  LocalOK'
  BY <1>15, ControlType DEF TransportAccepts, PCs, LocalOK
<1>16. ASSUME NEW p \in Procs, SendFails(p)
      PROVE  LocalOK'
  BY <1>16, ControlType DEF SendFails, PCs
<1>17. ASSUME NEW p \in Procs, SendRecorded(p)
      PROVE  LocalOK'
  BY <1>17, ControlType DEF SendRecorded, PCs, LocalOK
<1>18. ASSUME NEW p \in Procs, CompleteKey(p)
      PROVE  LocalOK'
  BY <1>18, ControlType DEF CompleteKey, PCs
<1>19. ASSUME NEW p \in Procs, Recheck(p)
      PROVE  LocalOK'
  BY <1>19, ControlType DEF Recheck, PCs, LocalOK
<1>20. ASSUME NEW p \in Procs, Settle(p)
      PROVE  LocalOK'
  BY <1>20, ControlType DEF Settle, PCs
<1>21. ASSUME NEW p \in Procs, StoreFails(p)
      PROVE  LocalOK'
  BY <1>21, ControlType DEF StoreFails, PCs
<1>22. ASSUME Tick
      PROVE  LocalOK'
  BY <1>22 DEF Tick, LocalOK, local
<1>23. ASSUME Crash
      PROVE  LocalOK'
  BY <1>23, JobsClosed DEF Crash, PCs, LocalOK
<1>24. CASE UNCHANGED vars
  BY <1>24 DEF LocalOK, vars, table, claims, local, poll, world, history
<1>25. QED
  BY <1>1, <1>2, <1>3, <1>4, <1>5, <1>6, <1>7, <1>8, <1>9, <1>10, <1>11, <1>12, <1>13, <1>14, <1>15, <1>16, <1>17, <1>18, <1>19, <1>20, <1>21, <1>22, <1>23, <1>24 DEF Next, OwnerStep, SchedulerStep, SendStep

\* Every step keeps the tables well-typed: what is written comes from a
\* request or from the local state of its handler.
LEMMA TableStep == TableOK /\ LocalOK /\ JobInv /\ [Next]_vars => TableOK'
<1> SUFFICES ASSUME TableOK, LocalOK, JobInv, [Next]_vars PROVE TableOK'
  OBVIOUS
<1> USE DEF TableOK, table, claims
<1>1. ASSUME NEW h \in Handlers, NEW d \in Drafts \ Unreadable,
             NEW b \in Bodies, NEW t \in Times \cup {NoTime},
             CreateDraft(h, d, b, t)
      PROVE  TableOK'
  BY <1>1 DEF CreateDraft, Statuses, SendTimes
<1>2. ASSUME NEW h \in Handlers, NEW d \in Drafts \ Unreadable,
             NEW b \in Bodies, NEW t \in Times \cup {NoTime},
             EditRead(h, d, b, t)
      PROVE  TableOK'
  BY <1>2 DEF EditRead
<1>3. ASSUME NEW h \in Handlers, NEW d \in Drafts, DeleteDraft(h, d)
      PROVE  TableOK'
  BY <1>3 DEF DeleteDraft, Statuses
<1>4. ASSUME NEW h \in Handlers, NEW d \in Drafts, NEW k \in Keys \cup {NoKey}, SendRead(h, d, k)
      PROVE  TableOK'
  BY <1>4 DEF SendRead
<1>5. ASSUME NEW h \in Handlers, NEW k \in Keys, NEW b \in Bodies, DirectSend(h, k, b)
      PROVE  TableOK'
  BY <1>5 DEF DirectSend
<1>6. ASSUME NEW h \in Handlers, EditWrite(h)
      PROVE  TableOK'
  BY <1>6 DEF EditWrite, Statuses, SendTimes, JobInv, JobInvOf, LocalOK, Procs, Jobs
<1>7. ASSUME NEW h \in Handlers, SendClaim(h)
      PROVE  TableOK'
  BY <1>7 DEF SendClaim, Statuses
<1>8. ASSUME NEW h \in Handlers, Disconnect(h)
      PROVE  TableOK'
  BY <1>8 DEF Disconnect
<1>9. ASSUME Poll
      PROVE  TableOK'
  BY <1>9 DEF Poll
<1>10. ASSUME NEW d \in Drafts, DueRead(d)
      PROVE  TableOK'
  BY <1>10 DEF DueRead
<1>11. ASSUME DueClaim
      PROVE  TableOK'
  BY <1>11 DEF DueClaim, Statuses
<1>12. ASSUME NEW p \in Procs, CheckRefused(p)
      PROVE  TableOK'
  BY <1>12 DEF CheckRefused
<1>13. ASSUME NEW p \in Procs, CheckPassed(p)
      PROVE  TableOK'
  BY <1>13 DEF CheckPassed
<1>14. ASSUME NEW p \in Procs, ClaimKey(p)
      PROVE  TableOK'
  BY <1>14 DEF ClaimKey, JobInv, JobInvOf, ClaimPCs
<1>15. ASSUME NEW p \in Procs, TransportAccepts(p)
      PROVE  TableOK'
  BY <1>15 DEF TransportAccepts
<1>16. ASSUME NEW p \in Procs, SendFails(p)
      PROVE  TableOK'
  BY <1>16 DEF SendFails
<1>17. ASSUME NEW p \in Procs, SendRecorded(p)
      PROVE  TableOK'
  BY <1>17 DEF SendRecorded
<1>18. ASSUME NEW p \in Procs, CompleteKey(p)
      PROVE  TableOK'
  BY <1>18 DEF CompleteKey
<1>19. ASSUME NEW p \in Procs, Recheck(p)
      PROVE  TableOK'
  BY <1>19 DEF Recheck
<1>20. ASSUME NEW p \in Procs, Settle(p)
      PROVE  TableOK'
  BY <1>20 DEF Settle, Statuses, SendTimes, BackTo, LocalOK, Jobs
<1>21. ASSUME NEW p \in Procs, StoreFails(p)
      PROVE  TableOK'
  BY <1>21 DEF StoreFails
<1>22. ASSUME Tick
      PROVE  TableOK'
  BY <1>22 DEF Tick
<1>23. ASSUME Crash
      PROVE  TableOK'
  BY <1>23 DEF Crash
<1>24. CASE UNCHANGED vars
  BY <1>24 DEF vars, table, claims, local, poll, world, history
<1>25. QED
  BY <1>1, <1>2, <1>3, <1>4, <1>5, <1>6, <1>7, <1>8, <1>9, <1>10, <1>11, <1>12, <1>13, <1>14, <1>15, <1>16, <1>17, <1>18, <1>19, <1>20, <1>21, <1>22, <1>23, <1>24 DEF Next, OwnerStep, SchedulerStep, SendStep

\* Every step keeps the poll, the clock, the bounds and the history
\* well-typed.
LEMMA OtherStep == OtherOK /\ LocalOK /\ JobInv /\ [Next]_vars => OtherOK'
<1> SUFFICES ASSUME OtherOK, LocalOK, JobInv, [Next]_vars PROVE OtherOK'
  OBVIOUS
<1> USE Bounds DEF OtherOK, poll, world, history, Times, Request
<1>1. ASSUME NEW h \in Handlers, NEW d \in Drafts \ Unreadable,
             NEW b \in Bodies, NEW t \in Times \cup {NoTime},
             CreateDraft(h, d, b, t)
      PROVE  OtherOK'
  BY <1>1 DEF CreateDraft
<1>2. ASSUME NEW h \in Handlers, NEW d \in Drafts \ Unreadable,
             NEW b \in Bodies, NEW t \in Times \cup {NoTime},
             EditRead(h, d, b, t)
      PROVE  OtherOK'
  BY <1>2 DEF EditRead
<1>3. ASSUME NEW h \in Handlers, NEW d \in Drafts, DeleteDraft(h, d)
      PROVE  OtherOK'
  BY <1>3 DEF DeleteDraft
<1>4. ASSUME NEW h \in Handlers, NEW d \in Drafts, NEW k \in Keys \cup {NoKey}, SendRead(h, d, k)
      PROVE  OtherOK'
  BY <1>4 DEF SendRead
<1>5. ASSUME NEW h \in Handlers, NEW k \in Keys, NEW b \in Bodies, DirectSend(h, k, b)
      PROVE  OtherOK'
  BY <1>5 DEF DirectSend
<1>6. ASSUME NEW h \in Handlers, EditWrite(h)
      PROVE  OtherOK'
  BY <1>6 DEF EditWrite
<1>7. ASSUME NEW h \in Handlers, SendClaim(h)
      PROVE  OtherOK'
  BY <1>7 DEF SendClaim
<1>8. ASSUME NEW h \in Handlers, Disconnect(h)
      PROVE  OtherOK'
  BY <1>8 DEF Disconnect
<1>9. ASSUME Poll
      PROVE  OtherOK'
  BY <1>9 DEF Poll, DueBatches
<1>10. ASSUME NEW d \in Drafts, DueRead(d)
      PROVE  OtherOK'
  BY <1>10 DEF DueRead
<1>11. ASSUME DueClaim
      PROVE  OtherOK'
  BY <1>11 DEF DueClaim
<1>12. ASSUME NEW p \in Procs, CheckRefused(p)
      PROVE  OtherOK'
  BY <1>12 DEF CheckRefused
<1>13. ASSUME NEW p \in Procs, CheckPassed(p)
      PROVE  OtherOK'
  BY <1>13 DEF CheckPassed
<1>14. ASSUME NEW p \in Procs, ClaimKey(p)
      PROVE  OtherOK'
  BY <1>14 DEF ClaimKey
<1>15. ASSUME NEW p \in Procs, TransportAccepts(p)
      PROVE  OtherOK'
  <2>1. Route(p) \in Routes
    BY DEF Route, Routes
  <2>2. accepted' \in [Drafts -> SUBSET Routes]
    BY <1>15, <2>1 DEF TransportAccepts
  <2>3. keyAccepts' \in [Keys -> Nat]
    <3>1. CASE job[p].key \in Keys
      <4>1. keyAccepts[job[p].key] + 1 \in Nat
        BY <3>1
      <4>2. QED
        BY <1>15, <3>1, <4>1, Sentinels DEF TransportAccepts
    <3>2. CASE job[p].key \notin Keys
      BY <1>15, <3>2, JobsClosed DEF TransportAccepts, LocalOK
    <3>3. QED
      BY <3>1, <3>2
  <2>4. p = Scheduler => job[p].draft \in Drafts
    BY <1>15 DEF TransportAccepts, JobInv, JobInvOf
  <2>5. QED
    BY <1>15, <2>2, <2>3, <2>4 DEF TransportAccepts
<1>16. ASSUME NEW p \in Procs, SendFails(p)
      PROVE  OtherOK'
  BY <1>16 DEF SendFails
<1>17. ASSUME NEW p \in Procs, SendRecorded(p)
      PROVE  OtherOK'
  BY <1>17 DEF SendRecorded
<1>18. ASSUME NEW p \in Procs, CompleteKey(p)
      PROVE  OtherOK'
  BY <1>18 DEF CompleteKey
<1>19. ASSUME NEW p \in Procs, Recheck(p)
      PROVE  OtherOK'
  BY <1>19 DEF Recheck
<1>20. ASSUME NEW p \in Procs, Settle(p)
      PROVE  OtherOK'
  <2>1. job[p].draft \in Drafts
    BY <1>20 DEF Settle, JobInv, JobInvOf
  <2>2. QED
    BY <1>20, <2>1 DEF Settle
<1>21. ASSUME NEW p \in Procs, StoreFails(p)
      PROVE  OtherOK'
  BY <1>21 DEF StoreFails
<1>22. ASSUME Tick
      PROVE  OtherOK'
  BY <1>22 DEF Tick
<1>23. ASSUME Crash
      PROVE  OtherOK'
  BY <1>23 DEF Crash
<1>24. CASE UNCHANGED vars
  BY <1>24 DEF vars, table, claims, local, poll, world, history
<1>25. QED
  BY <1>1, <1>2, <1>3, <1>4, <1>5, <1>6, <1>7, <1>8, <1>9, <1>10, <1>11, <1>12, <1>13, <1>14, <1>15, <1>16, <1>17, <1>18, <1>19, <1>20, <1>21, <1>22, <1>23, <1>24 DEF Next, OwnerStep, SchedulerStep, SendStep

-----------------------------------------------------------------------------
(* What a step does to the process that takes it                           *)

\* What a control step of process p leaves alone.
OthersKeep(p) ==
  \A q \in Procs \ {p} : pc'[q] = pc[q] /\ job'[q] = job[q]

\* p still works for the same request.
Keeps(p) ==
  /\ job'[p].draft = job[p].draft
  /\ job'[p].key = job[p].key
  /\ job'[p].body = job[p].body
  /\ job'[p].at = job[p].at
  /\ job'[p].back = job[p].back

\* p is done with its request.
Stops(p) == pc'[p] = "idle" /\ job'[p] = NoJob

\* What the control operators do.
LEMMA ControlEffect ==
  ASSUME LocalOK, NEW p \in Procs
  PROVE  /\ Finish(p) => OthersKeep(p) /\ Stops(p)
         /\ \A point \in PCs :
              /\ Goto(p, point) => pc'[p] = point /\ \A q \in Procs \ {p} : pc'[q] = pc[q]
              /\ Goto(p, point) /\ UNCHANGED job =>
                   OthersKeep(p) /\ pc'[p] = point /\ job'[p] = job[p]
         /\ \A point \in PCs, ok \in BOOLEAN :
              Respond(p, point, ok) =>
                /\ OthersKeep(p)
                /\ job[p].draft = NoDraft => Stops(p)
                /\ job[p].draft # NoDraft => pc'[p] = point /\ Keeps(p) /\ job'[p].ok = ok
         /\ RespondUnclear(p) =>
              /\ OthersKeep(p)
              /\ job[p].draft = NoDraft => Stops(p)
              /\ job[p].draft # NoDraft =>
                   /\ pc'[p] = IF Keyed(p) THEN "recheck" ELSE "settle"
                   /\ Keeps(p)
                   /\ job'[p].ok = FALSE
<1>1. Finish(p) => OthersKeep(p) /\ Stops(p)
  BY DEF Finish, LocalOK, OthersKeep, Stops
<1>2. ASSUME NEW point \in PCs
      PROVE  /\ Goto(p, point) => pc'[p] = point /\ \A q \in Procs \ {p} : pc'[q] = pc[q]
             /\ Goto(p, point) /\ UNCHANGED job =>
                  OthersKeep(p) /\ pc'[p] = point /\ job'[p] = job[p]
  BY DEF Goto, LocalOK, OthersKeep
<1>3. ASSUME NEW point \in PCs, NEW ok \in BOOLEAN, Respond(p, point, ok)
      PROVE  /\ OthersKeep(p)
             /\ job[p].draft = NoDraft => Stops(p)
             /\ job[p].draft # NoDraft => pc'[p] = point /\ Keeps(p) /\ job'[p].ok = ok
  <2>1. CASE job[p].draft = NoDraft
    BY <1>1, <1>3, <2>1 DEF Respond
  <2>2. CASE job[p].draft # NoDraft
    <3>1. Goto(p, point) /\ job' = [job EXCEPT ![p].ok = ok]
      BY <1>3, <2>2 DEF Respond
    <3>2. \A q \in Procs \ {p} : job'[q] = job[q]
      BY <3>1 DEF LocalOK
    <3>3. job'[p] = [job[p] EXCEPT !.ok = ok]
      BY <3>1 DEF LocalOK
    <3>4. job[p] \in Jobs
      BY DEF LocalOK
    <3>5. Keeps(p) /\ job'[p].ok = ok
      BY <3>3, <3>4 DEF Keeps, Jobs
    <3>6. QED
      BY <1>2, <2>2, <3>1, <3>2, <3>5 DEF OthersKeep
  <2>3. QED
    BY <2>1, <2>2
<1>4. ASSUME RespondUnclear(p)
      PROVE  /\ OthersKeep(p)
             /\ job[p].draft = NoDraft => Stops(p)
             /\ job[p].draft # NoDraft =>
                  /\ pc'[p] = IF Keyed(p) THEN "recheck" ELSE "settle"
                  /\ Keeps(p)
                  /\ job'[p].ok = FALSE
  <2>1. (IF Keyed(p) THEN "recheck" ELSE "settle") \in PCs
    BY DEF PCs
  <2>2. QED
    BY <1>3, <1>4, <2>1 DEF RespondUnclear
<1>5. QED
  BY <1>1, <1>2, <1>3, <1>4

\* A step of p breaks the invariant of local variables only for p itself.
LEMMA JobFrame ==
  ASSUME JobInv, NEW p \in Procs, OthersKeep(p), JobInvOf(p)'
  PROVE  JobInv'
BY DEF JobInv, JobInvOf, OthersKeep, Keyed

\* An idle process satisfies it.
LEMMA StopsJob == ASSUME NEW p \in Procs, Stops(p) PROVE JobInvOf(p)'
BY Sentinels DEF Stops, JobInvOf, Keyed, NoJob, ClaimPCs

\* The effect of every action on its own process, named after the action.
LEMMA EditReadEffect ==
  ASSUME LocalOK, NEW h \in Handlers, NEW d \in Drafts, NEW b \in Bodies, NEW t \in SendTimes, EditRead(h, d, b, t)
  PROVE  /\ OthersKeep(h)
         /\ pc'[h] = "edit"
         /\ job'[h].draft = d
         /\ job'[h].key = NoKey
         /\ job'[h].body = b
BY ControlEffect, JobsClosed, Sentinels DEF EditRead, LocalOK, Procs, PCs, OthersKeep, Goto, NoJob

\* update_draft ends with its write.
LEMMA EditWriteEffect ==
  ASSUME LocalOK, NEW h \in Handlers, EditWrite(h)
  PROVE  /\ OthersKeep(h)
         /\ Stops(h)
BY ControlEffect, JobsClosed, Sentinels DEF EditWrite, LocalOK, Procs, PCs, OthersKeep, Goto

\* A dropped request leaves nothing behind.
LEMMA DisconnectEffect ==
  ASSUME LocalOK, NEW h \in Handlers, Disconnect(h)
  PROVE  /\ OthersKeep(h)
         /\ Stops(h)
BY ControlEffect, JobsClosed, Sentinels DEF Disconnect, LocalOK, Procs, PCs, OthersKeep, Goto

\* send_draft remembers the row it read and its key.
LEMMA SendReadEffect ==
  ASSUME LocalOK, NEW h \in Handlers, NEW d \in Drafts, NEW k \in Keys \cup {NoKey}, SendRead(h, d, k)
  PROVE  /\ OthersKeep(h)
         /\ pc'[h] = "claim"
         /\ job'[h].draft = d
         /\ job'[h].key = k
BY ControlEffect, JobsClosed, Sentinels DEF SendRead, LocalOK, Procs, PCs, OthersKeep, Goto, NoJob

\* POST /send starts with a key and no draft.
LEMMA DirectSendEffect ==
  ASSUME LocalOK, NEW h \in Handlers, NEW k \in Keys, NEW b \in Bodies, DirectSend(h, k, b)
  PROVE  /\ OthersKeep(h)
         /\ pc'[h] = "check"
         /\ job'[h].draft = NoDraft
         /\ job'[h].key = k
         /\ job'[h].body = b
BY ControlEffect, JobsClosed, Sentinels DEF DirectSend, LocalOK, Procs, PCs, OthersKeep, Goto, NoJob

\* send_draft goes on only with a claim, and sends the row's contents.
LEMMA SendClaimEffect ==
  ASSUME LocalOK, NEW h \in Handlers, SendClaim(h)
  PROVE  /\ OthersKeep(h)
         /\ status[job[h].draft] \notin Editable => Stops(h)
         /\ status[job[h].draft] \in Editable =>
              /\ pc'[h] = "check"
              /\ job'[h].draft = job[h].draft
              /\ job'[h].key = job[h].key
              /\ job'[h].body = body[job[h].draft]
<1>. DEFINE d == job[h].draft
<1>1. CASE status[d] \notin Editable
  BY <1>1, ControlEffect DEF SendClaim, Procs
<1>2. CASE status[d] \in Editable
  <2>. DEFINE s == IF job[h].back = "failed" THEN "failed"
                  ELSE IF sendAt[d] # NoTime THEN "scheduled" ELSE "draft"
  <2>1. /\ Goto(h, "check")
        /\ job' = [job EXCEPT ![h].body = body[d], ![h].back = s]
    BY <1>2 DEF SendClaim
  <2>. HIDE DEF s
  <2>2. job'[h] = [job[h] EXCEPT !.body = body[d], !.back = s] /\ job[h] \in Jobs
    BY <2>1 DEF LocalOK, Procs
  <2>3. /\ job'[h].draft = d
        /\ job'[h].key = job[h].key
        /\ job'[h].body = body[d]
    BY <2>2 DEF Jobs
  <2>4. OthersKeep(h) /\ pc'[h] = "check"
    BY <2>1, ControlEffect DEF LocalOK, Procs, PCs, OthersKeep
  <2>5. QED
    BY <1>2, <2>3, <2>4
<1>3. QED
  BY <1>1, <1>2

\* The scheduler takes up a due draft, or skips it.
LEMMA DueReadEffect ==
  ASSUME LocalOK, NEW d \in Drafts, DueRead(d)
  PROVE  /\ OthersKeep(Scheduler)
         /\ \/ UNCHANGED local
            \/ /\ pc'[Scheduler] = "claim"
               /\ job'[Scheduler].draft = d
               /\ job'[Scheduler].key = NoKey
               /\ job'[Scheduler].back = "failed"
<1>1. CASE UNCHANGED local
  BY <1>1 DEF OthersKeep, local
<1>2. CASE Goto(Scheduler, "claim") /\ job' = [job EXCEPT ![Scheduler] =
                [NoJob EXCEPT !.draft = d, !.at = sendAt[d], !.back = "failed"]]
  <2>1. job'[Scheduler] = [NoJob EXCEPT !.draft = d, !.at = sendAt[d], !.back = "failed"]
    BY <1>2 DEF LocalOK, Procs
  <2>2. /\ job'[Scheduler].draft = d
        /\ job'[Scheduler].key = NoKey
        /\ job'[Scheduler].back = "failed"
    BY <2>1 DEF NoJob
  <2>3. OthersKeep(Scheduler) /\ pc'[Scheduler] = "claim"
    BY <1>2, ControlEffect DEF LocalOK, Procs, PCs, OthersKeep
  <2>4. QED
    BY <2>2, <2>3
<1>3. QED
  BY <1>1, <1>2 DEF DueRead

\* The scheduler goes on only with a claim, and sends the row's contents.
LEMMA DueClaimEffect ==
  ASSUME LocalOK, DueClaim
  PROVE  /\ OthersKeep(Scheduler)
         /\ LET d == job[Scheduler].draft
            IN  IF status[d] = "scheduled" /\ sendAt[d] = job[Scheduler].at
                THEN /\ pc'[Scheduler] = "check"
                     /\ job'[Scheduler].draft = d
                     /\ job'[Scheduler].key = job[Scheduler].key
                     /\ job'[Scheduler].body = body[d]
                     /\ job'[Scheduler].back = job[Scheduler].back
                ELSE Stops(Scheduler)
<1>. DEFINE d == job[Scheduler].draft
<1>1. CASE ~(status[d] = "scheduled" /\ sendAt[d] = job[Scheduler].at)
  BY <1>1, ControlEffect DEF DueClaim, Procs
<1>2. CASE status[d] = "scheduled" /\ sendAt[d] = job[Scheduler].at
  <2>1. /\ Goto(Scheduler, "check")
        /\ job' = [job EXCEPT ![Scheduler].body = body[d]]
    BY <1>2 DEF DueClaim
  <2>2. job'[Scheduler] = [job[Scheduler] EXCEPT !.body = body[d]] /\ job[Scheduler] \in Jobs
    BY <2>1 DEF LocalOK, Procs
  <2>3. /\ job'[Scheduler].draft = d
        /\ job'[Scheduler].key = job[Scheduler].key
        /\ job'[Scheduler].body = body[d]
        /\ job'[Scheduler].back = job[Scheduler].back
    BY <2>2 DEF Jobs
  <2>4. OthersKeep(Scheduler) /\ pc'[Scheduler] = "check"
    BY <2>1, ControlEffect DEF LocalOK, Procs, PCs, OthersKeep
  <2>5. QED
    BY <1>2, <2>3, <2>4
<1>3. QED
  BY <1>1, <1>2

\* The two ways a sender takes up the outcome of send_message.
Succeeds(p) ==
  IF job[p].draft = NoDraft THEN Stops(p)
  ELSE pc'[p] = "settle" /\ Keeps(p) /\ job'[p].ok

Fails(p) ==
  IF job[p].draft = NoDraft THEN Stops(p)
  ELSE pc'[p] = "settle" /\ Keeps(p) /\ ~job'[p].ok

FailsUnclear(p) ==
  IF job[p].draft = NoDraft THEN Stops(p)
  ELSE pc'[p] = (IF Keyed(p) THEN "recheck" ELSE "settle") /\ Keeps(p) /\ ~job'[p].ok

\* The sender moves on with the same local variables.
Advances(p, point) == pc'[p] = point /\ job'[p] = job[p]

\* A refusal is a failure.
LEMMA CheckRefusedEffect ==
  ASSUME LocalOK, NEW p \in Procs, CheckRefused(p)
  PROVE  /\ OthersKeep(p)
         /\ Fails(p)
BY ControlEffect, JobsClosed, Sentinels DEF CheckRefused, LocalOK, Procs, PCs, OthersKeep, Goto, Succeeds, Fails, FailsUnclear, Advances

\* A keyed send goes on only with a key nobody claimed.
LEMMA CheckPassedEffect ==
  ASSUME LocalOK, NEW p \in Procs, CheckPassed(p)
  PROVE  /\ OthersKeep(p)
         /\ IF ~Keyed(p) THEN Advances(p, "transport")
            ELSE CASE Lookup(job[p].key, job[p].body) = "none" -> Advances(p, "claimKey")
                   [] Lookup(job[p].key, job[p].body) = "replay" -> Succeeds(p)
                   [] OTHER -> FailsUnclear(p)
BY ControlEffect, JobsClosed, Sentinels DEF CheckPassed, LocalOK, Procs, PCs, OthersKeep, Goto, Succeeds, Fails, FailsUnclear, Advances

\* A keyed send reaches the transport only from a key nobody claimed.
LEMMA ClaimKeyEffect ==
  ASSUME LocalOK, NEW p \in Procs, ClaimKey(p)
  PROVE  /\ OthersKeep(p)
         /\ CASE Lookup(job[p].key, job[p].body) = "none" -> Advances(p, "transport")
              [] Lookup(job[p].key, job[p].body) = "replay" -> Succeeds(p)
              [] OTHER -> FailsUnclear(p)
BY ControlEffect, JobsClosed, Sentinels DEF ClaimKey, LocalOK, Procs, PCs, OthersKeep, Goto, Succeeds, Fails, FailsUnclear, Advances

\* The relay's acceptance changes no local variable.
LEMMA TransportAcceptsEffect ==
  ASSUME LocalOK, NEW p \in Procs, TransportAccepts(p)
  PROVE  /\ OthersKeep(p)
         /\ Advances(p, "accepted")
BY ControlEffect, JobsClosed, Sentinels DEF TransportAccepts, LocalOK, Procs, PCs, OthersKeep, Goto, Succeeds, Fails, FailsUnclear, Advances

\* An unclear failure of the transport.
LEMMA SendFailsEffect ==
  ASSUME LocalOK, NEW p \in Procs, SendFails(p)
  PROVE  /\ OthersKeep(p)
         /\ FailsUnclear(p)
BY ControlEffect, JobsClosed, Sentinels DEF SendFails, LocalOK, Procs, PCs, OthersKeep, Goto, Succeeds, Fails, FailsUnclear, Advances

\* The answer arrived.
LEMMA SendRecordedEffect ==
  ASSUME LocalOK, NEW p \in Procs, SendRecorded(p)
  PROVE  /\ OthersKeep(p)
         /\ IF Keyed(p) THEN Advances(p, "complete") ELSE Succeeds(p)
BY ControlEffect, JobsClosed, Sentinels DEF SendRecorded, LocalOK, Procs, PCs, OthersKeep, Goto, Succeeds, Fails, FailsUnclear, Advances

\* Only the pending claim is completed.
LEMMA CompleteKeyEffect ==
  ASSUME LocalOK, NEW p \in Procs, CompleteKey(p)
  PROVE  /\ OthersKeep(p)
         /\ IF claimedFor[job[p].key] = job[p].body /\ ~replay[job[p].key]
            THEN Succeeds(p) ELSE FailsUnclear(p)
BY ControlEffect, JobsClosed, Sentinels DEF CompleteKey, LocalOK, Procs, PCs, OthersKeep, Goto, Succeeds, Fails, FailsUnclear, Advances

\* Only a key never claimed for the request restores the draft.
LEMMA RecheckEffect ==
  ASSUME LocalOK, NEW p \in Procs, Recheck(p)
  PROVE  /\ OthersKeep(p)
         /\ IF Lookup(job[p].key, job[p].body) \in {"none", "conflict"}
            THEN Advances(p, "settle") ELSE Stops(p)
BY ControlEffect, JobsClosed, Sentinels DEF Recheck, LocalOK, Procs, PCs, OthersKeep, Goto, Succeeds, Fails, FailsUnclear, Advances

\* A settled send is over.
LEMMA SettleEffect ==
  ASSUME LocalOK, NEW p \in Procs, Settle(p)
  PROVE  /\ OthersKeep(p)
         /\ Stops(p)
BY ControlEffect, JobsClosed, Sentinels DEF Settle, LocalOK, Procs, PCs, OthersKeep, Goto

\* A failing store call ends the request or counts as an unclear failure.
LEMMA StoreFailsEffect ==
  ASSUME LocalOK, NEW p \in Procs, StoreFails(p)
  PROVE  /\ OthersKeep(p)
         /\ Stops(p) \/ FailsUnclear(p)
BY ControlEffect, JobsClosed, Sentinels DEF StoreFails, LocalOK, Procs, PCs, OthersKeep, Goto, Succeeds, Fails, FailsUnclear, Advances

\* A sender that takes up an outcome satisfies the invariant of local
\* variables.
LEMMA OutcomeJob ==
  ASSUME LocalOK, NEW p \in Procs, JobInvOf(p), pc[p] \in ClaimPCs,
         Succeeds(p) \/ Fails(p) \/ FailsUnclear(p)
  PROVE  JobInvOf(p)'
<1>1. CASE job[p].draft = NoDraft
  BY <1>1, StopsJob DEF Succeeds, Fails, FailsUnclear
<1>2. CASE job[p].draft # NoDraft
  <2>1. job[p].draft \in Drafts
    BY <1>2 DEF LocalOK, Jobs
  <2>2. Keeps(p) /\ pc'[p] \in {"settle", IF Keyed(p) THEN "recheck" ELSE "settle"}
    BY <1>2 DEF Succeeds, Fails, FailsUnclear
  <2>3. QED
    BY <2>1, <2>2 DEF JobInvOf, Keeps, Keyed, ClaimPCs
<1>3. QED
  BY <1>1, <1>2

\* Every step keeps what the program points say of the local variables.
LEMMA JobStep == TableOK /\ LocalOK /\ JobInv /\ [Next]_vars => JobInv'
<1> SUFFICES ASSUME TableOK, LocalOK, JobInv, [Next]_vars PROVE JobInv'
  OBVIOUS
<1>1. ASSUME NEW h \in Handlers, NEW d \in Drafts \ Unreadable,
             NEW b \in Bodies, NEW t \in Times \cup {NoTime},
             CreateDraft(h, d, b, t)
      PROVE  JobInv'
  BY <1>1 DEF CreateDraft, local, JobInv, JobInvOf, Keyed
<1>2. ASSUME NEW h \in Handlers, NEW d \in Drafts \ Unreadable,
             NEW b \in Bodies, NEW t \in Times \cup {NoTime},
             EditRead(h, d, b, t)
      PROVE  JobInv'
  <2>1. OthersKeep(h) /\ pc'[h] = "edit" /\ job'[h].draft = d /\ job'[h].key = NoKey /\ job'[h].body = b
    BY <1>2, EditReadEffect DEF SendTimes
  <2>2. JobInvOf(h)'
    BY <2>1, SchedulerIsNotAHandler DEF JobInvOf, ClaimPCs
  <2>3. QED
    BY <2>1, <2>2, JobFrame DEF Procs
<1>3. ASSUME NEW h \in Handlers, NEW d \in Drafts, DeleteDraft(h, d)
      PROVE  JobInv'
  BY <1>3 DEF DeleteDraft, local, JobInv, JobInvOf, Keyed
<1>4. ASSUME NEW h \in Handlers, NEW d \in Drafts, NEW k \in Keys \cup {NoKey}, SendRead(h, d, k)
      PROVE  JobInv'
  <2>1. JobInvOf(h)'
    BY <1>4, SendReadEffect, StopsJob, SchedulerIsNotAHandler, Sentinels, ZenonT(60)
       DEF SendRead, JobInv, JobInvOf, Keyed, ClaimPCs, NoJob, TableOK, Procs, SendTimes, local
  <2>2. QED
    BY <1>4, <2>1, SendReadEffect, JobFrame DEF Procs, SendTimes
<1>5. ASSUME NEW h \in Handlers, NEW k \in Keys, NEW b \in Bodies, DirectSend(h, k, b)
      PROVE  JobInv'
  <2>1. OthersKeep(h) /\ pc'[h] = "check" /\ job'[h].body = b
    BY <1>5, DirectSendEffect DEF SendTimes
  <2>2. JobInvOf(h)'
    BY <2>1, SchedulerIsNotAHandler DEF JobInvOf, ClaimPCs
  <2>3. QED
    BY <2>1, <2>2, JobFrame DEF Procs
<1>6. ASSUME NEW h \in Handlers, EditWrite(h)
      PROVE  JobInv'
  BY <1>6, EditWriteEffect, StopsJob, JobFrame DEF Procs
<1>7. ASSUME NEW h \in Handlers, SendClaim(h)
      PROVE  JobInv'
  <2>1. JobInvOf(h)'
    BY <1>7, SendClaimEffect, StopsJob, SchedulerIsNotAHandler, Sentinels, SMTT(30)
       DEF SendClaim, JobInv, JobInvOf, Keyed, ClaimPCs, NoJob, TableOK, Procs, SendTimes, local
  <2>2. QED
    BY <1>7, <2>1, SendClaimEffect, JobFrame DEF Procs, SendTimes
<1>8. ASSUME NEW h \in Handlers, Disconnect(h)
      PROVE  JobInv'
  BY <1>8, DisconnectEffect, StopsJob, JobFrame DEF Procs
<1>9. ASSUME Poll
      PROVE  JobInv'
  BY <1>9 DEF Poll, local, JobInv, JobInvOf, Keyed
<1>10. ASSUME NEW d \in Drafts, DueRead(d)
      PROVE  JobInv'
  <2>1. JobInvOf(Scheduler)'
    BY <1>10, DueReadEffect, StopsJob, SchedulerIsNotAHandler, Sentinels
       DEF DueRead, JobInv, JobInvOf, Keyed, ClaimPCs, NoJob, TableOK, Procs, SendTimes, local
  <2>2. QED
    BY <1>10, <2>1, DueReadEffect, JobFrame DEF Procs, SendTimes
<1>11. ASSUME DueClaim
      PROVE  JobInv'
  <2>1. JobInvOf(Scheduler)'
    BY <1>11, DueClaimEffect, StopsJob, SchedulerIsNotAHandler, Sentinels
       DEF DueClaim, JobInv, JobInvOf, Keyed, ClaimPCs, NoJob, TableOK, Procs, SendTimes, local
  <2>2. QED
    BY <1>11, <2>1, DueClaimEffect, JobFrame DEF Procs, SendTimes
<1>12. ASSUME NEW p \in Procs, CheckRefused(p)
      PROVE  JobInv'
  <2>1. JobInvOf(p)'
    BY <1>12, CheckRefusedEffect, OutcomeJob, StopsJob
       DEF CheckRefused, JobInv, JobInvOf, Keyed, ClaimPCs, Advances
  <2>2. QED
    BY <1>12, <2>1, CheckRefusedEffect, JobFrame
<1>13. ASSUME NEW p \in Procs, CheckPassed(p)
      PROVE  JobInv'
  <2>1. JobInvOf(p)'
    BY <1>13, CheckPassedEffect, OutcomeJob, StopsJob
       DEF CheckPassed, JobInv, JobInvOf, Keyed, ClaimPCs, Advances
  <2>2. QED
    BY <1>13, <2>1, CheckPassedEffect, JobFrame
<1>14. ASSUME NEW p \in Procs, ClaimKey(p)
      PROVE  JobInv'
  <2>1. JobInvOf(p)'
    BY <1>14, ClaimKeyEffect, OutcomeJob, StopsJob
       DEF ClaimKey, JobInv, JobInvOf, Keyed, ClaimPCs, Advances
  <2>2. QED
    BY <1>14, <2>1, ClaimKeyEffect, JobFrame
<1>15. ASSUME NEW p \in Procs, TransportAccepts(p)
      PROVE  JobInv'
  <2>1. JobInvOf(p)'
    BY <1>15, TransportAcceptsEffect, OutcomeJob, StopsJob
       DEF TransportAccepts, JobInv, JobInvOf, Keyed, ClaimPCs, Advances
  <2>2. QED
    BY <1>15, <2>1, TransportAcceptsEffect, JobFrame
<1>16. ASSUME NEW p \in Procs, SendFails(p)
      PROVE  JobInv'
  <2>1. JobInvOf(p)'
    BY <1>16, SendFailsEffect, OutcomeJob, StopsJob
       DEF SendFails, JobInv, JobInvOf, Keyed, ClaimPCs, Advances
  <2>2. QED
    BY <1>16, <2>1, SendFailsEffect, JobFrame
<1>17. ASSUME NEW p \in Procs, SendRecorded(p)
      PROVE  JobInv'
  <2>1. JobInvOf(p)'
    BY <1>17, SendRecordedEffect, OutcomeJob, StopsJob
       DEF SendRecorded, JobInv, JobInvOf, Keyed, ClaimPCs, Advances
  <2>2. QED
    BY <1>17, <2>1, SendRecordedEffect, JobFrame
<1>18. ASSUME NEW p \in Procs, CompleteKey(p)
      PROVE  JobInv'
  <2>1. JobInvOf(p)'
    BY <1>18, CompleteKeyEffect, OutcomeJob, StopsJob
       DEF CompleteKey, JobInv, JobInvOf, Keyed, ClaimPCs, Advances
  <2>2. QED
    BY <1>18, <2>1, CompleteKeyEffect, JobFrame
<1>19. ASSUME NEW p \in Procs, Recheck(p)
      PROVE  JobInv'
  <2>1. JobInvOf(p)'
    BY <1>19, RecheckEffect, OutcomeJob, StopsJob
       DEF Recheck, JobInv, JobInvOf, Keyed, ClaimPCs, Advances
  <2>2. QED
    BY <1>19, <2>1, RecheckEffect, JobFrame
<1>20. ASSUME NEW p \in Procs, Settle(p)
      PROVE  JobInv'
  BY <1>20, SettleEffect, StopsJob, JobFrame DEF Procs
<1>21. ASSUME NEW p \in Procs, StoreFails(p)
      PROVE  JobInv'
  <2>1. CASE Stops(p)
    BY <1>21, <2>1, StoreFailsEffect, StopsJob, JobFrame
  <2>2. CASE ~Stops(p)
    <3>1. OthersKeep(p) /\ FailsUnclear(p)
      BY <1>21, <2>2, StoreFailsEffect
    <3>2. pc[p] \in ClaimPCs
      BY <1>21, <2>2, ControlEffect DEF StoreFails, ClaimPCs
    <3>3. QED
      BY <3>1, <3>2, OutcomeJob, JobFrame DEF JobInv
  <2>3. QED
    BY <2>1, <2>2
<1>22. ASSUME Tick
      PROVE  JobInv'
  BY <1>22 DEF Tick, local, JobInv, JobInvOf, Keyed
<1>23. ASSUME Crash
      PROVE  JobInv'
  BY <1>23, Sentinels DEF Crash, JobInv, JobInvOf, Keyed, NoJob, ClaimPCs
<1>24. CASE UNCHANGED vars
  BY <1>24 DEF JobInv, JobInvOf, Keyed, vars, table, claims, local, poll, world, history
<1>25. QED
  BY <1>1, <1>2, <1>3, <1>4, <1>5, <1>6, <1>7, <1>8, <1>9, <1>10, <1>11, <1>12, <1>13, <1>14, <1>15, <1>16, <1>17, <1>18, <1>19, <1>20, <1>21, <1>22, <1>23, <1>24 DEF Next, OwnerStep, SchedulerStep, SendStep

-----------------------------------------------------------------------------
(* Ownership of drafts                                                     *)

\* A step that creates no claim and moves no claimed sender to other contents.
NoNewClaims ==
  \A q \in Procs, d \in Drafts :
    Holds(q, d)' => Holds(q, d) /\ job'[q].body = job[q].body

\* A sender that stops, or goes on with the claim it has, claims nothing.
LEMMA StillOwner ==
  ASSUME LocalOK, NEW p \in Procs, OthersKeep(p),
         \/ Stops(p)
         \/ /\ pc[p] \in ClaimPCs
            /\ \/ Succeeds(p) \/ Fails(p) \/ FailsUnclear(p)
               \/ \E point \in ClaimPCs : Advances(p, point)
  PROVE  NoNewClaims
<1> SUFFICES ASSUME NEW q \in Procs, NEW d \in Drafts, Holds(q, d)'
             PROVE  Holds(q, d) /\ job'[q].body = job[q].body
  BY DEF NoNewClaims
<1>1. CASE q # p
  BY <1>1 DEF Holds, OthersKeep
<1>2. CASE q = p
  <2>1. ~Stops(p)
    BY <1>2, Sentinels DEF Stops, Holds, ClaimPCs
  <2>2. pc[p] \in ClaimPCs /\ job'[p].draft = job[p].draft /\ job'[p].body = job[p].body
    BY <2>1 DEF Succeeds, Fails, FailsUnclear, Advances, Keeps
  <2>3. QED
    BY <1>2, <2>2 DEF Holds
<1>3. QED
  BY <1>1, <1>2

\* No step of send_message claims a draft.
LEMMA SendStepClaims ==
  ASSUME LocalOK, JobInv, NEW p \in Procs, SendStep(p)
  PROVE  NoNewClaims
<1>1. CASE Settle(p) \/ Recheck(p)
  BY <1>1, SettleEffect, RecheckEffect, StillOwner DEF Recheck, ClaimPCs
<1>2. CASE CheckRefused(p)
  BY <1>2, CheckRefusedEffect, StillOwner DEF CheckRefused, ClaimPCs
<1>3. CASE CheckPassed(p)
  <2>1. \/ Succeeds(p) \/ FailsUnclear(p)
        \/ Advances(p, "transport") \/ Advances(p, "claimKey")
    BY <1>3, CheckPassedEffect
  <2>2. QED
    BY <1>3, <2>1, CheckPassedEffect, StillOwner DEF CheckPassed, ClaimPCs
<1>4. CASE ClaimKey(p)
  <2>1. Succeeds(p) \/ FailsUnclear(p) \/ Advances(p, "transport")
    BY <1>4, ClaimKeyEffect
  <2>2. QED
    BY <1>4, <2>1, ClaimKeyEffect, StillOwner DEF ClaimKey, ClaimPCs
<1>5. CASE TransportAccepts(p)
  BY <1>5, TransportAcceptsEffect, StillOwner DEF TransportAccepts, ClaimPCs
<1>6. CASE SendFails(p)
  BY <1>6, SendFailsEffect, StillOwner DEF SendFails, ClaimPCs
<1>7. CASE SendRecorded(p)
  BY <1>7, SendRecordedEffect, StillOwner DEF SendRecorded, ClaimPCs
<1>8. CASE CompleteKey(p)
  BY <1>8, CompleteKeyEffect, StillOwner DEF CompleteKey, ClaimPCs
<1>9. CASE StoreFails(p)
  <2>1. CASE Stops(p)
    BY <1>9, <2>1, StoreFailsEffect, StillOwner
  <2>2. CASE ~Stops(p)
    <3>1. pc[p] \in ClaimPCs
      BY <1>9, <2>2, ControlEffect DEF StoreFails, ClaimPCs
    <3>2. QED
      BY <1>9, <2>2, <3>1, StoreFailsEffect, StillOwner
  <2>3. QED
    BY <2>1, <2>2
<1>10. QED
  BY <1>1, <1>2, <1>3, <1>4, <1>5, <1>6, <1>7, <1>8, <1>9 DEF SendStep

\* The rows and the claims on them: what ownership is about.
Ownership == ClaimIsExclusive /\ SendsTheClaimedRow

\* Ownership survives a step without new claims that leaves the owned rows
\* alone or deletes them.
LEMMA OwnershipFrame ==
  ASSUME Ownership, NoNewClaims,
         \A q \in Procs, d \in Drafts :
           Holds(q, d)' => /\ body'[d] = body[d]
                           /\ status'[d] \in {status[d], "deleted"}
  PROVE  Ownership'
BY DEF Ownership, ClaimIsExclusive, SendsTheClaimedRow, NoNewClaims

\* A free draft d is claimed by p with the contents of the row.
LEMMA NewClaim ==
  ASSUME TableOK, Ownership, NEW p \in Procs, NEW d \in Drafts,
         status[d] \notin {"sending", "deleted"},
         OthersKeep(p),
         job'[p].draft = d,
         job'[p].body = body[d],
         status' = [status EXCEPT ![d] = "sending"],
         body' = body
  PROVE  Ownership'
<1>1. \A q \in Procs : ~Holds(q, d)
  BY DEF Ownership, ClaimIsExclusive
<1>2. \A q \in Procs, e \in Drafts :
        Holds(q, e)' => \/ q = p /\ e = d
                        \/ q # p /\ e # d /\ Holds(q, e) /\ job'[q].body = job[q].body
  BY <1>1 DEF Holds, OthersKeep
<1>3. \A e \in Drafts : status'[e] = IF e = d THEN "sending" ELSE status[e]
  BY DEF TableOK
<1>4. QED
  BY <1>2, <1>3 DEF Ownership, ClaimIsExclusive, SendsTheClaimedRow

\* Every step keeps the drafts' ownership exclusive and their contents fixed.
LEMMA OwnershipStep ==
  TableOK /\ LocalOK /\ JobInv /\ Ownership /\ [Next]_vars => Ownership'
<1> SUFFICES ASSUME TableOK, LocalOK, JobInv, Ownership, [Next]_vars PROVE Ownership'
  OBVIOUS
<1>1. ASSUME NEW h \in Handlers, NEW d \in Drafts \ Unreadable,
             NEW b \in Bodies, NEW t \in Times \cup {NoTime},
             CreateDraft(h, d, b, t)
      PROVE  Ownership'
  <2>1. \A q \in Procs : ~Holds(q, d)
    BY <1>1 DEF CreateDraft, Ownership, ClaimIsExclusive
  <2>2. NoNewClaims
    BY <1>1 DEF CreateDraft, local, NoNewClaims, Holds
  <2>3. \A e \in Drafts \ {d} : body'[e] = body[e] /\ status'[e] = status[e]
    BY <1>1 DEF CreateDraft, TableOK
  <2>4. QED
    BY <2>1, <2>2, <2>3, OwnershipFrame DEF NoNewClaims
<1>2. ASSUME NEW h \in Handlers, NEW d \in Drafts \ Unreadable,
             NEW b \in Bodies, NEW t \in Times \cup {NoTime},
             EditRead(h, d, b, t)
      PROVE  Ownership'
  <2>1. NoNewClaims
    BY <1>2, EditReadEffect DEF NoNewClaims, Holds, OthersKeep, ClaimPCs, Procs, SendTimes
  <2>2. QED
    BY <1>2, <2>1, OwnershipFrame DEF EditRead, table
<1>3. ASSUME NEW h \in Handlers, NEW d \in Drafts, DeleteDraft(h, d)
      PROVE  Ownership'
  <2>1. NoNewClaims
    BY <1>3 DEF DeleteDraft, local, NoNewClaims, Holds
  <2>2. body' = body /\ \A e \in Drafts : status'[e] \in {status[e], "deleted"}
    BY <1>3 DEF DeleteDraft, TableOK
  <2>3. QED
    BY <2>1, <2>2, OwnershipFrame
<1>4. ASSUME NEW h \in Handlers, NEW d \in Drafts, NEW k \in Keys \cup {NoKey}, SendRead(h, d, k)
      PROVE  Ownership'
  <2>1. NoNewClaims
    BY <1>4, SendReadEffect DEF NoNewClaims, Holds, OthersKeep, ClaimPCs, Procs
  <2>2. QED
    BY <1>4, <2>1, OwnershipFrame DEF SendRead, table
<1>5. ASSUME NEW h \in Handlers, NEW k \in Keys, NEW b \in Bodies, DirectSend(h, k, b)
      PROVE  Ownership'
  <2>1. NoNewClaims
    BY <1>5, DirectSendEffect, Sentinels DEF NoNewClaims, Holds, OthersKeep, Procs
  <2>2. QED
    BY <1>5, <2>1, OwnershipFrame DEF DirectSend, table
<1>6. ASSUME NEW h \in Handlers, EditWrite(h)
      PROVE  Ownership'
  <2>1. NoNewClaims
    BY <1>6, EditWriteEffect, StillOwner DEF Procs
  <2>2. CASE status[job[h].draft] \notin Editable
    BY <1>6, <2>1, <2>2, OwnershipFrame DEF EditWrite, table
  <2>3. CASE status[job[h].draft] \in Editable
    <3>1. job[h].draft \in Drafts
      BY <1>6 DEF EditWrite, JobInv, JobInvOf, Procs
    <3>2. \A q \in Procs : ~Holds(q, job[h].draft)
      BY <2>3, <3>1 DEF Ownership, ClaimIsExclusive, Editable
    <3>3. \A e \in Drafts \ {job[h].draft} : body'[e] = body[e] /\ status'[e] = status[e]
      BY <1>6, <2>3 DEF EditWrite, TableOK
    <3>4. QED
      BY <2>1, <3>2, <3>3, OwnershipFrame DEF NoNewClaims
  <2>4. QED
    BY <2>2, <2>3
<1>7. ASSUME NEW h \in Handlers, SendClaim(h)
      PROVE  Ownership'
  <2>1. CASE status[job[h].draft] \notin Editable
    <3>1. NoNewClaims
      BY <1>7, <2>1, SendClaimEffect, StillOwner DEF Procs
    <3>2. QED
      BY <1>7, <2>1, <3>1, OwnershipFrame DEF SendClaim
  <2>2. CASE status[job[h].draft] \in Editable
    <3>1. job[h].draft \in Drafts
      BY <1>7 DEF SendClaim, JobInv, JobInvOf, Procs
    <3>2. status' = [status EXCEPT ![job[h].draft] = "sending"] /\ body' = body
      BY <1>7, <2>2 DEF SendClaim
    <3>3. QED
      BY <1>7, <2>2, <3>1, <3>2, SendClaimEffect, NewClaim DEF Editable, Procs
  <2>3. QED
    BY <2>1, <2>2
<1>8. ASSUME NEW h \in Handlers, Disconnect(h)
      PROVE  Ownership'
  <2>1. NoNewClaims
    BY <1>8, DisconnectEffect, StillOwner DEF Procs
  <2>2. QED
    BY <1>8, <2>1, OwnershipFrame DEF Disconnect, table
<1>9. ASSUME Poll
      PROVE  Ownership'
  BY <1>9, OwnershipFrame DEF Poll, table, local, NoNewClaims, Holds
<1>10. ASSUME NEW d \in Drafts, DueRead(d)
      PROVE  Ownership'
  <2>1. NoNewClaims
    BY <1>10, DueReadEffect DEF NoNewClaims, Holds, OthersKeep, ClaimPCs, local
  <2>2. QED
    BY <1>10, <2>1, OwnershipFrame DEF DueRead, table
<1>11. ASSUME DueClaim
      PROVE  Ownership'
  <2>. DEFINE d == job[Scheduler].draft
  <2>1. CASE ~(status[d] = "scheduled" /\ sendAt[d] = job[Scheduler].at)
    <3>1. NoNewClaims
      BY <1>11, <2>1, DueClaimEffect, StillOwner DEF Procs
    <3>2. QED
      BY <1>11, <2>1, <3>1, OwnershipFrame DEF DueClaim
  <2>2. CASE status[d] = "scheduled" /\ sendAt[d] = job[Scheduler].at
    <3>1. d \in Drafts
      BY <1>11 DEF DueClaim, JobInv, JobInvOf, Procs
    <3>2. status' = [status EXCEPT ![d] = "sending"] /\ body' = body
      BY <1>11, <2>2 DEF DueClaim
    <3>3. QED
      BY <1>11, <2>2, <3>1, <3>2, DueClaimEffect, NewClaim DEF Procs
  <2>3. QED
    BY <2>1, <2>2
<1>12. ASSUME NEW p \in Procs, SendStep(p)
      PROVE  Ownership'
  <2>1. NoNewClaims
    BY <1>12, SendStepClaims
  <2>2. CASE Settle(p)
    <3>1. PICK d \in Drafts : d = job[p].draft /\ Holds(p, d)
      BY <2>2 DEF Settle, Holds, ClaimPCs, JobInv, JobInvOf
    <3>2. \A q \in Procs \ {p} : ~Holds(q, d)
      BY <3>1 DEF Ownership, ClaimIsExclusive
    <3>3. ~Holds(p, d)'
      BY <2>2, SettleEffect, Sentinels DEF Stops, Holds, ClaimPCs
    <3>4. \A q \in Procs : ~Holds(q, d)'
      BY <2>1, <3>2, <3>3 DEF NoNewClaims
    <3>5. body' = body /\ \A e \in Drafts \ {d} : status'[e] = status[e]
      BY <2>2, <3>1 DEF Settle, TableOK
    <3>6. \A q \in Procs, e \in Drafts :
            Holds(q, e)' => /\ body'[e] = body[e]
                            /\ status'[e] \in {status[e], "deleted"}
      BY <3>4, <3>5
    <3>7. QED
      BY <2>1, <3>6, OwnershipFrame
  <2>3. CASE ~Settle(p)
    <3>1. UNCHANGED table
      BY <1>12, <2>3 DEF SendStep, CheckRefused, CheckPassed, ClaimKey, TransportAccepts,
         SendFails, SendRecorded, CompleteKey, Recheck, StoreFails
    <3>2. QED
      BY <2>1, <3>1, OwnershipFrame DEF table
  <2>4. QED
    BY <2>2, <2>3
<1>13. ASSUME Tick
      PROVE  Ownership'
  BY <1>13, OwnershipFrame DEF Tick, table, local, NoNewClaims, Holds
<1>14. ASSUME Crash
      PROVE  Ownership'
  <2>1. NoNewClaims
    BY <1>14 DEF Crash, NoNewClaims, Holds, ClaimPCs
  <2>2. QED
    BY <1>14, <2>1, OwnershipFrame DEF Crash, table
<1>15. CASE UNCHANGED vars
  BY <1>15, OwnershipFrame DEF vars, table, local, NoNewClaims, Holds
<1>16. QED
  BY <1>1, <1>2, <1>3, <1>4, <1>5, <1>6, <1>7, <1>8, <1>9, <1>10, <1>11, <1>12, <1>13, <1>14, <1>15 DEF Next, OwnerStep, SchedulerStep
-----------------------------------------------------------------------------
(* The first part of the inductive invariant: types and ownership           *)

\* The type invariant is its three parts.
LEMMA TypeParts == TypeOK <=> TableOK /\ LocalOK /\ OtherOK
BY DEF TypeOK, TableOK, LocalOK, OtherOK

OwnershipInv == TypeOK /\ JobInv /\ Ownership

\* The first part of the inductive invariant holds initially.
LEMMA OwnershipInit == Init => OwnershipInv
<1> SUFFICES ASSUME Init PROVE OwnershipInv
  OBVIOUS
<1>1. TableOK
  <2>1. PICK legacy \in SUBSET (Drafts \ Unreadable) :
          /\ status = [d \in Drafts |->
                         IF d \in legacy \cup Unreadable THEN "scheduled" ELSE "absent"]
          /\ sendAt = [d \in Drafts |->
                         IF d \in legacy THEN BadTime
                         ELSE IF d \in Unreadable THEN 0 ELSE NoTime]
    BY DEF Init
  <2>2. status \in [Drafts -> Statuses]
    BY <2>1 DEF Statuses
  <2>3. 0 \in Times
    BY Bounds DEF Times
  <2>4. sendAt \in [Drafts -> SendTimes]
    BY <2>1, <2>3 DEF SendTimes
  <2>5. body \in [Drafts -> Bodies]
    BY SomeBody DEF Init
  <2>6. claimedFor \in [Keys -> Bodies \cup {NoBody}] /\ replay \in [Keys -> BOOLEAN]
    BY DEF Init
  <2>7. QED
    BY <2>2, <2>4, <2>5, <2>6 DEF TableOK
<1>2. LocalOK
  BY JobsClosed DEF Init, LocalOK, PCs
<1>3. OtherOK
  BY Bounds DEF Init, OtherOK, Times, Routes
<1>4. \A p \in Procs : pc[p] = "idle" /\ job[p] = NoJob
  BY DEF Init
<1>5. JobInv
  BY <1>4, Sentinels DEF JobInv, JobInvOf, Keyed, NoJob, ClaimPCs
<1>6. Ownership
  BY <1>4 DEF Ownership, ClaimIsExclusive, SendsTheClaimedRow, Holds, ClaimPCs
<1>7. QED
  BY <1>1, <1>2, <1>3, <1>5, <1>6, TypeParts DEF OwnershipInv

\* It is inductive on its own.
LEMMA OwnershipInvStep == OwnershipInv /\ [Next]_vars => OwnershipInv'
<1> SUFFICES ASSUME OwnershipInv, [Next]_vars PROVE OwnershipInv'
  OBVIOUS
<1>1. TableOK /\ LocalOK /\ OtherOK /\ JobInv /\ Ownership
  BY TypeParts DEF OwnershipInv
<1>2. TypeOK'
  BY <1>1, TableStep, LocalStep, OtherStep DEF TypeOK, TableOK, LocalOK, OtherOK
<1>3. JobInv' /\ Ownership'
  BY <1>1, JobStep, OwnershipStep
<1>4. QED
  BY <1>2, <1>3 DEF OwnershipInv

-----------------------------------------------------------------------------
(* Idempotency keys                                                        *)

\* The step of p leaves the keys alone and puts no new message in flight.
SameFlight(p) ==
  InFlight(p)' =>
    /\ InFlight(p)
    /\ job'[p].key = job[p].key
    /\ job'[p].body = job[p].body
    /\ pc'[p] = "transport" <=> pc[p] = "transport"

\* Then it keeps the invariant of the keys.
LEMMA KeyFrame ==
  ASSUME KeyInv, NEW p \in Procs, OthersKeep(p), SameFlight(p),
         UNCHANGED <<claims, keyAccepts>>
  PROVE  KeyInv'
<1>1. \A q \in Procs :
        InFlight(q)' =>
          /\ InFlight(q)
          /\ job'[q].key = job[q].key
          /\ job'[q].body = job[q].body
          /\ pc'[q] = "transport" <=> pc[q] = "transport"
  BY DEF OthersKeep, SameFlight, InFlight, Keyed
<1>2. claimedFor' = claimedFor /\ replay' = replay /\ keyAccepts' = keyAccepts
  BY DEF claims
<1>3. QED
  BY <1>1, <1>2 DEF KeyInv

\* A sender in flight has a key of its own, with a claim on it.
LEMMA FlightKey ==
  ASSUME LocalOK, JobInv, NEW p \in Procs, InFlight(p)
  PROVE  job[p].key \in Keys /\ job[p].body \in Bodies
BY DEF LocalOK, Jobs, JobInv, JobInvOf, InFlight, Keyed, ClaimPCs

\* Every step keeps the claims of keys in step with their deliveries.
LEMMA KeyStep ==
  OwnershipInv /\ KeyInv /\ [Next]_vars => KeyInv'
<1> SUFFICES ASSUME OwnershipInv, KeyInv, [Next]_vars PROVE KeyInv'
  OBVIOUS
<1>. USE DEF Procs
<1>a. TableOK /\ LocalOK /\ OtherOK /\ JobInv
  BY TypeParts DEF OwnershipInv

<1>1. ASSUME NEW h \in Handlers, NEW d \in Drafts \ Unreadable,
             NEW b \in Bodies, NEW t \in Times \cup {NoTime},
             CreateDraft(h, d, b, t)
      PROVE  KeyInv'
  BY <1>1 DEF CreateDraft, claims, local, history, KeyInv, InFlight, Keyed
<1>2. ASSUME NEW h \in Handlers, NEW d \in Drafts \ Unreadable,
             NEW b \in Bodies, NEW t \in Times \cup {NoTime},
             EditRead(h, d, b, t)
      PROVE  KeyInv'
  <2>1. OthersKeep(h) /\ SameFlight(h)
    BY <1>2, <1>a, EditReadEffect, Sentinels DEF SameFlight, InFlight, Keyed, SendTimes
  <2>2. QED
    BY <1>2, <2>1, KeyFrame DEF EditRead, history
<1>3. ASSUME NEW h \in Handlers, NEW d \in Drafts, DeleteDraft(h, d)
      PROVE  KeyInv'
  BY <1>3 DEF DeleteDraft, claims, local, history, KeyInv, InFlight, Keyed
<1>4. ASSUME NEW h \in Handlers, NEW d \in Drafts, NEW k \in Keys \cup {NoKey}, SendRead(h, d, k)
      PROVE  KeyInv'
  <2>1. OthersKeep(h) /\ SameFlight(h)
    BY <1>4, <1>a, SendReadEffect, Sentinels DEF SameFlight, InFlight, Keyed, Stops
  <2>2. QED
    BY <1>4, <2>1, KeyFrame DEF SendRead, history
<1>5. ASSUME NEW h \in Handlers, NEW k \in Keys, NEW b \in Bodies, DirectSend(h, k, b)
      PROVE  KeyInv'
  <2>1. OthersKeep(h) /\ SameFlight(h)
    BY <1>5, <1>a, DirectSendEffect, Sentinels DEF SameFlight, InFlight, Keyed, Stops
  <2>2. QED
    BY <1>5, <2>1, KeyFrame DEF DirectSend, history
<1>6. ASSUME NEW h \in Handlers, EditWrite(h)
      PROVE  KeyInv'
  <2>1. OthersKeep(h) /\ SameFlight(h)
    BY <1>6, <1>a, EditWriteEffect, Sentinels DEF SameFlight, InFlight, Keyed, Stops
  <2>2. QED
    BY <1>6, <2>1, KeyFrame DEF EditWrite, history, world
<1>7. ASSUME NEW h \in Handlers, SendClaim(h)
      PROVE  KeyInv'
  <2>1. OthersKeep(h) /\ SameFlight(h)
    BY <1>7, <1>a, SendClaimEffect, Sentinels DEF SameFlight, InFlight, Keyed, Stops
  <2>2. QED
    BY <1>7, <2>1, KeyFrame DEF SendClaim, history
<1>8. ASSUME NEW h \in Handlers, Disconnect(h)
      PROVE  KeyInv'
  <2>1. OthersKeep(h) /\ SameFlight(h)
    BY <1>8, <1>a, DisconnectEffect, Sentinels DEF SameFlight, InFlight, Keyed, Stops
  <2>2. QED
    BY <1>8, <2>1, KeyFrame DEF Disconnect, history
<1>9. ASSUME Poll
      PROVE  KeyInv'
  BY <1>9 DEF Poll, claims, local, history, KeyInv, InFlight, Keyed
<1>10. ASSUME NEW d \in Drafts, DueRead(d)
      PROVE  KeyInv'
  <2>1. OthersKeep(Scheduler) /\ SameFlight(Scheduler)
    BY <1>10, <1>a, DueReadEffect, Sentinels DEF SameFlight, InFlight, Keyed, Stops, local
  <2>2. QED
    BY <1>10, <2>1, KeyFrame DEF DueRead, history
<1>11. ASSUME DueClaim
      PROVE  KeyInv'
  <2>1. OthersKeep(Scheduler) /\ SameFlight(Scheduler)
    BY <1>11, <1>a, DueClaimEffect, Sentinels DEF SameFlight, InFlight, Keyed, Stops, local
  <2>2. QED
    BY <1>11, <2>1, KeyFrame DEF DueClaim, history
<1>12. ASSUME NEW p \in Procs, CheckRefused(p)
      PROVE  KeyInv'
  <2>1. OthersKeep(p) /\ SameFlight(p)
    BY <1>12, <1>a, CheckRefusedEffect, Sentinels DEF SameFlight, InFlight, Keyed, Stops, CheckRefused, Succeeds, Fails, FailsUnclear, Advances, Keeps
  <2>2. QED
    BY <1>12, <2>1, KeyFrame DEF CheckRefused, history
<1>13. ASSUME NEW p \in Procs, CheckPassed(p)
      PROVE  KeyInv'
  <2>1. OthersKeep(p) /\ SameFlight(p)
    BY <1>13, <1>a, CheckPassedEffect, Sentinels DEF SameFlight, InFlight, Keyed, Stops, Succeeds, Fails, FailsUnclear, Advances, Keeps
  <2>2. QED
    BY <1>13, <2>1, KeyFrame DEF CheckPassed, history
<1>14. ASSUME NEW p \in Procs, ClaimKey(p)
      PROVE  KeyInv'
  <2>. DEFINE k == job[p].key
             b == job[p].body
  <2>1. k \in Keys /\ b \in Bodies
    BY <1>14, <1>a DEF ClaimKey, LocalOK, Jobs, JobInv, JobInvOf, Keyed, ClaimPCs
  <2>2. CASE Lookup(k, b) # "none"
    <3>1. OthersKeep(p) /\ SameFlight(p)
      BY <1>14, <1>a, <2>2, ClaimKeyEffect, Sentinels
         DEF SameFlight, InFlight, Keyed, Stops, Succeeds, FailsUnclear
    <3>2. UNCHANGED <<claims, keyAccepts>>
      BY <1>14, <2>2 DEF ClaimKey, claims, history
    <3>3. QED
      BY <3>1, <3>2, KeyFrame
  <2>3. CASE Lookup(k, b) = "none"
    <3>1. claimedFor[k] = NoBody
      BY <2>3 DEF Lookup
    <3>2. OthersKeep(p) /\ Advances(p, "transport")
      BY <1>14, <1>a, <2>3, ClaimKeyEffect
    <3>3. /\ claimedFor' = [claimedFor EXCEPT ![k] = b]
          /\ replay' = replay
          /\ keyAccepts' = keyAccepts
      BY <1>14, <2>3 DEF ClaimKey, history
    <3>4. \A q \in Procs \ {p} : InFlight(q) => job[q].key # k
      BY <1>a, <2>1, <3>1, FlightKey, Sentinels DEF KeyInv
    <3>5. \A q \in Procs \ {p} : InFlight(q)' => InFlight(q) /\ job'[q] = job[q] /\ pc'[q] = pc[q]
      BY <3>2 DEF OthersKeep, InFlight, Keyed
    <3>6. keyAccepts[k] = 0 /\ ~replay[k]
      BY <2>1, <3>1 DEF KeyInv
    <3>7. /\ claimedFor'[k] = b /\ b # NoBody
          /\ \A j \in Keys \ {k} : claimedFor'[j] = claimedFor[j]
      BY <1>a, <2>1, <3>3, Sentinels DEF TableOK
    <3>8. \A j \in Keys :
            /\ claimedFor'[j] = NoBody => keyAccepts'[j] = 0 /\ ~replay'[j]
            /\ replay'[j] => keyAccepts'[j] = 1
            /\ keyAccepts'[j] \in {0, 1}
      BY <3>3, <3>7 DEF KeyInv
    <3>9. ASSUME NEW q \in Procs, InFlight(q)'
          PROVE  /\ claimedFor'[job'[q].key] = job'[q].body
                 /\ ~replay'[job'[q].key]
                 /\ keyAccepts'[job'[q].key] = IF pc'[q] = "transport" THEN 0 ELSE 1
                 /\ \A r \in Procs \ {q} : InFlight(r)' => job'[r].key # job'[q].key
      <4>1. CASE q = p
        BY <2>1, <3>2, <3>3, <3>4, <3>5, <3>6, <3>7, <4>1 DEF Advances
      <4>2. CASE q # p
        <5>1. job[q].key \in Keys /\ job[q].key # k
          BY <1>a, <3>4, <3>5, <3>9, <4>2, FlightKey
        <5>2. \A r \in Procs \ {q} : InFlight(r)' => job'[r].key # job'[q].key
          BY <3>2, <3>5, <3>9, <4>2, <5>1 DEF Advances, KeyInv
        <5>3. QED
          BY <3>3, <3>5, <3>7, <3>9, <4>2, <5>1, <5>2 DEF KeyInv
      <4>3. QED
        BY <4>1, <4>2
    <3>10. QED
      BY <3>8, <3>9 DEF KeyInv
  <2>4. QED
    BY <2>2, <2>3
<1>15. ASSUME NEW p \in Procs, TransportAccepts(p)
      PROVE  KeyInv'
  <2>. DEFINE k == job[p].key
  <2>1. OthersKeep(p) /\ Advances(p, "accepted")
    BY <1>15, <1>a, TransportAcceptsEffect
  <2>2. claimedFor' = claimedFor /\ replay' = replay
    BY <1>15 DEF TransportAccepts, claims
  <2>3. CASE ~Keyed(p)
    <3>1. SameFlight(p) /\ keyAccepts' = keyAccepts
      BY <1>15, <2>1, <2>3 DEF TransportAccepts, SameFlight, InFlight, Keyed, Advances
    <3>2. QED
      BY <2>1, <2>2, <3>1, KeyFrame DEF claims
  <2>4. CASE Keyed(p)
    <3>1. InFlight(p) /\ pc[p] = "transport"
      BY <1>15, <2>4 DEF TransportAccepts, InFlight
    <3>2. k \in Keys /\ keyAccepts[k] = 0 /\ ~replay[k] /\ claimedFor[k] = job[p].body
      BY <1>a, <3>1, FlightKey DEF KeyInv
    <3>3. keyAccepts' = [keyAccepts EXCEPT ![k] = keyAccepts[k] + 1]
      BY <1>15, <2>4 DEF TransportAccepts, Keyed
    <3>4. keyAccepts'[k] = 1 /\ \A j \in Keys \ {k} : keyAccepts'[j] = keyAccepts[j]
      BY <1>a, <3>2, <3>3 DEF OtherOK
    <3>5. \A q \in Procs \ {p} :
            InFlight(q)' => /\ InFlight(q) /\ job'[q] = job[q] /\ pc'[q] = pc[q]
                            /\ job[q].key \in Keys \ {k}
      BY <1>a, <2>1, <3>1, FlightKey DEF OthersKeep, InFlight, Keyed, KeyInv
    <3>6. claimedFor[k] # NoBody
      BY <1>a, <3>1, <3>2, FlightKey, Sentinels
    <3>7. \A j \in Keys :
            /\ claimedFor'[j] = NoBody => keyAccepts'[j] = 0 /\ ~replay'[j]
            /\ replay'[j] => keyAccepts'[j] = 1
            /\ keyAccepts'[j] \in {0, 1}
      BY <2>2, <3>2, <3>4, <3>6 DEF KeyInv
    <3>8. pc'[p] = "accepted" /\ job'[p] = job[p]
      BY <2>1 DEF Advances
    <3>9. ASSUME NEW q \in Procs, InFlight(q)'
          PROVE  /\ claimedFor'[job'[q].key] = job'[q].body
                 /\ ~replay'[job'[q].key]
                 /\ keyAccepts'[job'[q].key] = IF pc'[q] = "transport" THEN 0 ELSE 1
                 /\ \A r \in Procs \ {q} : InFlight(r)' => job'[r].key # job'[q].key
      <4>1. CASE q = p
        BY <2>2, <3>2, <3>4, <3>5, <3>8, <4>1
      <4>2. CASE q # p
        <5>1. InFlight(q) /\ job'[q] = job[q] /\ pc'[q] = pc[q] /\ job[q].key \in Keys \ {k}
          BY <3>5, <3>9, <4>2
        <5>2. \A r \in Procs \ {q} : InFlight(r)' => job'[r].key # job'[q].key
          BY <3>5, <3>8, <4>2, <5>1 DEF KeyInv
        <5>3. QED
          BY <2>2, <3>4, <5>1, <5>2 DEF KeyInv
      <4>3. QED
        BY <4>1, <4>2
    <3>10. QED
      BY <3>7, <3>9 DEF KeyInv
  <2>5. QED
    BY <2>3, <2>4
<1>16. ASSUME NEW p \in Procs, SendFails(p)
      PROVE  KeyInv'
  <2>1. OthersKeep(p) /\ SameFlight(p)
    BY <1>16, <1>a, SendFailsEffect, Sentinels DEF SameFlight, InFlight, Keyed, Stops, SendFails, Succeeds, Fails, FailsUnclear, Advances, Keeps
  <2>2. QED
    BY <1>16, <2>1, KeyFrame DEF SendFails, history
<1>17. ASSUME NEW p \in Procs, SendRecorded(p)
      PROVE  KeyInv'
  <2>1. OthersKeep(p) /\ SameFlight(p)
    BY <1>17, <1>a, SendRecordedEffect, Sentinels DEF SameFlight, InFlight, Keyed, Stops, SendRecorded, Succeeds, Fails, FailsUnclear, Advances, Keeps
  <2>2. QED
    BY <1>17, <2>1, KeyFrame DEF SendRecorded, history
<1>18. ASSUME NEW p \in Procs, CompleteKey(p)
      PROVE  KeyInv'
  <2>. DEFINE k == job[p].key
  <2>0. InFlight(p) /\ k \in Keys
    BY <1>18, <1>a DEF CompleteKey, InFlight, JobInv, JobInvOf, LocalOK, Jobs, Keyed
  <2>1. CASE ~(claimedFor[k] = job[p].body /\ ~replay[k])
    BY <2>0, <2>1 DEF KeyInv
  <2>2. CASE claimedFor[k] = job[p].body /\ ~replay[k]
    <3>1. OthersKeep(p) /\ Succeeds(p)
      BY <1>18, <1>a, <2>2, CompleteKeyEffect
    <3>2. ~InFlight(p)'
      BY <3>1, Sentinels DEF Succeeds, Stops, InFlight
    <3>3. /\ replay' = [replay EXCEPT ![k] = TRUE]
          /\ claimedFor' = claimedFor
          /\ keyAccepts' = keyAccepts
      BY <1>18, <2>2 DEF CompleteKey, history
    <3>4. claimedFor[k] # NoBody /\ keyAccepts[k] = 1
      BY <1>18, <1>a, <2>0, FlightKey, Sentinels DEF KeyInv, CompleteKey
    <3>5. \A q \in Procs : InFlight(q)' =>
            /\ q # p /\ InFlight(q) /\ job'[q] = job[q] /\ pc'[q] = pc[q]
            /\ job[q].key \in Keys \ {k}
      BY <1>a, <2>0, <3>1, <3>2, FlightKey DEF OthersKeep, InFlight, Keyed, KeyInv
    <3>6. replay'[k] /\ \A j \in Keys \ {k} : replay'[j] = replay[j]
      BY <1>a, <2>0, <3>3 DEF TableOK
    <3>7. \A j \in Keys :
            /\ claimedFor'[j] = NoBody => keyAccepts'[j] = 0 /\ ~replay'[j]
            /\ replay'[j] => keyAccepts'[j] = 1
            /\ keyAccepts'[j] \in {0, 1}
      BY <3>3, <3>4, <3>6 DEF KeyInv
    <3>8. \A q \in Procs : InFlight(q)' =>
            /\ claimedFor'[job'[q].key] = job'[q].body
            /\ ~replay'[job'[q].key]
            /\ keyAccepts'[job'[q].key] = IF pc'[q] = "transport" THEN 0 ELSE 1
            /\ \A r \in Procs \ {q} : InFlight(r)' => job'[r].key # job'[q].key
      BY <3>3, <3>5, <3>6 DEF KeyInv
    <3>9. QED
      BY <3>7, <3>8 DEF KeyInv
  <2>3. QED
    BY <2>1, <2>2
<1>19. ASSUME NEW p \in Procs, Recheck(p)
      PROVE  KeyInv'
  <2>1. OthersKeep(p) /\ SameFlight(p)
    BY <1>19, <1>a, RecheckEffect, Sentinels DEF SameFlight, InFlight, Keyed, Stops, Recheck, Succeeds, Fails, FailsUnclear, Advances, Keeps
  <2>2. QED
    BY <1>19, <2>1, KeyFrame DEF Recheck, history
<1>20. ASSUME NEW p \in Procs, Settle(p)
      PROVE  KeyInv'
  <2>1. OthersKeep(p) /\ SameFlight(p)
    BY <1>20, <1>a, SettleEffect, Sentinels DEF SameFlight, InFlight, Keyed, Stops
  <2>2. QED
    BY <1>20, <2>1, KeyFrame DEF Settle, history
<1>21. ASSUME NEW p \in Procs, StoreFails(p)
      PROVE  KeyInv'
  <2>1. OthersKeep(p) /\ SameFlight(p)
    BY <1>21, <1>a, StoreFailsEffect, Sentinels DEF SameFlight, InFlight, Keyed, Stops, StoreFails, Succeeds, Fails, FailsUnclear, Advances, Keeps
  <2>2. QED
    BY <1>21, <2>1, KeyFrame DEF StoreFails, history
<1>22. ASSUME Tick
      PROVE  KeyInv'
  BY <1>22 DEF Tick, claims, local, history, KeyInv, InFlight, Keyed
<1>23. ASSUME Crash
      PROVE  KeyInv'
  BY <1>23 DEF Crash, claims, history, KeyInv, InFlight, Keyed
<1>24. CASE UNCHANGED vars
  BY <1>24 DEF vars, claims, local, history, KeyInv, InFlight, Keyed
<1>25. QED
  BY <1>1, <1>2, <1>3, <1>4, <1>5, <1>6, <1>7, <1>8, <1>9, <1>10, <1>11, <1>12, <1>13, <1>14, <1>15, <1>16, <1>17, <1>18, <1>19, <1>20, <1>21, <1>22, <1>23, <1>24 DEF Next, OwnerStep, SchedulerStep, SendStep
-----------------------------------------------------------------------------
(* Drafts whose keyed send was accepted                                    *)

KeyedSendInv == KeyedOwnerInv /\ KeyedSendNeverResendable

\* What KeyedOwnerInv says of the owner.
KeyedOwner(p) ==
  /\ Keyed(p)
  /\ pc[p] \in {"accepted", "complete", "recheck", "settle"}
  /\ claimedFor[job[p].key] = job[p].body
  /\ pc[p] = "settle" => job[p].ok

\* A claim of a key is never taken back.
KeepsClaims == \A k \in Keys : claimedFor[k] # NoBody => claimedFor'[k] = claimedFor[k]

\* A step of p keeps the invariant if no further draft counts as accepted, no
\* accepted draft leaves its final statuses, and p itself fits.
LEMMA KeyedFrame ==
  ASSUME LocalOK, JobInv, KeyedSendInv, NEW p \in Procs, OthersKeep(p), KeepsClaims,
         \A d \in Drafts : "keyed" \in accepted'[d] =>
           /\ "keyed" \in accepted[d]
           /\ status'[d] \in {"sending", "sent", "deleted"}
           /\ Holds(p, d)' => KeyedOwner(p)'
  PROVE  KeyedSendInv'
<1>1. ASSUME NEW q \in Procs, NEW d \in Drafts, Holds(q, d)', "keyed" \in accepted'[d]
      PROVE  KeyedOwner(q)'
  <2>1. CASE q = p
    BY <1>1, <2>1
  <2>2. CASE q # p
    <3>1. pc'[q] = pc[q] /\ job'[q] = job[q]
      BY <2>2 DEF OthersKeep
    <3>2. Holds(q, d) /\ "keyed" \in accepted[d]
      BY <1>1, <3>1 DEF Holds
    <3>3. KeyedOwner(q)
      BY <3>2 DEF KeyedSendInv, KeyedOwnerInv, KeyedOwner
    <3>4. job[q].key \in Keys /\ job[q].body \in Bodies
      BY <3>2, <3>3 DEF LocalOK, Jobs, JobInv, JobInvOf, KeyedOwner, Keyed, Holds
    <3>5. claimedFor'[job[q].key] = job[q].body
      BY <3>3, <3>4, Sentinels DEF KeyedOwner, KeepsClaims
    <3>6. QED
      BY <3>1, <3>3, <3>5 DEF KeyedOwner, Keyed
  <2>3. QED
    BY <2>1, <2>2
<1>2. QED
  BY <1>1 DEF KeyedSendInv, KeyedOwnerInv, KeyedSendNeverResendable, KeyedOwner

\* The same for a step that changes no row, no claim and no acceptance.
LEMMA KeyedLocalFrame ==
  ASSUME LocalOK, JobInv, KeyedSendInv, NEW p \in Procs, OthersKeep(p),
         UNCHANGED <<status, claimedFor, accepted>>,
         \A d \in Drafts : Holds(p, d)' /\ "keyed" \in accepted[d] => KeyedOwner(p)'
  PROVE  KeyedSendInv'
BY KeyedFrame DEF KeyedSendInv, KeyedSendNeverResendable, KeepsClaims

\* Every step keeps an accepted keyed draft out of reach.
LEMMA KeyedStep ==
  OwnershipInv /\ KeyInv /\ KeyedSendInv /\ [Next]_vars => KeyedSendInv'
<1> SUFFICES ASSUME OwnershipInv, KeyInv, KeyedSendInv, [Next]_vars PROVE KeyedSendInv'
  OBVIOUS
<1>. USE DEF Procs
<1>a. TableOK /\ LocalOK /\ OtherOK /\ JobInv /\ Ownership
  BY TypeParts DEF OwnershipInv
<1>b. \A p \in Procs, d \in Drafts : Holds(p, d) /\ "keyed" \in accepted[d] => KeyedOwner(p)
  BY DEF KeyedSendInv, KeyedOwnerInv, KeyedOwner
<1>c. \A d \in Drafts : "keyed" \in accepted[d] => status[d] \in {"sending", "sent", "deleted"}
  BY DEF KeyedSendInv, KeyedSendNeverResendable

<1>1. ASSUME NEW h \in Handlers, NEW d \in Drafts \ Unreadable,
             NEW b \in Bodies, NEW t \in Times \cup {NoTime},
             CreateDraft(h, d, b, t)
      PROVE  KeyedSendInv'
  <2>1. OthersKeep(h) /\ KeepsClaims /\ accepted' = accepted
    BY <1>1 DEF CreateDraft, OthersKeep, local, claims, KeepsClaims, history
  <2>2. \A e \in Drafts : Holds(h, e)' /\ "keyed" \in accepted[e] => KeyedOwner(h)'
    BY <1>1, <1>b DEF CreateDraft, local, claims, Holds, KeyedOwner, Keyed
  <2>3. \A e \in Drafts : "keyed" \in accepted[e] => status'[e] \in {"sending", "sent", "deleted"}
    BY <1>1, <1>a, <1>c DEF CreateDraft, TableOK
  <2>4. QED
    BY <1>a, <2>1, <2>2, <2>3, KeyedFrame
<1>2. ASSUME NEW h \in Handlers, NEW d \in Drafts \ Unreadable,
             NEW b \in Bodies, NEW t \in Times \cup {NoTime},
             EditRead(h, d, b, t)
      PROVE  KeyedSendInv'
  <2>1. OthersKeep(h) /\ \A e \in Drafts : ~Holds(h, e)'
    BY <1>2, <1>a, EditReadEffect, Sentinels DEF Holds, ClaimPCs, SendTimes
  <2>2. QED
    BY <1>2, <1>a, <2>1, KeyedLocalFrame DEF EditRead, table, claims, history
<1>3. ASSUME NEW h \in Handlers, NEW d \in Drafts, DeleteDraft(h, d)
      PROVE  KeyedSendInv'
  <2>1. OthersKeep(h) /\ KeepsClaims /\ accepted' = accepted
    BY <1>3 DEF DeleteDraft, OthersKeep, local, claims, KeepsClaims, history
  <2>2. \A e \in Drafts : Holds(h, e)' /\ "keyed" \in accepted[e] => KeyedOwner(h)'
    BY <1>3, <1>b DEF DeleteDraft, local, claims, Holds, KeyedOwner, Keyed
  <2>3. \A e \in Drafts : "keyed" \in accepted[e] => status'[e] \in {"sending", "sent", "deleted"}
    BY <1>3, <1>a, <1>c DEF DeleteDraft, TableOK
  <2>4. QED
    BY <1>a, <2>1, <2>2, <2>3, KeyedFrame
<1>4. ASSUME NEW h \in Handlers, NEW d \in Drafts, NEW k \in Keys \cup {NoKey}, SendRead(h, d, k)
      PROVE  KeyedSendInv'
  <2>1. OthersKeep(h) /\ \A e \in Drafts : ~Holds(h, e)'
    BY <1>4, <1>a, SendReadEffect, Sentinels DEF Holds, ClaimPCs
  <2>2. QED
    BY <1>4, <1>a, <2>1, KeyedLocalFrame DEF SendRead, table, claims, history
<1>5. ASSUME NEW h \in Handlers, NEW k \in Keys, NEW b \in Bodies, DirectSend(h, k, b)
      PROVE  KeyedSendInv'
  <2>1. OthersKeep(h) /\ \A e \in Drafts : ~Holds(h, e)'
    BY <1>5, <1>a, DirectSendEffect, Sentinels DEF Holds, ClaimPCs
  <2>2. QED
    BY <1>5, <1>a, <2>1, KeyedLocalFrame DEF DirectSend, table, claims, history
<1>6. ASSUME NEW h \in Handlers, EditWrite(h)
      PROVE  KeyedSendInv'
  <2>1. OthersKeep(h) /\ KeepsClaims /\ \A e \in Drafts : ~Holds(h, e)'
    BY <1>6, <1>a, EditWriteEffect, Sentinels DEF EditWrite, claims, KeepsClaims, Holds, ClaimPCs, Stops
  <2>2. \A e \in Drafts :
          "keyed" \in accepted'[e] =>
            "keyed" \in accepted[e] /\ status'[e] = status[e]
    <3>1. CASE status[job[h].draft] \in Editable
      <4>1. job[h].draft \in Drafts
        BY <1>6, <1>a DEF EditWrite, JobInv, JobInvOf
      <4>2. /\ accepted' = [accepted EXCEPT ![job[h].draft] = {}]
            /\ \A e \in Drafts \ {job[h].draft} : status'[e] = status[e]
        BY <1>6, <1>a, <3>1 DEF EditWrite, TableOK
      <4>3. QED
        BY <1>a, <4>1, <4>2 DEF OtherOK
    <3>2. CASE status[job[h].draft] \notin Editable
      BY <1>6, <3>2 DEF EditWrite, table
    <3>3. QED
      BY <3>1, <3>2
  <2>3. QED
    BY <1>a, <1>c, <2>1, <2>2, KeyedFrame
<1>7. ASSUME NEW h \in Handlers, SendClaim(h)
      PROVE  KeyedSendInv'
  <2>1. CASE status[job[h].draft] \notin Editable
    <3>1. OthersKeep(h) /\ \A e \in Drafts : ~Holds(h, e)'
      BY <1>7, <1>a, <2>1, SendClaimEffect DEF Holds, ClaimPCs, Stops
    <3>2. QED
      BY <1>7, <1>a, <2>1, <3>1, KeyedLocalFrame DEF SendClaim, claims
  <2>2. CASE status[job[h].draft] \in Editable
    <3>1. PICK d \in Drafts : d = job[h].draft
      BY <1>7, <1>a DEF SendClaim, JobInv, JobInvOf
    <3>2. OthersKeep(h) /\ job'[h].draft = d
      BY <1>7, <1>a, <2>2, <3>1, SendClaimEffect
    <3>3. status' = [status EXCEPT ![d] = "sending"] /\ UNCHANGED <<claimedFor, accepted>>
      BY <1>7, <2>2, <3>1 DEF SendClaim, claims
    <3>4. "keyed" \notin accepted[d]
      BY <1>c, <2>2, <3>1 DEF Editable
    <3>5. \A e \in Drafts : "keyed" \in accepted[e] =>
            status'[e] \in {"sending", "sent", "deleted"} /\ ~Holds(h, e)'
      BY <1>a, <1>c, <3>2, <3>3, <3>4 DEF TableOK, Holds
    <3>6. QED
      BY <1>a, <3>2, <3>3, <3>5, KeyedFrame DEF KeepsClaims
  <2>3. QED
    BY <2>1, <2>2
<1>8. ASSUME NEW h \in Handlers, Disconnect(h)
      PROVE  KeyedSendInv'
  <2>1. OthersKeep(h) /\ \A e \in Drafts : ~Holds(h, e)'
    BY <1>8, <1>a, DisconnectEffect, Sentinels DEF Holds, ClaimPCs, Stops
  <2>2. QED
    BY <1>8, <1>a, <2>1, KeyedLocalFrame DEF Disconnect, table, claims, history
<1>9. ASSUME Poll
      PROVE  KeyedSendInv'
  BY <1>9 DEF Poll, table, claims, local, history, KeyedSendInv, KeyedOwnerInv, KeyedSendNeverResendable, Holds, Keyed
<1>10. ASSUME NEW d \in Drafts, DueRead(d)
      PROVE  KeyedSendInv'
  <2>1. /\ OthersKeep(Scheduler)
        /\ \A e \in Drafts : Holds(Scheduler, e)' /\ "keyed" \in accepted[e] => KeyedOwner(Scheduler)'
    <3>1. CASE UNCHANGED local
      BY <1>10, <1>b, <3>1 DEF DueRead, local, table, claims, OthersKeep, Holds, KeyedOwner, Keyed
    <3>2. CASE ~UNCHANGED local
      BY <1>10, <1>a, <3>2, DueReadEffect DEF Holds, ClaimPCs
    <3>3. QED
      BY <3>1, <3>2
  <2>2. QED
    BY <1>10, <1>a, <2>1, KeyedLocalFrame DEF DueRead, table, claims, history
<1>11. ASSUME DueClaim
      PROVE  KeyedSendInv'
  <2>1. CASE ~(status[job[Scheduler].draft] = "scheduled" /\ sendAt[job[Scheduler].draft] = job[Scheduler].at)
    <3>1. OthersKeep(Scheduler) /\ \A e \in Drafts : ~Holds(Scheduler, e)'
      BY <1>11, <1>a, <2>1, DueClaimEffect DEF Holds, ClaimPCs, Stops
    <3>2. QED
      BY <1>11, <1>a, <2>1, <3>1, KeyedLocalFrame DEF DueClaim, claims, history
  <2>2. CASE status[job[Scheduler].draft] = "scheduled" /\ sendAt[job[Scheduler].draft] = job[Scheduler].at
    <3>1. PICK d \in Drafts : d = job[Scheduler].draft
      BY <1>11, <1>a DEF DueClaim, JobInv, JobInvOf
    <3>2. OthersKeep(Scheduler) /\ job'[Scheduler].draft = d
      BY <1>11, <1>a, <2>2, <3>1, DueClaimEffect
    <3>3. status' = [status EXCEPT ![d] = "sending"] /\ UNCHANGED <<claimedFor, accepted>>
      BY <1>11, <2>2, <3>1 DEF DueClaim, claims, history
    <3>4. "keyed" \notin accepted[d]
      BY <1>c, <2>2, <3>1
    <3>5. \A e \in Drafts : "keyed" \in accepted[e] =>
            status'[e] \in {"sending", "sent", "deleted"} /\ ~Holds(Scheduler, e)'
      BY <1>a, <1>c, <3>2, <3>3, <3>4 DEF TableOK, Holds
    <3>6. QED
      BY <1>a, <3>2, <3>3, <3>5, KeyedFrame DEF KeepsClaims
  <2>3. QED
    BY <2>1, <2>2
<1>12. ASSUME NEW p \in Procs, CheckRefused(p)
      PROVE  KeyedSendInv'
  <2>1. OthersKeep(p)
    BY <1>12, <1>a, CheckRefusedEffect
  <2>2. ASSUME NEW d \in Drafts, Holds(p, d)', "keyed" \in accepted[d]
        PROVE  KeyedOwner(p)'
    BY <1>12, <1>a, <1>b, <2>2, CheckRefusedEffect, Sentinels
       DEF CheckRefused, Holds, KeyedOwner, Keyed, ClaimPCs, Stops, Succeeds, Fails, FailsUnclear,
           Advances, Keeps, claims, Lookup
  <2>3. QED
    BY <1>12, <1>a, <2>1, <2>2, KeyedLocalFrame DEF CheckRefused, table, claims, history
<1>13. ASSUME NEW p \in Procs, CheckPassed(p)
      PROVE  KeyedSendInv'
  <2>1. OthersKeep(p)
    BY <1>13, <1>a, CheckPassedEffect
  <2>2. ASSUME NEW d \in Drafts, Holds(p, d)', "keyed" \in accepted[d]
        PROVE  KeyedOwner(p)'
    BY <1>13, <1>a, <1>b, <2>2, CheckPassedEffect, Sentinels
       DEF CheckPassed, Holds, KeyedOwner, Keyed, ClaimPCs, Stops, Succeeds, Fails, FailsUnclear,
           Advances, Keeps, claims, Lookup
  <2>3. QED
    BY <1>13, <1>a, <2>1, <2>2, KeyedLocalFrame DEF CheckPassed, table, claims, history
<1>14. ASSUME NEW p \in Procs, ClaimKey(p)
      PROVE  KeyedSendInv'
  <2>1. OthersKeep(p) /\ UNCHANGED <<status, accepted>>
    BY <1>14, <1>a, ClaimKeyEffect DEF ClaimKey, table, history
  <2>2. KeepsClaims
    <3>1. CASE Lookup(job[p].key, job[p].body) = "none"
      BY <1>14, <1>a, <3>1 DEF ClaimKey, KeepsClaims, Lookup, TableOK
    <3>2. CASE Lookup(job[p].key, job[p].body) # "none"
      BY <1>14, <3>2 DEF ClaimKey, KeepsClaims
    <3>3. QED
      BY <3>1, <3>2
  <2>3. ASSUME NEW d \in Drafts, Holds(p, d)', "keyed" \in accepted[d]
        PROVE  FALSE
    <3>1. ~Stops(p) /\ job'[p].draft = job[p].draft
      BY <1>14, <1>a, <2>3, ClaimKeyEffect
         DEF Holds, Stops, ClaimPCs, Succeeds, FailsUnclear, Advances, Keeps
    <3>2. QED
      BY <1>14, <1>b, <2>3, <3>1 DEF ClaimKey, Holds, ClaimPCs, KeyedOwner
  <2>4. QED
    BY <1>a, <1>c, <2>1, <2>2, <2>3, KeyedFrame
<1>15. ASSUME NEW p \in Procs, TransportAccepts(p)
      PROVE  KeyedSendInv'
  <2>1. OthersKeep(p) /\ Advances(p, "accepted")
    BY <1>15, <1>a, TransportAcceptsEffect
  <2>2. UNCHANGED <<status, claimedFor>>
    BY <1>15 DEF TransportAccepts, table, claims
  <2>3. CASE ~Keyed(p)
    <3>1. \A d \in Drafts : "keyed" \in accepted'[d] => "keyed" \in accepted[d]
      BY <1>15, <1>a, <2>3 DEF TransportAccepts, Route, OtherOK
    <3>2. ASSUME NEW d \in Drafts, Holds(p, d)', "keyed" \in accepted[d]
          PROVE  FALSE
      BY <1>15, <1>b, <2>1, <2>3, <3>2 DEF TransportAccepts, Advances, Holds, ClaimPCs, KeyedOwner
    <3>3. QED
      BY <1>a, <1>c, <2>1, <2>2, <3>1, <3>2, KeyedFrame DEF KeepsClaims
  <2>4. CASE Keyed(p)
    <3>1. claimedFor[job[p].key] = job[p].body
      BY <1>15, <2>4 DEF TransportAccepts, KeyInv, InFlight
    <3>2. KeyedOwner(p)'
      BY <2>1, <2>2, <2>4, <3>1 DEF KeyedOwner, Keyed, Advances
    <3>3. \A d \in Drafts \ {job[p].draft} : accepted'[d] = accepted[d]
      BY <1>15, <1>a DEF TransportAccepts, OtherOK
    <3>4. ASSUME NEW d \in Drafts, "keyed" \in accepted'[d]
          PROVE  status'[d] \in {"sending", "sent", "deleted"}
      <4>1. CASE d = job[p].draft
        BY <1>15, <1>a, <2>2, <4>1 DEF TransportAccepts, Ownership, ClaimIsExclusive, Holds, ClaimPCs
      <4>2. CASE d # job[p].draft
        BY <1>c, <2>2, <3>3, <3>4, <4>2
      <4>3. QED
        BY <4>1, <4>2
    <3>5. ASSUME NEW q \in Procs, NEW d \in Drafts, Holds(q, d)', "keyed" \in accepted'[d]
          PROVE  KeyedOwner(q)'
      <4>1. CASE q = p
        BY <3>2, <4>1
      <4>2. CASE q # p
        <5>1. pc'[q] = pc[q] /\ job'[q] = job[q] /\ Holds(q, d)
          BY <2>1, <3>5, <4>2 DEF OthersKeep, Holds
        <5>2. d # job[p].draft
          BY <1>15, <1>a, <4>2, <5>1 DEF TransportAccepts, Ownership, ClaimIsExclusive, Holds, ClaimPCs
        <5>3. KeyedOwner(q)
          BY <1>b, <3>3, <3>5, <5>1, <5>2
        <5>4. QED
          BY <2>2, <5>1, <5>3 DEF KeyedOwner, Keyed
      <4>3. QED
        BY <4>1, <4>2
    <3>6. QED
      BY <3>4, <3>5 DEF KeyedSendInv, KeyedOwnerInv, KeyedSendNeverResendable, KeyedOwner
  <2>5. QED
    BY <2>3, <2>4
<1>16. ASSUME NEW p \in Procs, SendFails(p)
      PROVE  KeyedSendInv'
  <2>1. OthersKeep(p)
    BY <1>16, <1>a, SendFailsEffect
  <2>2. ASSUME NEW d \in Drafts, Holds(p, d)', "keyed" \in accepted[d]
        PROVE  KeyedOwner(p)'
    BY <1>16, <1>a, <1>b, <2>2, SendFailsEffect, Sentinels
       DEF SendFails, Holds, KeyedOwner, Keyed, ClaimPCs, Stops, Succeeds, Fails, FailsUnclear,
           Advances, Keeps, claims, Lookup
  <2>3. QED
    BY <1>16, <1>a, <2>1, <2>2, KeyedLocalFrame DEF SendFails, table, claims, history
<1>17. ASSUME NEW p \in Procs, SendRecorded(p)
      PROVE  KeyedSendInv'
  <2>1. OthersKeep(p)
    BY <1>17, <1>a, SendRecordedEffect
  <2>2. ASSUME NEW d \in Drafts, Holds(p, d)', "keyed" \in accepted[d]
        PROVE  KeyedOwner(p)'
    BY <1>17, <1>a, <1>b, <2>2, SendRecordedEffect, Sentinels
       DEF SendRecorded, Holds, KeyedOwner, Keyed, ClaimPCs, Stops, Succeeds, Fails, FailsUnclear,
           Advances, Keeps, claims, Lookup
  <2>3. QED
    BY <1>17, <1>a, <2>1, <2>2, KeyedLocalFrame DEF SendRecorded, table, claims, history
<1>18. ASSUME NEW p \in Procs, CompleteKey(p)
      PROVE  KeyedSendInv'
  <2>1. OthersKeep(p)
    BY <1>18, <1>a, CompleteKeyEffect
  <2>2. ASSUME NEW d \in Drafts, Holds(p, d)', "keyed" \in accepted[d]
        PROVE  KeyedOwner(p)'
    <3>1. ~Stops(p) /\ (Succeeds(p) \/ FailsUnclear(p))
      BY <1>18, <1>a, <2>2, CompleteKeyEffect DEF Holds, Stops, ClaimPCs
    <3>2. KeyedOwner(p)
      BY <1>18, <1>b, <2>2, <3>1 DEF CompleteKey, Holds, ClaimPCs, Succeeds, FailsUnclear, Keeps
    <3>3. QED
      BY <1>18, <3>1, <3>2 DEF CompleteKey, KeyedOwner, Keyed, Succeeds, FailsUnclear, Keeps
  <2>3. QED
    BY <1>18, <1>a, <2>1, <2>2, KeyedLocalFrame DEF CompleteKey, table, history
<1>19. ASSUME NEW p \in Procs, Recheck(p)
      PROVE  KeyedSendInv'
  <2>1. OthersKeep(p)
    BY <1>19, <1>a, RecheckEffect
  <2>2. ASSUME NEW d \in Drafts, Holds(p, d)', "keyed" \in accepted[d]
        PROVE  FALSE
    <3>1. Advances(p, "settle") /\ Lookup(job[p].key, job[p].body) \in {"none", "conflict"}
      BY <1>19, <1>a, <2>2, RecheckEffect DEF Holds, Stops, ClaimPCs
    <3>2. KeyedOwner(p)
      BY <1>19, <1>b, <2>2, <3>1 DEF Recheck, Holds, ClaimPCs, Advances
    <3>3. job[p].body # NoBody
      BY <1>19, <1>a, Sentinels DEF Recheck, JobInv, JobInvOf, ClaimPCs
    <3>4. QED
      BY <3>1, <3>2, <3>3 DEF KeyedOwner, Lookup
  <2>3. QED
    BY <1>19, <1>a, <2>1, <2>2, KeyedLocalFrame DEF Recheck, table, claims, history
<1>20. ASSUME NEW p \in Procs, Settle(p)
      PROVE  KeyedSendInv'
  <2>1. OthersKeep(p) /\ \A e \in Drafts : ~Holds(p, e)'
    BY <1>20, <1>a, SettleEffect DEF Stops, Holds, ClaimPCs
  <2>2. UNCHANGED <<claimedFor, accepted>>
    BY <1>20 DEF Settle, claims
  <2>3. PICK d \in Drafts : d = job[p].draft /\ Holds(p, d)
    BY <1>20, <1>a DEF Settle, JobInv, JobInvOf, Holds, ClaimPCs
  <2>4. \A e \in Drafts \ {d} : status'[e] = status[e]
    BY <1>20, <1>a, <2>3 DEF Settle, TableOK
  <2>5. "keyed" \in accepted[d] => status'[d] \in {"sending", "sent", "deleted"}
    BY <1>20, <1>a, <1>b, <1>c, <2>3 DEF Settle, TableOK, KeyedOwner
  <2>6. QED
    BY <1>a, <1>c, <2>1, <2>2, <2>4, <2>5, KeyedFrame DEF KeepsClaims
<1>21. ASSUME NEW p \in Procs, StoreFails(p)
      PROVE  KeyedSendInv'
  <2>1. OthersKeep(p) /\ (Stops(p) \/ FailsUnclear(p))
    BY <1>21, <1>a, StoreFailsEffect
  <2>2. ASSUME NEW d \in Drafts, Holds(p, d)', "keyed" \in accepted[d]
        PROVE  KeyedOwner(p)'
    <3>1. ~Stops(p)
      BY <2>2 DEF Holds, Stops, ClaimPCs
    <3>2. pc[p] \in ClaimPCs
      BY <1>21, <1>a, <3>1, ControlEffect DEF StoreFails, ClaimPCs
    <3>3. KeyedOwner(p)
      BY <1>b, <2>1, <2>2, <3>1, <3>2 DEF Holds, FailsUnclear, Keeps
    <3>4. QED
      BY <1>21, <2>1, <3>1, <3>3 DEF StoreFails, claims, KeyedOwner, Keyed, FailsUnclear, Keeps
  <2>3. QED
    BY <1>21, <1>a, <2>1, <2>2, KeyedLocalFrame DEF StoreFails, table, claims, history
<1>22. ASSUME Tick
      PROVE  KeyedSendInv'
  BY <1>22 DEF Tick, table, claims, local, history, KeyedSendInv, KeyedOwnerInv, KeyedSendNeverResendable, Holds, Keyed
<1>23. ASSUME Crash
      PROVE  KeyedSendInv'
  BY <1>23 DEF Crash, table, claims, history, KeyedSendInv, KeyedOwnerInv, KeyedSendNeverResendable, Holds, ClaimPCs
<1>24. CASE UNCHANGED vars
  BY <1>24 DEF vars, table, claims, local, history, KeyedSendInv, KeyedOwnerInv,
         KeyedSendNeverResendable, Holds, Keyed
<1>25. QED
  BY <1>1, <1>2, <1>3, <1>4, <1>5, <1>6, <1>7, <1>8, <1>9, <1>10, <1>11, <1>12, <1>13, <1>14, <1>15, <1>16, <1>17, <1>18, <1>19, <1>20, <1>21, <1>22, <1>23, <1>24 DEF Next, OwnerStep, SchedulerStep, SendStep
-----------------------------------------------------------------------------
(* Drafts the scheduler handed over                                        *)

\* A step of p keeps the invariant if it spends no draft, revives none and
\* p itself takes none back.
LEMMA AutoFrame ==
  ASSUME AutoInv, NEW p \in Procs, OthersKeep(p),
         \A d \in autoSpent' :
           /\ d \in autoSpent
           /\ status'[d] \in {"sending", "sent", "failed", "deleted"}
           /\ Holds(p, d)' => p = Scheduler /\ pc'[p] \in {"accepted", "settle"}
  PROVE  AutoInv'
<1>1. ASSUME NEW q \in Procs, NEW d \in autoSpent', Holds(q, d)'
      PROVE  q = Scheduler /\ pc'[q] \in {"accepted", "settle"}
  BY <1>1 DEF AutoInv, OthersKeep, Holds
<1>2. QED
  BY <1>1 DEF AutoInv

\* Every step keeps a draft the scheduler handed over out of its reach.
LEMMA AutoStep ==
  OwnershipInv /\ AutoInv /\ [Next]_vars => AutoInv'
<1> SUFFICES ASSUME OwnershipInv, AutoInv, [Next]_vars PROVE AutoInv'
  OBVIOUS
<1>. USE DEF Procs
<1>a. TableOK /\ LocalOK /\ OtherOK /\ JobInv /\ Ownership /\ autoSpent \subseteq Drafts
  BY TypeParts DEF OwnershipInv, OtherOK
<1>b. \A d \in autoSpent : status[d] \in {"sending", "sent", "failed", "deleted"}
  BY DEF AutoInv
<1>c. \A p \in Procs, d \in autoSpent :
        Holds(p, d) => p = Scheduler /\ pc[p] \in {"accepted", "settle"}
  BY DEF AutoInv

<1>1. ASSUME NEW h \in Handlers, NEW d \in Drafts \ Unreadable,
             NEW b \in Bodies, NEW t \in Times \cup {NoTime},
             CreateDraft(h, d, b, t)
      PROVE  AutoInv'
  <2>1. OthersKeep(h) /\ autoSpent' = autoSpent
    BY <1>1 DEF CreateDraft, OthersKeep, local, history
  <2>2. \A e \in Drafts : Holds(h, e)' => Holds(h, e)
    BY <1>1 DEF CreateDraft, local, Holds
  <2>3. \A e \in autoSpent : status'[e] \in {"sending", "sent", "failed", "deleted"}
    BY <1>1, <1>a, <1>b DEF CreateDraft, TableOK
  <2>4. QED
    BY <1>1, <1>a, <1>c, <2>1, <2>2, <2>3, AutoFrame DEF CreateDraft, local
<1>2. ASSUME NEW h \in Handlers, NEW d \in Drafts \ Unreadable,
             NEW b \in Bodies, NEW t \in Times \cup {NoTime},
             EditRead(h, d, b, t)
      PROVE  AutoInv'
  <2>1. OthersKeep(h) /\ \A e \in Drafts : ~Holds(h, e)'
    BY <1>2, <1>a, EditReadEffect, Sentinels DEF Holds, ClaimPCs, SendTimes
  <2>2. QED
    BY <1>2, <1>a, <1>b, <2>1, AutoFrame DEF EditRead, table, history
<1>3. ASSUME NEW h \in Handlers, NEW d \in Drafts, DeleteDraft(h, d)
      PROVE  AutoInv'
  <2>1. OthersKeep(h) /\ autoSpent' = autoSpent
    BY <1>3 DEF DeleteDraft, OthersKeep, local, history
  <2>2. \A e \in Drafts : Holds(h, e)' => Holds(h, e)
    BY <1>3 DEF DeleteDraft, local, Holds
  <2>3. \A e \in autoSpent : status'[e] \in {"sending", "sent", "failed", "deleted"}
    BY <1>3, <1>a, <1>b DEF DeleteDraft, TableOK
  <2>4. QED
    BY <1>3, <1>a, <1>c, <2>1, <2>2, <2>3, AutoFrame DEF DeleteDraft, local
<1>4. ASSUME NEW h \in Handlers, NEW d \in Drafts, NEW k \in Keys \cup {NoKey}, SendRead(h, d, k)
      PROVE  AutoInv'
  <2>1. OthersKeep(h) /\ \A e \in Drafts : ~Holds(h, e)'
    BY <1>4, <1>a, SendReadEffect, Sentinels DEF Holds, ClaimPCs
  <2>2. QED
    BY <1>4, <1>a, <1>b, <2>1, AutoFrame DEF SendRead, table, history
<1>5. ASSUME NEW h \in Handlers, NEW k \in Keys, NEW b \in Bodies, DirectSend(h, k, b)
      PROVE  AutoInv'
  <2>1. OthersKeep(h) /\ \A e \in Drafts : ~Holds(h, e)'
    BY <1>5, <1>a, DirectSendEffect, Sentinels DEF Holds, ClaimPCs
  <2>2. QED
    BY <1>5, <1>a, <1>b, <2>1, AutoFrame DEF DirectSend, table, history
<1>6. ASSUME NEW h \in Handlers, EditWrite(h)
      PROVE  AutoInv'
  <2>1. OthersKeep(h) /\ \A e \in Drafts : ~Holds(h, e)'
    BY <1>6, <1>a, EditWriteEffect DEF Holds, ClaimPCs, Stops
  <2>2. \A e \in autoSpent' : e \in autoSpent /\ status'[e] = status[e]
    <3>1. CASE status[job[h].draft] \in Editable
      BY <1>6, <1>a, <3>1 DEF EditWrite, TableOK
    <3>2. CASE status[job[h].draft] \notin Editable
      BY <1>6, <3>2 DEF EditWrite, table
    <3>3. QED
      BY <3>1, <3>2
  <2>3. QED
    BY <1>a, <1>b, <2>1, <2>2, AutoFrame
<1>7. ASSUME NEW h \in Handlers, SendClaim(h)
      PROVE  AutoInv'
  <2>1. CASE status[job[h].draft] \notin Editable
    <3>1. OthersKeep(h) /\ \A e \in Drafts : ~Holds(h, e)'
      BY <1>7, <1>a, <2>1, SendClaimEffect DEF Holds, ClaimPCs, Stops
    <3>2. QED
      BY <1>7, <1>a, <1>b, <2>1, <3>1, AutoFrame DEF SendClaim
  <2>2. CASE status[job[h].draft] \in Editable
    <3>1. OthersKeep(h) /\ job'[h].draft = job[h].draft
      BY <1>7, <1>a, <2>2, SendClaimEffect
    <3>2. /\ autoSpent' = autoSpent \ {job[h].draft}
          /\ \A e \in Drafts \ {job[h].draft} : status'[e] = status[e]
      BY <1>7, <1>a, <2>2 DEF SendClaim, TableOK
    <3>3. QED
      BY <1>a, <1>b, <3>1, <3>2, AutoFrame DEF Holds
  <2>3. QED
    BY <2>1, <2>2
<1>8. ASSUME NEW h \in Handlers, Disconnect(h)
      PROVE  AutoInv'
  <2>1. OthersKeep(h) /\ \A e \in Drafts : ~Holds(h, e)'
    BY <1>8, <1>a, DisconnectEffect, Sentinels DEF Holds, ClaimPCs, Stops
  <2>2. QED
    BY <1>8, <1>a, <1>b, <2>1, AutoFrame DEF Disconnect, table, history
<1>9. ASSUME Poll
      PROVE  AutoInv'
  BY <1>9 DEF Poll, table, local, history, AutoInv, Holds
<1>10. ASSUME NEW d \in Drafts, DueRead(d)
      PROVE  AutoInv'
  <2>1. /\ OthersKeep(Scheduler)
        /\ \A e \in Drafts : Holds(Scheduler, e)' => Holds(Scheduler, e) /\ pc'[Scheduler] = pc[Scheduler]
    BY <1>10, <1>a, DueReadEffect DEF local, Holds, ClaimPCs
  <2>2. QED
    BY <1>10, <1>a, <1>b, <1>c, <2>1, AutoFrame DEF DueRead, table, history
<1>11. ASSUME DueClaim
      PROVE  AutoInv'
  <2>1. OthersKeep(Scheduler)
    BY <1>11, <1>a, DueClaimEffect
  <2>2. CASE ~(status[job[Scheduler].draft] = "scheduled" /\ sendAt[job[Scheduler].draft] = job[Scheduler].at)
    <3>1. \A e \in Drafts : ~Holds(Scheduler, e)'
      BY <1>11, <1>a, <2>2, DueClaimEffect DEF Holds, ClaimPCs, Stops
    <3>2. QED
      BY <1>11, <1>a, <1>b, <2>1, <2>2, <3>1, AutoFrame DEF DueClaim, history
  <2>3. CASE status[job[Scheduler].draft] = "scheduled" /\ sendAt[job[Scheduler].draft] = job[Scheduler].at
    <3>1. job'[Scheduler].draft = job[Scheduler].draft /\ job[Scheduler].draft \notin autoSpent
      BY <1>11, <1>a, <1>b, <2>3, DueClaimEffect
    <3>2. autoSpent' = autoSpent /\ \A e \in Drafts \ {job[Scheduler].draft} : status'[e] = status[e]
      BY <1>11, <1>a, <2>3 DEF DueClaim, TableOK, history
    <3>3. QED
      BY <1>a, <1>b, <2>1, <3>1, <3>2, AutoFrame DEF Holds
  <2>4. QED
    BY <2>2, <2>3
<1>12. ASSUME NEW p \in Procs, CheckRefused(p)
      PROVE  AutoInv'
  <2>1. OthersKeep(p)
    BY <1>12, <1>a, CheckRefusedEffect
  <2>2. UNCHANGED <<status, autoSpent>>
    BY <1>12 DEF CheckRefused, table, history
  <2>3. ASSUME NEW d \in autoSpent, Holds(p, d)'
        PROVE  p = Scheduler /\ pc'[p] = "settle"
    <3>1. Holds(p, d)
      BY <1>a, <2>3, <1>12, SendStepClaims DEF NoNewClaims, SendStep
    <3>2. p = Scheduler /\ pc[p] \in {"accepted", "settle"} /\ ~Keyed(p)
      BY <1>a, <1>c, <3>1 DEF JobInv, JobInvOf
    <3>3. QED
      BY <1>12, <1>a, <2>3, <3>2, CheckRefusedEffect
         DEF CheckRefused, Succeeds, Fails, FailsUnclear, Advances, Stops, Holds, ClaimPCs
  <2>4. QED
    BY <1>a, <1>b, <2>1, <2>2, <2>3, AutoFrame
<1>13. ASSUME NEW p \in Procs, CheckPassed(p)
      PROVE  AutoInv'
  <2>1. OthersKeep(p)
    BY <1>13, <1>a, CheckPassedEffect
  <2>2. UNCHANGED <<status, autoSpent>>
    BY <1>13 DEF CheckPassed, table, history
  <2>3. ASSUME NEW d \in autoSpent, Holds(p, d)'
        PROVE  p = Scheduler /\ pc'[p] = "settle"
    <3>1. Holds(p, d)
      BY <1>a, <2>3, <1>13, SendStepClaims DEF NoNewClaims, SendStep
    <3>2. p = Scheduler /\ pc[p] \in {"accepted", "settle"} /\ ~Keyed(p)
      BY <1>a, <1>c, <3>1 DEF JobInv, JobInvOf
    <3>3. QED
      BY <1>13, <1>a, <2>3, <3>2, CheckPassedEffect
         DEF CheckPassed, Succeeds, Fails, FailsUnclear, Advances, Stops, Holds, ClaimPCs
  <2>4. QED
    BY <1>a, <1>b, <2>1, <2>2, <2>3, AutoFrame
<1>14. ASSUME NEW p \in Procs, ClaimKey(p)
      PROVE  AutoInv'
  <2>1. OthersKeep(p)
    BY <1>14, <1>a, ClaimKeyEffect
  <2>2. UNCHANGED <<status, autoSpent>>
    BY <1>14 DEF ClaimKey, table, history
  <2>3. ASSUME NEW d \in autoSpent, Holds(p, d)'
        PROVE  p = Scheduler /\ pc'[p] = "settle"
    <3>1. Holds(p, d)
      BY <1>a, <2>3, <1>14, SendStepClaims DEF NoNewClaims, SendStep
    <3>2. p = Scheduler /\ pc[p] \in {"accepted", "settle"} /\ ~Keyed(p)
      BY <1>a, <1>c, <3>1 DEF JobInv, JobInvOf
    <3>3. QED
      BY <1>14, <1>a, <2>3, <3>2, ClaimKeyEffect
         DEF ClaimKey, Succeeds, Fails, FailsUnclear, Advances, Stops, Holds, ClaimPCs
  <2>4. QED
    BY <1>a, <1>b, <2>1, <2>2, <2>3, AutoFrame
<1>15. ASSUME NEW p \in Procs, TransportAccepts(p)
      PROVE  AutoInv'
  <2>1. OthersKeep(p) /\ Advances(p, "accepted")
    BY <1>15, <1>a, TransportAcceptsEffect
  <2>2. status' = status
    BY <1>15 DEF TransportAccepts, table
  <2>3. \A q \in Procs, d \in Drafts :
          Holds(q, d)' => Holds(q, d) /\ (q # p => pc'[q] = pc[q])
    BY <1>15, <2>1 DEF TransportAccepts, Holds, Advances, OthersKeep, ClaimPCs
  <2>4. CASE p # Scheduler
    BY <1>15, <1>a, <1>b, <1>c, <2>1, <2>2, <2>3, <2>4, AutoFrame DEF TransportAccepts
  <2>5. CASE p = Scheduler
    <3>1. PICK d \in Drafts : d = job[p].draft /\ Holds(p, d)
      BY <1>15, <1>a, <2>5 DEF TransportAccepts, JobInv, JobInvOf, Holds, ClaimPCs
    <3>2. autoSpent' = autoSpent \cup {d}
      BY <1>15, <2>5, <3>1 DEF TransportAccepts
    <3>3. status[d] \in {"sending", "deleted"} /\ \A q \in Procs \ {p} : ~Holds(q, d)
      BY <1>a, <3>1 DEF Ownership, ClaimIsExclusive
    <3>4. ASSUME NEW q \in Procs, NEW e \in autoSpent', Holds(q, e)'
          PROVE  q = Scheduler /\ pc'[q] \in {"accepted", "settle"}
      BY <1>a, <1>c, <2>1, <2>3, <2>5, <3>2, <3>3, <3>4 DEF Advances
    <3>5. QED
      BY <1>b, <2>2, <3>2, <3>3, <3>4 DEF AutoInv
  <2>6. QED
    BY <2>4, <2>5
<1>16. ASSUME NEW p \in Procs, SendFails(p)
      PROVE  AutoInv'
  <2>1. OthersKeep(p)
    BY <1>16, <1>a, SendFailsEffect
  <2>2. UNCHANGED <<status, autoSpent>>
    BY <1>16 DEF SendFails, table, history
  <2>3. ASSUME NEW d \in autoSpent, Holds(p, d)'
        PROVE  p = Scheduler /\ pc'[p] = "settle"
    <3>1. Holds(p, d)
      BY <1>a, <2>3, <1>16, SendStepClaims DEF NoNewClaims, SendStep
    <3>2. p = Scheduler /\ pc[p] \in {"accepted", "settle"} /\ ~Keyed(p)
      BY <1>a, <1>c, <3>1 DEF JobInv, JobInvOf
    <3>3. QED
      BY <1>16, <1>a, <2>3, <3>2, SendFailsEffect
         DEF SendFails, Succeeds, Fails, FailsUnclear, Advances, Stops, Holds, ClaimPCs
  <2>4. QED
    BY <1>a, <1>b, <2>1, <2>2, <2>3, AutoFrame
<1>17. ASSUME NEW p \in Procs, SendRecorded(p)
      PROVE  AutoInv'
  <2>1. OthersKeep(p)
    BY <1>17, <1>a, SendRecordedEffect
  <2>2. UNCHANGED <<status, autoSpent>>
    BY <1>17 DEF SendRecorded, table, history
  <2>3. ASSUME NEW d \in autoSpent, Holds(p, d)'
        PROVE  p = Scheduler /\ pc'[p] = "settle"
    <3>1. Holds(p, d)
      BY <1>a, <2>3, <1>17, SendStepClaims DEF NoNewClaims, SendStep
    <3>2. p = Scheduler /\ pc[p] \in {"accepted", "settle"} /\ ~Keyed(p)
      BY <1>a, <1>c, <3>1 DEF JobInv, JobInvOf
    <3>3. QED
      BY <1>17, <1>a, <2>3, <3>2, SendRecordedEffect
         DEF SendRecorded, Succeeds, Fails, FailsUnclear, Advances, Stops, Holds, ClaimPCs
  <2>4. QED
    BY <1>a, <1>b, <2>1, <2>2, <2>3, AutoFrame
<1>18. ASSUME NEW p \in Procs, CompleteKey(p)
      PROVE  AutoInv'
  <2>1. OthersKeep(p)
    BY <1>18, <1>a, CompleteKeyEffect
  <2>2. UNCHANGED <<status, autoSpent>>
    BY <1>18 DEF CompleteKey, table, history
  <2>3. ASSUME NEW d \in autoSpent, Holds(p, d)'
        PROVE  p = Scheduler /\ pc'[p] = "settle"
    <3>1. Holds(p, d)
      BY <1>a, <2>3, <1>18, SendStepClaims DEF NoNewClaims, SendStep
    <3>2. p = Scheduler /\ pc[p] \in {"accepted", "settle"} /\ ~Keyed(p)
      BY <1>a, <1>c, <3>1 DEF JobInv, JobInvOf
    <3>3. QED
      BY <1>18, <1>a, <2>3, <3>2, CompleteKeyEffect
         DEF CompleteKey, Succeeds, Fails, FailsUnclear, Advances, Stops, Holds, ClaimPCs
  <2>4. QED
    BY <1>a, <1>b, <2>1, <2>2, <2>3, AutoFrame
<1>19. ASSUME NEW p \in Procs, Recheck(p)
      PROVE  AutoInv'
  <2>1. OthersKeep(p)
    BY <1>19, <1>a, RecheckEffect
  <2>2. UNCHANGED <<status, autoSpent>>
    BY <1>19 DEF Recheck, table, history
  <2>3. ASSUME NEW d \in autoSpent, Holds(p, d)'
        PROVE  p = Scheduler /\ pc'[p] = "settle"
    <3>1. Holds(p, d)
      BY <1>a, <2>3, <1>19, SendStepClaims DEF NoNewClaims, SendStep
    <3>2. p = Scheduler /\ pc[p] \in {"accepted", "settle"} /\ ~Keyed(p)
      BY <1>a, <1>c, <3>1 DEF JobInv, JobInvOf
    <3>3. QED
      BY <1>19, <1>a, <2>3, <3>2, RecheckEffect
         DEF Recheck, Succeeds, Fails, FailsUnclear, Advances, Stops, Holds, ClaimPCs
  <2>4. QED
    BY <1>a, <1>b, <2>1, <2>2, <2>3, AutoFrame
<1>20. ASSUME NEW p \in Procs, Settle(p)
      PROVE  AutoInv'
  <2>1. OthersKeep(p) /\ \A e \in Drafts : ~Holds(p, e)'
    BY <1>20, <1>a, SettleEffect DEF Stops, Holds, ClaimPCs
  <2>2. PICK d \in Drafts : d = job[p].draft /\ Holds(p, d)
    BY <1>20, <1>a DEF Settle, JobInv, JobInvOf, Holds, ClaimPCs
  <2>3. \A e \in Drafts \ {d} : status'[e] = status[e]
    BY <1>20, <1>a, <2>2 DEF Settle, TableOK
  <2>4. d \in autoSpent => status'[d] \in {"sending", "sent", "failed", "deleted"}
    <3>1. ASSUME d \in autoSpent PROVE job[p].back = "failed"
      BY <1>20, <1>a, <1>c, <2>2, <3>1 DEF Settle, JobInv, JobInvOf
    <3>2. QED
      BY <1>20, <1>a, <1>b, <2>2, <3>1 DEF Settle, TableOK
  <2>5. autoSpent' = autoSpent
    BY <1>20 DEF Settle
  <2>6. QED
    BY <1>a, <1>b, <2>1, <2>3, <2>4, <2>5, AutoFrame
<1>21. ASSUME NEW p \in Procs, StoreFails(p)
      PROVE  AutoInv'
  <2>1. OthersKeep(p)
    BY <1>21, <1>a, StoreFailsEffect
  <2>2. UNCHANGED <<status, autoSpent>>
    BY <1>21 DEF StoreFails, table, history
  <2>3. ASSUME NEW d \in autoSpent, Holds(p, d)'
        PROVE  p = Scheduler /\ pc'[p] = "settle"
    <3>1. Holds(p, d)
      BY <1>a, <2>3, <1>21, SendStepClaims DEF NoNewClaims, SendStep
    <3>2. p = Scheduler /\ pc[p] \in {"accepted", "settle"} /\ ~Keyed(p)
      BY <1>a, <1>c, <3>1 DEF JobInv, JobInvOf
    <3>3. QED
      BY <1>21, <1>a, <2>3, <3>2, StoreFailsEffect
         DEF StoreFails, Succeeds, Fails, FailsUnclear, Advances, Stops, Holds, ClaimPCs
  <2>4. QED
    BY <1>a, <1>b, <2>1, <2>2, <2>3, AutoFrame
<1>22. ASSUME Tick
      PROVE  AutoInv'
  BY <1>22 DEF Tick, table, local, history, AutoInv, Holds
<1>23. ASSUME Crash
      PROVE  AutoInv'
  BY <1>23 DEF Crash, table, history, AutoInv, Holds, ClaimPCs
<1>24. CASE UNCHANGED vars
  BY <1>24 DEF vars, table, local, history, AutoInv, Holds
<1>25. QED
  BY <1>1, <1>2, <1>3, <1>4, <1>5, <1>6, <1>7, <1>8, <1>9, <1>10, <1>11, <1>12, <1>13, <1>14, <1>15, <1>16, <1>17, <1>18, <1>19, <1>20, <1>21, <1>22, <1>23, <1>24 DEF Next, OwnerStep, SchedulerStep, SendStep
-----------------------------------------------------------------------------
(* Drafts shown as sent                                                    *)

\* A stored response is never taken back.
KeepsReplays ==
  \A k \in Keys : replay[k] => replay'[k] /\ claimedFor'[k] = claimedFor[k]

\* A step of p keeps the invariant if what backs an owned or a sent draft
\* stays, and p itself fits.
LEMMA SentFrame ==
  ASSUME SentInv, NEW p \in Procs, OthersKeep(p), KeepsReplays,
         \A d \in Drafts :
           /\ status[d] \notin Editable =>
                body'[d] = body[d] /\ accepted[d] \subseteq accepted'[d]
           /\ status'[d] = "sent" => status[d] = "sent" \/ Backed(d)'
           /\ Holds(p, d)' => OwnerBacked(p, d)',
         \A q \in Procs, d \in Drafts : Holds(q, d) => status[d] \notin Editable
  PROVE  SentInv'
<1>1. ASSUME NEW d \in Drafts, status[d] \notin Editable, Backed(d)
      PROVE  Backed(d)'
  BY <1>1 DEF Backed, KeepsReplays
<1>2. ASSUME NEW q \in Procs, NEW d \in Drafts, Holds(q, d)'
      PROVE  OwnerBacked(q, d)'
  <2>1. CASE q = p
    BY <1>2, <2>1
  <2>2. CASE q # p
    <3>1. Holds(q, d) /\ pc'[q] = pc[q] /\ job'[q] = job[q]
      BY <1>2, <2>2 DEF OthersKeep, Holds
    <3>2. OwnerBacked(q, d) /\ status[d] \notin Editable
      BY <3>1 DEF SentInv
    <3>3. QED
      BY <1>1, <3>1, <3>2 DEF OwnerBacked
  <2>3. QED
    BY <2>1, <2>2
<1>3. ASSUME NEW d \in Drafts, status'[d] = "sent"
      PROVE  Backed(d)'
  BY <1>1, <1>3 DEF SentInv, SentWasAccepted, Backed, Editable
<1>4. QED
  BY <1>2, <1>3 DEF SentInv, SentWasAccepted, Backed

\* Every step keeps the drafts shown as sent backed.
LEMMA SentStep ==
  OwnershipInv /\ KeyInv /\ SentInv /\ [Next]_vars => SentInv'
<1> SUFFICES ASSUME OwnershipInv, KeyInv, SentInv, [Next]_vars PROVE SentInv'
  OBVIOUS
<1>. USE DEF Procs
<1>a. TableOK /\ LocalOK /\ OtherOK /\ JobInv /\ Ownership
  BY TypeParts DEF OwnershipInv
<1>b. \A q \in Procs, d \in Drafts : Holds(q, d) => status[d] \notin Editable
  BY <1>a DEF Ownership, ClaimIsExclusive, Editable
<1>c. \A q \in Procs, d \in Drafts : Holds(q, d) => OwnerBacked(q, d)
  BY DEF SentInv

<1>1. ASSUME NEW h \in Handlers, NEW d \in Drafts \ Unreadable,
             NEW b \in Bodies, NEW t \in Times \cup {NoTime},
             CreateDraft(h, d, b, t)
      PROVE  SentInv'
  <2>1. OthersKeep(h) /\ KeepsReplays /\ accepted' = accepted
    BY <1>1 DEF CreateDraft, OthersKeep, local, claims, KeepsReplays, history
  <2>2. /\ status[d] = "absent" /\ status'[d] # "sent"
        /\ \A e \in Drafts \ {d} : status'[e] = status[e] /\ body'[e] = body[e]
    BY <1>1, <1>a DEF CreateDraft, TableOK
  <2>3. ASSUME NEW q \in Procs, NEW e \in Drafts, Holds(q, e)'
        PROVE  OwnerBacked(q, e)'
    <3>1. Holds(q, e) /\ pc'[q] = pc[q] /\ job'[q] = job[q]
      BY <1>1, <2>3 DEF CreateDraft, local, Holds
    <3>2. e # d
      BY <1>a, <2>2, <3>1 DEF Ownership, ClaimIsExclusive
    <3>3. QED
      BY <1>1, <1>c, <2>1, <2>2, <3>1, <3>2 DEF CreateDraft, claims, OwnerBacked, Backed
  <2>4. \A e \in Drafts : status'[e] = "sent" => Backed(e)'
    BY <1>1, <2>1, <2>2 DEF CreateDraft, claims, SentInv, SentWasAccepted, Backed
  <2>5. QED
    BY <2>3, <2>4 DEF SentInv, SentWasAccepted, Backed
<1>2. ASSUME NEW h \in Handlers, NEW d \in Drafts \ Unreadable,
             NEW b \in Bodies, NEW t \in Times \cup {NoTime},
             EditRead(h, d, b, t)
      PROVE  SentInv'
  <2>1. OthersKeep(h) /\ \A e \in Drafts : ~Holds(h, e)'
    BY <1>2, <1>a, EditReadEffect, Sentinels DEF Holds, ClaimPCs, SendTimes
  <2>2. UNCHANGED <<status, body, accepted>> /\ KeepsReplays
    BY <1>2 DEF EditRead, table, claims, history, KeepsReplays
  <2>3. QED
    BY <1>b, <2>1, <2>2, SentFrame
<1>3. ASSUME NEW h \in Handlers, NEW d \in Drafts, DeleteDraft(h, d)
      PROVE  SentInv'
  <2>1. OthersKeep(h) /\ KeepsReplays /\ UNCHANGED <<accepted, body>>
    BY <1>3 DEF DeleteDraft, OthersKeep, local, claims, KeepsReplays, history
  <2>2. \A e \in Drafts : status'[e] \in {status[e], "deleted"}
    BY <1>3, <1>a DEF DeleteDraft, TableOK
  <2>3. \A e \in Drafts : Holds(h, e)' => OwnerBacked(h, e)'
    BY <1>3, <1>c, <2>1 DEF DeleteDraft, local, claims, Holds, OwnerBacked, Backed
  <2>4. QED
    BY <1>b, <2>1, <2>2, <2>3, SentFrame
<1>4. ASSUME NEW h \in Handlers, NEW d \in Drafts, NEW k \in Keys \cup {NoKey}, SendRead(h, d, k)
      PROVE  SentInv'
  <2>1. OthersKeep(h) /\ \A e \in Drafts : ~Holds(h, e)'
    BY <1>4, <1>a, SendReadEffect, Sentinels DEF Holds, ClaimPCs
  <2>2. UNCHANGED <<status, body, accepted>> /\ KeepsReplays
    BY <1>4 DEF SendRead, table, claims, history, KeepsReplays
  <2>3. QED
    BY <1>b, <2>1, <2>2, SentFrame
<1>5. ASSUME NEW h \in Handlers, NEW k \in Keys, NEW b \in Bodies, DirectSend(h, k, b)
      PROVE  SentInv'
  <2>1. OthersKeep(h) /\ \A e \in Drafts : ~Holds(h, e)'
    BY <1>5, <1>a, DirectSendEffect, Sentinels DEF Holds, ClaimPCs
  <2>2. UNCHANGED <<status, body, accepted>> /\ KeepsReplays
    BY <1>5 DEF DirectSend, table, claims, history, KeepsReplays
  <2>3. QED
    BY <1>b, <2>1, <2>2, SentFrame
<1>6. ASSUME NEW h \in Handlers, EditWrite(h)
      PROVE  SentInv'
  <2>1. OthersKeep(h) /\ KeepsReplays /\ \A e \in Drafts : ~Holds(h, e)'
    BY <1>6, <1>a, EditWriteEffect DEF EditWrite, claims, KeepsReplays, Holds, ClaimPCs, Stops
  <2>2. CASE status[job[h].draft] \notin Editable
    BY <1>6, <1>b, <2>1, <2>2, SentFrame DEF EditWrite, table
  <2>3. CASE status[job[h].draft] \in Editable
    <3>1. job[h].draft \in Drafts
      BY <1>6, <1>a DEF EditWrite, JobInv, JobInvOf
    <3>2. status'[job[h].draft] # "sent"
      BY <1>6, <1>a, <2>3, <3>1 DEF EditWrite, TableOK
    <3>3. \A e \in Drafts \ {job[h].draft} :
            status'[e] = status[e] /\ body'[e] = body[e] /\ accepted'[e] = accepted[e]
      BY <1>6, <1>a, <2>3 DEF EditWrite, TableOK, OtherOK
    <3>4. QED
      BY <1>b, <2>1, <2>3, <3>2, <3>3, SentFrame
  <2>4. QED
    BY <2>2, <2>3
<1>7. ASSUME NEW h \in Handlers, SendClaim(h)
      PROVE  SentInv'
  <2>1. OthersKeep(h) /\ KeepsReplays /\ UNCHANGED <<accepted, body>>
    BY <1>7, <1>a, SendClaimEffect DEF SendClaim, claims, KeepsReplays, history
  <2>2. \A e \in Drafts : Holds(h, e)' => OwnerBacked(h, e)'
    BY <1>7, <1>a, SendClaimEffect DEF Holds, Stops, ClaimPCs, OwnerBacked
  <2>3. \A e \in Drafts : status'[e] = "sent" => status[e] = "sent"
    BY <1>7, <1>a DEF SendClaim, TableOK
  <2>4. QED
    BY <1>b, <2>1, <2>2, <2>3, SentFrame
<1>8. ASSUME NEW h \in Handlers, Disconnect(h)
      PROVE  SentInv'
  <2>1. OthersKeep(h) /\ \A e \in Drafts : ~Holds(h, e)'
    BY <1>8, <1>a, DisconnectEffect, Sentinels DEF Holds, ClaimPCs, Stops
  <2>2. UNCHANGED <<status, body, accepted>> /\ KeepsReplays
    BY <1>8 DEF Disconnect, table, claims, history, KeepsReplays
  <2>3. QED
    BY <1>b, <2>1, <2>2, SentFrame
<1>9. ASSUME Poll
      PROVE  SentInv'
  BY <1>9 DEF Poll, table, claims, local, history, SentInv, SentWasAccepted, OwnerBacked, Backed, Holds
<1>10. ASSUME NEW d \in Drafts, DueRead(d)
      PROVE  SentInv'
  <2>1. OthersKeep(Scheduler) /\ KeepsReplays /\ UNCHANGED <<accepted, body, status, claims>>
    BY <1>10, <1>a, DueReadEffect DEF DueRead, table, claims, KeepsReplays, history
  <2>2. \A e \in Drafts : Holds(Scheduler, e)' => OwnerBacked(Scheduler, e)'
    BY <1>10, <1>a, <1>c, <2>1, DueReadEffect DEF local, claims, Holds, ClaimPCs, OwnerBacked, Backed
  <2>3. QED
    BY <1>b, <2>1, <2>2, SentFrame
<1>11. ASSUME DueClaim
      PROVE  SentInv'
  <2>1. OthersKeep(Scheduler) /\ KeepsReplays /\ UNCHANGED <<accepted, body>>
    BY <1>11, <1>a, DueClaimEffect DEF DueClaim, claims, KeepsReplays, history
  <2>2. \A e \in Drafts : Holds(Scheduler, e)' => OwnerBacked(Scheduler, e)'
    BY <1>11, <1>a, DueClaimEffect DEF Holds, Stops, ClaimPCs, OwnerBacked
  <2>3. \A e \in Drafts : status'[e] = "sent" => status[e] = "sent"
    BY <1>11, <1>a DEF DueClaim, TableOK
  <2>4. QED
    BY <1>b, <2>1, <2>2, <2>3, SentFrame
<1>12. ASSUME NEW p \in Procs, CheckRefused(p)
      PROVE  SentInv'
  <2>1. OthersKeep(p) /\ UNCHANGED <<status, body, accepted>>
    BY <1>12, <1>a, CheckRefusedEffect DEF CheckRefused, table, history
  <2>2. KeepsReplays
    BY <1>12 DEF CheckRefused, claims, KeepsReplays
  <2>3. ASSUME NEW d \in Drafts, Holds(p, d)'
        PROVE  OwnerBacked(p, d)'
    <3>1. Holds(p, d) /\ job[p].body = body[d] /\ job[p].draft = d /\ d # NoDraft /\ ~Stops(p)
      BY <1>12, <1>a, <2>3, SendStepClaims, Sentinels
         DEF NoNewClaims, SendStep, Ownership, SendsTheClaimedRow, Holds, Stops, ClaimPCs
    <3>2. OwnerBacked(p, d)
      BY <1>c, <3>1
    <3>3. QED
      BY <1>12, <1>a, <2>1, <3>1, <3>2, CheckRefusedEffect
         DEF CheckRefused, Succeeds, Fails, FailsUnclear, Advances, OwnerBacked, Backed
  <2>4. QED
    BY <1>b, <2>1, <2>2, <2>3, SentFrame
<1>13. ASSUME NEW p \in Procs, CheckPassed(p)
      PROVE  SentInv'
  <2>1. OthersKeep(p) /\ UNCHANGED <<status, body, accepted>>
    BY <1>13, <1>a, CheckPassedEffect DEF CheckPassed, table, history
  <2>2. KeepsReplays
    BY <1>13 DEF CheckPassed, claims, KeepsReplays
  <2>3. ASSUME NEW d \in Drafts, Holds(p, d)'
        PROVE  OwnerBacked(p, d)'
    <3>1. Holds(p, d) /\ job[p].body = body[d] /\ job[p].draft = d /\ d # NoDraft /\ ~Stops(p)
      BY <1>13, <1>a, <2>3, SendStepClaims, Sentinels
         DEF NoNewClaims, SendStep, Ownership, SendsTheClaimedRow, Holds, Stops, ClaimPCs
    <3>2. OwnerBacked(p, d)
      BY <1>c, <3>1
    <3>3. CASE ~Keyed(p) \/ Lookup(job[p].key, job[p].body) # "replay"
      BY <1>13, <1>a, <3>1, <3>3, CheckPassedEffect DEF FailsUnclear, Advances, OwnerBacked
    <3>4. CASE Keyed(p) /\ Lookup(job[p].key, job[p].body) = "replay"
      <4>1. job[p].key \in Keys
        BY <1>a, <3>4 DEF LocalOK, Jobs, Keyed
      <4>2. Backed(d)
        BY <3>1, <3>4, <4>1 DEF Lookup, Backed
      <4>3. Backed(d)'
        BY <1>13, <2>1, <4>2 DEF CheckPassed, claims, Backed
      <4>4. pc'[p] = "settle"
        BY <1>13, <1>a, <3>1, <3>4, CheckPassedEffect DEF Succeeds
      <4>5. QED
        BY <4>3, <4>4 DEF OwnerBacked
    <3>5. QED
      BY <3>3, <3>4
  <2>4. QED
    BY <1>b, <2>1, <2>2, <2>3, SentFrame
<1>14. ASSUME NEW p \in Procs, ClaimKey(p)
      PROVE  SentInv'
  <2>1. OthersKeep(p) /\ UNCHANGED <<status, body, accepted>>
    BY <1>14, <1>a, ClaimKeyEffect DEF ClaimKey, table, history
  <2>2. KeepsReplays
    <3>1. CASE Lookup(job[p].key, job[p].body) = "none"
      BY <1>14, <1>a, <3>1 DEF ClaimKey, KeepsReplays, Lookup, TableOK, KeyInv
    <3>2. CASE Lookup(job[p].key, job[p].body) # "none"
      BY <1>14, <3>2 DEF ClaimKey, KeepsReplays
    <3>3. QED
      BY <3>1, <3>2
  <2>3. ASSUME NEW d \in Drafts, Holds(p, d)'
        PROVE  OwnerBacked(p, d)'
    <3>1. Holds(p, d) /\ job[p].body = body[d] /\ job[p].draft = d /\ d # NoDraft /\ ~Stops(p)
      BY <1>14, <1>a, <2>3, SendStepClaims, Sentinels
         DEF NoNewClaims, SendStep, Ownership, SendsTheClaimedRow, Holds, Stops, ClaimPCs
    <3>2. OwnerBacked(p, d)
      BY <1>c, <3>1
    <3>3. CASE Lookup(job[p].key, job[p].body) # "replay"
      BY <1>14, <1>a, <3>1, <3>3, ClaimKeyEffect DEF FailsUnclear, Advances, OwnerBacked
    <3>4. CASE Lookup(job[p].key, job[p].body) = "replay"
      <4>1. job[p].key \in Keys
        BY <1>14, <1>a DEF ClaimKey, LocalOK, Jobs, Keyed, JobInv, JobInvOf
      <4>2. Backed(d)
        BY <3>1, <3>4, <4>1 DEF Lookup, Backed
      <4>3. Backed(d)'
        BY <1>14, <2>1, <3>4, <4>2 DEF ClaimKey, Backed
      <4>4. pc'[p] = "settle"
        BY <1>14, <1>a, <3>1, <3>4, ClaimKeyEffect DEF Succeeds
      <4>5. QED
        BY <4>3, <4>4 DEF OwnerBacked
    <3>5. QED
      BY <3>3, <3>4
  <2>4. QED
    BY <1>b, <2>1, <2>2, <2>3, SentFrame
<1>15. ASSUME NEW p \in Procs, TransportAccepts(p)
      PROVE  SentInv'
  <2>1. OthersKeep(p) /\ UNCHANGED <<status, body, claims>> /\ KeepsReplays
    BY <1>15, <1>a, TransportAcceptsEffect DEF TransportAccepts, table, claims, KeepsReplays
  <2>2. \A e \in Drafts : accepted[e] \subseteq accepted'[e]
    BY <1>15, <1>a DEF TransportAccepts, OtherOK
  <2>3. ASSUME NEW d \in Drafts, Holds(p, d)'
        PROVE  OwnerBacked(p, d)'
    <3>1. pc'[p] = "accepted" /\ job[p].draft = d
      BY <1>15, <1>a, <2>3, TransportAcceptsEffect DEF Advances, Holds
    <3>2. accepted'[d] # {}
      BY <1>15, <1>a, <3>1, Sentinels DEF TransportAccepts, OtherOK
    <3>3. QED
      BY <3>1, <3>2 DEF OwnerBacked
  <2>4. QED
    BY <1>b, <2>1, <2>2, <2>3, SentFrame
<1>16. ASSUME NEW p \in Procs, SendFails(p)
      PROVE  SentInv'
  <2>1. OthersKeep(p) /\ UNCHANGED <<status, body, accepted>>
    BY <1>16, <1>a, SendFailsEffect DEF SendFails, table, history
  <2>2. KeepsReplays
    BY <1>16 DEF SendFails, claims, KeepsReplays
  <2>3. ASSUME NEW d \in Drafts, Holds(p, d)'
        PROVE  OwnerBacked(p, d)'
    <3>1. Holds(p, d) /\ job[p].body = body[d] /\ job[p].draft = d /\ d # NoDraft /\ ~Stops(p)
      BY <1>16, <1>a, <2>3, SendStepClaims, Sentinels
         DEF NoNewClaims, SendStep, Ownership, SendsTheClaimedRow, Holds, Stops, ClaimPCs
    <3>2. OwnerBacked(p, d)
      BY <1>c, <3>1
    <3>3. QED
      BY <1>16, <1>a, <2>1, <3>1, <3>2, SendFailsEffect
         DEF SendFails, Succeeds, Fails, FailsUnclear, Advances, OwnerBacked, Backed
  <2>4. QED
    BY <1>b, <2>1, <2>2, <2>3, SentFrame
<1>17. ASSUME NEW p \in Procs, SendRecorded(p)
      PROVE  SentInv'
  <2>1. OthersKeep(p) /\ UNCHANGED <<status, body, accepted>>
    BY <1>17, <1>a, SendRecordedEffect DEF SendRecorded, table, history
  <2>2. KeepsReplays
    BY <1>17 DEF SendRecorded, claims, KeepsReplays
  <2>3. ASSUME NEW d \in Drafts, Holds(p, d)'
        PROVE  OwnerBacked(p, d)'
    <3>1. Holds(p, d) /\ job[p].body = body[d] /\ job[p].draft = d /\ d # NoDraft /\ ~Stops(p)
      BY <1>17, <1>a, <2>3, SendStepClaims, Sentinels
         DEF NoNewClaims, SendStep, Ownership, SendsTheClaimedRow, Holds, Stops, ClaimPCs
    <3>2. OwnerBacked(p, d)
      BY <1>c, <3>1
    <3>3. QED
      BY <1>17, <1>a, <2>1, <3>1, <3>2, SendRecordedEffect
         DEF SendRecorded, Succeeds, Fails, FailsUnclear, Advances, OwnerBacked, Backed
  <2>4. QED
    BY <1>b, <2>1, <2>2, <2>3, SentFrame
<1>18. ASSUME NEW p \in Procs, CompleteKey(p)
      PROVE  SentInv'
  <2>1. OthersKeep(p) /\ UNCHANGED <<status, body, accepted>>
    BY <1>18, <1>a, CompleteKeyEffect DEF CompleteKey, table, history
  <2>2. KeepsReplays
    BY <1>18, <1>a DEF CompleteKey, KeepsReplays, TableOK
  <2>3. ASSUME NEW d \in Drafts, Holds(p, d)'
        PROVE  OwnerBacked(p, d)'
    <3>1. Holds(p, d) /\ job[p].body = body[d] /\ job[p].draft = d /\ d # NoDraft /\ ~Stops(p)
      BY <1>18, <1>a, <2>3, SendStepClaims, Sentinels
         DEF NoNewClaims, SendStep, Ownership, SendsTheClaimedRow, Holds, Stops, ClaimPCs
    <3>2. OwnerBacked(p, d)
      BY <1>c, <3>1
    <3>3. accepted[d] # {}
      BY <1>18, <3>2 DEF CompleteKey, OwnerBacked
    <3>4. QED
      BY <1>18, <1>a, <2>1, <3>1, <3>3, CompleteKeyEffect DEF Succeeds, FailsUnclear, OwnerBacked, Backed
  <2>4. QED
    BY <1>b, <2>1, <2>2, <2>3, SentFrame
<1>19. ASSUME NEW p \in Procs, Recheck(p)
      PROVE  SentInv'
  <2>1. OthersKeep(p) /\ UNCHANGED <<status, body, accepted>>
    BY <1>19, <1>a, RecheckEffect DEF Recheck, table, history
  <2>2. KeepsReplays
    BY <1>19 DEF Recheck, claims, KeepsReplays
  <2>3. ASSUME NEW d \in Drafts, Holds(p, d)'
        PROVE  OwnerBacked(p, d)'
    <3>1. Holds(p, d) /\ job[p].body = body[d] /\ job[p].draft = d /\ d # NoDraft /\ ~Stops(p)
      BY <1>19, <1>a, <2>3, SendStepClaims, Sentinels
         DEF NoNewClaims, SendStep, Ownership, SendsTheClaimedRow, Holds, Stops, ClaimPCs
    <3>2. OwnerBacked(p, d)
      BY <1>c, <3>1
    <3>3. QED
      BY <1>19, <1>a, <2>1, <3>1, <3>2, RecheckEffect
         DEF Recheck, Succeeds, Fails, FailsUnclear, Advances, OwnerBacked, Backed
  <2>4. QED
    BY <1>b, <2>1, <2>2, <2>3, SentFrame
<1>20. ASSUME NEW p \in Procs, Settle(p)
      PROVE  SentInv'
  <2>1. OthersKeep(p) /\ \A e \in Drafts : ~Holds(p, e)'
    BY <1>20, <1>a, SettleEffect DEF Stops, Holds, ClaimPCs
  <2>2. UNCHANGED <<claims, body, accepted>> /\ KeepsReplays
    BY <1>20 DEF Settle, claims, KeepsReplays
  <2>3. PICK d \in Drafts : d = job[p].draft /\ Holds(p, d)
    BY <1>20, <1>a DEF Settle, JobInv, JobInvOf, Holds, ClaimPCs
  <2>4. status'[d] = "sent" => status[d] = "sent" \/ job[p].ok
    BY <1>20, <1>a, <2>3 DEF Settle, TableOK, LocalOK, Jobs, BackTo
  <2>5. status'[d] = "sent" => status[d] = "sent" \/ Backed(d)'
    BY <1>20, <1>c, <2>2, <2>3, <2>4 DEF Settle, OwnerBacked, Backed, claims
  <2>6. \A e \in Drafts \ {d} : status'[e] = status[e]
    BY <1>20, <1>a, <2>3 DEF Settle, TableOK
  <2>7. QED
    BY <1>b, <2>1, <2>2, <2>5, <2>6, SentFrame
<1>21. ASSUME NEW p \in Procs, StoreFails(p)
      PROVE  SentInv'
  <2>1. OthersKeep(p) /\ UNCHANGED <<status, body, accepted>>
    BY <1>21, <1>a, StoreFailsEffect DEF StoreFails, table, history
  <2>2. KeepsReplays
    BY <1>21 DEF StoreFails, claims, KeepsReplays
  <2>3. ASSUME NEW d \in Drafts, Holds(p, d)'
        PROVE  OwnerBacked(p, d)'
    <3>1. Holds(p, d) /\ job[p].body = body[d] /\ job[p].draft = d /\ d # NoDraft /\ ~Stops(p)
      BY <1>21, <1>a, <2>3, SendStepClaims, Sentinels
         DEF NoNewClaims, SendStep, Ownership, SendsTheClaimedRow, Holds, Stops, ClaimPCs
    <3>2. OwnerBacked(p, d)
      BY <1>c, <3>1
    <3>3. QED
      BY <1>21, <1>a, <2>1, <3>1, <3>2, StoreFailsEffect
         DEF StoreFails, Succeeds, Fails, FailsUnclear, Advances, OwnerBacked, Backed
  <2>4. QED
    BY <1>b, <2>1, <2>2, <2>3, SentFrame
<1>22. ASSUME Tick
      PROVE  SentInv'
  BY <1>22 DEF Tick, table, claims, local, history, SentInv, SentWasAccepted, OwnerBacked, Backed, Holds
<1>23. ASSUME Crash
      PROVE  SentInv'
  BY <1>23 DEF Crash, table, claims, history, SentInv, SentWasAccepted, Backed, Holds, ClaimPCs
<1>24. CASE UNCHANGED vars
  BY <1>24 DEF vars, table, claims, local, history, SentInv, SentWasAccepted, OwnerBacked, Backed, Holds
<1>25. QED
  BY <1>1, <1>2, <1>3, <1>4, <1>5, <1>6, <1>7, <1>8, <1>9, <1>10, <1>11, <1>12, <1>13, <1>14, <1>15, <1>16, <1>17, <1>18, <1>19, <1>20, <1>21, <1>22, <1>23, <1>24 DEF Next, OwnerStep, SchedulerStep, SendStep

-----------------------------------------------------------------------------
(* Steps that are not allowed                                              *)

\* No step takes a sent draft, or a draft whose sender is gone, anywhere but
\* out of the table.
LEMMA NeverResentStep ==
  OwnershipInv /\ [Next]_vars => [RetiresFinishedDrafts]_vars
<1> SUFFICES ASSUME OwnershipInv, [Next]_vars PROVE RetiresFinishedDrafts \/ UNCHANGED vars
  OBVIOUS
<1>. USE DEF Procs
<1>a. TableOK /\ LocalOK /\ OtherOK /\ JobInv /\ Ownership
  BY TypeParts DEF OwnershipInv
<1>b. \A q \in Procs, d \in Drafts : Holds(q, d) => status[d] # "sent"
  BY <1>a DEF Ownership, ClaimIsExclusive

<1>1. ASSUME NEW h \in Handlers, NEW d \in Drafts \ Unreadable,
             NEW b \in Bodies, NEW t \in Times \cup {NoTime},
             CreateDraft(h, d, b, t)
      PROVE  RetiresFinishedDrafts
  BY <1>1, <1>a DEF CreateDraft, RetiresFinishedDrafts, TableOK, history
<1>2. ASSUME NEW h \in Handlers, NEW d \in Drafts \ Unreadable,
             NEW b \in Bodies, NEW t \in Times \cup {NoTime},
             EditRead(h, d, b, t)
      PROVE  RetiresFinishedDrafts
  BY <1>2 DEF EditRead, RetiresFinishedDrafts, table, local, history
<1>3. ASSUME NEW h \in Handlers, NEW d \in Drafts, DeleteDraft(h, d)
      PROVE  RetiresFinishedDrafts
  BY <1>3, <1>a DEF DeleteDraft, RetiresFinishedDrafts, TableOK, history
<1>4. ASSUME NEW h \in Handlers, NEW d \in Drafts, NEW k \in Keys \cup {NoKey}, SendRead(h, d, k)
      PROVE  RetiresFinishedDrafts
  BY <1>4 DEF SendRead, RetiresFinishedDrafts, table, local, history
<1>5. ASSUME NEW h \in Handlers, NEW k \in Keys, NEW b \in Bodies, DirectSend(h, k, b)
      PROVE  RetiresFinishedDrafts
  BY <1>5 DEF DirectSend, RetiresFinishedDrafts, table, local, history
<1>6. ASSUME NEW h \in Handlers, EditWrite(h)
      PROVE  RetiresFinishedDrafts
  <2>1. CASE status[job[h].draft] \notin Editable
    BY <1>6, <2>1 DEF EditWrite, RetiresFinishedDrafts, table
  <2>2. CASE status[job[h].draft] \in Editable
    <3>1. \A d \in Drafts \ {job[h].draft} : status'[d] = status[d] /\ accepted'[d] = accepted[d]
      BY <1>6, <1>a, <2>2 DEF EditWrite, TableOK, OtherOK
    <3>2. QED
      BY <2>2, <3>1 DEF RetiresFinishedDrafts, Editable
  <2>3. QED
    BY <2>1, <2>2
<1>7. ASSUME NEW h \in Handlers, SendClaim(h)
      PROVE  RetiresFinishedDrafts
  BY <1>7, <1>a DEF SendClaim, RetiresFinishedDrafts, TableOK, Editable
<1>8. ASSUME NEW h \in Handlers, Disconnect(h)
      PROVE  RetiresFinishedDrafts
  BY <1>8 DEF Disconnect, RetiresFinishedDrafts, table, local, history
<1>9. ASSUME Poll
      PROVE  RetiresFinishedDrafts
  BY <1>9 DEF Poll, RetiresFinishedDrafts, table, local, history
<1>10. ASSUME NEW d \in Drafts, DueRead(d)
      PROVE  RetiresFinishedDrafts
  BY <1>10 DEF DueRead, RetiresFinishedDrafts, table, local, history
<1>11. ASSUME DueClaim
      PROVE  RetiresFinishedDrafts
  BY <1>11, <1>a DEF DueClaim, RetiresFinishedDrafts, TableOK, history
<1>12. ASSUME NEW p \in Procs, CheckRefused(p)
      PROVE  RetiresFinishedDrafts
  BY <1>12 DEF CheckRefused, RetiresFinishedDrafts, table, local, history
<1>13. ASSUME NEW p \in Procs, CheckPassed(p)
      PROVE  RetiresFinishedDrafts
  BY <1>13 DEF CheckPassed, RetiresFinishedDrafts, table, local, history
<1>14. ASSUME NEW p \in Procs, ClaimKey(p)
      PROVE  RetiresFinishedDrafts
  BY <1>14 DEF ClaimKey, RetiresFinishedDrafts, table, local, history
<1>15. ASSUME NEW p \in Procs, TransportAccepts(p)
      PROVE  RetiresFinishedDrafts
  <2>1. status' = status /\ \A d \in Drafts \ {job[p].draft} : accepted'[d] = accepted[d]
    BY <1>15, <1>a DEF TransportAccepts, table, OtherOK
  <2>2. \A d \in Drafts : d = job[p].draft => Holds(p, d)
    BY <1>15 DEF TransportAccepts, Holds, ClaimPCs
  <2>3. QED
    BY <1>b, <2>1, <2>2 DEF RetiresFinishedDrafts
<1>16. ASSUME NEW p \in Procs, SendFails(p)
      PROVE  RetiresFinishedDrafts
  BY <1>16 DEF SendFails, RetiresFinishedDrafts, table, local, history
<1>17. ASSUME NEW p \in Procs, SendRecorded(p)
      PROVE  RetiresFinishedDrafts
  BY <1>17 DEF SendRecorded, RetiresFinishedDrafts, table, local, history
<1>18. ASSUME NEW p \in Procs, CompleteKey(p)
      PROVE  RetiresFinishedDrafts
  BY <1>18 DEF CompleteKey, RetiresFinishedDrafts, table, local, history
<1>19. ASSUME NEW p \in Procs, Recheck(p)
      PROVE  RetiresFinishedDrafts
  BY <1>19 DEF Recheck, RetiresFinishedDrafts, table, local, history
<1>20. ASSUME NEW p \in Procs, Settle(p)
      PROVE  RetiresFinishedDrafts
  <2>1. accepted' = accepted /\ \A d \in Drafts \ {job[p].draft} : status'[d] = status[d]
    BY <1>20, <1>a DEF Settle, TableOK
  <2>2. \A d \in Drafts : d = job[p].draft => Holds(p, d)
    BY <1>20 DEF Settle, Holds, ClaimPCs
  <2>3. \A d \in Drafts : status[d] # "sending" => status'[d] = status[d]
    BY <1>20, <1>a DEF Settle, TableOK
  <2>4. QED
    BY <2>1, <2>2, <2>3 DEF RetiresFinishedDrafts
<1>21. ASSUME NEW p \in Procs, StoreFails(p)
      PROVE  RetiresFinishedDrafts
  BY <1>21 DEF StoreFails, RetiresFinishedDrafts, table, local, history
<1>22. ASSUME Tick
      PROVE  RetiresFinishedDrafts
  BY <1>22 DEF Tick, RetiresFinishedDrafts, table, local, history
<1>23. ASSUME Crash
      PROVE  RetiresFinishedDrafts
  BY <1>23 DEF Crash, RetiresFinishedDrafts, table, local, history
<1>24. CASE UNCHANGED vars
  BY <1>24
<1>25. QED
  BY <1>1, <1>2, <1>3, <1>4, <1>5, <1>6, <1>7, <1>8, <1>9, <1>10, <1>11, <1>12, <1>13, <1>14, <1>15, <1>16, <1>17, <1>18, <1>19, <1>20, <1>21, <1>22, <1>23, <1>24 DEF Next, OwnerStep, SchedulerStep, SendStep

\* Every step of the keyed send is a step of SendKey, or none.
LEMMA KeyRefinementStep ==
  OwnershipInv /\ KeyInv /\ [Next]_vars => [Key!Next]_(Key!vars)
<1> SUFFICES ASSUME OwnershipInv, KeyInv, [Next]_vars
             PROVE  Key!Next \/ UNCHANGED <<Phase, keyAccepts>>
  BY DEF Key!vars
<1>. USE DEF Procs
<1>a. TableOK /\ LocalOK /\ OtherOK /\ JobInv
  BY TypeParts DEF OwnershipInv
<1>b. UNCHANGED claims => Phase' = Phase
  BY DEF claims, Phase

<1>1. ASSUME NEW h \in Handlers, NEW d \in Drafts \ Unreadable,
             NEW b \in Bodies, NEW t \in Times \cup {NoTime},
             CreateDraft(h, d, b, t)
      PROVE  Key!Next \/ UNCHANGED <<Phase, keyAccepts>>
  BY <1>1, <1>b DEF CreateDraft, history
<1>2. ASSUME NEW h \in Handlers, NEW d \in Drafts \ Unreadable,
             NEW b \in Bodies, NEW t \in Times \cup {NoTime},
             EditRead(h, d, b, t)
      PROVE  Key!Next \/ UNCHANGED <<Phase, keyAccepts>>
  BY <1>2, <1>b DEF EditRead, history
<1>3. ASSUME NEW h \in Handlers, NEW d \in Drafts, DeleteDraft(h, d)
      PROVE  Key!Next \/ UNCHANGED <<Phase, keyAccepts>>
  BY <1>3, <1>b DEF DeleteDraft, history
<1>4. ASSUME NEW h \in Handlers, NEW d \in Drafts, NEW k \in Keys \cup {NoKey}, SendRead(h, d, k)
      PROVE  Key!Next \/ UNCHANGED <<Phase, keyAccepts>>
  BY <1>4, <1>b DEF SendRead, history
<1>5. ASSUME NEW h \in Handlers, NEW k \in Keys, NEW b \in Bodies, DirectSend(h, k, b)
      PROVE  Key!Next \/ UNCHANGED <<Phase, keyAccepts>>
  BY <1>5, <1>b DEF DirectSend, history
<1>6. ASSUME NEW h \in Handlers, EditWrite(h)
      PROVE  Key!Next \/ UNCHANGED <<Phase, keyAccepts>>
  BY <1>6, <1>b DEF EditWrite
<1>7. ASSUME NEW h \in Handlers, SendClaim(h)
      PROVE  Key!Next \/ UNCHANGED <<Phase, keyAccepts>>
  BY <1>7, <1>b DEF SendClaim, history
<1>8. ASSUME NEW h \in Handlers, Disconnect(h)
      PROVE  Key!Next \/ UNCHANGED <<Phase, keyAccepts>>
  BY <1>8, <1>b DEF Disconnect, history
<1>9. ASSUME Poll
      PROVE  Key!Next \/ UNCHANGED <<Phase, keyAccepts>>
  BY <1>9, <1>b DEF Poll, history
<1>10. ASSUME NEW d \in Drafts, DueRead(d)
      PROVE  Key!Next \/ UNCHANGED <<Phase, keyAccepts>>
  BY <1>10, <1>b DEF DueRead, history
<1>11. ASSUME DueClaim
      PROVE  Key!Next \/ UNCHANGED <<Phase, keyAccepts>>
  BY <1>11, <1>b DEF DueClaim, history
<1>12. ASSUME NEW p \in Procs, CheckRefused(p)
      PROVE  Key!Next \/ UNCHANGED <<Phase, keyAccepts>>
  BY <1>12, <1>b DEF CheckRefused, history
<1>13. ASSUME NEW p \in Procs, CheckPassed(p)
      PROVE  Key!Next \/ UNCHANGED <<Phase, keyAccepts>>
  BY <1>13, <1>b DEF CheckPassed, history
<1>14. ASSUME NEW p \in Procs, ClaimKey(p)
      PROVE  Key!Next \/ UNCHANGED <<Phase, keyAccepts>>
  <2>. DEFINE k == job[p].key
             b == job[p].body
  <2>0. k \in Keys /\ b \in Bodies /\ keyAccepts' = keyAccepts /\ replay' = replay
    BY <1>14, <1>a DEF ClaimKey, LocalOK, Jobs, JobInv, JobInvOf, Keyed, ClaimPCs, history
  <2>1. CASE Lookup(k, b) # "none"
    BY <1>14, <1>b, <2>0, <2>1 DEF ClaimKey, claims
  <2>2. CASE Lookup(k, b) = "none"
    <3>1. claimedFor[k] = NoBody /\ ~replay[k]
      BY <2>0, <2>2 DEF Lookup, KeyInv
    <3>2. claimedFor' = [claimedFor EXCEPT ![k] = b] /\ b # NoBody
      BY <1>14, <2>0, <2>2, Sentinels DEF ClaimKey
    <3>3. Phase' = [Phase EXCEPT ![k] = "pending"]
      BY <1>a, <2>0, <3>1, <3>2 DEF Phase, TableOK
    <3>4. Key!Claim(k)
      BY <2>0, <3>1, <3>3 DEF Key!Claim, Phase
    <3>5. QED
      BY <2>0, <3>4 DEF Key!Next
  <2>3. QED
    BY <2>1, <2>2
<1>15. ASSUME NEW p \in Procs, TransportAccepts(p)
      PROVE  Key!Next \/ UNCHANGED <<Phase, keyAccepts>>
  <2>0. Phase' = Phase
    BY <1>15, <1>b DEF TransportAccepts
  <2>1. CASE ~Keyed(p)
    BY <1>15, <2>0, <2>1 DEF TransportAccepts, Keyed
  <2>2. CASE Keyed(p)
    <3>1. PICK k \in Keys : k = job[p].key
      BY <1>a, <2>2 DEF LocalOK, Jobs, Keyed
    <3>2. keyAccepts[k] = 0 /\ ~replay[k] /\ claimedFor[k] = job[p].body /\ job[p].body \in Bodies
      BY <1>15, <1>a, <2>2, <3>1 DEF TransportAccepts, KeyInv, InFlight, JobInv, JobInvOf, ClaimPCs
    <3>3. keyAccepts' = [keyAccepts EXCEPT ![k] = 1]
      BY <1>15, <2>2, <3>1, <3>2 DEF TransportAccepts, Keyed
    <3>4. Phase[k] = "pending"
      BY <3>2, Sentinels DEF Phase
    <3>5. QED
      BY <2>0, <3>2, <3>3, <3>4 DEF Key!Next, Key!Deliver
  <2>3. QED
    BY <2>1, <2>2
<1>16. ASSUME NEW p \in Procs, SendFails(p)
      PROVE  Key!Next \/ UNCHANGED <<Phase, keyAccepts>>
  BY <1>16, <1>b DEF SendFails, history
<1>17. ASSUME NEW p \in Procs, SendRecorded(p)
      PROVE  Key!Next \/ UNCHANGED <<Phase, keyAccepts>>
  BY <1>17, <1>b DEF SendRecorded, history
<1>18. ASSUME NEW p \in Procs, CompleteKey(p)
      PROVE  Key!Next \/ UNCHANGED <<Phase, keyAccepts>>
  <2>. DEFINE k == job[p].key
  <2>0. k \in Keys /\ keyAccepts' = keyAccepts /\ claimedFor' = claimedFor
    BY <1>18, <1>a DEF CompleteKey, LocalOK, Jobs, JobInv, JobInvOf, Keyed, history
  <2>1. CASE ~(claimedFor[k] = job[p].body /\ ~replay[k])
    BY <1>18, <1>b, <2>0, <2>1 DEF CompleteKey, claims
  <2>2. CASE claimedFor[k] = job[p].body /\ ~replay[k]
    <3>1. keyAccepts[k] = 1 /\ job[p].body \in Bodies
      BY <1>18, <1>a DEF CompleteKey, KeyInv, InFlight, JobInv, JobInvOf, ClaimPCs
    <3>2. Phase[k] = "pending"
      BY <2>0, <2>2, <3>1, Sentinels DEF Phase
    <3>3. replay' = [replay EXCEPT ![k] = TRUE] /\ claimedFor[k] # NoBody
      BY <1>18, <2>2, <3>1, Sentinels DEF CompleteKey
    <3>4. Phase' = [Phase EXCEPT ![k] = "acknowledged"]
      BY <1>a, <2>0, <3>3 DEF Phase, TableOK
    <3>5. QED
      BY <2>0, <3>1, <3>2, <3>4 DEF Key!Next, Key!Acknowledge
  <2>3. QED
    BY <2>1, <2>2
<1>19. ASSUME NEW p \in Procs, Recheck(p)
      PROVE  Key!Next \/ UNCHANGED <<Phase, keyAccepts>>
  BY <1>19, <1>b DEF Recheck, history
<1>20. ASSUME NEW p \in Procs, Settle(p)
      PROVE  Key!Next \/ UNCHANGED <<Phase, keyAccepts>>
  BY <1>20, <1>b DEF Settle, history
<1>21. ASSUME NEW p \in Procs, StoreFails(p)
      PROVE  Key!Next \/ UNCHANGED <<Phase, keyAccepts>>
  BY <1>21, <1>b DEF StoreFails, history
<1>22. ASSUME Tick
      PROVE  Key!Next \/ UNCHANGED <<Phase, keyAccepts>>
  BY <1>22, <1>b DEF Tick, history
<1>23. ASSUME Crash
      PROVE  Key!Next \/ UNCHANGED <<Phase, keyAccepts>>
  BY <1>23, <1>b DEF Crash, history
<1>24. CASE UNCHANGED vars
  BY <1>24, <1>b DEF vars, history
<1>25. QED
  BY <1>1, <1>2, <1>3, <1>4, <1>5, <1>6, <1>7, <1>8, <1>9, <1>10, <1>11, <1>12, <1>13, <1>14, <1>15, <1>16, <1>17, <1>18, <1>19, <1>20, <1>21, <1>22, <1>23, <1>24 DEF Next, OwnerStep, SchedulerStep, SendStep

-----------------------------------------------------------------------------
(* The inductive invariant                                                 *)

\* The inductive invariant is its parts.
LEMMA IInvParts ==
  IInv <=> OwnershipInv /\ KeyInv /\ KeyedSendInv /\ AutoInv /\ SentInv
BY DEF IInv, OwnershipInv, Ownership, KeyedSendInv

\* It holds initially: nothing is claimed, accepted or sent.
LEMMA IInvInit == Init => IInv
<1> SUFFICES ASSUME Init PROVE IInv
  OBVIOUS
<1>1. \A p \in Procs : pc[p] = "idle" /\ job[p] = NoJob
  BY DEF Init
<1>2. \A d \in Drafts : accepted[d] = {} /\ status[d] \in {"absent", "scheduled"}
  BY DEF Init
<1>3. KeyInv
  BY <1>1 DEF Init, KeyInv, InFlight
<1>4. KeyedSendInv
  BY <1>2 DEF KeyedSendInv, KeyedOwnerInv, KeyedSendNeverResendable
<1>5. AutoInv
  BY DEF Init, AutoInv
<1>6. SentInv
  BY <1>1, <1>2 DEF SentInv, SentWasAccepted, Holds, ClaimPCs
<1>7. QED
  BY <1>3, <1>4, <1>5, <1>6, OwnershipInit, IInvParts

\* Every step preserves it.
LEMMA IInvStep == IInv /\ [Next]_vars => IInv'
<1> SUFFICES ASSUME IInv, [Next]_vars PROVE IInv'
  OBVIOUS
<1>1. OwnershipInv' /\ KeyInv' /\ KeyedSendInv' /\ AutoInv' /\ SentInv'
  BY IInvParts, OwnershipInvStep, KeyStep, KeyedStep, AutoStep, SentStep
<1>2. QED
  BY <1>1 DEF IInv, OwnershipInv, Ownership, KeyedSendInv

\* So it is an invariant of the specification.
LEMMA IInvAlways == Spec => []IInv
BY IInvInit, IInvStep, PTL DEF Spec

-----------------------------------------------------------------------------
(* Theorems, for every value of the constants                              *)

\* The tables, the processes' local variables and the poll keep their types
\* through every interleaving, refusal, restart and disconnect.
THEOREM TypeCorrect == Spec => []TypeOK
<1>1. IInv => TypeOK
  BY DEF IInv
<1>2. QED
  BY <1>1, IInvAlways, PTL

\* At most one request or scheduler run owns a draft, and nobody else moves
\* an owned row except to delete it (claim_draft_where).
THEOREM ExclusiveClaims == Spec => []ClaimIsExclusive
<1>1. IInv => ClaimIsExclusive
  BY DEF IInv
<1>2. QED
  BY <1>1, IInvAlways, PTL

\* What a sender hands to the relay is what the claimed row says: no edit
\* that raced with the claim changes one without the other (update_draft).
THEOREM ClaimedRowIsSent == Spec => []SendsTheClaimedRow
<1>1. IInv => SendsTheClaimedRow
  BY DEF IInv
<1>2. QED
  BY <1>1, IInvAlways, PTL

\* The relay accepts at most one message under an idempotency key, however
\* many requests share it (claim_send).
THEOREM OneDeliveryPerKey == Spec => []KeyDeliversOnce
<1>1. IInv => KeyDeliversOnce
  BY DEF IInv, KeyInv, KeyDeliversOnce
<1>2. QED
  BY <1>1, IInvAlways, PTL

\* A draft whose keyed send the relay accepted never becomes sendable again
\* (send_draft, keyed_send_never_claimed).
THEOREM AcceptedKeyedDraftStays == Spec => []KeyedSendNeverResendable
<1>1. IInv => KeyedSendNeverResendable
  BY DEF IInv
<1>2. QED
  BY <1>1, IInvAlways, PTL

\* The scheduler never hands over a draft a second time on its own
\* (claim_due_draft, fail_scheduled_draft).
THEOREM SchedulerHandsOverOnce == Spec => []SchedulerNeverRepeats
<1>1. IInv => SchedulerNeverRepeats
  BY DEF IInv, AutoInv, SchedulerNeverRepeats, Procs
<1>2. QED
  BY <1>1, IInvAlways, PTL

\* A draft shown as sent was accepted by the relay with the contents it
\* shows, or stands for a replayed response (finish_draft_send).
THEOREM SentIsBacked == Spec => []SentWasAccepted
<1>1. IInv => SentWasAccepted
  BY DEF IInv, SentInv
<1>2. QED
  BY <1>1, IInvAlways, PTL

\* A draft's status and what the relay did agree in both directions (send_draft,
\* complete_send, finish_draft_send).
THEOREM StatusesAgree == Spec => []StatusAgreesWithRelay
<1>1. IInv => StatusAgreesWithRelay
  BY DEF IInv, SentInv, StatusAgreesWithRelay
<1>2. QED
  BY <1>1, IInvAlways, PTL

\* No step sends a sent draft again or revives a draft whose sender is gone.
THEOREM FinishedDraftsStayFinished == Spec => NeverResent
<1>1. IInv /\ [Next]_vars => [RetiresFinishedDrafts]_vars
  BY IInvParts, NeverResentStep
<1>2. QED
  BY <1>1, IInvAlways, PTL DEF Spec, NeverResent

\* The keyed send implements SendKey: intent before delivery, one delivery,
\* acknowledgement only after it (claim_send, complete_send).
THEOREM KeyRefinement == Spec => ImplementsSendKey
<1>1. Init => Key!Init
  BY DEF Init, Key!Init, Phase
<1>2. IInv /\ [Next]_vars => [Key!Next]_(Key!vars)
  BY IInvParts, KeyRefinementStep
<1>3. QED
  BY <1>1, <1>2, IInvAlways, PTL DEF Spec, ImplementsSendKey, Key!Spec
=============================================================================
