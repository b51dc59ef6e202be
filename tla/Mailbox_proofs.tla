---------------------------- MODULE Mailbox_proofs ---------------------------
(* Proofs about what the mailbox answers: the registry of addresses, the marks of   *)
(* messages, conversations and their lists, and search, for any number of rows,     *)
(* messages, workers, changes and faults; and, with the theorems of                 *)
(* Interfaces_proofs, about the mail service as MCService puts it together.         *)
EXTENDS MCService, Interfaces_proofs, FiniteSetTheorems, WellFoundedInduction

(*****************************************************************************)
(* MailRegistry: every address and every client id leads to one row.         *)
(*****************************************************************************)

\* No two rows have one client id; the unique indexes of both tables.
ClientsAreUnique ==
  /\ \A i, j \in InboxIds :
       Present(i) /\ Present(j) /\ inboxes[i].client = inboxes[j].client
         /\ inboxes[i].client # NoClient => i = j
  /\ \A p, q \in PodIds : pods[p] = pods[q] /\ pods[p] \in ClientIds => p = q
\* What was answered with a client id still has that client id.
AnswersNameTheirRow ==
  \A a \in answered :
    /\ a[2] \in ClientIds
    /\ a[1] \in InboxIds => Present(a[1]) /\ inboxes[a[1]].client = a[2]
    /\ a[1] \in PodIds => pods[a[1]] = a[2]

\* A domain patch in progress has read the row.
PatchesHaveACopy ==
  \A c \in Callers : caller[c].kind = "domain" => caller[c].copy \in DomainRow

RegistryInv ==
  /\ RegistryTypeOK /\ DuplicatesAreLegacy /\ ClientsAreUnique /\ AnswersNameTheirRow
  /\ PatchesHaveACopy

LEMMA RegistryInvSuffices == RegistryInv => RegistryIsUnambiguous
<1> SUFFICES ASSUME RegistryInv PROVE ClientNamesOneRow
  BY DEF RegistryInv, RegistryIsUnambiguous
<1> SUFFICES ASSUME NEW a \in answered, NEW b \in answered, a[2] = b[2],
                    a[1] \in InboxIds <=> b[1] \in InboxIds
             PROVE  a = b
  BY DEF ClientNamesOneRow
<1>1. a \in (InboxIds \cup PodIds) \X ClientIds /\ b \in (InboxIds \cup PodIds) \X ClientIds
  BY DEF RegistryInv, RegistryTypeOK
<1>2. a[1] = b[1]
  <2>1. CASE a[1] \in InboxIds
    BY <1>1, <2>1, RegistryBounds DEF RegistryInv, AnswersNameTheirRow, ClientsAreUnique
  <2>2. CASE a[1] \in PodIds /\ b[1] \in PodIds
    BY <1>1, <2>2 DEF RegistryInv, AnswersNameTheirRow, ClientsAreUnique
  <2> QED BY <1>1, <2>1, <2>2
<1> QED BY <1>1, <1>2

LEMMA RegistryInitInv == RegistryInit => RegistryInv
<1> SUFFICES ASSUME RegistryInit PROVE RegistryInv
  OBVIOUS
<1>1. PICK address \in [LegacyInboxes -> Addresses],
           clientId \in [LegacyInboxes -> ClientIds \cup {NoClient}],
           at \in [LegacyInboxes -> {0, 1}] :
       /\ \A i, j \in LegacyInboxes : i # j /\ clientId[i] = clientId[j] => clientId[i] = NoClient
       /\ inboxes = [i \in InboxIds |->
            IF i \in LegacyInboxes
            THEN [address |-> address[i], client |-> clientId[i], pod |-> NoPod, at |-> at[i]]
            ELSE NoRecord]
  BY DEF RegistryInit
<1>2. /\ inboxes \in [InboxIds -> Inbox_ \cup {NoRecord}]
      /\ \A i \in InboxIds : Present(i) => i \in LegacyInboxes /\ inboxes[i].client = clientId[i]
  BY <1>1, RegistryBounds, IdsAreDistinct DEF Inbox_, Present
<1>3. RegistryTypeOK /\ PatchesHaveACopy
  <2>1. caller \in [Callers -> Call] /\ PatchesHaveACopy
    BY DEF RegistryInit, PatchesHaveACopy, Waiting, Call
  <2>2. pods \in [PodIds -> ClientIds \cup {NoClient, NoRecord}] /\ domain \in DomainRow
    BY DEF RegistryInit, DomainRow
  <2>3. /\ indexed \in BOOLEAN
        /\ answered \in SUBSET ((InboxIds \cup PodIds) \X ClientIds) /\ moved \in 0..MaxRegistrySteps
    BY RegistryBounds DEF RegistryInit, NoTwins
  <2> QED BY <1>2, <2>1, <2>2, <2>3 DEF RegistryTypeOK
<1>4. DuplicatesAreLegacy
  BY <1>2 DEF RegistryInit, DuplicatesAreLegacy, NoTwins, Twins
<1>5. ClientsAreUnique
  <2>1. \A p \in PodIds : pods[p] \notin ClientIds
    BY IdsAreDistinct DEF RegistryInit
  <2> QED BY <1>1, <1>2, <2>1 DEF ClientsAreUnique
<1>6. AnswersNameTheirRow
  BY DEF RegistryInit, AnswersNameTheirRow
<1> QED BY <1>3, <1>4, <1>5, <1>6 DEF RegistryInv

\* The oldest row of a client id that is known is a row of it.
LEMMA OldestIsARow ==
  ASSUME RegistryInv, NEW clientId, Known(clientId)
  PROVE  /\ OldestOf(clientId) \in InboxIds /\ Present(OldestOf(clientId))
         /\ inboxes[OldestOf(clientId)].client = clientId
<1>1. PICK i \in InboxIds : Present(i) /\ inboxes[i].client = clientId
  BY DEF Known
<1>2. \A j \in InboxIds : Present(j) /\ inboxes[j].client = clientId => inboxes[i].at <= inboxes[j].at
  <2> SUFFICES ASSUME NEW j \in InboxIds, Present(j), inboxes[j].client = clientId
               PROVE  inboxes[i].at <= inboxes[j].at
    OBVIOUS
  <2>1. i = j
    BY <1>1 DEF Known, RegistryInv, ClientsAreUnique
  <2>2. inboxes[i].at \in Nat
    BY <1>1 DEF RegistryInv, RegistryTypeOK, Present, Inbox_
  <2> QED BY <2>1, <2>2
<1> QED BY <1>1, <1>2 DEF OldestOf

\* Steps that leave the callers to their patches.
LEMMA CallersStay ==
  ASSUME RegistryInv, UNCHANGED caller PROVE PatchesHaveACopy'
  BY DEF RegistryInv, PatchesHaveACopy

LEMMA CallerWaits ==
  ASSUME RegistryInv, NEW c \in Callers, NEW newCall \in Call,
         newCall.kind = "domain" => newCall.copy \in DomainRow,
         caller' = [caller EXCEPT ![c] = newCall]
  PROVE  caller' \in [Callers -> Call] /\ PatchesHaveACopy'
  BY DEF RegistryInv, PatchesHaveACopy, RegistryTypeOK

LEMMA CreateInboxInv ==
  ASSUME RegistryInv, NEW i \in InboxIds, NEW address \in Addresses,
         NEW clientId \in ClientIds \cup {NoClient}, NEW pod \in PodIds \cup {NoPod},
         CreateInbox(i, address, clientId, pod)
  PROVE  RegistryInv'
<1>1. RegistryTypeOK /\ DuplicatesAreLegacy /\ ClientsAreUnique /\ AnswersNameTheirRow
  BY DEF RegistryInv
<1>2. UNCHANGED <<pods, domain, indexed, caller>> /\ moved' \in 0..MaxRegistrySteps
  BY <1>1, RegistryBounds DEF CreateInbox, Tick, RegistryTypeOK
<1>3. CASE Known(clientId) /\ answered' = answered \cup {<<OldestOf(clientId), clientId>>} /\ UNCHANGED inboxes
  <2> DEFINE o == OldestOf(clientId)
  <2>1. o \in InboxIds /\ Present(o) /\ inboxes[o].client = clientId
    BY <1>3, OldestIsARow
  <2>2. clientId \in ClientIds
    BY <1>3 DEF Known
  <2>3. RegistryTypeOK'
    BY <1>1, <1>2, <1>3, <2>1, <2>2 DEF RegistryTypeOK
  <2>4. DuplicatesAreLegacy' /\ ClientsAreUnique'
    BY <1>1, <1>2, <1>3 DEF DuplicatesAreLegacy, ClientsAreUnique, Twins, Present
  <2>5. AnswersNameTheirRow'
    BY <1>1, <1>2, <1>3, <2>1, <2>2, IdsAreDistinct DEF AnswersNameTheirRow, Present
  <2> QED BY <2>3, <2>4, <2>5, <1>2, CallersStay DEF RegistryInv
<1>4. CASE /\ ~Known(clientId) /\ ~Taken(address)
           /\ ~Present(i) /\ i \notin LegacyInboxes
           /\ inboxes' = [inboxes EXCEPT ![i] =
                [address |-> address, client |-> clientId, pod |-> pod, at |-> moved + 2]]
           /\ answered' = IF clientId = NoClient THEN answered ELSE answered \cup {<<i, clientId>>}
  <2> DEFINE row == [address |-> address, client |-> clientId, pod |-> pod, at |-> moved + 2]
  <2>1. row \in Inbox_ /\ row # NoRecord
    BY <1>1, IdsAreDistinct, RegistryBounds DEF RegistryTypeOK, Inbox_
  <2>2. /\ inboxes'[i] = row
        /\ \A j \in InboxIds \ {i} : inboxes'[j] = inboxes[j]
        /\ inboxes' \in [InboxIds -> Inbox_ \cup {NoRecord}]
    BY <1>1, <1>4, <2>1 DEF RegistryTypeOK
  <2>3. RegistryTypeOK'
    BY <1>1, <1>2, <1>4, <2>2 DEF RegistryTypeOK
  <2>4. DuplicatesAreLegacy'
    BY <1>1, <1>2, <1>4, <2>1, <2>2 DEF DuplicatesAreLegacy, Twins, Present, Taken
  <2>5. ClientsAreUnique'
    BY <1>1, <1>2, <1>4, <2>1, <2>2 DEF ClientsAreUnique, Present, Known
  <2>6. AnswersNameTheirRow'
    BY <1>1, <1>2, <1>4, <2>1, <2>2, IdsAreDistinct DEF AnswersNameTheirRow, Present
  <2> QED BY <2>3, <2>4, <2>5, <2>6, <1>2, CallersStay DEF RegistryInv
<1> QED BY <1>3, <1>4 DEF CreateInbox

LEMMA PatchInboxInv ==
  ASSUME RegistryInv, NEW i \in InboxIds, NEW pod \in PodIds, PatchInbox(i, pod)
  PROVE  RegistryInv'
<1>1. RegistryTypeOK /\ DuplicatesAreLegacy /\ ClientsAreUnique /\ AnswersNameTheirRow
  BY DEF RegistryInv
<1>2. /\ UNCHANGED <<pods, domain, indexed, caller, answered>>
      /\ moved' \in 0..MaxRegistrySteps
  BY <1>1, RegistryBounds DEF PatchInbox, Tick, RegistryTypeOK
<1>3. /\ inboxes' \in [InboxIds -> Inbox_ \cup {NoRecord}]
      /\ \A j \in InboxIds : (inboxes'[j] = NoRecord) <=> (inboxes[j] = NoRecord)
      /\ \A j \in InboxIds : inboxes[j] # NoRecord =>
           inboxes'[j].address = inboxes[j].address /\ inboxes'[j].client = inboxes[j].client
  <2>1. inboxes[i] \in Inbox_
    BY <1>1 DEF PatchInbox, Present, RegistryTypeOK
  <2>2. [inboxes[i] EXCEPT !.pod = pod] \in Inbox_
    BY <2>1 DEF Inbox_
  <2> QED BY <1>1, <2>1, <2>2, IdsAreDistinct DEF PatchInbox, RegistryTypeOK, Inbox_
<1>4. RegistryTypeOK'
  BY <1>1, <1>2, <1>3 DEF RegistryTypeOK
<1>5. DuplicatesAreLegacy' /\ ClientsAreUnique' /\ AnswersNameTheirRow'
  BY <1>1, <1>2, <1>3 DEF DuplicatesAreLegacy, ClientsAreUnique, AnswersNameTheirRow, Twins, Present
<1> QED BY <1>4, <1>5, <1>2, CallersStay DEF RegistryInv

LEMMA DeleteInboxInv ==
  ASSUME RegistryInv, NEW i \in InboxIds, DeleteInbox(i)
  PROVE  RegistryInv'
<1>1. RegistryTypeOK /\ DuplicatesAreLegacy /\ ClientsAreUnique /\ AnswersNameTheirRow
  BY DEF RegistryInv
<1>2. /\ UNCHANGED <<pods, domain, indexed, caller>>
      /\ moved' \in 0..MaxRegistrySteps /\ answered' = {a \in answered : a[1] # i}
  BY <1>1, RegistryBounds DEF DeleteInbox, Tick, RegistryTypeOK
<1>3. /\ inboxes' \in [InboxIds -> Inbox_ \cup {NoRecord}]
      /\ inboxes'[i] = NoRecord
      /\ \A j \in InboxIds \ {i} : inboxes'[j] = inboxes[j]
  BY <1>1 DEF DeleteInbox, RegistryTypeOK
<1>4. RegistryTypeOK'
  BY <1>1, <1>2, <1>3 DEF RegistryTypeOK
<1>5. DuplicatesAreLegacy' /\ ClientsAreUnique'
  BY <1>1, <1>2, <1>3 DEF DuplicatesAreLegacy, ClientsAreUnique, Twins, Present
<1>6. AnswersNameTheirRow'
  BY <1>1, <1>2, <1>3 DEF AnswersNameTheirRow, Present
<1> QED BY <1>4, <1>5, <1>6, <1>2, CallersStay DEF RegistryInv

LEMMA ReopenInv == ASSUME RegistryInv, Reopen PROVE RegistryInv'
<1>1. RegistryTypeOK /\ DuplicatesAreLegacy /\ ClientsAreUnique /\ AnswersNameTheirRow
  BY DEF RegistryInv
<1>2. RegistryTypeOK' /\ PatchesHaveACopy'
  <2>1. Waiting \in Call
    BY DEF Waiting, Call
  <2>2. PatchesHaveACopy'
    BY DEF Reopen, PatchesHaveACopy, Waiting
  <2> QED BY <1>1, <2>1, <2>2, RegistryBounds DEF Reopen, Tick, RegistryTypeOK
<1>3. DuplicatesAreLegacy'
  BY <1>1 DEF Reopen, DuplicatesAreLegacy, NoTwins, Twins, Present
<1>4. ClientsAreUnique' /\ AnswersNameTheirRow'
  BY <1>1 DEF Reopen, ClientsAreUnique, AnswersNameTheirRow, Present
<1> QED BY <1>2, <1>3, <1>4 DEF RegistryInv

LEMMA LookUpPodInv ==
  ASSUME RegistryInv, NEW c \in Callers, NEW clientId \in ClientIds \cup {NoClient},
         LookUpPod(c, clientId)
  PROVE  RegistryInv'
<1>1. RegistryTypeOK /\ DuplicatesAreLegacy /\ ClientsAreUnique /\ AnswersNameTheirRow
  BY DEF RegistryInv
<1>2. UNCHANGED <<inboxes, pods, domain, indexed>> /\ moved' \in 0..MaxRegistrySteps
  BY <1>1, RegistryBounds DEF LookUpPod, Tick, RegistryTypeOK
<1>3. \/ /\ clientId \in ClientIds /\ caller' = caller
         /\ answered' = answered \cup {<<p, clientId>> : p \in PodOf(clientId)}
      \/ /\ answered' = answered
         /\ caller' = [caller EXCEPT ![c] = [Waiting EXCEPT !.kind = "pod", !.client = clientId]]
  BY DEF LookUpPod
<1>4. \A p \in PodOf(clientId) : p \in PodIds /\ pods[p] = clientId
  BY DEF PodOf
<1>5. RegistryTypeOK' /\ PatchesHaveACopy'
  <2>1. [Waiting EXCEPT !.kind = "pod", !.client = clientId] \in Call
    BY DEF Waiting, Call
  <2>2. caller' \in [Callers -> Call] /\ PatchesHaveACopy'
    BY <1>1, <1>3, <2>1, CallersStay, CallerWaits DEF RegistryTypeOK, Waiting
  <2> QED BY <1>1, <1>2, <1>3, <1>4, <2>2 DEF RegistryTypeOK
<1>6. DuplicatesAreLegacy' /\ ClientsAreUnique'
  BY <1>1, <1>2 DEF DuplicatesAreLegacy, ClientsAreUnique, Twins, Present
<1>7. AnswersNameTheirRow'
  BY <1>1, <1>2, <1>3, <1>4, IdsAreDistinct DEF AnswersNameTheirRow, Present
<1> QED BY <1>5, <1>6, <1>7 DEF RegistryInv

LEMMA InsertPodInv ==
  ASSUME RegistryInv, NEW c \in Callers, NEW p \in PodIds, InsertPod(c, p)
  PROVE  RegistryInv'
<1> DEFINE clientId == caller[c].client
<1>1. RegistryTypeOK /\ DuplicatesAreLegacy /\ ClientsAreUnique /\ AnswersNameTheirRow
  BY DEF RegistryInv
<1>2. /\ UNCHANGED <<inboxes, domain, indexed, moved>>
      /\ caller' = [caller EXCEPT ![c] = Waiting] /\ pods[p] = NoRecord
      /\ clientId \in ClientIds \cup {NoClient}
  BY <1>1 DEF InsertPod, RegistryTypeOK, Call
<1>3. caller' \in [Callers -> Call] /\ PatchesHaveACopy'
  <2>1. Waiting \in Call /\ Waiting.kind # "domain"
    BY DEF Waiting, Call
  <2> QED BY <1>2, <2>1, CallerWaits
<1>4. DuplicatesAreLegacy'
  BY <1>1, <1>2 DEF DuplicatesAreLegacy, Twins, Present
<1>5. CASE UNCHANGED <<pods, answered>>
  <2>1. RegistryTypeOK'
    BY <1>1, <1>2, <1>3, <1>5 DEF RegistryTypeOK
  <2>2. ClientsAreUnique' /\ AnswersNameTheirRow'
    BY <1>1, <1>2, <1>5 DEF ClientsAreUnique, AnswersNameTheirRow, Present
  <2> QED BY <1>3, <1>4, <2>1, <2>2 DEF RegistryInv
<1>6. CASE /\ clientId = NoClient \/ PodOf(clientId) = {}
           /\ pods' = [pods EXCEPT ![p] = clientId]
           /\ answered' = IF clientId = NoClient THEN answered ELSE answered \cup {<<p, clientId>>}
  <2>1. RegistryTypeOK'
    BY <1>1, <1>2, <1>3, <1>6 DEF RegistryTypeOK
  <2>2. pods'[p] = clientId /\ \A q \in PodIds \ {p} : pods'[q] = pods[q]
    BY <1>1, <1>6 DEF RegistryTypeOK
  <2>3. ClientsAreUnique'
    BY <1>1, <1>2, <1>6, <2>2, RegistryBounds DEF ClientsAreUnique, Present, PodOf
  <2>4. AnswersNameTheirRow'
    BY <1>1, <1>2, <1>6, <2>2, IdsAreDistinct DEF AnswersNameTheirRow, Present
  <2> QED BY <1>3, <1>4, <2>1, <2>3, <2>4 DEF RegistryInv
<1> QED BY <1>5, <1>6 DEF InsertPod

LEMMA DeletePodInv == ASSUME RegistryInv, NEW p \in PodIds, DeletePod(p) PROVE RegistryInv'
<1>1. RegistryTypeOK /\ DuplicatesAreLegacy /\ ClientsAreUnique /\ AnswersNameTheirRow
  BY DEF RegistryInv
<1>2. /\ UNCHANGED <<inboxes, domain, indexed, caller>>
      /\ moved' \in 0..MaxRegistrySteps /\ answered' = {a \in answered : a[1] # p}
      /\ pods' = [pods EXCEPT ![p] = NoRecord]
  BY <1>1, RegistryBounds DEF DeletePod, Tick, RegistryTypeOK
<1>3. RegistryTypeOK'
  BY <1>1, <1>2 DEF RegistryTypeOK
<1>4. pods'[p] = NoRecord /\ \A q \in PodIds \ {p} : pods'[q] = pods[q]
  BY <1>1, <1>2 DEF RegistryTypeOK
<1>5. DuplicatesAreLegacy' /\ ClientsAreUnique'
  BY <1>1, <1>2, <1>4, IdsAreDistinct DEF DuplicatesAreLegacy, ClientsAreUnique, Twins, Present
<1>6. AnswersNameTheirRow'
  BY <1>1, <1>2, <1>4 DEF AnswersNameTheirRow, Present
<1> QED BY <1>3, <1>5, <1>6, <1>2, CallersStay DEF RegistryInv

\* Domains are of a table of their own.
LEMMA OtherTablesInv ==
  ASSUME RegistryInv,
         \/ \E c \in Callers : ReadDomain(c) \/ WriteDomain(c)
         \/ UNCHANGED vars_mr
  PROVE  RegistryInv'
<1>1. RegistryTypeOK /\ DuplicatesAreLegacy /\ ClientsAreUnique /\ AnswersNameTheirRow
  BY DEF RegistryInv
<1>2. UNCHANGED <<inboxes, pods, indexed, answered>>
  BY DEF ReadDomain, WriteDomain, vars_mr
<1>3. RegistryTypeOK' /\ PatchesHaveACopy'
  <2>1. ASSUME NEW c \in Callers, ReadDomain(c) PROVE RegistryTypeOK' /\ PatchesHaveACopy'
    <3> DEFINE newCall == [Waiting EXCEPT !.kind = "domain", !.copy = domain]
    <3>1. newCall \in Call /\ newCall.copy \in DomainRow
      BY <1>1 DEF RegistryTypeOK, Waiting, Call
    <3>2. caller' \in [Callers -> Call] /\ PatchesHaveACopy'
      BY <2>1, <3>1, CallerWaits DEF ReadDomain
    <3> QED BY <1>1, <1>2, <2>1, <3>2, RegistryBounds DEF ReadDomain, Tick, RegistryTypeOK
  <2>2. ASSUME NEW c \in Callers, WriteDomain(c) PROVE RegistryTypeOK' /\ PatchesHaveACopy'
    <3>1. caller[c].copy \in DomainRow
      BY <2>2 DEF RegistryInv, PatchesHaveACopy, WriteDomain
    <3>2. domain' \in DomainRow
      BY <2>2, <3>1 DEF WriteDomain, DomainRow
    <3>3. Waiting \in Call /\ Waiting.kind # "domain"
      BY DEF Waiting, Call
    <3>4. caller' \in [Callers -> Call] /\ PatchesHaveACopy'
      BY <2>2, <3>3, CallerWaits DEF WriteDomain
    <3> QED BY <1>1, <1>2, <2>2, <3>2, <3>4 DEF WriteDomain, RegistryTypeOK
  <2>4. CASE UNCHANGED vars_mr
    BY <1>1, <2>4, CallersStay DEF vars_mr, RegistryTypeOK
  <2> QED BY <2>1, <2>2, <2>4
<1>4. DuplicatesAreLegacy' /\ ClientsAreUnique' /\ AnswersNameTheirRow'
  BY <1>1, <1>2 DEF DuplicatesAreLegacy, ClientsAreUnique, AnswersNameTheirRow, Twins, Present
<1> QED BY <1>3, <1>4 DEF RegistryInv

LEMMA RegistryStepInv == RegistryInv /\ [RegistryNext]_vars_mr => RegistryInv'
  BY CreateInboxInv, PatchInboxInv, DeleteInboxInv, ReopenInv, LookUpPodInv, InsertPodInv,
     DeletePodInv, OtherTablesInv DEF RegistryNext

LEMMA RegistryInductive == RegistrySpec => []RegistryInv
  BY RegistryInitInv, RegistryStepInv, PTL DEF RegistrySpec

\* Every variable of the registry keeps its type.
THEOREM RegistryTypeCorrect == RegistrySpec => []RegistryTypeOK
<1>1. RegistryInv => RegistryTypeOK
  BY DEF RegistryInv
<1> QED BY <1>1, RegistryInductive, PTL

\* An address has one inbox unless an older version wrote two, and a client id names
\* one inbox and one pod, however many requests create, look up and delete them at
\* once (create_inbox_once, create_pod_once).
THEOREM RegistryLeadsToOneRow == RegistrySpec => []RegistryIsUnambiguous
  BY RegistryInvSuffices, RegistryInductive, PTL

(*****************************************************************************)
(* MessageMarks: marks that overlap never undo one another.                  *)
(*****************************************************************************)

\* What a request knows of its messages: a label or an open is written from a copy
\* of a row, and a thread delete has deleted what it listed and went past.
JobOK(batch, j) ==
    /\ j \in Job
    /\ j.stage = "look" => j.kind \in {"open", "read", "delete", "label"}
    /\ j.stage = "write" => j.kind \in {"read", "delete"} \/ j.copy \in MessageRow
    /\ j.done => j.stage = "idle" /\ j.todo = {}
    /\ j.kind = "thread delete" /\ (j.stage = "each" \/ j.done) =>
         \A m \in j.listed : batch[m] # Coming /\ (m \notin j.todo => batch[m] = Gone)
\* An event of an open carries the time of its row, and there is one time a row.
OpensAreStamped ==
    \A m \in Messages, t \in 0..MaxMarks : <<m, t>> \in opens =>
        /\ rowOf[m] # Coming
        /\ rowOf[m] # Gone => rowOf[m].opened = t
        /\ \A u \in 0..MaxMarks : <<m, u>> \in opens => u = t
MarksShape ==
    /\ rowOf \in [Messages -> MessageRow \cup {Gone, Coming}]
    /\ order \in [Messages -> 0..Cardinality(Messages)]
    /\ opens \in SUBSET (Messages \X (0..MaxMarks))
    /\ clock \in 0..MaxMarks
    /\ failed \in 0..MaxStoreFaults
WorkersShape == worker = [w \in Workers |-> worker[w]] /\ \A w \in Workers : JobOK(rowOf, worker[w])

MarksInv == MarksShape /\ WorkersShape /\ OpensAreStamped

\* No step brings a row back, or takes the time of an open from one.
Onward(m) ==
    /\ rowOf[m] = Gone => rowOf'[m] = Gone
    /\ rowOf[m] # Coming =>
         /\ rowOf'[m] # Coming
         /\ rowOf'[m] # Gone =>
              rowOf[m] # Gone /\ (rowOf[m].opened # Never => rowOf'[m].opened = rowOf[m].opened)

LEMMA MarksInvTyped == MarksInv => MarksTypeOK
  BY DEF MarksInv, MarksShape, WorkersShape, JobOK, MarksTypeOK

LEMMA MarksInvSuffices == MarksInv => MarksHold
<1> SUFFICES ASSUME MarksInv PROVE MarksHold
  OBVIOUS
<1>1. OpensAgree
  BY DEF MarksInv, OpensAreStamped, OpensAgree, Live
<1>2. DeletedThreadIsGone
  BY DEF MarksInv, WorkersShape, JobOK, DeletedThreadIsGone
<1> QED BY <1>1, <1>2 DEF MarksHold

LEMMA JobGoesOn ==
    ASSUME NEW j, JobOK(rowOf, j), \A m \in Messages : Onward(m)
    PROVE  JobOK(rowOf', j)
<1>1. j.listed \subseteq Messages
  BY DEF JobOK, Job
<1> QED BY <1>1 DEF JobOK, Onward

\* The part of a step that every action shares.
LEMMA WorkerStep ==
    ASSUME MarksInv, \A m \in Messages : Onward(m), MarksShape',
           UNCHANGED worker
           \/ \E w \in Workers : \E j : worker' = [worker EXCEPT ![w] = j] /\ JobOK(rowOf', j)
    PROVE  WorkersShape'
<1>1. \A w \in Workers : JobOK(rowOf', worker[w])
  BY JobGoesOn DEF MarksInv, WorkersShape
<1>2. CASE UNCHANGED worker
  BY <1>1, <1>2 DEF MarksInv, WorkersShape
<1>3. ASSUME NEW w \in Workers, NEW j, worker' = [worker EXCEPT ![w] = j], JobOK(rowOf', j)
      PROVE  WorkersShape'
  BY <1>1, <1>3 DEF MarksInv, WorkersShape
<1> QED BY <1>2, <1>3

LEMMA OpensStay ==
    ASSUME MarksInv, \A m \in Messages : Onward(m), UNCHANGED opens
    PROVE  OpensAreStamped'
<1> SUFFICES ASSUME NEW m \in Messages, NEW t \in 0..MaxMarks, <<m, t>> \in opens
             PROVE  /\ rowOf'[m] # Coming
                    /\ rowOf'[m] # Gone => rowOf'[m].opened = t
                    /\ \A u \in 0..MaxMarks : <<m, u>> \in opens => u = t
  BY DEF OpensAreStamped
<1>1. /\ rowOf[m] # Coming /\ (rowOf[m] # Gone => rowOf[m].opened = t)
      /\ \A u \in 0..MaxMarks : <<m, u>> \in opens => u = t
  BY DEF MarksInv, OpensAreStamped
<1>2. t # Never
  BY MarksAreDistinct
<1> QED BY <1>1, <1>2 DEF Onward

LEMMA RowsStay == ASSUME UNCHANGED rowOf PROVE \A m \in Messages : Onward(m)
  BY DEF Onward

LEMMA FreeIsAJob == ASSUME NEW batch PROVE JobOK(batch, Free)
<1>1. (CHOOSE m \in Messages : TRUE) \in Messages
  BY MarksBounds
<1> QED BY <1>1 DEF JobOK, Free, Job

LEMMA MarksInitInv == MarksInit => MarksInv
<1> SUFFICES ASSUME MarksInit PROVE MarksInv
  OBVIOUS
<1>1. 0 \in 0..Cardinality(Messages) /\ 0 \in 0..MaxMarks /\ 0 \in 0..MaxStoreFaults
  BY MarksBounds, FS_CardinalityType
<1>2. MarksShape
  BY <1>1 DEF MarksInit, MarksShape
<1>3. WorkersShape
  BY FreeIsAJob DEF MarksInit, WorkersShape
<1>4. OpensAreStamped
  BY DEF MarksInit, OpensAreStamped
<1> QED BY <1>2, <1>3, <1>4 DEF MarksInv

LEMMA StoreMarkInv == ASSUME MarksInv, NEW m \in Messages, Store(m) PROVE MarksInv'
<1>1. /\ MarksShape /\ rowOf[m] = Coming /\ rowOf' = [rowOf EXCEPT ![m] = NewRow]
      /\ order' = [order EXCEPT ![m] = Cardinality({n \in Messages : rowOf[n] # Coming}) + 1]
      /\ UNCHANGED <<worker, opens, clock, failed>>
  BY DEF MarksInv, Store
<1> DEFINE S == {n \in Messages : rowOf[n] # Coming}
<1>2. Cardinality(S) + 1 \in 0..Cardinality(Messages)
  <2>1. IsFiniteSet(Messages) /\ S \subseteq Messages /\ S # Messages
    BY <1>1, MarksBounds
  <2> HIDE DEF S
  <2>2. Cardinality(S) < Cardinality(Messages) /\ Cardinality(S) \in Nat /\ Cardinality(Messages) \in Nat
    BY <2>1, FS_Subset, FS_CardinalityType
  <2> QED BY <2>2
<1> HIDE DEF S
<1>3. NewRow \in MessageRow
  BY DEF NewRow, MessageRow
<1>4. MarksShape'
  <2>1. order' \in [Messages -> 0..Cardinality(Messages)]
    BY <1>1, <1>2 DEF MarksShape, S
  <2> QED BY <1>1, <1>3, <2>1 DEF MarksShape
<1>5. \A n \in Messages : Onward(n)
  BY <1>1, MarksAreDistinct DEF Onward, MarksShape
<1> QED BY <1>1, <1>4, <1>5, WorkerStep, OpensStay DEF MarksInv

\* An action that changes only the request of a worker and counters.
LEMMA OnlyWorker ==
    ASSUME MarksInv, NEW w \in Workers, NEW j, worker' = [worker EXCEPT ![w] = j],
           JobOK(rowOf, j), UNCHANGED <<rowOf, order, opens>>,
           clock' \in 0..MaxMarks, failed' \in 0..MaxStoreFaults
    PROVE  MarksInv'
<1>1. \A m \in Messages : Onward(m)
  BY RowsStay
<1>2. MarksShape'
  BY DEF MarksInv, MarksShape
<1>3. JobOK(rowOf', j)
  BY <1>1, JobGoesOn
<1> QED BY <1>1, <1>2, <1>3, WorkerStep, OpensStay DEF MarksInv

LEMMA ServeInv ==
    ASSUME MarksInv, NEW w \in Workers, NEW m \in Messages, NEW kind \in Kinds,
           NEW stage \in {"look", "list"}, NEW add \in SUBSET Labels, NEW drop \in SUBSET Labels,
           Serve(w, kind, stage, m, add, drop),
           stage = "look" => kind \in {"open", "read", "delete", "label"}
    PROVE  MarksInv'
<1> DEFINE j == [Free EXCEPT !.kind = kind, !.stage = stage, !.id = m, !.add = add, !.drop = drop]
<1>1. JobOK(rowOf, j)
  BY FreeIsAJob DEF JobOK, Job, Free
<1>2. worker' = [worker EXCEPT ![w] = j] /\ UNCHANGED <<rowOf, order, opens, failed>>
  BY DEF Serve
<1>3. clock' \in 0..MaxMarks /\ failed' \in 0..MaxStoreFaults
  BY MarksBounds DEF Serve, MarksInv, MarksShape
<1> HIDE DEF j
<1> QED BY <1>1, <1>2, <1>3, OnlyWorker

LEMMA StartMarkInv == ASSUME MarksInv, NEW w \in Workers, Start(w) PROVE MarksInv'
<1>1. PICK m \in Messages :
        \/ Serve(w, "open", "look", m, {}, {})
        \/ Serve(w, "read", "look", m, {}, {})
        \/ Serve(w, "delete", "look", m, {}, {})
        \/ \E add, drop \in SUBSET Labels :
             Serve(w, "label", "look", m, add, drop) \/ Serve(w, "thread label", "list", m, add, drop)
        \/ Serve(w, "thread delete", "list", m, {}, {})
  BY DEF Start
<1>2. {} \in SUBSET Labels
  OBVIOUS
<1> QED BY <1>1, <1>2, ServeInv DEF Kinds

\* What a step does with the request of a worker: it ends, or goes to a stage.
LEMMA EndInv ==
    ASSUME MarksInv, NEW w \in Workers, End(w), UNCHANGED <<rowOf, order, opens, clock>>,
           failed' \in 0..MaxStoreFaults
    PROVE  MarksInv'
<1>1. clock' \in 0..MaxMarks
  BY DEF MarksInv, MarksShape
<1> QED BY <1>1, FreeIsAJob, OnlyWorker DEF End

LEMMA FailsInv == ASSUME MarksInv, Fails PROVE failed' \in 0..MaxStoreFaults
  BY MarksBounds DEF MarksInv, MarksShape, Fails

LEMMA JobOfWorker == ASSUME MarksInv, NEW w \in Workers PROVE JobOK(rowOf, worker[w])
  BY DEF MarksInv, WorkersShape

\* EXCEPT on a field of a worker's request is a change of that request.
LEMMA WorkerUpdates ==
    ASSUME MarksInv, NEW w \in Workers, NEW st, NEW c, NEW td, NEW ls, NEW k, NEW d
    PROVE  /\ [worker EXCEPT ![w].stage = st]
                = [worker EXCEPT ![w] = [worker[w] EXCEPT !.stage = st]]
           /\ [worker EXCEPT ![w].stage = st, ![w].copy = c]
                = [worker EXCEPT ![w] = [worker[w] EXCEPT !.stage = st, !.copy = c]]
           /\ [worker EXCEPT ![w].stage = st, ![w].listed = ls, ![w].todo = td]
                = [worker EXCEPT ![w] = [worker[w] EXCEPT !.stage = st, !.listed = ls, !.todo = td]]
           /\ [worker EXCEPT ![w].stage = st, ![w].done = d]
                = [worker EXCEPT ![w] = [worker[w] EXCEPT !.stage = st, !.done = d]]
           /\ [worker EXCEPT ![w].todo = td] = [worker EXCEPT ![w] = [worker[w] EXCEPT !.todo = td]]
           /\ [worker EXCEPT ![w].kind = k] = [worker EXCEPT ![w] = [worker[w] EXCEPT !.kind = k]]
<1>1. worker = [v \in Workers |-> worker[v]]
  BY DEF MarksInv, WorkersShape
<1> QED BY <1>1

\* A live row that is written or deleted.
LEMMA RowChange ==
    ASSUME MarksShape, NEW m \in Messages, Live(m), NEW r \in MessageRow \cup {Gone},
           r = Gone \/ rowOf[m].opened = Never \/ r.opened = rowOf[m].opened,
           rowOf' = [rowOf EXCEPT ![m] = r]
    PROVE  rowOf' \in [Messages -> MessageRow \cup {Gone, Coming}] /\ \A n \in Messages : Onward(n)
  BY MarksAreDistinct DEF MarksShape, Live, Onward

LEMMA RowsAndWorker ==
    ASSUME MarksInv, NEW w \in Workers, NEW j, worker' = [worker EXCEPT ![w] = j], JobOK(rowOf', j),
           rowOf' \in [Messages -> MessageRow \cup {Gone, Coming}],
           \A m \in Messages : Onward(m),
           UNCHANGED <<order, opens, clock>>, failed' \in 0..MaxStoreFaults
    PROVE  MarksInv'
<1>1. MarksShape'
  BY DEF MarksInv, MarksShape
<1> QED BY <1>1, WorkerStep, OpensStay DEF MarksInv

LEMMA LookInv == ASSUME MarksInv, NEW w \in Workers, Look(w) PROVE MarksInv'
<1> DEFINE j == worker[w]
<1>1. j.stage = "look" /\ UNCHANGED <<rowOf, order, opens, clock, failed>>
  BY DEF Look
<1>2. JobOK(rowOf, j) /\ clock' \in 0..MaxMarks /\ failed' \in 0..MaxStoreFaults
  BY <1>1, JobOfWorker DEF MarksInv, MarksShape
<1>3. ASSUME Goto(w, IF j.kind \in {"open", "label"} THEN "copy" ELSE "write") PROVE MarksInv'
  <2> DEFINE st == IF j.kind \in {"open", "label"} THEN "copy" ELSE "write"
             k == [worker[w] EXCEPT !.stage = st]
  <2>1. JobOK(rowOf, k)
    BY <1>1, <1>2 DEF JobOK, Job
  <2>2. worker' = [worker EXCEPT ![w] = k]
    BY <1>3, WorkerUpdates DEF Goto
  <2> QED BY <1>1, <1>2, <2>1, <2>2, OnlyWorker
<1>4. CASE End(w)
  BY <1>1, <1>2, <1>4, EndInv
<1> QED BY <1>3, <1>4 DEF Look

LEMMA CopyInv == ASSUME MarksInv, NEW w \in Workers, Copy(w) PROVE MarksInv'
<1> DEFINE j == worker[w]
           m == worker[w].id
<1>1. j.stage = "copy" /\ UNCHANGED <<rowOf, order, opens, clock, failed>>
  BY DEF Copy
<1>2. JobOK(rowOf, j) /\ clock' \in 0..MaxMarks /\ failed' \in 0..MaxStoreFaults
  BY <1>1, JobOfWorker DEF MarksInv, MarksShape
<1>3. \/ ~Live(m) /\ j.kind = "thread label" /\ Goto(w, "each")
      \/ End(w)
      \/ Live(m) /\ \E st \in {"tell", "write"} :
           worker' = [worker EXCEPT ![w].stage = st, ![w].copy = rowOf[m]]
  BY DEF Copy
<1>4. CASE j.kind = "thread label" /\ Goto(w, "each")
  <2> DEFINE k == [worker[w] EXCEPT !.stage = "each"]
  <2>1. JobOK(rowOf, k)
    BY <1>1, <1>2, <1>4 DEF JobOK, Job
  <2>2. worker' = [worker EXCEPT ![w] = k]
    BY <1>4, WorkerUpdates DEF Goto
  <2> QED BY <1>1, <1>2, <2>1, <2>2, OnlyWorker
<1>5. CASE End(w)
  BY <1>1, <1>2, <1>5, EndInv
<1>6. ASSUME Live(m), NEW st \in {"tell", "write"},
             worker' = [worker EXCEPT ![w].stage = st, ![w].copy = rowOf[m]]
      PROVE  MarksInv'
  <2> DEFINE k == [worker[w] EXCEPT !.stage = st, !.copy = rowOf[m]]
  <2>1. rowOf[m] \in MessageRow
    BY <1>2, <1>6 DEF MarksInv, MarksShape, Live, JobOK, Job
  <2>2. JobOK(rowOf, k)
    BY <1>1, <1>2, <2>1 DEF JobOK, Job
  <2>3. worker' = [worker EXCEPT ![w] = k]
    BY <1>6, WorkerUpdates, ZenonT(60)
  <2> QED BY <1>1, <1>2, <2>2, <2>3, OnlyWorker
<1> QED BY <1>3, <1>4, <1>5, <1>6

LEMMA WriteOpenedInv == ASSUME MarksInv, NEW w \in Workers, WriteOpened(w) PROVE MarksInv'
<1> DEFINE j == worker[w]
           m == worker[w].id
           k == [worker[w] EXCEPT !.stage = "tell"]
<1>1. j.stage = "write" /\ j.kind = "open" /\ UNCHANGED <<order, opens, clock>>
  BY DEF WriteOpened
<1>2. JobOK(rowOf, j) /\ MarksShape /\ m \in Messages /\ j.copy \in MessageRow
  BY <1>1, JobOfWorker DEF MarksInv, JobOK, Job
<1>3. CASE Fails /\ End(w) /\ UNCHANGED rowOf
  BY <1>1, <1>3, EndInv, FailsInv
<1>4. ASSUME Goto(w, "tell"), UNCHANGED failed,
             rowOf' \in [Messages -> MessageRow \cup {Gone, Coming}], \A n \in Messages : Onward(n)
      PROVE  MarksInv'
  <2>1. JobOK(rowOf', k)
    <3>1. JobOK(rowOf, k)
      BY <1>1, <1>2 DEF JobOK, Job
    <3> QED BY <1>4, <3>1, JobGoesOn
  <2>2. worker' = [worker EXCEPT ![w] = k]
    BY <1>4, WorkerUpdates DEF Goto
  <2>3. failed' \in 0..MaxStoreFaults
    BY <1>2, <1>4 DEF MarksShape
  <2> QED BY <1>1, <1>4, <2>1, <2>2, <2>3, RowsAndWorker
<1>5. CASE Goto(w, "tell") /\ UNCHANGED <<failed, rowOf>>
  BY <1>2, <1>4, <1>5, RowsStay DEF MarksShape
<1>6. CASE /\ Goto(w, "tell") /\ UNCHANGED failed /\ Live(m) /\ rowOf[m].opened = Never
           /\ rowOf' = [rowOf EXCEPT ![m] = [rowOf[m] EXCEPT !.opened = clock,
                                              !.labels = j.copy.labels \cup {Opened}]]
  <2>1. rowOf[m] \in MessageRow
    BY <1>2, <1>6 DEF MarksShape, Live
  <2>2. [rowOf[m] EXCEPT !.opened = clock, !.labels = j.copy.labels \cup {Opened}] \in MessageRow
    BY <1>2, <2>1 DEF MessageRow, AllLabels, MarksShape
  <2> QED BY <1>2, <1>4, <1>6, <2>2, RowChange
<1> QED BY <1>3, <1>5, <1>6 DEF WriteOpened

LEMMA TellOpenedInv == ASSUME MarksInv, NEW w \in Workers, TellOpened(w) PROVE MarksInv'
<1> DEFINE m == worker[w].id
<1>1. /\ MarksShape /\ m \in Messages
      /\ opens' = IF Live(m) /\ rowOf[m].opened # Never THEN opens \cup {<<m, rowOf[m].opened>>} ELSE opens
      /\ worker' = [worker EXCEPT ![w] = Free] /\ UNCHANGED <<rowOf, order, clock, failed>>
  BY JobOfWorker DEF TellOpened, End, MarksInv, JobOK, Job
<1>2. CASE opens' = opens
  BY <1>1, <1>2, EndInv DEF TellOpened, MarksShape
<1>3. CASE Live(m) /\ rowOf[m].opened # Never /\ opens' = opens \cup {<<m, rowOf[m].opened>>}
  <2>1. rowOf[m].opened \in 0..MaxMarks /\ rowOf[m] \notin {Gone, Coming}
    BY <1>1, <1>3 DEF MarksShape, Live, MessageRow
  <2>2. MarksShape'
    BY <1>1, <1>3, <2>1 DEF MarksShape
  <2>3. WorkersShape'
    BY <1>1, <2>2, RowsStay, FreeIsAJob, WorkerStep
  <2>4. ASSUME NEW n \in Messages, NEW t \in 0..MaxMarks, <<n, t>> \in opens'
        PROVE  /\ rowOf[n] # Coming /\ (rowOf[n] # Gone => rowOf[n].opened = t)
               /\ \A u \in 0..MaxMarks : <<n, u>> \in opens' => u = t
    <3>1. OpensAreStamped
      BY DEF MarksInv
    <3>2. CASE n = m
      <4>1. \A u \in 0..MaxMarks : <<m, u>> \in opens' => u = rowOf[m].opened
        <5> SUFFICES ASSUME NEW u \in 0..MaxMarks, <<m, u>> \in opens' PROVE u = rowOf[m].opened
          OBVIOUS
        <5>1. CASE <<m, u>> \in opens
          BY <1>1, <2>1, <3>1, <5>1 DEF OpensAreStamped
        <5>2. CASE <<m, u>> = <<m, rowOf[m].opened>>
          BY <5>2
        <5> QED BY <1>3, <5>1, <5>2
      <4> QED BY <2>1, <2>4, <3>2, <4>1
    <3>3. CASE n # m
      BY <1>3, <2>4, <3>1, <3>3 DEF OpensAreStamped
    <3> QED BY <3>2, <3>3
  <2>5. OpensAreStamped'
    BY <1>1, <2>4 DEF OpensAreStamped
  <2> QED BY <2>2, <2>3, <2>5 DEF MarksInv
<1> QED BY <1>1, <1>2, <1>3

LEMMA WriteLabelsInv == ASSUME MarksInv, NEW w \in Workers, WriteLabels(w) PROVE MarksInv'
<1> DEFINE j == worker[w]
           m == worker[w].id
<1>1. /\ j.stage = "write" /\ j.kind \in {"label", "thread label"}
      /\ UNCHANGED <<order, opens, clock>>
  BY DEF WriteLabels
<1>2. JobOK(rowOf, j) /\ MarksShape /\ m \in Messages /\ j.copy \in MessageRow
  BY <1>1, JobOfWorker DEF MarksInv, JobOK, Job
<1>3. CASE Fails /\ End(w) /\ UNCHANGED rowOf
  BY <1>1, <1>3, EndInv, FailsInv
<1>4. CASE /\ rowOf' = IF Live(m) THEN [rowOf EXCEPT ![m].labels = (j.copy.labels \cup j.add) \ j.drop]
                       ELSE rowOf
           /\ UNCHANGED failed
           /\ \/ j.kind = "thread label" /\ Goto(w, "each")
              \/ j.kind = "label" /\ End(w)
              \/ j.kind = "label" /\ worker' = [worker EXCEPT ![w].kind = "read"]
  <2>1. rowOf' \in [Messages -> MessageRow \cup {Gone, Coming}] /\ \A n \in Messages : Onward(n)
    <3>1. CASE ~Live(m)
      BY <1>2, <1>4, <3>1, RowsStay DEF MarksShape
    <3>2. CASE Live(m)
      <4> DEFINE r == [rowOf[m] EXCEPT !.labels = (j.copy.labels \cup j.add) \ j.drop]
      <4>1. rowOf[m] \in MessageRow
        BY <1>2, <3>2 DEF MarksShape, Live
      <4>2. r \in MessageRow /\ r.opened = rowOf[m].opened
        BY <1>2, <4>1 DEF MessageRow, AllLabels, JobOK, Job
      <4>3. rowOf' = [rowOf EXCEPT ![m] = r]
        BY <1>2, <1>4, <3>2 DEF MarksShape
      <4> QED BY <1>2, <3>2, <4>2, <4>3, RowChange
    <3> QED BY <3>1, <3>2
  <2>2. PICK k : worker' = [worker EXCEPT ![w] = k] /\ JobOK(rowOf, k)
    <3>1. CASE j.kind = "thread label" /\ Goto(w, "each")
      <4> DEFINE k == [worker[w] EXCEPT !.stage = "each"]
      <4>1. JobOK(rowOf, k)
        BY <1>1, <1>2, <3>1 DEF JobOK, Job
      <4>2. worker' = [worker EXCEPT ![w] = k]
        BY <3>1, WorkerUpdates DEF Goto
      <4> QED BY <4>1, <4>2
    <3>2. CASE End(w)
      BY <3>2, FreeIsAJob DEF End
    <3>3. CASE j.kind = "label" /\ worker' = [worker EXCEPT ![w].kind = "read"]
      <4> DEFINE k == [worker[w] EXCEPT !.kind = "read"]
      <4>1. JobOK(rowOf, k)
        BY <1>1, <1>2, <3>3 DEF JobOK, Job, Kinds
      <4>2. worker' = [worker EXCEPT ![w] = k]
        BY <3>3, WorkerUpdates
      <4> QED BY <4>1, <4>2
    <3> QED BY <1>4, <3>1, <3>2, <3>3
  <2>3. JobOK(rowOf', k)
    BY <2>1, <2>2, JobGoesOn
  <2>4. failed' \in 0..MaxStoreFaults
    BY <1>2, <1>4 DEF MarksShape
  <2> QED BY <1>1, <2>1, <2>2, <2>3, <2>4, RowsAndWorker
<1> QED BY <1>3, <1>4 DEF WriteLabels

LEMMA WriteReadInv == ASSUME MarksInv, NEW w \in Workers, WriteRead(w) PROVE MarksInv'
<1> DEFINE m == worker[w].id
<1>1. /\ MarksShape /\ m \in Messages /\ UNCHANGED <<order, opens, clock, failed>>
      /\ worker' = [worker EXCEPT ![w] = Free]
      /\ rowOf' = IF Live(m) THEN [rowOf EXCEPT ![m].read = ~@] ELSE rowOf
  BY JobOfWorker DEF WriteRead, End, MarksInv, JobOK, Job
<1>2. rowOf' \in [Messages -> MessageRow \cup {Gone, Coming}] /\ \A n \in Messages : Onward(n)
  <2>1. CASE ~Live(m)
    BY <1>1, <2>1, RowsStay DEF MarksShape
  <2>2. CASE Live(m)
    <3> DEFINE r == [rowOf[m] EXCEPT !.read = ~@]
    <3>1. rowOf[m] \in MessageRow
      BY <1>1, <2>2 DEF MarksShape, Live
    <3>2. r \in MessageRow /\ r.opened = rowOf[m].opened
      BY <3>1 DEF MessageRow
    <3>3. rowOf' = [rowOf EXCEPT ![m] = r]
      BY <1>1, <2>2 DEF MarksShape
    <3> QED BY <1>1, <2>2, <3>2, <3>3, RowChange
  <2> QED BY <2>1, <2>2
<1>3. failed' \in 0..MaxStoreFaults
  BY <1>1 DEF MarksShape
<1> QED BY <1>1, <1>2, <1>3, FreeIsAJob, RowsAndWorker

\* A delete leaves every row as it was or deletes its own.
LEMMA DeletesOnward ==
    ASSUME MarksShape, NEW m \in Messages,
           rowOf' = IF Live(m) THEN [rowOf EXCEPT ![m] = Gone] ELSE rowOf
    PROVE  /\ rowOf' \in [Messages -> MessageRow \cup {Gone, Coming}] /\ \A n \in Messages : Onward(n)
           /\ rowOf[m] # Coming => rowOf'[m] = Gone
<1>1. CASE ~Live(m)
  BY <1>1, RowsStay DEF MarksShape, Live
<1>2. CASE Live(m)
  <2>1. rowOf' = [rowOf EXCEPT ![m] = Gone]
    BY <1>2
  <2>2. rowOf' \in [Messages -> MessageRow \cup {Gone, Coming}] /\ \A n \in Messages : Onward(n)
    BY <1>2, <2>1, RowChange
  <2>3. rowOf'[m] = Gone
    BY <2>1 DEF MarksShape
  <2> QED BY <2>2, <2>3
<1> QED BY <1>1, <1>2

LEMMA DeleteInv == ASSUME MarksInv, NEW w \in Workers, Delete(w) PROVE MarksInv'
<1> DEFINE m == worker[w].id
<1>1. /\ MarksShape /\ m \in Messages /\ UNCHANGED <<order, opens, clock>>
      /\ worker' = [worker EXCEPT ![w] = Free]
  BY JobOfWorker DEF Delete, End, MarksInv, JobOK, Job
<1>2. CASE Fails /\ UNCHANGED rowOf
  BY <1>1, <1>2, FailsInv, EndInv DEF Delete
<1>3. CASE rowOf' = (IF Live(m) THEN [rowOf EXCEPT ![m] = Gone] ELSE rowOf) /\ UNCHANGED failed
  <2>1. failed' \in 0..MaxStoreFaults
    BY <1>1, <1>3 DEF MarksShape
  <2> QED BY <1>1, <1>3, <2>1, DeletesOnward, FreeIsAJob, RowsAndWorker
<1> QED BY <1>2, <1>3 DEF Delete

LEMMA ListThreadInv == ASSUME MarksInv, NEW w \in Workers, ListThread(w) PROVE MarksInv'
<1>1. /\ worker[w].stage = "list" /\ UNCHANGED <<rowOf, order, opens, clock, failed>>
      /\ \/ End(w)
         \/ worker' = [worker EXCEPT ![w].stage = "each", ![w].listed = Listing, ![w].todo = Listing]
  BY DEF ListThread
<1>2. JobOK(rowOf, worker[w]) /\ clock' \in 0..MaxMarks /\ failed' \in 0..MaxStoreFaults
  BY <1>1, JobOfWorker DEF MarksInv, MarksShape
<1>3. CASE End(w)
  BY <1>1, <1>2, <1>3, EndInv
<1>4. CASE worker' = [worker EXCEPT ![w].stage = "each", ![w].listed = Listing, ![w].todo = Listing]
  <2> DEFINE k == [worker[w] EXCEPT !.stage = "each", !.listed = Listing, !.todo = Listing]
  <2>1. Listing \subseteq Messages /\ \A m \in Listing : rowOf[m] # Coming
    BY DEF Listing, Thread, Live
  <2>2. JobOK(rowOf, k)
    BY <1>1, <1>2, <2>1 DEF JobOK, Job
  <2>3. worker' = [worker EXCEPT ![w] = k]
    BY <1>4, WorkerUpdates, ZenonT(60)
  <2> QED BY <1>1, <1>2, <2>2, <2>3, OnlyWorker
<1> QED BY <1>1, <1>3, <1>4

\* A thread has a newest message.
LEMMA NewestIsOne ==
    ASSUME MarksShape, NEW S, S \subseteq Messages, S # {} PROVE Newest(S) \in S
<1> DEFINE C == Cardinality(Messages)
           D == {C - order[m] : m \in S}
<1>1. C \in Nat /\ \A m \in S : order[m] \in 0..C
  BY MarksBounds, FS_CardinalityType DEF MarksShape
<1> HIDE DEF C
<1>2. D \subseteq Nat /\ D # {}
  BY <1>1
<1>3. PICK d \in D : \A e \in D : d <= e
  BY <1>2, FirstExists
<1>4. PICK m \in S : d = C - order[m]
  OBVIOUS
<1>5. ASSUME NEW n \in S PROVE order[n] <= order[m]
  <2>1. C - order[n] \in D
    OBVIOUS
  <2>2. C - order[m] <= C - order[n]
    BY <1>3, <1>4, <2>1
  <2> QED BY <1>1, <2>2
<1> QED BY <1>4, <1>5 DEF Newest

LEMMA EachInv == ASSUME MarksInv, NEW w \in Workers, Each(w) PROVE MarksInv'
<1> DEFINE j == worker[w]
           m == Newest(worker[w].todo)
<1>1. j.stage = "each" /\ UNCHANGED <<order, opens, clock>>
  BY DEF Each
<1>2. JobOK(rowOf, j) /\ MarksShape /\ clock \in 0..MaxMarks /\ failed \in 0..MaxStoreFaults
  BY JobOfWorker DEF MarksInv, MarksShape
<1>3. j.todo # {} => m \in j.todo /\ m \in Messages
  BY <1>2, NewestIsOne DEF JobOK, Job
<1> HIDE DEF m
<1>4. CASE /\ j.todo = {} /\ UNCHANGED <<rowOf, failed>>
           /\ worker' = [worker EXCEPT ![w].stage = "idle", ![w].done = TRUE]
  <2> DEFINE k == [worker[w] EXCEPT !.stage = "idle", !.done = TRUE]
  <2>1. JobOK(rowOf, k)
    BY <1>1, <1>2, <1>4 DEF JobOK, Job
  <2>2. worker' = [worker EXCEPT ![w] = k]
    <3>1. worker = [v \in Workers |-> worker[v]]
      BY DEF MarksInv, WorkersShape
    <3> QED BY <1>4, <3>1
  <2> QED BY <1>1, <1>2, <1>4, <2>1, <2>2, OnlyWorker
<1>5. CASE /\ j.todo # {} /\ j.kind = "thread label" /\ UNCHANGED <<rowOf, failed>>
           /\ worker' = [worker EXCEPT ![w].stage = "copy", ![w].id = m, ![w].todo = @ \ {m}]
  <2> DEFINE k == [worker[w] EXCEPT !.stage = "copy", !.id = m, !.todo = @ \ {m}]
  <2>1. JobOK(rowOf, k)
    BY <1>1, <1>2, <1>3, <1>5 DEF JobOK, Job
  <2>2. worker' = [worker EXCEPT ![w] = k]
    <3>1. worker = [v \in Workers |-> worker[v]]
      BY DEF MarksInv, WorkersShape
    <3> QED BY <1>5, <3>1
  <2> QED BY <1>1, <1>2, <1>5, <2>1, <2>2, OnlyWorker
<1>6. CASE /\ j.todo # {} /\ j.kind = "thread delete" /\ UNCHANGED failed
           /\ rowOf' = IF Live(m) THEN [rowOf EXCEPT ![m] = Gone] ELSE rowOf
           /\ worker' = [worker EXCEPT ![w].todo = @ \ {m}]
  <2> DEFINE k == [worker[w] EXCEPT !.todo = j.todo \ {m}]
  <2>1. /\ rowOf' \in [Messages -> MessageRow \cup {Gone, Coming}] /\ \A n \in Messages : Onward(n)
        /\ rowOf[m] # Coming => rowOf'[m] = Gone
    BY <1>2, <1>3, <1>6, DeletesOnward
  <2>2. JobOK(rowOf', j)
    BY <1>2, <2>1, JobGoesOn
  <2>3. JobOK(rowOf', k)
    <3>1. k \in Job /\ k.todo = j.todo \ {m} /\ k.listed = j.listed /\ k.stage = j.stage /\ k.done = j.done
          /\ k.kind = j.kind
      BY <1>2 DEF JobOK, Job
    <3>2. \A n \in j.listed : rowOf'[n] # Coming /\ (n \notin k.todo => rowOf'[n] = Gone)
      BY <1>1, <1>2, <1>3, <1>6, <2>1, <2>2, <3>1 DEF JobOK
    <3>3. ~j.done
      BY <1>1, <1>2 DEF JobOK
    <3> QED BY <1>1, <1>6, <3>1, <3>2, <3>3 DEF JobOK
  <2>4. worker' = [worker EXCEPT ![w] = k]
    <3>1. [worker EXCEPT ![w].todo = @ \ {m}] = [worker EXCEPT ![w].todo = j.todo \ {m}]
      OBVIOUS
    <3> QED BY <1>6, <3>1, WorkerUpdates
  <2> QED BY <1>1, <1>2, <1>6, <2>1, <2>3, <2>4, RowsAndWorker
<1>7. CASE Fails /\ End(w) /\ UNCHANGED rowOf
  BY <1>1, <1>7, FailsInv, EndInv
<1> QED BY <1>4, <1>5, <1>6, <1>7 DEF Each, m

LEMMA MarksStepInv == MarksInv /\ [MarksNext]_vars_mm => MarksInv'
<1> SUFFICES ASSUME MarksInv, [MarksNext]_vars_mm PROVE MarksInv'
  OBVIOUS
<1>1. CASE UNCHANGED vars_mm
  BY <1>1 DEF vars_mm, MarksInv, MarksShape, WorkersShape, OpensAreStamped
<1> QED BY <1>1, StoreMarkInv, StartMarkInv, LookInv, CopyInv, WriteOpenedInv, TellOpenedInv,
           WriteLabelsInv, WriteReadInv, DeleteInv, ListThreadInv, EachInv DEF MarksNext

LEMMA MarksInductive == MarksSpec => []MarksInv
  BY MarksInitInv, MarksStepInv, PTL DEF MarksSpec

\* Every variable of the marks on stored messages keeps its type.
THEOREM MarksTypeCorrect == MarksSpec => []MarksTypeOK
  BY MarksInvTyped, MarksInductive, PTL

\* Overlapping opens, label updates and deletes never undo one another's stamp or
\* deletion (record_open, update_message_labels, delete_thread).
THEOREM MarksAlwaysHold == MarksSpec => []MarksHold
  BY MarksInvSuffices, MarksInductive, PTL

(*****************************************************************************)
(* Conversations: one thread, who a mail went to, and the lists of threads.  *)
(*****************************************************************************)

MailRows == [direction : {"inbound", "outbound"}, id : Ids, from : MailAddresses,
             to : Seq(MailAddresses), cc : Seq(MailAddresses), bcc : Seq(MailAddresses),
             refs : Seq(Ids), answers : Ids \cup {NoId}, thread : Ids \cup {NoId},
             gone : BOOLEAN, trash : BOOLEAN, cause : 0..MaxMails]
MailShape ==
    /\ mails \in Seq(MailRows) /\ Len(mails) <= MaxMails
    /\ \A i \in 1..Len(mails) : mails[i].id.of = i
    /\ blocked \in SUBSET MailAddresses
    /\ edits \in 0..MaxEdits
\* A row has the thread its headers name, or none and no headers (an older row).
ThreadsAreNamed ==
    \A i \in 1..Len(mails) :
        IF mails[i].thread = NoId THEN mails[i].refs = <<>> /\ mails[i].answers = NoId
        ELSE mails[i].thread = ThreadFor(mails[i].refs, mails[i].answers, mails[i].id)
\* What the headers of a mail that answers the mail p, sent or received, say of its thread.
Follows(sent, refs, answers, p) ==
    /\ refs # <<>> \/ answers # NoId
    /\ Starts(p) /\ (sent \/ mails[p].id.form = "bare") =>
         ThreadFor(refs, answers, NoId) = ThreadKey(p)
    /\ sent /\ refs # <<>> /\ ~CutShort(p) => Head(refs) = ThreadKey(p)
Sent(row) == row.direction = "outbound"
AnswersFollow ==
    \A i \in 1..Len(mails) : mails[i].cause # NoCause =>
        /\ mails[i].cause \in 1..Len(mails)
        /\ Follows(Sent(mails[i]), mails[i].refs, mails[i].answers, mails[i].cause)
\* A request whose checks are over.
PostingChecked ==
    \/ posting = Nothing_cv
    \/ /\ posting.blocked \in SUBSET MailAddresses
       /\ posting.body.header = NoHeader
       /\ {posting.body.to, posting.body.cc, posting.body.bcc} \subseteq Seq(MailAddresses)
       /\ posting.body.refs \in Seq(Ids) /\ posting.body.answers \in Ids \cup {NoId}
       /\ Lowered(Recipients(posting.body)) \cap posting.blocked = {}
       /\ posting.body.cause # NoCause =>
            /\ posting.body.cause \in 1..Len(mails)
            /\ Follows(TRUE, posting.body.refs, posting.body.answers, posting.body.cause)
EnvelopeNamesItsRow(e) ==
    /\ e.mail \in 1..Len(mails) /\ e.checked \in SUBSET MailAddresses
    /\ LET row == mails[e.mail] IN
       /\ e.to = ToSet(row.to \o row.cc \o row.bcc)
       /\ Lowered(row.to \o row.cc \o row.bcc) \cap e.checked = {}
EnvelopesNameTheirRow == \A e \in envelopes : EnvelopeNamesItsRow(e)

ConversationInv ==
    /\ MailShape /\ ThreadsAreNamed /\ AnswersFollow /\ PostingChecked /\ EnvelopesNameTheirRow

LEMMA ConversationBounds ==
    /\ MaxMails \in Nat /\ NoId \notin Ids /\ Outside \in Ids
    /\ \A n \in 0..MaxMails, f \in {"bare", "angle"} : [of |-> n, form |-> f] \in Ids
    /\ \A x \in Ids : /\ Bare(x) \in Ids /\ (x.form = "bare" => Bare(x) = x)
                      /\ x.of \in 0..MaxMails /\ x.form \in {"bare", "angle"}
<1>1. MaxMails \in Nat /\ MaxMails + 1 \notin 0..MaxMails /\ 0 \in 0..MaxMails
  BY ConversationAssumption
<1> QED BY <1>1 DEF NoId, Ids, Outside, Bare

LEMMA ConversationInvTyped == ConversationInv => ConversationTypeOK
<1> SUFFICES ASSUME ConversationInv PROVE ConversationTypeOK
  OBVIOUS
<1> USE DEF ConversationInv
<1>1. ASSUME NEW i \in 1..Len(mails)
      PROVE  /\ mails[i].direction \in {"inbound", "outbound"} /\ mails[i].from \in MailAddresses
             /\ ToSet(mails[i].refs) \subseteq Ids /\ mails[i].answers \in Ids \cup {NoId}
             /\ mails[i].id \in Ids /\ mails[i].id.of = i
             /\ mails[i].thread \in Ids \cup {NoId} /\ mails[i].cause \in 0..MaxMails
  <2>1. mails[i] \in MailRows
    BY DEF MailShape
  <2>2. ToSet(mails[i].refs) \subseteq Ids
    BY <2>1 DEF MailRows, ToSet
  <2>3. mails[i].id.of = i
    BY DEF MailShape
  <2> QED BY <2>1, <2>2, <2>3 DEF MailRows
<1>2. posting.blocked \in SUBSET MailAddresses
  <2>1. CASE posting = Nothing_cv
    BY <2>1 DEF Nothing_cv
  <2>2. CASE posting # Nothing_cv
    BY <2>2, Zenon DEF PostingChecked
  <2> QED BY <2>1, <2>2
<1>3. \A e \in envelopes : e.mail \in 1..MaxMails /\ e.checked \in SUBSET MailAddresses
  BY ConversationBounds DEF EnvelopesNameTheirRow, EnvelopeNamesItsRow, MailShape
<1> QED BY <1>1, <1>2, <1>3 DEF MailShape, ConversationTypeOK

LEMMA OneThread == ConversationInv => ConversationIsOneThread
<1> SUFFICES ASSUME ConversationInv, NEW i \in 1..Len(mails), mails[i].cause # NoCause,
                    \/ /\ mails[i].direction = "outbound"
                       /\ ~CutShort(i) /\ ~CutShort(mails[i].cause)
                    \/ /\ Starts(mails[i].cause)
                       /\ mails[i].direction = "outbound" \/ mails[mails[i].cause].id.form = "bare"
             PROVE  mails[i].thread = ThreadKey(mails[i].cause)
  BY DEF ConversationIsOneThread
<1>1. Follows(Sent(mails[i]), mails[i].refs, mails[i].answers, mails[i].cause)
  BY DEF ConversationInv, AnswersFollow
<1>2. mails[i].refs # <<>> \/ mails[i].answers # NoId
  BY <1>1 DEF Follows
<1>3. mails[i].thread = ThreadFor(mails[i].refs, mails[i].answers, mails[i].id)
  BY <1>2 DEF ConversationInv, ThreadsAreNamed
<1>4. mails[i].thread = ThreadFor(mails[i].refs, mails[i].answers, NoId)
  BY <1>2, <1>3 DEF ThreadFor
<1>5. CASE /\ mails[i].direction = "outbound" /\ ~CutShort(i) /\ ~CutShort(mails[i].cause)
  <2>1. mails[i].refs # <<>>
    BY <1>2, <1>5 DEF CutShort
  <2>2. Head(mails[i].refs) = ThreadKey(mails[i].cause)
    BY <1>1, <1>5, <2>1 DEF Follows, Sent
  <2> QED BY <1>3, <2>1, <2>2 DEF ThreadFor
<1>6. CASE /\ Starts(mails[i].cause)
           /\ mails[i].direction = "outbound" \/ mails[mails[i].cause].id.form = "bare"
  BY <1>1, <1>4, <1>6 DEF Follows, Sent
<1> QED BY <1>5, <1>6

LEMMA SentIsStored == ConversationInv => StoredIsSent
  BY DEF ConversationInv, EnvelopesNameTheirRow, EnvelopeNamesItsRow, StoredIsSent

LEMMA ListsOpen == ConversationInv => ListedThreadsOpen
<1> SUFFICES ASSUME ConversationInv PROVE ListedThreadsOpen
  OBVIOUS
<1>1. /\ Live_cv \subseteq Nat /\ IsFiniteSet(Live_cv) /\ Listable \subseteq Live_cv
  <2>1. Len(mails) \in Nat
    BY DEF ConversationInv, MailShape
  <2>2. IsFiniteSet(1..Len(mails))
    BY <2>1, FS_Interval
  <2>3. Live_cv \subseteq 1..Len(mails) /\ Listable \subseteq Live_cv
    BY DEF Live_cv, Listable
  <2>5. IsFiniteSet(Live_cv)
    BY <2>2, <2>3, FS_Subset
  <2>6. 1..Len(mails) \subseteq Nat
    BY <2>1
  <2> QED BY <2>3, <2>5, <2>6
<1> DEFINE listed == ListThreads(MaxMails)
           heads == NewestFirst(ThreadHeads)
           least(a, b) == IF a < b THEN a ELSE b
           entry(k) == [key |-> k, count |-> Cardinality(RowsOfKey(k)),
                        shown |-> SubSeq(NewestFirst(RowsOfKey(k)), 1,
                                         least(Cardinality(RowsOfKey(k)), SummaryMails))]
<1>2. ASSUME NEW S, S \subseteq Live_cv
      PROVE  /\ IsFiniteSet(S) /\ S \subseteq Nat
             /\ NewestFirst(S) \in Seq(S) /\ Len(NewestFirst(S)) = Cardinality(S)
             /\ Cardinality(S) \in Nat
             /\ \A x \in S : \E n \in 1..Cardinality(S) : NewestFirst(S)[n] = x
  <2>1. IsFiniteSet(S) /\ S \subseteq Nat
    BY <1>1, <1>2, FS_Subset
  <2> QED BY <2>1, DescendingHolds DEF NewestFirst
<1>3. ThreadHeads \subseteq Live_cv /\ \A k : RowsOfKey(k) \subseteq Live_cv
  BY <1>1 DEF ThreadHeads, RowsOfKey
<1>4. listed = [n \in 1..least(Len(heads), MaxMails) |-> entry(ThreadKey(heads[n]))]
  BY DEF ListThreads
<1>5. /\ Len(heads) \in Nat /\ Len(heads) = Cardinality(ThreadHeads)
      /\ least(Len(heads), MaxMails) \in 0..Len(heads)
  BY <1>2, <1>3, ConversationBounds
<1>6. /\ Len(listed) = least(Len(heads), MaxMails)
      /\ \A n \in 1..Len(listed) : listed[n] = entry(ThreadKey(heads[n]))
  BY <1>4, <1>5
<1> HIDE DEF listed, heads
<1>7. ASSUME NEW n \in 1..Len(listed), NEW j \in 1..Len(listed[n].shown),
             mails[listed[n].shown[j]].thread # NoId
      PROVE  listed[n].shown[j] \in ToSet(GetThread(listed[n].key))
  <2> DEFINE k == ThreadKey(heads[n])
             R == RowsOfKey(k)
             m == least(Cardinality(R), SummaryMails)
  <2>1. listed[n].key = k /\ listed[n].shown = SubSeq(NewestFirst(R), 1, m)
    <3>1. listed[n] = entry(k)
      BY <1>6
    <3>2. entry(k).key = k /\ entry(k).shown = SubSeq(NewestFirst(RowsOfKey(k)), 1,
                                 least(Cardinality(RowsOfKey(k)), SummaryMails))
      OBVIOUS
    <3> HIDE DEF entry, least
    <3>3. listed[n].key = entry(k).key /\ listed[n].shown = entry(k).shown
      BY <3>1
    <3> QED BY <3>2, <3>3 DEF least
  <2>2. R \subseteq Live_cv
    BY <1>3
  <2>3. NewestFirst(R) \in Seq(R) /\ Len(NewestFirst(R)) = Cardinality(R) /\ Cardinality(R) \in Nat
    BY <1>2, <2>2
  <2>4. m \in 0..Cardinality(R)
    BY <2>3, ConversationAssumption
  <2> HIDE DEF R, m
  <2>5. Len(SubSeq(NewestFirst(R), 1, m)) = m /\ SubSeq(NewestFirst(R), 1, m)[j] = NewestFirst(R)[j]
    BY <1>7, <2>1, <2>3, <2>4
  <2>6. listed[n].shown[j] \in R
    BY <1>7, <2>1, <2>3, <2>4, <2>5
  <2>7. mails[listed[n].shown[j]].thread = k /\ listed[n].shown[j] \in Live_cv
    BY <1>7, <2>2, <2>6 DEF R, RowsOfKey, ThreadKey
  <2> DEFINE T == {i \in Live_cv : mails[i].thread = k}
  <2>8. listed[n].shown[j] \in T /\ T \subseteq Live_cv
    BY <2>7
  <2> HIDE DEF T
  <2>9. NewestFirst(T) \in Seq(T) /\ \E q \in 1..Len(NewestFirst(T)) : NewestFirst(T)[q] = listed[n].shown[j]
    BY <1>2, <2>8
  <2>10. GetThread(listed[n].key) = NewestFirst(T)
    BY <2>1 DEF GetThread, T
  <2> QED BY <2>9, <2>10 DEF ToSet
<1>8. ASSUME \A i \in Live_cv : mails[i].thread # NoId
      PROVE  Len(listed) <= UsageThreads
  <2> DEFINE T == {mails[i].thread : i \in {j \in Live_cv : mails[j].thread # NoId}}
             f == [i \in ThreadHeads |-> mails[i].thread]
             g == [i \in Live_cv |-> mails[i].thread]
  <2>1. IsFiniteSet(T)
    <3>1. g \in Surjection(Live_cv, T)
      BY <1>8 DEF Surjection
    <3> QED BY <1>1, <3>1, FS_Surjection
  <2>2. \A i \in Live_cv : ThreadKey(i) = mails[i].thread
    BY <1>8 DEF ThreadKey
  <2>3. f \in [ThreadHeads -> T]
    BY <1>3, <1>8
  <2>4. ASSUME NEW i \in ThreadHeads, NEW j \in ThreadHeads, f[i] = f[j] PROVE i = j
    <3>1. i \in RowsOfKey(ThreadKey(j)) /\ j \in RowsOfKey(ThreadKey(i))
      BY <1>3, <2>2, <2>4 DEF ThreadHeads, RowsOfKey
    <3>2. i <= j /\ j <= i /\ i \in Nat /\ j \in Nat
      BY <1>1, <1>3, <3>1 DEF ThreadHeads
    <3> QED BY <3>2
  <2>5. f \in Injection(ThreadHeads, T)
    BY <2>3, <2>4 DEF Injection, IsInjective
  <2>6. Cardinality(ThreadHeads) <= Cardinality(T) /\ Cardinality(T) \in Nat
    BY <2>1, <2>5, FS_Injection, FS_CardinalityType
  <2>7. UsageThreads = Cardinality(T)
    BY DEF UsageThreads
  <2> HIDE DEF T
  <2> QED BY <1>5, <1>6, <2>6, <2>7
<1> QED BY <1>7, <1>8 DEF ListedThreadsOpen, listed

-----------------------------------------------------------------------------
(* Conversations: every step keeps the invariant.                            *)

\* What an answer refers to starts at the thread of the mail it answers.
LEMMA AnswerFollows ==
    ASSUME MailShape, ThreadsAreNamed, NEW i \in 1..Len(mails), NEW a,
           NEW r, r = Append(mails[i].refs, mails[i].id) \/ r = Referring(i)
    PROVE  r \in Seq(Ids) /\ mails[i].id \in Ids /\ Follows(TRUE, r, a, i)
<1>1. mails[i] \in MailRows
  BY DEF MailShape
<1> DEFINE q == mails[i].refs
           own == mails[i].id
<1>2. q \in Seq(Ids) /\ mails[i].answers \in Ids \cup {NoId} /\ own \in Ids
  BY <1>1 DEF MailRows
<1>3. ASSUME NEW u \in Seq(Ids), r = Append(u, own), u # <<>> => Head(u) = ThreadKey(i) \/ CutShort(i),
             u = <<>> => ThreadKey(i) = own \/ CutShort(i)
      PROVE  r \in Seq(Ids) /\ r # <<>> /\ (~CutShort(i) => Head(r) = ThreadKey(i))
  <2> HIDE DEF q, own
  <2>1. r \in Seq(Ids) /\ r # <<>> /\ Head(r) = IF u = <<>> THEN own ELSE Head(u)
    BY <1>2, <1>3
  <2> QED BY <1>3, <2>1
<1>4. r \in Seq(Ids) /\ r # <<>> /\ (~CutShort(i) => Head(r) = ThreadKey(i))
  <2>1. CASE q # <<>>
    <3>1. r = Append(q, own)
      BY <2>1 DEF Referring
    <3>2. ThreadKey(i) = Head(q)
      BY <2>1 DEF ThreadsAreNamed, ThreadFor, ThreadKey
    <3> QED BY <1>2, <1>3, <2>1, <3>1, <3>2
  <2>2. CASE q = <<>> /\ mails[i].answers # NoId
    <3>1. CutShort(i)
      BY <2>2 DEF CutShort
    <3>2. r = Append(q, own) \/ r = Append(<<mails[i].answers>>, own)
      BY <2>2 DEF Referring
    <3>3. <<mails[i].answers>> \in Seq(Ids)
      BY <1>2, <2>2
    <3> HIDE DEF q, own
    <3> QED BY <1>2, <1>3, <3>1, <3>2, <3>3
  <2>3. CASE q = <<>> /\ mails[i].answers = NoId
    <3>1. ThreadKey(i) = own
      BY <2>3 DEF ThreadsAreNamed, ThreadFor, ThreadKey
    <3>2. r = Append(q, own)
      BY <2>3 DEF Referring
    <3> HIDE DEF own
    <3> QED BY <1>2, <1>3, <2>3, <3>1, <3>2
  <2> QED BY <2>1, <2>2, <2>3
<1>5. Starts(i) => ~CutShort(i)
  BY DEF Starts, CutShort
<1> QED BY <1>2, <1>4, <1>5 DEF Follows, ThreadFor

\* A step that leaves the mails' headers as they are, and may add a mail that
\* is named for its headers and follows what it answers.
LEMMA HeadersKept ==
    ASSUME ConversationInv, mails' \in Seq(MailRows), Len(mails') <= MaxMails,
           blocked' \in SUBSET MailAddresses, edits' \in 0..MaxEdits,
           Len(mails) <= Len(mails'),
           \A j \in 1..Len(mails) :
              /\ mails'[j].direction = mails[j].direction /\ mails'[j].id = mails[j].id
              /\ mails'[j].to = mails[j].to /\ mails'[j].cc = mails[j].cc
              /\ mails'[j].bcc = mails[j].bcc /\ mails'[j].refs = mails[j].refs
              /\ mails'[j].answers = mails[j].answers /\ mails'[j].thread = mails[j].thread
              /\ mails'[j].cause = mails[j].cause,
           \A j \in 1..Len(mails') : j \notin 1..Len(mails) =>
              /\ mails'[j].id.of = j
              /\ mails'[j].thread = ThreadFor(mails'[j].refs, mails'[j].answers, mails'[j].id)
              /\ mails'[j].thread # NoId
              /\ mails'[j].cause # NoCause =>
                   /\ mails'[j].cause \in 1..Len(mails)
                   /\ Follows(Sent(mails'[j]), mails'[j].refs, mails'[j].answers, mails'[j].cause)
    PROVE  /\ MailShape' /\ ThreadsAreNamed' /\ AnswersFollow'
           /\ posting' = posting => PostingChecked'
           /\ \A e \in envelopes : EnvelopeNamesItsRow(e)'
<1>0. /\ MailShape /\ ThreadsAreNamed /\ AnswersFollow /\ PostingChecked /\ EnvelopesNameTheirRow
      /\ Len(mails) \in Nat /\ Len(mails') \in Nat
      /\ \A j \in 1..Len(mails) : j \in 1..Len(mails')
  <2>1. MailShape /\ Len(mails) \in Nat /\ Len(mails') \in Nat
    BY DEF ConversationInv, MailShape
  <2> QED BY <2>1 DEF ConversationInv
<1>2. MailShape'
  <2>1. ASSUME NEW i \in 1..Len(mails') PROVE mails'[i].id.of = i
    <3>1. CASE i \in 1..Len(mails)
      BY <1>0, <3>1 DEF MailShape
    <3>2. CASE i \notin 1..Len(mails)
      BY <3>2
    <3> QED BY <3>1, <3>2
  <2> QED BY <2>1 DEF MailShape
<1>3. ThreadsAreNamed'
  <2>1. ASSUME NEW i \in 1..Len(mails')
        PROVE  IF mails'[i].thread = NoId THEN mails'[i].refs = <<>> /\ mails'[i].answers = NoId
               ELSE mails'[i].thread = ThreadFor(mails'[i].refs, mails'[i].answers, mails'[i].id)
    <3>1. CASE i \in 1..Len(mails)
      BY <1>0, <3>1 DEF ThreadsAreNamed
    <3>2. CASE i \notin 1..Len(mails)
      BY <3>2
    <3> QED BY <3>1, <3>2
  <2> QED BY <2>1 DEF ThreadsAreNamed, ThreadFor
<1> DEFINE StartsNow(x) == mails'[x].refs = <<>> /\ mails'[x].answers = NoId
           CutShortNow(x) == mails'[x].refs = <<>> /\ mails'[x].answers # NoId
           KeyNow(x) == IF mails'[x].thread = NoId THEN mails'[x].id ELSE mails'[x].thread
<1>4. AnswersFollow'
  <2>1. ASSUME NEW i \in 1..Len(mails'), mails'[i].cause # NoCause
        PROVE  /\ mails'[i].cause \in 1..Len(mails)
               /\ Follows(Sent(mails'[i]), mails'[i].refs, mails'[i].answers, mails'[i].cause)
    <3>1. CASE i \in 1..Len(mails)
      BY <1>0, <2>1, <3>1 DEF AnswersFollow, Sent
    <3>2. CASE i \notin 1..Len(mails)
      BY <2>1, <3>2
    <3> QED BY <3>1, <3>2
  <2>2. ASSUME NEW i \in 1..Len(mails'), mails'[i].cause # NoCause
        PROVE  mails'[i].cause \in 1..Len(mails')
               /\ Follows(Sent(mails[i]), mails[i].refs, mails[i].answers, mails[i].cause)'
    <3> DEFINE row == mails'[i]
               p == row.cause
               t == Sent(row)
               u == row.refs
               a == row.answers
    <3>1. p \in 1..Len(mails) /\ Follows(t, u, a, p)
      BY <2>1, <2>2
    <3>2. Follows(Sent(mails[i]), mails[i].refs, mails[i].answers, mails[i].cause)'
          <=> /\ u # <<>> \/ a # NoId
              /\ StartsNow(p) /\ (t \/ mails'[p].id.form = "bare") => ThreadFor(u, a, NoId) = KeyNow(p)
              /\ t /\ u # <<>> /\ ~CutShortNow(p) => Head(u) = KeyNow(p)
      BY DEF Follows, Starts, CutShort, ThreadKey, Sent, ThreadFor
    <3> HIDE DEF p, t, u, a
    <3>3. p \in 1..Len(mails')
          /\ /\ u # <<>> \/ a # NoId
             /\ StartsNow(p) /\ (t \/ mails'[p].id.form = "bare") => ThreadFor(u, a, NoId) = KeyNow(p)
             /\ t /\ u # <<>> /\ ~CutShortNow(p) => Head(u) = KeyNow(p)
      <4>1. /\ mails'[p].refs = mails[p].refs /\ mails'[p].answers = mails[p].answers
            /\ mails'[p].thread = mails[p].thread /\ mails'[p].id = mails[p].id
        BY <3>1
      <4>2. StartsNow(p) = Starts(p) /\ CutShortNow(p) = CutShort(p) /\ KeyNow(p) = ThreadKey(p)
        BY <4>1 DEF Starts, CutShort, ThreadKey
      <4>3. p \in 1..Len(mails')
        BY <1>0, <3>1
      <4> QED BY <3>1, <4>1, <4>2, <4>3 DEF Follows
    <3> QED BY <3>2, <3>3 DEF p
  <2> QED BY <2>2 DEF AnswersFollow
<1>5. ASSUME posting' = posting PROVE PostingChecked'
  <2>1. posting.body.cause # NoCause /\ posting # Nothing_cv =>
          posting.body.cause \in 1..Len(mails') /\
          Follows(TRUE, posting.body.refs, posting.body.answers, posting.body.cause)'
    <3> DEFINE u == posting.body.refs
               a == posting.body.answers
               p == posting.body.cause
    <3>1. p # NoCause /\ posting # Nothing_cv => p \in 1..Len(mails) /\ Follows(TRUE, u, a, p)
      BY <1>0 DEF PostingChecked
    <3>2. Follows(TRUE, posting.body.refs, posting.body.answers, posting.body.cause)'
          <=> /\ u # <<>> \/ a # NoId
              /\ StartsNow(p) => ThreadFor(u, a, NoId) = KeyNow(p)
              /\ u # <<>> /\ ~CutShortNow(p) => Head(u) = KeyNow(p)
      BY <1>5 DEF Follows, Starts, CutShort, ThreadKey, ThreadFor
    <3> HIDE DEF p, u, a
    <3>3. ASSUME p # NoCause, posting # Nothing_cv
          PROVE  /\ p \in 1..Len(mails')
                 /\ u # <<>> \/ a # NoId
                 /\ StartsNow(p) => ThreadFor(u, a, NoId) = KeyNow(p)
                 /\ u # <<>> /\ ~CutShortNow(p) => Head(u) = KeyNow(p)
      <4>1. /\ mails'[p].refs = mails[p].refs /\ mails'[p].answers = mails[p].answers
            /\ mails'[p].thread = mails[p].thread /\ mails'[p].id = mails[p].id
        BY <3>1, <3>3
      <4>2. StartsNow(p) = Starts(p) /\ CutShortNow(p) = CutShort(p) /\ KeyNow(p) = ThreadKey(p)
        BY <4>1 DEF Starts, CutShort, ThreadKey
      <4>3. p \in 1..Len(mails')
        BY <1>0, <3>1, <3>3
      <4> QED BY <3>1, <3>3, <4>2, <4>3 DEF Follows
    <3> QED BY <3>2, <3>3 DEF p
  <2> QED BY <1>0, <1>5, <2>1 DEF PostingChecked, Recipients, Lowered, Nothing_cv, NoHeader
<1>6. ASSUME NEW e \in envelopes PROVE EnvelopeNamesItsRow(e)'
  BY <1>0, <1>6 DEF EnvelopesNameTheirRow, EnvelopeNamesItsRow, Lowered
<1> QED BY <1>2, <1>3, <1>4, <1>5, <1>6

\* One more such row at the end.
LEMMA RowAdded ==
    ASSUME ConversationInv, Len(mails) < MaxMails,
           NEW d \in {"inbound", "outbound"}, NEW form \in {"bare", "angle"},
           NEW f \in MailAddresses, NEW to \in Seq(MailAddresses), NEW cc \in Seq(MailAddresses),
           NEW bcc \in Seq(MailAddresses), NEW refs \in Seq(Ids), NEW a \in Ids \cup {NoId},
           NEW c \in 0..MaxMails,
           c # NoCause => c \in 1..Len(mails) /\ Follows(d = "outbound", refs, a, c),
           mails' = Append(mails, MailRow(d, NewId(form), f, to, cc, bcc, refs, a,
                                          ThreadFor(refs, a, NewId(form)), c)),
           UNCHANGED <<blocked, edits>>
    PROVE  /\ MailShape' /\ ThreadsAreNamed' /\ AnswersFollow'
           /\ posting' = posting => PostingChecked'
           /\ \A e \in envelopes : EnvelopeNamesItsRow(e)'
           /\ Len(mails) + 1 \in 1..Len(mails')
           /\ mails'[Len(mails) + 1].to = to /\ mails'[Len(mails) + 1].cc = cc
           /\ mails'[Len(mails) + 1].bcc = bcc
<1> DEFINE row == MailRow(d, NewId(form), f, to, cc, bcc, refs, a, ThreadFor(refs, a, NewId(form)), c)
           m == Len(mails) + 1
<1>1. /\ MailShape /\ mails \in Seq(MailRows) /\ Len(mails) \in Nat /\ MaxMails \in Nat
      /\ blocked \in SUBSET MailAddresses /\ edits \in 0..MaxEdits
  BY ConversationBounds DEF ConversationInv, MailShape
<1>2. /\ row \in MailRows /\ row.thread # NoId /\ row.direction = d /\ row.id.of = m
      /\ row.to = to /\ row.cc = cc /\ row.bcc = bcc
      /\ row.refs = refs /\ row.answers = a /\ row.cause = c
      /\ row.thread = ThreadFor(refs, a, row.id)
  <2> DEFINE own == NewId(form)
  <2>1. own \in Ids /\ own.of = m
    <3>1. m \in 0..MaxMails
      BY <1>1
    <3> HIDE DEF m
    <3>2. own = [of |-> m, form |-> form]
      BY DEF NewId, m
    <3>3. [of |-> m, form |-> form] \in Ids
      BY <3>1, ConversationBounds
    <3> QED BY <3>2, <3>3
  <2> HIDE DEF own, m, row
  <2>3. /\ row \in MailRows /\ row.thread # NoId /\ row.direction = d /\ row.id = own
        /\ row.to = to /\ row.cc = cc /\ row.bcc = bcc
        /\ row.refs = refs /\ row.answers = a /\ row.cause = c
        /\ row.thread = ThreadFor(refs, a, own)
    <3> DEFINE t == ThreadFor(refs, a, own)
    <3>2. t \in Ids
      <4>1. refs # <<>> => Head(refs) \in Ids
        OBVIOUS
      <4> QED BY <2>1, <4>1 DEF ThreadFor
    <3>3. t # NoId
      BY <3>2, ConversationBounds
    <3> HIDE DEF t
    <3>4. row = [direction |-> d, id |-> own, from |-> f, to |-> to, cc |-> cc, bcc |-> bcc, refs |-> refs,
                 answers |-> a, thread |-> t, gone |-> FALSE, trash |-> FALSE, cause |-> c]
      BY DEF MailRow, row, t, own
    <3>5. row \in MailRows
      <4> DEFINE writtenRow == [direction |-> d, id |-> own, from |-> f, to |-> to, cc |-> cc, bcc |-> bcc,
                          refs |-> refs, answers |-> a, thread |-> t, gone |-> FALSE,
                          trash |-> FALSE, cause |-> c]
      <4>1. t \in Ids \cup {NoId}
        BY <3>2
      <4>2. writtenRow \in MailRows
        BY <2>1, <4>1 DEF MailRows
      <4> QED BY <3>4, <4>2
    <3>6. /\ row.direction = d /\ row.id = own /\ row.thread = t
          /\ row.to = to /\ row.cc = cc /\ row.bcc = bcc
          /\ row.refs = refs /\ row.answers = a /\ row.cause = c
      BY <3>4
    <3> QED BY <3>3, <3>5, <3>6 DEF t
  <2> QED BY <2>1, <2>3
<1>3. mails' = Append(mails, row)
  OBVIOUS
<1> HIDE DEF row
<1>4. /\ mails' \in Seq(MailRows) /\ Len(mails') = m /\ mails'[m] = row
      /\ \A j \in 1..Len(mails) : mails'[j] = mails[j]
      /\ Len(mails') <= MaxMails /\ Len(mails) <= Len(mails')
  BY <1>1, <1>2, <1>3
<1> DEFINE before == Len(mails)
           after == Len(mails')
<1>5. /\ \A j \in 1..after : j \notin 1..before => j = m
      /\ m \in 1..after
  <2>1. before \in Nat /\ after = before + 1 /\ m = before + 1
    BY <1>1, <1>4
  <2> HIDE DEF before, after, m
  <2> QED BY <2>1
<1>6. /\ \A j \in 1..Len(mails') : j \notin 1..Len(mails) => j = m
      /\ m \in 1..Len(mails')
  BY <1>5
<1> HIDE DEF before, after
<1> HIDE DEF m
<1>7. \A j \in 1..Len(mails') : j \notin 1..Len(mails) =>
         /\ mails'[j].id.of = j
         /\ mails'[j].thread = ThreadFor(mails'[j].refs, mails'[j].answers, mails'[j].id)
         /\ mails'[j].thread # NoId
         /\ mails'[j].cause # NoCause =>
              /\ mails'[j].cause \in 1..Len(mails)
              /\ Follows(Sent(mails'[j]), mails'[j].refs, mails'[j].answers, mails'[j].cause)
  BY <1>2, <1>4, <1>6 DEF Sent
<1>8. blocked' \in SUBSET MailAddresses /\ edits' \in 0..MaxEdits
  BY <1>1
<1>9. /\ MailShape' /\ ThreadsAreNamed' /\ AnswersFollow'
      /\ posting' = posting => PostingChecked'
      /\ \A e \in envelopes : EnvelopeNamesItsRow(e)'
  BY <1>4, <1>7, <1>8, HeadersKept
<1> QED BY <1>2, <1>4, <1>6, <1>9 DEF m

LEMMA InitConversation == ConversationInit => ConversationInv
<1> SUFFICES ASSUME ConversationInit PROVE ConversationInv
  OBVIOUS
<1>1. mails = <<>> \/ \E r \in MailRows : mails = <<r>> /\ r.thread = NoId /\ r.refs = <<>>
                                       /\ r.answers = NoId /\ r.cause = NoCause /\ r.id.of = 1
  <2>1. ASSUME NEW m \in Arrivals, NEW form \in {"bare", "angle"},
               mails = <<MailRow("inbound", [of |-> 1, form |-> form], m.from, m.to, m.cc, <<>>,
                                 <<>>, NoId, NoId, NoCause)>>
        PROVE  \E r \in MailRows : mails = <<r>> /\ r.thread = NoId /\ r.refs = <<>>
                                       /\ r.answers = NoId /\ r.cause = NoCause /\ r.id.of = 1
    <3> DEFINE own == [of |-> 1, form |-> form]
               r == MailRow("inbound", own, m.from, m.to, m.cc, <<>>, <<>>, NoId, NoId, NoCause)
    <3>1. m.from \in MailAddresses /\ m.to \in Seq(MailAddresses) /\ m.cc \in Seq(MailAddresses)
      BY AddressesAssumption
    <3>4. own \in Ids /\ own.of = 1
      <4>1. 1 \in 0..MaxMails
        BY ConversationAssumption
      <4> QED BY <4>1, ConversationBounds
    <3> HIDE DEF own
    <3>2. r = [direction |-> "inbound", id |-> own, from |-> m.from, to |-> m.to, cc |-> m.cc, bcc |-> <<>>,
               refs |-> <<>>, answers |-> NoId, thread |-> NoId, gone |-> FALSE, trash |-> FALSE,
               cause |-> NoCause]
      BY DEF MailRow
    <3>3. r \in MailRows
      <4>1. <<>> \in Seq(MailAddresses) /\ <<>> \in Seq(Ids) /\ NoId \in Ids \cup {NoId}
            /\ "inbound" \in {"inbound", "outbound"} /\ FALSE \in BOOLEAN
            /\ NoCause \in 0..MaxMails
        BY ConversationBounds DEF NoCause
      <4> HIDE DEF r
      <4> QED BY <3>1, <3>2, <3>4, <4>1, Zenon DEF MailRows
    <3>5. mails = <<r>>
      BY <2>1 DEF own
    <3>6. r.thread = NoId /\ r.refs = <<>> /\ r.answers = NoId /\ r.cause = NoCause /\ r.id.of = 1
      BY <3>2, <3>4
    <3> HIDE DEF r
    <3> QED BY <3>3, <3>5, <3>6
  <2> QED BY <2>1 DEF ConversationInit
<1>2. mails \in Seq(MailRows) /\ Len(mails) <= MaxMails /\ Len(mails) \in {0, 1}
  <2>1. mails = <<>> => mails \in Seq(MailRows) /\ Len(mails) = 0
    OBVIOUS
  <2>2. ASSUME NEW r \in MailRows, mails = <<r>> PROVE mails \in Seq(MailRows) /\ Len(mails) = 1
    BY <2>2
  <2>3. mails \in Seq(MailRows) /\ Len(mails) \in {0, 1}
    BY <1>1, <2>1, <2>2
  <2>4. MaxMails \in Nat /\ MaxMails >= 1
    BY ConversationAssumption
  <2> QED BY <2>3, <2>4
<1>4. \A i \in 1..Len(mails) : mails[i].thread = NoId /\ mails[i].refs = <<>> /\ mails[i].id.of = i
                              /\ mails[i].answers = NoId /\ mails[i].cause = NoCause
  BY <1>1
<1>3. MailShape
  BY <1>2, <1>4, ConversationAssumption DEF ConversationInit, MailShape
<1>5. ThreadsAreNamed /\ AnswersFollow
  BY <1>4 DEF ThreadsAreNamed, AnswersFollow
<1> QED BY <1>3, <1>5
        DEF ConversationInit, ConversationInv, PostingChecked, EnvelopesNameTheirRow

LEMMA ArrivalKeeps ==
    ASSUME ConversationInv, NEW m \in Arrivals, MailArrives(m)
    PROVE  ConversationInv'
<1>1. PICK h \in AnswerHeaders, form \in {"bare", "angle"} :
        mails' = Append(mails, MailRow("inbound", NewId(form), m.from, m.to, m.cc, <<>>, h.refs,
                           h.answers, ThreadFor(h.refs, h.answers, NewId(form)), h.cause))
  BY DEF MailArrives
<1>2. m.from \in MailAddresses /\ m.to \in Seq(MailAddresses) /\ m.cc \in Seq(MailAddresses)
  BY AddressesAssumption
<1>3. /\ MailShape /\ ThreadsAreNamed /\ Len(mails) \in Nat /\ 1..Len(mails) \subseteq 0..MaxMails
      /\ \A i \in 1..Len(mails) : mails[i].id \in Ids /\ Bare(mails[i].id) \in Ids
  <2>1. MailShape /\ ThreadsAreNamed /\ Len(mails) \in Nat /\ Len(mails) <= MaxMails /\ MaxMails \in Nat
    BY ConversationBounds DEF ConversationInv, MailShape
  <2>2. \A i \in 1..Len(mails) : mails[i].id \in Ids
    <3>1. \A i \in 1..Len(mails) : mails[i] \in MailRows
      BY <2>1 DEF MailShape
    <3> QED BY <3>1 DEF MailRows
  <2>3. \A i \in 1..Len(mails) : Bare(mails[i].id) \in Ids
    BY <2>2, ConversationBounds
  <2>4. 1..Len(mails) \subseteq 0..MaxMails
    BY <2>1
  <2> QED BY <2>1, <2>2, <2>3, <2>4
<1>4. /\ h.refs \in Seq(Ids) /\ h.answers \in Ids \cup {NoId} /\ h.cause \in 0..MaxMails
      /\ h.cause # NoCause => h.cause \in 1..Len(mails) /\ Follows(FALSE, h.refs, h.answers, h.cause)
  <2>1. CASE h = [refs |-> <<>>, answers |-> NoId, cause |-> NoCause]
    BY <2>1, ConversationBounds DEF NoCause
  <2>2. CASE h = [refs |-> <<Outside>>, answers |-> Outside, cause |-> NoCause]
    BY <2>2, ConversationBounds DEF NoCause
  <2>3. ASSUME NEW i \in 1..Len(mails), NEW r \in {<<>>} \cup {<<x>> : x \in Named(i)},
               h = [refs |-> r, answers |-> Bare(mails[i].id), cause |-> i]
        PROVE  /\ h.refs \in Seq(Ids) /\ h.answers \in Ids /\ h.cause \in 1..Len(mails)
               /\ Follows(FALSE, h.refs, h.answers, h.cause)
    <3>1. h.refs = r /\ h.answers = Bare(mails[i].id) /\ h.cause = i
      BY <2>3
    <3>2. Bare(mails[i].id) \in Ids /\ Bare(mails[i].id) # NoId
      BY <1>3, ConversationBounds
    <3>3. \A x \in Named(i) : x \in Ids
      <4>1. \A j \in 1..i : j \in 1..Len(mails)
        BY <1>3
      <4>2. Outside \in Ids /\ Bare(mails[i].id) \in Ids
        BY <1>3, ConversationBounds
      <4>3. \A j \in 1..i : Bare(mails[j].id) \in Ids
        BY <1>3, <4>1
      <4>4. ASSUME NEW x \in Named(i)
            PROVE  x = Bare(mails[i].id) \/ x = Outside \/ \E j \in 1..i : x = Bare(mails[j].id)
        BY DEF Named
      <4> QED BY <4>2, <4>3, <4>4
    <3>4. r \in Seq(Ids)
      <4>1. r = <<>> \/ \E x \in Named(i) : r = <<x>>
        OBVIOUS
      <4>2. ASSUME NEW x \in Ids PROVE <<x>> \in Seq(Ids)
        OBVIOUS
      <4>3. <<>> \in Seq(Ids)
        OBVIOUS
      <4> QED BY <3>3, <4>1, <4>2, <4>3, Zenon
    <3>5. ASSUME Starts(i), mails[i].id.form = "bare"
          PROVE  ThreadFor(r, Bare(mails[i].id), NoId) = ThreadKey(i)
      <4>1. Bare(mails[i].id) = mails[i].id
        BY <1>3, <3>5, ConversationBounds
      <4>2. \A x \in Named(i) : x = mails[i].id
        BY <3>5, <4>1 DEF Named
      <4>3. r = <<>> \/ (r # <<>> /\ Head(r) = mails[i].id)
        BY <4>2
      <4>4. ThreadKey(i) = mails[i].id
        BY <1>3, <3>5 DEF ThreadsAreNamed, ThreadFor, ThreadKey, Starts
      <4> QED BY <3>2, <4>1, <4>3, <4>4 DEF ThreadFor
    <3>6. Follows(FALSE, r, Bare(mails[i].id), i)
      BY <3>2, <3>5 DEF Follows
    <3> QED BY <3>1, <3>2, <3>4, <3>6
  <2>4. \/ h = [refs |-> <<>>, answers |-> NoId, cause |-> NoCause]
        \/ h = [refs |-> <<Outside>>, answers |-> Outside, cause |-> NoCause]
        \/ \E i \in 1..Len(mails) : \E r \in {<<>>} \cup {<<x>> : x \in Named(i)} :
             h = [refs |-> r, answers |-> Bare(mails[i].id), cause |-> i]
    BY DEF AnswerHeaders, Answerable
  <2> QED BY <1>3, <2>1, <2>2, <2>3, <2>4
<1>5. UNCHANGED <<blocked, posting, envelopes, edits>> /\ Len(mails) < MaxMails
  BY DEF MailArrives
<1>6. <<>> \in Seq(MailAddresses)
  OBVIOUS
<1>7. /\ MailShape' /\ ThreadsAreNamed' /\ AnswersFollow' /\ PostingChecked'
      /\ \A e \in envelopes : EnvelopeNamesItsRow(e)'
  <2> DEFINE d == "inbound"
             refs == h.refs
             a == h.answers
             c == h.cause
             f == m.from
             to == m.to
             cc == m.cc
             bcc == <<>>
  <2>1. /\ d \in {"inbound", "outbound"} /\ f \in MailAddresses /\ to \in Seq(MailAddresses)
        /\ cc \in Seq(MailAddresses) /\ bcc \in Seq(MailAddresses)
        /\ refs \in Seq(Ids) /\ a \in Ids \cup {NoId} /\ c \in 0..MaxMails
        /\ c # NoCause => c \in 1..Len(mails) /\ Follows(d = "outbound", refs, a, c)
        /\ mails' = Append(mails, MailRow(d, NewId(form), f, to, cc, bcc, refs, a,
                                          ThreadFor(refs, a, NewId(form)), c))
    <3>1. (d = "outbound") = FALSE
      OBVIOUS
    <3> HIDE DEF d
    <3> QED BY <1>1, <1>2, <1>4, <1>6, <3>1 DEF d
  <2> HIDE DEF d, refs, a, c, f, to, cc, bcc
  <2> QED BY <1>5, <2>1, RowAdded, ZenonT(60)
<1> QED BY <1>5, <1>7 DEF ConversationInv, EnvelopesNameTheirRow

\* Whatever is posted, when the checks are over no one on the list is among its recipients.
LEMMA PostKeeps ==
    ASSUME ConversationInv, NEW to \in Seq(MailAddresses), NEW cc \in Seq(MailAddresses),
           NEW bcc \in Seq(MailAddresses), NEW refs \in Seq(Ids), NEW a \in Ids \cup {NoId},
           NEW h \in Headers, NEW c \in 0..MaxMails,
           c # NoCause => c \in 1..Len(mails) /\ Follows(TRUE, refs, a, c),
           SendOut(Body(to, cc, bcc, refs, a, h, c))
    PROVE  ConversationInv'
<1> DEFINE b == Body(to, cc, bcc, refs, a, h, c)
<1>1. /\ b.to = to /\ b.cc = cc /\ b.bcc = bcc /\ b.refs = refs /\ b.answers = a /\ b.header = h
      /\ b.cause = c
  BY DEF Body
<1> HIDE DEF b
<1>2. posting' = [body |-> b, blocked |-> blocked] /\ ShapeOk(b) /\ PolicyOk(b)
      /\ UNCHANGED <<mails, blocked, envelopes, edits>>
  BY DEF SendOut, b
<1>3. h = NoHeader
  <2>1. h.kind = "custom"
    BY <1>1, <1>2 DEF ShapeOk, HeaderAllowed
  <2> QED BY <2>1 DEF Headers
<1>4. /\ MailShape /\ ThreadsAreNamed /\ AnswersFollow /\ EnvelopesNameTheirRow
      /\ blocked \in SUBSET MailAddresses
  BY DEF ConversationInv, MailShape
<1>5. MailShape' /\ ThreadsAreNamed'
  BY <1>2, <1>4 DEF MailShape, ThreadsAreNamed, ThreadFor
<1>6. AnswersFollow' /\ EnvelopesNameTheirRow'
  BY <1>2, <1>4 DEF AnswersFollow, Follows, Starts, Sent, CutShort, ThreadKey, ThreadFor,
       EnvelopesNameTheirRow, EnvelopeNamesItsRow, Lowered
<1>7. PostingChecked'
  <2>1. posting'.body = b /\ posting'.blocked = blocked
    BY <1>2
  <2>2. c # NoCause => /\ c \in 1..Len(mails')
                       /\ Follows(TRUE, posting.body.refs, posting.body.answers, posting.body.cause)'
    <3>1. c # NoCause => c \in 1..Len(mails) /\ Follows(TRUE, refs, a, c)
      OBVIOUS
    <3> QED BY <1>1, <1>2, <2>1, <3>1 DEF Follows, Starts, CutShort, ThreadKey, ThreadFor
  <2>3. Lowered(Recipients(b)) \cap blocked = {}
    BY <1>2 DEF PolicyOk
  <2>4. (Lowered(Recipients(posting.body)) \cap posting.blocked = {})'
    BY <2>1, <2>3 DEF Lowered, Recipients
  <2>5. (posting.body.header = NoHeader)'
    BY <1>1, <1>3, <2>1 DEF NoHeader
  <2> QED BY <1>1, <1>4, <2>1, <2>2, <2>4, <2>5 DEF PostingChecked
<1> QED BY <1>5, <1>6, <1>7 DEF ConversationInv

LEMMA HandedKeeps == ASSUME ConversationInv, Handed PROVE ConversationInv'
<1>1. PICK isLocal \in BOOLEAN, form \in {"bare", "angle"} :
        /\ mails' = Append(mails, MailRow("outbound", NewId(form), OwnAddress, posting.body.to,
                              posting.body.cc, posting.body.bcc, posting.body.refs,
                              posting.body.answers,
                              ThreadFor(posting.body.refs, posting.body.answers, NewId(form)),
                              posting.body.cause))
        /\ envelopes' = envelopes \cup {[mail |-> Len(mails) + 1,
              to |-> RelayTakes(posting.body, isLocal), checked |-> posting.blocked]}
  <2>1. \A form \in {"bare", "angle"} : NewId(form).of = Len(mails) + 1
    BY DEF NewId
  <2> QED BY <2>1 DEF Handed
<1>2. /\ posting # Nothing_cv /\ posting' = Nothing_cv /\ Len(mails) < MaxMails
      /\ UNCHANGED <<blocked, edits>>
  BY DEF Handed
<1> DEFINE to == posting.body.to
           cc == posting.body.cc
           bcc == posting.body.bcc
           row == mails'[Len(mails) + 1]
<1>3. /\ posting.blocked \in SUBSET MailAddresses /\ posting.body.header = NoHeader
      /\ to \in Seq(MailAddresses) /\ cc \in Seq(MailAddresses) /\ bcc \in Seq(MailAddresses)
      /\ posting.body.refs \in Seq(Ids) /\ posting.body.answers \in Ids \cup {NoId}
      /\ Lowered(Recipients(posting.body)) \cap posting.blocked = {}
      /\ posting.body.cause # NoCause =>
            /\ posting.body.cause \in 1..Len(mails)
            /\ Follows(TRUE, posting.body.refs, posting.body.answers, posting.body.cause)
  BY <1>2 DEF ConversationInv, PostingChecked
<1>4. posting.body.cause \in 0..MaxMails
  <2>1. 1..Len(mails) \subseteq 0..MaxMails /\ NoCause \in 0..MaxMails
    BY ConversationBounds DEF ConversationInv, MailShape, NoCause
  <2> QED BY <1>3, <2>1
<1>5. OwnAddress \in MailAddresses
  BY ConversationAssumption
<1>6. /\ MailShape' /\ ThreadsAreNamed' /\ AnswersFollow'
      /\ \A x \in envelopes : EnvelopeNamesItsRow(x)'
      /\ Len(mails) + 1 \in 1..Len(mails')
      /\ row.to = to /\ row.cc = cc /\ row.bcc = bcc
  <2> DEFINE refs == posting.body.refs
             a == posting.body.answers
             c == posting.body.cause
             d == "outbound"
             thread == ThreadFor(refs, a, NewId(form))
             new == MailRow(d, NewId(form), OwnAddress, to, cc, bcc, refs, a, thread, c)
  <2>1. /\ d \in {"inbound", "outbound"} /\ to \in Seq(MailAddresses)
        /\ cc \in Seq(MailAddresses) /\ bcc \in Seq(MailAddresses)
        /\ refs \in Seq(Ids) /\ a \in Ids \cup {NoId} /\ c \in 0..MaxMails
        /\ c # NoCause => c \in 1..Len(mails) /\ Follows(d = "outbound", refs, a, c)
        /\ mails' = Append(mails, new)
    <3>1. (d = "outbound") = TRUE
      OBVIOUS
    <3> HIDE DEF d
    <3> QED BY <1>1, <1>3, <1>4, <3>1 DEF d
  <2> HIDE DEF d, to, cc, bcc, refs, a, c
  <2>2. /\ MailShape' /\ ThreadsAreNamed' /\ AnswersFollow'
        /\ posting' = posting => PostingChecked'
        /\ \A e \in envelopes : EnvelopeNamesItsRow(e)'
        /\ Len(mails) + 1 \in 1..Len(mails')
        /\ mails'[Len(mails) + 1].to = to /\ mails'[Len(mails) + 1].cc = cc
        /\ mails'[Len(mails) + 1].bcc = bcc
    BY <1>2, <1>5, <2>1, RowAdded, ZenonT(60)
  <2> QED BY <2>2
<1> PICK e : e = [mail |-> Len(mails) + 1, to |-> RelayTakes(posting.body, isLocal),
                  checked |-> posting.blocked]
  OBVIOUS
<1>7. EnvelopeNamesItsRow(e)'
  <2>1. RelayTakes(posting.body, isLocal) = ToSet(Recipients(posting.body))
    <3>1. ToSet(posting.body.header.adds) = {}
      BY <1>3 DEF NoHeader, ToSet
    <3> QED BY <3>1 DEF RelayTakes
  <2>2. Recipients(posting.body) = row.to \o row.cc \o row.bcc
    BY <1>6 DEF Recipients
  <2>3. Lowered(row.to \o row.cc \o row.bcc) \cap posting.blocked = {}
    BY <1>3, <2>2
  <2>4. RelayTakes(posting.body, isLocal) = ToSet(row.to \o row.cc \o row.bcc)
    BY <2>1, <2>2
  <2> DEFINE E(x) == /\ x.mail \in 1..Len(mails') /\ x.checked \in SUBSET MailAddresses
                     /\ x.to = ToSet(mails'[x.mail].to \o mails'[x.mail].cc \o mails'[x.mail].bcc)
                     /\ Lowered(mails'[x.mail].to \o mails'[x.mail].cc \o mails'[x.mail].bcc)
                          \cap x.checked = {}
  <2>5. e.mail = Len(mails) + 1 /\ e.to = RelayTakes(posting.body, isLocal)
        /\ e.checked = posting.blocked
    OBVIOUS
  <2>6. E(e)
    BY <1>3, <1>6, <2>3, <2>4, <2>5
  <2>7. \A x : E(x) => EnvelopeNamesItsRow(x)'
    BY DEF EnvelopeNamesItsRow, Lowered
  <2> HIDE DEF E
  <2> QED BY <2>6, <2>7
<1>8. EnvelopesNameTheirRow'
  BY <1>1, <1>6, <1>7 DEF EnvelopesNameTheirRow
<1>9. PostingChecked'
  BY <1>2 DEF PostingChecked, Nothing_cv
<1> QED BY <1>6, <1>8, <1>9 DEF ConversationInv

\* Trash and delete change nothing else of a mail.
LEMMA MarkKeeps ==
    ASSUME ConversationInv, NEW i \in Live_cv, TrashMail(i) \/ DeleteMail(i)
    PROVE  ConversationInv'
<1>1. MailShape /\ mails \in Seq(MailRows) /\ Len(mails) \in Nat /\ i \in 1..Len(mails)
      /\ Len(mails) <= MaxMails /\ blocked \in SUBSET MailAddresses /\ edits \in 0..MaxEdits
  BY DEF ConversationInv, MailShape, Live_cv
<1>2. mails[i] \in MailRows
  BY <1>1
<1>3. PICK row : /\ row = [mails[i] EXCEPT !.trash = TRUE] \/ row = [mails[i] EXCEPT !.gone = TRUE]
                 /\ mails' = [mails EXCEPT ![i] = row] /\ edits < MaxEdits /\ edits' = edits + 1
                 /\ UNCHANGED <<blocked, posting, envelopes>>
  BY DEF TrashMail, DeleteMail, Mark, Edited
<1>4. /\ row \in MailRows /\ row.direction = mails[i].direction /\ row.id = mails[i].id /\ row.to = mails[i].to /\ row.cc = mails[i].cc /\ row.bcc = mails[i].bcc
      /\ row.refs = mails[i].refs /\ row.answers = mails[i].answers
      /\ row.thread = mails[i].thread /\ row.cause = mails[i].cause
  <2> DEFINE old == mails[i]
  <2>1. old \in MailRows
    BY <1>2
  <2> HIDE DEF old
  <2>2. row = [old EXCEPT !.trash = TRUE] \/ row = [old EXCEPT !.gone = TRUE]
    BY <1>3 DEF old
  <2>3. row \in MailRows
    BY <2>1, <2>2, Zenon DEF MailRows
  <2>4. /\ row.direction = old.direction /\ row.id = old.id /\ row.to = old.to /\ row.cc = old.cc /\ row.bcc = old.bcc /\ row.refs = old.refs
        /\ row.answers = old.answers /\ row.thread = old.thread /\ row.cause = old.cause
    BY <2>1, <2>2 DEF MailRows
  <2> QED BY <2>3, <2>4 DEF old
<1>5. mails' \in Seq(MailRows) /\ Len(mails') = Len(mails)
      /\ \A j \in 1..Len(mails) : mails'[j] = IF j = i THEN row ELSE mails[j]
  BY <1>1, <1>3, <1>4
<1>6. /\ Len(mails') <= MaxMails /\ Len(mails) <= Len(mails')
      /\ blocked' \in SUBSET MailAddresses /\ edits' \in 0..MaxEdits
  BY <1>1, <1>3, <1>5, ConversationAssumption
<1>7. \A j \in 1..Len(mails) :
         /\ mails'[j].direction = mails[j].direction /\ mails'[j].id = mails[j].id
         /\ mails'[j].to = mails[j].to /\ mails'[j].cc = mails[j].cc
         /\ mails'[j].bcc = mails[j].bcc /\ mails'[j].refs = mails[j].refs
         /\ mails'[j].answers = mails[j].answers /\ mails'[j].thread = mails[j].thread
         /\ mails'[j].cause = mails[j].cause
  BY <1>4, <1>5
<1>8. \A j \in 1..Len(mails') : j \in 1..Len(mails)
  BY <1>5
<1>9. /\ MailShape' /\ ThreadsAreNamed' /\ AnswersFollow'
      /\ posting' = posting => PostingChecked'
      /\ \A e \in envelopes : EnvelopeNamesItsRow(e)'
  BY <1>5, <1>6, <1>7, <1>8, HeadersKept
<1> QED BY <1>3, <1>9 DEF ConversationInv, EnvelopesNameTheirRow

\* The requests: what each posts is of the right kind and follows what it answers.
LEMMA RequestKeeps ==
    ASSUME ConversationInv, NEW i \in Live_cv, NEW askedFor \in Asked, NEW h \in Headers,
           Reply(i, askedFor, <<>>, h) \/ ReplyAll(i, askedFor) \/ Forward_cv(i, askedFor)
    PROVE  ConversationInv'
<1>1. /\ MailShape /\ ThreadsAreNamed /\ i \in 1..Len(mails) /\ mails[i] \in MailRows
      /\ askedFor \in Seq(MailAddresses) /\ NoHeader \in Headers /\ i \in 0..MaxMails
      /\ NoCause \in 0..MaxMails
  BY AddressesAssumption, ConversationBounds DEF ConversationInv, MailShape, Live_cv, Headers, NoCause
<1>2. /\ <<mails[i].from>> \in Seq(MailAddresses) /\ mails[i].to \in Seq(MailAddresses)
      /\ mails[i].cc \in Seq(MailAddresses) /\ <<>> \in Seq(MailAddresses) /\ <<>> \in Seq(Ids)
  BY <1>1 DEF MailRows
<1> DEFINE refs == Append(mails[i].refs, mails[i].id)
           own == mails[i].id
<1>3. refs \in Seq(Ids) /\ own \in Ids /\ Follows(TRUE, refs, own, i)
  BY <1>1, AnswerFollows
<1>4. ASSUME NEW to \in Seq(MailAddresses), NEW g \in Headers, SendOut(ReplyBody(i, to, <<>>, g))
      PROVE  ConversationInv'
  <2>1. SendOut(Body(to, <<>>, <<>>, refs, own, g, i))
    BY <1>4 DEF ReplyBody
  <2> HIDE DEF refs, own
  <2> QED BY <1>1, <1>2, <1>3, <2>1, PostKeeps
<1>5. CASE Reply(i, askedFor, <<>>, h)
  <2>1. SendOut(ReplyBody(i, IF askedFor = <<>> THEN <<mails[i].from>> ELSE askedFor, <<>>, h))
    BY <1>5 DEF Reply
  <2>2. (IF askedFor = <<>> THEN <<mails[i].from>> ELSE askedFor) \in Seq(MailAddresses)
    BY <1>1, <1>2
  <2> QED BY <1>4, <2>1, <2>2
<1>6. CASE ReplyAll(i, askedFor)
  <2>1. PICK known \in BOOLEAN :
          SendOut(ReplyBody(i, IF askedFor = <<>> THEN AllOf(i, known) ELSE askedFor, <<>>, NoHeader))
    BY <1>6 DEF ReplyAll
  <2>2. AllOf(i, known) \in Seq(MailAddresses)
    <3> DEFINE s == <<mails[i].from>> \o mails[i].to \o mails[i].cc
               K == {a \in MailAddresses : known => LowerOf[a] # LowerOf[OwnAddress]}
    <3>1. s \in Seq(MailAddresses)
      BY <1>2, ConcatProperties
    <3> HIDE DEF s
    <3>2. Selected(s, K) \in Seq(MailAddresses \cap K) /\ MailAddresses \cap K \subseteq MailAddresses
      BY <3>1, SelectedIsList
    <3>3. Selected(s, K) \in Seq(MailAddresses)
      BY <3>2, SeqMonotonic
    <3> QED BY <3>3 DEF AllOf, s
  <2>3. (IF askedFor = <<>> THEN AllOf(i, known) ELSE askedFor) \in Seq(MailAddresses)
    BY <1>1, <2>2
  <2> QED BY <1>1, <1>4, <2>1, <2>3
<1>7. CASE Forward_cv(i, askedFor)
  <2>1. SendOut(Body(askedFor, <<>>, <<>>, <<>>, NoId, NoHeader, NoCause))
    BY <1>7 DEF Forward_cv
  <2> QED BY <1>1, <1>2, <2>1, PostKeeps
<1> QED BY <1>5, <1>6, <1>7

LEMMA SendKeeps ==
    ASSUME ConversationInv, NEW to \in Asked, NEW bcc \in Asked, NEW h \in Headers,
           Send_cv(to, bcc, h) \/ SendDraft(to)
    PROVE  ConversationInv'
<1>1. /\ MailShape /\ ThreadsAreNamed /\ to \in Seq(MailAddresses) /\ bcc \in Seq(MailAddresses)
      /\ <<>> \in Seq(MailAddresses) /\ <<>> \in Seq(Ids) /\ NoHeader \in Headers
      /\ NoCause \in 0..MaxMails
  BY AddressesAssumption, ConversationBounds DEF ConversationInv, Headers, NoCause
<1>2. ASSUME NEW i \in Live_cv
      PROVE  /\ mails[i].id \in Ids /\ i \in 1..Len(mails) /\ i \in 0..MaxMails
             /\ Referring(i) \in Seq(Ids) /\ Follows(TRUE, Referring(i), mails[i].id, i)
  <2>1. i \in 1..Len(mails)
    BY DEF Live_cv
  <2>2. i \in 0..MaxMails
    BY <1>1, <2>1, ConversationBounds DEF MailShape
  <2> QED BY <1>1, <2>1, <2>2, AnswerFollows
<1>3. CASE SendOut(Body(to, <<>>, bcc, <<>>, NoId, h, NoCause))
  BY <1>1, <1>3, PostKeeps
<1>4. ASSUME NEW i \in Live_cv, SendOut(Body(to, <<>>, bcc, <<>>, mails[i].id, h, i))
      PROVE  ConversationInv'
  <2> DEFINE own == mails[i].id
             none == <<>>
  <2>1. own # NoId /\ own \in Ids /\ none \in Seq(Ids) /\ none = <<>>
    BY <1>1, <1>2, ConversationBounds
  <2>2. Starts(i) => ThreadKey(i) = own
    BY <1>1, <1>2 DEF ThreadsAreNamed, ThreadFor, ThreadKey, Starts
  <2>3. SendOut(Body(to, <<>>, bcc, none, own, h, i))
    BY <1>4
  <2> HIDE DEF own, none
  <2>4. Follows(TRUE, none, own, i)
    BY <2>1, <2>2 DEF Follows, ThreadFor
  <2> QED BY <1>1, <1>2, <2>1, <2>3, <2>4, PostKeeps
<1>5. ASSUME NEW i \in Live_cv, SendOut(Body(to, <<>>, bcc, Referring(i), mails[i].id, h, i))
      PROVE  ConversationInv'
  <2> DEFINE own == mails[i].id
             refs == Referring(i)
  <2>1. own \in Ids /\ refs \in Seq(Ids) /\ Follows(TRUE, refs, own, i)
        /\ SendOut(Body(to, <<>>, bcc, refs, own, h, i))
    BY <1>2, <1>5
  <2> HIDE DEF own, refs
  <2> QED BY <1>1, <1>2, <2>1, PostKeeps
<1>6. CASE SendDraft(to)
  <2>1. SendOut(Body(to, <<>>, <<>>, <<>>, NoId, NoHeader, NoCause))
    BY <1>6 DEF SendDraft
  <2> QED BY <1>1, <2>1, PostKeeps
<1> QED BY <1>3, <1>4, <1>5, <1>6 DEF Send_cv

LEMMA RestKeeps ==
    ASSUME ConversationInv,
           NotHanded \/ (\E b \in SUBSET Blockable : ChangeBlocks(b)) \/ UNCHANGED conversationVars
    PROVE  ConversationInv'
<1>1. /\ MailShape /\ ThreadsAreNamed /\ AnswersFollow /\ PostingChecked /\ EnvelopesNameTheirRow
      /\ edits \in 0..MaxEdits /\ blocked \in SUBSET MailAddresses /\ mails \in Seq(MailRows)
      /\ Len(mails) \in Nat /\ Len(mails) <= MaxMails
  BY DEF ConversationInv, MailShape
<1>2. /\ UNCHANGED <<mails, envelopes>> /\ (posting' = posting \/ posting' = Nothing_cv)
      /\ blocked' \in SUBSET MailAddresses /\ edits' \in 0..MaxEdits
  BY <1>1, AddressesAssumption, ConversationAssumption
     DEF NotHanded, ChangeBlocks, Edited, conversationVars
<1>3. mails' = mails
  BY <1>2
<1>4. mails' \in Seq(MailRows) /\ Len(mails') <= MaxMails /\ Len(mails) <= Len(mails')
  BY <1>1, <1>2
<1>5. /\ MailShape' /\ ThreadsAreNamed' /\ AnswersFollow'
      /\ posting' = posting => PostingChecked'
      /\ \A e \in envelopes : EnvelopeNamesItsRow(e)'
  BY <1>2, <1>3, <1>4, HeadersKept
<1>6. posting' = Nothing_cv => PostingChecked'
  BY DEF PostingChecked, Nothing_cv
<1> QED BY <1>2, <1>5, <1>6 DEF ConversationInv, EnvelopesNameTheirRow

LEMMA ConversationStep == ConversationInv /\ [ConversationNext]_conversationVars => ConversationInv'
<1> SUFFICES ASSUME ConversationInv, [ConversationNext]_conversationVars PROVE ConversationInv'
  OBVIOUS
<1>1. ASSUME NEW m \in Arrivals, MailArrives(m) PROVE ConversationInv'
  BY <1>1, ArrivalKeeps
<1>2. ASSUME NEW i \in Live_cv, NEW askedFor \in Asked, NEW h \in Headers,
             Reply(i, askedFor, <<>>, h) \/ ReplyAll(i, askedFor) \/ Forward_cv(i, askedFor)
      PROVE  ConversationInv'
  BY <1>2, RequestKeeps
<1>3. ASSUME NEW i \in Live_cv, TrashMail(i) \/ DeleteMail(i) PROVE ConversationInv'
  BY <1>3, MarkKeeps
<1>4. ASSUME NEW to \in Asked, NEW bcc \in Asked, NEW h \in Headers,
             Send_cv(to, bcc, h) \/ SendDraft(to)
      PROVE  ConversationInv'
  BY <1>4, SendKeeps
<1>5. CASE Handed
  BY <1>5, HandedKeeps
<1>6. NoHeader \in Headers
  BY DEF Headers
<1> QED BY <1>1, <1>2, <1>3, <1>4, <1>5, <1>6, RestKeeps DEF ConversationNext

\* Every variable of Conversations keeps its type.
THEOREM ConversationTypeCorrect == ConversationSpec => []ConversationTypeOK
<1>1. ConversationSpec => []ConversationInv
  BY InitConversation, ConversationStep, PTL DEF ConversationSpec
<1> QED BY <1>1, ConversationInvTyped, PTL

\* What the inbox answers, and whoever answers the first mail of a conversation, stays
\* in its thread as far as the ids are stored as they are read; a sent mail's row names
\* everyone it went to and nobody on the block list; and the lists of threads open.
THEOREM ConversationsAlwaysHold == ConversationSpec => []ConversationsHold
<1>1. ConversationSpec => []ConversationInv
  BY InitConversation, ConversationStep, PTL DEF ConversationSpec
<1>2. ConversationInv => ConversationsHold
  BY OneThread, SentIsStored, ListsOpen DEF ConversationsHold
<1> QED BY <1>1, <1>2, PTL

(*****************************************************************************)
(* SearchScan: slices of a list of rows.                                     *)
(*****************************************************************************)

LEMMA MinOfTwo ==
    ASSUME NEW a \in Nat, NEW b \in Nat
    PROVE  Min({a, b}) = IF a <= b THEN a ELSE b
<1> DEFINE m == IF a <= b THEN a ELSE b
<1>1. m \in {a, b} /\ \A y \in {a, b} : m <= y
  OBVIOUS
<1>2. \A x \in {a, b} : (\A y \in {a, b} : x <= y) => x = m
  OBVIOUS
<1> HIDE DEF m
<1>3. Min({a, b}) = m
  BY <1>1, <1>2 DEF Min
<1> QED BY <1>3 DEF m

\* What the first count rows of a list are.
LEMMA FirstSlice ==
    ASSUME NEW V, NEW s \in Seq(V), NEW n \in Nat \ {0}
    PROVE  Slice(s, 1, n) = SubSeq(s, 1, IF n <= Len(s) THEN n ELSE Len(s))
<1>1. Len(s) \in Nat /\ 1 + n - 1 = n
  OBVIOUS
<1>2. Min({n, Len(s)}) = IF n <= Len(s) THEN n ELSE Len(s)
  BY <1>1, MinOfTwo
<1> QED BY <1>1, <1>2 DEF Slice

LEMMA FirstSliceTyped ==
    ASSUME NEW V, NEW s \in Seq(V), NEW n \in Nat \ {0}
    PROVE  /\ Slice(s, 1, n) \in Seq(V)
           /\ Len(Slice(s, 1, n)) = (IF n <= Len(s) THEN n ELSE Len(s))
           /\ Len(s) <= n => Slice(s, 1, n) = s
<1> DEFINE z == IF n <= Len(s) THEN n ELSE Len(s)
<1>1. Len(s) \in Nat /\ z \in 0..Len(s)
  OBVIOUS
<1>2. Slice(s, 1, n) = SubSeq(s, 1, z)
  BY FirstSlice
<1>3. SubSeq(s, 1, z) \in Seq(V) /\ Len(SubSeq(s, 1, z)) = z
  <2> HIDE DEF z
  <2> QED BY <1>1, PrefixUnfolds
<1>4. Len(s) <= n => z = Len(s)
  BY <1>1
<1>5. SubSeq(s, 1, Len(s)) = s
  BY SubSeqFull
<1> QED BY <1>2, <1>3, <1>4, <1>5

\* The batch behind the first n rows.
LEMMA BatchRows ==
    ASSUME NEW V, NEW s \in Seq(V), NEW n \in Nat
    PROVE  LET batch == Slice(s, n + 1, Batch) IN
           /\ batch \in Seq(V) /\ Len(batch) \in Nat /\ Len(batch) <= Batch
           /\ Len(batch) < Batch => Len(s) <= n + Len(batch)
           /\ \A i \in 1..Len(batch) : n + i \in 1..Len(s) /\ batch[i] = s[n + i]
           /\ n <= Len(s) => n + Len(batch) <= Len(s) /\ batch = SubSeq(s, n + 1, n + Len(batch))
<1> DEFINE z == IF n + Batch <= Len(s) THEN n + Batch ELSE Len(s)
           batch == Slice(s, n + 1, Batch)
<1>1. Len(s) \in Nat /\ Batch \in Nat \ {0} /\ z \in Nat /\ z <= Len(s)
  BY SearchBounds
<1>2. batch = SubSeq(s, n + 1, z)
  <2>1. (n + 1) + Batch - 1 = n + Batch /\ n + Batch \in Nat
    BY <1>1
  <2>2. Min({n + Batch, Len(s)}) = z
    BY <1>1, <2>1, MinOfTwo
  <2> QED BY <2>1, <2>2 DEF Slice
<1>3. \A i \in (n + 1)..z : s[i] \in V
  <2>1. ASSUME NEW i \in (n + 1)..z PROVE s[i] \in V
    <3> HIDE DEF z
    <3>1. i \in 1..Len(s)
      BY <1>1
    <3> QED BY <3>1
  <2> QED BY <2>1
<1>4. n + 1 \in Int /\ z \in Int
  BY <1>1
<1>5. /\ SubSeq(s, n + 1, z) \in Seq(V)
      /\ Len(SubSeq(s, n + 1, z)) = IF n + 1 <= z THEN z - (n + 1) + 1 ELSE 0
      /\ \A i \in 1..(z - (n + 1) + 1) : SubSeq(s, n + 1, z)[i] = s[(n + 1) + i - 1]
  <2> HIDE DEF z
  <2> QED BY <1>3, <1>4, SubSeqProperties
<1> DEFINE l == Len(batch)
<1>6. /\ batch \in Seq(V) /\ l = (IF n + 1 <= z THEN z - n ELSE 0)
      /\ \A i \in 1..(z - (n + 1) + 1) : batch[i] = s[(n + 1) + i - 1]
  <2> DEFINE y == SubSeq(s, n + 1, z)
  <2> HIDE DEF y
  <2>1. y \in Seq(V) /\ Len(y) = (IF n + 1 <= z THEN z - (n + 1) + 1 ELSE 0)
        /\ \A i \in 1..(z - (n + 1) + 1) : y[i] = s[(n + 1) + i - 1]
    BY <1>5 DEF y
  <2>2. z - (n + 1) + 1 = z - n
    BY <1>1
  <2>3. batch = y
    BY <1>2 DEF y
  <2> HIDE DEF batch, z
  <2> QED BY <2>1, <2>2, <2>3
<1> HIDE DEF l, batch
<1>7. l \in Nat /\ l <= Batch /\ (l < Batch => Len(s) <= n + l)
      /\ (n <= Len(s) => n + l <= Len(s) /\ n + l = z)
  BY <1>1, <1>6
<1>8. ASSUME NEW i \in 1..l PROVE n + i \in 1..Len(s) /\ batch[i] = s[n + i]
  <2>1. i \in 1..(z - (n + 1) + 1) /\ (n + 1) + i - 1 = n + i /\ n + i \in 1..Len(s)
    BY <1>1, <1>6, <1>7
  <2> QED BY <1>6, <2>1
<1> HIDE DEF z
<1> QED BY <1>2, <1>6, <1>7, <1>8 DEF l, batch

-----------------------------------------------------------------------------
(* Search: whole batches.                                                    *)

\* The batch that reaches the scan limit is the last one of the rounded limit.
LEMMA RoundedIs ==
    ASSUME NEW k \in Nat, k * Batch < ScanLimit
    PROVE  /\ Rounded \in Nat \ {0} /\ (k + 1) * Batch <= Rounded
           /\ ScanLimit <= (k + 1) * Batch => Rounded = (k + 1) * Batch
<1> DEFINE a == ScanLimit + Batch - 1
           q == a \div Batch
<1>1. Batch \in Nat \ {0} /\ ScanLimit \in Nat \ {0} /\ a \in Nat
  BY SearchBounds
<1>2. q \in Nat /\ q * Batch <= a /\ a < q * Batch + Batch
  <2> HIDE DEF a
  <2> QED BY <1>1, DivIs
<1>3. Rounded = q * Batch
  BY DEF Rounded
<1>4. /\ (k + 1) * Batch = k * Batch + Batch /\ k * Batch \in Nat /\ q * Batch \in Nat
      /\ (k + 1 + 1) * Batch = (k + 1) * Batch + Batch
  <2>1. k + 1 \in Nat
    OBVIOUS
  <2> HIDE DEF q
  <2> QED BY <1>1, <1>2, <2>1, MulAdd
<1> HIDE DEF q
<1>5. k + 1 <= q
  <2>1. ASSUME q <= k PROVE FALSE
    <3>1. q * Batch <= k * Batch
      BY <1>1, <1>2, <2>1, MulMono
    <3> QED BY <1>1, <1>2, <1>4, <3>1
  <2> QED BY <1>2, <2>1
<1>6. (k + 1) * Batch <= q * Batch
  BY <1>1, <1>2, <1>5, MulMono
<1>7. ASSUME ScanLimit <= (k + 1) * Batch PROVE q = k + 1
  <2>1. ASSUME k + 1 + 1 <= q PROVE FALSE
    <3>1. (k + 1 + 1) * Batch <= q * Batch
      BY <1>1, <1>2, <2>1, MulMono
    <3> DEFINE x == k * Batch
               y == q * Batch
               w == (k + 1) * Batch
    <3>2. x \in Nat /\ y \in Nat /\ w = x + Batch /\ w + Batch <= y /\ y <= ScanLimit + Batch - 1
          /\ ScanLimit <= w
      BY <1>2, <1>4, <1>7, <3>1
    <3> HIDE DEF x, y, w
    <3> QED BY <1>1, <3>2
  <2> QED BY <1>2, <1>5, <2>1
<1> DEFINE x == k * Batch
           y == q * Batch
           w == (k + 1) * Batch
<1>8. x \in Nat /\ y \in Nat /\ w = x + Batch /\ w <= y /\ Rounded = y
  BY <1>3, <1>4, <1>6
<1>9. ScanLimit <= w => y = w
  BY <1>7
<1> HIDE DEF x, y, w
<1>10. Rounded \in Nat \ {0} /\ w <= Rounded /\ (ScanLimit <= w => Rounded = w)
  BY <1>1, <1>8, <1>9
<1> QED BY <1>10 DEF w

\* What the filter keeps of two runs of rows is what it keeps of each.
LEMMA SelectsApart ==
    ASSUME NEW V, NEW u \in Seq(V), NEW v \in Seq(V)
    PROVE  Selected(u \o v, Matching) = Selected(u, Matching) \o Selected(v, Matching)
<1>1. \A a, b \in Seq(V) : \A L : Selected(a \o b, L) = Selected(a, L) \o Selected(b, L)
  BY SelectedConcat, SMTT(30)
<1> QED BY <1>1

\* What a batch is read at, and what it leaves.
BatchReads(V, s, k, n, found, batch, m, all) ==
  /\ s \in Seq(V) /\ k \in Nat /\ n \in Nat /\ n = k * Batch /\ n <= Len(s) /\ n < ScanLimit
  /\ found = Selected(SubSeq(s, 1, n), Matching)
  /\ batch = Slice(s, n + 1, Batch) /\ m = n + Len(batch)
  /\ all = found \o Selected(batch, Matching)
BatchAnswers(V, s, k, batch, m, all) ==
  /\ m \in Nat /\ m <= Len(s) /\ all \in Seq(V)
  /\ all = Selected(SubSeq(s, 1, m), Matching)
  /\ Len(batch) = Batch => m = (k + 1) * Batch
  /\ Len(batch) < Batch \/ Limit <= Len(all) \/ ScanLimit <= m =>
       Slice(all, 1, Limit) = Slice(Selected(Slice(s, 1, Rounded), Matching), 1, Limit)

\* One batch more of rows that did not change finds what one query would.
LEMMA BatchAnswered ==
    ASSUME NEW V, NEW s, NEW k, NEW n, NEW found, NEW batch, NEW m, NEW all,
           BatchReads(V, s, k, n, found, batch, m, all)
    PROVE  BatchAnswers(V, s, k, batch, m, all)
<1>0. /\ s \in Seq(V) /\ k \in Nat /\ n \in Nat /\ n = k * Batch /\ n <= Len(s) /\ n < ScanLimit
      /\ found = Selected(SubSeq(s, 1, n), Matching)
      /\ batch = Slice(s, n + 1, Batch) /\ m = n + Len(batch)
      /\ all = found \o Selected(batch, Matching)
  BY DEF BatchReads
<1> DEFINE z == IF Rounded <= Len(s) THEN Rounded ELSE Len(s)
<1>1. Batch \in Nat \ {0} /\ ScanLimit \in Nat \ {0} /\ Limit \in Nat \ {0} /\ Len(s) \in Nat
  BY <1>0, SearchBounds
<1>2. /\ batch \in Seq(V) /\ Len(batch) \in Nat /\ Len(batch) <= Batch
      /\ Len(batch) < Batch => Len(s) <= n + Len(batch)
      /\ n + Len(batch) <= Len(s) /\ batch = SubSeq(s, n + 1, n + Len(batch))
  BY <1>0, BatchRows
<1>3. m \in Nat /\ m <= Len(s) /\ n <= m
  BY <1>0, <1>1, <1>2
<1>4. Len(batch) = Batch => m = (k + 1) * Batch
  <2>1. (k + 1) * Batch = k * Batch + Batch
    BY <1>0, <1>1, MulAdd
  <2> QED BY <1>0, <2>1
<1>5. /\ Rounded \in Nat \ {0} /\ (k + 1) * Batch <= Rounded
      /\ ScanLimit <= (k + 1) * Batch => Rounded = (k + 1) * Batch
  BY <1>0, <1>1, RoundedIs
<1>6. (k + 1) * Batch = n + Batch /\ (k + 1) * Batch \in Nat
  BY <1>0, <1>1, <1>2, MulAdd
<1>7. m <= z /\ z \in Nat /\ z <= Len(s)
  <2> DEFINE w == (k + 1) * Batch
  <2> HIDE DEF w
  <2>1. w <= Rounded /\ w = n + Batch /\ Rounded \in Nat
    BY <1>5, <1>6 DEF w
  <2> QED BY <1>0, <1>1, <1>2, <1>3, <2>1
<1> HIDE DEF z
<1>8. Slice(s, 1, Rounded) = SubSeq(s, 1, z)
  BY <1>0, <1>5, FirstSlice DEF z
<1>9. SubSeq(s, 1, n) \o batch = SubSeq(s, 1, m)
  <2>1. 1 \in 1..(Len(s) + 1) /\ n \in (1 - 1)..Len(s) /\ m \in n..Len(s)
    BY <1>0, <1>1, <1>3
  <2>2. SubSeq(s, 1, n) \o SubSeq(s, n + 1, m) = SubSeq(s, 1, m)
    BY <1>0, <2>1, ConcatAdjacentSubSeq
  <2> QED BY <1>0, <1>2, <2>2
<1>10. SubSeq(s, 1, m) \o SubSeq(s, m + 1, z) = SubSeq(s, 1, z)
  <2>1. 1 \in 1..(Len(s) + 1) /\ m \in (1 - 1)..Len(s) /\ z \in m..Len(s)
    BY <1>0, <1>1, <1>3, <1>7
  <2> QED BY <1>0, <2>1, ConcatAdjacentSubSeq
<1>11. /\ SubSeq(s, 1, n) \in Seq(V) /\ SubSeq(s, 1, m) \in Seq(V)
  <2>1. n \in 0..Len(s) /\ m \in 0..Len(s)
    BY <1>0, <1>1, <1>3
  <2> QED BY <1>0, <2>1, PrefixUnfolds
<1>12. SubSeq(s, m + 1, z) \in Seq(V)
  <2>1. \A i \in (m + 1)..z : s[i] \in V
    <3>1. ASSUME NEW i \in (m + 1)..z PROVE s[i] \in V
      <4>1. i \in 1..Len(s)
        BY <1>0, <1>1, <1>3, <1>7
      <4> QED BY <1>0, <4>1, ElementOfSeq
    <3> QED BY <3>1
  <2>2. m + 1 \in Int /\ z \in Int
    BY <1>3, <1>7
  <2> QED BY <2>1, <2>2, SubSeqProperties
<1> DEFINE p == SubSeq(s, 1, n)
           t == SubSeq(s, 1, m)
           o == SubSeq(s, m + 1, z)
           rest == Selected(o, Matching)
<1>13. p \in Seq(V) /\ t \in Seq(V) /\ o \in Seq(V) /\ p \o batch = t /\ t \o o = SubSeq(s, 1, z)
       /\ found = Selected(p, Matching)
  BY <1>0, <1>9, <1>10, <1>11, <1>12
<1> HIDE DEF p, t, o
<1>14. all = Selected(t, Matching)
  <2>1. Selected(p \o batch, Matching) = Selected(p, Matching) \o Selected(batch, Matching)
    <3>1. p \in Seq(V) /\ batch \in Seq(V)
      BY <1>2, <1>13
    <3> QED BY <3>1, SelectsApart
  <2> QED BY <1>0, <1>13, <2>1
<1>15. all \in Seq(V) /\ rest \in Seq(V)
  <2>1. Selected(t, Matching) \in Seq(V) /\ Selected(o, Matching) \in Seq(V)
    BY <1>13, SelectedHolds
  <2> QED BY <1>14, <2>1
<1>17. Selected(SubSeq(s, 1, z), Matching) = all \o rest
  <2>1. Selected(t \o o, Matching) = Selected(t, Matching) \o Selected(o, Matching)
    <3>1. t \in Seq(V) /\ o \in Seq(V)
      BY <1>13
    <3> QED BY <3>1, SelectsApart
  <2> QED BY <1>13, <1>14, <2>1
<1> HIDE DEF rest
<1>16. ASSUME Len(batch) < Batch \/ Limit <= Len(all) \/ ScanLimit <= m
       PROVE  Slice(all, 1, Limit) = Slice(all \o rest, 1, Limit)
  <2>1. CASE z = m
    <3>1. SubSeq(s, m + 1, z) = <<>>
      <4>1. z < m + 1 /\ z \in Int /\ m + 1 \in Int
        BY <1>3, <1>7, <2>1
      <4> QED BY <4>1, SubSeqEmpty
    <3>2. rest = <<>>
      BY <3>1, SelectedOfNone DEF rest, o
    <3>3. all \o rest = all
      BY <1>15, <3>2, ConcatEmptySeq
    <3> QED BY <3>3
  <2>2. CASE Limit <= Len(all)
    <3>1. all \o rest \in Seq(V) /\ Limit <= Len(all \o rest) /\ Len(all) \in Nat
      <4>1. Len(all \o rest) = Len(all) + Len(rest) /\ Len(rest) \in Nat /\ Len(all) \in Nat
        BY <1>15, ConcatProperties
      <4> QED BY <1>1, <1>15, <2>2, <4>1
    <3>2. Slice(all, 1, Limit) = SubSeq(all, 1, Limit)
      BY <1>1, <1>15, <2>2, FirstSlice
    <3>3. Slice(all \o rest, 1, Limit) = SubSeq(all \o rest, 1, Limit)
      BY <1>1, <3>1, FirstSlice
    <3>4. 1 \in 1..Len(all) /\ Limit \in 1..Len(all)
      BY <1>1, <2>2, <3>1
    <3>5. SubSeq(all \o rest, 1, Limit) = SubSeq(all, 1, Limit)
      BY <1>15, <3>4, SubSeqOfConcat1
    <3> QED BY <3>2, <3>3, <3>5
  <2>3. CASE Len(batch) < Batch
    <3>1. m = Len(s)
      BY <1>0, <1>1, <1>2, <1>3, <2>3
    <3>2. z = m
      BY <1>1, <1>3, <1>7, <3>1
    <3> QED BY <2>1, <3>2
  <2>4. CASE Len(batch) = Batch /\ ScanLimit <= m
    <3>1. Rounded = m
      BY <1>4, <1>5, <2>4
    <3>2. z = m
      BY <1>1, <1>3, <3>1 DEF z
    <3> QED BY <2>1, <3>2
  <2> QED BY <1>1, <1>2, <1>16, <2>2, <2>3, <2>4
<1> QED BY <1>3, <1>4, <1>8, <1>14, <1>15, <1>16, <1>17 DEF t, BatchAnswers

-----------------------------------------------------------------------------
(* Search: the inductive invariant.                                          *)

Unlisted == Mails \ trashed
NoMoreThan(S, n) == IsFiniteSet(S) /\ Cardinality(S) <= n

\* The rows before the offset, and those of them that stayed and match but are not
\* among the rows found.
ReadRows == {x \in Mails : \E i \in 1..Len(Kept) : i <= scan.scanned /\ Kept[i] = x}
Skipped == (stayed \cap Matching \cap ReadRows) \ ToSet(scan.matched)
Missed == (stayed \cap Matching) \ ToSet(scan.matched)
Unanswered == (stayed \cap Matching \cap Opening) \ scan.result
FewMissed ==
    Len(scan.matched) < Limit =>
      /\ scan.stage = "batch" => NoMoreThan(Skipped, shifts)
      /\ scan.stage = "read" /\ scan.short => NoMoreThan(Missed, shifts)
      /\ scan.stage = "done" /\ scan.short => NoMoreThan(Unanswered, shifts)

\* What one query over the rows that a search may scan answers.
NewestMatches == Slice(Selected(Slice(Kept, 1, Rounded), Matching), 1, Limit)
\* Without a change to the table, the batches so far are one query's answer.
ExactSoFar ==
    changes = 0 =>
      /\ scan.stage = "batch" =>
           /\ \E k \in Nat : scan.scanned = k * Batch
           /\ scan.scanned <= Len(Kept) /\ scan.scanned < ScanLimit
           /\ scan.matched = Selected(SubSeq(Kept, 1, scan.scanned), Matching)
      /\ scan.stage \in {"read", "done"} => scan.matched = NewestMatches
      /\ scan.stage = "done" => scan.result = ToSet(NewestMatches) \cap Opening
SearchInv ==
    /\ SearchTypeOK /\ Unrepeated(table)
    /\ stayed \subseteq ToSet(table) \ trashed
    /\ scan.stage = "idle" => scan.scanned = 0 /\ scan.matched = <<>>
    /\ FewMissed /\ ExactSoFar

\* What holds of a count holds of a part, and of one element more.
LEMMA FewerStill ==
    ASSUME NEW S, NEW T, T \subseteq S, NEW n \in Nat, NEW k \in Nat, n <= k, NoMoreThan(S, n)
    PROVE  NoMoreThan(T, k)
<1>1. IsFiniteSet(S) /\ Cardinality(S) <= n
  BY DEF NoMoreThan
<1>2. T \in SUBSET S
  OBVIOUS
<1>3. IsFiniteSet(T) /\ Cardinality(T) <= Cardinality(S)
  BY <1>1, <1>2, FS_Subset
<1>4. Cardinality(T) \in Nat /\ Cardinality(S) \in Nat
  BY <1>1, <1>3, FS_CardinalityType
<1>5. Cardinality(T) <= k
  BY <1>1, <1>3, <1>4
<1> QED BY <1>3, <1>5 DEF NoMoreThan

LEMMA OneMore ==
    ASSUME NEW S, NEW T, NEW y, T \subseteq S \cup {y}, NEW n \in Nat, NoMoreThan(S, n)
    PROVE  NoMoreThan(T, n + 1)
<1>1. IsFiniteSet(S) /\ Cardinality(S) <= n
  BY DEF NoMoreThan
<1>2. /\ IsFiniteSet(S \cup {y})
      /\ Cardinality(S \cup {y}) = IF y \in S THEN Cardinality(S) ELSE Cardinality(S) + 1
  BY <1>1, FS_AddElement
<1>3. Cardinality(S) \in Nat
  BY <1>1, FS_CardinalityType
<1>4. Cardinality(S \cup {y}) <= n + 1
  BY <1>1, <1>2, <1>3
<1>5. NoMoreThan(S \cup {y}, n + 1)
  BY <1>2, <1>4 DEF NoMoreThan
<1> QED BY <1>5, FewerStill

LEMMA ToSetIs ==
    ASSUME NEW V, NEW s \in Seq(V)
    PROVE  \A x : x \in ToSet(s) <=> \E i \in 1..Len(s) : s[i] = x
<1>1. DOMAIN s = 1..Len(s)
  BY LenProperties
<1> QED BY <1>1 DEF ToSet

\* The rows that the filter keeps.
LEMMA KeptIs ==
    ASSUME NEW s \in Seq(Mails), NEW K
    PROVE  /\ Selected(s, K) \in Seq(Mails) /\ ToSet(Selected(s, K)) = ToSet(s) \cap K
           /\ \A i \in 1..Len(Selected(s, K)) : Selected(s, K)[i] \in ToSet(s) \cap K
<1>1. /\ Selected(s, K) \in Seq(Mails)
      /\ \A n \in 1..Len(Selected(s, K)) :
           Selected(s, K)[n] \in K /\ \E i \in 1..Len(s) : s[i] = Selected(s, K)[n]
      /\ \A i \in 1..Len(s) : s[i] \in K =>
            \E n \in 1..Len(Selected(s, K)) : Selected(s, K)[n] = s[i]
  <2>1. /\ Selected(s, K) \in Seq(Mails) /\ Selected(s, K) \in Seq(Mails \cap K)
        /\ \A n \in 1..Len(Selected(s, K)) :
             Selected(s, K)[n] \in K /\ \E i \in 1..Len(s) : s[i] = Selected(s, K)[n]
        /\ \A i \in 1..Len(s) : s[i] \in K =>
              \E n \in 1..Len(Selected(s, K)) : Selected(s, K)[n] = s[i]
    BY SelectedHolds
  <2> QED BY <2>1
<1> DEFINE t == Selected(s, K)
<1>2. (\A x : x \in ToSet(s) <=> \E i \in 1..Len(s) : s[i] = x)
      /\ \A x : x \in ToSet(t) <=> \E i \in 1..Len(t) : t[i] = x
  BY <1>1, ToSetIs
<1> HIDE DEF t
<1>3. ToSet(t) = ToSet(s) \cap K
  <2>1. ASSUME NEW x \in ToSet(t) PROVE x \in ToSet(s) \cap K
    BY <1>1, <1>2 DEF t
  <2>2. ASSUME NEW x \in ToSet(s) \cap K PROVE x \in ToSet(t)
    BY <1>1, <1>2 DEF t
  <2> QED BY <2>1, <2>2
<1>4. \A i \in 1..Len(t) : t[i] \in ToSet(t)
  BY <1>2
<1> QED BY <1>1, <1>3, <1>4 DEF t

LEMMA SearchFacts ==
    ASSUME SearchTypeOK
    PROVE  /\ table \in Seq(Mails) /\ trashed \subseteq Mails /\ stayed \subseteq Mails
           /\ ToSet(table) \subseteq Mails
           /\ Kept \in Seq(Mails) /\ Kept = Selected(table, Unlisted)
           /\ ToSet(Kept) = ToSet(table) \ trashed
           /\ scan \in Scan /\ scan.scanned \in Nat /\ scan.matched \in Seq(Mails)
           /\ scan.short \in BOOLEAN /\ Len(scan.matched) \in Nat /\ Len(Kept) \in Nat
           /\ shifts \in Nat
           /\ scan.stage \in {"idle", "batch", "read", "done"}
<1>1. table \in Seq(Mails) /\ trashed \subseteq Mails /\ stayed \subseteq Mails /\ scan \in Scan
      /\ shifts \in Nat
  BY DEF SearchTypeOK
<1>2. ToSet(table) \subseteq Mails
  <2>1. ASSUME NEW x \in ToSet(table) PROVE x \in Mails
    <3>1. PICK i \in 1..Len(table) : table[i] = x
      BY <1>1, ToSetIs
    <3> QED BY <1>1, <3>1
  <2> QED BY <2>1
<1>3. Kept = Selected(table, Unlisted)
  BY DEF Kept, Unlisted
<1>4. Kept \in Seq(Mails) /\ ToSet(Kept) = ToSet(table) \cap Unlisted
  BY <1>1, <1>3, KeptIs
<1>5. ToSet(Kept) = ToSet(table) \ trashed
  BY <1>2, <1>4 DEF Unlisted
<1>6. /\ scan.scanned \in Nat /\ scan.matched \in Seq(Mails)
      /\ scan.short \in BOOLEAN /\ scan.stage \in {"idle", "batch", "read", "done"}
  BY <1>1 DEF Scan
<1>7. Len(scan.matched) \in Nat /\ Len(Kept) \in Nat
  BY <1>4, <1>6, LenProperties
<1> QED BY <1>1, <1>2, <1>3, <1>4, <1>5, <1>6, <1>7

\* Rows move to the back only: none but m comes to the scanned ones.
MovedBack(u, v, m) ==
    \A i \in 1..Len(v) : v[i] = m \/ \E j \in 1..Len(u) : j <= i /\ u[j] = v[i]

\* Rows that move to the back bring none but m before the offset.
LEMMA BackIsRead ==
    ASSUME SearchTypeOK, SearchTypeOK', UNCHANGED scan, NEW m, MovedBack(Kept, Kept', m),
           stayed' \subseteq stayed, m \notin stayed'
    PROVE  Skipped' \subseteq Skipped
<1>1. scan.scanned \in Nat /\ Len(Kept) \in Nat /\ Len(Kept') \in Nat /\ scan' = scan
  BY SearchFacts
<1>2. ASSUME NEW x \in Skipped' PROVE x \in Skipped
  <2>1. x \in stayed' /\ x \in Matching /\ x \in Mails /\ x \notin ToSet(scan.matched)
        /\ \E i \in 1..Len(Kept') : i <= scan.scanned /\ Kept'[i] = x
    BY <1>1, <1>2 DEF Skipped, ReadRows
  <2>2. PICK i \in 1..Len(Kept') : i <= scan.scanned /\ Kept'[i] = x
    BY <2>1
  <2>3. PICK j \in 1..Len(Kept) : j <= i /\ Kept[j] = x
    BY <2>1, <2>2 DEF MovedBack
  <2>4. j <= scan.scanned
    BY <1>1, <2>2, <2>3
  <2>5. x \in ReadRows
    BY <2>1, <2>3, <2>4 DEF ReadRows
  <2> QED BY <2>1, <2>5 DEF Skipped
<1> QED BY <1>2

\* A row that leaves the filter brings at most one row before the offset unread, and
\* only if it was before the offset itself.
LEMMA OneComesUnread ==
    ASSUME SearchTypeOK, SearchTypeOK', Unrepeated(table), UNCHANGED scan, NEW m \in ToSet(Kept),
           Kept' = Selected(Kept, Mails \ {m}), stayed' \subseteq stayed, shifts' = ShiftsWithout(m)
    PROVE  \/ Skipped' \subseteq Skipped
           \/ shifts' = shifts + 1 /\ \E y : Skipped' \subseteq Skipped \cup {y}
<1> DEFINE k == scan.scanned
           y == Kept[k + 1]
           u == Kept
           v == Kept'
<1>1. /\ k \in Nat /\ Len(u) \in Nat /\ Len(v) \in Nat /\ scan' = scan
      /\ u \in Seq(Mails) /\ v = Selected(u, Mails \ {m})
  BY SearchFacts
<1>2. Unrepeated(u)
  BY SearchFacts, SelectedUnrepeated
<1>3. ASSUME NEW x \in Skipped'
      PROVE  /\ x \in stayed /\ x \in Matching /\ x \in Mails /\ x \notin ToSet(scan.matched)
             /\ \E i \in 1..Len(v) : i <= k /\ v[i] = x
  BY <1>1, <1>3 DEF Skipped, ReadRows
<1>4. ASSUME NEW x \in Mails, x \in stayed, x \in Matching, x \notin ToSet(scan.matched),
             NEW j \in 1..Len(u), j <= k, u[j] = x
      PROVE  x \in Skipped
  BY <1>4 DEF Skipped, ReadRows
<1>5. PICK p \in 1..Len(u) : u[p] = m
  BY <1>1, ToSetIs
<1> HIDE DEF k, y, u, v
<1>6. \A i \in 1..Len(v) : \E x \in 1..Len(u) : u[x] = v[i] /\ (x = i \/ (x = i + 1 /\ p <= i))
  <2>1. \A i \in 1..Len(Selected(u, Mails \ {u[p]})) :
          \E x \in 1..Len(u) : /\ u[x] = Selected(u, Mails \ {u[p]})[i]
                               /\ x = i \/ (x = i + 1 /\ p <= i)
    BY <1>1, <1>2, <1>5, SelectedWithoutOne
  <2> QED BY <1>1, <1>5, <2>1
<1>7. CASE p <= k
  <2>1. shifts' = shifts + 1
    BY <1>5, <1>7 DEF ShiftsWithout, u, k
  <2>2. ASSUME NEW x \in Skipped' PROVE x \in Skipped \cup {y}
    <3>1. PICK i \in 1..Len(v) : i <= k /\ v[i] = x
      BY <1>3, <2>2
    <3>2. PICK j \in 1..Len(u) : u[j] = v[i] /\ (j = i \/ j = i + 1)
      BY <1>6
    <3>3. j <= k \/ j = k + 1
      BY <1>1, <3>1, <3>2
    <3>4. j = k + 1 => x = y
      BY <3>1, <3>2 DEF y, u, k
    <3> QED BY <1>3, <1>4, <2>2, <3>1, <3>2, <3>3, <3>4
  <2> QED BY <2>1, <2>2
<1>8. CASE ~(p <= k)
  <2>1. ASSUME NEW x \in Skipped' PROVE x \in Skipped
    <3>1. PICK i \in 1..Len(v) : i <= k /\ v[i] = x
      BY <1>3, <2>1
    <3>2. PICK j \in 1..Len(u) : u[j] = v[i] /\ (j = i \/ p <= i)
      BY <1>6
    <3>3. j <= k
      BY <1>1, <1>8, <3>1, <3>2
    <3> QED BY <1>3, <1>4, <2>1, <3>1, <3>2, <3>3
  <2> QED BY <2>1
<1> QED BY <1>7, <1>8

LEMMA SearchStarts == SearchInit => SearchInv
<1> SUFFICES ASSUME SearchInit PROVE SearchInv
  OBVIOUS
<1>1. table \in Seq(Mails)
  <2>1. table \in UNION {[1..n -> Mails] : n \in 0..Cardinality(Mails)}
    BY DEF SearchInit, SeqOf
  <2>2. PICK n \in 0..Cardinality(Mails) : table \in [1..n -> Mails]
    BY <2>1
  <2>3. n \in Nat
    OBVIOUS
  <2> QED BY <2>2, <2>3
<1>2. trashed \subseteq Mails
  <2>1. trashed \subseteq ToSet(table)
    BY DEF SearchInit
  <2>2. ToSet(table) \subseteq Mails
    <3>1. ASSUME NEW x \in ToSet(table) PROVE x \in Mails
      <4>1. PICK i \in 1..Len(table) : table[i] = x
        BY <1>1, ToSetIs
      <4> QED BY <1>1, <4>1
    <3> QED BY <3>1
  <2> QED BY <2>1, <2>2
<1>3. scan \in Scan /\ scan.stage = "idle" /\ scan.scanned = 0 /\ scan.matched = <<>>
  BY DEF SearchInit, Scan
<1>4. SearchTypeOK
  BY <1>1, <1>2, <1>3, SearchBounds DEF SearchInit, SearchTypeOK
<1>5. Unrepeated(table)
  <2>1. \A a, b \in DOMAIN table : table[a] = table[b] => a = b
    BY DEF SearchInit, IsInjective
  <2> QED BY <1>1, <2>1, LenProperties DEF Unrepeated
<1>6. stayed \subseteq ToSet(table) \ trashed
  BY DEF SearchInit
<1> QED BY <1>3, <1>4, <1>5, <1>6 DEF SearchInv, FewMissed, ExactSoFar

\* What the changes to the table leave of the rows that are searched.
LEMMA ChangeKeeps ==
    ASSUME SearchInv, NEW m \in Mails, InsertMail(m) \/ RemoveMail(m) \/ Relabel(m)
    PROVE  SearchInv'
<1>1. /\ SearchTypeOK /\ Unrepeated(table) /\ FewMissed /\ stayed \subseteq ToSet(table) \ trashed
      /\ scan.stage = "idle" => scan.scanned = 0 /\ scan.matched = <<>>
  BY DEF SearchInv
<1>2. /\ table \in Seq(Mails) /\ trashed \subseteq Mails /\ stayed \subseteq Mails
      /\ ToSet(table) \subseteq Mails
      /\ Kept \in Seq(Mails) /\ Kept = Selected(table, Unlisted)
      /\ scan \in Scan /\ shifts \in Nat /\ ToSet(Kept) = ToSet(table) \ trashed
  BY <1>1, SearchFacts
<1>3. changes' \in 0..MaxChanges /\ changes' # 0 /\ UNCHANGED scan
  <2>1. changes < MaxChanges /\ changes' = changes + 1 /\ changes \in 0..MaxChanges /\ MaxChanges \in Nat
    BY <1>1, SearchBounds DEF InsertMail, RemoveMail, Relabel, Change, SearchTypeOK
  <2>2. UNCHANGED scan
    BY DEF InsertMail, RemoveMail, Relabel
  <2> QED BY <2>1, <2>2
<1>4. ExactSoFar'
  BY <1>3 DEF ExactSoFar
<1>5. ASSUME table' \in Seq(Mails), Unrepeated(table'), trashed' \subseteq Mails,
             stayed' \subseteq stayed, stayed' \subseteq ToSet(table') \ trashed',
             shifts' \in {shifts, shifts + 1},
             \/ Skipped' \subseteq Skipped
             \/ shifts' = shifts + 1 /\ \E y : Skipped' \subseteq Skipped \cup {y}
      PROVE  SearchInv'
  <2>1. SearchTypeOK' /\ shifts' \in Nat /\ shifts <= shifts'
    BY <1>2, <1>3, <1>5 DEF SearchTypeOK
  <2>2. ASSUME NoMoreThan(Skipped, shifts) PROVE NoMoreThan(Skipped', shifts')
    <3>1. CASE Skipped' \subseteq Skipped
      BY <1>2, <2>1, <2>2, <3>1, FewerStill
    <3>2. ASSUME NEW y, Skipped' \subseteq Skipped \cup {y}, shifts' = shifts + 1
          PROVE  NoMoreThan(Skipped', shifts')
      BY <1>2, <2>2, <3>2, OneMore
    <3> QED BY <1>5, <3>1, <3>2
  <2>3. /\ NoMoreThan(Missed, shifts) => NoMoreThan(Missed', shifts')
        /\ NoMoreThan(Unanswered, shifts) => NoMoreThan(Unanswered', shifts')
    <3>1. Missed' \subseteq Missed
      BY <1>3, <1>5 DEF Missed
    <3>2. Unanswered' \subseteq Unanswered
      BY <1>3, <1>5 DEF Unanswered
    <3>3. ASSUME NEW S, NEW T, T \subseteq S, NoMoreThan(S, shifts) PROVE NoMoreThan(T, shifts')
      BY <1>2, <2>1, <3>3, FewerStill
    <3> QED BY <3>1, <3>2, <3>3
  <2>4. FewMissed'
    BY <1>1, <1>3, <2>2, <2>3 DEF FewMissed
  <2> QED BY <1>1, <1>3, <1>4, <1>5, <2>1, <2>4 DEF SearchInv
<1>6. CASE InsertMail(m)
  <2>1. /\ m \notin ToSet(table) /\ table' = <<m>> \o table
        /\ UNCHANGED <<trashed, stayed, shifts>>
    BY <1>6 DEF InsertMail
  <2> DEFINE one == <<m>>
  <2>2. one \in Seq(Mails) /\ Len(one) = 1 /\ one[1] = m
    OBVIOUS
  <2> HIDE DEF one
  <2>3. table' \in Seq(Mails) /\ \A i \in 1..Len(table) : i + 1 \in 1..Len(table') /\ table'[i + 1] = table[i]
    <3>1. /\ one \o table \in Seq(Mails) /\ Len(one \o table) = Len(one) + Len(table)
          /\ \A i \in 1..(Len(one) + Len(table)) :
               (one \o table)[i] = IF i <= Len(one) THEN one[i] ELSE table[i - Len(one)]
      BY <1>2, <2>2, ConcatProperties
    <3>2. Len(table) \in Nat /\ table' = one \o table
      BY <1>2, <2>1 DEF one
    <3>3. ASSUME NEW i \in 1..Len(table) PROVE i + 1 \in 1..Len(table') /\ table'[i + 1] = table[i]
      <4>1. i + 1 \in 1..(Len(one) + Len(table)) /\ ~(i + 1 <= Len(one)) /\ i + 1 - Len(one) = i
        BY <2>2, <3>2
      <4> QED BY <3>1, <3>2, <4>1, SMTT(30)
    <3> QED BY <3>1, <3>2, <3>3
  <2>4. ToSet(table) \subseteq ToSet(table')
    <3>1. ASSUME NEW x \in ToSet(table) PROVE x \in ToSet(table')
      <4>1. PICK i \in 1..Len(table) : table[i] = x
        BY <1>2, ToSetIs
      <4> QED BY <2>3, <4>1, ToSetIs
    <3> QED BY <3>1
  <2>5. MovedBack(Kept, Kept', m)
    <3> DEFINE u == Selected(one, Unlisted)
               v == Kept
               w == Kept'
    <3>1. w = u \o v
      <4>1. \A a, b \in Seq(Mails) : \A K : Selected(a \o b, K) = Selected(a, K) \o Selected(b, K)
        BY SelectedConcat
      <4>2. w = Selected(one \o table, Unlisted)
        BY <2>1 DEF Kept, Unlisted, one
      <4> QED BY <1>2, <2>2, <4>1, <4>2, ZenonT(60)
    <3>2. u \in Seq(Mails) /\ \A i \in 1..Len(u) : u[i] = m
      <4>1. u \in Seq(Mails) /\ \A n \in 1..Len(u) : u[n] \in ToSet(one) \cap Unlisted
        BY <2>2, KeptIs
      <4>2. \A x \in ToSet(one) : x = m
        <5>1. \A x : x \in ToSet(one) <=> \E i \in 1..Len(one) : one[i] = x
          BY <2>2, ToSetIs
        <5> QED BY <2>2, <5>1
      <4> HIDE DEF u
      <4> QED BY <4>1, <4>2
    <3>3. v \in Seq(Mails)
      BY <1>2
    <3> HIDE DEF u, v, w
    <3>4. /\ Len(w) = Len(u) + Len(v) /\ Len(u) \in Nat /\ Len(v) \in Nat
          /\ \A i \in 1..(Len(u) + Len(v)) : w[i] = IF i <= Len(u) THEN u[i] ELSE v[i - Len(u)]
      BY <3>1, <3>2, <3>3, ConcatProperties
    <3>5. ASSUME NEW i \in 1..Len(w) PROVE w[i] = m \/ \E j \in 1..Len(v) : j <= i /\ v[j] = w[i]
      <4>1. CASE i <= Len(u)
        BY <3>2, <3>4, <4>1
      <4>2. CASE ~(i <= Len(u))
        <5>1. i - Len(u) \in 1..Len(v) /\ i - Len(u) <= i /\ w[i] = v[i - Len(u)]
          BY <3>4, <4>2
        <5> QED BY <5>1
      <4> QED BY <4>1, <4>2
    <3> QED BY <3>5 DEF MovedBack, v, w
  <2>6. m \notin stayed'
    BY <1>1, <2>1
  <2>7. /\ shifts' \in {shifts, shifts + 1} /\ stayed' \subseteq stayed
        /\ trashed' \subseteq Mails /\ stayed' \subseteq ToSet(table') \ trashed'
    BY <1>1, <1>2, <2>1, <2>4
  <2>8. Skipped' \subseteq Skipped
    <3>1. SearchTypeOK'
      BY <1>2, <1>3, <2>1, <2>3 DEF SearchTypeOK
    <3> QED BY <1>1, <1>3, <2>5, <2>6, <2>7, <3>1, BackIsRead
  <2>9. Unrepeated(table')
    <3>1. /\ one \o table \in Seq(Mails) /\ Len(one \o table) = Len(one) + Len(table)
          /\ \A i \in 1..(Len(one) + Len(table)) :
               (one \o table)[i] = IF i <= Len(one) THEN one[i] ELSE table[i - Len(one)]
      BY <1>2, <2>2, ConcatProperties
    <3> DEFINE w == table'
    <3>2. w = one \o table /\ Len(table) \in Nat
      BY <1>2, <2>1 DEF one
    <3> HIDE DEF w
    <3>3. /\ Len(w) = 1 + Len(table)
          /\ \A i \in 1..(1 + Len(table)) : w[i] = IF i <= 1 THEN one[i] ELSE table[i - 1]
      BY <2>2, <3>1, <3>2
    <3>4. \A i \in 1..Len(table) : table[i] # m
      BY <1>2, <2>1, ToSetIs
    <3>5. ASSUME NEW i \in 1..Len(w)
          PROVE  /\ i = 1 => w[i] = m
                 /\ i # 1 => i - 1 \in 1..Len(table) /\ w[i] = table[i - 1] /\ w[i] # m
      <4>1. i = 1 => w[i] = m
        BY <2>2, <3>2, <3>3
      <4>2. i # 1 => i - 1 \in 1..Len(table) /\ ~(i <= 1)
        BY <3>2, <3>3
      <4> QED BY <3>3, <3>4, <4>1, <4>2
    <3>6. ASSUME NEW i \in 1..Len(w), NEW j \in 1..Len(w), w[i] = w[j] PROVE i = j
      <4>1. CASE i = 1 \/ j = 1
        BY <3>5, <3>6, <4>1
      <4>2. CASE i # 1 /\ j # 1
        <5>1. i - 1 = j - 1
          BY <1>1, <3>5, <3>6, <4>2 DEF Unrepeated
        <5> QED BY <5>1
      <4> QED BY <4>1, <4>2
    <3> QED BY <3>6 DEF Unrepeated, w
  <2> QED BY <1>5, <2>3, <2>7, <2>8, <2>9
<1>7. ASSUME m \in ToSet(table), trashed' \subseteq Mails, stayed' = stayed \ {m},
             shifts' = ShiftsWithout(m), table' \in Seq(Mails), Unrepeated(table'),
             stayed' \subseteq ToSet(table') \ trashed',
             \/ m \notin trashed /\ Kept' = Selected(Kept, Mails \ {m})
             \/ m \in trashed /\ MovedBack(Kept, Kept', m)
      PROVE  SearchInv'
  <2>1. shifts' \in {shifts, shifts + 1} /\ stayed' \subseteq stayed /\ m \notin stayed'
    BY <1>7 DEF ShiftsWithout
  <2>2. SearchTypeOK'
    BY <1>2, <1>3, <1>7, <2>1 DEF SearchTypeOK
  <2>3. CASE m \notin trashed /\ Kept' = Selected(Kept, Mails \ {m})
    <3>1. m \in ToSet(Kept)
      BY <1>2, <1>7, <2>3
    <3>2. \/ Skipped' \subseteq Skipped
          \/ shifts' = shifts + 1 /\ \E y : Skipped' \subseteq Skipped \cup {y}
      BY <1>1, <1>3, <1>7, <2>1, <2>2, <2>3, <3>1, OneComesUnread
    <3> QED BY <1>5, <1>7, <2>1, <3>2
  <2>4. CASE m \in trashed /\ MovedBack(Kept, Kept', m)
    <3>1. Skipped' \subseteq Skipped
      BY <1>1, <1>3, <2>1, <2>2, <2>4, BackIsRead
    <3> QED BY <1>5, <1>7, <2>1, <3>1
  <2> QED BY <1>7, <2>3, <2>4
<1>8. \A K, L : Selected(Selected(table, K), L) = Selected(table, K \cap L)
  BY <1>2, SelectedTwice, ZenonT(60)
<1>9. CASE RemoveMail(m)
  <2>1. /\ table' = Selected(table, Mails \ {m}) /\ trashed' = trashed \ {m} /\ stayed' = stayed \ {m}
        /\ shifts' = ShiftsWithout(m) /\ m \in ToSet(table)
    BY <1>9 DEF RemoveMail
  <2>2. table' \in Seq(Mails) /\ ToSet(table') = ToSet(table) \cap (Mails \ {m})
    BY <1>2, <2>1, KeptIs
  <2>3. Unrepeated(table')
    BY <1>1, <1>2, <2>1, SelectedUnrepeated
  <2>4. Kept' = Selected(table, (Mails \ {m}) \cap (Mails \ trashed'))
    <3>1. Kept' = Selected(Selected(table, Mails \ {m}), Mails \ trashed')
      BY <2>1 DEF Kept
    <3> QED BY <1>8, <3>1
  <2>5. CASE m \in trashed
    <3>1. (Mails \ {m}) \cap (Mails \ trashed') = Unlisted
      BY <2>1, <2>5 DEF Unlisted
    <3>2. Kept' = Kept
      BY <1>2, <2>4, <3>1
    <3>3. MovedBack(Kept, Kept', m)
      <4>1. Len(Kept) \in Nat
        BY <1>2
      <4> QED BY <3>2, <4>1 DEF MovedBack
    <3> QED BY <1>1, <1>2, <1>7, <2>1, <2>2, <2>3, <2>5, <3>3
  <2>6. CASE m \notin trashed
    <3>1. (Mails \ {m}) \cap (Mails \ trashed') = Unlisted \cap (Mails \ {m})
      BY <2>1, <2>6 DEF Unlisted
    <3>2. Kept' = Selected(Kept, Mails \ {m})
      BY <1>2, <1>8, <2>4, <3>1
    <3> QED BY <1>1, <1>2, <1>7, <2>1, <2>2, <2>3, <2>6, <3>2
  <2> QED BY <2>5, <2>6
<1>10. CASE Relabel(m)
  <2>1. /\ UNCHANGED table /\ stayed' = stayed \ {m} /\ shifts' = ShiftsWithout(m)
        /\ trashed' = (IF m \in trashed THEN trashed \ {m} ELSE trashed \cup {m})
        /\ m \in ToSet(table)
    BY <1>10 DEF Relabel
  <2>2. CASE m \in trashed
    <3> DEFINE K == Unlisted
               L == Mails \ trashed'
               u == Selected(table, K)
               v == Selected(table, L)
    <3>1. K \subseteq L /\ L \subseteq K \cup {m}
      BY <2>1, <2>2 DEF Unlisted
    <3> HIDE DEF K, L
    <3>2. /\ \A i \in 1..Len(v) : v[i] \notin K \/ \E j \in 1..Len(u) : j <= i /\ u[j] = v[i]
      <4>1. \A M, N : M \subseteq N =>
              \A i \in 1..Len(Selected(table, N)) :
                \/ Selected(table, N)[i] \notin M
                \/ \E j \in 1..Len(Selected(table, M)) :
                      j <= i /\ Selected(table, M)[j] = Selected(table, N)[i]
        BY <1>2, SelectedWider, SMTT(30)
      <4> QED BY <3>1, <4>1
    <3>3. \A i \in 1..Len(v) : v[i] \in L
      BY <1>2, KeptIs
    <3>4. Kept = u /\ Kept' = v
      BY <2>1 DEF Kept, Unlisted, K, L
    <3> HIDE DEF u, v
    <3>5. MovedBack(u, v, m)
      BY <3>1, <3>2, <3>3 DEF MovedBack
    <3>6. trashed' \subseteq Mails /\ stayed' \subseteq ToSet(table') \ trashed'
      BY <1>1, <1>2, <2>1, <2>2
    <3> QED BY <1>1, <1>2, <1>7, <2>1, <2>2, <3>4, <3>5, <3>6
  <2>3. CASE m \notin trashed
    <3>1. Mails \ trashed' = Unlisted \cap (Mails \ {m})
      BY <2>1, <2>3 DEF Unlisted
    <3>2. Kept' = Selected(Kept, Mails \ {m})
      <4>1. Kept' = Selected(table, Mails \ trashed')
        BY <2>1 DEF Kept
      <4> QED BY <1>2, <1>8, <3>1, <4>1
    <3>3. trashed' \subseteq Mails /\ stayed' \subseteq ToSet(table') \ trashed'
      BY <1>1, <1>2, <2>1, <2>3
    <3> QED BY <1>1, <1>2, <1>7, <2>1, <2>3, <3>2, <3>3
  <2> QED BY <2>2, <2>3
<1> QED BY <1>6, <1>9, <1>10

\* One batch more.
LEMMA ScanKeeps == ASSUME SearchInv, ScanBatch PROVE SearchInv'
<1> DEFINE n == scan.scanned
           batch == Slice(Kept, n + 1, Batch)
           hits == Selected(batch, Matching)
           m == n + Len(batch)
           all == scan.matched \o hits
           short == Len(batch) < Batch
           more == ~short /\ Len(all) < Limit /\ m < ScanLimit
           first == Slice(all, 1, Limit)
<1>1. /\ SearchTypeOK /\ Unrepeated(table) /\ FewMissed /\ ExactSoFar /\ stayed \subseteq ToSet(table) \ trashed
  BY DEF SearchInv
<1>2. /\ Kept \in Seq(Mails) /\ ToSet(Kept) = ToSet(table) \ trashed
      /\ scan \in Scan /\ n \in Nat /\ scan.matched \in Seq(Mails)
      /\ Len(scan.matched) \in Nat /\ Len(Kept) \in Nat /\ shifts \in Nat /\ stayed \subseteq Mails
      /\ Limit \in Nat \ {0} /\ Batch \in Nat \ {0} /\ ScanLimit \in Nat \ {0}
  BY <1>1, SearchFacts, SearchBounds
<1>3. /\ scan.stage = "batch" /\ UNCHANGED <<table, trashed, stayed, shifts, changes>>
      /\ scan' = [scan EXCEPT !.scanned = m, !.short = short,
                   !.matched = IF more THEN all ELSE first,
                   !.stage = IF more THEN "batch" ELSE "read"]
  BY DEF ScanBatch
<1>4. /\ batch \in Seq(Mails) /\ Len(batch) \in Nat /\ Len(batch) <= Batch
      /\ Len(batch) < Batch => Len(Kept) <= n + Len(batch)
      /\ \A i \in 1..Len(batch) : n + i \in 1..Len(Kept) /\ batch[i] = Kept[n + i]
  BY <1>2, BatchRows, ZenonT(60)
<1> HIDE DEF batch
<1>5. hits \in Seq(Mails) /\ ToSet(hits) = ToSet(batch) \cap Matching
  BY <1>4, KeptIs
<1> HIDE DEF hits
<1>6. /\ all \in Seq(Mails) /\ Len(all) \in Nat
      /\ \A x : x \in ToSet(all) <=> x \in ToSet(scan.matched) \/ x \in ToSet(hits)
  <2> DEFINE p == scan.matched
  <2>1. p \in Seq(Mails)
    BY <1>2
  <2> HIDE DEF p
  <2>2. /\ p \o hits \in Seq(Mails) /\ Len(p \o hits) = Len(p) + Len(hits)
        /\ \A i \in 1..(Len(p) + Len(hits)) :
             (p \o hits)[i] = IF i <= Len(p) THEN p[i] ELSE hits[i - Len(p)]
    BY <1>5, <2>1, ConcatProperties
  <2> DEFINE q == p \o hits
  <2> HIDE DEF q
  <2>3. /\ (\A x : x \in ToSet(q) <=> \E i \in 1..Len(q) : q[i] = x)
        /\ (\A x : x \in ToSet(p) <=> \E i \in 1..Len(p) : p[i] = x)
        /\ (\A x : x \in ToSet(hits) <=> \E i \in 1..Len(hits) : hits[i] = x)
    <3>1. q \in Seq(Mails)
      BY <2>2 DEF q
    <3> QED BY <1>5, <2>1, <3>1, ToSetIs
  <2>4. Len(p) \in Nat /\ Len(hits) \in Nat /\ Len(q) = Len(p) + Len(hits)
        /\ \A i \in 1..(Len(p) + Len(hits)) : q[i] = IF i <= Len(p) THEN p[i] ELSE hits[i - Len(p)]
    BY <1>5, <2>1, <2>2 DEF q
  <2>5. ASSUME NEW x \in ToSet(q) PROVE x \in ToSet(p) \/ x \in ToSet(hits)
    <3>1. PICK i \in 1..Len(q) : q[i] = x
      BY <2>3
    <3>2. CASE i <= Len(p)
      BY <2>3, <2>4, <3>1, <3>2
    <3>3. CASE ~(i <= Len(p))
      <4>1. i - Len(p) \in 1..Len(hits)
        BY <2>4, <3>3
      <4> QED BY <2>3, <2>4, <3>1, <3>3, <4>1
    <3> QED BY <3>2, <3>3
  <2>6. ASSUME NEW x \in ToSet(p) PROVE x \in ToSet(q)
    <3>1. PICK i \in 1..Len(p) : p[i] = x
      BY <2>3
    <3>2. i \in 1..Len(q) /\ q[i] = p[i]
      BY <2>4
    <3> QED BY <2>3, <3>1, <3>2
  <2>7. ASSUME NEW x \in ToSet(hits) PROVE x \in ToSet(q)
    <3>1. PICK i \in 1..Len(hits) : hits[i] = x
      BY <2>3
    <3>2. Len(p) + i \in 1..Len(q) /\ ~(Len(p) + i <= Len(p)) /\ (Len(p) + i) - Len(p) = i
      BY <2>4
    <3>3. q[Len(p) + i] = hits[i]
      BY <2>4, <3>2
    <3> QED BY <2>3, <3>1, <3>2, <3>3
  <2>8. \A x : x \in ToSet(q) <=> x \in ToSet(p) \/ x \in ToSet(hits)
    BY <2>5, <2>6, <2>7
  <2>9. q \in Seq(Mails) /\ Len(q) \in Nat
    BY <2>2, <2>4 DEF q
  <2> QED BY <2>8, <2>9 DEF p, q
<1> HIDE DEF all
<1>7. first \in Seq(Mails) /\ Len(first) = (IF Limit <= Len(all) THEN Limit ELSE Len(all))
      /\ (Len(all) <= Limit => first = all)
  BY <1>2, <1>6, FirstSliceTyped
<1> HIDE DEF first
<1>8. m \in Nat
  BY <1>2, <1>4
<1> HIDE DEF m
<1> DEFINE matched == IF more THEN all ELSE first
           stage == IF more THEN "batch" ELSE "read"
<1>9. matched \in Seq(Mails) /\ stage \in {"idle", "batch", "read", "done"} /\ short \in BOOLEAN
  BY <1>6, <1>7
<1>10. /\ scan' \in Scan /\ scan'.scanned = m /\ scan'.short = short /\ scan'.matched = matched
       /\ scan'.stage = stage
  <2> HIDE DEF matched, stage, short
  <2>1. scan' = [scan EXCEPT !.scanned = m, !.short = short, !.matched = matched, !.stage = stage]
    BY <1>3 DEF matched, stage, short
  <2>2. scan' \in Scan
    BY <1>2, <1>8, <1>9, <2>1, Zenon DEF Scan
  <2>3. /\ scan'.scanned = m /\ scan'.short = short /\ scan'.matched = matched /\ scan'.stage = stage
    BY <1>2, <2>1 DEF Scan
  <2> QED BY <2>2, <2>3
<1>11. SearchTypeOK'
  BY <1>1, <1>3, <1>10 DEF SearchTypeOK
<1>12. Kept' = Kept
  BY <1>3 DEF Kept
\* A matching row of the batches so far that stayed is among those found, or was
\* already skipped.
<1>13. ASSUME NEW i \in 1..Len(Kept), i <= m, Kept[i] \in stayed \cap Matching, Kept[i] \notin ToSet(all)
       PROVE  Kept[i] \in Skipped
  <2>1. CASE i <= n
    <3>1. Kept[i] \in ReadRows
      BY <1>2, <1>13, <2>1 DEF ReadRows
    <3> QED BY <1>6, <1>13, <3>1 DEF Skipped
  <2>2. CASE ~(i <= n)
    <3>1. i - n \in 1..Len(batch) /\ n + (i - n) = i
      BY <1>2, <1>4, <1>13, <2>2, SMTT(30) DEF m
    <3>2. batch[i - n] = Kept[i]
      BY <1>4, <3>1
    <3>3. Kept[i] \in ToSet(batch)
      BY <1>4, <3>1, <3>2, ToSetIs
    <3> QED BY <1>5, <1>6, <1>13, <3>3
  <2> QED BY <2>1, <2>2
<1>14. Len(scan.matched) <= Len(all)
  <2>1. Len(all) = Len(scan.matched) + Len(hits) /\ Len(hits) \in Nat
    BY <1>2, <1>5, ConcatProperties DEF all
  <2> QED BY <1>2, <2>1
<1>15. ASSUME Len(matched) < Limit PROVE matched = all /\ Len(scan.matched) < Limit
  BY <1>2, <1>6, <1>7, <1>14, <1>15
<1>16. FewMissed'
  <2> SUFFICES ASSUME Len(matched) < Limit
               PROVE  /\ NoMoreThan(Skipped', shifts)
                      /\ stage = "read" /\ short => NoMoreThan(Missed', shifts)
    <3> HIDE DEF matched, stage, short
    <3>1. stage # "done"
      BY <1>9 DEF stage
    <3> QED BY <1>3, <1>10, <3>1 DEF FewMissed
  <2>1. matched = all /\ Len(scan.matched) < Limit
    BY <1>15
  <2>2. NoMoreThan(Skipped, shifts)
    BY <1>1, <1>3, <2>1 DEF FewMissed
  <2> HIDE DEF matched, stage, short
  <2>3. Skipped' \subseteq Skipped
    <3>1. ASSUME NEW x \in Skipped' PROVE x \in Skipped
      <4>1. /\ x \in stayed \cap Matching /\ x \notin ToSet(all)
            /\ \E i \in 1..Len(Kept) : i <= m /\ Kept[i] = x
        BY <1>3, <1>10, <1>12, <2>1, <3>1 DEF Skipped, ReadRows
      <4> QED BY <1>13, <4>1
    <3> QED BY <3>1
  <2>4. ASSUME short PROVE Missed' \subseteq Skipped
    <3>1. ASSUME NEW x \in Missed' PROVE x \in Skipped
      <4>1. x \in stayed \cap Matching /\ x \notin ToSet(all)
        BY <1>3, <1>10, <2>1, <3>1 DEF Missed
      <4>2. x \in ToSet(Kept)
        BY <1>1, <1>2, <4>1
      <4>3. PICK i \in 1..Len(Kept) : Kept[i] = x
        BY <1>2, <4>2, ToSetIs
      <4>4. i <= m
        BY <1>2, <1>4, <1>8, <2>4 DEF m, short
      <4> QED BY <1>13, <4>1, <4>3, <4>4
    <3> QED BY <3>1
  <2> QED BY <1>2, <2>2, <2>3, <2>4, FewerStill
<1>17. ExactSoFar'
  <2> SUFFICES ASSUME changes = 0
               PROVE  /\ stage = "batch" =>
                           /\ \E k \in Nat : m = k * Batch
                           /\ m <= Len(Kept) /\ m < ScanLimit
                           /\ matched = Selected(SubSeq(Kept, 1, m), Matching)
                      /\ stage = "read" =>
                           matched = Slice(Selected(Slice(Kept, 1, Rounded), Matching), 1, Limit)
    <3> HIDE DEF matched, stage
    <3>1. stage \in {"batch", "read"}
      BY DEF stage
    <3>2. NewestMatches' = Slice(Selected(Slice(Kept, 1, Rounded), Matching), 1, Limit)
      BY <1>12 DEF NewestMatches
    <3>3. SubSeq(Kept', 1, scan'.scanned) = SubSeq(Kept, 1, m) /\ Len(Kept') = Len(Kept)
      BY <1>10, <1>12
    <3>4. /\ changes' = changes /\ scan'.scanned = m /\ scan'.matched = matched
          /\ scan'.stage = stage
      BY <1>3, <1>10
    <3> QED BY <3>1, <3>2, <3>3, <3>4, ZenonT(60) DEF ExactSoFar
  <2>1. /\ \E k \in Nat : n = k * Batch
        /\ n <= Len(Kept) /\ n < ScanLimit /\ scan.matched = Selected(SubSeq(Kept, 1, n), Matching)
    BY <1>1, <1>3 DEF ExactSoFar
  <2>2. PICK k \in Nat : n = k * Batch
    BY <2>1
  <2>3. /\ m <= Len(Kept) /\ all = Selected(SubSeq(Kept, 1, m), Matching)
        /\ Len(batch) = Batch => m = (k + 1) * Batch
        /\ Len(batch) < Batch \/ Limit <= Len(all) \/ ScanLimit <= m =>
             first = Slice(Selected(Slice(Kept, 1, Rounded), Matching), 1, Limit)
    <3> DEFINE found == scan.matched
               s == Kept
    <3>1. /\ s \in Seq(Mails) /\ n \in Nat /\ n <= Len(s) /\ found = Selected(SubSeq(s, 1, n), Matching)
          /\ n = k * Batch /\ n < ScanLimit /\ k \in Nat
      BY <1>2, <2>1, <2>2
    <3> DEFINE r == Slice(s, n + 1, Batch)
               l == n + Len(r)
               a == found \o Selected(r, Matching)
    <3>2. /\ l \in Nat /\ l <= Len(s) /\ a \in Seq(Mails)
          /\ a = Selected(SubSeq(s, 1, l), Matching)
          /\ Len(r) = Batch => l = (k + 1) * Batch
          /\ Len(r) < Batch \/ Limit <= Len(a) \/ ScanLimit <= l =>
               Slice(a, 1, Limit) = Slice(Selected(Slice(s, 1, Rounded), Matching), 1, Limit)
      <4>1. r = Slice(s, n + 1, Batch) /\ l = n + Len(r) /\ a = found \o Selected(r, Matching)
        OBVIOUS
      <4> HIDE DEF found, s, n, r, l, a
      <4>2. BatchReads(Mails, s, k, n, found, r, l, a)
        BY <3>1, <4>1 DEF BatchReads
      <4>3. BatchAnswers(Mails, s, k, r, l, a)
        BY <4>2, BatchAnswered
      <4> QED BY <4>3 DEF BatchAnswers
    <3>3. batch = r /\ m = l /\ all = a /\ first = Slice(a, 1, Limit)
      BY DEF first, all, m, hits, batch
    <3> HIDE DEF l, a, r
    <3> QED BY <3>2, <3>3
  <2>4. CASE more
    <3>1. Len(batch) = Batch /\ m < ScanLimit
      BY <1>2, <1>4, <2>4
    <3>2. k + 1 \in Nat /\ m = (k + 1) * Batch
      BY <2>3, <3>1
    <3> QED BY <2>3, <2>4, <3>1, <3>2
  <2>5. CASE ~more
    <3>1. Len(batch) < Batch \/ Limit <= Len(all) \/ ScanLimit <= m
      BY <1>2, <1>6, <1>8, <2>5
    <3> QED BY <2>3, <2>5, <3>1
  <2> QED BY <2>4, <2>5
<1>18. stayed' \subseteq ToSet(table') \ trashed' /\ Unrepeated(table') /\ scan'.stage # "idle"
  BY <1>1, <1>3, <1>10
<1> QED BY <1>11, <1>16, <1>17, <1>18 DEF SearchInv

\* The newest matches are rows of the table.
LEMMA NewestAreRows == ASSUME SearchTypeOK PROVE ToSet(NewestMatches) \subseteq ToSet(table)
<1> DEFINE V == ToSet(table)
           u == Slice(Kept, 1, Rounded)
           v == Selected(u, Matching)
<1>1. Kept \in Seq(Mails) /\ V \subseteq Mails /\ Kept \in Seq(V)
  <2>1. table \in Seq(Mails) /\ V \subseteq Mails /\ Kept \in Seq(Mails) /\ ToSet(Kept) \subseteq V
    BY SearchFacts
  <2> DEFINE k == Kept
  <2> HIDE DEF k, V
  <2>2. \A i \in 1..Len(k) : k[i] \in V
    BY <2>1, ToSetIs DEF k
  <2>3. k \in [1..Len(k) -> Mails] /\ Len(k) \in Nat
    BY <2>1, LenProperties DEF k
  <2>4. k \in [1..Len(k) -> V]
    BY <2>2, <2>3
  <2>5. k \in Seq(V)
    BY <2>3, <2>4
  <2> QED BY <2>1, <2>5 DEF k
<1> HIDE DEF V
<1>2. Rounded \in Nat \ {0} /\ Limit \in Nat \ {0}
  <2>1. 0 * Batch < ScanLimit /\ 0 \in Nat
    BY SearchBounds
  <2> QED BY <2>1, RoundedIs, SearchBounds
<1>3. u \in Seq(V)
  BY <1>1, <1>2, FirstSliceTyped
<1> HIDE DEF u
<1>4. v \in Seq(V)
  BY <1>3, SelectedHolds
<1> HIDE DEF v
<1> DEFINE w == Slice(v, 1, Limit)
<1>5. w \in Seq(V) /\ w = NewestMatches
  BY <1>2, <1>4, FirstSliceTyped DEF NewestMatches, u, v
<1> HIDE DEF w
<1>6. ASSUME NEW x \in ToSet(w) PROVE x \in V
  <2>1. PICK i \in 1..Len(w) : w[i] = x
    BY <1>5, ToSetIs
  <2> QED BY <1>5, <2>1, ElementOfSeq
<1> QED BY <1>5, <1>6 DEF V

LEMMA SearchStep == SearchInv /\ [SearchNext]_vars_ss => SearchInv'
<1> SUFFICES ASSUME SearchInv, [SearchNext]_vars_ss PROVE SearchInv'
  OBVIOUS
<1>1. /\ SearchTypeOK /\ Unrepeated(table) /\ FewMissed /\ ExactSoFar /\ stayed \subseteq ToSet(table) \ trashed
      /\ scan.stage = "idle" => scan.scanned = 0 /\ scan.matched = <<>>
  BY DEF SearchInv
<1>2. /\ Kept \in Seq(Mails) /\ ToSet(Kept) = ToSet(table) \ trashed /\ scan \in Scan /\ shifts \in Nat
      /\ stayed \subseteq Mails /\ ToSet(table) \subseteq Mails /\ Len(Kept) \in Nat
      /\ Limit \in Nat \ {0} /\ Batch \in Nat \ {0} /\ ScanLimit \in Nat \ {0}
  BY <1>1, SearchFacts, SearchBounds
<1>3. ASSUME NEW m \in Mails, InsertMail(m) \/ RemoveMail(m) \/ Relabel(m) PROVE SearchInv'
  BY <1>3, ChangeKeeps
<1>4. CASE StartSearch
  <2>1. /\ scan.stage = "idle" /\ scan' = [scan EXCEPT !.stage = "batch"] /\ stayed' = ToSet(Kept)
        /\ shifts' = 0 /\ UNCHANGED <<table, trashed, changes>>
    BY <1>4 DEF StartSearch
  <2>2. /\ scan' \in Scan /\ scan'.stage = "batch" /\ scan'.scanned = 0 /\ scan'.matched = <<>>
    <3>1. scan' \in Scan
      BY <1>2, <2>1, Zenon DEF Scan
    <3> QED BY <1>1, <1>2, <2>1, <3>1 DEF Scan
  <2>3. SearchTypeOK'
    BY <1>1, <1>2, <2>1, <2>2 DEF SearchTypeOK
  <2>4. FewMissed'
    <3>1. Skipped' = {}
      <4>1. \A i \in 1..Len(Kept') : ~(i <= scan'.scanned)
        BY <2>2
      <4> QED BY <4>1 DEF Skipped, ReadRows
    <3>2. NoMoreThan(Skipped', shifts')
      BY <2>1, <3>1, FS_EmptySet DEF NoMoreThan
    <3> QED BY <2>2, <3>2 DEF FewMissed
  <2>5. ExactSoFar'
    <3>1. 0 = 0 * Batch /\ 0 \in Nat /\ 0 <= Len(Kept) /\ 0 < ScanLimit
      BY <1>2
    <3>2. SubSeq(Kept, 1, 0) = <<>> /\ Selected(<<>>, Matching) = <<>>
      BY <1>2, PrefixUnfolds, SelectedOfNone
    <3>3. Kept' = Kept
      BY <2>1 DEF Kept
    <3> QED BY <2>2, <3>1, <3>2, <3>3 DEF ExactSoFar
  <2> QED BY <1>1, <1>2, <2>1, <2>2, <2>3, <2>4, <2>5 DEF SearchInv
<1>5. CASE ScanBatch
  BY <1>5, ScanKeeps
<1>6. CASE ReadFound
  <2> DEFINE found == ToSet(scan.matched) \cap ToSet(table) \cap Opening
  <2>1. /\ scan.stage = "read" /\ scan' = [scan EXCEPT !.stage = "done", !.result = found]
        /\ UNCHANGED <<table, trashed, stayed, shifts, changes>>
    BY <1>6 DEF ReadFound
  <2>2. found \subseteq Mails
    BY <1>2
  <2> HIDE DEF found
  <2>3. /\ scan' \in Scan /\ scan'.stage = "done" /\ scan'.scanned = scan.scanned
        /\ scan'.matched = scan.matched /\ scan'.short = scan.short /\ scan'.result = found
    <3>1. scan' \in Scan
      BY <1>2, <2>1, <2>2, Zenon DEF Scan
    <3> QED BY <1>2, <2>1, <3>1 DEF Scan
  <2>4. SearchTypeOK'
    BY <1>1, <2>1, <2>3 DEF SearchTypeOK
  <2>5. FewMissed'
    <3>1. Unanswered' \subseteq Missed
      BY <1>1, <2>1, <2>3 DEF Unanswered, Missed, found
    <3>2. ASSUME NoMoreThan(Missed, shifts) PROVE NoMoreThan(Unanswered', shifts)
      BY <1>2, <3>1, <3>2, FewerStill
    <3> QED BY <1>1, <2>1, <2>3, <3>2 DEF FewMissed
  <2>6. ExactSoFar'
    <3>1. Kept' = Kept /\ NewestMatches' = NewestMatches
      BY <2>1 DEF Kept, NewestMatches
    <3>2. ToSet(NewestMatches) \subseteq ToSet(table)
      BY <1>1, NewestAreRows
    <3>3. ASSUME changes = 0 PROVE scan.matched = NewestMatches /\ found = ToSet(NewestMatches) \cap Opening
      BY <1>1, <2>1, <3>2, <3>3 DEF ExactSoFar, found
    <3> QED BY <2>1, <2>3, <3>1, <3>3 DEF ExactSoFar
  <2> QED BY <1>1, <2>1, <2>3, <2>4, <2>5, <2>6 DEF SearchInv
<1>7. CASE UNCHANGED vars_ss
  <2>1. UNCHANGED <<table, trashed, scan, stayed, shifts, changes>>
    BY <1>7 DEF vars_ss
  <2>2. Kept' = Kept
    BY <2>1 DEF Kept
  <2>3. FewMissed'
    BY <1>1, <2>1, <2>2 DEF FewMissed, Skipped, Missed, Unanswered, ReadRows
  <2>4. ExactSoFar'
    BY <1>1, <2>1, <2>2 DEF ExactSoFar, NewestMatches
  <2>5. SearchTypeOK'
    BY <1>1, <2>1 DEF SearchTypeOK
  <2> QED BY <1>1, <2>1, <2>3, <2>4, <2>5 DEF SearchInv
<1> QED BY <1>3, <1>4, <1>5, <1>6, <1>7 DEF SearchNext

LEMMA SearchAnswers == SearchInv => SearchIsRight
<1> SUFFICES ASSUME SearchInv PROVE SearchIsRight
  OBVIOUS
<1>1. MissesAreShifts
  BY DEF SearchInv, FewMissed, NoMoreThan, Unanswered, MissesAreShifts
<1>2. UndisturbedIsExact
  BY DEF SearchInv, ExactSoFar, NewestMatches, UndisturbedIsExact
<1> QED BY <1>1, <1>2 DEF SearchIsRight

\* The types of a search and of the table it reads (search_message_ids).
THEOREM SearchTypeCorrect == SearchSpec => []SearchTypeOK
<1>1. SearchSpec => []SearchInv
  BY SearchStarts, SearchStep, PTL DEF SearchSpec
<1>2. SearchInv => SearchTypeOK
  BY DEF SearchInv
<1> QED BY <1>1, <1>2, PTL

\* A search in batches that comes to the end of the rows misses of the messages that
\* match, open and stay no more than rows left the filter before its offset, however
\* the rows move; and when nothing changes it answers the newest matches, less those
\* that do not open whole (search_message_ids, for every batch size and limit).
THEOREM SearchIsAlwaysRight == SearchSpec => []SearchIsRight
<1>1. SearchSpec => []SearchInv
  BY SearchStarts, SearchStep, PTL DEF SearchSpec
<1> QED BY <1>1, SearchAnswers, PTL

(*****************************************************************************)
(* MCService: the components side by side.                                   *)
(*****************************************************************************)

ServiceInv == /\ WebhookInv /\ StreamCore /\ MarksInv /\ SearchInv /\ RegistryInv
              /\ HostInv /\ HandoffInv /\ PeerInv /\ ConversationInv

LEMMA ServiceStarts == Init => ServiceInv
<1> SUFFICES ASSUME Init PROVE ServiceInv
  OBVIOUS
<1>1. /\ WebhookInit /\ StreamInit /\ MarksInit /\ SearchInit /\ RegistryInit
      /\ HostInit /\ HandoffInit /\ ProofInit /\ ConversationInit
  BY DEF Init
<1>2. WebhookInv /\ StreamCore /\ MarksInv
  BY <1>1, WebhookInitInv, InitStream, MarksInitInv
<1>3. SearchInv /\ RegistryInv /\ HostInv
  BY <1>1, SearchStarts, RegistryInitInv, HostStarts
<1>4. HandoffInv /\ PeerInv /\ ConversationInv
  BY <1>1, HandoffInitInv, PeerInitInv, InitConversation
<1> QED BY <1>2, <1>3, <1>4 DEF ServiceInv

\* Each component takes a step of its own, or keeps its state.
LEMMA ServiceMoves ==
  ASSUME [Next]_serviceVars
  PROVE  /\ [WebhookNext]_vars_wd /\ [StreamNext]_vars_rs /\ [MarksNext]_vars_mm
         /\ [SearchNext]_vars_ss /\ [RegistryNext]_vars_mr /\ [HostNext]_hostVars
         /\ [HandoffNext]_handoffVars /\ [ProofNext]_proofVars
         /\ [ConversationNext]_conversationVars
<1>1. CASE UNCHANGED serviceVars
  BY <1>1 DEF serviceVars
<1>2. CASE Next
  <2>1. CASE Moves("webhooks", WebhookNext)
    BY <2>1 DEF Moves, Still
  <2>2. CASE Moves("stream", StreamNext)
    BY <2>2 DEF Moves, Still
  <2>3. CASE Moves("marks", MarksNext)
    BY <2>3 DEF Moves, Still
  <2>4. CASE Moves("search", SearchNext)
    BY <2>4 DEF Moves, Still
  <2>5. CASE Moves("registry", RegistryNext)
    BY <2>5 DEF Moves, Still
  <2>6. CASE Moves("host", HostNext)
    BY <2>6 DEF Moves, Still
  <2>7. CASE Moves("handoff", HandoffNext)
    BY <2>7 DEF Moves, Still
  <2>8. CASE Moves("proof", ProofNext)
    BY <2>8 DEF Moves, Still
  <2>9. CASE Moves("conversation", ConversationNext)
    BY <2>9 DEF Moves, Still
  <2> QED BY <1>2, <2>1, <2>2, <2>3, <2>4, <2>5, <2>6, <2>7, <2>8, <2>9 DEF Next
<1> QED BY <1>1, <1>2

LEMMA ServiceStep == ServiceInv /\ [Next]_serviceVars => ServiceInv'
<1> SUFFICES ASSUME ServiceInv, [Next]_serviceVars PROVE ServiceInv'
  OBVIOUS
<1>1. /\ [WebhookNext]_vars_wd /\ [StreamNext]_vars_rs /\ [MarksNext]_vars_mm
      /\ [SearchNext]_vars_ss /\ [RegistryNext]_vars_mr /\ [HostNext]_hostVars
      /\ [HandoffNext]_handoffVars /\ [ProofNext]_proofVars
      /\ [ConversationNext]_conversationVars
  BY ServiceMoves
<1>2. WebhookInv' /\ StreamCore' /\ MarksInv'
  BY <1>1, WebhookStepInv, StreamStep, MarksStepInv DEF ServiceInv
<1>3. SearchInv' /\ RegistryInv' /\ HostInv'
  BY <1>1, SearchStep, RegistryStepInv, HostStep DEF ServiceInv
<1>4. HandoffInv' /\ PeerInv' /\ ConversationInv'
  BY <1>1, HandoffStepInv, PeerNextInv, ConversationStep DEF ServiceInv
<1> QED BY <1>2, <1>3, <1>4 DEF ServiceInv

LEMMA ServiceInductive == Spec => []ServiceInv
  BY ServiceStarts, ServiceStep, PTL DEF Spec

\* Whichever component of the mail service moves, its variables keep their type.
THEOREM ServiceTypesCorrect == Spec => []TypesOK
<1>1. ServiceInv => TypesOK
  <2> SUFFICES ASSUME ServiceInv PROVE TypesOK
    OBVIOUS
  <2>1. WebhookTypeOK /\ StreamTypeOK /\ MarksTypeOK /\ SearchTypeOK /\ RegistryTypeOK
    BY MarksInvTyped DEF ServiceInv, WebhookInv, StreamCore, SearchInv, RegistryInv
  <2>2. HostTypeOK /\ HandoffTypeOK /\ ProofTypeOK /\ ConversationTypeOK
    BY HostIsTyped, HandoffInvTyped, ConversationInvTyped DEF ServiceInv, PeerInv
  <2> QED BY <2>1, <2>2 DEF TypesOK
<1> QED BY <1>1, ServiceInductive, PTL

\* And what the components promise holds of the composition as the run explores it:
\* deliveries, streams, marks, searches, the registry, calls to Core, the handoff, the
\* peer proof and the conversations, each whatever steps the others take.
THEOREM ServiceIsSound ==
  Spec => []( /\ RowTellsTheOutcome /\ InboxHookKeepsItsInbox /\ DeliversItsSubscription
              /\ MarksHold /\ SearchIsRight /\ RegistryIsUnambiguous /\ HostIsReported
              /\ HandoffOpensItsRun /\ BearerIsProved /\ ConversationsHold)
<1>1. ServiceInv => RowTellsTheOutcome /\ InboxHookKeepsItsInbox
  BY RowsTell DEF ServiceInv, WebhookInv, Scoped
<1>2. ServiceInv => DeliversItsSubscription
  BY StreamCoreIsInv DEF ServiceInv, StreamInv, DeliversItsSubscription
<1>3. ServiceInv => MarksHold /\ SearchIsRight /\ RegistryIsUnambiguous
  BY MarksInvSuffices, SearchAnswers, RegistryInvSuffices DEF ServiceInv
<1>4. ServiceInv => HostIsReported /\ HandoffOpensItsRun
  BY HostReports DEF ServiceInv, HandoffInv
<1>5. ServiceInv => BearerIsProved
  BY DEF ServiceInv, PeerInv, ClientOK, ProvedBearer, BearerIsProved
<1>6. ServiceInv => ConversationsHold
  BY OneThread, SentIsStored, ListsOpen DEF ServiceInv, ConversationsHold
<1> QED BY <1>1, <1>2, <1>3, <1>4, <1>5, <1>6, ServiceInductive, PTL

\* In the composition, too, the deliveries are ones that EventDelivery allows.
THEOREM ServiceDeliveryRefinement == Spec => ImplementsEventDelivery
<1>1. Init => WebhookInit
  BY DEF Init
<1>2. [Next]_serviceVars => [WebhookNext]_vars_wd
  BY ServiceMoves
<1> QED BY <1>1, <1>2, DeliveryRefinement, PTL DEF Spec, WebhookSpec
=============================================================================
