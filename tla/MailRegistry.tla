---------------------------- MODULE MailRegistry ----------------------------
(***************************************************************************)
(* Inboxes, pods and domains: the registry tables of                       *)
(* src/backend/src/store.rs and the routes over them in                    *)
(* src/backend/src/api.rs.                                                 *)
(*                                                                         *)
(* An address stands for its normalised spelling; a store of an older      *)
(* version may hold two inboxes of one address, which keeps the unique     *)
(* index from being made until one of them is deleted and the store opened *)
(* again.  Creating a pod looks its client id up in one call and inserts   *)
(* in another; a domain patch reads, changes and writes back.              *)
(***************************************************************************)
EXTENDS Naturals, FiniteSets

CONSTANTS
  InboxIds, PodIds, Addresses, ClientIds,
  LegacyInboxes,   \* ids of rows an older version wrote
  Callers,         \* concurrent requests of more than one store call
  MaxRegistrySteps,
  NoRecord, NoClient, NoPod

ASSUME RegistryBounds ==
  /\ LegacyInboxes \subseteq InboxIds
  /\ MaxRegistrySteps \in Nat /\ NoClient \notin ClientIds /\ NoPod \notin PodIds

VARIABLES
  inboxes,   \* table inboxes
  pods,      \* table pods
  domain,    \* one row of table domains: its status and flags
  indexed,   \* idx_inboxes_address exists
  caller,    \* pod creations and domain patches in progress
  answered,  \* history: the rows that 2xx answers to a create with a client id named
  moved      \* changes so far

vars_mr == <<inboxes, pods, domain, indexed, caller, answered, moved>>

Inbox_ == [address: Addresses, client: ClientIds \cup {NoClient}, pod: PodIds \cup {NoPod}, at: Nat]

ASSUME IdsAreDistinct ==
  /\ InboxIds \cap PodIds = {}
  /\ NoRecord \notin Inbox_ /\ NoRecord \notin ClientIds \cup {NoClient}

DomainRow == [status: {"pending", "verified", "failed"}, tracking: BOOLEAN]
Call == [kind: {"none", "pod", "domain"}, client: ClientIds \cup {NoClient}, copy: DomainRow \cup {NoRecord}]

RegistryTypeOK ==
  /\ inboxes \in [InboxIds -> Inbox_ \cup {NoRecord}]
  /\ pods \in [PodIds -> ClientIds \cup {NoClient, NoRecord}]
  /\ domain \in DomainRow
  /\ indexed \in BOOLEAN
  /\ caller \in [Callers -> Call]
  /\ answered \in SUBSET ((InboxIds \cup PodIds) \X ClientIds)
  /\ moved \in 0..MaxRegistrySteps

Present(i) == inboxes[i] # NoRecord
Twins(i, j) == i # j /\ Present(i) /\ Present(j) /\ inboxes[i].address = inboxes[j].address
NoTwins == ~\E i, j \in InboxIds : Twins(i, j)
Waiting == [kind |-> "none", client |-> NoClient, copy |-> NoRecord]

\* A store of an older version, as open leaves it: the index of addresses only
\* over an inbox table without duplicates, the one of client ids always.
RegistryInit ==
  /\ \E address \in [LegacyInboxes -> Addresses],
        client \in [LegacyInboxes -> ClientIds \cup {NoClient}],
        at \in [LegacyInboxes -> {0, 1}] :
       /\ \A i, j \in LegacyInboxes : i # j /\ client[i] = client[j] => client[i] = NoClient
       /\ inboxes = [i \in InboxIds |->
            IF i \in LegacyInboxes
            THEN [address |-> address[i], client |-> client[i], pod |-> NoPod, at |-> at[i]]
            ELSE NoRecord]
  /\ pods = [p \in PodIds |-> NoRecord]
  /\ domain = [status |-> "pending", tracking |-> FALSE]
  /\ indexed = NoTwins
  /\ answered = {} /\ moved = 0
  /\ caller = [c \in Callers |-> Waiting]

Tick == moved < MaxRegistrySteps /\ moved' = moved + 1

\* create_inbox_once: the client id, then the address, then the insert, under one
\* lock.  Existing is the oldest inbox of the client id.
OldestOf(client) ==
  CHOOSE i \in InboxIds : /\ Present(i) /\ inboxes[i].client = client
    /\ \A j \in InboxIds : Present(j) /\ inboxes[j].client = client => inboxes[i].at <= inboxes[j].at
Known(client) == client # NoClient /\ \E i \in InboxIds : Present(i) /\ inboxes[i].client = client
Taken(address) == \E i \in InboxIds : Present(i) /\ inboxes[i].address = address

CreateInbox(i, address, client, pod) ==
  /\ Tick
  /\ \/ /\ Known(client)
        /\ answered' = answered \cup {<<OldestOf(client), client>>}
        /\ UNCHANGED inboxes
     \/ /\ ~Known(client) /\ ~Taken(address)
        /\ ~Present(i) /\ i \notin LegacyInboxes
        /\ inboxes' = [inboxes EXCEPT ![i] =
             [address |-> address, client |-> client, pod |-> pod, at |-> moved + 2]]
        /\ answered' = IF client = NoClient THEN answered ELSE answered \cup {<<i, client>>}
  /\ UNCHANGED <<pods, domain, indexed, caller>>

\* patch_inbox moves an inbox to a pod, which nobody looks up; the address stays.
PatchInbox(i, pod) ==
  /\ Tick /\ Present(i)
  /\ inboxes' = [inboxes EXCEPT ![i].pod = pod]
  /\ UNCHANGED <<pods, domain, indexed, caller, answered>>

\* Ids are never used twice: what was answered with a deleted row's id is forgotten.
DeleteInbox(i) ==
  /\ Tick /\ Present(i)
  /\ inboxes' = [inboxes EXCEPT ![i] = NoRecord]
  /\ answered' = {a \in answered : a[1] # i}
  /\ UNCHANGED <<pods, domain, indexed, caller>>

\* ensure_unique_inbox_addresses at the next open.
Reopen ==
  /\ Tick
  /\ indexed' = (indexed \/ NoTwins)
  /\ caller' = [c \in Callers |-> Waiting]
  /\ UNCHANGED <<inboxes, pods, domain, answered>>

(***************************************************************************)
(* Pods and domains.                                                       *)
(***************************************************************************)
PodOf(client) == {p \in PodIds : pods[p] = client}

\* create_pod: the lookup by client id answers an existing pod; the insert comes
\* later, and the unique client id refuses it when another came first.
LookUpPod(c, client) ==
  /\ Tick /\ caller[c] = Waiting
  /\ IF client # NoClient /\ PodOf(client) # {}
     THEN /\ answered' = answered \cup {<<p, client>> : p \in PodOf(client)}
          /\ UNCHANGED caller
     ELSE /\ caller' = [caller EXCEPT ![c] = [Waiting EXCEPT !.kind = "pod", !.client = client]]
          /\ UNCHANGED answered
  /\ UNCHANGED <<inboxes, pods, domain, indexed>>

\* Mutant of InsertPod: the client id is not unique.
InsertPodAnyway(c, p) ==
  LET client == caller[c].client IN
  /\ caller[c].kind = "pod" /\ pods[p] = NoRecord
  /\ caller' = [caller EXCEPT ![c] = Waiting]
  /\ pods' = [pods EXCEPT ![p] = client]
  /\ answered' = IF client = NoClient THEN answered ELSE answered \cup {<<p, client>>}
  /\ UNCHANGED <<inboxes, domain, indexed, moved>>

InsertPod(c, p) ==
  LET client == caller[c].client IN
  /\ caller[c].kind = "pod" /\ pods[p] = NoRecord
  /\ caller' = [caller EXCEPT ![c] = Waiting]
  /\ IF client # NoClient /\ PodOf(client) # {}
     THEN UNCHANGED <<pods, answered>>
     ELSE /\ pods' = [pods EXCEPT ![p] = client]
          /\ answered' = IF client = NoClient THEN answered ELSE answered \cup {<<p, client>>}
  /\ UNCHANGED <<inboxes, domain, indexed, moved>>

\* delete_pod refuses a pod that has inboxes.
DeletePod(p) ==
  /\ Tick /\ pods[p] # NoRecord
  /\ ~\E i \in InboxIds : Present(i) /\ inboxes[i].pod = p
  /\ pods' = [pods EXCEPT ![p] = NoRecord]
  /\ answered' = {a \in answered : a[1] # p}
  /\ UNCHANGED <<inboxes, domain, indexed, caller>>

ReadDomain(c) ==
  /\ Tick /\ caller[c] = Waiting
  /\ caller' = [caller EXCEPT ![c] = [Waiting EXCEPT !.kind = "domain", !.copy = domain]]
  /\ UNCHANGED <<inboxes, pods, domain, indexed, answered>>

\* update_domain: the fields the body names over the copy.
WriteDomain(c) ==
  /\ caller[c].kind = "domain"
  /\ \E status \in {"pending", "verified", "failed"}, tracking \in BOOLEAN :
       domain' \in {[caller[c].copy EXCEPT !.status = status],
                    [caller[c].copy EXCEPT !.tracking = tracking]}
  /\ caller' = [caller EXCEPT ![c] = Waiting]
  /\ UNCHANGED <<inboxes, pods, indexed, answered, moved>>

RegistryNext ==
  \/ \E i \in InboxIds, address \in Addresses, client \in ClientIds \cup {NoClient},
        pod \in PodIds \cup {NoPod} : CreateInbox(i, address, client, pod)
  \/ \E i \in InboxIds, pod \in PodIds : PatchInbox(i, pod)
  \/ \E i \in InboxIds : DeleteInbox(i)
  \/ Reopen
  \/ \E c \in Callers, client \in ClientIds \cup {NoClient} : LookUpPod(c, client)
  \/ \E c \in Callers, p \in PodIds : InsertPod(c, p)
  \/ \E p \in PodIds : DeletePod(p)
  \/ \E c \in Callers : ReadDomain(c) \/ WriteDomain(c)

RegistrySpec == RegistryInit /\ [][RegistryNext]_vars_mr

(***************************************************************************)
(* Properties.                                                             *)
(***************************************************************************)
\* Mail for an address has one inbox to go to: two inboxes share an address only
\* if an older version wrote both, and never under the unique index.  (An insert
\* the index would refuse is thus never tried.)
DuplicatesAreLegacy ==
  \A i, j \in InboxIds : Twins(i, j) => {i, j} \subseteq LegacyInboxes /\ ~indexed

\* The answers that name a row for a create with one client id name one row, as
\* long as it is there: of two creates in flight together, or a retry, none is told
\* of a second one.  (Of two inboxes the later create is answered with the first
\* one's row; of two pods that passed the lookup together it is refused with 409.)
ClientNamesOneRow ==
  \A a, b \in answered :
    a[2] = b[2] /\ (a[1] \in InboxIds <=> b[1] \in InboxIds) => a = b

\* An address and a client id each lead to one row (create_inbox_once,
\* create_pod_once and the unique indexes, whatever older versions left).
RegistryIsUnambiguous == DuplicatesAreLegacy /\ ClientNamesOneRow
=============================================================================
