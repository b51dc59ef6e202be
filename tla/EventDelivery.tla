---------------------------- MODULE EventDelivery ----------------------------
(***************************************************************************)
(* What the owner of a mailbox can rely on of webhooks, without webhooks,  *)
(* requests, lookups, tasks or crashes: an event is in the log before it   *)
(* has deliveries; a delivery is begun once, posted a bounded number of    *)
(* times while its row is not settled, and never again once it is; and the *)
(* row says how many posts there were and what came of the last.  A        *)
(* delivery may stop for ever at any point.                                *)
(***************************************************************************)
EXTENDS Naturals, Sequences

CONSTANTS Hooks, Events, MaxAttempts, NoRow

VARIABLES
  told,   \* the events in the log
  rows,   \* the delivery rows, by webhook and event
  posts   \* the receiver's verdicts on the posts of each delivery

vars == <<told, rows, posts>>

Pairs == Hooks \X Events

Init ==
  /\ told = {}
  /\ rows = [p \in Pairs |-> NoRow]
  /\ posts = [p \in Pairs |-> <<>>]

Begun(p) == rows[p] # NoRow
Open(p) == Begun(p) /\ rows[p].status \in {"pending", "retrying"}
SaysOf(p, status, attempts) ==
  /\ rows' = [rows EXCEPT ![p] = [status |-> status, attempts |-> attempts]]
  /\ UNCHANGED <<told, posts>>

Tell(e) ==
  /\ told' = told \cup {e}
  /\ UNCHANGED <<rows, posts>>

Begin(p) == p[2] \in told /\ ~Begun(p) /\ SaysOf(p, "pending", 0)

Attempt(p, verdict) ==
  /\ Open(p) /\ Len(posts[p]) < MaxAttempts
  /\ posts' = [posts EXCEPT ![p] = Append(@, verdict)]
  /\ UNCHANGED <<told, rows>>

WillRetry(p) == Open(p) /\ posts[p] # <<>> /\ SaysOf(p, "retrying", Len(posts[p]))

Deliver(p) ==
  /\ Open(p) /\ posts[p] # <<>> /\ posts[p][Len(posts[p])] = "accepted"
  /\ SaysOf(p, "delivered", Len(posts[p]))

GiveUp(p) == Open(p) /\ SaysOf(p, "failed", MaxAttempts)

Next ==
  \/ \E e \in Events : Tell(e)
  \/ \E p \in Pairs :
       \/ Begin(p) \/ WillRetry(p) \/ Deliver(p) \/ GiveUp(p)
       \/ \E verdict \in {"accepted", "refused"} : Attempt(p, verdict)

Spec == Init /\ [][Next]_vars
=============================================================================
