------------------------------- MODULE SendKey -------------------------------
(***************************************************************************)
(* What an idempotency key promises the caller of a keyed send, without    *)
(* processes, drafts, lookups or failures: intent is recorded before the   *)
(* message leaves, the message leaves at most once, and only a message     *)
(* that left is acknowledged.  A key may stop for ever in any phase: a     *)
(* pending claim survives restarts and never expires.                      *)
(***************************************************************************)
EXTENDS Naturals

CONSTANT Keys

VARIABLES
  phase,       \* [Keys -> {"fresh", "pending", "acknowledged"}]
  deliveries   \* [Keys -> Nat]: messages that left under the key

vars == <<phase, deliveries>>

Init ==
  /\ phase = [k \in Keys |-> "fresh"]
  /\ deliveries = [k \in Keys |-> 0]

Claim(k) ==
  /\ phase[k] = "fresh"
  /\ phase' = [phase EXCEPT ![k] = "pending"]
  /\ UNCHANGED deliveries

Deliver(k) ==
  /\ phase[k] = "pending"
  /\ deliveries[k] = 0
  /\ deliveries' = [deliveries EXCEPT ![k] = 1]
  /\ UNCHANGED phase

Acknowledge(k) ==
  /\ phase[k] = "pending"
  /\ deliveries[k] = 1
  /\ phase' = [phase EXCEPT ![k] = "acknowledged"]
  /\ UNCHANGED deliveries

Next == \E k \in Keys : Claim(k) \/ Deliver(k) \/ Acknowledge(k)

Spec == Init /\ [][Next]_vars
=============================================================================
