------------------------------- MODULE SyncedLog -------------------------------
(***************************************************************************)
(* What an append-only log promises its owner, without frames, writers,    *)
(* scans or files: a reader finds the records that were added, each once   *)
(* and in order; what is lost is lost from the end, and never what was     *)
(* synced; a copy has all that a reader finds.  An owner that writes on    *)
(* behind a failed append damages the log: nothing is synced any more, but *)
(* what a reader finds still changes in no other way.                      *)
(***************************************************************************)
EXTENDS Naturals, Sequences

CONSTANTS
  Records,
  NoCopy     \* there is no copy yet

VARIABLES
  entries,   \* what a reader of the log finds
  synced,    \* what is promised to be found after any failure
  copy,      \* what a reader of the copy finds
  damaged    \* the owner wrote on behind a failed append

vars == <<entries, synced, copy, damaged>>

Init ==
  /\ entries = <<>> /\ synced = <<>>
  /\ copy = NoCopy /\ damaged = FALSE

Add(r) ==
  /\ \A i \in 1..Len(entries) : entries[i] # r
  /\ entries' = Append(entries, r)
  /\ UNCHANGED <<synced, copy, damaged>>

Sync ==
  /\ ~damaged
  /\ synced' = entries
  /\ UNCHANGED <<entries, copy, damaged>>

Lose(n) ==
  /\ entries' = SubSeq(entries, 1, n)
  /\ UNCHANGED <<synced, copy, damaged>>

MakeCopy ==
  /\ copy' = entries
  /\ UNCHANGED <<entries, synced, damaged>>

Damage ==
  /\ damaged' = TRUE /\ synced' = <<>>
  /\ UNCHANGED <<entries, copy>>

Next ==
  \/ \E r \in Records : Add(r)
  \/ Sync
  \/ \E n \in Len(synced)..Len(entries) : Lose(n)
  \/ MakeCopy
  \/ Damage

Spec == Init /\ [][Next]_vars
=============================================================================
