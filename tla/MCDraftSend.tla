----------------------------- MODULE MCDraftSend -----------------------------
(* TLC instances of DraftSend. *)
EXTENDS DraftSend, TLC

\* Requests and drafts are interchangeable (safety runs only).
Symmetry == Permutations(Handlers) \cup Permutations(Drafts \ Unreadable)
=============================================================================
