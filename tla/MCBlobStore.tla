----------------------------- MODULE MCBlobStore -----------------------------
(* Two inboxes whose messages share an attachment.                         *)
EXTENDS BlobStore, TLC

CONSTANTS m1, m2, m3, b1, b2, i1, i2

\* The first message has a blob of its own; the others differ by their inbox.
SharedBlobs == [m \in Messages |-> IF m = m1 THEN {b1, b2} ELSE {b1}]
TwoInboxes == [m \in Messages |-> IF m = m3 THEN i2 ELSE i1]
=============================================================================
