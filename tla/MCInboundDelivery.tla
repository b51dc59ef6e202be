--------------------------- MODULE MCInboundDelivery ---------------------------
(* Values and symmetry for TLC.                                             *)
EXTENDS InboundDelivery, TLC

CONSTANTS m1, m2, id1

\* Two mails with one Message-ID, as a relay that adds a header sends them.
SharedId == [m \in Mails |-> id1]

\* What a run explores: the first mail alone over the whole time, and both mails
\* while the first timestamp is in its window.
OneMail ==
  /\ \A d \in unfinished \cup answered : d.mail = m1
  /\ \A h \in Handlers : req[h] # NoPost => req[h].mail = m1
  /\ everStored \subseteq {m1}
  /\ faults = 0
InWindowOnly ==
  /\ clock = high /\ high <= 1 /\ ~stampNeeded
  /\ \A d \in unfinished : d.at <= 1
Focus == OneMail \/ InWindowOnly

Symmetry == Permutations(Handlers)
=============================================================================
