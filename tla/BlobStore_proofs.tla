-------------------------- MODULE BlobStore_proofs --------------------------
(***************************************************************************)
(* Proofs about BlobStore.  The invariant is the conjunction of small ones, *)
(* each about a few variables, and each with a lemma that a step preserves *)
(* it: the actions that change those variables one by one, the others at   *)
(* once.                                                                   *)
(***************************************************************************)
EXTENDS BlobStore, TLAPS

-----------------------------------------------------------------------------
(* Types                                                                   *)

LEMMA Records ==
  /\ Idle \in Downloads /\ Asleep \in Seals
  /\ Idle.at = "idle" /\ Asleep.at = "idle"
  /\ \A d \in Downloads : d.msg \in Messages \cup {NoMessage}
                         /\ d.blob \in Blobs \cup {NoBlob} /\ d.got \in Forms
BY DEF Idle, Asleep, Downloads, Seals, Forms

DbType == /\ inboxes \in SUBSET Inboxes /\ rows \in SUBSET Messages
          /\ queue \in SUBSET Blobs /\ keyed \in BOOLEAN
FileType == file \in [Blobs -> Forms]
LockType == /\ mode \in Modes /\ task \in {"none", "insert", "drain"}
            /\ msg \in Messages \cup {NoMessage}
            /\ todo \in SUBSET Blobs /\ done \in SUBSET Blobs
            /\ writing \in Blobs \cup {NoBlob}
SealType == sealer \in Seals /\ (sealer.at # "idle" => sealer.blob \in Blobs)
ReadType == /\ reader \in [Readers -> Downloads]
            /\ \A r \in Readers : reader[r].at # "idle" => /\ reader[r].msg \in Messages
                                                        /\ reader[r].blob \in Blobs
PastType == /\ spent \in SUBSET Messages
            /\ starts \in 0..MaxStarts /\ faults \in 0..MaxFaults
            /\ shorts \in 0..MaxShort
            /\ cut \in SUBSET Blobs /\ raced \in SUBSET Blobs /\ stray \in SUBSET Blobs

TypeInv == DbType /\ FileType /\ LockType /\ SealType /\ ReadType /\ PastType

\* A download leaves everything else alone.
others == <<db, keyed, file, mode, lock, sealer, bounds, history>>

LEMMA ReadFrame == \A r \in Readers : Read(r) => UNCHANGED others
BY DEF Read, ReadName, ReadOpen, ReadClose, ReadEnds, others

\* What the holder of the connection lock and the mode imply.
Holds ==
  /\ msg \in Messages /\ msg \in spent /\ msg \notin rows
  /\ todo \subseteq BlobsOf[msg]
  /\ mode \in {"compat", "sealing"}

LockInv ==
  /\ rows \subseteq spent
  /\ mode = "off" => task = "none"
  /\ task = "insert" => Holds
  /\ writing # NoBlob => task = "insert" /\ mode = "compat" /\ writing \in todo
  /\ mode = "compat" => ~keyed
  /\ mode = "sealing" => keyed

LEMMA DbTypeStep ==
  TypeInv /\ LockInv /\ [Next]_vars => DbType'
<1> SUFFICES ASSUME TypeInv, LockInv, [Next]_vars PROVE DbType'
  OBVIOUS
<1>1. CASE InsertCommits
  <2>1. msg \in Messages
    BY <1>1 DEF InsertCommits, LockInv, Holds
  <2>2. QED
    BY <1>1, <2>1 DEF InsertCommits, TypeInv, DbType
<1>2. ASSUME NEW m \in Messages, DeleteMessage(m) PROVE DbType'
  BY <1>2, BlobShape DEF TypeInv, DbType, LockType, FileType, DeleteMessage
<1>3. ASSUME NEW i \in Inboxes, DeleteInbox(i) PROVE DbType'
  BY <1>3, BlobShape DEF TypeInv, DbType, LockType, FileType, DeleteInbox
<1>4. CASE DrainCommits
  BY <1>4, BlobShape DEF TypeInv, DbType, LockType, FileType, DrainCommits
<1>5. ASSUME NEW key \in BOOLEAN, NEW stuck \in SUBSET Blobs, Start(key, stuck) PROVE DbType'
  BY <1>5, BlobShape DEF TypeInv, DbType, LockType, FileType, Start
<1>6. ASSUME UNCHANGED <<inboxes, rows, queue, keyed>> PROVE DbType'
  BY <1>6 DEF DbType, TypeInv
<1>7. ASSUME
           \/ (\E m \in Messages : BeginInsert(m))
           \/ (\E n \in Blobs : BlobExists(n))
           \/ (\E n \in Blobs : WriteSealed(n))
           \/ (\E n \in Blobs : BeginPlain(n))
           \/ EndPlain
           \/ CutShort
           \/ InsertFails
           \/ (\E n \in Blobs : DrainKeeps(n))
           \/ (\E n \in Blobs : DrainRemoves(n))
           \/ (\E n \in Blobs : DrainFails(n))
           \/ DrainRollsBack
           \/ Stop
           \/ (\E n \in Blobs : SealCheck(n))
           \/ SealCopy
           \/ SealReplace
           \/ SealGivesUp
           \/ UNCHANGED vars
      PROVE  UNCHANGED <<inboxes, rows, queue, keyed>>
  BY <1>7 DEF BeginInsert, BlobExists, WriteSealed, BeginPlain, EndPlain,
     CutShort, InsertFails, DrainKeeps, DrainRemoves, DrainFails, DrainRollsBack,
     Stop, SealCheck, SealCopy, SealReplace, SealGivesUp, BeginDrain, db, lock,
     bounds, history, vars
<1>8. ASSUME NEW r \in Readers, Read(r) PROVE UNCHANGED <<inboxes, rows, queue, keyed>>
  BY <1>8, ReadFrame DEF others, db, lock, bounds, history
<1>9. QED
  BY <1>1, <1>2, <1>3, <1>4, <1>5, <1>6, <1>7, <1>8 DEF Next, Insert, Delete,
     Process, Seal

LEMMA FileTypeStep ==
  TypeInv /\ [Next]_vars => FileType'
<1> SUFFICES ASSUME TypeInv, [Next]_vars PROVE FileType'
  OBVIOUS
<1>1. ASSUME NEW n \in Blobs, WriteSealed(n) PROVE FileType'
  BY <1>1 DEF TypeInv, FileType, LockType, Forms, WriteSealed
<1>2. ASSUME NEW n \in Blobs, BeginPlain(n) PROVE FileType'
  BY <1>2 DEF TypeInv, FileType, LockType, Forms, BeginPlain
<1>3. CASE EndPlain
  BY <1>3 DEF TypeInv, FileType, LockType, Forms, EndPlain
<1>4. ASSUME NEW n \in Blobs, DrainRemoves(n) PROVE FileType'
  BY <1>4 DEF TypeInv, FileType, LockType, Forms, DrainRemoves
<1>5. ASSUME NEW key \in BOOLEAN, NEW stuck \in SUBSET Blobs, Start(key, stuck) PROVE FileType'
  BY <1>5 DEF TypeInv, FileType, LockType, Forms, Start
<1>6. CASE SealReplace
  BY <1>6 DEF TypeInv, FileType, LockType, Forms, SealReplace
<1>7. ASSUME UNCHANGED file PROVE FileType'
  BY <1>7 DEF FileType, TypeInv
<1>8. ASSUME
           \/ (\E m \in Messages : BeginInsert(m))
           \/ (\E n \in Blobs : BlobExists(n))
           \/ CutShort
           \/ InsertFails
           \/ InsertCommits
           \/ (\E m \in Messages : DeleteMessage(m))
           \/ (\E i \in Inboxes : DeleteInbox(i))
           \/ (\E n \in Blobs : DrainKeeps(n))
           \/ (\E n \in Blobs : DrainFails(n))
           \/ DrainCommits
           \/ DrainRollsBack
           \/ Stop
           \/ (\E n \in Blobs : SealCheck(n))
           \/ SealCopy
           \/ SealGivesUp
           \/ UNCHANGED vars
      PROVE  UNCHANGED file
  BY <1>8 DEF BeginInsert, BlobExists, CutShort, InsertFails, InsertCommits,
     DeleteMessage, DeleteInbox, DrainKeeps, DrainFails, DrainCommits,
     DrainRollsBack, Stop, SealCheck, SealCopy, SealGivesUp, BeginDrain, db, lock,
     bounds, history, vars
<1>9. ASSUME NEW r \in Readers, Read(r) PROVE UNCHANGED file
  BY <1>9, ReadFrame DEF others, db, lock, bounds, history
<1>10. QED
  BY <1>1, <1>2, <1>3, <1>4, <1>5, <1>6, <1>7, <1>8, <1>9 DEF Next, Insert,
     Delete, Process, Seal

LEMMA LockTypeStep ==
  TypeInv /\ [Next]_vars => LockType'
<1> SUFFICES ASSUME TypeInv, [Next]_vars PROVE LockType'
  OBVIOUS
<1>1. ASSUME NEW m \in Messages, BeginInsert(m) PROVE LockType'
  BY <1>1, BlobShape DEF TypeInv, LockType, DbType, Release, BeginDrain, lock,
     Modes, BeginInsert
<1>2. ASSUME NEW n \in Blobs, BlobExists(n) PROVE LockType'
  BY <1>2, BlobShape DEF TypeInv, LockType, DbType, Release, BeginDrain, lock,
     Modes, BlobExists
<1>3. ASSUME NEW n \in Blobs, WriteSealed(n) PROVE LockType'
  BY <1>3, BlobShape DEF TypeInv, LockType, DbType, Release, BeginDrain, lock,
     Modes, WriteSealed
<1>4. ASSUME NEW n \in Blobs, BeginPlain(n) PROVE LockType'
  BY <1>4, BlobShape DEF TypeInv, LockType, DbType, Release, BeginDrain, lock,
     Modes, BeginPlain
<1>5. CASE EndPlain
  BY <1>5, BlobShape DEF TypeInv, LockType, DbType, Release, BeginDrain, lock,
     Modes, EndPlain
<1>6. CASE CutShort
  BY <1>6, BlobShape DEF TypeInv, LockType, DbType, Release, BeginDrain, lock,
     Modes, CutShort
<1>7. CASE InsertFails
  BY <1>7, BlobShape DEF TypeInv, LockType, DbType, Release, BeginDrain, lock,
     Modes, InsertFails
<1>8. CASE InsertCommits
  BY <1>8, BlobShape DEF TypeInv, LockType, DbType, Release, BeginDrain, lock,
     Modes, InsertCommits
<1>9. ASSUME NEW m \in Messages, DeleteMessage(m) PROVE LockType'
  BY <1>9, BlobShape DEF TypeInv, LockType, DbType, Release, BeginDrain, lock,
     Modes, DeleteMessage
<1>10. ASSUME NEW i \in Inboxes, DeleteInbox(i) PROVE LockType'
  BY <1>10, BlobShape DEF TypeInv, LockType, DbType, Release, BeginDrain, lock,
     Modes, DeleteInbox
<1>11. ASSUME NEW n \in Blobs, DrainKeeps(n) PROVE LockType'
  BY <1>11, BlobShape DEF TypeInv, LockType, DbType, Release, BeginDrain, lock,
     Modes, DrainKeeps
<1>12. ASSUME NEW n \in Blobs, DrainRemoves(n) PROVE LockType'
  BY <1>12, BlobShape DEF TypeInv, LockType, DbType, Release, BeginDrain, lock,
     Modes, DrainRemoves
<1>13. ASSUME NEW n \in Blobs, DrainFails(n) PROVE LockType'
  BY <1>13, BlobShape DEF TypeInv, LockType, DbType, Release, BeginDrain, lock,
     Modes, DrainFails
<1>14. CASE DrainCommits
  BY <1>14, BlobShape DEF TypeInv, LockType, DbType, Release, BeginDrain, lock,
     Modes, DrainCommits
<1>15. CASE DrainRollsBack
  BY <1>15, BlobShape DEF TypeInv, LockType, DbType, Release, BeginDrain, lock,
     Modes, DrainRollsBack
<1>16. CASE Stop
  BY <1>16, BlobShape DEF TypeInv, LockType, DbType, Release, BeginDrain, lock,
     Modes, Stop
<1>17. ASSUME NEW key \in BOOLEAN, NEW stuck \in SUBSET Blobs, Start(key, stuck) PROVE LockType'
  BY <1>17, BlobShape DEF TypeInv, LockType, DbType, Release, BeginDrain, lock,
     Modes, Start
<1>18. ASSUME UNCHANGED <<mode, lock>> PROVE LockType'
  BY <1>18 DEF LockType, lock, TypeInv
<1>19. ASSUME
           \/ (\E n \in Blobs : SealCheck(n))
           \/ SealCopy
           \/ SealReplace
           \/ SealGivesUp
           \/ UNCHANGED vars
      PROVE  UNCHANGED <<mode, lock>>
  BY <1>19 DEF SealCheck, SealCopy, SealReplace, SealGivesUp, BeginDrain, db,
     lock, bounds, history, vars
<1>20. ASSUME NEW r \in Readers, Read(r) PROVE UNCHANGED <<mode, lock>>
  BY <1>20, ReadFrame DEF others, db, lock, bounds, history
<1>21. QED
  BY <1>1, <1>2, <1>3, <1>4, <1>5, <1>6, <1>7, <1>8, <1>9, <1>10, <1>11, <1>12,
     <1>13, <1>14, <1>15, <1>16, <1>17, <1>18, <1>19, <1>20 DEF Next, Insert,
     Delete, Process, Seal

LEMMA SealTypeStep ==
  TypeInv /\ [Next]_vars => SealType'
<1> SUFFICES ASSUME TypeInv, [Next]_vars PROVE SealType'
  OBVIOUS
<1>1. CASE Stop
  BY <1>1, Records DEF TypeInv, SealType, FileType, Seals, Forms, Stop
<1>2. ASSUME NEW n \in Blobs, SealCheck(n) PROVE SealType'
  BY <1>2, Records DEF TypeInv, SealType, FileType, Seals, Forms, SealCheck
<1>3. CASE SealCopy
  BY <1>3, Records DEF TypeInv, SealType, FileType, Seals, Forms, SealCopy
<1>4. CASE SealReplace
  BY <1>4, Records DEF TypeInv, SealType, FileType, Seals, Forms, SealReplace
<1>5. CASE SealGivesUp
  BY <1>5, Records DEF TypeInv, SealType, FileType, Seals, Forms, SealGivesUp
<1>6. ASSUME UNCHANGED sealer PROVE SealType'
  BY <1>6 DEF SealType, TypeInv
<1>7. ASSUME
           \/ (\E m \in Messages : BeginInsert(m))
           \/ (\E n \in Blobs : BlobExists(n))
           \/ (\E n \in Blobs : WriteSealed(n))
           \/ (\E n \in Blobs : BeginPlain(n))
           \/ EndPlain
           \/ CutShort
           \/ InsertFails
           \/ InsertCommits
           \/ (\E m \in Messages : DeleteMessage(m))
           \/ (\E i \in Inboxes : DeleteInbox(i))
           \/ (\E n \in Blobs : DrainKeeps(n))
           \/ (\E n \in Blobs : DrainRemoves(n))
           \/ (\E n \in Blobs : DrainFails(n))
           \/ DrainCommits
           \/ DrainRollsBack
           \/ (\E key \in BOOLEAN, stuck \in SUBSET Blobs : Start(key, stuck))
           \/ UNCHANGED vars
      PROVE  UNCHANGED sealer
  BY <1>7 DEF BeginInsert, BlobExists, WriteSealed, BeginPlain, EndPlain,
     CutShort, InsertFails, InsertCommits, DeleteMessage, DeleteInbox, DrainKeeps,
     DrainRemoves, DrainFails, DrainCommits, DrainRollsBack, Start, BeginDrain,
     db, lock, bounds, history, vars
<1>8. ASSUME NEW r \in Readers, Read(r) PROVE UNCHANGED sealer
  BY <1>8, ReadFrame DEF others, db, lock, bounds, history
<1>9. QED
  BY <1>1, <1>2, <1>3, <1>4, <1>5, <1>6, <1>7, <1>8 DEF Next, Insert, Delete,
     Process, Seal

LEMMA WrittenBlobs == LockInv /\ task = "insert" => Written \subseteq Blobs
BY BlobShape DEF LockInv, Holds, Written

LEMMA PastTypeStep ==
  TypeInv /\ LockInv /\ [Next]_vars => PastType'
<1> SUFFICES ASSUME TypeInv, LockInv, [Next]_vars PROVE PastType'
  OBVIOUS
<1>1. ASSUME NEW m \in Messages, BeginInsert(m) PROVE PastType'
  BY <1>1, Bounds, BlobShape DEF TypeInv, PastType, LockType, SealType, Fault,
     bounds, history, Release, BeginInsert
<1>2. CASE CutShort
  <2>1. stray' \in SUBSET Blobs
    BY <1>2, WrittenBlobs DEF CutShort, TypeInv, PastType, LockInv
  <2>2. spent' \in SUBSET Messages /\ cut' \in SUBSET Blobs /\ raced' \in SUBSET Blobs
    BY <1>2 DEF CutShort, TypeInv, PastType, LockType
  <2>3. /\ starts' \in 0..MaxStarts /\ faults' \in 0..MaxFaults
        /\ shorts' \in 0..MaxShort
    BY <1>2, Bounds DEF CutShort, TypeInv, PastType, Fault, bounds
  <2>4. QED
    BY <2>1, <2>2, <2>3 DEF PastType
<1>3. CASE InsertFails
  <2>1. stray' \in SUBSET Blobs
    BY <1>3, WrittenBlobs DEF InsertFails, TypeInv, PastType, LockInv
  <2>2. spent' \in SUBSET Messages /\ cut' \in SUBSET Blobs /\ raced' \in SUBSET Blobs
    BY <1>3 DEF InsertFails, TypeInv, PastType, LockType
  <2>3. /\ starts' \in 0..MaxStarts /\ faults' \in 0..MaxFaults
        /\ shorts' \in 0..MaxShort
    BY <1>3, Bounds DEF InsertFails, TypeInv, PastType, Fault, bounds
  <2>4. QED
    BY <2>1, <2>2, <2>3 DEF PastType
<1>4. CASE InsertCommits
  BY <1>4, Bounds, BlobShape DEF TypeInv, PastType, LockType, SealType, Fault,
     bounds, history, Release, InsertCommits
<1>5. ASSUME NEW n \in Blobs, DrainRemoves(n) PROVE PastType'
  BY <1>5, Bounds, BlobShape DEF TypeInv, PastType, LockType, SealType, Fault,
     bounds, history, Release, DrainRemoves
<1>6. ASSUME NEW n \in Blobs, DrainFails(n) PROVE PastType'
  BY <1>6, Bounds, BlobShape DEF TypeInv, PastType, LockType, SealType, Fault,
     bounds, history, Release, DrainFails
<1>7. CASE DrainRollsBack
  BY <1>7, Bounds, BlobShape DEF TypeInv, PastType, LockType, SealType, Fault,
     bounds, history, Release, DrainRollsBack
<1>8. CASE Stop
  <2>1. stray' \in SUBSET Blobs
    BY <1>8, WrittenBlobs DEF Stop, TypeInv, PastType, LockInv
  <2>2. spent' \in SUBSET Messages /\ cut' \in SUBSET Blobs /\ raced' \in SUBSET Blobs
    BY <1>8 DEF Stop, TypeInv, PastType, LockType
  <2>3. /\ starts' \in 0..MaxStarts /\ faults' \in 0..MaxFaults
        /\ shorts' \in 0..MaxShort
    BY <1>8, Bounds DEF Stop, TypeInv, PastType, Fault, bounds
  <2>4. QED
    BY <2>1, <2>2, <2>3 DEF PastType
<1>9. ASSUME NEW key \in BOOLEAN, NEW stuck \in SUBSET Blobs, Start(key, stuck) PROVE PastType'
  BY <1>9, Bounds, BlobShape DEF TypeInv, PastType, LockType, SealType, Fault,
     bounds, history, Release, Start
<1>10. CASE SealCopy
  BY <1>10, Bounds, BlobShape DEF TypeInv, PastType, LockType, SealType, Fault,
     bounds, history, Release, SealCopy
<1>11. CASE SealReplace
  BY <1>11, Bounds, BlobShape DEF TypeInv, PastType, LockType, SealType, Fault,
     bounds, history, Release, SealReplace
<1>12. ASSUME UNCHANGED <<bounds, history>> PROVE PastType'
  BY <1>12 DEF PastType, TypeInv, bounds, history
<1>13. ASSUME
           \/ (\E n \in Blobs : BlobExists(n))
           \/ (\E n \in Blobs : WriteSealed(n))
           \/ (\E n \in Blobs : BeginPlain(n))
           \/ EndPlain
           \/ (\E m \in Messages : DeleteMessage(m))
           \/ (\E i \in Inboxes : DeleteInbox(i))
           \/ (\E n \in Blobs : DrainKeeps(n))
           \/ DrainCommits
           \/ (\E n \in Blobs : SealCheck(n))
           \/ SealGivesUp
           \/ UNCHANGED vars
      PROVE  UNCHANGED <<bounds, history>>
  BY <1>13 DEF BlobExists, WriteSealed, BeginPlain, EndPlain, DeleteMessage,
     DeleteInbox, DrainKeeps, DrainCommits, SealCheck, SealGivesUp, BeginDrain,
     db, lock, bounds, history, vars
<1>14. ASSUME NEW r \in Readers, Read(r) PROVE UNCHANGED <<bounds, history>>
  BY <1>14, ReadFrame DEF others, db, lock, bounds, history
<1>15. QED
  BY <1>1, <1>2, <1>3, <1>4, <1>5, <1>6, <1>7, <1>8, <1>9, <1>10, <1>11, <1>12,
     <1>13, <1>14 DEF Next, Insert, Delete, Process, Seal

LEMMA ReadTypeStep == TypeInv /\ [Next]_vars => ReadType'
<1> SUFFICES ASSUME TypeInv, [Next]_vars PROVE ReadType'
  OBVIOUS
<1>1. ASSUME NEW r \in Readers, NEW m \in Messages, NEW n \in Blobs, ReadName(r, m, n)
      PROVE  ReadType'
  <2>1. [at |-> "named", msg |-> m, blob |-> n, got |-> "none"] \in Downloads
    BY DEF Downloads, Forms
  <2>2. QED
    BY <1>1, <2>1 DEF ReadName, TypeInv, ReadType
<1>2. ASSUME NEW r \in Readers, ReadOpen(r) PROVE ReadType'
  <2> DEFINE f == file[reader[r].blob]
             d == [reader[r] EXCEPT !.got = f, !.at = IF f = "none" THEN "failed" ELSE "open"]
  <2>1. reader' = [reader EXCEPT ![r] = d]
    BY <1>2 DEF ReadOpen, TypeInv, ReadType
  <2>2. f \in Forms
    BY <1>2 DEF ReadOpen, TypeInv, ReadType, FileType
  <2>3. d \in Downloads /\ d.msg = reader[r].msg /\ d.blob = reader[r].blob
    BY <2>2 DEF TypeInv, ReadType, Downloads
  <2>4. reader[r].at # "idle"
    BY <1>2 DEF ReadOpen
  <2> HIDE DEF d
  <2>5. QED
    BY <2>1, <2>3, <2>4 DEF TypeInv, ReadType
<1>3. ASSUME NEW r \in Readers, ReadClose(r) PROVE ReadType'
  BY <1>3 DEF ReadClose, TypeInv, ReadType, Downloads
<1>4. ASSUME NEW r \in Readers, ReadEnds(r) PROVE ReadType'
  BY <1>4, Records DEF ReadEnds, TypeInv, ReadType
<1>5. CASE Stop
  BY <1>5, Records DEF Stop, ReadType
<1>6. CASE Insert \/ Delete \/ Seal \/ UNCHANGED vars
           \/ \E key \in BOOLEAN, stuck \in SUBSET Blobs : Start(key, stuck)
  <2>1. UNCHANGED reader
    BY <1>6 DEF Insert, BeginInsert, BlobExists, WriteSealed, BeginPlain, EndPlain, CutShort,
       InsertFails, InsertCommits, Delete, DeleteMessage, DeleteInbox, DrainKeeps,
       DrainRemoves, DrainFails, DrainCommits, DrainRollsBack, Seal, SealCheck, SealCopy,
       SealReplace, SealGivesUp, Start, vars
  <2>2. QED
    BY <2>1 DEF TypeInv, ReadType
<1>7. QED
  BY <1>1, <1>2, <1>3, <1>4, <1>5, <1>6 DEF Next, Process, Read

LEMMA TypeStep == TypeInv /\ LockInv /\ [Next]_vars => TypeInv'
BY DbTypeStep, FileTypeStep, LockTypeStep, SealTypeStep, ReadTypeStep, PastTypeStep
   DEF TypeInv

-----------------------------------------------------------------------------
(* The lock                                                                *)

LEMMA LockInvStep ==
  TypeInv /\ LockInv /\ [Next]_vars => LockInv'
<1> SUFFICES ASSUME TypeInv, LockInv, [Next]_vars PROVE LockInv'
  OBVIOUS
<1>1. ASSUME NEW m \in Messages, BeginInsert(m) PROVE LockInv'
  BY <1>1, NoNames, BlobShape DEF LockInv, Holds, TypeInv, LockType, Release,
     BeginDrain, db, history, BeginInsert
<1>2. ASSUME NEW n \in Blobs, BlobExists(n) PROVE LockInv'
  BY <1>2, NoNames, BlobShape DEF LockInv, Holds, TypeInv, LockType, Release,
     BeginDrain, db, history, BlobExists
<1>3. ASSUME NEW n \in Blobs, WriteSealed(n) PROVE LockInv'
  BY <1>3, NoNames, BlobShape DEF LockInv, Holds, TypeInv, LockType, Release,
     BeginDrain, db, history, WriteSealed
<1>4. ASSUME NEW n \in Blobs, BeginPlain(n) PROVE LockInv'
  BY <1>4, NoNames, BlobShape DEF LockInv, Holds, TypeInv, LockType, Release,
     BeginDrain, db, history, BeginPlain
<1>5. CASE EndPlain
  BY <1>5, NoNames, BlobShape DEF LockInv, Holds, TypeInv, LockType, Release,
     BeginDrain, db, history, EndPlain
<1>6. CASE CutShort
  BY <1>6, NoNames, BlobShape DEF LockInv, Holds, TypeInv, LockType, Release,
     BeginDrain, db, history, CutShort
<1>7. CASE InsertFails
  BY <1>7, NoNames, BlobShape DEF LockInv, Holds, TypeInv, LockType, Release,
     BeginDrain, db, history, InsertFails
<1>8. CASE InsertCommits
  BY <1>8, NoNames, BlobShape DEF LockInv, Holds, TypeInv, LockType, Release,
     BeginDrain, db, history, InsertCommits
<1>9. ASSUME NEW m \in Messages, DeleteMessage(m) PROVE LockInv'
  BY <1>9, NoNames, BlobShape DEF LockInv, Holds, TypeInv, LockType, Release,
     BeginDrain, db, history, DeleteMessage
<1>10. ASSUME NEW i \in Inboxes, DeleteInbox(i) PROVE LockInv'
  BY <1>10, NoNames, BlobShape DEF LockInv, Holds, TypeInv, LockType, Release,
     BeginDrain, db, history, DeleteInbox
<1>11. ASSUME NEW n \in Blobs, DrainKeeps(n) PROVE LockInv'
  BY <1>11, NoNames, BlobShape DEF LockInv, Holds, TypeInv, LockType, Release,
     BeginDrain, db, history, DrainKeeps
<1>12. ASSUME NEW n \in Blobs, DrainRemoves(n) PROVE LockInv'
  BY <1>12, NoNames, BlobShape DEF LockInv, Holds, TypeInv, LockType, Release,
     BeginDrain, db, history, DrainRemoves
<1>13. ASSUME NEW n \in Blobs, DrainFails(n) PROVE LockInv'
  BY <1>13, NoNames, BlobShape DEF LockInv, Holds, TypeInv, LockType, Release,
     BeginDrain, db, history, DrainFails
<1>14. CASE DrainCommits
  BY <1>14, NoNames, BlobShape DEF LockInv, Holds, TypeInv, LockType, Release,
     BeginDrain, db, history, DrainCommits
<1>15. CASE DrainRollsBack
  BY <1>15, NoNames, BlobShape DEF LockInv, Holds, TypeInv, LockType, Release,
     BeginDrain, db, history, DrainRollsBack
<1>16. CASE Stop
  BY <1>16, NoNames, BlobShape DEF LockInv, Holds, TypeInv, LockType, Release,
     BeginDrain, db, history, Stop
<1>17. ASSUME NEW key \in BOOLEAN, NEW stuck \in SUBSET Blobs, Start(key, stuck) PROVE LockInv'
  <2>1. rows' = rows /\ spent' = spent /\ UNCHANGED lock /\ mode = "off"
    BY <1>17 DEF Start, history, db
  <2>2. task = "none" /\ writing = NoBlob
    BY <2>1 DEF LockInv
  <2>3. mode' = "compat" => ~keyed'
    BY <1>17 DEF Start
  <2>4. mode' = "sealing" => keyed'
    BY <1>17 DEF Start
  <2>5. mode' # "off"
    BY <1>17 DEF Start
  <2>6. QED
    BY <2>1, <2>2, <2>3, <2>4, <2>5 DEF LockInv, lock
<1>18. ASSUME UNCHANGED <<rows, keyed, mode, lock, spent>> PROVE LockInv'
  BY <1>18 DEF LockInv, Holds, lock
<1>19. ASSUME
           \/ (\E n \in Blobs : SealCheck(n))
           \/ SealCopy
           \/ SealReplace
           \/ SealGivesUp
           \/ UNCHANGED vars
      PROVE  UNCHANGED <<rows, keyed, mode, lock, spent>>
  BY <1>19 DEF SealCheck, SealCopy, SealReplace, SealGivesUp, BeginDrain, db,
     lock, bounds, history, vars
<1>20. ASSUME NEW r \in Readers, Read(r) PROVE UNCHANGED <<rows, keyed, mode, lock, spent>>
  BY <1>20, ReadFrame DEF others, db, lock, bounds, history
<1>21. QED
  BY <1>1, <1>2, <1>3, <1>4, <1>5, <1>6, <1>7, <1>8, <1>9, <1>10, <1>11, <1>12,
     <1>13, <1>14, <1>15, <1>16, <1>17, <1>18, <1>19, <1>20 DEF Next, Insert,
     Delete, Process, Seal

-----------------------------------------------------------------------------
(* The files                                                               *)

\* A file is short or sealed twice for one of the two reasons recorded, and
\* sealed only if the store has had a key.
FormInv ==
  \A n \in Blobs :
    /\ file[n] = "short" => n \in cut \/ n = writing
    /\ file[n] = "twice" => n \in raced
    /\ file[n] \in {"sealed", "twice"} => keyed

\* What the sealing thread has copied.
SealInv ==
  /\ sealer.at # "idle" => mode = "sealing"
  /\ sealer.at = "copy" =>
       /\ sealer.got = "short" => sealer.blob \in cut
       /\ sealer.got \notin {"plain", "short"} => sealer.blob \in raced

\* The files of committed messages, and those an insert has dealt with.
Present(n) == file[n] # "none" /\ n # writing
PresentInv ==
  /\ \A m \in rows : \A n \in BlobsOf[m] : Present(n)
  /\ task = "insert" => \A n \in BlobsOf[msg] \ todo : Present(n)

LEMMA SealInvStep ==
  TypeInv /\ LockInv /\ FormInv /\ SealInv /\ [Next]_vars => SealInv'
<1> SUFFICES ASSUME TypeInv, LockInv, FormInv, SealInv, [Next]_vars PROVE SealInv'
  OBVIOUS
<1>1. CASE CutShort
  BY <1>1, Records, NoNames DEF SealInv, TypeInv, SealType, FileType, LockInv,
     FormInv, Seals, Forms, CutShort
<1>2. CASE Stop
  BY <1>2, Records, NoNames DEF SealInv, TypeInv, SealType, FileType, LockInv,
     FormInv, Seals, Forms, Stop
<1>3. ASSUME NEW key \in BOOLEAN, NEW stuck \in SUBSET Blobs, Start(key, stuck) PROVE SealInv'
  BY <1>3, Records, NoNames DEF SealInv, TypeInv, SealType, FileType, LockInv,
     FormInv, Seals, Forms, Start
<1>4. ASSUME NEW n \in Blobs, SealCheck(n) PROVE SealInv'
  BY <1>4, Records, NoNames DEF SealInv, TypeInv, SealType, FileType, LockInv,
     FormInv, Seals, Forms, SealCheck
<1>5. CASE SealCopy
  BY <1>5, Records, NoNames DEF SealInv, TypeInv, SealType, FileType, LockInv,
     FormInv, Seals, Forms, SealCopy
<1>6. CASE SealReplace
  BY <1>6, Records, NoNames DEF SealInv, TypeInv, SealType, FileType, LockInv,
     FormInv, Seals, Forms, SealReplace
<1>7. CASE SealGivesUp
  BY <1>7, Records, NoNames DEF SealInv, TypeInv, SealType, FileType, LockInv,
     FormInv, Seals, Forms, SealGivesUp
<1>8. ASSUME UNCHANGED <<mode, sealer, cut, raced>> PROVE SealInv'
  BY <1>8 DEF SealInv
<1>9. ASSUME
           \/ (\E m \in Messages : BeginInsert(m))
           \/ (\E n \in Blobs : BlobExists(n))
           \/ (\E n \in Blobs : WriteSealed(n))
           \/ (\E n \in Blobs : BeginPlain(n))
           \/ EndPlain
           \/ InsertFails
           \/ InsertCommits
           \/ (\E m \in Messages : DeleteMessage(m))
           \/ (\E i \in Inboxes : DeleteInbox(i))
           \/ (\E n \in Blobs : DrainKeeps(n))
           \/ (\E n \in Blobs : DrainRemoves(n))
           \/ (\E n \in Blobs : DrainFails(n))
           \/ DrainCommits
           \/ DrainRollsBack
           \/ UNCHANGED vars
      PROVE  UNCHANGED <<mode, sealer, cut, raced>>
  BY <1>9 DEF BeginInsert, BlobExists, WriteSealed, BeginPlain, EndPlain,
     InsertFails, InsertCommits, DeleteMessage, DeleteInbox, DrainKeeps,
     DrainRemoves, DrainFails, DrainCommits, DrainRollsBack, BeginDrain, db, lock,
     bounds, history, vars
<1>10. ASSUME NEW r \in Readers, Read(r) PROVE UNCHANGED <<mode, sealer, cut, raced>>
  BY <1>10, ReadFrame DEF others, db, lock, bounds, history
<1>11. QED
  BY <1>1, <1>2, <1>3, <1>4, <1>5, <1>6, <1>7, <1>8, <1>9, <1>10 DEF Next, Insert,
     Delete, Process, Seal

LEMMA FormInvStep ==
  TypeInv /\ LockInv /\ FormInv /\ SealInv /\ [Next]_vars => FormInv'
<1> SUFFICES ASSUME TypeInv, LockInv, FormInv, SealInv, [Next]_vars PROVE FormInv'
  OBVIOUS
<1>1. ASSUME NEW n \in Blobs, WriteSealed(n) PROVE FormInv'
  BY <1>1, NoNames DEF FormInv, TypeInv, FileType, LockType, SealType, LockInv,
     SealInv, Release, lock, history, WriteSealed
<1>2. ASSUME NEW n \in Blobs, BeginPlain(n) PROVE FormInv'
  BY <1>2, NoNames DEF FormInv, TypeInv, FileType, LockType, SealType, LockInv,
     SealInv, Release, lock, history, BeginPlain
<1>3. CASE EndPlain
  BY <1>3, NoNames DEF FormInv, TypeInv, FileType, LockType, SealType, LockInv,
     SealInv, Release, lock, history, EndPlain
<1>4. CASE CutShort
  BY <1>4, NoNames DEF FormInv, TypeInv, FileType, LockType, SealType, LockInv,
     SealInv, Release, lock, history, CutShort
<1>5. CASE InsertFails
  BY <1>5, NoNames DEF FormInv, TypeInv, FileType, LockType, SealType, LockInv,
     SealInv, Release, lock, history, InsertFails
<1>6. CASE InsertCommits
  BY <1>6, NoNames DEF FormInv, TypeInv, FileType, LockType, SealType, LockInv,
     SealInv, Release, lock, history, InsertCommits
<1>7. ASSUME NEW n \in Blobs, DrainRemoves(n) PROVE FormInv'
  BY <1>7, NoNames DEF FormInv, TypeInv, FileType, LockType, SealType, LockInv,
     SealInv, Release, lock, history, DrainRemoves
<1>8. CASE DrainCommits
  BY <1>8, NoNames DEF FormInv, TypeInv, FileType, LockType, SealType, LockInv,
     SealInv, Release, lock, history, DrainCommits
<1>9. CASE DrainRollsBack
  BY <1>9, NoNames DEF FormInv, TypeInv, FileType, LockType, SealType, LockInv,
     SealInv, Release, lock, history, DrainRollsBack
<1>10. CASE Stop
  BY <1>10, NoNames DEF FormInv, TypeInv, FileType, LockType, SealType, LockInv,
     SealInv, Release, lock, history, Stop
<1>11. ASSUME NEW key \in BOOLEAN, NEW stuck \in SUBSET Blobs, Start(key, stuck) PROVE FormInv'
  BY <1>11, NoNames DEF FormInv, TypeInv, FileType, LockType, SealType, LockInv,
     SealInv, Release, lock, history, Start
<1>12. CASE SealCopy
  BY <1>12, NoNames DEF FormInv, TypeInv, FileType, LockType, SealType, LockInv,
     SealInv, Release, lock, history, SealCopy
<1>13. CASE SealReplace
  BY <1>13, NoNames DEF FormInv, TypeInv, FileType, LockType, SealType, LockInv,
     SealInv, Release, lock, history, SealReplace
<1>14. ASSUME UNCHANGED <<file, cut, raced, writing, keyed>> PROVE FormInv'
  BY <1>14 DEF FormInv
<1>15. ASSUME
           \/ (\E m \in Messages : BeginInsert(m))
           \/ (\E n \in Blobs : BlobExists(n))
           \/ (\E m \in Messages : DeleteMessage(m))
           \/ (\E i \in Inboxes : DeleteInbox(i))
           \/ (\E n \in Blobs : DrainKeeps(n))
           \/ (\E n \in Blobs : DrainFails(n))
           \/ (\E n \in Blobs : SealCheck(n))
           \/ SealGivesUp
           \/ UNCHANGED vars
      PROVE  UNCHANGED <<file, cut, raced, writing, keyed>>
  BY <1>15 DEF BeginInsert, BlobExists, DeleteMessage, DeleteInbox, DrainKeeps,
     DrainFails, SealCheck, SealGivesUp, BeginDrain, db, lock, bounds, history,
     vars
<1>16. ASSUME NEW r \in Readers, Read(r) PROVE UNCHANGED <<file, cut, raced, writing, keyed>>
  BY <1>16, ReadFrame DEF others, db, lock, bounds, history
<1>17. QED
  BY <1>1, <1>2, <1>3, <1>4, <1>5, <1>6, <1>7, <1>8, <1>9, <1>10, <1>11, <1>12,
     <1>13, <1>14, <1>15, <1>16 DEF Next, Insert, Delete, Process, Seal

LEMMA PresentInvStep ==
  TypeInv /\ LockInv /\ FormInv /\ SealInv /\ PresentInv /\ [Next]_vars => PresentInv'
<1> SUFFICES ASSUME TypeInv, LockInv, FormInv, SealInv, PresentInv, [Next]_vars PROVE PresentInv'
  OBVIOUS
<1>1. ASSUME NEW m \in Messages, BeginInsert(m) PROVE PresentInv'
  BY <1>1, NoNames, BlobShape DEF PresentInv, Present, TypeInv, FileType,
     LockType, DbType, SealType, LockInv, Holds, Referenced, Release, BeginDrain,
     lock, db, BeginInsert
<1>2. ASSUME NEW n \in Blobs, BlobExists(n) PROVE PresentInv'
  BY <1>2, NoNames, BlobShape DEF PresentInv, Present, TypeInv, FileType,
     LockType, DbType, SealType, LockInv, Holds, Referenced, Release, BeginDrain,
     lock, db, BlobExists
<1>3. ASSUME NEW n \in Blobs, WriteSealed(n) PROVE PresentInv'
  BY <1>3, NoNames, BlobShape DEF PresentInv, Present, TypeInv, FileType,
     LockType, DbType, SealType, LockInv, Holds, Referenced, Release, BeginDrain,
     lock, db, WriteSealed
<1>4. ASSUME NEW n \in Blobs, BeginPlain(n) PROVE PresentInv'
  BY <1>4, NoNames, BlobShape DEF PresentInv, Present, TypeInv, FileType,
     LockType, DbType, SealType, LockInv, Holds, Referenced, Release, BeginDrain,
     lock, db, BeginPlain
<1>5. CASE EndPlain
  BY <1>5, NoNames, BlobShape DEF PresentInv, Present, TypeInv, FileType,
     LockType, DbType, SealType, LockInv, Holds, Referenced, Release, BeginDrain,
     lock, db, EndPlain
<1>6. CASE CutShort
  BY <1>6, NoNames, BlobShape DEF PresentInv, Present, TypeInv, FileType,
     LockType, DbType, SealType, LockInv, Holds, Referenced, Release, BeginDrain,
     lock, db, CutShort
<1>7. CASE InsertFails
  BY <1>7, NoNames, BlobShape DEF PresentInv, Present, TypeInv, FileType,
     LockType, DbType, SealType, LockInv, Holds, Referenced, Release, BeginDrain,
     lock, db, InsertFails
<1>8. CASE InsertCommits
  BY <1>8, NoNames, BlobShape DEF PresentInv, Present, TypeInv, FileType,
     LockType, DbType, SealType, LockInv, Holds, Referenced, Release, BeginDrain,
     lock, db, InsertCommits
<1>9. ASSUME NEW m \in Messages, DeleteMessage(m) PROVE PresentInv'
  BY <1>9, NoNames, BlobShape DEF PresentInv, Present, TypeInv, FileType,
     LockType, DbType, SealType, LockInv, Holds, Referenced, Release, BeginDrain,
     lock, db, DeleteMessage
<1>10. ASSUME NEW i \in Inboxes, DeleteInbox(i) PROVE PresentInv'
  BY <1>10, NoNames, BlobShape DEF PresentInv, Present, TypeInv, FileType,
     LockType, DbType, SealType, LockInv, Holds, Referenced, Release, BeginDrain,
     lock, db, DeleteInbox
<1>11. ASSUME NEW n \in Blobs, DrainKeeps(n) PROVE PresentInv'
  BY <1>11, NoNames, BlobShape DEF PresentInv, Present, TypeInv, FileType,
     LockType, DbType, SealType, LockInv, Holds, Referenced, Release, BeginDrain,
     lock, db, DrainKeeps
<1>12. ASSUME NEW n \in Blobs, DrainRemoves(n) PROVE PresentInv'
  BY <1>12, NoNames, BlobShape DEF PresentInv, Present, TypeInv, FileType,
     LockType, DbType, SealType, LockInv, Holds, Referenced, Release, BeginDrain,
     lock, db, DrainRemoves
<1>13. ASSUME NEW n \in Blobs, DrainFails(n) PROVE PresentInv'
  BY <1>13, NoNames, BlobShape DEF PresentInv, Present, TypeInv, FileType,
     LockType, DbType, SealType, LockInv, Holds, Referenced, Release, BeginDrain,
     lock, db, DrainFails
<1>14. CASE DrainCommits
  BY <1>14, NoNames, BlobShape DEF PresentInv, Present, TypeInv, FileType,
     LockType, DbType, SealType, LockInv, Holds, Referenced, Release, BeginDrain,
     lock, db, DrainCommits
<1>15. CASE DrainRollsBack
  BY <1>15, NoNames, BlobShape DEF PresentInv, Present, TypeInv, FileType,
     LockType, DbType, SealType, LockInv, Holds, Referenced, Release, BeginDrain,
     lock, db, DrainRollsBack
<1>16. CASE Stop
  BY <1>16, NoNames, BlobShape DEF PresentInv, Present, TypeInv, FileType,
     LockType, DbType, SealType, LockInv, Holds, Referenced, Release, BeginDrain,
     lock, db, Stop
<1>17. ASSUME NEW key \in BOOLEAN, NEW stuck \in SUBSET Blobs, Start(key, stuck) PROVE PresentInv'
  BY <1>17, NoNames, BlobShape DEF PresentInv, Present, TypeInv, FileType,
     LockType, DbType, SealType, LockInv, Holds, Referenced, Release, BeginDrain,
     lock, db, Start
<1>18. CASE SealReplace
  BY <1>18, NoNames, BlobShape DEF PresentInv, Present, TypeInv, FileType,
     LockType, DbType, SealType, LockInv, Holds, Referenced, Release, BeginDrain,
     lock, db, SealReplace
<1>19. ASSUME UNCHANGED <<rows, file, task, msg, todo, writing>> PROVE PresentInv'
  BY <1>19 DEF PresentInv, Present
<1>20. ASSUME
           \/ (\E n \in Blobs : SealCheck(n))
           \/ SealCopy
           \/ SealGivesUp
           \/ UNCHANGED vars
      PROVE  UNCHANGED <<rows, file, task, msg, todo, writing>>
  BY <1>20 DEF SealCheck, SealCopy, SealGivesUp, BeginDrain, db, lock, bounds,
     history, vars
<1>21. ASSUME NEW r \in Readers, Read(r) PROVE UNCHANGED <<rows, file, task, msg, todo, writing>>
  BY <1>21, ReadFrame DEF others, db, lock, bounds, history
<1>22. QED
  BY <1>1, <1>2, <1>3, <1>4, <1>5, <1>6, <1>7, <1>8, <1>9, <1>10, <1>11, <1>12,
     <1>13, <1>14, <1>15, <1>16, <1>17, <1>18, <1>19, <1>20, <1>21 DEF Next,
     Insert, Delete, Process, Seal

-----------------------------------------------------------------------------
(* Orphans                                                                 *)

\* OrphanIsExpected with the part of an insert's blobs that it has written.
OrphanInv ==
  \A n \in Blobs : file[n] # "none" /\ ~Referenced(n) =>
    n \in queue \cup stray \/ (task = "insert" /\ n \in Written)

\* The queue entries a drain will delete have lost their file or are kept.
DoneInv ==
  task = "drain" =>
    \A n \in done : file[n] # "none" /\ ~Referenced(n) => n \in stray

LEMMA DoneInvStep ==
  TypeInv /\ LockInv /\ DoneInv /\ [Next]_vars => DoneInv'
<1> SUFFICES ASSUME TypeInv, LockInv, DoneInv, [Next]_vars PROVE DoneInv'
  OBVIOUS
<1>1. ASSUME NEW m \in Messages, BeginInsert(m) PROVE DoneInv'
  BY <1>1, NoNames, BlobShape DEF DoneInv, TypeInv, FileType, LockType, DbType,
     SealType, LockInv, Holds, Referenced, Release, BeginDrain, lock, db,
     BeginInsert
<1>2. ASSUME NEW n \in Blobs, WriteSealed(n) PROVE DoneInv'
  BY <1>2, NoNames, BlobShape DEF DoneInv, TypeInv, FileType, LockType, DbType,
     SealType, LockInv, Holds, Referenced, Release, BeginDrain, lock, db,
     WriteSealed
<1>3. ASSUME NEW n \in Blobs, BeginPlain(n) PROVE DoneInv'
  BY <1>3, NoNames, BlobShape DEF DoneInv, TypeInv, FileType, LockType, DbType,
     SealType, LockInv, Holds, Referenced, Release, BeginDrain, lock, db,
     BeginPlain
<1>4. CASE EndPlain
  BY <1>4, NoNames, BlobShape DEF DoneInv, TypeInv, FileType, LockType, DbType,
     SealType, LockInv, Holds, Referenced, Release, BeginDrain, lock, db, EndPlain
<1>5. CASE CutShort
  BY <1>5, NoNames, BlobShape DEF DoneInv, TypeInv, FileType, LockType, DbType,
     SealType, LockInv, Holds, Referenced, Release, BeginDrain, lock, db, CutShort
<1>6. CASE InsertFails
  BY <1>6, NoNames, BlobShape DEF DoneInv, TypeInv, FileType, LockType, DbType,
     SealType, LockInv, Holds, Referenced, Release, BeginDrain, lock, db,
     InsertFails
<1>7. CASE InsertCommits
  BY <1>7, NoNames, BlobShape DEF DoneInv, TypeInv, FileType, LockType, DbType,
     SealType, LockInv, Holds, Referenced, Release, BeginDrain, lock, db,
     InsertCommits
<1>8. ASSUME NEW m \in Messages, DeleteMessage(m) PROVE DoneInv'
  BY <1>8, NoNames, BlobShape DEF DoneInv, TypeInv, FileType, LockType, DbType,
     SealType, LockInv, Holds, Referenced, Release, BeginDrain, lock, db,
     DeleteMessage
<1>9. ASSUME NEW i \in Inboxes, DeleteInbox(i) PROVE DoneInv'
  BY <1>9, NoNames, BlobShape DEF DoneInv, TypeInv, FileType, LockType, DbType,
     SealType, LockInv, Holds, Referenced, Release, BeginDrain, lock, db,
     DeleteInbox
<1>10. ASSUME NEW n \in Blobs, DrainKeeps(n) PROVE DoneInv'
  <2> SUFFICES ASSUME NEW x \in done', file'[x] # "none", ~Referenced(x)'
               PROVE  x \in stray'
    BY DEF DoneInv
  <2>1. rows' = rows /\ file' = file /\ stray' = stray /\ task = "drain"
    BY <1>10 DEF DrainKeeps, db, history
  <2>2. ~Referenced(x)
    BY <2>1 DEF Referenced
  <2>3. x \in done
    BY <1>10, <2>2 DEF DrainKeeps
  <2>4. QED
    BY <2>1, <2>2, <2>3 DEF DoneInv
<1>11. ASSUME NEW n \in Blobs, DrainRemoves(n) PROVE DoneInv'
  BY <1>11, NoNames, BlobShape DEF DoneInv, TypeInv, FileType, LockType, DbType,
     SealType, LockInv, Holds, Referenced, Release, BeginDrain, lock, db,
     DrainRemoves
<1>12. ASSUME NEW n \in Blobs, DrainFails(n) PROVE DoneInv'
  <2> SUFFICES ASSUME NEW x \in done', file'[x] # "none", ~Referenced(x)'
               PROVE  x \in stray'
    BY DEF DoneInv
  <2>1. rows' = rows /\ file' = file /\ stray' = stray /\ task = "drain"
    BY <1>12 DEF DrainFails, db, history
  <2>2. ~Referenced(x)
    BY <2>1 DEF Referenced
  <2>3. x \in done
    BY <1>12, <2>2 DEF DrainFails
  <2>4. QED
    BY <2>1, <2>2, <2>3 DEF DoneInv
<1>13. CASE DrainCommits
  BY <1>13, NoNames, BlobShape DEF DoneInv, TypeInv, FileType, LockType, DbType,
     SealType, LockInv, Holds, Referenced, Release, BeginDrain, lock, db,
     DrainCommits
<1>14. CASE DrainRollsBack
  BY <1>14, NoNames, BlobShape DEF DoneInv, TypeInv, FileType, LockType, DbType,
     SealType, LockInv, Holds, Referenced, Release, BeginDrain, lock, db,
     DrainRollsBack
<1>15. CASE Stop
  BY <1>15, NoNames, BlobShape DEF DoneInv, TypeInv, FileType, LockType, DbType,
     SealType, LockInv, Holds, Referenced, Release, BeginDrain, lock, db, Stop
<1>16. ASSUME NEW key \in BOOLEAN, NEW stuck \in SUBSET Blobs, Start(key, stuck) PROVE DoneInv'
  BY <1>16, NoNames, BlobShape DEF DoneInv, TypeInv, FileType, LockType, DbType,
     SealType, LockInv, Holds, Referenced, Release, BeginDrain, lock, db, Start
<1>17. CASE SealReplace
  BY <1>17, NoNames, BlobShape DEF DoneInv, TypeInv, FileType, LockType, DbType,
     SealType, LockInv, Holds, Referenced, Release, BeginDrain, lock, db,
     SealReplace
<1>18. ASSUME UNCHANGED <<rows, file, task, done, stray>> PROVE DoneInv'
  BY <1>18 DEF DoneInv, Referenced
<1>19. ASSUME
           \/ (\E n \in Blobs : BlobExists(n))
           \/ (\E n \in Blobs : SealCheck(n))
           \/ SealCopy
           \/ SealGivesUp
           \/ UNCHANGED vars
      PROVE  UNCHANGED <<rows, file, task, done, stray>>
  BY <1>19 DEF BlobExists, SealCheck, SealCopy, SealGivesUp, BeginDrain, db, lock,
     bounds, history, vars
<1>20. ASSUME NEW r \in Readers, Read(r) PROVE UNCHANGED <<rows, file, task, done, stray>>
  BY <1>20, ReadFrame DEF others, db, lock, bounds, history
<1>21. QED
  BY <1>1, <1>2, <1>3, <1>4, <1>5, <1>6, <1>7, <1>8, <1>9, <1>10, <1>11, <1>12,
     <1>13, <1>14, <1>15, <1>16, <1>17, <1>18, <1>19, <1>20 DEF Next, Insert,
     Delete, Process, Seal

LEMMA OrphanInvStep ==
  TypeInv /\ LockInv /\ PresentInv /\ DoneInv /\ OrphanInv /\ [Next]_vars => OrphanInv'
<1> SUFFICES ASSUME TypeInv, LockInv, PresentInv, DoneInv, OrphanInv, [Next]_vars PROVE OrphanInv'
  OBVIOUS
<1>1. ASSUME NEW m \in Messages, BeginInsert(m) PROVE OrphanInv'
  BY <1>1, NoNames, BlobShape DEF OrphanInv, DoneInv, Written, TypeInv, FileType,
     LockType, DbType, SealType, LockInv, Holds, Referenced, Release, BeginDrain,
     lock, db, BeginInsert
<1>2. ASSUME NEW n \in Blobs, BlobExists(n) PROVE OrphanInv'
  <2> SUFFICES ASSUME NEW x \in Blobs, file'[x] # "none", ~Referenced(x)'
               PROVE  \/ x \in queue' \cup stray'
                      \/ task' = "insert" /\ x \in Written'
    BY DEF OrphanInv
  <2>1. rows' = rows
    BY <1>2 DEF BlobExists, db
  <2>2. ~Referenced(x)
    BY <2>1 DEF Referenced
  <2>3. QED
    BY <1>2, <2>2, NoNames DEF BlobExists, OrphanInv, DoneInv, Written, TypeInv, FileType,
       LockType, LockInv, Holds, Release, db, history
<1>3. ASSUME NEW n \in Blobs, WriteSealed(n) PROVE OrphanInv'
  <2> SUFFICES ASSUME NEW x \in Blobs, file'[x] # "none", ~Referenced(x)'
               PROVE  \/ x \in queue' \cup stray'
                      \/ task' = "insert" /\ x \in Written'
    BY DEF OrphanInv
  <2>1. rows' = rows
    BY <1>3 DEF WriteSealed, db
  <2>2. ~Referenced(x)
    BY <2>1 DEF Referenced
  <2>3. QED
    BY <1>3, <2>2, NoNames DEF WriteSealed, OrphanInv, DoneInv, Written, TypeInv, FileType,
       LockType, LockInv, Holds, Release, db, history
<1>4. ASSUME NEW n \in Blobs, BeginPlain(n) PROVE OrphanInv'
  <2> SUFFICES ASSUME NEW x \in Blobs, file'[x] # "none", ~Referenced(x)'
               PROVE  \/ x \in queue' \cup stray'
                      \/ task' = "insert" /\ x \in Written'
    BY DEF OrphanInv
  <2>1. rows' = rows
    BY <1>4 DEF BeginPlain, db
  <2>2. ~Referenced(x)
    BY <2>1 DEF Referenced
  <2>3. QED
    BY <1>4, <2>2, NoNames DEF BeginPlain, OrphanInv, DoneInv, Written, TypeInv, FileType,
       LockType, LockInv, Holds, Release, db, history
<1>5. CASE EndPlain
  <2> SUFFICES ASSUME NEW x \in Blobs, file'[x] # "none", ~Referenced(x)'
               PROVE  \/ x \in queue' \cup stray'
                      \/ task' = "insert" /\ x \in Written'
    BY DEF OrphanInv
  <2>1. rows' = rows
    BY <1>5 DEF EndPlain, db
  <2>2. ~Referenced(x)
    BY <2>1 DEF Referenced
  <2>3. QED
    BY <1>5, <2>2, NoNames DEF EndPlain, OrphanInv, DoneInv, Written, TypeInv, FileType,
       LockType, LockInv, Holds, Release, db, history
<1>6. CASE CutShort
  BY <1>6, NoNames, BlobShape DEF OrphanInv, DoneInv, Written, TypeInv, FileType,
     LockType, DbType, SealType, LockInv, Holds, Referenced, Release, BeginDrain,
     lock, db, CutShort
<1>7. CASE InsertFails
  BY <1>7, NoNames, BlobShape DEF OrphanInv, DoneInv, Written, TypeInv, FileType,
     LockType, DbType, SealType, LockInv, Holds, Referenced, Release, BeginDrain,
     lock, db, InsertFails
<1>8. CASE InsertCommits
  BY <1>8, NoNames, BlobShape DEF OrphanInv, DoneInv, Written, TypeInv, FileType,
     LockType, DbType, SealType, LockInv, Holds, Referenced, Release, BeginDrain,
     lock, db, InsertCommits
<1>9. ASSUME NEW m \in Messages, DeleteMessage(m) PROVE OrphanInv'
  <2> SUFFICES ASSUME NEW x \in Blobs, file'[x] # "none", ~Referenced(x)'
               PROVE  x \in queue' \cup stray'
    BY DEF OrphanInv
  <2>1. task = "none" /\ file' = file /\ stray' = stray
    BY <1>9 DEF DeleteMessage, history
  <2>2. CASE Referenced(x)
    <3>1. PICK g \in rows : x \in BlobsOf[g]
      BY <2>2 DEF Referenced
    <3>2. g \notin rows'
      BY <3>1 DEF Referenced
    <3>3. QED
      BY <1>9, <3>1, <3>2 DEF DeleteMessage, TypeInv, DbType
  <2>3. CASE ~Referenced(x)
    <3>1. x \in queue \cup stray
      BY <2>1, <2>3 DEF OrphanInv
    <3>2. QED
      BY <1>9, <2>1, <3>1 DEF DeleteMessage
  <2>4. QED
    BY <2>2, <2>3
<1>10. ASSUME NEW i \in Inboxes, DeleteInbox(i) PROVE OrphanInv'
  <2> SUFFICES ASSUME NEW x \in Blobs, file'[x] # "none", ~Referenced(x)'
               PROVE  x \in queue' \cup stray'
    BY DEF OrphanInv
  <2>1. task = "none" /\ file' = file /\ stray' = stray
    BY <1>10 DEF DeleteInbox, history
  <2>2. CASE Referenced(x)
    <3>1. PICK g \in rows : x \in BlobsOf[g]
      BY <2>2 DEF Referenced
    <3>2. g \notin rows'
      BY <3>1 DEF Referenced
    <3>3. QED
      BY <1>10, <3>1, <3>2 DEF DeleteInbox, TypeInv, DbType
  <2>3. CASE ~Referenced(x)
    <3>1. x \in queue \cup stray
      BY <2>1, <2>3 DEF OrphanInv
    <3>2. QED
      BY <1>10, <2>1, <3>1 DEF DeleteInbox
  <2>4. QED
    BY <2>2, <2>3
<1>11. ASSUME NEW n \in Blobs, DrainKeeps(n) PROVE OrphanInv'
  <2> SUFFICES ASSUME NEW x \in Blobs, file'[x] # "none", ~Referenced(x)'
               PROVE  \/ x \in queue' \cup stray'
                      \/ task' = "insert" /\ x \in Written'
    BY DEF OrphanInv
  <2>1. rows' = rows
    BY <1>11 DEF DrainKeeps, db
  <2>2. ~Referenced(x)
    BY <2>1 DEF Referenced
  <2>3. QED
    BY <1>11, <2>2, NoNames DEF DrainKeeps, OrphanInv, DoneInv, Written, TypeInv, FileType,
       LockType, LockInv, Holds, Release, db, history
<1>12. ASSUME NEW n \in Blobs, DrainRemoves(n) PROVE OrphanInv'
  BY <1>12, NoNames, BlobShape DEF OrphanInv, DoneInv, Written, TypeInv, FileType,
     LockType, DbType, SealType, LockInv, Holds, Referenced, Release, BeginDrain,
     lock, db, DrainRemoves
<1>13. ASSUME NEW n \in Blobs, DrainFails(n) PROVE OrphanInv'
  <2> SUFFICES ASSUME NEW x \in Blobs, file'[x] # "none", ~Referenced(x)'
               PROVE  \/ x \in queue' \cup stray'
                      \/ task' = "insert" /\ x \in Written'
    BY DEF OrphanInv
  <2>1. rows' = rows
    BY <1>13 DEF DrainFails, db
  <2>2. ~Referenced(x)
    BY <2>1 DEF Referenced
  <2>3. QED
    BY <1>13, <2>2, NoNames DEF DrainFails, OrphanInv, DoneInv, Written, TypeInv, FileType,
       LockType, LockInv, Holds, Release, db, history
<1>14. CASE DrainCommits
  <2> SUFFICES ASSUME NEW x \in Blobs, file'[x] # "none", ~Referenced(x)'
               PROVE  \/ x \in queue' \cup stray'
                      \/ task' = "insert" /\ x \in Written'
    BY DEF OrphanInv
  <2>1. rows' = rows
    BY <1>14 DEF DrainCommits, db
  <2>2. ~Referenced(x)
    BY <2>1 DEF Referenced
  <2>3. QED
    BY <1>14, <2>2, NoNames DEF DrainCommits, OrphanInv, DoneInv, Written, TypeInv, FileType,
       LockType, LockInv, Holds, Release, db, history
<1>15. CASE DrainRollsBack
  <2> SUFFICES ASSUME NEW x \in Blobs, file'[x] # "none", ~Referenced(x)'
               PROVE  \/ x \in queue' \cup stray'
                      \/ task' = "insert" /\ x \in Written'
    BY DEF OrphanInv
  <2>1. rows' = rows
    BY <1>15 DEF DrainRollsBack, db
  <2>2. ~Referenced(x)
    BY <2>1 DEF Referenced
  <2>3. QED
    BY <1>15, <2>2, NoNames DEF DrainRollsBack, OrphanInv, DoneInv, Written, TypeInv, FileType,
       LockType, LockInv, Holds, Release, db, history
<1>16. CASE Stop
  BY <1>16, NoNames, BlobShape DEF OrphanInv, DoneInv, Written, TypeInv, FileType,
     LockType, DbType, SealType, LockInv, Holds, Referenced, Release, BeginDrain,
     lock, db, Stop
<1>17. ASSUME NEW key \in BOOLEAN, NEW stuck \in SUBSET Blobs, Start(key, stuck) PROVE OrphanInv'
  BY <1>17, NoNames, BlobShape DEF OrphanInv, DoneInv, Written, TypeInv, FileType,
     LockType, DbType, SealType, LockInv, Holds, Referenced, Release, BeginDrain,
     lock, db, Start
<1>18. CASE SealReplace
  BY <1>18, NoNames, BlobShape DEF OrphanInv, DoneInv, Written, TypeInv, FileType,
     LockType, DbType, SealType, LockInv, Holds, Referenced, Release, BeginDrain,
     lock, db, SealReplace
<1>19. ASSUME UNCHANGED <<rows, queue, file, task, msg, todo, writing, stray>> PROVE OrphanInv'
  BY <1>19 DEF OrphanInv, Referenced, Written
<1>20. ASSUME
           \/ (\E n \in Blobs : SealCheck(n))
           \/ SealCopy
           \/ SealGivesUp
           \/ UNCHANGED vars
      PROVE  UNCHANGED <<rows, queue, file, task, msg, todo, writing, stray>>
  BY <1>20 DEF SealCheck, SealCopy, SealGivesUp, BeginDrain, db, lock, bounds,
     history, vars
<1>21. ASSUME NEW r \in Readers, Read(r) PROVE UNCHANGED <<rows, queue, file, task, msg, todo, writing, stray>>
  BY <1>21, ReadFrame DEF others, db, lock, bounds, history
<1>22. QED
  BY <1>1, <1>2, <1>3, <1>4, <1>5, <1>6, <1>7, <1>8, <1>9, <1>10, <1>11, <1>12,
     <1>13, <1>14, <1>15, <1>16, <1>17, <1>18, <1>19, <1>20, <1>21 DEF Next,
     Insert, Delete, Process, Seal

-----------------------------------------------------------------------------
(* Downloads                                                               *)

\* The message is gone for good, or its blob is one of the broken ones.
Excused(r) == reader[r].msg \notin rows \/ reader[r].blob \in cut \cup raced

ReadInvOf(r) ==
  reader[r].at # "idle" =>
    /\ mode # "off"
    /\ reader[r].blob \in BlobsOf[reader[r].msg]
    /\ reader[r].msg \in spent
    /\ task = "insert" => reader[r].msg # msg
    /\ reader[r].at = "open" =>
         /\ Excused(r) \/ reader[r].got \in {"plain", "sealed"}
         /\ reader[r].got = "sealed" => keyed
    /\ reader[r].at = "failed" => Excused(r) \/ mode = "unhealthy"

ReadInv == \A r \in Readers : ReadInvOf(r)

\* A download other than r is not touched by a step of r.
LEMMA OtherDownloads ==
  ASSUME TypeInv, ReadInv, NEW r \in Readers, Read(r), ReadInvOf(r)'
  PROVE  ReadInv'
<1> SUFFICES ASSUME NEW q \in Readers, q # r PROVE ReadInvOf(q)'
  BY DEF ReadInv
<1>1. reader'[q] = reader[q]
  BY DEF Read, ReadName, ReadOpen, ReadClose, ReadEnds, TypeInv, ReadType
<1>2. UNCHANGED others
  BY ReadFrame
<1>3. QED
  BY <1>1, <1>2 DEF ReadInv, ReadInvOf, Excused, others, db, lock, history

LEMMA ReadStep ==
  ASSUME TypeInv, LockInv, FormInv, PresentInv, ReadInv, NEW r \in Readers, Read(r)
  PROVE  ReadInv'
<1>1. UNCHANGED <<rows, keyed, mode, task, msg, spent, cut, raced>>
  BY ReadFrame DEF others, db, lock, history
<1>2. ASSUME NEW m \in Messages, NEW n \in Blobs, ReadName(r, m, n)
      PROVE  ReadInvOf(r)'
  <2>1. reader'[r] = [at |-> "named", msg |-> m, blob |-> n, got |-> "none"]
    BY <1>2 DEF ReadName, TypeInv, ReadType
  <2>2. mode # "off" /\ task = "none" /\ m \in rows /\ n \in BlobsOf[m] /\ m \in spent
    BY <1>2 DEF ReadName, LockInv
  <2>3. QED
    BY <1>1, <2>1, <2>2 DEF ReadInvOf
<1>3. ASSUME ReadOpen(r) PROVE ReadInvOf(r)'
  <2> DEFINE f == file[reader[r].blob]
             m == reader[r].msg
             n == reader[r].blob
  <2>1. /\ reader[r].at = "named" /\ reader'[r].msg = m /\ reader'[r].blob = n
        /\ reader'[r].got = f
        /\ reader'[r].at = (IF f = "none" THEN "failed" ELSE "open")
    BY <1>3 DEF ReadOpen, TypeInv, ReadType, Downloads
  <2>2. /\ mode # "off" /\ n \in BlobsOf[m] /\ m \in spent /\ n \in Blobs
        /\ task = "insert" => m # msg
    BY <2>1 DEF ReadInv, ReadInvOf, TypeInv, ReadType
  <2>3. m \in rows => f # "none" /\ n # writing
    BY <2>2 DEF PresentInv, Present
  <2>4. /\ f \in Forms /\ (f = "sealed" => keyed)
        /\ f = "short" => n \in cut \/ n = writing
        /\ f = "twice" => n \in raced
    BY <2>2 DEF FormInv, TypeInv, FileType
  <2>5. m \notin rows \/ n \in cut \cup raced \/ f \in {"plain", "sealed"}
    BY <2>3, <2>4 DEF Forms
  <2> HIDE DEF f, m, n
  <2>6. ASSUME reader'[r].at = "open"
        PROVE  /\ m \notin rows \/ n \in cut \cup raced \/ f \in {"plain", "sealed"}
               /\ f = "sealed" => keyed
    BY <2>4, <2>5
  <2>7. ASSUME reader'[r].at = "failed" PROVE m \notin rows
    BY <2>1, <2>3, <2>7
  <2>8. /\ mode' # "off" /\ reader'[r].blob \in BlobsOf[reader'[r].msg]
        /\ reader'[r].msg \in spent' /\ (task' = "insert" => reader'[r].msg # msg')
    BY <1>1, <2>1, <2>2
  <2>9. reader'[r].at = "open" =>
          /\ Excused(r)' \/ reader'[r].got \in {"plain", "sealed"}
          /\ reader'[r].got = "sealed" => keyed'
    BY <1>1, <2>1, <2>6 DEF Excused
  <2>10. reader'[r].at = "failed" => Excused(r)'
    BY <1>1, <2>1, <2>7 DEF Excused
  <2>11. QED
    BY <2>8, <2>9, <2>10 DEF ReadInvOf
<1>4. ASSUME ReadClose(r) PROVE ReadInvOf(r)'
  <2> DEFINE v == IF \/ reader[r].got = "plain"
                     \/ reader[r].got = "sealed" /\ mode = "sealing"
                  THEN "ok" ELSE "failed"
  <2>1. reader[r].at = "open" /\ reader' = [reader EXCEPT ![r].at = v]
    BY <1>4 DEF ReadClose
  <2>2. v = "failed" => reader[r].got # "plain" /\ ~(reader[r].got = "sealed" /\ mode = "sealing")
    OBVIOUS
  <2>3. v # "open"
    OBVIOUS
  <2> HIDE DEF v
  <2>4. reader \in [Readers -> Downloads] /\ mode \in Modes
    BY DEF TypeInv, ReadType, LockType
  <2>5. /\ reader'[r].at = v /\ reader'[r].msg = reader[r].msg
        /\ reader'[r].blob = reader[r].blob
    BY <2>1, <2>4 DEF Downloads
  <2>6. /\ mode # "off" /\ reader[r].blob \in BlobsOf[reader[r].msg]
        /\ reader[r].msg \in spent /\ (task = "insert" => reader[r].msg # msg)
        /\ Excused(r) \/ reader[r].got \in {"plain", "sealed"}
        /\ reader[r].got = "sealed" => keyed
    BY <2>1 DEF ReadInv, ReadInvOf
  <2>7. ASSUME v = "failed" PROVE Excused(r) \/ mode = "unhealthy"
    BY <2>2, <2>4, <2>6, <2>7 DEF LockInv, Modes
  <2>8. v = "failed" => Excused(r)' \/ mode' = "unhealthy"
    BY <1>1, <2>5, <2>7 DEF Excused
  <2>9. /\ mode' # "off" /\ reader'[r].blob \in BlobsOf[reader'[r].msg]
        /\ reader'[r].msg \in spent' /\ (task' = "insert" => reader'[r].msg # msg')
    BY <1>1, <2>5, <2>6
  <2>10. QED
    BY <2>3, <2>5, <2>8, <2>9 DEF ReadInvOf
<1>5. ASSUME ReadEnds(r) PROVE ReadInvOf(r)'
  <2>1. reader'[r] = Idle
    BY <1>5 DEF ReadEnds, TypeInv, ReadType
  <2>2. reader'[r].at = "idle"
    BY <2>1 DEF Idle
  <2>3. QED
    BY <2>2 DEF ReadInvOf
<1>6. ReadInvOf(r)'
  <2>1. \/ \E m \in Messages, n \in Blobs : ReadName(r, m, n)
        \/ ReadOpen(r) \/ ReadClose(r) \/ ReadEnds(r)
    BY DEF Read
  <2>2. QED
    BY <1>2, <1>3, <1>4, <1>5, <2>1
<1>7. QED
  BY <1>6, OtherDownloads

LEMMA ReadInvStep ==
  TypeInv /\ LockInv /\ FormInv /\ PresentInv /\ ReadInv /\ [Next]_vars => ReadInv'
<1> SUFFICES ASSUME TypeInv, LockInv, FormInv, PresentInv, ReadInv, [Next]_vars PROVE ReadInv'
  OBVIOUS
<1>1. ASSUME NEW m \in Messages, BeginInsert(m) PROVE ReadInv'
  <2> SUFFICES ASSUME NEW r \in Readers PROVE ReadInvOf(r)'
    BY DEF ReadInv
  <2>1. ReadInvOf(r)
    BY DEF ReadInv
  <2>2. QED
    BY <1>1, <2>1 DEF BeginInsert, ReadInvOf, Excused, TypeInv, ReadType, DbType, LockInv,
       Holds, Release, BeginDrain, db, history
<1>2. CASE CutShort
  <2> SUFFICES ASSUME NEW r \in Readers PROVE ReadInvOf(r)'
    BY DEF ReadInv
  <2>1. ReadInvOf(r)
    BY DEF ReadInv
  <2>2. QED
    BY <1>2, <2>1 DEF CutShort, ReadInvOf, Excused, TypeInv, ReadType, DbType, LockInv,
       Holds, Release, BeginDrain, db, history
<1>3. CASE InsertFails
  <2> SUFFICES ASSUME NEW r \in Readers PROVE ReadInvOf(r)'
    BY DEF ReadInv
  <2>1. ReadInvOf(r)
    BY DEF ReadInv
  <2>2. QED
    BY <1>3, <2>1 DEF InsertFails, ReadInvOf, Excused, TypeInv, ReadType, DbType, LockInv,
       Holds, Release, BeginDrain, db, history
<1>4. CASE InsertCommits
  <2> SUFFICES ASSUME NEW r \in Readers PROVE ReadInvOf(r)'
    BY DEF ReadInv
  <2>1. ReadInvOf(r)
    BY DEF ReadInv
  <2>2. QED
    BY <1>4, <2>1 DEF InsertCommits, ReadInvOf, Excused, TypeInv, ReadType, DbType, LockInv,
       Holds, Release, BeginDrain, db, history
<1>5. ASSUME NEW m \in Messages, DeleteMessage(m) PROVE ReadInv'
  <2> SUFFICES ASSUME NEW r \in Readers PROVE ReadInvOf(r)'
    BY DEF ReadInv
  <2>1. ReadInvOf(r)
    BY DEF ReadInv
  <2>2. QED
    BY <1>5, <2>1 DEF DeleteMessage, ReadInvOf, Excused, TypeInv, ReadType, DbType, LockInv,
       Holds, Release, BeginDrain, db, history
<1>6. ASSUME NEW i \in Inboxes, DeleteInbox(i) PROVE ReadInv'
  <2> SUFFICES ASSUME NEW r \in Readers PROVE ReadInvOf(r)'
    BY DEF ReadInv
  <2>1. ReadInvOf(r)
    BY DEF ReadInv
  <2>2. QED
    BY <1>6, <2>1 DEF DeleteInbox, ReadInvOf, Excused, TypeInv, ReadType, DbType, LockInv,
       Holds, Release, BeginDrain, db, history
<1>7. CASE DrainCommits
  <2> SUFFICES ASSUME NEW r \in Readers PROVE ReadInvOf(r)'
    BY DEF ReadInv
  <2>1. ReadInvOf(r)
    BY DEF ReadInv
  <2>2. QED
    BY <1>7, <2>1 DEF DrainCommits, ReadInvOf, Excused, TypeInv, ReadType, DbType, LockInv,
       Holds, Release, BeginDrain, db, history
<1>8. CASE DrainRollsBack
  <2> SUFFICES ASSUME NEW r \in Readers PROVE ReadInvOf(r)'
    BY DEF ReadInv
  <2>1. ReadInvOf(r)
    BY DEF ReadInv
  <2>2. QED
    BY <1>8, <2>1 DEF DrainRollsBack, ReadInvOf, Excused, TypeInv, ReadType, DbType, LockInv,
       Holds, Release, BeginDrain, db, history
<1>9. CASE Stop
  <2> SUFFICES ASSUME NEW r \in Readers PROVE ReadInvOf(r)'
    BY DEF ReadInv
  <2>1. ReadInvOf(r)
    BY DEF ReadInv
  <2>2. reader'[r] = Idle
    BY <1>9 DEF Stop
  <2>3. QED
    BY <2>2 DEF ReadInvOf, Idle
<1>10. ASSUME NEW key \in BOOLEAN, NEW stuck \in SUBSET Blobs, Start(key, stuck) PROVE ReadInv'
  <2> SUFFICES ASSUME NEW r \in Readers PROVE ReadInvOf(r)'
    BY DEF ReadInv
  <2>1. ReadInvOf(r)
    BY DEF ReadInv
  <2>2. QED
    BY <1>10, <2>1 DEF Start, ReadInvOf, Excused, TypeInv, ReadType, DbType, LockInv,
       Holds, Release, BeginDrain, db, history
<1>11. CASE SealCopy
  <2> SUFFICES ASSUME NEW r \in Readers PROVE ReadInvOf(r)'
    BY DEF ReadInv
  <2>1. ReadInvOf(r)
    BY DEF ReadInv
  <2>2. UNCHANGED <<reader, rows, keyed, mode, task, msg, spent, cut>>
    BY <1>11 DEF SealCopy, db, lock
  <2>3. raced \subseteq raced'
    BY <1>11 DEF SealCopy
  <2>4. QED
    BY <2>1, <2>2, <2>3 DEF ReadInvOf, Excused
<1>12. ASSUME UNCHANGED <<reader, rows, keyed, mode, task, msg, spent, cut, raced>> PROVE ReadInv'
  BY <1>12 DEF ReadInv, ReadInvOf, Excused
<1>13. ASSUME
           \/ (\E n \in Blobs : BlobExists(n))
           \/ (\E n \in Blobs : WriteSealed(n))
           \/ (\E n \in Blobs : BeginPlain(n))
           \/ EndPlain
           \/ (\E n \in Blobs : DrainKeeps(n))
           \/ (\E n \in Blobs : DrainRemoves(n))
           \/ (\E n \in Blobs : DrainFails(n))
           \/ (\E n \in Blobs : SealCheck(n))
           \/ SealReplace
           \/ SealGivesUp
           \/ UNCHANGED vars
      PROVE  UNCHANGED <<reader, rows, keyed, mode, task, msg, spent, cut, raced>>
  BY <1>13 DEF BlobExists, WriteSealed, BeginPlain, EndPlain, DrainKeeps,
     DrainRemoves, DrainFails, SealCheck, SealReplace, SealGivesUp, BeginDrain,
     db, lock, bounds, history, vars
<1>14. ASSUME NEW r \in Readers, Read(r) PROVE ReadInv'
  BY <1>14, ReadStep
<1>15. QED
  BY <1>1, <1>2, <1>3, <1>4, <1>5, <1>6, <1>7, <1>8, <1>9, <1>10, <1>11, <1>12,
     <1>13, <1>14 DEF Next, Insert, Delete, Process, Seal

-----------------------------------------------------------------------------
(* Theorems                                                                *)

IInv == /\ TypeInv /\ LockInv /\ SealInv /\ FormInv /\ PresentInv
        /\ DoneInv /\ OrphanInv /\ ReadInv

LEMMA IInvHolds == Spec => []IInv
<1>1. Init => IInv
  <2> SUFFICES ASSUME Init PROVE IInv
    OBVIOUS
  <2>1. DbType /\ FileType /\ LockType
    BY DEF Init, DbType, FileType, LockType, Forms, Modes
  <2>2. SealType /\ ReadType /\ SealInv
    BY Records DEF Init, SealType, ReadType, SealInv
  <2>3. PastType
    BY Bounds DEF Init, PastType
  <2>4. LockInv /\ PresentInv /\ DoneInv
    BY DEF Init, LockInv, PresentInv, DoneInv
  <2>5. FormInv /\ OrphanInv
    BY DEF Init, FormInv, OrphanInv
  <2>6. ReadInv
    BY Records DEF Init, ReadInv, ReadInvOf
  <2>7. QED
    BY <2>1, <2>2, <2>3, <2>4, <2>5, <2>6 DEF IInv, TypeInv
<1>2. IInv /\ [Next]_vars => IInv'
  BY TypeStep, LockInvStep, SealInvStep, FormInvStep, PresentInvStep, DoneInvStep,
     OrphanInvStep, ReadInvStep DEF IInv
<1>3. QED
  BY <1>1, <1>2, PTL DEF Spec

\* The rows, the files and what every actor holds keep their types.
THEOREM TypeCorrect == Spec => []TypeOK
<1>1. IInv => TypeOK
  BY DEF IInv, TypeInv, DbType, FileType, LockType, SealType, ReadType, PastType, TypeOK
<1>2. QED
  BY <1>1, IInvHolds, PTL

\* No insert, deletion, drain, sweep, restart or sealing removes or breaks the
\* blob of a committed message, the two recorded faults aside.
THEOREM CommittedStaysWhole == Spec => []CommittedIsWhole
<1>1. IInv => CommittedIsWhole
  <2> SUFFICES ASSUME IInv, NEW m \in rows, NEW n \in BlobsOf[m]
               PROVE  Whole(n) \/ n \in cut \cup raced
    BY DEF CommittedIsWhole
  <2>1. n \in Blobs /\ file[n] \in Forms
    BY BlobShape DEF IInv, TypeInv, DbType, FileType
  <2>2. file[n] # "none" /\ n # writing
    BY DEF IInv, PresentInv, Present
  <2>3. QED
    BY <2>1, <2>2 DEF IInv, FormInv, Forms, Whole
<1>2. QED
  BY <1>1, IInvHolds, PTL

\* Every file without a message is queued, is being inserted, or was left by
\* an insert that did not commit or by the sealing thread.
THEOREM OrphansExpected == Spec => []OrphanIsExpected
<1>1. IInv => OrphanIsExpected
  BY DEF IInv, OrphanInv, OrphanIsExpected, Written
<1>2. QED
  BY <1>1, IInvHolds, PTL

\* A download of a message that is still there does not fail for what other
\* actors do to the file.
THEOREM DownloadsSucceed == Spec => []ReadFailsOnlyIfDeleted
<1>1. IInv => ReadFailsOnlyIfDeleted
  BY DEF IInv, ReadInv, ReadInvOf, Excused, ReadFailsOnlyIfDeleted
<1>2. QED
  BY <1>1, IInvHolds, PTL

=============================================================================
