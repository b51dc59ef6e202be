-------------------------- MODULE SealedStores_proofs ------------------------
(* Proofs about what ryu-crypto stores sealed: the migration of a store's columns, *)
(* the queue of compactions, the sealed log, the sealed file and the vector cache,  *)
(* for any columns, rows, jobs, records, chunk sizes, faults, budgets and           *)
(* concurrent hydrations.                                                           *)
EXTENDS ContentMigration, CompactionQueue, SealedLog, SealedFile, VectorCache, TLAPS, FiniteSetTheorems,
        WellFoundedInduction, Selection_proofs

(*****************************************************************************)
(* ContentMigration.                                                         *)
(*****************************************************************************)

\* The thread that migrates belongs to a process with a key; the column that it
\* works on is marked, and so is the debt.
WorkIsKeyed ==
    /\ work.pc # "idle" => proc # "down" /\ seal = "sealing"
    /\ work.pc = "reset" => work.item \in Items
    /\ work.pc \in {"batch", "end"} =>
         /\ work.item \in Items /\ items[work.item].state = "sealing"
         /\ store.row = "vacuum_pending"
\* What a process may do follows from the recorded key check value.
ModeIsRecorded ==
    proc # "down" =>
        /\ seal = "sealing" => cipher.cur \in Roots /\ store.kcv # NoRoot
        /\ seal = "compat" => store.kcv = NoRoot
StartedIsRecorded == Started => store.kcv # NoRoot
\* The column that is about to be marked as sealed holds no plaintext.
EndIsWhole ==
    work.pc = "end" => \A k \in KeysOf[work.item] : cells[work.item][k].form # Plain
\* A column that was not begun has no cursor.
FreshHasNoCursor ==
    \A i \in Items : items[i].state \in {"none", "pending"} => items[i].cursor = NoCursor
\* After the VACUUM, what is left is in the WAL.
VerifyIsWal == work.pc = "verify" => ~residue.free /\ ~residue.slack

Control == WorkIsKeyed /\ ModeIsRecorded /\ StartedIsRecorded /\ VerifyIsWal
MigrationInv == /\ MigrationTypeOK /\ Control
        /\ FreshHasNoCursor /\ EndIsWhole
        /\ NoPlainBehindCursor /\ EscapeIsNotSealed /\ OkIsScrubbed

-----------------------------------------------------------------------------
(* Least and greatest members of sets of numbers.                            *)

Less == {ss \in Nat \X Nat : ss[1] < ss[2]}

LEMMA LessWellFounded == IsWellFoundedOn(Less, Nat)
  BY NatLessThanWellFounded DEF OpToRel, Less

LEMMA LeastExists ==
  ASSUME NEW T, T \subseteq Nat, T # {}
  PROVE  \E m \in T : \A n \in T : m <= n
<1>1. PICK x \in T : \A y \in T : ~ (<<y, x>> \in Less)
  BY LessWellFounded, WFMin
<1>2. ASSUME NEW y \in T PROVE x <= y
  <2>1. ~ (y < x)
    BY <1>1 DEF Less
  <2> QED BY <2>1
<1> QED BY <1>2

LEMMA MinIsLeast ==
  ASSUME NEW T, T \subseteq Nat, T # {}
  PROVE  Min(T) \in T /\ \A n \in T : Min(T) <= n
  BY LeastExists DEF Min

\* A finite set of numbers has an upper bound: the least number of its members
\* without one would be one more than a number of members with one.
LEMMA FiniteIsBounded ==
  ASSUME NEW T, T \subseteq Nat, IsFiniteSet(T)
  PROVE  \E b \in Nat : \A n \in T : n <= b
<1> DEFINE rowCount == Cardinality(T)
<1>0. rowCount \in Nat
  BY FS_CardinalityType
<1>1. PICK f \in Bijection(1..rowCount, T) : TRUE
  BY FS_CardinalityType DEF ExistsBijection
<1> HIDE DEF rowCount
<1>2. /\ \A j \in 1..rowCount : f[j] \in Nat
      /\ \A n \in T : \E j \in 1..rowCount : f[j] = n
  BY <1>1 DEF Bijection, Injection, Surjection
<1> DEFINE Bounds(b, m) == \A j \in 1..m : f[j] <= b
           Loose == {m \in 0..rowCount : \A b \in Nat : ~ Bounds(b, m)}
<1>3. Loose = {}
  <2> SUFFICES ASSUME Loose # {} PROVE FALSE
    OBVIOUS
  <2>0. Loose \subseteq Nat
    BY <1>0
  <2>1. PICK m \in Loose : \A n \in Loose : m <= n
    <3> HIDE DEF Loose
    <3> QED BY <2>0, LeastExists
  <2>2. m # 0
    <3>1. Bounds(0, 0)
      OBVIOUS
    <3> QED BY <3>1, <2>1
  <2>3. m \in 1..rowCount /\ m - 1 \in 0..rowCount /\ ~ (m <= m - 1)
    BY <2>1, <2>2, <1>0
  <2>4. m - 1 \notin Loose
    BY <2>1, <2>3
  <2>5. PICK b \in Nat : Bounds(b, m - 1)
    BY <2>3, <2>4
  <2>6. f[m] \in Nat
    BY <1>2, <2>3
  <2>7. PICK up \in Nat : f[m] <= up /\ b <= up
    <3>1. \A x, y \in Nat : \E z \in Nat : x <= z /\ y <= z
      <4> TAKE x, y \in Nat
      <4> WITNESS x + y \in Nat
      <4> QED OBVIOUS
    <3> QED BY <3>1, <2>5, <2>6
  <2>8. ASSUME NEW j \in 1..m PROVE f[j] <= up
    <3>1. CASE j = m
      BY <3>1, <2>7
    <3>2. CASE j # m
      <4>1. j \in 1..(m - 1) /\ j \in 1..rowCount
        BY <3>2, <2>3, <1>0
      <4>2. f[j] <= b /\ f[j] \in Nat
        BY <4>1, <2>5, <1>2
      <4>3. \A x, y, z \in Nat : x <= y /\ y <= z => x <= z
        OBVIOUS
      <4> QED BY <4>2, <4>3, <2>5, <2>7
    <3> QED BY <3>1, <3>2
  <2>9. Bounds(up, m)
    BY <2>8
  <2> QED BY <2>1, <2>7, <2>9
<1>4. PICK b \in Nat : Bounds(b, rowCount)
  <2>1. rowCount \in 0..rowCount
    BY <1>0
  <2> QED BY <1>3, <2>1
<1> QED BY <1>2, <1>4

LEMMA MaxIsGreatest ==
  ASSUME NEW T, T \subseteq Nat, T # {}, IsFiniteSet(T)
  PROVE  Max(T) \in T /\ \A n \in T : n <= Max(T)
<1>1. PICK b \in Nat : \A n \in T : n <= b
  BY FiniteIsBounded
<1> DEFINE Rest == {d \in Nat : b - d \in T}
<1>2. Rest # {}
  <2>1. PICK n \in T : TRUE
    OBVIOUS
  <2>2. b - n \in Nat /\ b - (b - n) = n
    BY <1>1, <2>1
  <2> QED BY <2>1, <2>2
<1>3. PICK d \in Rest : \A e \in Rest : d <= e
  <2>1. Rest \subseteq Nat
    OBVIOUS
  <2> QED BY <1>2, <2>1, LeastExists
<1>4. ASSUME NEW n \in T PROVE n <= b - d
  <2>1. b - n \in Nat /\ b - (b - n) = n
    BY <1>1
  <2>2. b - n \in Rest
    BY <2>1
  <2>3. d <= b - n
    BY <1>3, <2>2
  <2> QED BY <2>1, <2>3, <1>1, <1>3
<1>5. b - d \in T /\ \A n \in T : b - d >= n
  BY <1>3, <1>4
<1>6. \E x \in T : \A y \in T : x >= y
  BY <1>5
<1> QED BY <1>6 DEF Max

-----------------------------------------------------------------------------
(* One batch.                                                                *)

LEMMA AheadIsFinite ==
  ASSUME NEW i \in Items
  PROVE  IsFiniteSet(Ahead(i)) /\ Ahead(i) \subseteq KeysOf[i] /\ KeysOf[i] \subseteq Nat
<1>1. IsFiniteSet(KeysOf[i]) /\ KeysOf[i] \subseteq Nat
  BY MigrationBounds
<1>2. Ahead(i) \in SUBSET KeysOf[i]
  BY DEF Ahead
<1> QED BY <1>1, <1>2, FS_Subset

\* A batch is an initial part of the rows ahead.
LEMMA BatchIsInitial ==
  ASSUME NEW i \in Items, NEW k \in Batch(i), NEW j \in Ahead(i), j <= k
  PROVE  j \in Batch(i)
<1> DEFINE below(n) == {l \in Ahead(i) : l < n}
<1>1. k \in Ahead(i) /\ Cardinality(below(k)) < BatchSize
  BY DEF Batch
<1>2. k \in Nat /\ j \in Nat /\ \A l \in Ahead(i) : l \in Nat
  BY <1>1, AheadIsFinite
<1>3. below(j) \in SUBSET below(k)
  <2>1. ASSUME NEW l \in Ahead(i), l < j PROVE l < k
    <3>1. l \in Nat
      BY <1>2
    <3> QED BY <2>1, <3>1, <1>2
  <2> QED BY <2>1
<1>4. IsFiniteSet(below(k))
  <2>1. below(k) \in SUBSET Ahead(i)
    OBVIOUS
  <2> QED BY <2>1, AheadIsFinite, FS_Subset
<1>5. Cardinality(below(j)) <= Cardinality(below(k))
  BY <1>3, <1>4, FS_Subset
<1>6. Cardinality(below(j)) \in Nat /\ Cardinality(below(k)) \in Nat
  BY <1>3, <1>4, FS_Subset, FS_CardinalityType
<1>7. Cardinality(below(j)) < BatchSize
  BY <1>1, <1>5, <1>6, MigrationBounds
<1> QED BY <1>7 DEF Batch

\* A batch that is not full is all there is ahead.
LEMMA ShortBatchIsAll ==
  ASSUME NEW i \in Items, Cardinality(Batch(i)) < BatchSize
  PROVE  Batch(i) = Ahead(i)
<1>1. Batch(i) \in SUBSET Ahead(i)
  BY DEF Batch
<1> SUFFICES ASSUME Ahead(i) \ Batch(i) # {} PROVE FALSE
  BY <1>1
<1>2. PICK k \in Ahead(i) \ Batch(i) : \A j \in Ahead(i) \ Batch(i) : k <= j
  <2>1. Ahead(i) \ Batch(i) \subseteq Nat
    BY AheadIsFinite
  <2> QED BY <2>1, LeastExists
<1> DEFINE below == {j \in Ahead(i) : j < k}
<1>3. k \in Nat /\ \A j \in Ahead(i) : j \in Nat
  BY AheadIsFinite
<1>4. below \in SUBSET Batch(i)
  <2>1. ASSUME NEW l \in Ahead(i), l < k PROVE l \in Batch(i)
    <3>1. l \in Nat /\ ~ (k <= l)
      BY <2>1, <1>3
    <3> QED BY <3>1, <1>2
  <2> QED BY <2>1
<1>5. IsFiniteSet(Batch(i)) /\ IsFiniteSet(below)
  BY <1>1, <1>4, AheadIsFinite, FS_Subset
<1>6. /\ Cardinality(below) <= Cardinality(Batch(i))
      /\ Cardinality(below) \in Nat /\ Cardinality(Batch(i)) \in Nat
  BY <1>4, <1>5, FS_Subset, FS_CardinalityType
<1>7. Cardinality(below) < BatchSize
  BY <1>6, MigrationBounds
<1> QED BY <1>2, <1>7 DEF Batch

-----------------------------------------------------------------------------
(* Types.                                                                    *)

LEMMA InitTyped == MigrationInit => MigrationTypeOK
<1> SUFFICES ASSUME MigrationInit PROVE MigrationTypeOK
  OBVIOUS
<1>1. NumItems \in Nat \ {0} /\ Roots \subseteq Nat
  BY MigrationBounds DEF Roots
<1>2. DOMAIN cells = Items /\ \A i \in Items : cells[i] \in [KeysOf[i] -> Values]
  <2>1. LegacyValues \subseteq Values
    BY DEF LegacyValues, Values
  <2>2. cells \in LegacyCells
    BY DEF MigrationInit
  <2>3. DOMAIN cells = Items /\ \A i \in Items : cells[i] \in [KeysOf[i] -> LegacyValues]
    BY <2>2 DEF LegacyCells
  <2> QED BY <2>1, <2>3
<1>3. items \in [Items -> ItemRows] /\ store \in StoreRows /\ residue \in Residues
  <2>1. items \in [Items -> ItemRows] /\ store \in StoreRows
    BY DEF MigrationInit, ItemRows, StoreRows, NoCursor, NoRoot
  <2>2. residue \in Residues
    <3>1. NoResidue \in Residues /\ [NoResidue EXCEPT !.free = TRUE, !.slack = TRUE] \in Residues
      BY DEF Residues, NoResidue
    <3> QED BY <3>1 DEF MigrationInit
  <2> QED BY <2>1, <2>2
<1>4. cipher \in Ciphers /\ work \in Works /\ budget \in Budgets
  BY <1>1, MigrationBounds
     DEF MigrationInit, NoCipher, Ciphers, Idle, Works, Phases, Budgets, NoRoot
<1> QED BY <1>2, <1>3, <1>4 DEF MigrationInit, MigrationTypeOK

LEMMA MigrationInitInv == MigrationInit => MigrationInv
<1> SUFFICES ASSUME MigrationInit PROVE MigrationInv
  OBVIOUS
<1>1. MigrationTypeOK
  BY InitTyped
<1>2. \A i \in Items : items[i].state = "none" /\ items[i].cursor = NoCursor
  BY DEF MigrationInit
<1>3. Control
  BY <1>2 DEF MigrationInit, Control, WorkIsKeyed, ModeIsRecorded, StartedIsRecorded,
              VerifyIsWal, Started, Idle
<1>4. NoPlainBehindCursor /\ EndIsWhole /\ OkIsScrubbed /\ FreshHasNoCursor
  BY <1>2 DEF MigrationInit, NoPlainBehindCursor, Behind, EndIsWhole, OkIsScrubbed, Idle,
              FreshHasNoCursor
<1>5. EscapeIsNotSealed
  <2> SUFFICES ASSUME NEW i \in Items, NEW k \in KeysOf[i], cells[i][k].esc
               PROVE  cells[i][k].form = Plain
    BY DEF EscapeIsNotSealed
  <2>1. cells[i] \in [KeysOf[i] -> LegacyValues]
    BY DEF MigrationInit, LegacyCells
  <2>2. cells[i][k] \in LegacyValues
    BY <2>1
  <2> QED BY <2>2 DEF LegacyValues
<1> QED BY <1>1, <1>3, <1>4, <1>5 DEF MigrationInv

-----------------------------------------------------------------------------
(* Records.                                                                  *)

LEMMA StoreForms ==
  ASSUME NEW s \in StoreRows
  PROVE  /\ \A a, b \in BOOLEAN : /\ SetPending(s, a, b) \in StoreRows
                                  /\ SetPending(s, a, b).row = "vacuum_pending"
                                  /\ SetPending(s, a, b).kcv = s.kcv
         /\ SetOk(s) \in StoreRows /\ SetOk(s).row = "ok" /\ SetOk(s).kcv = s.kcv
         /\ MarkScrubOwed(s) \in StoreRows /\ MarkScrubOwed(s).row = "vacuum_pending"
         /\ MarkScrubOwed(s).kcv = s.kcv
         /\ \A r \in Roots : /\ RecordKcv(s, r) \in StoreRows /\ RecordKcv(s, r).kcv = r
                             /\ RecordKcv(s, r).row = IF s.row = "none" THEN "ok" ELSE s.row
<1>1. \A a, b \in BOOLEAN : /\ SetPending(s, a, b) \in StoreRows
                            /\ SetPending(s, a, b).row = "vacuum_pending"
                            /\ SetPending(s, a, b).kcv = s.kcv
  BY DEF SetPending, StoreRows
<1>2. SetOk(s) \in StoreRows /\ SetOk(s).row = "ok" /\ SetOk(s).kcv = s.kcv
  BY DEF SetOk, StoreRows
<1>3. /\ MarkScrubOwed(s) \in StoreRows /\ MarkScrubOwed(s).row = "vacuum_pending"
      /\ MarkScrubOwed(s).kcv = s.kcv
  BY <1>1 DEF MarkScrubOwed, StoreRows
<1>4. \A r \in Roots : /\ RecordKcv(s, r) \in StoreRows /\ RecordKcv(s, r).kcv = r
                       /\ RecordKcv(s, r).row = IF s.row = "none" THEN "ok" ELSE s.row
  BY DEF RecordKcv, StoreRows
<1> QED BY <1>1, <1>2, <1>3, <1>4

LEMMA WorkForms ==
  ASSUME NEW w \in Works
  PROVE  /\ Idle \in Works /\ Idle.pc = "idle"
         /\ \A pc \in Phases : /\ [w EXCEPT !.pc = pc] \in Works
                               /\ [w EXCEPT !.pc = pc].pc = pc
                               /\ [w EXCEPT !.pc = pc].item = w.item
         /\ Opened(w) \in Works /\ Opened(w).pc \in {"begin", "idle"}
<1>1. Idle \in Works /\ Idle.pc = "idle"
  BY MigrationBounds DEF Idle, Works, Phases
<1>2. \A pc \in Phases : /\ [w EXCEPT !.pc = pc] \in Works
                         /\ [w EXCEPT !.pc = pc].pc = pc
                         /\ [w EXCEPT !.pc = pc].item = w.item
  BY DEF Works
<1>3. Opened(w) \in Works /\ Opened(w).pc \in {"begin", "idle"}
  BY <1>1, <1>2 DEF Opened, Phases
<1> QED BY <1>1, <1>2, <1>3

-----------------------------------------------------------------------------
(* Steps that leave the columns alone.                                       *)

\* What is scrubbed stays so while the columns' cursors do not move and nothing
\* more is left behind.
LEMMA StillScrubbed ==
  ASSUME items' = items, Scrubbed, ~residue'.free, ~residue'.slack,
         residue'.wal \subseteq residue.wal
  PROVE  Scrubbed'
<1>1. \A i \in Items : \A k \in KeysOf[i] : Behind(i, k)' => <<i, k>> \notin residue.wal
  BY DEF Scrubbed, Behind
<1> QED BY <1>1 DEF Scrubbed

LEMMA UnmovedScrubbed ==
  ASSUME items' = items, residue' = residue, Scrubbed
  PROVE  Scrubbed'
  BY StillScrubbed DEF Scrubbed

LEMMA QuietStep ==
  ASSUME MigrationInv, MigrationTypeOK', cells' = cells, items' = items, Control',
         work'.pc = "end" => work.pc = "end" /\ work'.item = work.item,
         store'.row = "ok" /\ Started => Scrubbed'
  PROVE  MigrationInv'
<1>1. NoPlainBehindCursor' /\ EscapeIsNotSealed' /\ FreshHasNoCursor'
  BY DEF MigrationInv, NoPlainBehindCursor, Behind, EscapeIsNotSealed, FreshHasNoCursor
<1>2. EndIsWhole'
  BY DEF MigrationInv, EndIsWhole
<1>3. OkIsScrubbed'
  BY DEF OkIsScrubbed, Started
<1> QED BY <1>1, <1>2, <1>3 DEF MigrationInv

\* The end of the owed work.
LEMMA AfterWorkStep ==
  ASSUME MigrationInv, work.pc # "idle", AfterWork, cells' = cells, items' = items, cipher' = cipher,
         seal' = seal, store' \in StoreRows, store'.kcv = store.kcv, residue' \in Residues,
         budget' \in Budgets, store'.row = "ok" /\ Started => Scrubbed'
  PROVE  MigrationInv'
<1>1. MigrationTypeOK /\ Control
  BY DEF MigrationInv
<1>2. work' \in Works /\ work'.pc \in {"begin", "idle"}
  BY <1>1, WorkForms DEF AfterWork, MigrationTypeOK
<1>3. proc' \in {proc, "serving"} /\ proc # "down" /\ seal = "sealing"
  BY <1>1 DEF AfterWork, Control, WorkIsKeyed
<1>4. MigrationTypeOK'
  BY <1>1, <1>2, <1>3 DEF MigrationTypeOK
<1>5. Control'
  BY <1>1, <1>2, <1>3
     DEF Control, WorkIsKeyed, ModeIsRecorded, StartedIsRecorded, VerifyIsWal, Started
<1> QED BY <1>2, <1>4, <1>5, QuietStep

\* A step of the working thread to another phase of the owed work.
LEMMA PhaseStep ==
  ASSUME MigrationInv, work.pc # "idle", NEW pc \in {"checkpoint", "scrub", "vacuum", "verify"},
         work' = [work EXCEPT !.pc = pc], cells' = cells, items' = items,
         UNCHANGED <<proc, cipher, seal, budget>>,
         store' \in StoreRows, store'.kcv = store.kcv, residue' \in Residues,
         store'.row = "ok" /\ Started => Scrubbed',
         pc = "verify" => ~residue'.free /\ ~residue'.slack
  PROVE  MigrationInv'
<1>1. MigrationTypeOK /\ Control
  BY DEF MigrationInv
<1>2. work' \in Works /\ work'.pc = pc
  <2>1. work \in Works /\ pc \in Phases
    BY <1>1 DEF MigrationTypeOK, Phases
  <2> QED BY <2>1, WorkForms
<1>3. MigrationTypeOK'
  BY <1>1, <1>2 DEF MigrationTypeOK
<1>4. Control'
  BY <1>1, <1>2
     DEF Control, WorkIsKeyed, ModeIsRecorded, StartedIsRecorded, VerifyIsWal, Started
<1> QED BY <1>2, <1>3, <1>4, QuietStep

LEMMA OwedWorkInv ==
  ASSUME MigrationInv, BeginPending \/ Checkpoint \/ Scrub \/ Vacuum
  PROVE  MigrationInv'
<1>1. MigrationTypeOK /\ OkIsScrubbed /\ store \in StoreRows /\ residue \in Residues
  BY DEF MigrationInv, MigrationTypeOK
<1>2. store.row = "ok" /\ Started => Scrubbed
  BY <1>1 DEF OkIsScrubbed, Started
<1>3. CASE BeginPending
  BY <1>1, <1>2, <1>3, PhaseStep, UnmovedScrubbed DEF BeginPending
<1>4. CASE Checkpoint
  <2>1. residue' \in Residues /\ residue'.wal = {} /\ residue'.free = residue.free
        /\ residue'.slack = residue.slack
    BY <1>1, <1>4 DEF Checkpoint, Residues
  <2>2. items' = items /\ store' = store
    BY <1>4 DEF Checkpoint
  <2>3. store'.row = "ok" /\ Started => Scrubbed'
    BY <1>2, <2>1, <2>2, StillScrubbed DEF Scrubbed
  <2> QED BY <1>1, <1>4, <2>1, <2>3, PhaseStep DEF Checkpoint
<1>5. CASE Scrub
  <2>1. /\ store' \in StoreRows /\ store'.kcv = store.kcv
        /\ residue' \in Residues /\ residue'.wal = residue.wal
        /\ residue'.slack = residue.slack /\ (residue'.free => residue.free)
        /\ store'.row = "ok" => store.row = "ok"
    <3>1. CASE store.row = "vacuum_pending" /\ store.scrubbed
      BY <1>1, <1>5, <3>1 DEF Scrub
    <3>2. CASE ~ (store.row = "vacuum_pending" /\ store.scrubbed)
      <4>1. SetPending(store, TRUE, FALSE) \in StoreRows
            /\ SetPending(store, TRUE, FALSE).kcv = store.kcv
            /\ SetPending(store, TRUE, FALSE).row = "vacuum_pending"
        BY <1>1, StoreForms
      <4>2. residue' = [residue EXCEPT !.free = FALSE]
        BY <1>5, <3>2 DEF Scrub
      <4>3. residue' \in Residues /\ residue'.wal = residue.wal
            /\ residue'.slack = residue.slack /\ ~residue'.free
        BY <1>1, <4>2 DEF Residues
      <4> QED BY <1>1, <1>5, <3>2, <4>1, <4>3 DEF Scrub
    <3> QED BY <3>1, <3>2
  <2>2. store'.row = "ok" /\ Started => Scrubbed'
    <3>1. items' = items
      BY <1>5 DEF Scrub
    <3> QED BY <1>2, <2>1, <3>1, StillScrubbed DEF Scrubbed
  <2> QED BY <1>1, <1>5, <2>1, <2>2, PhaseStep DEF Scrub
<1>6. CASE Vacuum
  <2>1. /\ residue' \in Residues /\ ~residue'.free /\ ~residue'.slack
        /\ ~residue.free /\ ~residue.slack => residue'.wal = residue.wal
    BY <1>1, <1>6 DEF Vacuum, Residues, NoResidue
  <2>2. items' = items /\ store' = store
    BY <1>6 DEF Vacuum
  <2>3. store'.row = "ok" /\ Started => Scrubbed'
    BY <1>2, <2>1, <2>2, StillScrubbed DEF Scrubbed
  <2> QED BY <1>1, <1>6, <2>1, <2>3, PhaseStep DEF Vacuum
<1> QED BY <1>3, <1>4, <1>5, <1>6

LEMMA WorkEndsInv ==
  ASSUME MigrationInv, NothingPending \/ ScrubNoRoom \/ VacuumDeferred \/ Verified \/ WorkFails
  PROVE  MigrationInv'
<1>1. /\ MigrationTypeOK /\ OkIsScrubbed /\ Control
      /\ store \in StoreRows /\ residue \in Residues /\ budget \in Budgets
  BY DEF MigrationInv, MigrationTypeOK
<1>2. store.row = "ok" /\ Started => Scrubbed
  BY <1>1 DEF OkIsScrubbed, Started
<1>3. CASE NothingPending
  <2>1. work' \in Works /\ work'.pc \in {"begin", "idle"}
    BY <1>1, <1>3, WorkForms DEF NothingPending, MigrationTypeOK
  <2>2. MigrationTypeOK'
    BY <1>1, <1>3, <2>1 DEF NothingPending, MigrationTypeOK
  <2>3. Control'
    BY <1>1, <1>3, <2>1 DEF NothingPending, Control, WorkIsKeyed, ModeIsRecorded,
                            StartedIsRecorded, VerifyIsWal, Started
  <2> QED BY <1>2, <1>3, <2>1, <2>2, <2>3, QuietStep, UnmovedScrubbed DEF NothingPending
<1>4. CASE ScrubNoRoom
  BY <1>1, <1>4, StoreForms, AfterWorkStep DEF ScrubNoRoom
<1>5. CASE VacuumDeferred
  <2>1. store' \in StoreRows /\ store'.kcv = store.kcv /\ store'.row = "vacuum_pending"
    <3>1. PICK noted \in BOOLEAN : store' = SetPending(store, TRUE, noted)
      BY <1>5 DEF VacuumDeferred
    <3> QED BY <1>1, <3>1, StoreForms
  <2> QED BY <1>1, <1>5, <2>1, AfterWorkStep DEF VacuumDeferred
<1>6. CASE Verified
  <2>1. residue' \in Residues /\ ~residue'.free /\ ~residue'.slack /\ residue'.wal = {}
    BY <1>1, <1>6 DEF Verified, Control, VerifyIsWal, Residues
  <2>2. Scrubbed'
    BY <2>1 DEF Scrubbed
  <2> QED BY <1>1, <1>6, <2>1, <2>2, StoreForms, AfterWorkStep DEF Verified
<1>7. CASE WorkFails
  <2>1. budget' \in Budgets
    BY <1>1, <1>7, MigrationBounds DEF WorkFails, Budgets
  <2>2. store' \in StoreRows /\ store'.kcv = store.kcv /\ (store'.row = "ok" => store.row = "ok")
    BY <1>1, <1>7, StoreForms DEF WorkFails
  <2> QED BY <1>1, <1>2, <1>7, <2>1, <2>2, AfterWorkStep, UnmovedScrubbed DEF WorkFails
<1> QED BY <1>3, <1>4, <1>5, <1>6, <1>7

\* Starts.
LEMMA StartInv ==
  ASSUME MigrationInv, StartKeyless \/ \E c \in Ciphers : StartSealing(c)
  PROVE  MigrationInv'
<1>1. MigrationTypeOK /\ OkIsScrubbed /\ Control /\ store \in StoreRows
  BY DEF MigrationInv, MigrationTypeOK
<1>2. store.row = "ok" /\ Started => Scrubbed
  BY <1>1 DEF OkIsScrubbed, Started
<1>3. CASE StartKeyless
  <2>1. budget' \in Budgets /\ NoCipher \in Ciphers /\ work.pc = "idle"
    BY <1>1, <1>3, MigrationBounds
       DEF StartKeyless, Budgets, NoCipher, Ciphers, MigrationTypeOK, Control, WorkIsKeyed
  <2>2. MigrationTypeOK'
    BY <1>1, <1>3, <2>1 DEF StartKeyless, MigrationTypeOK
  <2>3. Control'
    BY <1>1, <1>3, <2>1 DEF StartKeyless, Control, WorkIsKeyed, ModeIsRecorded,
                            StartedIsRecorded, VerifyIsWal, Started
  <2> QED BY <1>2, <1>3, <2>2, <2>3, QuietStep, UnmovedScrubbed DEF StartKeyless
<1>4. ASSUME NEW c \in Ciphers, StartSealing(c) PROVE MigrationInv'
  <2>1. budget' \in Budgets
    <3>1. budget.starts > 0 /\ budget' = [budget EXCEPT !.starts = @ - 1] /\ budget \in Budgets
      BY <1>1, <1>4 DEF StartSealing, MigrationTypeOK
    <3> QED BY <3>1, MigrationBounds DEF Budgets
  <2>2. work' \in Works /\ work'.pc \in {"reset", "pending"} /\ work'.item = 1
    <3>1. PICK pc \in {"reset", "pending"}, retired \in BOOLEAN :
            work' = [Idle EXCEPT !.pc = pc, !.retired = retired]
      BY <1>4 DEF StartSealing
    <3>2. Idle \in Works /\ Idle.item = 1
      BY <1>1, WorkForms DEF MigrationTypeOK, Idle
    <3> QED BY <3>1, <3>2 DEF Works, Phases
  <2>3. c.cur \in Roots
    BY <1>4 DEF StartSealing, Ciphers
  <2>4. /\ store' \in StoreRows /\ store'.kcv # NoRoot
        /\ store.kcv # NoRoot => store' = store
    BY <1>1, <1>4, <2>3, StoreForms, MigrationBounds
       DEF StartSealing, Checked, Roots, NoRoot
  <2>5. 1 \in Items
    BY MigrationBounds DEF Items
  <2>6. MigrationTypeOK'
    BY <1>1, <1>4, <2>1, <2>2, <2>4 DEF StartSealing, MigrationTypeOK
  <2>7. Control'
    BY <1>1, <1>4, <2>2, <2>3, <2>4, <2>5
       DEF StartSealing, Control, WorkIsKeyed, ModeIsRecorded, StartedIsRecorded, VerifyIsWal,
           Started
  <2>8. store'.row = "ok" /\ Started => Scrubbed'
    BY <1>1, <1>2, <1>4, <2>4, UnmovedScrubbed DEF StartSealing, Control, StartedIsRecorded
  <2> QED BY <1>4, <2>2, <2>6, <2>7, <2>8, QuietStep DEF StartSealing
<1> QED BY <1>3, <1>4

\* Ends, failures and the clock.
LEMMA StopInv ==
  ASSUME MigrationInv, SpawnMigration \/ MigrationDone \/ MigrationFails \/ Exit \/ DayPasses
  PROVE  MigrationInv'
<1>1. MigrationTypeOK /\ OkIsScrubbed /\ Control /\ store \in StoreRows
  BY DEF MigrationInv, MigrationTypeOK
<1>2. store.row = "ok" /\ Started => Scrubbed
  BY <1>1 DEF OkIsScrubbed, Started
<1>3. CASE SpawnMigration
  <2>1. work' \in Works /\ work'.pc = "begin"
    BY <1>1, <1>3 DEF SpawnMigration, MigrationTypeOK, Works
  <2>2. MigrationTypeOK'
    BY <1>1, <1>3, <2>1 DEF SpawnMigration, MigrationTypeOK
  <2>3. Control'
    BY <1>1, <1>3, <2>1 DEF SpawnMigration, Control, WorkIsKeyed, ModeIsRecorded,
                            StartedIsRecorded, VerifyIsWal, Started
  <2> QED BY <1>2, <1>3, <2>1, <2>2, <2>3, QuietStep, UnmovedScrubbed DEF SpawnMigration
<1>4. CASE MigrationDone
  <2>1. work' \in Works /\ work'.pc \in {"checkpoint", "idle"}
    <3>1. work' = Idle \/ work' = [work EXCEPT !.pc = "checkpoint", !.job = "finish"]
      BY <1>4 DEF MigrationDone
    <3>2. work \in Works /\ Idle \in Works /\ Idle.pc = "idle"
      BY <1>1, WorkForms DEF MigrationTypeOK
    <3> QED BY <3>1, <3>2 DEF Works, Phases
  <2>2. MigrationTypeOK'
    BY <1>1, <1>4, <2>1 DEF MigrationDone, MigrationTypeOK
  <2>3. Control'
    BY <1>1, <1>4, <2>1 DEF MigrationDone, Control, WorkIsKeyed, ModeIsRecorded,
                            StartedIsRecorded, VerifyIsWal, Started
  <2> QED BY <1>2, <1>4, <2>1, <2>2, <2>3, QuietStep, UnmovedScrubbed DEF MigrationDone
<1>5. CASE MigrationFails \/ Exit
  <2>1. budget' \in Budgets
    BY <1>1, <1>5, MigrationBounds DEF MigrationFails, Exit, Budgets, MigrationTypeOK
  <2>2. work' \in Works /\ work'.pc = "idle"
    BY <1>1, <1>5, WorkForms DEF MigrationFails, Exit, MigrationTypeOK
  <2>3. proc' \in {proc, "down"} /\ UNCHANGED <<cells, items, store, residue, cipher, seal>>
    BY <1>5 DEF MigrationFails, Exit
  <2>4. MigrationTypeOK'
    BY <1>1, <2>1, <2>2, <2>3 DEF MigrationTypeOK
  <2>5. Control'
    BY <1>1, <2>2, <2>3 DEF Control, WorkIsKeyed, ModeIsRecorded, StartedIsRecorded,
                            VerifyIsWal, Started
  <2> QED BY <1>2, <2>2, <2>3, <2>4, <2>5, QuietStep, UnmovedScrubbed
<1>6. CASE DayPasses
  <2>1. store' \in StoreRows /\ store'.row = store.row /\ store'.kcv = store.kcv
    BY <1>1, <1>6 DEF DayPasses, StoreRows
  <2>2. MigrationTypeOK'
    BY <1>1, <1>6, <2>1 DEF DayPasses, MigrationTypeOK
  <2>3. Control'
    BY <1>1, <1>6, <2>1 DEF DayPasses, Control, WorkIsKeyed, ModeIsRecorded,
                            StartedIsRecorded, VerifyIsWal, Started
  <2> QED BY <1>2, <1>6, <2>1, <2>2, <2>3, QuietStep, UnmovedScrubbed DEF DayPasses
<1> QED BY <1>3, <1>4, <1>5, <1>6

-----------------------------------------------------------------------------
(* Steps on the columns.                                                     *)

LEMMA ResetInv == ASSUME MigrationInv, ResetItem PROVE MigrationInv'
<1>1. /\ MigrationTypeOK /\ Control /\ NoPlainBehindCursor /\ EscapeIsNotSealed /\ OkIsScrubbed
      /\ FreshHasNoCursor
  BY DEF MigrationInv
<1> DEFINE at == work.item
           pending == [state |-> "pending", cursor |-> NoCursor]
<1>2. /\ work.pc = "reset" /\ at \in Items /\ items' = [items EXCEPT ![at] = pending]
      /\ UNCHANGED <<cells, store, residue, proc, cipher, seal, budget>>
  BY <1>1 DEF ResetItem, Control, WorkIsKeyed
<1>3. items' \in [Items -> ItemRows]
  BY <1>1, <1>2 DEF MigrationTypeOK, ItemRows, NoCursor
<1>4. \A i \in Items : \/ items'[i] = items[i]
                       \/ items'[i].state = "pending" /\ items'[i].cursor = NoCursor
  BY <1>1, <1>2 DEF MigrationTypeOK
<1>5. /\ work' \in Works /\ work'.pc \in {"reset", "pending"}
      /\ work'.pc = "reset" => work'.item \in Items
  <2>1. work \in Works /\ at \in 1..NumItems /\ NumItems \in Nat \ {0}
    BY <1>1, <1>2, MigrationBounds DEF MigrationTypeOK, Items
  <2>2. CASE at = NumItems
    <3>1. work' = [work EXCEPT !.pc = "pending", !.item = 1]
      BY <2>2 DEF ResetItem
    <3>2. 1 \in 1..NumItems + 1
      BY <2>1
    <3> QED BY <2>1, <3>1, <3>2 DEF Works, Phases
  <2>3. CASE at # NumItems
    <3>1. work' = [work EXCEPT !.item = at + 1]
      BY <2>3 DEF ResetItem
    <3>2. at + 1 \in 1..NumItems /\ at + 1 \in 1..NumItems + 1
      BY <2>1, <2>3
    <3> QED BY <1>2, <2>1, <3>1, <3>2 DEF Works, Phases, Items
  <2> QED BY <2>2, <2>3
<1>6. MigrationTypeOK'
  BY <1>1, <1>2, <1>3, <1>5 DEF MigrationTypeOK
<1>7. Started' => Started
  BY <1>4 DEF Started
<1>8. Control'
  BY <1>1, <1>2, <1>5, <1>7
     DEF Control, WorkIsKeyed, ModeIsRecorded, StartedIsRecorded, VerifyIsWal
<1>9. NoPlainBehindCursor' /\ EscapeIsNotSealed' /\ FreshHasNoCursor'
  BY <1>1, <1>2, <1>4 DEF NoPlainBehindCursor, Behind, EscapeIsNotSealed, FreshHasNoCursor
<1>10. EndIsWhole' /\ OkIsScrubbed'
  <2>1. \A i \in Items : \A k \in KeysOf[i] : Behind(i, k)' => Behind(i, k)
    BY <1>4 DEF Behind
  <2>2. Scrubbed => Scrubbed'
    BY <1>2, <2>1 DEF Scrubbed
  <2> QED BY <1>1, <1>2, <1>5, <1>7, <2>2 DEF EndIsWhole, OkIsScrubbed
<1> QED BY <1>6, <1>8, <1>9, <1>10 DEF MigrationInv

LEMMA UnfinishedIsItems == Unfinished \subseteq Items /\ Unfinished \subseteq Nat
  BY MigrationBounds DEF Unfinished, Items

LEMMA BeginItemInv == ASSUME MigrationInv, BeginItem PROVE MigrationInv'
<1>1. /\ MigrationTypeOK /\ Control /\ NoPlainBehindCursor /\ EscapeIsNotSealed /\ OkIsScrubbed
      /\ FreshHasNoCursor
  BY DEF MigrationInv
<1> DEFINE i == Min(Unfinished)
<1>2. i \in Items /\ items[i].state # "sealed"
  <2>1. Min(Unfinished) \in Unfinished
    BY UnfinishedIsItems, MinIsLeast DEF BeginItem
  <2> QED BY <2>1 DEF Unfinished
<1> HIDE DEF i
<1>3. /\ work.pc = "begin" /\ items' = [items EXCEPT ![i].state = "sealing"]
      /\ work' = [work EXCEPT !.pc = "batch", !.item = i]
      /\ store' = MarkScrubOwed(store)
      /\ UNCHANGED <<cells, residue, proc, cipher, seal, budget>>
  BY DEF BeginItem, i
<1>4. store' \in StoreRows /\ store'.row = "vacuum_pending" /\ store'.kcv = store.kcv
  BY <1>1, <1>3, StoreForms DEF MigrationTypeOK
<1>5. work' \in Works /\ work'.pc = "batch" /\ work'.item = i
  <2>1. work \in Works /\ i \in 1..NumItems + 1
    BY <1>1, <1>2, MigrationBounds DEF MigrationTypeOK, Items
  <2> QED BY <1>3, <2>1 DEF Works, Phases
<1>6. items' \in [Items -> ItemRows] /\ items'[i].state = "sealing"
  BY <1>1, <1>2, <1>3 DEF MigrationTypeOK, ItemRows
<1>7. MigrationTypeOK'
  BY <1>1, <1>3, <1>4, <1>5, <1>6 DEF MigrationTypeOK
<1>8. seal = "sealing" /\ proc # "down" /\ store.kcv # NoRoot
  BY <1>1, <1>3 DEF Control, WorkIsKeyed, ModeIsRecorded
<1>9. Control'
  BY <1>1, <1>2, <1>3, <1>4, <1>5, <1>6, <1>8
     DEF Control, WorkIsKeyed, ModeIsRecorded, StartedIsRecorded, VerifyIsWal
<1>10. ASSUME NEW j \in Items, NEW k \in KeysOf[j], Behind(j, k)' PROVE cells[j][k].form # Plain
  <2>1. CASE j # i
    <3>1. items'[j] = items[j]
      BY <1>1, <1>3, <2>1 DEF MigrationTypeOK
    <3> QED BY <1>1, <1>10, <3>1 DEF NoPlainBehindCursor, Behind
  <2>2. CASE j = i
    \* A column that begins has no cursor, or goes on from its own.
    <3>1. items[i].state = "sealing" \/ items[i].cursor = NoCursor
      BY <1>1, <1>2 DEF FreshHasNoCursor, MigrationTypeOK, ItemRows
    <3>2. items'[i].cursor = items[i].cursor
      BY <1>1, <1>2, <1>3 DEF MigrationTypeOK, ItemRows
    <3>3. k <= items[i].cursor
      BY <1>6, <1>10, <2>2, <3>2 DEF Behind
    <3>4. k \in Nat \ {0}
      BY MigrationBounds
    <3>5. items[i].state = "sealing"
      BY <3>1, <3>3, <3>4 DEF NoCursor
    <3> QED BY <1>1, <2>2, <3>3, <3>5 DEF NoPlainBehindCursor, Behind
  <2> QED BY <2>1, <2>2
<1>11. NoPlainBehindCursor' /\ EscapeIsNotSealed'
  BY <1>1, <1>3, <1>10 DEF NoPlainBehindCursor, EscapeIsNotSealed
<1>12. FreshHasNoCursor'
  BY <1>1, <1>3, <1>6 DEF FreshHasNoCursor, MigrationTypeOK
<1>13. EndIsWhole' /\ OkIsScrubbed'
  BY <1>4, <1>5 DEF EndIsWhole, OkIsScrubbed
<1> QED BY <1>7, <1>9, <1>11, <1>12, <1>13 DEF MigrationInv

\* A value that was read and written back by the migration.
LEMMA ResealForms ==
  ASSUME NEW v \in Values, v.esc => v.form = Plain, cipher \in Ciphers, cipher.cur \in Roots
  PROVE  /\ Reseal(v, cipher) \in Values
         /\ Reseal(v, cipher).form # Plain
         /\ ~ Reseal(v, cipher).esc
<1>1. Plain \notin Roots /\ cipher.retired \subseteq Roots
  BY MigrationForms DEF Ciphers
<1>2. CASE NeedsReseal(v, cipher)
  <2>1. Reseal(v, cipher) = [form |-> cipher.cur, esc |-> FALSE]
    BY <1>1, <1>2 DEF Reseal, NeedsReseal, Values
  <2> QED BY <1>1, <2>1 DEF Values
<1>3. CASE ~ NeedsReseal(v, cipher)
  BY <1>3 DEF Reseal, NeedsReseal, Values
<1> QED BY <1>2, <1>3

LEMMA StaleTyped ==
  ASSUME residue \in Residues, NEW i \in Items, NEW rows \in SUBSET KeysOf[i]
  PROVE  /\ WithStale(i, rows) \in Residues
         /\ WithStale(i, rows).free = residue.free /\ WithStale(i, rows).slack = residue.slack
         /\ \A j \in Items : \A l \in KeysOf[j] : <<j, l>> \in WithStale(i, rows).wal =>
               \/ <<j, l>> \in residue.wal
               \/ j = i /\ l \in rows /\ cells[i][l].form = Plain
<1> DEFINE stale == {<<i, k>> : k \in {j \in rows : cells[i][j].form = Plain}}
<1>1. stale \subseteq Rows
  BY DEF Rows
<1>2. \A j, l : <<j, l>> \in stale => j = i /\ l \in rows /\ cells[i][l].form = Plain
  OBVIOUS
<1>3. WithStale(i, rows) = [residue EXCEPT !.wal = residue.wal \cup stale]
  BY DEF WithStale, Residues
<1> HIDE DEF stale
<1> QED BY <1>1, <1>2, <1>3 DEF Residues

LEMMA SealBatchInv == ASSUME MigrationInv, SealBatch PROVE MigrationInv'
<1>1. /\ MigrationTypeOK /\ Control /\ NoPlainBehindCursor /\ EscapeIsNotSealed /\ OkIsScrubbed
      /\ FreshHasNoCursor
  BY DEF MigrationInv
<1> DEFINE i == work.item
           rows == Batch(i)
<1>2. /\ work.pc = "batch" /\ i \in Items /\ items[i].state = "sealing"
      /\ store.row = "vacuum_pending" /\ proc # "down" /\ seal = "sealing"
      /\ cipher \in Ciphers /\ cipher.cur \in Roots
  BY <1>1 DEF SealBatch, Control, WorkIsKeyed, ModeIsRecorded, MigrationTypeOK
<1>3. /\ cells' = [cells EXCEPT ![i] =
             [k \in KeysOf[i] |-> IF k \in rows THEN Reseal(cells[i][k], cipher) ELSE cells[i][k]]]
      /\ items' = [items EXCEPT ![i].cursor = IF rows = {} THEN @ ELSE Max(rows)]
      /\ residue' = WithStale(i, rows)
      /\ UNCHANGED <<store, proc, cipher, seal, budget>>
  BY DEF SealBatch
<1>4. rows \subseteq Ahead(i) /\ IsFiniteSet(rows) /\ rows \subseteq Nat
      /\ Ahead(i) \subseteq KeysOf[i] /\ KeysOf[i] \subseteq Nat
  <2>1. rows \in SUBSET Ahead(i)
    BY DEF Batch
  <2> QED BY <1>2, <2>1, AheadIsFinite, FS_Subset
<1>5. rows # {} => Max(rows) \in rows /\ \A n \in rows : n <= Max(rows)
  BY <1>4, MaxIsGreatest
<1>6. /\ work' \in Works /\ work'.item = i
      /\ work'.pc = IF Cardinality(rows) < BatchSize THEN "end" ELSE "batch"
  <2>1. PICK a \in BOOLEAN, b \in BOOLEAN :
          work' = [work EXCEPT !.sealed = a, !.unreadable = b,
                               !.pc = IF Cardinality(rows) < BatchSize THEN "end" ELSE @]
    <3>1. work \in Works
      BY <1>1 DEF MigrationTypeOK
    <3> QED BY <3>1 DEF SealBatch, Works
  <2> QED BY <1>1, <1>2, <2>1 DEF MigrationTypeOK, Works, Phases
<1>7. /\ items' \in [Items -> ItemRows]
      /\ \A j \in Items : items'[j].state = items[j].state
      /\ \A j \in Items \ {i} : items'[j] = items[j]
      /\ items'[i].cursor = IF rows = {} THEN items[i].cursor ELSE Max(rows)
  <2>1. items \in [Items -> ItemRows] /\ (rows # {} => Max(rows) \in Nat)
    BY <1>1, <1>4, <1>5 DEF MigrationTypeOK
  <2> HIDE DEF rows, i
  <2> QED BY <1>2, <1>3, <2>1 DEF ItemRows
<1>8. /\ DOMAIN cells' = Items
      /\ \A j \in Items \ {i} : cells'[j] = cells[j]
      /\ cells'[i] = [k \in KeysOf[i] |->
                         IF k \in rows THEN Reseal(cells[i][k], cipher) ELSE cells[i][k]]
  BY <1>1, <1>2, <1>3 DEF MigrationTypeOK
<1> HIDE DEF rows, i
<1>9. ASSUME NEW k \in KeysOf[i]
      PROVE  /\ cells[i][k] \in Values /\ (cells[i][k].esc => cells[i][k].form = Plain)
             /\ k \in rows => /\ cells'[i][k] \in Values /\ cells'[i][k].form # Plain
                              /\ ~ cells'[i][k].esc
             /\ k \notin rows => cells'[i][k] = cells[i][k]
  <2>1. cells[i][k] \in Values /\ (cells[i][k].esc => cells[i][k].form = Plain)
    BY <1>1, <1>2 DEF MigrationTypeOK, EscapeIsNotSealed
  <2> QED BY <1>2, <1>8, <2>1, ResealForms
<1>10. MigrationTypeOK'
  <2>1. cells'[i] \in [KeysOf[i] -> Values]
    BY <1>8, <1>9
  <2>2. \A j \in Items : cells'[j] \in [KeysOf[j] -> Values]
    BY <1>1, <1>8, <2>1 DEF MigrationTypeOK
  <2>3. residue' \in Residues
    BY <1>1, <1>2, <1>3, <1>4, StaleTyped DEF MigrationTypeOK
  <2> QED BY <1>1, <1>3, <1>6, <1>7, <1>8, <2>2, <2>3 DEF MigrationTypeOK
<1>11. Control'
  <2>1. work'.pc \in {"batch", "end"}
    BY <1>6
  <2> QED BY <1>1, <1>2, <1>3, <1>6, <1>7, <2>1
      DEF Control, WorkIsKeyed, ModeIsRecorded, StartedIsRecorded, VerifyIsWal, Started
\* What the cursor passes is in the batch, or there is no such row.
<1>12. ASSUME NEW k \in KeysOf[i], k <= items'[i].cursor PROVE cells'[i][k].form # Plain
  <2>1. CASE k \in rows
    BY <1>9, <2>1
  <2>2. CASE k \notin rows /\ k <= items[i].cursor
    <3>1. cells[i][k].form # Plain
      BY <1>1, <1>2, <2>2 DEF NoPlainBehindCursor, Behind
    <3> QED BY <1>9, <2>2, <3>1
  <2>3. CASE k \notin rows /\ ~ (k <= items[i].cursor)
    <3>1. rows # {} /\ k <= Max(rows) /\ Max(rows) \in Batch(i)
      BY <1>5, <1>7, <1>12, <2>3 DEF rows
    <3>2. k \notin Ahead(i)
      BY <1>2, <2>3, <3>1, BatchIsInitial DEF rows
    <3>3. k > items[i].cursor
      BY <1>1, <1>2, <1>4, <2>3 DEF MigrationTypeOK, ItemRows
    <3>4. cells[i][k].form = Absent
      BY <3>2, <3>3 DEF Ahead
    <3> QED BY <1>9, <2>3, <3>4, MigrationForms
  <2> QED BY <2>1, <2>2, <2>3
<1>13. NoPlainBehindCursor'
  <2> SUFFICES ASSUME NEW j \in Items, NEW k \in KeysOf[j], Behind(j, k)'
               PROVE  cells'[j][k].form # Plain
    BY DEF NoPlainBehindCursor
  <2>1. CASE j # i
    BY <1>1, <1>7, <1>8, <2>1 DEF NoPlainBehindCursor, Behind
  <2>2. CASE j = i
    BY <1>2, <1>7, <1>12, <2>2 DEF Behind
  <2> QED BY <2>1, <2>2
<1>14. EndIsWhole'
  <2> SUFFICES ASSUME work'.pc = "end", NEW k \in KeysOf[i] PROVE cells'[i][k].form # Plain
    BY <1>6 DEF EndIsWhole
  <2>1. rows = Ahead(i)
    BY <1>2, <1>6, ShortBatchIsAll DEF rows
  <2>2. CASE k \in rows
    BY <1>9, <2>2
  <2>3. CASE k \notin rows
    <3>1. k <= items[i].cursor \/ cells[i][k].form = Absent
      <4>1. k \in Nat /\ items[i].cursor \in Nat
        BY <1>1, <1>2, <1>4 DEF MigrationTypeOK, ItemRows
      <4> QED BY <2>1, <2>3, <4>1 DEF Ahead
    <3>2. cells[i][k].form # Plain
      BY <1>1, <1>2, <3>1, MigrationForms DEF NoPlainBehindCursor, Behind
    <3> QED BY <1>9, <2>3, <3>2
  <2> QED BY <2>2, <2>3
<1>15. EscapeIsNotSealed'
  <2> SUFFICES ASSUME NEW j \in Items, NEW k \in KeysOf[j], cells'[j][k].esc
               PROVE  cells'[j][k].form = Plain
    BY DEF EscapeIsNotSealed
  <2>1. CASE j # i
    BY <1>1, <1>8, <2>1 DEF EscapeIsNotSealed
  <2>2. CASE j = i
    BY <1>9, <2>2
  <2> QED BY <2>1, <2>2
<1>16. FreshHasNoCursor' /\ OkIsScrubbed'
  BY <1>1, <1>2, <1>3, <1>7 DEF FreshHasNoCursor, OkIsScrubbed
<1> QED BY <1>10, <1>11, <1>13, <1>14, <1>15, <1>16 DEF MigrationInv

LEMMA EndItemInv == ASSUME MigrationInv, EndItem PROVE MigrationInv'
<1>1. /\ MigrationTypeOK /\ Control /\ NoPlainBehindCursor /\ EscapeIsNotSealed /\ EndIsWhole
      /\ FreshHasNoCursor
  BY DEF MigrationInv
<1> DEFINE i == work.item
           done == [state |-> "sealed", cursor |-> NoCursor]
<1>2. /\ work.pc = "end" /\ i \in Items /\ items' = [items EXCEPT ![i] = done]
      /\ work' = [work EXCEPT !.pc = "begin", !.item = @ + 1]
      /\ store' = store \/ store' = RecordKcv(store, cipher.cur)
      /\ UNCHANGED <<cells, residue, proc, cipher, seal, budget>>
  BY <1>1 DEF EndItem, Control, WorkIsKeyed
<1>3. /\ store.row = "vacuum_pending" /\ proc # "down" /\ seal = "sealing"
      /\ cipher.cur \in Roots /\ store.kcv # NoRoot
  BY <1>1, <1>2 DEF Control, WorkIsKeyed, ModeIsRecorded
<1>4. store' \in StoreRows /\ store'.row = "vacuum_pending" /\ store'.kcv # NoRoot
  <2>1. NoRoot \notin Roots /\ store \in StoreRows
    BY <1>1, MigrationBounds DEF MigrationTypeOK, Roots, NoRoot
  <2> QED BY <1>2, <1>3, <2>1, StoreForms
<1>5. work' \in Works /\ work'.pc = "begin"
  <2>1. work \in Works /\ work.item + 1 \in 1..NumItems + 1
    BY <1>1, <1>2, MigrationBounds DEF MigrationTypeOK, Items
  <2> QED BY <1>2, <2>1 DEF Works, Phases
<1>6. /\ items' \in [Items -> ItemRows] /\ items'[i] = done
      /\ \A j \in Items \ {i} : items'[j] = items[j]
  BY <1>1, <1>2 DEF MigrationTypeOK, ItemRows, NoCursor
<1>7. MigrationTypeOK'
  BY <1>1, <1>2, <1>4, <1>5, <1>6 DEF MigrationTypeOK
<1>8. Control'
  BY <1>1, <1>2, <1>3, <1>4, <1>5
     DEF Control, WorkIsKeyed, ModeIsRecorded, StartedIsRecorded, VerifyIsWal
<1>9. ASSUME NEW j \in Items, NEW k \in KeysOf[j], Behind(j, k)' PROVE cells[j][k].form # Plain
  <2>1. CASE j # i
    BY <1>1, <1>6, <1>9, <2>1 DEF NoPlainBehindCursor, Behind
  <2>2. CASE j = i
    BY <1>1, <1>2, <2>2 DEF EndIsWhole
  <2> QED BY <2>1, <2>2
<1>10. NoPlainBehindCursor' /\ EscapeIsNotSealed'
  BY <1>1, <1>2, <1>9 DEF NoPlainBehindCursor, EscapeIsNotSealed
<1>11. FreshHasNoCursor'
  BY <1>1, <1>6 DEF FreshHasNoCursor
<1>12. EndIsWhole' /\ OkIsScrubbed'
  BY <1>4, <1>5 DEF EndIsWhole, OkIsScrubbed
<1> QED BY <1>7, <1>8, <1>10, <1>11, <1>12 DEF MigrationInv

\* Requests: only a process with the key writes to a store that is recorded, and
\* the plain values that it replaces are ahead of the cursor.
LEMMA RequestInv ==
  ASSUME MigrationInv, NEW i \in Items, NEW k \in KeysOf[i], Write(i, k) \/ DeleteRow(i, k)
  PROVE  MigrationInv'
<1>1. /\ MigrationTypeOK /\ Control /\ NoPlainBehindCursor /\ EscapeIsNotSealed /\ OkIsScrubbed
      /\ EndIsWhole /\ FreshHasNoCursor
  BY DEF MigrationInv
<1>2. PICK v \in Values :
        /\ cells' = [cells EXCEPT ![i][k] = v]
        /\ v.esc => v.form = Plain
        /\ v.form = Plain => seal = "compat" /\ proc # "down"
  <2>1. CASE DeleteRow(i, k)
    <3>1. [form |-> Absent, esc |-> FALSE] \in Values
      BY DEF Values
    <3> WITNESS [form |-> Absent, esc |-> FALSE] \in Values
    <3> QED BY <2>1, MigrationForms DEF DeleteRow
  <2>2. CASE Write(i, k) /\ seal = "sealing"
    <3>1. cipher.cur \in Roots
      BY <1>1, <2>2 DEF Write, Control, ModeIsRecorded
    <3>2. [form |-> cipher.cur, esc |-> FALSE] \in Values
      BY <3>1 DEF Values
    <3> WITNESS [form |-> cipher.cur, esc |-> FALSE] \in Values
    <3> QED BY <2>2, <3>1, MigrationForms DEF Write
  <2>3. CASE Write(i, k) /\ seal # "sealing"
    <3>1. seal = "compat" /\ proc # "down"
      BY <1>1, <2>3 DEF Write, MigrationTypeOK
    <3>2. PICK esc \in BOOLEAN : cells' = [cells EXCEPT ![i][k] = [form |-> Plain, esc |-> esc]]
      BY <2>3 DEF Write
    <3>3. [form |-> Plain, esc |-> esc] \in Values
      BY DEF Values
    <3> WITNESS [form |-> Plain, esc |-> esc] \in Values
    <3> QED BY <3>1, <3>2
  <2> QED BY <2>1, <2>2, <2>3
<1>3. /\ UNCHANGED <<items, store, proc, cipher, seal, work>>
      /\ residue' = WithStale(i, {k})
      /\ budget.writes > 0 /\ budget' = [budget EXCEPT !.writes = @ - 1]
  BY DEF Write, DeleteRow
<1>4. /\ DOMAIN cells' = Items
      /\ \A j \in Items : cells'[j] \in [KeysOf[j] -> Values]
      /\ \A j \in Items : \A l \in KeysOf[j] :
             cells'[j][l] = IF j = i /\ l = k THEN v ELSE cells[j][l]
  BY <1>1, <1>2 DEF MigrationTypeOK
<1>5. budget' \in Budgets
  BY <1>1, <1>3, MigrationBounds DEF MigrationTypeOK, Budgets
<1>12. /\ residue' \in Residues /\ residue'.free = residue.free /\ residue'.slack = residue.slack
       /\ \A j \in Items : \A l \in KeysOf[j] : <<j, l>> \in residue'.wal =>
             <<j, l>> \in residue.wal \/ cells[j][l].form = Plain
  <2>1. residue \in Residues /\ {k} \in SUBSET KeysOf[i]
    BY <1>1 DEF MigrationTypeOK
  <2> QED BY <1>3, <2>1, StaleTyped
<1>6. MigrationTypeOK'
  BY <1>1, <1>3, <1>4, <1>5, <1>12 DEF MigrationTypeOK
<1>13. OkIsScrubbed'
  <2> SUFFICES ASSUME store.row = "ok", Started, Scrubbed PROVE Scrubbed'
    BY <1>1, <1>3 DEF OkIsScrubbed, Started
  <2>1. ASSUME NEW j \in Items, NEW l \in KeysOf[j], Behind(j, l)
        PROVE  <<j, l>> \notin residue'.wal
    BY <1>1, <1>12, <2>1 DEF NoPlainBehindCursor, Scrubbed
  <2> QED BY <1>3, <1>12, <2>1 DEF Scrubbed, Behind
<1>7. Control' /\ FreshHasNoCursor' /\ OkIsScrubbed'
  BY <1>1, <1>3, <1>12, <1>13 DEF Control, WorkIsKeyed, ModeIsRecorded, StartedIsRecorded,
                    VerifyIsWal, Started, FreshHasNoCursor
<1>8. v.form = Plain => ~ Started /\ work.pc = "idle"
  BY <1>1, <1>2 DEF Control, WorkIsKeyed, ModeIsRecorded, StartedIsRecorded
<1>9. NoPlainBehindCursor'
  <2> SUFFICES ASSUME NEW j \in Items, NEW l \in KeysOf[j], Behind(j, l)
               PROVE  cells'[j][l].form # Plain
    BY <1>3 DEF NoPlainBehindCursor, Behind
  <2> QED BY <1>1, <1>4, <1>8 DEF NoPlainBehindCursor, Behind, Started
<1>10. EndIsWhole'
  <2>1. work.pc = "end" => work.item \in Items
    BY <1>1 DEF Control, WorkIsKeyed
  <2> QED BY <1>1, <1>3, <1>4, <1>8, <2>1 DEF EndIsWhole
<1>11. EscapeIsNotSealed'
  BY <1>1, <1>2, <1>4 DEF EscapeIsNotSealed
<1> QED BY <1>6, <1>7, <1>9, <1>10, <1>11 DEF MigrationInv

-----------------------------------------------------------------------------
(* The theorems.                                                             *)

LEMMA MigrationStepInv == MigrationInv /\ [MigrationNext]_migrationVars => MigrationInv'
<1> SUFFICES ASSUME MigrationInv, [MigrationNext]_migrationVars PROVE MigrationInv'
  OBVIOUS
<1>1. CASE UNCHANGED migrationVars
  <2>1. /\ MigrationTypeOK' /\ Control'
        /\ store'.row = "ok" /\ Started => Scrubbed'
    BY <1>1, UnmovedScrubbed DEF migrationVars, MigrationInv, MigrationTypeOK, Control, WorkIsKeyed, ModeIsRecorded,
                StartedIsRecorded, VerifyIsWal, Started, OkIsScrubbed
  <2> QED BY <1>1, <2>1, QuietStep DEF migrationVars
<1>2. CASE MigrationStep
  BY <1>2, ResetInv, WorkEndsInv, OwedWorkInv, BeginItemInv, SealBatchInv, EndItemInv, StopInv
     DEF MigrationStep
<1>3. CASE StartKeyless \/ \E c \in Ciphers : StartSealing(c)
  BY <1>3, StartInv
<1>4. CASE SpawnMigration \/ ScrubNoRoom \/ VacuumDeferred \/ WorkFails \/ MigrationFails
  BY <1>4, StopInv, WorkEndsInv
<1>5. CASE \E i \in Items : \E k \in KeysOf[i] : Write(i, k) \/ DeleteRow(i, k)
  BY <1>5, RequestInv
<1>6. CASE Exit \/ DayPasses
  BY <1>6, StopInv
<1> QED BY <1>1, <1>2, <1>3, <1>4, <1>5, <1>6 DEF MigrationNext

LEMMA MigrationInductive == MigrationSpec => []MigrationInv
  BY MigrationInitInv, MigrationStepInv, PTL DEF MigrationSpec

\* Every variable of a migrating store keeps its type, however its process is
\* started, killed and started again (content_sqlite.rs).
THEOREM MigrationTypeCorrect == MigrationSpec => []MigrationTypeOK
<1>1. MigrationInv => MigrationTypeOK
  BY DEF MigrationInv
<1> QED BY <1>1, MigrationInductive, PTL

\* What a migration leaves behind is sealed up to its cursor, scrubbed once the
\* store is recorded `ok`, and reads back without the escape, for every number of
\* columns, rows per batch, restarts, concurrent writes and failed transactions.
THEOREM MigrationIsComplete == MigrationSpec => []MigrationLeavesNoPlain
<1>1. MigrationInv => MigrationLeavesNoPlain
  BY DEF MigrationInv, MigrationLeavesNoPlain
<1> QED BY <1>1, MigrationInductive, PTL

(*****************************************************************************)
(* CompactionQueue.                                                          *)
(*****************************************************************************)

QueueInv == QueueTypeOK /\ NoJobIsStranded

LEMMA QueueStarts == QueueInit => QueueInv
<1> SUFFICES ASSUME QueueInit PROVE QueueInv
  OBVIOUS
<1>1. /\ jobs = <<>> /\ worker = FALSE /\ running = NoStore /\ owed \in SUBSET Stores /\ dropped = {}
      /\ defers = 0 /\ spawnFaults = 0
      /\ \A t \in Threads : thread[t] = "none"
      /\ thread = [t \in Threads |-> "none"] /\ current = [t \in Threads |-> NoStore]
  BY DEF QueueInit
<1>2. QueueTypeOK
  <2>1. jobs \in Seq(Stores) /\ worker \in BOOLEAN /\ running \in Stores \cup {NoStore}
    <3>1. <<>> \in Seq(Stores) /\ FALSE \in BOOLEAN
      OBVIOUS
    <3> QED BY <1>1, <3>1, Zenon
  <2>2. /\ thread \in [Threads -> {"none", "sleep", "take", "job", "clear", "check"}]
        /\ current \in [Threads -> Stores \cup {NoStore}]
    BY <1>1
  <2>3. defers \in 0..MaxDefers /\ spawnFaults \in 0..MaxSpawnFaults
    BY <1>1, QueueBounds
  <2> QED BY <1>1, <2>1, <2>2, <2>3 DEF QueueTypeOK
<1>3. Worker \in Threads
  BY DEF Threads
<1> QED BY <1>1, <1>2, <1>3 DEF QueueInv, NoJobIsStranded

\* A job is put into the queue: by an owner whose worker is there or starts, or by
\* one whose thread does not start.
LEMMA DeferKeepsQueue ==
    ASSUME QueueInv, NEW s \in Stores, Defer(s) \/ DeferUnattended(s) PROVE QueueInv'
<1>1. /\ jobs' = Append(jobs, s) /\ UNCHANGED <<running, current, owed, dropped>>
      /\ defers < MaxDefers /\ defers' = defers + 1
  BY DEF Defer, DeferUnattended
<1>2. Worker \in Threads /\ jobs' \in Seq(Stores) /\ defers' \in 0..MaxDefers
  BY <1>1, QueueBounds DEF Threads, QueueInv, QueueTypeOK
<1>3. CASE Defer(s)
  <2>1. worker' = TRUE /\ spawnFaults' = spawnFaults
        /\ thread' = IF worker THEN thread ELSE [thread EXCEPT ![Worker] = "sleep"]
    BY <1>3 DEF Defer
  <2>2. /\ thread' \in [Threads -> {"none", "sleep", "take", "job", "clear", "check"}]
        /\ thread'[Worker] # "none"
    BY <1>2, <2>1 DEF QueueInv, QueueTypeOK, NoJobIsStranded
  <2> QED BY <1>1, <1>2, <2>1, <2>2 DEF QueueInv, QueueTypeOK, NoJobIsStranded
<1>4. CASE DeferUnattended(s)
  <2>1. worker' = worker /\ thread' = thread /\ spawnFaults < MaxSpawnFaults
        /\ spawnFaults' = spawnFaults + 1
    BY <1>4 DEF DeferUnattended
  <2>2. spawnFaults' \in 0..MaxSpawnFaults /\ spawnFaults' > 0
    BY <2>1, QueueBounds DEF QueueInv, QueueTypeOK
  <2> QED BY <1>1, <1>2, <2>1, <2>2 DEF QueueInv, QueueTypeOK, NoJobIsStranded
<1> QED BY <1>3, <1>4

\* A thread drains the queue: the worker, or a maintenance action on its own.
LEMMA DrainKeepsQueue ==
    ASSUME QueueInv, NEW t \in Threads,
           TakeJob(t) \/ NoMoreJobs(t) \/ RunJob(t) \/ ClearRunning(t)
    PROVE  QueueInv'
<1>1. Worker \in Threads /\ UNCHANGED <<worker, dropped, defers, spawnFaults>>
  BY DEF TakeJob, NoMoreJobs, RunJob, ClearRunning, Threads
<1>2. /\ thread \in [Threads -> {"none", "sleep", "take", "job", "clear", "check"}]
      /\ current \in [Threads -> Stores \cup {NoStore}] /\ jobs \in Seq(Stores)
      /\ owed \in SUBSET Stores /\ worker \in BOOLEAN
  BY DEF QueueInv, QueueTypeOK
<1>3. CASE TakeJob(t)
  <2>1. /\ jobs # <<>> /\ jobs' = Tail(jobs) /\ running' = Head(jobs)
        /\ current' = [current EXCEPT ![t] = Head(jobs)] /\ thread[t] = "take"
        /\ thread' = [thread EXCEPT ![t] = "job"] /\ owed' = owed
    BY <1>3 DEF TakeJob
  <2>2. Head(jobs) \in Stores /\ jobs' \in Seq(Stores)
    BY <1>2, <2>1
  <2>3. /\ thread' \in [Threads -> {"none", "sleep", "take", "job", "clear", "check"}]
        /\ (thread'[Worker] # "none") = (thread[Worker] # "none")
        /\ current' \in [Threads -> Stores \cup {NoStore}] /\ current'[t] = running'
    BY <1>1, <1>2, <2>1, <2>2
  <2> QED BY <1>1, <2>1, <2>2, <2>3 DEF QueueInv, QueueTypeOK, NoJobIsStranded
<1>4. CASE NoMoreJobs(t)
  <2>1. /\ thread[t] = "take" /\ UNCHANGED <<jobs, running, current, owed>>
        /\ thread' = [thread EXCEPT ![t] = IF t = Worker THEN "check" ELSE "none"]
    BY <1>4 DEF NoMoreJobs
  <2>2. /\ thread' \in [Threads -> {"none", "sleep", "take", "job", "clear", "check"}]
        /\ (thread'[Worker] # "none") = (thread[Worker] # "none")
    BY <1>1, <1>2, <2>1
  <2> QED BY <1>1, <2>1, <2>2 DEF QueueInv, QueueTypeOK, NoJobIsStranded
<1>5. CASE RunJob(t)
  <2>1. /\ thread[t] = "job" /\ UNCHANGED <<jobs, running, current>>
        /\ thread' = [thread EXCEPT ![t] = "clear"] /\ owed' \subseteq owed
    BY <1>5 DEF RunJob
  <2>2. /\ thread' \in [Threads -> {"none", "sleep", "take", "job", "clear", "check"}]
        /\ (thread'[Worker] # "none") = (thread[Worker] # "none")
    BY <1>1, <1>2, <2>1
  <2> QED BY <1>1, <2>1, <2>2 DEF QueueInv, QueueTypeOK, NoJobIsStranded
<1>6. CASE ClearRunning(t)
  <2>1. /\ thread[t] = "clear" /\ UNCHANGED <<jobs, owed>> /\ running' = NoStore
        /\ current' = [current EXCEPT ![t] = NoStore]
        /\ thread' = [thread EXCEPT ![t] = "take"]
    BY <1>6 DEF ClearRunning
  <2>2. /\ thread' \in [Threads -> {"none", "sleep", "take", "job", "clear", "check"}]
        /\ (thread'[Worker] # "none") = (thread[Worker] # "none")
        /\ current' \in [Threads -> Stores \cup {NoStore}]
    BY <1>1, <1>2, <2>1
  <2> QED BY <1>1, <2>1, <2>2 DEF QueueInv, QueueTypeOK, NoJobIsStranded
<1> QED BY <1>3, <1>4, <1>5, <1>6

\* The worker wakes or looks again; a maintenance action begins; an owner goes away.
LEMMA OthersKeepQueue ==
    ASSUME QueueInv,
           Wake \/ WorkerChecks \/ (\E t \in Maintainers : Maintain(t)) \/ (\E s \in Stores : Drop(s))
    PROVE  QueueInv'
<1>1. /\ Worker \in Threads /\ Maintainers \subseteq Threads /\ Worker \notin Maintainers
      /\ thread \in [Threads -> {"none", "sleep", "take", "job", "clear", "check"}]
  BY QueueBounds DEF Threads, QueueInv, QueueTypeOK
<1>2. CASE Wake
  <2>1. /\ UNCHANGED <<jobs, worker, running, current, owed, dropped, defers, spawnFaults>>
        /\ thread[Worker] = "sleep" /\ thread' = [thread EXCEPT ![Worker] = "take"]
    BY <1>2 DEF Wake
  <2>2. /\ thread' \in [Threads -> {"none", "sleep", "take", "job", "clear", "check"}]
        /\ (thread'[Worker] # "none") = (thread[Worker] # "none")
    BY <1>1, <2>1
  <2> QED BY <2>1, <2>2 DEF QueueInv, QueueTypeOK, NoJobIsStranded
<1>3. CASE WorkerChecks
  <2>1. /\ UNCHANGED <<jobs, running, current, owed, dropped, defers, spawnFaults>>
        /\ worker' = (jobs # <<>>)
        /\ thread' = [thread EXCEPT ![Worker] = IF jobs = <<>> THEN "none" ELSE "sleep"]
    BY <1>3 DEF WorkerChecks
  <2>2. /\ thread' \in [Threads -> {"none", "sleep", "take", "job", "clear", "check"}]
        /\ thread'[Worker] = IF jobs = <<>> THEN "none" ELSE "sleep"
    BY <1>1, <2>1
  <2>3. QueueTypeOK'
    <3>1. worker' \in BOOLEAN
      BY <2>1
    <3> QED BY <2>1, <2>2, <3>1 DEF QueueInv, QueueTypeOK
  <2>4. CASE jobs = <<>>
    <3>1. ~worker' /\ jobs' = <<>> /\ thread'[Worker] = "none"
      BY <2>1, <2>2, <2>4, Zenon
    <3> QED BY <2>1, <2>3, <3>1 DEF QueueInv, NoJobIsStranded
  <2>5. CASE jobs # <<>>
    <3>1. worker' /\ thread'[Worker] = "sleep"
      BY <2>1, <2>2, <2>5, Zenon
    <3> QED BY <2>1, <2>3, <3>1 DEF QueueInv, NoJobIsStranded
  <2> QED BY <2>4, <2>5
<1>4. CASE \E t \in Maintainers : Maintain(t)
  <2>1. PICK t \in Maintainers : Maintain(t)
    BY <1>4
  <2>2. /\ UNCHANGED <<jobs, worker, running, current, owed, dropped, defers, spawnFaults>>
        /\ thread' = [thread EXCEPT ![t] = "take"]
    BY <2>1 DEF Maintain
  <2>3. /\ thread' \in [Threads -> {"none", "sleep", "take", "job", "clear", "check"}]
        /\ thread'[Worker] = thread[Worker]
    BY <1>1, <2>2
  <2> QED BY <2>2, <2>3 DEF QueueInv, QueueTypeOK, NoJobIsStranded
<1>5. CASE \E s \in Stores : Drop(s)
  <2>1. /\ UNCHANGED <<jobs, worker, running, thread, current, owed, defers, spawnFaults>>
        /\ \E s \in Stores : dropped' = dropped \cup {s}
    BY <1>5 DEF Drop
  <2> QED BY <2>1 DEF QueueInv, QueueTypeOK, NoJobIsStranded
<1> QED BY <1>2, <1>3, <1>4, <1>5

LEMMA QueueStep == QueueInv /\ [QueueNext]_queueVars => QueueInv'
<1> SUFFICES ASSUME QueueInv, [QueueNext]_queueVars PROVE QueueInv'
  OBVIOUS
<1>1. Worker \in Threads /\ Maintainers \subseteq Threads
  BY DEF Threads
<1>2. CASE WorkerStep
  BY <1>1, <1>2, DrainKeepsQueue, OthersKeepQueue DEF WorkerStep
<1>3. CASE \E s \in Stores : Defer(s) \/ DeferUnattended(s) \/ Drop(s)
  BY <1>3, DeferKeepsQueue, OthersKeepQueue
<1>4. CASE \E t \in Maintainers :
             Maintain(t) \/ TakeJob(t) \/ NoMoreJobs(t) \/ RunJob(t) \/ ClearRunning(t)
  BY <1>1, <1>4, DrainKeepsQueue, OthersKeepQueue
<1>5. CASE UNCHANGED queueVars
  BY <1>5 DEF queueVars, QueueInv, QueueTypeOK, NoJobIsStranded
<1> QED BY <1>2, <1>3, <1>4, <1>5 DEF QueueNext

\* The variables of the queue of deferred compactions keep their types
\* (CompactionQueue in content_sqlite.rs).
THEOREM QueueTypeCorrect == QueueSpec => []QueueTypeOK
<1>1. QueueInv => QueueTypeOK
  BY DEF QueueInv
<1> QED BY <1>1, QueueStarts, QueueStep, PTL DEF QueueSpec

\* No deferred compaction is stranded, for any number of owners, jobs, maintenance
\* actions and threads that do not start: a job waits without a worker only after a
\* thread failed to start, and health names only a store that some thread has taken
\* (defer_compaction, run_deferred_compactions).
THEOREM DeferredIsNeverStranded == QueueSpec => []NoJobIsStranded
<1>1. QueueInv => NoJobIsStranded
  BY DEF QueueInv
<1> QED BY <1>1, QueueStarts, QueueStep, PTL DEF QueueSpec

(*****************************************************************************)
(* SealedLog: the scan of a log, as a function of its frames.                *)
(*****************************************************************************)

OpensIn(f, i) == f[i].fit = "whole" /\ f[i].no = i - 1
GoodFor(f, n) == (\A i \in 1..n : OpensIn(f, i)) /\ (n < Len(f) => ~OpensIn(f, n + 1))
GoodOf(f) == CHOOSE n \in 0..Len(f) : GoodFor(f, n)
RecordsOf(f) == [i \in 1..GoodOf(f) |-> f[i].record]
LogFrames == Seq(LogFrame)

\* The records before the first frame that does not open are a number of frames.
LEMMA GoodIsOne ==
    ASSUME NEW f \in LogFrames
    PROVE  /\ GoodOf(f) \in 0..Len(f) /\ GoodFor(f, GoodOf(f)) /\ Len(f) \in Nat
           /\ \A n \in 0..Len(f) : GoodFor(f, n) => n = GoodOf(f)
<1>1. Len(f) \in Nat
  BY DEF LogFrames
<1>2. \E n \in 0..Len(f) : GoodFor(f, n)
  <2> DEFINE S == {i \in 1..Len(f) : ~OpensIn(f, i)}
  <2>1. CASE S = {}
    <3>1. GoodFor(f, Len(f)) /\ Len(f) \in 0..Len(f)
      BY <1>1, <2>1 DEF GoodFor
    <3> QED BY <3>1
  <2>2. CASE S # {}
    <3>1. PICK x \in S : \A y \in S : x <= y
      <4>1. S \subseteq Nat
        BY <1>1
      <4> HIDE DEF S
      <4> QED BY <2>2, <4>1, FirstExists
    <3>2. x \in 1..Len(f) /\ ~OpensIn(f, x) /\ x \in Nat
      BY <1>1, <3>1
    <3>3. ASSUME NEW i \in 1..(x - 1) PROVE OpensIn(f, i)
      <4>1. i \in 1..Len(f) /\ ~(x <= i)
        BY <1>1, <3>2
      <4> QED BY <3>1, <4>1
    <3>4. x - 1 \in 0..Len(f) /\ (x - 1) + 1 = x
      BY <1>1, <3>2
    <3>5. GoodFor(f, x - 1)
      BY <3>2, <3>3, <3>4 DEF GoodFor
    <3> QED BY <3>4, <3>5
  <2> QED BY <2>1, <2>2
<1>3. GoodOf(f) \in 0..Len(f) /\ GoodFor(f, GoodOf(f))
  BY <1>2 DEF GoodOf
<1>4. ASSUME NEW n \in 0..Len(f), NEW m \in 0..Len(f), GoodFor(f, n), GoodFor(f, m), n < m PROVE FALSE
  <2>1. n + 1 \in 1..m /\ n < Len(f)
    BY <1>1, <1>4
  <2> QED BY <1>4, <2>1 DEF GoodFor
<1>5. ASSUME NEW n \in 0..Len(f), GoodFor(f, n) PROVE n = GoodOf(f)
  <2>1. ~(n < GoodOf(f)) /\ ~(GoodOf(f) < n)
    BY <1>3, <1>4, <1>5
  <2> QED BY <1>1, <1>3, <2>1
<1> QED BY <1>1, <1>3, <1>5

LEMMA ScanIsGood ==
    /\ Good = GoodOf(logFile.frames) /\ Recovered = RecordsOf(logFile.frames)
    /\ \A i : Opens(i) <=> OpensIn(logFile.frames, i)
  BY DEF Good, Recovered, GoodOf, GoodFor, RecordsOf, Opens, OpensIn, Frames

LEMMA RecordsTyped ==
    ASSUME NEW f \in LogFrames
    PROVE  /\ RecordsOf(f) \in Seq(1..MaxRecords) /\ Len(RecordsOf(f)) = GoodOf(f)
           /\ \A i \in 1..GoodOf(f) : RecordsOf(f)[i] = f[i].record
<1>1. GoodOf(f) \in 0..Len(f) /\ Len(f) \in Nat
  BY GoodIsOne
<1>2. \A i \in 1..GoodOf(f) : f[i].record \in 1..MaxRecords
  <2>1. ASSUME NEW i \in 1..GoodOf(f) PROVE f[i].record \in 1..MaxRecords
    <3>1. i \in 1..Len(f)
      BY <1>1
    <3>2. f[i] \in LogFrame
      BY <3>1 DEF LogFrames
    <3> QED BY <3>2 DEF LogFrame
  <2> QED BY <2>1
<1> DEFINE k == GoodOf(f)
           r == [i \in 1..k |-> f[i].record]
<1>3. k \in Nat /\ \A i \in 1..k : f[i].record \in 1..MaxRecords
  BY <1>1, <1>2
<1> HIDE DEF k
<1>4. r \in Seq(1..MaxRecords) /\ Len(r) = k /\ \A i \in 1..k : r[i] = f[i].record
  BY <1>3
<1> QED BY <1>4 DEF RecordsOf, k

\* Only the last frame may be one that does not open.
TailOnly(f) == \A i \in 1..(Len(f) - 1) : OpensIn(f, i)
\* The committed records are those of the first frames.
Covers(f, c, n) ==
    Len(c) <= n /\ Len(c) <= GoodOf(f) /\ \A i \in 1..Len(c) : c[i] = f[i].record

\* Frames that agree on the first k keep what was good among them.
LEMMA GoodAgrees ==
    ASSUME NEW f \in LogFrames, NEW g \in LogFrames, NEW k \in 0..Len(f), k <= Len(g),
           \A i \in 1..k : g[i] = f[i]
    PROVE  \A n \in 0..k : n <= GoodOf(f) => n <= GoodOf(g)
<1>1. /\ GoodOf(f) \in 0..Len(f) /\ GoodFor(f, GoodOf(f)) /\ Len(f) \in Nat
      /\ GoodOf(g) \in 0..Len(g) /\ GoodFor(g, GoodOf(g)) /\ Len(g) \in Nat
  BY GoodIsOne
<1>2. ASSUME NEW n \in 0..k, n <= GoodOf(f), ~(n <= GoodOf(g)) PROVE FALSE
  <2>1. GoodOf(g) + 1 \in 1..k /\ GoodOf(g) + 1 \in 1..GoodOf(f) /\ GoodOf(g) < Len(g)
    BY <1>1, <1>2
  <2>2. ~OpensIn(g, GoodOf(g) + 1) /\ OpensIn(f, GoodOf(g) + 1)
    BY <1>1, <2>1 DEF GoodFor
  <2> QED BY <2>1, <2>2 DEF OpensIn
<1> QED BY <1>2

\* A log with frames of its own to the end of the first k, and one that may not open.
LEMMA CutKeeps ==
    ASSUME NEW f \in LogFrames, NEW g \in LogFrames, NEW k \in 0..Len(f), k <= Len(g), Len(g) <= k + 1,
           \A i \in 1..k : g[i] = f[i], k < Len(f) \/ Len(g) = k, TailOnly(f),
           NEW c, Len(c) \in Nat, Covers(f, c, k)
    PROVE  TailOnly(g) /\ Covers(g, c, k)
<1>1. Len(f) \in Nat /\ Len(g) \in Nat /\ k \in Nat
  BY DEF LogFrames
<1>2. TailOnly(g)
  <2>1. ASSUME NEW i \in 1..(Len(g) - 1) PROVE OpensIn(g, i)
    <3>1. i \in 1..(Len(f) - 1) /\ i \in 1..k
      BY <1>1
    <3> QED BY <3>1 DEF TailOnly, OpensIn
  <2> QED BY <2>1 DEF TailOnly
<1>3. Len(c) <= GoodOf(g)
  <2>1. Len(c) \in 0..k /\ Len(c) <= GoodOf(f)
    BY <1>1 DEF Covers
  <2> QED BY <2>1, GoodAgrees
<1>4. \A i \in 1..Len(c) : c[i] = g[i].record
  <2>1. ASSUME NEW i \in 1..Len(c) PROVE c[i] = g[i].record
    <3>1. i \in 1..k
      BY <1>1 DEF Covers
    <3> QED BY <3>1 DEF Covers
  <2> QED BY <2>1
<1> QED BY <1>2, <1>3, <1>4 DEF Covers

\* In a log with at most a torn end, all frames but that one are good.
LEMMA TailOnlyGood ==
    ASSUME NEW f \in LogFrames, TailOnly(f)
    PROVE  GoodOf(f) = Len(f) \/ (GoodOf(f) = Len(f) - 1 /\ Len(f) > 0)
<1>1. GoodOf(f) \in 0..Len(f) /\ GoodFor(f, GoodOf(f)) /\ Len(f) \in Nat
  BY GoodIsOne
<1>2. ASSUME GoodOf(f) < Len(f) - 1 PROVE FALSE
  <2>1. GoodOf(f) + 1 \in 1..(Len(f) - 1) /\ GoodOf(f) < Len(f)
    BY <1>1, <1>2
  <2> QED BY <1>1, <2>1 DEF GoodFor, TailOnly
<1> QED BY <1>1, <1>2

\* One frame more behind good ones.
LEMMA FrameAppended ==
    ASSUME NEW f \in LogFrames, GoodOf(f) = Len(f), NEW x \in LogFrame
    PROVE  LET g == Append(f, x) IN
           /\ g \in LogFrames /\ Len(g) = Len(f) + 1 /\ TailOnly(g)
           /\ \A i \in 1..Len(f) : g[i] = f[i]
           /\ x.fit = "whole" /\ x.no = Len(f) =>
                GoodOf(g) = Len(f) + 1 /\ RecordsOf(g) = Append(RecordsOf(f), x.record)
           /\ x.fit # "whole" => GoodOf(g) = Len(f) /\ RecordsOf(g) = RecordsOf(f)
<1> DEFINE g == Append(f, x)
           n == Len(f)
<1>1. /\ g \in LogFrames /\ Len(g) = n + 1 /\ n \in Nat /\ g[n + 1] = x
      /\ \A i \in 1..n : g[i] = f[i]
  BY DEF LogFrames
<1>2. GoodFor(f, n)
  BY GoodIsOne
<1> HIDE DEF g
<1>3. \A i \in 1..n : OpensIn(g, i)
  BY <1>1, <1>2 DEF GoodFor, OpensIn
<1>4. TailOnly(g)
  BY <1>1, <1>3 DEF TailOnly
<1>5. RecordsOf(f) \in Seq(1..MaxRecords) /\ Len(RecordsOf(f)) = n
      /\ \A i \in 1..n : RecordsOf(f)[i] = f[i].record
  BY RecordsTyped
<1>6. x.record \in 1..MaxRecords
  BY DEF LogFrame
<1>7. ASSUME x.fit = "whole", x.no = n
      PROVE  GoodOf(g) = n + 1 /\ RecordsOf(g) = Append(RecordsOf(f), x.record)
  <2>1. OpensIn(g, n + 1)
    BY <1>1, <1>7 DEF OpensIn
  <2>2. GoodFor(g, n + 1)
    <3>1. \A i \in 1..(n + 1) : i \in 1..n \/ i = n + 1
      BY <1>1
    <3> QED BY <1>1, <1>3, <2>1, <3>1 DEF GoodFor
  <2>3. GoodOf(g) = n + 1
    <3>1. n + 1 \in 0..Len(g)
      BY <1>1
    <3> QED BY <1>1, <2>2, <3>1, GoodIsOne
  <2> DEFINE r == RecordsOf(f)
             u == RecordsOf(g)
             v == Append(r, x.record)
  <2>4. u \in Seq(1..MaxRecords) /\ Len(u) = n + 1 /\ \A i \in 1..(n + 1) : u[i] = g[i].record
    BY <1>1, <2>3, RecordsTyped
  <2>5. /\ v \in Seq(1..MaxRecords) /\ Len(v) = n + 1 /\ v[n + 1] = x.record
        /\ \A i \in 1..n : v[i] = f[i].record
    <3> HIDE DEF r
    <3>1. /\ Append(r, x.record) \in Seq(1..MaxRecords) /\ Len(Append(r, x.record)) = Len(r) + 1
          /\ (\A i \in 1..Len(r) : Append(r, x.record)[i] = r[i])
          /\ Append(r, x.record)[Len(r) + 1] = x.record
      BY <1>5, <1>6, AppendProperties DEF r
    <3> QED BY <1>5, <3>1 DEF r
  <2> HIDE DEF r, u, v
  <2>6. ASSUME NEW i \in 1..(n + 1) PROVE u[i] = v[i]
    <3>1. i \in 1..n \/ i = n + 1
      BY <1>1
    <3>2. CASE i \in 1..n
      BY <1>1, <2>4, <2>5, <3>2
    <3>3. CASE i = n + 1
      BY <1>1, <2>4, <2>5, <3>3
    <3> QED BY <3>1, <3>2, <3>3
  <2>7. Len(u) = Len(v) /\ \A i \in 1..Len(u) : u[i] = v[i]
    BY <2>4, <2>5, <2>6
  <2>8. u = v
    BY <2>4, <2>5, <2>7, SeqEqual
  <2> QED BY <2>3, <2>8 DEF u, v, r
<1>8. ASSUME x.fit # "whole" PROVE GoodOf(g) = n /\ RecordsOf(g) = RecordsOf(f)
  <2>1. GoodFor(g, n)
    BY <1>1, <1>3, <1>8 DEF GoodFor, OpensIn
  <2>2. GoodOf(g) = n
    <3>1. n \in 0..Len(g)
      BY <1>1
    <3> QED BY <1>1, <2>1, <3>1, GoodIsOne
  <2>3. RecordsOf(g) = RecordsOf(f)
    BY <1>1, <2>2 DEF RecordsOf
  <2> QED BY <2>2, <2>3
<1> QED BY <1>1, <1>4, <1>7, <1>8 DEF g

\* The log cut to its good records.
LEMMA CutToGood ==
    ASSUME NEW f \in LogFrames
    PROVE  LET g == SubSeq(f, 1, GoodOf(f)) IN
           /\ g \in LogFrames /\ Len(g) = GoodOf(f) /\ TailOnly(g) /\ GoodOf(g) = GoodOf(f)
           /\ RecordsOf(g) = RecordsOf(f) /\ \A i \in 1..Len(g) : g[i] = f[i]
<1> DEFINE n == GoodOf(f)
           g == SubSeq(f, 1, n)
<1>1. n \in 0..Len(f) /\ GoodFor(f, n) /\ Len(f) \in Nat /\ n \in Nat
  BY GoodIsOne
<1>2. g \in LogFrames /\ Len(g) = n /\ \A i \in 1..n : g[i] = f[i]
  <2> HIDE DEF n
  <2> QED BY <1>1 DEF LogFrames
<1> HIDE DEF g
<1>3. \A i \in 1..n : OpensIn(g, i)
  BY <1>1, <1>2 DEF GoodFor, OpensIn
<1>4. GoodFor(g, n) /\ n \in 0..Len(g)
  <2> HIDE DEF n
  <2> QED BY <1>1, <1>2, <1>3 DEF GoodFor
<1>5. GoodOf(g) = n
  BY <1>2, <1>4, GoodIsOne
<1>6. TailOnly(g)
  <2> HIDE DEF n
  <2> QED BY <1>1, <1>2, <1>3 DEF TailOnly
<1>7. RecordsOf(g) = RecordsOf(f)
  BY <1>2, <1>5 DEF RecordsOf
<1> QED BY <1>2, <1>5, <1>6, <1>7 DEF g

-----------------------------------------------------------------------------
(* The inductive invariant of a log.                                         *)

\* Nothing is written before there is a log.
BeforeLog ==
    /\ logFile.state # "log" =>
         /\ logFile.frames = <<>> /\ written = <<>> /\ committed = <<>>
         /\ ~logWriter.up /\ durable = 0
    /\ logCall = "create" => logFile.state = "stub"
    /\ logCall = "publish" => ~logWriter.up
\* A writer knows what the scan would find.
WriterKnows ==
    logWriter.up =>
      /\ written = RecordsOf(logFile.frames) /\ logWriter.next = GoodOf(logFile.frames)
      /\ ~logWriter.torn => GoodOf(logFile.frames) = Len(logFile.frames)
\* Unless a writer went on behind a torn frame.
LogHolds ==
    ~continued =>
      /\ TailOnly(logFile.frames) /\ durable <= Len(logFile.frames)
      /\ Covers(logFile.frames, committed, durable)
      /\ WriterKnows
LogInv == LogTypeOK /\ BeforeLog /\ LogHolds

LEMMA EmptyLog ==
    /\ <<>> \in LogFrames /\ GoodOf(<<>>) = 0 /\ RecordsOf(<<>>) = <<>> /\ TailOnly(<<>>)
    /\ Covers(<<>>, <<>>, 0)
<1>1. <<>> \in LogFrames /\ Len(<<>>) = 0
  BY DEF LogFrames
<1>2. GoodOf(<<>>) = 0
  BY <1>1, GoodIsOne
<1>3. RecordsOf(<<>>) = <<>>
  BY <1>2 DEF RecordsOf
<1> QED BY <1>1, <1>2, <1>3 DEF TailOnly, Covers

LEMMA LogStarts == LogInit => LogInv
<1> SUFFICES ASSUME LogInit PROVE LogInv
  OBVIOUS
<1>1. LogTypeOK
  <2>1. NoTarget \in Seq(0..MaxRecords)
    BY LogBounds DEF NoTarget
  <2>2. /\ logFile \in [state: {"absent", "stub", "log"}, frames: Seq(LogFrame)]
        /\ logWriter \in [up: BOOLEAN, next: Nat, torn: BOOLEAN]
        /\ logUsed \in [records: 0..MaxRecords, faults: 0..MaxFaulty]
    BY LogBounds DEF LogInit, NoLogWriter
  <2>3. <<>> \in Seq(1..MaxRecords)
    OBVIOUS
  <2>4. /\ durable = 0 /\ target = NoTarget /\ logCall = "none" /\ written = <<>> /\ committed = <<>>
        /\ continued = FALSE /\ rotated = FALSE
    BY DEF LogInit
  <2> QED BY <2>1, <2>2, <2>3, <2>4 DEF LogTypeOK
<1>2. BeforeLog
  BY DEF LogInit, BeforeLog, NoLogWriter
<1>3. LogHolds
  BY EmptyLog DEF LogInit, LogHolds, WriterKnows, NoLogWriter
<1> QED BY <1>1, <1>2, <1>3 DEF LogInv

LEMMA LogFacts ==
    ASSUME LogTypeOK
    PROVE  /\ logFile.frames \in LogFrames /\ logFile.state \in {"absent", "stub", "log"}
           /\ Len(committed) \in Nat /\ Len(logFile.frames) \in Nat
           /\ logFile = [state |-> logFile.state, frames |-> logFile.frames]
           /\ logWriter.up \in BOOLEAN /\ logWriter.torn \in BOOLEAN /\ logWriter.next \in Nat
           /\ logUsed.records \in 0..MaxRecords /\ logUsed.faults \in 0..MaxFaulty
           /\ MaxRecords \in Nat /\ MaxFaulty \in Nat
  BY LogBounds DEF LogTypeOK, LogFrames

\* Steps that leave the file, what is written and what is durable alone.
LEMMA FileUntouched ==
    ASSUME LogInv, UNCHANGED <<logFile, durable, written, committed, continued>>,
           LogTypeOK', logWriter' = logWriter \/ logWriter' = NoLogWriter,
           logCall' = "none" \/ (logCall' = "publish" /\ ~logWriter.up) \/ UNCHANGED logCall
    PROVE  LogInv'
<1>1. ~NoLogWriter.up
  BY DEF NoLogWriter
<1>2. BeforeLog'
  BY <1>1 DEF LogInv, BeforeLog
<1>3. LogHolds'
  BY <1>1 DEF LogInv, LogHolds, WriterKnows
<1> QED BY <1>2, <1>3 DEF LogInv

LEMMA LogStep == LogInv /\ [LogNext]_vars_sl => LogInv'
<1> SUFFICES ASSUME LogInv, [LogNext]_vars_sl PROVE LogInv'
  OBVIOUS
<1> DEFINE F == logFile.frames
<1>1. /\ LogTypeOK /\ BeforeLog /\ LogHolds
      /\ F \in LogFrames /\ logFile.state \in {"absent", "stub", "log"}
      /\ Len(committed) \in Nat /\ Len(F) \in Nat
      /\ logFile = [state |-> logFile.state, frames |-> F]
      /\ logWriter.up \in BOOLEAN /\ logWriter.torn \in BOOLEAN /\ logWriter.next \in Nat
      /\ logUsed.records \in 0..MaxRecords /\ logUsed.faults \in 0..MaxFaulty
      /\ MaxRecords \in Nat /\ MaxFaulty \in Nat
  BY LogFacts DEF LogInv
<1>2. /\ GoodOf(F) \in 0..Len(F) /\ GoodOf(F) \in Nat
      /\ RecordsOf(F) \in Seq(1..MaxRecords) /\ Len(RecordsOf(F)) = GoodOf(F)
      /\ \A i \in 1..GoodOf(F) : RecordsOf(F)[i] = F[i].record
      /\ Good = GoodOf(F) /\ Recovered = RecordsOf(F)
  BY <1>1, GoodIsOne, RecordsTyped, ScanIsGood
<1>3. NoLogWriter \in [up: BOOLEAN, next: Nat, torn: BOOLEAN] /\ ~NoLogWriter.up
  BY DEF NoLogWriter
<1>4. ASSUME LogFault PROVE logUsed' \in [records: 0..MaxRecords, faults: 0..MaxFaulty]
  <2>1. logUsed' = [logUsed EXCEPT !.faults = @ + 1] /\ logUsed.faults + 1 \in 0..MaxFaulty
    BY <1>1, <1>4 DEF LogFault
  <2>2. logUsed \in [records: 0..MaxRecords, faults: 0..MaxFaulty]
    BY <1>1 DEF LogTypeOK
  <2> QED BY <2>1, <2>2, Zenon
<1>5. CASE CreateLog
  <2> DEFINE t == [state |-> "stub", frames |-> <<>>]
  <2>1. logFile' = t /\ logFile.state = "absent" /\ logCall' = "create" /\ ~logWriter.up
        /\ UNCHANGED <<durable, logWriter, target, written, committed, continued, rotated, logUsed>>
    BY <1>5 DEF CreateLog, Unopened
  <2>2. t \in [state: {"absent", "stub", "log"}, frames: Seq(LogFrame)]
        /\ t.state = "stub" /\ t.frames = <<>> /\ F = <<>>
    BY <1>1, <2>1 DEF BeforeLog
  <2> HIDE DEF t
  <2>3. LogTypeOK'
    BY <1>1, <2>1, <2>2 DEF LogTypeOK
  <2>4. BeforeLog'
    BY <1>1, <2>1, <2>2 DEF BeforeLog
  <2>5. LogHolds'
    BY <1>1, <2>1, <2>2 DEF LogHolds, WriterKnows
  <2> QED BY <2>3, <2>4, <2>5 DEF LogInv
<1>6. CASE WriteHeader
  <2> DEFINE t == [state |-> "log", frames |-> F]
             u == [up |-> TRUE, next |-> 0, torn |-> FALSE]
  <2>1. /\ logFile' = t /\ logFile.state = "stub" /\ logCall' = "none" /\ logWriter' = u
        /\ UNCHANGED <<durable, target, written, committed, continued, rotated, logUsed>>
    BY <1>1, <1>6 DEF WriteHeader, BeforeLog, NoLogWriter
  <2>2. /\ t \in [state: {"absent", "stub", "log"}, frames: Seq(LogFrame)]
        /\ u \in [up: BOOLEAN, next: Nat, torn: BOOLEAN]
        /\ t.state = "log" /\ t.frames = <<>> /\ u.up /\ u.next = 0 /\ ~u.torn
        /\ F = <<>> /\ written = <<>> /\ committed = <<>> /\ durable = 0
    BY <1>1, <2>1 DEF BeforeLog, LogFrames
  <2> HIDE DEF t, u
  <2>3. LogTypeOK'
    BY <1>1, <2>1, <2>2 DEF LogTypeOK
  <2>4. BeforeLog'
    BY <1>1, <2>1, <2>2 DEF BeforeLog
  <2>5. LogHolds'
    BY <1>1, <2>1, <2>2, EmptyLog DEF LogHolds, WriterKnows
  <2> QED BY <2>3, <2>4, <2>5 DEF LogInv
<1>7. CASE HeaderFails
  <2>1. LogTypeOK'
    BY <1>1, <1>4, <1>7 DEF HeaderFails, LogTypeOK
  <2> QED BY <1>7, <2>1, FileUntouched DEF HeaderFails
<1>8. CASE OpenAppend
  <2> DEFINE g == SubSeq(F, 1, GoodOf(F))
             t == [state |-> "log", frames |-> g]
             u == [up |-> TRUE, next |-> GoodOf(F), torn |-> FALSE]
  <2>1. logFile.state = "log"
    BY <1>8 DEF OpenAppend, LogOutcomes
  <2>2. /\ logFile' = t /\ logWriter' = u /\ written' = RecordsOf(F)
        /\ durable' = (IF Clean THEN durable ELSE GoodOf(F))
        /\ UNCHANGED <<target, logCall, committed, continued, rotated, logUsed>>
        /\ logCall = "none"
    BY <1>1, <1>2, <1>8, <2>1 DEF OpenAppend, Unopened
  <2>3. /\ g \in LogFrames /\ Len(g) = GoodOf(F) /\ TailOnly(g) /\ GoodOf(g) = GoodOf(F)
        /\ RecordsOf(g) = RecordsOf(F) /\ \A i \in 1..Len(g) : g[i] = F[i]
    BY <1>1, CutToGood
  <2> HIDE DEF g
  <2>4. /\ t \in [state: {"absent", "stub", "log"}, frames: Seq(LogFrame)]
        /\ u \in [up: BOOLEAN, next: Nat, torn: BOOLEAN]
        /\ t.state = "log" /\ t.frames = g /\ u.up /\ u.next = GoodOf(F) /\ ~u.torn
    BY <1>2, <2>3 DEF LogFrames
  <2> HIDE DEF t, u
  <2>5. durable \in Nat /\ (Clean <=> GoodOf(F) = Len(F))
    BY <1>1, <1>2 DEF LogTypeOK, Clean, Frames
  <2>6. LogTypeOK'
    BY <1>1, <1>2, <2>2, <2>4, <2>5 DEF LogTypeOK
  <2>7. BeforeLog'
    BY <1>1, <2>2, <2>4 DEF BeforeLog
  <2>8. ASSUME ~continued PROVE Covers(g, committed, durable') /\ durable' <= Len(g)
    <3>1. Covers(F, committed, durable) /\ durable <= Len(F)
      BY <1>1, <2>8 DEF LogHolds
    <3>2. \A i \in 1..Len(committed) : i \in 1..Len(g)
      BY <1>1, <1>2, <2>3, <3>1 DEF Covers
    <3>3. Len(committed) <= durable' /\ durable' <= Len(g)
      BY <1>1, <1>2, <2>2, <2>3, <2>5, <3>1 DEF Covers
    <3> QED BY <1>1, <1>2, <2>3, <3>1, <3>2, <3>3 DEF Covers
  <2>9. LogHolds'
    BY <2>2, <2>3, <2>4, <2>8 DEF LogHolds, WriterKnows
  <2> QED BY <2>6, <2>7, <2>9 DEF LogInv
<1>9. CASE AppendRecord \/ AppendFails
  <2> DEFINE m == logUsed.records + 1
             x(a) == [record |-> m, no |-> logWriter.next, fit |-> a]
             g(a) == Append(F, x(a))
             t(a) == [state |-> "log", frames |-> g(a)]
  <2>1. logFile.state = "log" /\ logWriter.up /\ logUsed.records < MaxRecords
    BY <1>1, <1>9 DEF AppendRecord, AppendFails, BeforeLog
  <2>2. m \in 1..MaxRecords
    BY <1>1, <2>1
  <2>3. \A a \in Fits : x(a) \in LogFrame /\ x(a).record = m /\ x(a).no = logWriter.next /\ x(a).fit = a
    BY <1>1, <2>2 DEF LogFrame
  <2>4. \A a \in Fits : g(a) \in LogFrames
    BY <1>1, <2>3 DEF LogFrames
  <2>5. \A a \in Fits : /\ t(a) \in [state: {"absent", "stub", "log"}, frames: Seq(LogFrame)]
                        /\ t(a).state = "log" /\ t(a).frames = g(a)
    BY <2>4 DEF LogFrames
  <2>6. \A a \in Fits : Append1(a) = t(a)
    <3>1. logFile \in [state: {"absent", "stub", "log"}, frames: Seq(LogFrame)]
      BY <1>1 DEF LogTypeOK
    <3>2. ASSUME NEW a \in Fits PROVE Append1(a) = t(a)
      <4> DEFINE h == Append(F, x(a))
      <4>1. Append1(a) = [logFile EXCEPT !.frames = h]
        BY DEF Append1
      <4> HIDE DEF h
      <4>2. [logFile EXCEPT !.frames = h] = [state |-> "log", frames |-> h]
        BY <2>1, <3>1
      <4> QED BY <4>1, <4>2 DEF h
    <3> QED BY <3>2
  <2>7. "whole" \in Fits /\ "short" \in Fits
    BY DEF Fits
  <2>8. logUsed \in [records: 0..MaxRecords, faults: 0..MaxFaulty]
        /\ logWriter \in [up: BOOLEAN, next: Nat, torn: BOOLEAN]
        /\ written \in Seq(1..MaxRecords) /\ durable \in Nat
    BY <1>1 DEF LogTypeOK
  <2> HIDE DEF x, g, t
  <2>9. ASSUME ~continued, ~logWriter.torn, NEW a \in Fits
        PROVE  /\ GoodOf(F) = Len(F) /\ logWriter.next = Len(F) /\ written = RecordsOf(F)
               /\ TailOnly(g(a)) /\ durable <= Len(g(a)) /\ Covers(g(a), committed, durable)
               /\ a = "whole" => /\ GoodOf(g(a)) = Len(g(a)) /\ GoodOf(g(a)) = Len(F) + 1
                                 /\ RecordsOf(g(a)) = Append(RecordsOf(F), m)
               /\ a = "short" => GoodOf(g(a)) = Len(F) /\ RecordsOf(g(a)) = RecordsOf(F)
    <3>1. /\ GoodOf(F) = Len(F) /\ logWriter.next = Len(F) /\ written = RecordsOf(F)
          /\ durable <= Len(F) /\ Covers(F, committed, durable)
      BY <1>1, <2>1, <2>9 DEF LogHolds, WriterKnows
    <3>2. x(a) \in LogFrame /\ x(a).record = m /\ x(a).no = Len(F) /\ x(a).fit = a
      BY <2>3, <3>1
    <3>3. /\ g(a) \in LogFrames /\ Len(g(a)) = Len(F) + 1 /\ TailOnly(g(a))
          /\ \A i \in 1..Len(F) : g(a)[i] = F[i]
          /\ a = "whole" => GoodOf(g(a)) = Len(F) + 1 /\ RecordsOf(g(a)) = Append(RecordsOf(F), m)
          /\ a # "whole" => GoodOf(g(a)) = Len(F) /\ RecordsOf(g(a)) = RecordsOf(F)
      BY <1>1, <3>1, <3>2, FrameAppended DEF g
    <3>4. Covers(g(a), committed, durable)
      <4>1. Len(committed) <= Len(F)
        BY <3>1 DEF Covers
      <4>2. Len(committed) <= GoodOf(g(a))
        BY <1>1, <3>3, <4>1
      <4>3. \A i \in 1..Len(committed) : i \in 1..Len(F)
        BY <1>1, <4>1
      <4> QED BY <3>1, <3>3, <4>2, <4>3 DEF Covers
    <3>5. durable <= Len(g(a))
      BY <1>1, <2>8, <3>1, <3>3
    <3> QED BY <3>1, <3>3, <3>4, <3>5
  <2>10. CASE AppendRecord
    <3>1. /\ logFile' = t("whole") /\ logWriter' = [logWriter EXCEPT !.next = @ + 1]
          /\ logUsed' = [logUsed EXCEPT !.records = @ + 1]
          /\ written' = Append(written, m) /\ continued' = (continued \/ logWriter.torn)
          /\ UNCHANGED <<durable, target, logCall, committed, rotated>>
      BY <2>6, <2>7, <2>10 DEF AppendRecord
    <3>2. /\ logWriter' \in [up: BOOLEAN, next: Nat, torn: BOOLEAN]
          /\ logWriter'.up /\ logWriter'.next = logWriter.next + 1 /\ logWriter'.torn = logWriter.torn
          /\ logUsed' \in [records: 0..MaxRecords, faults: 0..MaxFaulty]
      <4>1. logUsed.records + 1 \in 0..MaxRecords
        BY <1>1, <2>1
      <4>2. logUsed' \in [records: 0..MaxRecords, faults: 0..MaxFaulty]
        BY <2>8, <3>1, <4>1, Zenon
      <4>3. logWriter.next + 1 \in Nat
        BY <1>1
      <4>4. logWriter' \in [up: BOOLEAN, next: Nat, torn: BOOLEAN]
        BY <2>8, <3>1, <4>3, Zenon
      <4>5. logWriter'.up = logWriter.up /\ logWriter'.next = logWriter.next + 1
            /\ logWriter'.torn = logWriter.torn
        BY <2>8, <3>1
      <4> QED BY <2>1, <4>2, <4>4, <4>5
    <3>3. LogTypeOK'
      <4>1. written' \in Seq(1..MaxRecords) /\ continued' \in BOOLEAN
        BY <1>1, <2>2, <2>8, <3>1 DEF LogTypeOK
      <4> QED BY <1>1, <2>5, <2>7, <3>1, <3>2, <4>1 DEF LogTypeOK
    <3>4. BeforeLog'
      BY <1>1, <2>1, <2>5, <2>7, <3>1, <3>2 DEF BeforeLog
    <3>5. LogHolds'
      BY <1>1, <2>5, <2>7, <2>9, <3>1, <3>2, ZenonT(60) DEF LogHolds, WriterKnows
    <3> QED BY <3>3, <3>4, <3>5 DEF LogInv
  <2>11. CASE AppendFails
    <3>1. /\ logFile' = t("short") /\ logWriter' = [logWriter EXCEPT !.torn = TRUE]
          /\ logUsed' = [records |-> logUsed.records + 1, faults |-> logUsed.faults + 1]
          /\ logUsed.faults < MaxFaulty /\ continued' = (continued \/ logWriter.torn)
          /\ UNCHANGED <<durable, target, logCall, written, committed, rotated>>
      BY <2>6, <2>7, <2>11 DEF AppendFails
    <3>2. /\ logWriter' \in [up: BOOLEAN, next: Nat, torn: BOOLEAN]
          /\ logWriter'.up /\ logWriter'.next = logWriter.next /\ logWriter'.torn
          /\ logUsed' \in [records: 0..MaxRecords, faults: 0..MaxFaulty]
      <4>1. logUsed.records + 1 \in 0..MaxRecords /\ logUsed.faults + 1 \in 0..MaxFaulty
        BY <1>1, <2>1, <3>1
      <4> QED BY <1>1, <2>1, <2>8, <3>1, <4>1
    <3>3. LogTypeOK'
      <4>1. continued' \in BOOLEAN
        BY <1>1, <3>1 DEF LogTypeOK
      <4> QED BY <1>1, <2>5, <2>7, <3>1, <3>2, <4>1 DEF LogTypeOK
    <3>4. BeforeLog'
      BY <1>1, <2>1, <2>5, <2>7, <3>1, <3>2 DEF BeforeLog
    <3>5. LogHolds'
      BY <1>1, <2>5, <2>7, <2>9, <3>1, <3>2, SMTT(30) DEF LogHolds, WriterKnows
    <3> QED BY <3>3, <3>4, <3>5 DEF LogInv
  <2> QED BY <1>9, <2>10, <2>11
<1>10. CASE SyncLog
  <2>1. /\ logWriter.up /\ durable' = Len(F) /\ committed' = written
        /\ UNCHANGED <<logFile, logWriter, target, logCall, written, continued, rotated, logUsed>>
    BY <1>10 DEF SyncLog, Frames
  <2>2. LogTypeOK'
    BY <1>1, <2>1 DEF LogTypeOK
  <2>3. BeforeLog'
    BY <1>1, <2>1 DEF BeforeLog
  <2>4. LogHolds'
    BY <1>1, <1>2, <2>1 DEF LogHolds, WriterKnows, Covers
  <2> QED BY <2>2, <2>3, <2>4 DEF LogInv
<1>11. CASE CloseLog
  <2>1. LogTypeOK'
    BY <1>1, <1>3, <1>11 DEF CloseLog, LogTypeOK
  <2> QED BY <1>11, <2>1, FileUntouched DEF CloseLog
<1>12. CASE CompactLog
  <2>1. LogTypeOK'
    BY <1>1, <1>12 DEF CompactLog, LogTypeOK
  <2> QED BY <1>12, <2>1, FileUntouched DEF CompactLog, Unopened
<1>13. CASE PublishTarget
  <2>1. RecordsOf(F) \in Seq(0..MaxRecords)
    <3>1. 1..MaxRecords \subseteq 0..MaxRecords
      BY <1>1
    <3> QED BY <1>2, <3>1, SeqMonotonic
  <2>2. LogTypeOK'
    BY <1>1, <1>2, <1>13, <2>1 DEF PublishTarget, LogTypeOK
  <2> QED BY <1>13, <2>2, FileUntouched DEF PublishTarget
<1>14. CASE PublishFails
  <2>1. LogTypeOK'
    BY <1>1, <1>4, <1>14 DEF PublishFails, LogTypeOK
  <2> QED BY <1>14, <2>1, FileUntouched DEF PublishFails
<1>15. CASE ExitLog
  <2>1. LogTypeOK'
    BY <1>1, <1>3, <1>15 DEF ExitLog, LogTypeOK
  <2> QED BY <1>15, <2>1, FileUntouched DEF ExitLog
<1>16. CASE PowerFails
  <2>1. PICK kept \in durable..Len(F), torn \in {"none", "short", "garbled"} :
          /\ torn # "none" => kept < Len(F)
          /\ logFile' = [logFile EXCEPT !.frames =
               IF torn = "none" THEN SubSeq(@, 1, kept)
               ELSE Append(SubSeq(@, 1, kept), [@[kept + 1] EXCEPT !.fit = torn])]
          /\ durable' = Len(logFile'.frames)
    BY <1>16 DEF PowerFails, Frames
  <2>2. /\ logWriter' = NoLogWriter /\ logCall' = "none" /\ written' = committed /\ LogFault
        /\ UNCHANGED <<target, committed, continued, rotated>>
    BY <1>16 DEF PowerFails
  <2> DEFINE cut == SubSeq(F, 1, kept)
             x == [F[kept + 1] EXCEPT !.fit = torn]
             g == IF torn = "none" THEN cut ELSE Append(cut, x)
             t == [state |-> logFile.state, frames |-> g]
  <2>3. kept \in Nat /\ kept <= Len(F) /\ durable \in Nat /\ durable <= kept
    BY <1>1, <2>1 DEF LogTypeOK
  <2>4. cut \in LogFrames /\ Len(cut) = kept /\ \A i \in 1..kept : cut[i] = F[i]
    BY <1>1, <2>3 DEF LogFrames
  <2>5. torn # "none" => x \in LogFrame
    <3>1. ASSUME torn # "none" PROVE x \in LogFrame
      <4>1. F[kept + 1] \in LogFrame
        <5>1. kept + 1 \in 1..Len(F)
          BY <1>1, <2>1, <2>3, <3>1
        <5> QED BY <1>1, <5>1 DEF LogFrames
      <4>2. torn \in Fits
        BY <2>1, <3>1 DEF Fits
      <4> QED BY <4>1, <4>2 DEF LogFrame
    <3> QED BY <3>1
  <2> HIDE DEF cut, x
  <2>6. /\ g \in LogFrames /\ kept <= Len(g) /\ Len(g) <= kept + 1 /\ Len(g) \in Nat
        /\ \A i \in 1..kept : g[i] = F[i]
        /\ kept < Len(F) \/ Len(g) = kept
        /\ Len(F) = 0 => g = <<>>
    <3>1. CASE torn = "none"
      <4>1. g = cut
        BY <3>1
      <4>2. Len(F) = 0 => cut = <<>>
        BY <2>3, <2>4 DEF LogFrames
      <4> HIDE DEF g
      <4> QED BY <2>3, <2>4, <4>1, <4>2
    <3>2. CASE torn # "none"
      <4>1. g = Append(cut, x) /\ kept < Len(F) /\ x \in LogFrame
        BY <2>1, <2>5, <3>2
      <4>2. /\ Append(cut, x) \in LogFrames /\ Len(Append(cut, x)) = kept + 1
            /\ \A i \in 1..kept : Append(cut, x)[i] = cut[i]
        BY <2>3, <2>4, <4>1 DEF LogFrames
      <4> HIDE DEF g
      <4> QED BY <2>3, <2>4, <4>1, <4>2
    <3> QED BY <3>1, <3>2
  <2>7. logFile' = t
    BY <1>1, <2>1 DEF cut, x
  <2> HIDE DEF g
  <2>8. t \in [state: {"absent", "stub", "log"}, frames: Seq(LogFrame)]
        /\ t.state = logFile.state /\ t.frames = g
    BY <1>1, <2>6 DEF LogFrames
  <2> HIDE DEF t
  <2>9. durable' = Len(g)
    BY <2>1, <2>7, <2>8
  <2>10. LogTypeOK'
    BY <1>1, <1>3, <1>4, <2>2, <2>6, <2>7, <2>8, <2>9 DEF LogTypeOK
  <2>11. BeforeLog'
    BY <1>1, <1>3, <2>2, <2>6, <2>7, <2>8, <2>9 DEF BeforeLog
  <2>12. ASSUME ~continued PROVE TailOnly(g) /\ Covers(g, committed, Len(g))
    <3>1. TailOnly(F) /\ Covers(F, committed, durable)
      BY <1>1, <2>12 DEF LogHolds
    <3>2. Covers(F, committed, kept)
      BY <1>1, <2>3, <3>1 DEF Covers
    <3>3. TailOnly(g) /\ Covers(g, committed, kept)
      BY <1>1, <2>3, <2>6, <3>1, <3>2, CutKeeps, SMTT(30)
    <3> QED BY <1>1, <2>3, <2>6, <3>3 DEF Covers
  <2>13. LogHolds'
    BY <1>3, <2>2, <2>6, <2>7, <2>8, <2>9, <2>12 DEF LogHolds, WriterKnows
  <2> QED BY <2>10, <2>11, <2>13 DEF LogInv
<1>17. CASE RotateLogKey
  <2>1. LogTypeOK'
    BY <1>1, <1>17 DEF RotateLogKey, LogTypeOK
  <2> QED BY <1>17, <2>1, FileUntouched DEF RotateLogKey
<1>18. CASE UNCHANGED vars_sl
  <2>1. LogTypeOK'
    BY <1>1, <1>18 DEF vars_sl, LogTypeOK
  <2> QED BY <1>18, <2>1, FileUntouched DEF vars_sl
<1> QED BY <1>5, <1>6, <1>7, <1>8, <1>9, <1>10, <1>11, <1>12, <1>13, <1>14, <1>15, <1>16, <1>17, <1>18
        DEF LogNext

\* The front of a list.
LEMMA FrontOf ==
    ASSUME NEW S, NEW r \in Seq(S), NEW n \in 0..Len(r)
    PROVE  SubSeq(r, 1, n) \in Seq(S) /\ Len(SubSeq(r, 1, n)) = n /\ \A i \in 1..n : SubSeq(r, 1, n)[i] = r[i]
<1>1. Len(r) \in Nat /\ n \in Nat /\ n <= Len(r) /\ n \in Int /\ 1 \in Int
  BY LenProperties
<1>2. ASSUME NEW i \in 1..n PROVE r[i] \in S
  <2>1. i \in 1..Len(r)
    BY <1>1
  <2> QED BY <2>1, ElementOfSeq
<1>3. /\ SubSeq(r, 1, n) \in Seq(S)
      /\ Len(SubSeq(r, 1, n)) = IF 1 <= n THEN n - 1 + 1 ELSE 0
      /\ \A i \in 1..(n - 1 + 1) : SubSeq(r, 1, n)[i] = r[1 + i - 1]
  BY <1>1, <1>2, SubSeqProperties
<1> DEFINE y == SubSeq(r, 1, n)
<1> HIDE DEF y
<1>4. n - 1 + 1 = n /\ \A i \in 1..n : 1 + i - 1 = i
  BY <1>1
<1> QED BY <1>1, <1>3, <1>4 DEF y

LEMMA LogOpens == LogInv => CommittedLogOpens
<1> SUFFICES ASSUME LogInv, ~continued, committed # <<>>
             PROVE  LogOutcomes \cap {"refused"} = {} /\ IsPrefix(committed, Recovered)
  BY DEF CommittedLogOpens
<1> DEFINE F == logFile.frames
<1>1. /\ F \in LogFrames /\ Len(F) \in Nat /\ Len(committed) \in Nat /\ committed \in Seq(1..MaxRecords)
      /\ logFile.state = "log" /\ TailOnly(F) /\ Covers(F, committed, durable)
  BY LogFacts DEF LogInv, LogTypeOK, BeforeLog, LogHolds
<1>2. Len(committed) # 0
  BY <1>1
<1>3. /\ GoodOf(F) \in 0..Len(F) /\ GoodOf(F) \in Nat /\ GoodOf(F) > 0
      /\ RecordsOf(F) \in Seq(1..MaxRecords) /\ Len(RecordsOf(F)) = GoodOf(F)
      /\ \A i \in 1..GoodOf(F) : RecordsOf(F)[i] = F[i].record
      /\ Good = GoodOf(F) /\ Recovered = RecordsOf(F)
  <2>1. /\ GoodOf(F) \in 0..Len(F) /\ GoodOf(F) \in Nat
        /\ RecordsOf(F) \in Seq(1..MaxRecords) /\ Len(RecordsOf(F)) = GoodOf(F)
        /\ \A i \in 1..GoodOf(F) : RecordsOf(F)[i] = F[i].record
        /\ Good = GoodOf(F) /\ Recovered = RecordsOf(F)
    BY <1>1, GoodIsOne, RecordsTyped, ScanIsGood
  <2> QED BY <1>1, <1>2, <2>1 DEF Covers
<1>4. LogOutcomes \cap {"refused"} = {}
  <2>1. GoodOf(F) = Len(F) \/ GoodOf(F) + 1 = Len(F)
    BY <1>1, <1>3, TailOnlyGood
  <2>2. TailOutcomes \in {{"clean"}, {"torn"}}
    <3>1. CASE GoodOf(F) = Len(F)
      BY <1>3, <3>1 DEF TailOutcomes, Clean, Frames
    <3>2. CASE GoodOf(F) + 1 = Len(F)
      BY <1>3, <3>2 DEF TailOutcomes, Clean, Frames
    <3> QED BY <2>1, <3>1, <3>2
  <2> QED BY <1>1, <2>2 DEF LogOutcomes
<1>5. IsPrefix(committed, Recovered)
  <2> DEFINE n == Len(committed)
             u == SubSeq(committed, 1, n)
             v == SubSeq(RecordsOf(F), 1, n)
  <2>1. n <= GoodOf(F) /\ n \in Nat /\ \A i \in 1..n : committed[i] = F[i].record
    BY <1>1 DEF Covers
  <2>2. \A i \in 1..n : RecordsOf(F)[i] = F[i].record
    BY <1>3, <2>1
  <2>3. /\ u \in Seq(1..MaxRecords) /\ Len(u) = n /\ \A i \in 1..n : u[i] = committed[i]
    <3>1. u = committed
      BY <1>1, SubSeqFull
    <3> HIDE DEF u
    <3> QED BY <1>1, <3>1
  <2>4. /\ v \in Seq(1..MaxRecords) /\ Len(v) = n /\ \A i \in 1..n : v[i] = RecordsOf(F)[i]
    <3> DEFINE r == RecordsOf(F)
    <3>1. r \in Seq(1..MaxRecords) /\ n \in Nat /\ n <= Len(r)
      BY <1>3, <2>1
    <3> HIDE DEF n, r
    <3>2. SubSeq(r, 1, n) \in Seq(1..MaxRecords) /\ Len(SubSeq(r, 1, n)) = n
          /\ \A i \in 1..n : SubSeq(r, 1, n)[i] = r[i]
      <4>1. n \in 0..Len(r)
        BY <3>1
      <4> QED BY <3>1, <4>1, FrontOf
    <3> QED BY <3>2 DEF r
  <2> HIDE DEF u, v
  <2>5. Len(u) = Len(v) /\ \A i \in 1..Len(u) : u[i] = v[i]
    BY <2>1, <2>2, <2>3, <2>4
  <2>6. u = v
    BY <2>3, <2>4, <2>5, SeqEqual
  <2> QED BY <1>3, <2>1, <2>6 DEF IsPrefix, u, v
<1> QED BY <1>4, <1>5

\* The types of a sealed log (sealed_log.rs).
THEOREM LogTypeCorrect == LogSpec => []LogTypeOK
<1>1. LogSpec => []LogInv
  BY LogStarts, LogStep, PTL DEF LogSpec
<1>2. LogInv => LogTypeOK
  BY DEF LogInv
<1> QED BY <1>1, <1>2, PTL

\* Whatever fails half way, and wherever the power is cut: a log that was synced opens
\* and its records begin with the synced ones (SealedLogWriter, scan, open_append).
THEOREM CommittedLogAlwaysOpens == LogSpec => []CommittedLogOpens
<1>1. LogSpec => []LogInv
  BY LogStarts, LogStep, PTL DEF LogSpec
<1> QED BY <1>1, LogOpens, PTL

-----------------------------------------------------------------------------
(* The refinement of SyncedLog, which holds of a damaged log too.            *)

\* A writer that was told of no failure is at the end of a log that opens, one that
\* was is behind a frame that does not; records are numbered as they are appended.
TailKnown ==
    logWriter.up =>
      IF logWriter.torn THEN GoodOf(logFile.frames) < Len(logFile.frames)
      ELSE /\ GoodOf(logFile.frames) = Len(logFile.frames)
           /\ logWriter.next = GoodOf(logFile.frames)
RecordsKnown == \A i \in 1..Len(logFile.frames) : logFile.frames[i].record <= logUsed.records
LogScans == LogInv /\ TailKnown /\ RecordsKnown

\* A log that agrees with another on its first good frames, and on no other that
\* opens, has these records.
LEMMA CutScan ==
    ASSUME NEW f \in LogFrames, NEW g \in LogFrames, NEW n \in 0..GoodOf(f), n <= Len(g),
           \A i \in 1..n : g[i] = f[i], n < Len(g) => ~OpensIn(g, n + 1)
    PROVE  GoodOf(g) = n /\ RecordsOf(g) = SubSeq(RecordsOf(f), 1, n)
<1>1. /\ GoodOf(f) \in 0..Len(f) /\ GoodFor(f, GoodOf(f)) /\ Len(f) \in Nat /\ Len(g) \in Nat
      /\ n \in Nat /\ n <= GoodOf(f) /\ n \in 0..Len(g)
  BY GoodIsOne
<1>2. \A i \in 1..n : i \in 1..GoodOf(f) /\ OpensIn(g, i)
  BY <1>1 DEF GoodFor, OpensIn
<1>3. GoodOf(g) = n
  BY <1>1, <1>2, GoodIsOne DEF GoodFor
<1> DEFINE r == RecordsOf(f)
           u == RecordsOf(g)
           v == SubSeq(r, 1, n)
<1>4. /\ r \in Seq(1..MaxRecords) /\ Len(r) = GoodOf(f) /\ \A i \in 1..GoodOf(f) : r[i] = f[i].record
      /\ u \in Seq(1..MaxRecords) /\ Len(u) = n /\ \A i \in 1..n : u[i] = g[i].record
  BY <1>3, RecordsTyped
<1> HIDE DEF r, u
<1>5. v \in Seq(1..MaxRecords) /\ Len(v) = n /\ \A i \in 1..n : v[i] = r[i]
  <2>1. n \in 0..Len(r)
    BY <1>1, <1>4
  <2> QED BY <1>4, <2>1, FrontOf
<1> HIDE DEF v
<1>6. Len(u) = Len(v) /\ \A i \in 1..Len(u) : u[i] = v[i]
  BY <1>2, <1>4, <1>5
<1>7. u = v
  BY <1>4, <1>5, <1>6, SeqEqual
<1> QED BY <1>3, <1>7 DEF r, u, v


LEMMA WholeScan ==
    ASSUME NEW f \in LogFrames, NEW g \in LogFrames, GoodOf(f) <= Len(g),
           \A i \in 1..GoodOf(f) : g[i] = f[i], GoodOf(f) < Len(g) => ~OpensIn(g, GoodOf(f) + 1)
    PROVE  GoodOf(g) = GoodOf(f) /\ RecordsOf(g) = RecordsOf(f)
<1> DEFINE n == GoodOf(f)
<1>1. n \in 0..GoodOf(f)
  BY GoodIsOne
<1>2. GoodOf(g) = n /\ RecordsOf(g) = SubSeq(RecordsOf(f), 1, n)
  BY <1>1, CutScan
<1>3. RecordsOf(f) \in Seq(1..MaxRecords) /\ Len(RecordsOf(f)) = n
  BY RecordsTyped
<1>4. SubSeq(RecordsOf(f), 1, Len(RecordsOf(f))) = RecordsOf(f)
  BY <1>3, SubSeqFull
<1> QED BY <1>2, <1>3, <1>4

\* What the steps that write the file make of what a scan finds in it.
LEMMA OpenScans ==
    ASSUME LogScans, OpenAppend
    PROVE  LET F == logFile.frames
               G == logFile'.frames
           IN  /\ G \in LogFrames /\ Len(G) = GoodOf(F) /\ GoodOf(G) = GoodOf(F) /\ Len(G) <= Len(F)
               /\ RecordsOf(G) = RecordsOf(F) /\ \A i \in 1..Len(G) : G[i] = F[i]
               /\ ~logWriter'.torn /\ logWriter'.next = GoodOf(F)
<1> DEFINE F == logFile.frames
           g == SubSeq(F, 1, GoodOf(F))
<1>1. F \in LogFrames /\ logFile = [state |-> logFile.state, frames |-> F] /\ Good = GoodOf(F)
  BY LogFacts, ScanIsGood DEF LogScans, LogInv
<1>2. /\ g \in LogFrames /\ Len(g) = GoodOf(F) /\ GoodOf(g) = GoodOf(F)
      /\ RecordsOf(g) = RecordsOf(F) /\ \A i \in 1..Len(g) : g[i] = F[i]
  BY <1>1, CutToGood
<1>3. GoodOf(F) <= Len(F)
  BY <1>1, GoodIsOne
<1>4. logFile' = [logFile EXCEPT !.frames = SubSeq(@, 1, Good)]
      /\ logWriter' = [up |-> TRUE, next |-> Good, torn |-> FALSE]
  BY DEF OpenAppend
<1>5. logFile'.frames = g
  <2> HIDE DEF g
  <2>1. logFile' = [logFile EXCEPT !.frames = g]
    BY <1>1, <1>4 DEF g
  <2> QED BY <1>1, <2>1
<1> HIDE DEF g
<1> QED BY <1>1, <1>2, <1>3, <1>4, <1>5

LEMMA AppendScans ==
    ASSUME LogScans, AppendRecord \/ AppendFails
    PROVE  LET F == logFile.frames
               G == logFile'.frames
               m == logUsed.records + 1
           IN  /\ G \in LogFrames /\ Len(G) = Len(F) + 1 /\ G[Len(G)].record = m /\ m \in 1..MaxRecords
               /\ \A i \in 1..Len(F) : G[i] = F[i]
               /\ logUsed'.records = m /\ logWriter'.up
               /\ AppendRecord => logWriter'.torn = logWriter.torn /\ logWriter'.next = logWriter.next + 1
               /\ AppendFails => logWriter'.torn
               /\ AppendRecord /\ ~logWriter.torn =>
                    GoodOf(G) = Len(G) /\ RecordsOf(G) = Append(RecordsOf(F), m)
               /\ AppendFails \/ logWriter.torn =>
                    GoodOf(G) < Len(G) /\ RecordsOf(G) = RecordsOf(F)
<1> DEFINE F == logFile.frames
           m == logUsed.records + 1
           x(a) == [record |-> m, no |-> logWriter.next, fit |-> a]
           g(a) == Append(F, x(a))
<1>1. /\ F \in LogFrames /\ logFile = [state |-> logFile.state, frames |-> F] /\ Len(F) \in Nat
      /\ logWriter.up \in BOOLEAN /\ logWriter.torn \in BOOLEAN /\ logWriter.next \in Nat
      /\ logUsed.records \in 0..MaxRecords /\ MaxRecords \in Nat
      /\ logWriter \in [up: BOOLEAN, next: Nat, torn: BOOLEAN]
      /\ logUsed \in [records: 0..MaxRecords, faults: 0..MaxFaulty]
  BY LogFacts DEF LogScans, LogInv, LogTypeOK
<1>2. logWriter.up /\ logUsed.records < MaxRecords /\ m \in 1..MaxRecords
  BY <1>1 DEF AppendRecord, AppendFails
<1>3. \A a \in Fits : x(a) \in LogFrame /\ x(a).record = m /\ x(a).no = logWriter.next /\ x(a).fit = a
  BY <1>1, <1>2 DEF LogFrame
<1>4. \A a \in Fits : /\ g(a) \in LogFrames /\ Len(g(a)) = Len(F) + 1 /\ g(a)[Len(F) + 1] = x(a)
                      /\ \A i \in 1..Len(F) : g(a)[i] = F[i]
  BY <1>1, <1>3 DEF LogFrames
<1>5. \A a \in Fits : Append1(a) = [logFile EXCEPT !.frames = g(a)]
  BY DEF Append1
<1> HIDE DEF g, x
<1>6. \A a \in Fits : Append1(a).frames = g(a)
  BY <1>1, <1>5
<1>7. "whole" \in Fits /\ "short" \in Fits
  BY DEF Fits
<1>8. GoodOf(F) \in 0..Len(F) /\ GoodFor(F, GoodOf(F))
  BY <1>1, GoodIsOne
<1>9. ASSUME NEW a \in Fits, logFile' = Append1(a)
       PROVE  LET G == logFile'.frames IN
              /\ G = g(a) /\ G \in LogFrames /\ Len(G) = Len(F) + 1 /\ G[Len(G)].record = m
              /\ \A i \in 1..Len(F) : G[i] = F[i]
  BY <1>3, <1>4, <1>6, <1>9
<1>10. CASE logWriter.torn
  <2>1. GoodOf(F) < Len(F)
    BY <1>2, <1>10 DEF LogScans, TailKnown
  <2>2. ASSUME NEW a \in Fits PROVE GoodOf(g(a)) < Len(g(a)) /\ RecordsOf(g(a)) = RecordsOf(F)
    <3>1. /\ \A i \in 1..GoodOf(F) : i \in 1..Len(F) /\ g(a)[i] = F[i]
          /\ GoodOf(F) + 1 \in 1..Len(F) /\ GoodOf(F) <= Len(g(a))
      BY <1>1, <1>4, <1>8, <2>1
    <3>2. ~OpensIn(g(a), GoodOf(F) + 1)
      BY <1>4, <1>8, <2>1, <3>1 DEF GoodFor, OpensIn
    <3>3. GoodOf(g(a)) = GoodOf(F) /\ RecordsOf(g(a)) = RecordsOf(F)
      BY <1>1, <1>4, <3>1, <3>2, WholeScan
    <3> QED BY <1>1, <1>4, <1>8, <2>1, <3>3
  <2>3. \A a \in Fits : GoodOf(g(a)) < Len(g(a)) /\ RecordsOf(g(a)) = RecordsOf(F)
    BY <2>2
  <2>4. CASE AppendRecord
    <3>1. logFile' = Append1("whole") /\ logWriter' = [logWriter EXCEPT !.next = @ + 1]
          /\ logUsed' = [logUsed EXCEPT !.records = @ + 1]
      BY <2>4 DEF AppendRecord
    <3>2. /\ logFile'.frames = g("whole") /\ logFile'.frames \in LogFrames
          /\ Len(logFile'.frames) = Len(F) + 1 /\ logFile'.frames[Len(logFile'.frames)].record = m
          /\ \A i \in 1..Len(F) : logFile'.frames[i] = F[i]
      BY <1>7, <1>9, <3>1
    <3>3. logWriter'.torn = logWriter.torn /\ logWriter'.next = logWriter.next + 1 /\ logWriter'.up
          /\ logUsed'.records = m
      BY <1>1, <1>2, <3>1
    <3>4. AppendFails => logWriter'.torn
      BY <1>10, <3>3
    <3> QED BY <1>2, <1>7, <1>10, <2>3, <3>2, <3>3, <3>4
  <2>5. CASE AppendFails
    <3>1. logFile' = Append1("short") /\ logWriter' = [logWriter EXCEPT !.torn = TRUE]
          /\ logUsed' = [records |-> logUsed.records + 1, faults |-> logUsed.faults + 1]
      BY <2>5 DEF AppendFails
    <3>2. /\ logFile'.frames = g("short") /\ logFile'.frames \in LogFrames
          /\ Len(logFile'.frames) = Len(F) + 1 /\ logFile'.frames[Len(logFile'.frames)].record = m
          /\ \A i \in 1..Len(F) : logFile'.frames[i] = F[i]
      BY <1>7, <1>9, <3>1
    <3>3. logWriter'.torn /\ logWriter'.up /\ logUsed'.records = m /\ logWriter'.next = logWriter.next
      BY <1>1, <1>2, <3>1
    <3>4. ~AppendRecord
      BY <1>1, <3>1 DEF AppendRecord
    <3> QED BY <1>2, <1>7, <1>10, <2>3, <3>2, <3>3, <3>4
  <2> QED BY <2>4, <2>5
<1>11. CASE ~logWriter.torn
  <2>1. GoodOf(F) = Len(F) /\ logWriter.next = Len(F)
    BY <1>2, <1>11 DEF LogScans, TailKnown
  <2>2. ASSUME NEW a \in Fits
        PROVE  /\ a = "whole" => /\ GoodOf(g(a)) = Len(g(a))
                                 /\ RecordsOf(g(a)) = Append(RecordsOf(F), m)
               /\ a = "short" => GoodOf(g(a)) < Len(g(a)) /\ RecordsOf(g(a)) = RecordsOf(F)
    <3>1. x(a) \in LogFrame /\ x(a).record = m /\ x(a).no = Len(F) /\ x(a).fit = a
      BY <1>3, <2>1
    <3>2. /\ a = "whole" => GoodOf(g(a)) = Len(F) + 1 /\ RecordsOf(g(a)) = Append(RecordsOf(F), m)
          /\ a # "whole" => GoodOf(g(a)) = Len(F) /\ RecordsOf(g(a)) = RecordsOf(F)
      BY <1>1, <2>1, <3>1, FrameAppended DEF g
    <3> QED BY <1>1, <1>4, <3>2
  <2>4. CASE AppendRecord
    <3>1. logFile' = Append1("whole") /\ logWriter' = [logWriter EXCEPT !.next = @ + 1]
          /\ logUsed' = [logUsed EXCEPT !.records = @ + 1]
      BY <2>4 DEF AppendRecord
    <3>2. /\ logFile'.frames = g("whole") /\ logFile'.frames \in LogFrames
          /\ Len(logFile'.frames) = Len(F) + 1 /\ logFile'.frames[Len(logFile'.frames)].record = m
          /\ \A i \in 1..Len(F) : logFile'.frames[i] = F[i]
      BY <1>7, <1>9, <3>1
    <3>3. logWriter'.torn = logWriter.torn /\ logWriter'.next = logWriter.next + 1 /\ logWriter'.up
          /\ logUsed'.records = m
      BY <1>1, <1>2, <3>1
    <3>4. ~AppendFails
      <4>1. AppendFails => logFile'.frames = g("short")
        BY <1>6, <1>7 DEF AppendFails
      <4>2. g("short")[Len(F) + 1].fit = "short" /\ g("whole")[Len(F) + 1].fit = "whole"
        BY <1>3, <1>4, <1>7
      <4> QED BY <3>2, <4>1, <4>2
    <3> QED BY <1>2, <1>7, <1>11, <2>2, <3>2, <3>3, <3>4
  <2>5. CASE AppendFails
    <3>1. logFile' = Append1("short") /\ logWriter' = [logWriter EXCEPT !.torn = TRUE]
          /\ logUsed' = [records |-> logUsed.records + 1, faults |-> logUsed.faults + 1]
      BY <2>5 DEF AppendFails
    <3>2. /\ logFile'.frames = g("short") /\ logFile'.frames \in LogFrames
          /\ Len(logFile'.frames) = Len(F) + 1 /\ logFile'.frames[Len(logFile'.frames)].record = m
          /\ \A i \in 1..Len(F) : logFile'.frames[i] = F[i]
      BY <1>7, <1>9, <3>1
    <3>3. logWriter'.torn /\ logWriter'.up /\ logUsed'.records = m /\ logWriter'.next = logWriter.next
      BY <1>1, <1>2, <3>1
    <3>4. ~AppendRecord
      BY <1>1, <3>1 DEF AppendRecord
    <3> QED BY <1>2, <1>7, <1>11, <2>2, <3>2, <3>3, <3>4
  <2> QED BY <2>4, <2>5
<1> QED BY <1>1, <1>10, <1>11

LEMMA PowerScans ==
    ASSUME LogScans, PowerFails
    PROVE  LET F == logFile.frames
               G == logFile'.frames
           IN  /\ G \in LogFrames
               /\ \A i \in 1..Len(G) : \E j \in 1..Len(F) : G[i].record = F[j].record
               /\ \E n \in 0..GoodOf(F) : GoodOf(G) = n /\ RecordsOf(G) = SubSeq(RecordsOf(F), 1, n)
<1> DEFINE F == logFile.frames
<1>1. F \in LogFrames /\ Len(F) \in Nat /\ logFile = [state |-> logFile.state, frames |-> F] /\ durable \in Nat
  BY LogFacts DEF LogScans, LogInv, LogTypeOK
<1>2. PICK kept \in durable..Len(F), torn \in {"none", "short", "garbled"} :
        /\ torn # "none" => kept < Len(F)
        /\ logFile' = [logFile EXCEPT !.frames =
             IF torn = "none" THEN SubSeq(@, 1, kept)
             ELSE Append(SubSeq(@, 1, kept), [@[kept + 1] EXCEPT !.fit = torn])]
  BY DEF PowerFails, Frames
<1>3. kept \in Nat /\ kept <= Len(F) /\ kept \in 0..Len(F)
  BY <1>1, <1>2
<1> DEFINE cut == SubSeq(F, 1, kept)
           x == [F[kept + 1] EXCEPT !.fit = torn]
           g == IF torn = "none" THEN cut ELSE Append(cut, x)
<1>4. cut \in LogFrames /\ Len(cut) = kept /\ \A i \in 1..kept : cut[i] = F[i]
  BY <1>1, <1>3, FrontOf DEF LogFrames
<1>5. ASSUME torn # "none"
      PROVE  x \in LogFrame /\ x.fit # "whole" /\ x.record = F[kept + 1].record /\ kept + 1 \in 1..Len(F)
  <2>1. kept + 1 \in 1..Len(F)
    BY <1>1, <1>2, <1>3, <1>5
  <2>2. F[kept + 1] \in LogFrame /\ torn \in Fits /\ torn # "whole"
    BY <1>1, <1>2, <1>5, <2>1 DEF LogFrames, Fits
  <2> QED BY <2>1, <2>2 DEF LogFrame
<1>6. logFile'.frames = g
  <2>1. logFile' = [logFile EXCEPT !.frames = g]
    BY <1>2
  <2> HIDE DEF g
  <2> QED BY <1>1, <2>1
<1> HIDE DEF cut, x
<1>7. /\ g \in LogFrames /\ kept <= Len(g) /\ Len(g) <= kept + 1 /\ Len(g) \in Nat
      /\ \A i \in 1..kept : g[i] = F[i]
      /\ kept < Len(g) => /\ kept + 1 \in 1..Len(F) /\ g[kept + 1].fit # "whole"
                          /\ g[kept + 1].record = F[kept + 1].record
  <2>1. CASE torn = "none"
    <3>1. g = cut
      BY <2>1
    <3> HIDE DEF g
    <3> QED BY <1>3, <1>4, <3>1
  <2>2. CASE torn # "none"
    <3>1. g = Append(cut, x)
      BY <2>2
    <3>2. /\ Append(cut, x) \in LogFrames /\ Len(Append(cut, x)) = kept + 1
          /\ Append(cut, x)[kept + 1] = x
          /\ \A i \in 1..kept : Append(cut, x)[i] = cut[i]
      BY <1>3, <1>4, <1>5, <2>2 DEF LogFrames
    <3> HIDE DEF g
    <3> QED BY <1>3, <1>4, <1>5, <2>2, <3>1, <3>2
  <2> QED BY <2>1, <2>2
<1> HIDE DEF g
<1>8. \A i \in 1..Len(g) : \E j \in 1..Len(F) : g[i].record = F[j].record
  <2>1. ASSUME NEW i \in 1..Len(g) PROVE i \in 1..Len(F) /\ g[i].record = F[i].record
    <3>1. i \in 1..kept \/ (i = kept + 1 /\ kept < Len(g))
      BY <1>3, <1>7
    <3> QED BY <1>1, <1>3, <1>7, <3>1
  <2> QED BY <2>1
<1>9. GoodOf(F) \in 0..Len(F) /\ GoodOf(F) \in Nat /\ GoodFor(F, GoodOf(F))
  BY <1>1, GoodIsOne
<1> DEFINE n == IF kept <= GoodOf(F) THEN kept ELSE GoodOf(F)
<1>10. n \in 0..GoodOf(F) /\ n <= kept /\ n <= Len(g) /\ \A i \in 1..n : i \in 1..kept
  BY <1>3, <1>7, <1>9
<1>11. n < Len(g) => ~OpensIn(g, n + 1)
  <2>1. CASE kept <= GoodOf(F)
    BY <1>3, <1>7, <2>1 DEF OpensIn
  <2>2. CASE ~(kept <= GoodOf(F))
    <3>1. n = GoodOf(F) /\ n + 1 \in 1..kept /\ GoodOf(F) < Len(F)
      BY <1>1, <1>3, <1>9, <2>2
    <3>2. ~OpensIn(F, n + 1) /\ g[n + 1] = F[n + 1]
      BY <1>7, <1>9, <3>1 DEF GoodFor
    <3> QED BY <3>2 DEF OpensIn
  <2> QED BY <2>1, <2>2
<1> HIDE DEF n
<1>12. GoodOf(g) = n /\ RecordsOf(g) = SubSeq(RecordsOf(F), 1, n)
  BY <1>1, <1>7, <1>10, <1>11, CutScan
<1> QED BY <1>6, <1>7, <1>8, <1>10, <1>12

LEMMA ScansUntouched ==
    ASSUME LogScans, UNCHANGED logFile, logWriter' = logWriter \/ ~logWriter'.up,
           logUsed' = logUsed \/ LogFault, LogInv'
    PROVE  LogScans'
<1>1. logUsed'.records = logUsed.records
  BY LogFacts DEF LogScans, LogInv, LogTypeOK, LogFault
<1>2. TailKnown'
  BY DEF LogScans, TailKnown
<1>3. RecordsKnown'
  BY <1>1 DEF LogScans, RecordsKnown
<1> QED BY <1>2, <1>3 DEF LogScans

LEMMA ScansStep == LogScans /\ [LogNext]_vars_sl => LogScans'
<1> SUFFICES ASSUME LogScans, [LogNext]_vars_sl PROVE LogScans'
  OBVIOUS
<1> DEFINE F == logFile.frames
           G == logFile'.frames
<1>1. LogInv'
  BY LogStep DEF LogScans
<1>2. ~NoLogWriter.up
  BY DEF NoLogWriter
<1>3. /\ F \in LogFrames /\ Len(F) \in Nat /\ logUsed.records \in Nat /\ GoodOf(F) \in 0..Len(F)
      /\ \A i \in 1..Len(F) : F[i].record \in Nat /\ F[i].record <= logUsed.records
  <2>1. F \in LogFrames /\ Len(F) \in Nat /\ logUsed.records \in Nat
    BY LogFacts DEF LogScans, LogInv
  <2>2. \A i \in 1..Len(F) : F[i].record \in Nat
    <3>1. ASSUME NEW i \in 1..Len(F) PROVE F[i].record \in Nat
      <4>1. F[i] \in LogFrame
        BY <2>1 DEF LogFrames
      <4>2. F[i].record \in 1..MaxRecords
        BY <4>1 DEF LogFrame
      <4> QED BY <4>2
    <3> QED BY <3>1
  <2> QED BY <2>1, <2>2, GoodIsOne DEF LogScans, RecordsKnown
<1>4. CASE CreateLog \/ WriteHeader
  <2>1. F = <<>> /\ logFile.state # "log"
    BY <1>4 DEF LogScans, LogInv, BeforeLog, CreateLog, WriteHeader
  <2>2. G = <<>>
    <3>1. CASE CreateLog
      BY <3>1 DEF CreateLog
    <3>2. CASE WriteHeader
      <4>1. logFile = [state |-> logFile.state, frames |-> F]
        BY LogFacts DEF LogScans, LogInv
      <4>2. logFile' = [logFile EXCEPT !.state = "log"]
        BY <3>2 DEF WriteHeader
      <4> QED BY <2>1, <4>1, <4>2
    <3> QED BY <1>4, <3>1, <3>2
  <2>3. TailKnown'
    <3>1. CASE CreateLog
      BY <3>1 DEF CreateLog, Unopened, TailKnown
    <3>2. CASE WriteHeader
      BY <2>2, <3>2, EmptyLog DEF WriteHeader, TailKnown, NoLogWriter
    <3> QED BY <1>4, <3>1, <3>2
  <2>4. RecordsKnown'
    BY <2>2 DEF RecordsKnown
  <2> QED BY <1>1, <2>3, <2>4 DEF LogScans
<1>5. CASE OpenAppend
  <2>1. /\ Len(G) = GoodOf(F) /\ GoodOf(G) = GoodOf(F) /\ \A i \in 1..Len(G) : G[i] = F[i]
        /\ ~logWriter'.torn /\ logWriter'.next = GoodOf(F)
    BY <1>5, OpenScans
  <2>2. TailKnown'
    BY <2>1 DEF TailKnown
  <2>3. \A i \in 1..Len(G) : i \in 1..Len(F)
    BY <1>3, <2>1
  <2>4. RecordsKnown'
    <3>1. logUsed' = logUsed
      BY <1>5 DEF OpenAppend
    <3> QED BY <1>3, <2>1, <2>3, <3>1 DEF RecordsKnown
  <2> QED BY <1>1, <2>2, <2>4 DEF LogScans
<1>6. CASE AppendRecord \/ AppendFails
  <2>1. /\ Len(G) = Len(F) + 1 /\ G[Len(G)].record = logUsed.records + 1
        /\ \A i \in 1..Len(F) : G[i] = F[i]
        /\ logUsed'.records = logUsed.records + 1 /\ logWriter'.up
        /\ AppendRecord => logWriter'.torn = logWriter.torn /\ logWriter'.next = logWriter.next + 1
        /\ AppendFails => logWriter'.torn
        /\ AppendRecord /\ ~logWriter.torn => GoodOf(G) = Len(G)
        /\ AppendFails \/ logWriter.torn => GoodOf(G) < Len(G)
    BY <1>6, AppendScans
  <2>2. ~logWriter.torn => logWriter.next = Len(F)
    <3>1. logWriter.up
      BY <1>6 DEF AppendRecord, AppendFails
    <3> QED BY <3>1 DEF LogScans, TailKnown
  <2>3. TailKnown'
    BY <1>6, <2>1, <2>2 DEF TailKnown
  <2>4. RecordsKnown'
    <3>1. ASSUME NEW i \in 1..Len(G) PROVE G[i].record <= logUsed'.records
      <4>1. i \in 1..Len(F) \/ i = Len(G)
        BY <1>3, <2>1
      <4>2. CASE i \in 1..Len(F)
        <5>1. G[i].record = F[i].record /\ F[i].record \in Nat /\ F[i].record <= logUsed.records
          BY <1>3, <2>1, <4>2
        <5>2. logUsed.records \in Nat /\ logUsed'.records = logUsed.records + 1
          BY <1>3, <2>1
        <5> QED BY <5>1, <5>2
      <4>3. CASE i = Len(G)
        BY <1>3, <2>1, <4>3
      <4> QED BY <4>1, <4>2, <4>3
    <3> QED BY <3>1 DEF RecordsKnown
  <2> QED BY <1>1, <2>3, <2>4 DEF LogScans
<1>7. CASE PowerFails
  <2>1. \A i \in 1..Len(G) : \E j \in 1..Len(F) : G[i].record = F[j].record
    BY <1>7, PowerScans
  <2>2. ~logWriter'.up /\ logUsed'.records = logUsed.records
    BY <1>2, <1>7, LogFacts DEF PowerFails, LogFault, LogScans, LogInv, LogTypeOK
  <2>3. RecordsKnown'
    BY <1>3, <2>1, <2>2 DEF RecordsKnown
  <2>4. TailKnown'
    BY <2>2 DEF TailKnown
  <2> QED BY <1>1, <2>3, <2>4 DEF LogScans
<1>8. CASE HeaderFails \/ PublishFails
  BY <1>1, <1>8, ScansUntouched DEF HeaderFails, PublishFails
<1>9. CASE CloseLog \/ ExitLog
  BY <1>1, <1>2, <1>9, ScansUntouched DEF CloseLog, ExitLog
<1>10. CASE SyncLog \/ CompactLog \/ PublishTarget \/ RotateLogKey
  BY <1>1, <1>10, ScansUntouched DEF SyncLog, CompactLog, PublishTarget, RotateLogKey
<1>11. CASE UNCHANGED vars_sl
  BY <1>1, <1>11, ScansUntouched DEF vars_sl
<1> QED BY <1>4, <1>5, <1>6, <1>7, <1>8, <1>9, <1>10, <1>11 DEF LogNext

LEMMA LogAlwaysScans == LogSpec => []LogScans
<1>1. LogInit => LogScans
  <2> SUFFICES ASSUME LogInit PROVE TailKnown /\ RecordsKnown
    BY LogStarts DEF LogScans
  <2>1. logFile.frames = <<>> /\ ~logWriter.up
    BY DEF LogInit, NoLogWriter
  <2> QED BY <2>1 DEF TailKnown, RecordsKnown
<1> QED BY <1>1, ScansStep, PTL DEF LogSpec

\* What a reader finds, what it is promised.
Found == RecordsOf(logFile.frames)
Sure == IF continued THEN <<>> ELSE committed

LEMMA LogImplements == LogScans /\ LogScans' /\ [LogNext]_vars_sl => [Promised!Next]_(Promised!vars)
<1> SUFFICES ASSUME LogScans, LogScans', [LogNext]_vars_sl
             PROVE  Promised!Next \/ UNCHANGED <<Recovered, Sure, target, continued>>
  BY DEF Promised!vars, Sure
<1> DEFINE F == logFile.frames
           G == logFile'.frames
<1>1. Recovered = Found /\ Recovered' = Found'
  BY DEF Found, Good, Recovered, GoodOf, GoodFor, RecordsOf, Opens, OpensIn, Frames
<1>2. /\ F \in LogFrames /\ Len(F) \in Nat /\ Len(committed) \in Nat /\ logUsed.records \in Nat
      /\ Found \in Seq(1..MaxRecords) /\ Len(Found) = GoodOf(F) /\ GoodOf(F) \in 0..Len(F)
      /\ \A i \in 1..GoodOf(F) : Found[i] = F[i].record
      /\ Found' = RecordsOf(G) /\ continued \in BOOLEAN
  <2>1. F \in LogFrames /\ Len(F) \in Nat /\ Len(committed) \in Nat /\ logUsed.records \in Nat
    BY LogFacts DEF LogScans, LogInv
  <2> QED BY <2>1, RecordsTyped, GoodIsOne DEF Found, LogScans, LogInv, LogTypeOK
<1>3. CASE logFile.frames' = F /\ UNCHANGED <<committed, target, continued>>
  <2>1. Found' = Found
    BY <1>2, <1>3 DEF Found
  <2> QED BY <1>1, <1>3, <2>1 DEF Sure
<1>4. CASE CreateLog \/ WriteHeader
  <2>1. F = <<>> /\ logFile.state # "log"
    BY <1>4 DEF LogScans, LogInv, BeforeLog, CreateLog, WriteHeader
  <2>2. G = <<>>
    <3>1. CASE CreateLog
      BY <3>1 DEF CreateLog
    <3>2. CASE WriteHeader
      <4>1. logFile = [state |-> logFile.state, frames |-> F]
        BY LogFacts DEF LogScans, LogInv
      <4>2. logFile' = [logFile EXCEPT !.state = "log"]
        BY <3>2 DEF WriteHeader
      <4> QED BY <2>1, <4>1, <4>2
    <3> QED BY <1>4, <3>1, <3>2
  <2> QED BY <1>3, <1>4, <2>1, <2>2 DEF CreateLog, WriteHeader
<1>5. CASE OpenAppend
  <2>1. Found' = Found
    BY <1>2, <1>5, OpenScans DEF Found
  <2> QED BY <1>1, <1>5, <2>1 DEF OpenAppend, Sure
<1>6. CASE AppendRecord \/ AppendFails
  <2> DEFINE m == logUsed.records + 1
  <2>1. /\ m \in 1..MaxRecords
        /\ AppendRecord /\ ~logWriter.torn => Found' = Append(Found, m)
        /\ AppendFails \/ logWriter.torn => Found' = Found
    BY <1>2, <1>6, AppendScans DEF Found
  <2>2. continued' = (continued \/ logWriter.torn) /\ UNCHANGED <<committed, target>>
    BY <1>6 DEF AppendRecord, AppendFails
  <2>3. CASE continued' = continued
    <3>1. CASE AppendRecord /\ ~logWriter.torn
      <4>1. \A i \in 1..Len(Found) : Found[i] # m
        <5>1. ASSUME NEW i \in 1..Len(Found) PROVE Found[i] # m
          <6>1. i \in 1..Len(F) /\ Found[i] = F[i].record /\ Found[i] \in Nat
            <7>1. i \in 1..Len(F) /\ i \in 1..GoodOf(F)
              BY <1>2
            <7>2. Found[i] \in 1..MaxRecords
              BY <1>2, ElementOfSeq
            <7> QED BY <1>2, <7>1, <7>2
          <6>2. Found[i] <= logUsed.records
            BY <6>1 DEF LogScans, RecordsKnown
          <6> QED BY <1>2, <6>1, <6>2
        <5> QED BY <5>1
      <4>2. Promised!Add(m)
        BY <1>1, <2>1, <2>2, <2>3, <3>1, <4>1 DEF Promised!Add, Sure
      <4> QED BY <2>1, <4>2 DEF Promised!Next
    <3>2. CASE AppendFails \/ logWriter.torn
      BY <1>1, <2>1, <2>2, <2>3, <3>2 DEF Sure
    <3> QED BY <1>6, <3>1, <3>2
  <2>4. CASE continued' # continued
    <3>1. continued' = TRUE /\ logWriter.torn
      BY <1>2, <2>2, <2>4
    <3>2. Promised!Damage
      BY <1>1, <2>1, <2>2, <3>1 DEF Promised!Damage, Sure
    <3> QED BY <3>2 DEF Promised!Next
  <2> QED BY <2>3, <2>4
<1>7. CASE SyncLog
  <2>1. logWriter.up /\ committed' = written /\ UNCHANGED <<logFile, target, continued>>
    BY <1>7 DEF SyncLog
  <2>2. Found' = Found
    BY <2>1 DEF Found
  <2>3. CASE continued
    BY <1>1, <2>1, <2>2, <2>3 DEF Sure
  <2>4. CASE ~continued
    <3>1. written = Found
      BY <2>1, <2>4 DEF LogScans, LogInv, LogHolds, WriterKnows, Found
    <3>2. Promised!Sync
      BY <1>1, <2>1, <2>2, <2>4, <3>1 DEF Promised!Sync, Sure
    <3> QED BY <3>2 DEF Promised!Next
  <2> QED BY <2>3, <2>4
<1>8. CASE PublishTarget
  <2>1. Found' = Found /\ target' = Found /\ UNCHANGED <<committed, continued>>
    BY <1>1, <1>8 DEF PublishTarget, Found
  <2>2. Promised!MakeCopy
    BY <1>1, <2>1 DEF Promised!MakeCopy, Sure
  <2> QED BY <2>2 DEF Promised!Next
<1>9. CASE PowerFails
  <2>1. PICK n \in 0..GoodOf(F) : GoodOf(G) = n /\ RecordsOf(G) = SubSeq(RecordsOf(F), 1, n)
    BY <1>9, PowerScans
  <2>2. Found' = SubSeq(Found, 1, n) /\ UNCHANGED <<committed, target, continued>>
    BY <1>2, <1>9, <2>1 DEF PowerFails, Found
  <2>3. n \in Len(Sure)..Len(Found)
    <3>1. Len(Sure) \in Nat /\ Len(Sure) <= n
      <4>1. CASE continued
        <5>1. Sure = <<>>
          BY <4>1 DEF Sure
        <5> QED BY <2>1, <5>1
      <4>2. CASE ~continued
        <5>1. Sure = committed /\ ~continued'
          BY <2>2, <4>2 DEF Sure
        <5>2. Len(committed') <= GoodOf(G)
          BY <5>1 DEF LogScans, LogInv, LogHolds, Covers
        <5> QED BY <1>2, <2>1, <2>2, <5>1, <5>2
      <4> QED BY <4>1, <4>2
    <3> QED BY <1>2, <2>1, <3>1
  <2>4. Promised!Lose(n)
    BY <1>1, <2>2 DEF Promised!Lose, Sure
  <2>5. n \in Len(IF continued THEN <<>> ELSE committed)..Len(Recovered)
    BY <1>1, <2>3 DEF Sure
  <2> QED BY <2>4, <2>5 DEF Promised!Next
<1>10. CASE HeaderFails \/ PublishFails \/ CloseLog \/ ExitLog \/ CompactLog \/ RotateLogKey
  BY <1>3, <1>10 DEF HeaderFails, PublishFails, CloseLog, ExitLog, CompactLog, RotateLogKey
<1>11. CASE UNCHANGED vars_sl
  BY <1>3, <1>11 DEF vars_sl
<1> QED BY <1>4, <1>5, <1>6, <1>7, <1>8, <1>9, <1>10, <1>11 DEF LogNext

\* The log implements what SyncedLog promises: an append adds its record and no other,
\* a scan that cuts off a torn tail, a copy or a failure changes nothing a reader finds
\* but the end that was not synced, and a sync covers all of it.
THEOREM LogRefinement == LogSpec => ImplementsSyncedLog
<1>1. LogInit => Promised!Init
  <2> SUFFICES ASSUME LogInit PROVE Promised!Init
    OBVIOUS
  <2>1. logFile.frames = <<>> /\ committed = <<>> /\ target = NoTarget /\ continued = FALSE
    BY DEF LogInit
  <2>2. Recovered = <<>>
    BY <2>1, ScanIsGood, EmptyLog
  <2> QED BY <2>1, <2>2 DEF Promised!Init
<1> QED BY <1>1, LogAlwaysScans, LogImplements, PTL DEF LogSpec, ImplementsSyncedLog, Promised!Spec

(*****************************************************************************)
(* SealedFile.                                                               *)
(*****************************************************************************)

LEMMA BytesAre ==
    ASSUME NEW a \in Nat, NEW n \in Nat
    PROVE  /\ Bytes(a, n) \in Seq(Nat) /\ Len(Bytes(a, n)) = n
           /\ \A i \in 1..n : Bytes(a, n)[i] = a + i - 1
<1>1. \A i \in 1..n : a + i - 1 \in Nat
  OBVIOUS
<1>2. Bytes(a, n) \in Seq(Nat)
  BY <1>1 DEF Bytes
<1>3. Len(Bytes(a, n)) = n
  BY DEF Bytes
<1> QED BY <1>2, <1>3 DEF Bytes

LEMMA BytesEqual ==
    ASSUME NEW a \in Nat, NEW n \in Nat, NEW s \in Seq(Nat), Len(s) = n,
           \A i \in 1..n : s[i] = a + i - 1
    PROVE  s = Bytes(a, n)
<1>1. /\ Bytes(a, n) \in Seq(Nat) /\ Len(Bytes(a, n)) = n
      /\ \A i \in 1..n : Bytes(a, n)[i] = a + i - 1
  BY BytesAre
<1>2. Len(s) = Len(Bytes(a, n)) /\ \A i \in 1..Len(s) : s[i] = Bytes(a, n)[i]
  BY <1>1
<1> HIDE DEF Bytes
<1> QED BY <1>1, <1>2, SeqEqual

LEMMA BytesJoin ==
    ASSUME NEW a \in Nat, NEW n \in Nat, NEW m \in Nat
    PROVE  Bytes(a, n) \o Bytes(a + n, m) = Bytes(a, n + m)
<1> DEFINE x == Bytes(a, n)
           y == Bytes(a + n, m)
<1>1. /\ x \in Seq(Nat) /\ Len(x) = n /\ \A i \in 1..n : x[i] = a + i - 1
  BY BytesAre
<1>2. /\ y \in Seq(Nat) /\ Len(y) = m /\ \A i \in 1..m : y[i] = (a + n) + i - 1
  <2>1. a + n \in Nat
    OBVIOUS
  <2> QED BY <2>1, BytesAre
<1> HIDE DEF x, y
<1>3. /\ x \o y \in Seq(Nat) /\ Len(x \o y) = n + m
      /\ \A i \in 1..(n + m) : (x \o y)[i] = IF i <= n THEN x[i] ELSE y[i - n]
  BY <1>1, <1>2, ConcatProperties, ZenonT(60)
<1>4. ASSUME NEW i \in 1..(n + m) PROVE (x \o y)[i] = a + i - 1
  <2>1. CASE i <= n
    BY <1>1, <1>3, <2>1
  <2>2. CASE ~(i <= n)
    <3>1. i - n \in 1..m
      BY <2>2
    <3>2. y[i - n] = (a + n) + (i - n) - 1
      BY <1>2, <3>1
    <3> QED BY <1>3, <2>2, <3>2
  <2> QED BY <2>1, <2>2
<1>5. n + m \in Nat
  OBVIOUS
<1>6. x \o y = Bytes(a, n + m)
  BY <1>3, <1>4, <1>5, BytesEqual
<1> QED BY <1>6 DEF x, y

CutOf(s, p, q) == SubSeq(s, p, q)
LEMMA BytesCut ==
    ASSUME NEW a \in Nat, NEW n \in Nat, NEW w \in Nat, NEW t \in Nat, w + t <= n
    PROVE  CutOf(Bytes(a, n), w + 1, w + t) = Bytes(a + w, t)
<1> DEFINE x == Bytes(a, n)
           y == SubSeq(x, w + 1, w + t)
<1>1. /\ x \in Seq(Nat) /\ Len(x) = n /\ \A i \in 1..n : x[i] = a + i - 1
  BY BytesAre
<1> HIDE DEF x
<1>2. /\ w + 1 \in Int /\ w + t \in Int /\ \A i \in (w + 1)..(w + t) : x[i] \in Nat
  <2>1. ASSUME NEW i \in (w + 1)..(w + t) PROVE x[i] \in Nat
    <3>1. i \in 1..n
      OBVIOUS
    <3> QED BY <1>1, <3>1
  <2> QED BY <2>1
<1>3. /\ y \in Seq(Nat)
      /\ Len(y) = IF w + 1 <= w + t THEN (w + t) - (w + 1) + 1 ELSE 0
      /\ \A i \in 1..((w + t) - (w + 1) + 1) : y[i] = x[(w + 1) + i - 1]
  BY <1>2, SubSeqProperties
<1>4. Len(y) = t
  BY <1>3
<1>5. ASSUME NEW i \in 1..t PROVE y[i] = (a + w) + i - 1
  <2>1. i \in 1..((w + t) - (w + 1) + 1) /\ (w + 1) + i - 1 \in 1..n
    OBVIOUS
  <2>2. y[i] = x[(w + 1) + i - 1]
    BY <1>3, <2>1
  <2> HIDE DEF y
  <2>3. x[(w + 1) + i - 1] = a + ((w + 1) + i - 1) - 1
    BY <1>1, <2>1
  <2> QED BY <2>2, <2>3
<1> HIDE DEF y
<1>6. a + w \in Nat
  OBVIOUS
<1>7. y = Bytes(a + w, t)
  BY <1>3, <1>4, <1>5, <1>6, BytesEqual
<1> QED BY <1>7 DEF x, y, CutOf

-----------------------------------------------------------------------------
(* The chunks of a file: what the writer leaves, and what a reader finds.    *)

ReaderState == {"none", "open", "range", "refused", "broken"}
Reader == [state: ReaderState, chunks: Nat, length: Nat, at: Nat, cached: Nat \cup {NoChunk},
           start: Nat, stop: Nat]

\* Chunk number i - 1: its plaintext is the run of bytes from its place on, a full
\* one unless it is the last.
ChunkIs(x, i) ==
  /\ x.no = i - 1
  /\ x.data = Bytes((i - 1) * ChunkSize, Len(x.data)) /\ Len(x.data) <= ChunkSize
  /\ ~x.last => Len(x.data) = ChunkSize
ChunksAre(f) == \A i \in 1..Len(f) : ChunkIs(f[i], i) /\ (f[i].last => i = Len(f))
Finished(f) == f # <<>> /\ f[Len(f)].last
Written(f) == (Len(f) - 1) * ChunkSize + Len(f[Len(f)].data)

LEMMA ChunkTypes ==
    ASSUME NEW f \in Seq(Chunk), ChunksAre(f), NEW i \in 1..Len(f)
    PROVE  /\ f[i] \in Chunk /\ f[i].no \in Nat /\ f[i].last \in BOOLEAN /\ f[i].data \in Seq(Nat)
           /\ Len(f[i].data) \in Nat /\ Len(f[i].data) <= ChunkSize
           /\ f[i].data = Bytes((i - 1) * ChunkSize, Len(f[i].data))
           /\ f[i].no = i - 1 /\ (~f[i].last => Len(f[i].data) = ChunkSize)
           /\ (f[i].last => i = Len(f))
<1>1. f[i] \in Chunk
  BY ElementOfSeq
<1>2. f[i].no \in Nat /\ f[i].last \in BOOLEAN /\ f[i].data \in Seq(Nat)
  BY <1>1 DEF Chunk
<1>3. Len(f[i].data) \in Nat
  BY <1>2
<1> QED BY <1>1, <1>2, <1>3 DEF ChunksAre, ChunkIs

\* A reader only opens a file whose last chunk, sealed as the last, is where the
\* size says: the whole of a finished file.
LEMMA OpensWhole ==
    ASSUME sink \in Seq(Chunk), ChunksAre(sink), size \in Nat, Shape.chunks > 0,
           Loads(Shape, Shape.chunks - 1)
    PROVE  /\ Finished(sink) /\ Shape.chunks = Len(sink) /\ Shape.length = Written(sink)
           /\ Len(sink) \in Nat
<1> DEFINE full == size \div SealedChunk
           rem == size % SealedChunk
           c == Shape.chunks
           l == Shape.length
<1>1. ChunkSize \in Nat \ {0} /\ TagLen \in Nat \ {0} /\ SealedChunk \in Nat \ {0}
  BY FileBounds DEF SealedChunk
<1>2. full \in Nat /\ rem \in Nat
  BY <1>1, DivIs, DivMod
<1>3. full * ChunkSize \in Nat
  BY <1>1, <1>2, MulAdd
<1>4. Shape = IF rem = 0 THEN [chunks |-> full, length |-> full * ChunkSize]
              ELSE IF rem < TagLen THEN [chunks |-> 0, length |-> 0]
              ELSE [chunks |-> full + 1, length |-> full * ChunkSize + rem - TagLen]
  BY DEF Shape
<1> HIDE DEF full, rem
<1>5. c \in Nat /\ l \in Int
  <2>1. CASE rem = 0
    BY <1>2, <1>3, <1>4, <2>1
  <2>2. CASE rem # 0 /\ rem < TagLen
    BY <1>2, <1>3, <1>4, <2>2
  <2>3. CASE rem # 0 /\ ~(rem < TagLen)
    <3>1. c = full + 1 /\ l = full * ChunkSize + rem - TagLen
      BY <1>4, <2>3
    <3> QED BY <1>1, <1>2, <1>3, <3>1
  <2> QED BY <2>1, <2>2, <2>3
<1>6. c - 1 < Len(sink) /\ c > 0
      /\ SealedSize(sink[c]) = l - (c - 1) * ChunkSize + TagLen /\ sink[c].last
  <2>1. (c - 1) + 1 = c
    BY <1>5
  <2> QED BY <2>1 DEF Loads
<1> HIDE DEF c, l
<1>7. c \in 1..Len(sink) /\ Len(sink) \in Nat
  <2>1. Len(sink) \in Nat
    OBVIOUS
  <2> QED BY <1>5, <1>6, <2>1
<1>8. c = Len(sink) /\ Len(sink[c].data) \in Nat
  BY <1>6, <1>7, ChunkTypes
<1>9. (c - 1) * ChunkSize \in Nat
  <2>1. c - 1 \in Nat
    BY <1>7
  <2> QED BY <1>1, <2>1, MulAdd
<1>10. l = (c - 1) * ChunkSize + Len(sink[c].data)
  <2> DEFINE d == Len(sink[c].data)
             k == (c - 1) * ChunkSize
  <2>1. d + TagLen = l - k + TagLen
    BY <1>6 DEF SealedSize
  <2>2. d \in Nat /\ k \in Nat
    BY <1>8, <1>9
  <2> HIDE DEF d, k
  <2>3. l = k + d
    BY <1>1, <1>5, <2>1, <2>2
  <2> QED BY <2>3 DEF d, k
<1>11. sink # <<>>
  BY <1>7
<1> QED BY <1>6, <1>7, <1>8, <1>10, <1>11 DEF Finished, Written, c, l

\* A position before the end of a finished file lies in a chunk that loads, and
\* what is read there is what was written there.
LEMMA ReadsWhatWasWritten ==
    ASSUME sink \in Seq(Chunk), ChunksAre(sink), Finished(sink),
           NEW shape, shape.chunks = Len(sink), shape.length = Written(sink),
           NEW position \in Nat, position < Written(sink), NEW most \in Nat
    PROVE  /\ Loads(shape, position \div ChunkSize)
           /\ \E take \in Nat : take <= most /\ ReadAt(position, most) = Bytes(position, take)
<1> DEFINE no == position \div ChunkSize
           K == Len(sink)
           k == no * ChunkSize
           d == Len(sink[no + 1].data)
           within == position - no * ChunkSize
           z == Len(sink[Len(sink)].data)
           j == (Len(sink) - 1) * ChunkSize
<1>1. ChunkSize \in Nat \ {0} /\ TagLen \in Nat \ {0} /\ SealedChunk \in Nat \ {0}
  BY FileBounds DEF SealedChunk
<1>2. K \in Nat /\ K # 0
  BY DEF Finished
<1>3. z \in Nat /\ z <= ChunkSize
  <2>1. Len(sink) \in 1..Len(sink)
    BY <1>2
  <2> QED BY <2>1, ChunkTypes
<1>4. no \in Nat /\ k \in Nat /\ k <= position /\ position < k + ChunkSize
  BY <1>1, DivIs
<1>5. j \in Nat /\ K * ChunkSize = j + ChunkSize /\ K * ChunkSize \in Nat
  <2> DEFINE i == K - 1
  <2>1. i \in Nat /\ i + 1 = K
    BY <1>2
  <2>2. (i + 1) * ChunkSize = i * ChunkSize + ChunkSize /\ i * ChunkSize \in Nat
    BY <1>1, <2>1, MulAdd
  <2> QED BY <1>1, <2>1, <2>2
<1>6. position < j + z
  BY DEF Written
<1>7. no < K
  <2>1. k < K * ChunkSize
    <3> HIDE DEF k, j, z, K
    <3> QED BY <1>1, <1>3, <1>4, <1>5, <1>6
  <2> QED BY <1>1, <1>2, <1>4, <2>1, MulLess
<1>8. no + 1 \in 1..K
  BY <1>2, <1>4, <1>7
<1>9. /\ d \in Nat /\ d <= ChunkSize /\ sink[no + 1].data = Bytes(((no + 1) - 1) * ChunkSize, d)
      /\ sink[no + 1].no = (no + 1) - 1 /\ (~sink[no + 1].last => d = ChunkSize)
      /\ (sink[no + 1].last => no + 1 = K) /\ sink[no + 1].last \in BOOLEAN
  BY <1>8, ChunkTypes
<1>10. no + 1 - 1 = no
  BY <1>4
<1>11. sink[no + 1].data = Bytes(k, d) /\ sink[no + 1].no = no
  <2> HIDE DEF no, d
  <2>1. ((no + 1) - 1) * ChunkSize = no * ChunkSize
    BY <1>1, <1>4, <1>10
  <2>2. Bytes(((no + 1) - 1) * ChunkSize, d) = Bytes(no * ChunkSize, d)
    BY <2>1
  <2> QED BY <1>1, <1>4, <1>9, <1>10, <2>2
<1>12. no + 1 = K => k = j /\ d = z /\ sink[no + 1].last
  <2>1. ASSUME no + 1 = K PROVE k = j /\ d = z /\ sink[no + 1].last
    <3>1. no = Len(sink) - 1
      BY <1>2, <1>4, <2>1
    <3> QED BY <2>1, <3>1 DEF Finished
  <2> QED BY <2>1
<1>13. shape.chunks = K /\ shape.length = j + z
  BY DEF Written
<1>14. SealedSize(sink[no + 1]) = d + TagLen
  BY DEF SealedSize
<1>15. sink[no + 1].data \in Seq(Nat)
  BY <1>8, ChunkTypes
<1> HIDE DEF K, z, j
<1>16. Loads(shape, no)
  <2>1. CASE no + 1 = K
    <3>1. shape.length - k + TagLen = d + TagLen
      <4>1. j \in Nat /\ z \in Nat /\ k = j /\ d = z /\ shape.length = j + z
        BY <1>3, <1>5, <1>12, <1>13, <2>1
      <4>2. TagLen \in Nat
        BY <1>1
      <4> HIDE DEF k, d, no
      <4> QED BY <4>1, <4>2
    <3> QED BY <1>7, <1>11, <1>12, <1>13, <1>14, <2>1, <3>1 DEF Loads, K
  <2>2. CASE no + 1 # K
    <3>1. ~sink[no + 1].last /\ d = ChunkSize
      BY <1>9, <2>2
    <3>2. SealedSize(sink[no + 1]) = SealedChunk
      BY <1>1, <1>14, <3>1 DEF SealedChunk
    <3>3. no + 1 # shape.chunks /\ sink[no + 1].last = FALSE
      BY <1>9, <1>13, <2>2, <3>1
    <3>4. no < Len(sink) /\ sink[no + 1].no = no
      BY <1>7, <1>11 DEF K
    <3> HIDE DEF no
    <3> QED BY <3>2, <3>3, <3>4 DEF Loads
  <2> QED BY <2>1, <2>2
<1>17. within \in Nat /\ position = k + within /\ within < d
  <2>1. within = position - k
    OBVIOUS
  <2> HIDE DEF within, k, d
  <2>2. within \in Nat /\ position = k + within /\ within < ChunkSize
    BY <1>1, <1>4, <2>1
  <2>3. CASE d = ChunkSize
    BY <2>2, <2>3
  <2>4. CASE no + 1 = K
    BY <1>3, <1>4, <1>5, <1>6, <1>9, <1>12, <2>2, <2>4
  <2> QED BY <1>9, <2>2, <2>3, <2>4
<1> DEFINE take == IF most < d - within THEN most ELSE d - within
<1>18. take \in Nat /\ take <= most /\ within + take <= d
  <2>1. d \in Nat /\ within \in Nat /\ within < d
    BY <1>9, <1>17
  <2> HIDE DEF within, d
  <2> QED BY <2>1
<1>19. ReadAt(position, most) = CutOf(sink[no + 1].data, within + 1, within + take)
  BY DEF ReadAt, CutOf
<1> HIDE DEF within, take, d, k, no
<1>20. CutOf(Bytes(k, d), within + 1, within + take) = Bytes(k + within, take)
  <2>1. k \in Nat /\ d \in Nat /\ within \in Nat /\ take \in Nat /\ within + take <= d
    BY <1>4, <1>9, <1>17, <1>18
  <2> QED BY <2>1, BytesCut
<1>21. ReadAt(position, most) = Bytes(position, take)
  BY <1>11, <1>17, <1>19, <1>20
<1> QED BY <1>16, <1>18, <1>21 DEF no

-----------------------------------------------------------------------------
(* Sealed file: the inductive invariant.                                     *)

FileTyped ==
  /\ sink \in Seq(Chunk)
  /\ buffer \in Seq(Nat) /\ Len(buffer) <= ChunkSize
  /\ ahead \in 0..MaxPlain /\ plain \in 0..MaxPlain
  /\ size \in Nat \cup {-1}
  /\ reader \in Reader /\ got \in Seq(Nat)
\* What the writer holds: the buffer is the run after the sealed chunks, and with
\* the bytes ahead it makes up the plaintext; a finished file is all of it.
WriterHolds ==
  /\ Writing => ~Finished(sink) /\ reader.state = "none"
  /\ Writing =>
       /\ buffer = Bytes(Len(sink) * ChunkSize, Len(buffer))
       /\ Len(sink) * ChunkSize + Len(buffer) + ahead = plain
  /\ Finished(sink) => plain = Written(sink)
\* What the reader holds: of an open file the whole shape, and the run it read.
ReaderHolds ==
  /\ reader.state \in {"none", "refused"} => reader.start = 0 /\ got = <<>>
  /\ reader.state = "none" => reader = NotOpened
  /\ reader.state # "broken"
  /\ reader.state \in {"open", "range"} =>
       Finished(sink) /\ reader.chunks = Len(sink) /\ reader.length = plain
  /\ got = Bytes(reader.start, Len(got))
  /\ reader.state = "open" => reader.start + Len(got) = reader.stop
  /\ reader.state = "range" =>
       /\ reader.start + Len(got) <= reader.stop
       /\ reader.stop <= plain \/ reader.start + Len(got) = reader.stop
FileInv == FileTyped /\ ChunksAre(sink) /\ WriterHolds /\ ReaderHolds

LEMMA ReaderTyped ==
    ASSUME reader \in Reader
    PROVE  /\ reader.state \in ReaderState /\ reader.chunks \in Nat /\ reader.length \in Nat
           /\ reader.at \in Nat /\ reader.cached \in Nat \cup {NoChunk}
           /\ reader.start \in Nat /\ reader.stop \in Nat
  BY DEF Reader

LEMMA NoBytes == \A a \in Nat : Bytes(a, 0) = <<>>
<1> TAKE a \in Nat
<1>1. Bytes(a, 0) \in Seq(Nat) /\ Len(Bytes(a, 0)) = 0
  BY BytesAre
<1> HIDE DEF Bytes
<1> QED BY <1>1

LEMMA FileInvInit == FileInit => FileInv
<1> SUFFICES ASSUME FileInit PROVE FileInv
  OBVIOUS
<1>1. NotOpened \in Reader
  BY DEF NotOpened, Reader, ReaderState
<1>2. Len(sink) = 0 /\ Len(buffer) = 0 /\ Len(got) = 0 /\ sink = <<>> /\ buffer = <<>> /\ got = <<>>
      /\ ahead = 0 /\ plain = 0 /\ size = -1 /\ reader = NotOpened
  BY DEF FileInit
<1>3. FileTyped
  BY <1>1, <1>2, FileBounds DEF FileTyped
<1>4. ChunksAre(sink) /\ ~Finished(sink)
  BY <1>2 DEF ChunksAre, Finished
<1>5. Bytes(0, 0) = <<>> /\ Bytes(Len(sink) * ChunkSize, 0) = <<>>
  <2>1. Len(sink) * ChunkSize \in Nat
    BY <1>2, FileBounds, MulAdd
  <2> QED BY <2>1, NoBytes
<1>6. reader.state = "none" /\ reader.start = 0
  BY <1>2 DEF NotOpened
<1>7. WriterHolds
  <2>1. Len(sink) * ChunkSize = 0
    BY <1>2, FileBounds
  <2> QED BY <1>2, <1>4, <1>5, <1>6, <2>1 DEF WriterHolds
<1>8. ReaderHolds
  BY <1>2, <1>5, <1>6 DEF ReaderHolds
<1> QED BY <1>3, <1>4, <1>7, <1>8 DEF FileInv

\* Sealing one chunk more, the buffer's bytes in their place.
LEMMA SealKeepsChunks ==
    ASSUME NEW f \in Seq(Chunk), ChunksAre(f), ~Finished(f),
           NEW x \in Chunk, ChunkIs(x, Len(f) + 1)
    PROVE  /\ Append(f, x) \in Seq(Chunk) /\ ChunksAre(Append(f, x))
           /\ Len(Append(f, x)) = Len(f) + 1
           /\ Finished(Append(f, x)) <=> x.last
           /\ Written(Append(f, x)) = Len(f) * ChunkSize + Len(x.data)
<1> DEFINE g == Append(f, x)
<1>1. Len(f) \in Nat
  OBVIOUS
<1>3. /\ g \in Seq(Chunk) /\ g # <<>> /\ Len(g) = Len(f) + 1
      /\ \A i \in 1..Len(f) : g[i] = f[i]
      /\ g[Len(f) + 1] = x
  BY AppendProperties
<1> HIDE DEF g
<1>4. ASSUME NEW i \in 1..Len(g) PROVE ChunkIs(g[i], i) /\ (g[i].last => i = Len(g))
  <2>1. CASE i \in 1..Len(f)
    <3>1. g[i] = f[i] /\ ChunkIs(f[i], i) /\ (f[i].last => i = Len(f))
      BY <1>3, <2>1 DEF ChunksAre
    <3>2. ~f[i].last
      <4>1. f # <<>>
        BY <1>1, <2>1
      <4> QED BY <3>1, <4>1 DEF Finished
    <3> QED BY <3>1, <3>2
  <2>2. CASE i = Len(f) + 1
    BY <1>3, <2>2
  <2> QED BY <1>1, <1>3, <2>1, <2>2
<1>5. ChunksAre(g)
  BY <1>4 DEF ChunksAre
<1>6. Len(g) - 1 = Len(f) /\ g[Len(g)] = x
  BY <1>1, <1>3
<1>7. (Finished(g) <=> x.last) /\ Written(g) = Len(f) * ChunkSize + Len(x.data)
  BY <1>3, <1>6 DEF Finished, Written
<1> QED BY <1>3, <1>5, <1>7 DEF g

\* The chunk the writer seals: the buffer, in its place.
LEMMA SealedBuffer ==
    ASSUME NEW b \in Seq(Nat), NEW k \in Nat, b = Bytes(k * ChunkSize, Len(b)), Len(b) <= ChunkSize
    PROVE  /\ [no |-> k, last |-> TRUE, data |-> b] \in Chunk
           /\ ChunkIs([no |-> k, last |-> TRUE, data |-> b], k + 1)
           /\ Len(b) = ChunkSize =>
                /\ [no |-> k, last |-> FALSE, data |-> b] \in Chunk
                /\ ChunkIs([no |-> k, last |-> FALSE, data |-> b], k + 1)
<1>1. (k + 1) - 1 = k
  OBVIOUS
<1> QED BY <1>1 DEF Chunk, ChunkIs

LEMMA FileFacts ==
    ASSUME FileInv
    PROVE  /\ ChunkSize \in Nat \ {0} /\ TagLen \in Nat \ {0} /\ MaxPlain \in Nat
           /\ Len(sink) \in Nat /\ Len(buffer) \in Nat /\ Len(got) \in Nat
           /\ Len(sink) * ChunkSize \in Nat
           /\ ahead \in Nat /\ plain \in Nat
<1>1. ChunkSize \in Nat \ {0} /\ TagLen \in Nat \ {0} /\ MaxPlain \in Nat
  BY FileBounds
<1>2. Len(sink) \in Nat /\ Len(buffer) \in Nat /\ Len(got) \in Nat /\ ahead \in Nat /\ plain \in Nat
  BY <1>1 DEF FileInv, FileTyped
<1> QED BY <1>1, <1>2, MulAdd

\* Neither the reader nor the chunks are touched by a call that only writes.
LEMMA WritePlainKeeps ==
    ASSUME FileInv, NEW n \in 1..MaxPlain, WritePlain(n) PROVE FileInv'
<1>1. /\ Writing /\ ahead = 0 /\ plain + n <= MaxPlain /\ ahead' = n /\ plain' = plain + n
      /\ UNCHANGED <<sink, buffer, size, reader, got>>
  BY DEF WritePlain
<1>2. FileTyped'
  BY <1>1, FileFacts DEF FileInv, FileTyped
<1>3. ChunksAre(sink)'
  BY <1>1 DEF FileInv
<1>4. ~Finished(sink) /\ reader.state = "none"
  BY <1>1 DEF FileInv, WriterHolds
<1>5. WriterHolds'
  BY <1>1, <1>4, FileFacts DEF FileInv, WriterHolds, Writing
<1>6. ReaderHolds'
  BY <1>1, <1>4 DEF FileInv, ReaderHolds
<1> QED BY <1>2, <1>3, <1>5, <1>6 DEF FileInv

LEMMA TakeBytesKeeps ==
    ASSUME FileInv, TakeBytes PROVE FileInv'
<1> DEFINE full == Len(buffer) = ChunkSize
           kept == IF Len(buffer) = ChunkSize THEN <<>> ELSE buffer
           room == ChunkSize - Len(kept)
           take == IF room < ahead THEN room ELSE ahead
           k == Len(sink')
           at == plain - ahead
<1>1. /\ Writing /\ ahead > 0 /\ buffer' = kept \o Bytes(at, take) /\ ahead' = ahead - take
      /\ UNCHANGED <<plain, size, reader, got>>
      /\ full => SealChunk(FALSE)
      /\ ~full => sink' = sink
  BY DEF TakeBytes
<1>2. /\ ~Finished(sink) /\ reader.state = "none" /\ buffer \in Seq(Nat) /\ Len(buffer) <= ChunkSize
      /\ buffer = Bytes(Len(sink) * ChunkSize, Len(buffer)) /\ sink \in Seq(Chunk) /\ ChunksAre(sink)
      /\ Len(sink) * ChunkSize + Len(buffer) + ahead = plain
  BY <1>1 DEF FileInv, FileTyped, WriterHolds
<1>3. kept \in Seq(Nat) /\ Len(kept) \in Nat /\ Len(kept) < ChunkSize
  <2>1. ChunkSize \in Nat /\ ChunkSize > 0
    BY FileFacts
  <2>2. buffer \in Seq(Nat) /\ Len(buffer) \in Nat /\ Len(buffer) <= ChunkSize
    BY <1>2
  <2>3. <<>> \in Seq(Nat) /\ Len(<<>>) = 0
    OBVIOUS
  <2>4. CASE full
    BY <2>1, <2>3, <2>4
  <2>5. CASE ~full
    BY <2>1, <2>2, <2>5
  <2> QED BY <2>4, <2>5
<1>4. room \in Nat /\ room > 0 /\ take \in Nat /\ take > 0 /\ take <= ahead /\ Len(kept) + take <= ChunkSize
  <2>1. ChunkSize \in Nat /\ ahead \in Nat /\ ahead > 0
    BY <1>1, FileFacts
  <2> DEFINE n == Len(kept)
  <2>2. n \in Nat /\ n < ChunkSize /\ room = ChunkSize - n
    BY <1>3
  <2> HIDE DEF n, room
  <2>3. room \in Nat /\ room > 0 /\ n + room = ChunkSize
    BY <2>1, <2>2
  <2>4. take \in Nat /\ take > 0 /\ take <= ahead /\ n + take <= ChunkSize
    BY <2>1, <2>2, <2>3
  <2> QED BY <2>3, <2>4 DEF n
<1>5. /\ sink' \in Seq(Chunk) /\ ChunksAre(sink') /\ ~Finished(sink')
      /\ k * ChunkSize + Len(kept) + ahead = plain /\ k \in Nat /\ k * ChunkSize \in Nat
      /\ kept = Bytes(k * ChunkSize, Len(kept))
  <2>1. CASE full
    <3>1. sink' = Append(sink, [no |-> Len(sink), last |-> FALSE, data |-> buffer])
      BY <1>1, <2>1 DEF SealChunk
    <3>2. sink' \in Seq(Chunk) /\ ChunksAre(sink') /\ k = Len(sink) + 1 /\ ~Finished(sink')
      <4> DEFINE x == [no |-> Len(sink), last |-> FALSE, data |-> buffer]
      <4>1. x \in Chunk /\ ChunkIs(x, Len(sink) + 1) /\ ~x.last
        BY <1>2, <2>1, FileFacts, SealedBuffer
      <4>2. sink' = Append(sink, x)
        BY <3>1
      <4> HIDE DEF x
      <4> QED BY <1>2, <4>1, <4>2, SealKeepsChunks
    <3>3. k \in Nat /\ k * ChunkSize = Len(sink) * ChunkSize + ChunkSize /\ k * ChunkSize \in Nat
      <4> DEFINE i == Len(sink)
      <4>1. i \in Nat /\ k = i + 1
        BY <3>2, FileFacts
      <4>2. (i + 1) * ChunkSize = i * ChunkSize + ChunkSize /\ i * ChunkSize \in Nat
        BY <4>1, FileFacts, MulAdd
      <4> HIDE DEF k, i
      <4>3. k \in Nat /\ k * ChunkSize = i * ChunkSize + ChunkSize /\ k * ChunkSize \in Nat
        BY <4>1, <4>2, FileFacts, SMTT(30)
      <4> QED BY <4>3 DEF i
    <3>4. kept = <<>> /\ Len(kept) = 0
      BY <2>1
    <3>5. kept = Bytes(k * ChunkSize, Len(kept))
      BY <3>3, <3>4, NoBytes
    <3> HIDE DEF kept, k
    <3>6. k * ChunkSize + Len(kept) + ahead = plain
      BY <1>2, <2>1, <3>3, <3>4, FileFacts
    <3> QED BY <3>2, <3>3, <3>5, <3>6
  <2>2. CASE ~full
    BY <1>1, <1>2, <2>2, FileFacts
  <2> QED BY <2>1, <2>2
<1> HIDE DEF kept, room, take, full
<1>6. at \in Nat /\ at = k * ChunkSize + Len(kept)
  BY <1>3, <1>5, FileFacts, SMTT(60)
<1>7. buffer' = Bytes(k * ChunkSize, Len(kept) + take)
  <2> DEFINE a == k * ChunkSize
             n == Len(kept)
  <2>1. a \in Nat /\ n \in Nat /\ take \in Nat /\ at = a + n /\ kept = Bytes(a, n)
        /\ buffer' = kept \o Bytes(at, take)
    BY <1>1, <1>3, <1>4, <1>5, <1>6
  <2> HIDE DEF a, n, at
  <2>2. Bytes(a, n) \o Bytes(a + n, take) = Bytes(a, n + take)
    BY <2>1, BytesJoin
  <2>3. buffer' = Bytes(a, n + take)
    BY <2>1, <2>2
  <2> QED BY <2>3 DEF a, n
<1>8. buffer' \in Seq(Nat) /\ Len(buffer') = Len(kept) + take
  <2>1. Len(kept) + take \in Nat
    BY <1>3, <1>4
  <2> QED BY <1>5, <1>7, <2>1, BytesAre
<1>9. FileTyped'
  <2>1. ahead' \in 0..MaxPlain
    <3>1. ahead \in 0..MaxPlain /\ MaxPlain \in Nat
      BY FileFacts DEF FileInv, FileTyped
    <3>2. ahead' = ahead - take /\ take \in Nat /\ take <= ahead
      BY <1>1, <1>4
    <3> QED BY <3>1, <3>2
  <2> QED BY <1>1, <1>4, <1>5, <1>8, <2>1 DEF FileInv, FileTyped
<1>10. Len(sink') * ChunkSize + Len(buffer') + ahead' = plain'
  BY <1>1, <1>3, <1>4, <1>5, <1>8, FileFacts, SMTT(30)
<1>11. WriterHolds'
  BY <1>1, <1>2, <1>5, <1>7, <1>8, <1>10 DEF WriterHolds, Writing
<1>12. ReaderHolds'
  BY <1>1, <1>2 DEF FileInv, ReaderHolds
<1> QED BY <1>5, <1>9, <1>11, <1>12 DEF FileInv

LEMMA FinishFileKeeps ==
    ASSUME FileInv, FinishFile PROVE FileInv'
<1>1. /\ Writing /\ ahead = 0 /\ SealChunk(TRUE) /\ size' = SizeOf(sink') /\ buffer' = <<>>
      /\ UNCHANGED <<ahead, plain, reader, got>>
  BY DEF FinishFile
<1>2. /\ ~Finished(sink) /\ reader.state = "none" /\ buffer \in Seq(Nat) /\ Len(buffer) <= ChunkSize
      /\ buffer = Bytes(Len(sink) * ChunkSize, Len(buffer)) /\ sink \in Seq(Chunk) /\ ChunksAre(sink)
      /\ Len(sink) * ChunkSize + Len(buffer) + ahead = plain
  BY <1>1 DEF FileInv, FileTyped, WriterHolds
<1>3. sink' = Append(sink, [no |-> Len(sink), last |-> TRUE, data |-> buffer])
  BY <1>1 DEF SealChunk
<1>4. /\ sink' \in Seq(Chunk) /\ ChunksAre(sink') /\ Len(sink') = Len(sink) + 1 /\ Finished(sink')
      /\ Written(sink') = Len(sink) * ChunkSize + Len(buffer)
  <2> DEFINE x == [no |-> Len(sink), last |-> TRUE, data |-> buffer]
  <2>1. x \in Chunk /\ ChunkIs(x, Len(sink) + 1) /\ x.last /\ x.data = buffer
    BY <1>2, FileFacts, SealedBuffer
  <2>2. sink' = Append(sink, x)
    BY <1>3
  <2> HIDE DEF x
  <2> QED BY <1>2, <2>1, <2>2, SealKeepsChunks
<1>5. size' \in Nat
  <2> DEFINE k == Len(sink')
             d == Len(sink'[k].data)
  <2>1. k \in 1..k /\ k - 1 \in Nat
    BY <1>4, FileFacts
  <2>2. d \in Nat
    BY <1>4, <2>1, ChunkTypes
  <2>3. ChunkSize + TagLen \in Nat /\ (k - 1) * (ChunkSize + TagLen) \in Nat
    <3>1. ChunkSize + TagLen \in Nat
      BY FileFacts
    <3> DEFINE u == ChunkSize + TagLen
               i == k - 1
    <3>2. u \in Nat /\ i \in Nat
      BY <2>1, <3>1
    <3> HIDE DEF u, i
    <3>3. i * u \in Nat
      BY <3>2, MulAdd
    <3> QED BY <3>1, <3>3 DEF u, i
  <2>4. sink' # <<>>
    BY <1>4 DEF Finished
  <2>5. size' = (k - 1) * (ChunkSize + TagLen) + (d + TagLen)
    BY <1>1, <2>4 DEF SizeOf, SealedSize
  <2> HIDE DEF k, d
  <2> QED BY <2>2, <2>3, <2>5, FileFacts, SMTT(30)
<1>6. Written(sink') = plain'
  BY <1>1, <1>2, <1>4, FileFacts
<1>7. FileTyped'
  BY <1>1, <1>4, <1>5, FileFacts DEF FileInv, FileTyped
<1>8. WriterHolds'
  BY <1>4, <1>5, <1>6 DEF WriterHolds, Writing
<1>9. ReaderHolds'
  BY <1>1, <1>2 DEF FileInv, ReaderHolds
<1> QED BY <1>4, <1>7, <1>8, <1>9 DEF FileInv

LEMMA CutFileKeeps ==
    ASSUME FileInv, NEW n \in 0..SizeOf(sink), CutFile(n) PROVE FileInv'
<1>1. /\ reader.state = "none" /\ size' = n /\ UNCHANGED <<sink, buffer, ahead, plain, reader, got>>
  BY DEF CutFile
<1>2. size' \in Nat
  BY <1>1
<1>3. FileTyped'
  BY <1>1, <1>2 DEF FileInv, FileTyped
<1>4. WriterHolds'
  BY <1>1, <1>2 DEF FileInv, WriterHolds, Writing
<1>5. ReaderHolds'
  BY <1>1 DEF FileInv, ReaderHolds
<1> QED BY <1>1, <1>3, <1>4, <1>5 DEF FileInv

\* The writer's part does not change under a step of the reader.
LEMMA ReaderStepKeeps ==
    ASSUME FileInv, UNCHANGED <<sink, buffer, ahead, plain, size>>, ~Writing,
           reader' \in Reader, got' \in Seq(Nat), ReaderHolds'
    PROVE  FileInv'
<1>1. FileTyped'
  BY DEF FileInv, FileTyped
<1>2. WriterHolds'
  BY DEF FileInv, WriterHolds, Writing
<1> QED BY <1>1, <1>2 DEF FileInv

LEMMA OpenFileKeeps ==
    ASSUME FileInv, OpenFile PROVE FileInv'
<1> DEFINE opens == size >= TagLen /\ Shape.chunks > 0 /\ Loads(Shape, Shape.chunks - 1)
           opened == [NotOpened EXCEPT !.state = "open", !.chunks = Shape.chunks,
                        !.length = Shape.length, !.cached = Shape.chunks - 1]
           refused == [NotOpened EXCEPT !.state = "refused"]
<1>1. /\ ~Writing /\ reader.state = "none" /\ reader' = (IF opens THEN opened ELSE refused)
      /\ UNCHANGED <<sink, buffer, ahead, plain, size, got>>
  BY DEF OpenFile
<1>2. got = <<>> /\ size \in Nat /\ sink \in Seq(Chunk) /\ ChunksAre(sink) /\ got \in Seq(Nat)
  BY <1>1 DEF FileInv, FileTyped, ReaderHolds, Writing
<1>3. got' = Bytes(0, Len(got')) /\ Len(got') = 0
  BY <1>1, <1>2, NoBytes
<1>4. CASE opens
  <2>1. /\ Finished(sink) /\ Shape.chunks = Len(sink) /\ Shape.length = Written(sink)
        /\ Len(sink) \in Nat
    BY <1>2, <1>4, OpensWhole
  <2>2. plain = Written(sink) /\ plain \in Nat
    BY <2>1, FileFacts DEF FileInv, WriterHolds
  <2>3. Shape.chunks - 1 \in Nat
    BY <1>4, <2>1
  <2>4. /\ reader' \in Reader /\ reader'.state = "open" /\ reader'.chunks = Len(sink)
        /\ reader'.length = plain /\ reader'.start = 0 /\ reader'.stop = 0
    <3> DEFINE c == Shape.chunks
               l == Shape.length
               n == c - 1
    <3>1. c = Len(sink) /\ l = plain /\ n \in Nat
      BY <2>1, <2>2, <2>3
    <3>2. reader' = [NotOpened EXCEPT !.state = "open", !.chunks = c, !.length = l, !.cached = n]
      BY <1>1, <1>4
    <3> HIDE DEF c, l, n
    <3>3. reader' = [state |-> "open", chunks |-> c, length |-> l, at |-> 0, cached |-> n,
                     start |-> 0, stop |-> 0]
      BY <3>2 DEF NotOpened
    <3> QED BY <2>1, <2>2, <3>1, <3>3 DEF Reader, ReaderState
  <2>5. ReaderHolds'
    BY <1>1, <1>3, <2>1, <2>4 DEF ReaderHolds
  <2> QED BY <1>1, <1>2, <2>4, <2>5, ReaderStepKeeps
<1>5. CASE ~opens
  <2>1. reader' = [state |-> "refused", chunks |-> 0, length |-> 0, at |-> 0, cached |-> NoChunk,
                   start |-> 0, stop |-> 0]
    <3> HIDE DEF opens, opened
    <3> QED BY <1>1, <1>5 DEF NotOpened
  <2>2. reader' \in Reader /\ reader'.state = "refused" /\ reader'.start = 0
    BY <2>1 DEF Reader, ReaderState
  <2>3. ReaderHolds'
    BY <1>1, <1>2, <1>3, <2>2 DEF ReaderHolds
  <2> QED BY <1>1, <1>2, <2>2, <2>3, ReaderStepKeeps
<1> QED BY <1>4, <1>5

LEMMA BeginRangeKeeps ==
    ASSUME FileInv, NEW from \in Nat, NEW count \in Nat, BeginRange(from, count) PROVE FileInv'
<1> DEFINE stop == IF from + count < reader.length THEN from + count ELSE reader.length
           end == IF from >= stop THEN from ELSE stop
<1>1. /\ reader.state = "open" /\ got' = <<>>
      /\ reader' = [reader EXCEPT !.state = "range", !.start = from, !.stop = end]
      /\ UNCHANGED <<sink, buffer, ahead, plain, size>>
  BY DEF BeginRange
<1>2. reader \in Reader /\ reader.length = plain /\ plain \in Nat /\ ~Writing
      /\ Finished(sink) /\ reader.chunks = Len(sink)
  BY <1>1, FileFacts DEF FileInv, FileTyped, ReaderHolds, WriterHolds
<1>3. end \in Nat /\ from <= end /\ (end <= plain \/ from = end)
  BY <1>2
<1> HIDE DEF end
<1>4. reader' \in Reader
  BY <1>1, <1>2, <1>3 DEF Reader, ReaderState
<1>5. /\ reader'.state = "range" /\ reader'.start = from /\ reader'.stop = end
      /\ reader'.chunks = reader.chunks /\ reader'.length = reader.length
  BY <1>1, <1>2 DEF Reader
<1>6. Len(got') = 0 /\ got' = Bytes(from, Len(got')) /\ got' \in Seq(Nat)
  BY <1>1, NoBytes
<1>7. ReaderHolds'
  BY <1>1, <1>2, <1>3, <1>5, <1>6 DEF ReaderHolds
<1> QED BY <1>1, <1>2, <1>4, <1>6, <1>7, ReaderStepKeeps

LEMMA RangeChunkKeeps ==
    ASSUME FileInv, RangeChunk PROVE FileInv'
<1> DEFINE position == reader.start + Len(got)
           no == position \div ChunkSize
           read == ReadAt(position, reader.stop - position)
           most == reader.stop - position
<1>1. /\ reader.state = "range" /\ position < reader.stop
      /\ UNCHANGED <<sink, buffer, ahead, plain, size>>
      /\ reader.cached = no \/ Loads(Shaped, no) =>
           got' = got \o read /\ reader' = [reader EXCEPT !.cached = no]
  BY DEF RangeChunk
<1>2. /\ reader \in Reader /\ reader.length = plain /\ plain \in Nat /\ ~Writing
      /\ Finished(sink) /\ reader.chunks = Len(sink) /\ sink \in Seq(Chunk) /\ ChunksAre(sink)
      /\ plain = Written(sink) /\ reader.stop <= plain /\ got = Bytes(reader.start, Len(got))
      /\ got \in Seq(Nat) /\ Len(got) \in Nat
  <2>1. reader \in Reader /\ got \in Seq(Nat) /\ sink \in Seq(Chunk) /\ ChunksAre(sink)
    BY DEF FileInv, FileTyped
  <2>2. /\ Finished(sink) /\ reader.length = plain /\ reader.chunks = Len(sink)
        /\ got = Bytes(reader.start, Len(got))
        /\ reader.stop <= plain \/ position = reader.stop
    BY <1>1 DEF FileInv, ReaderHolds
  <2>3. ~Writing /\ plain = Written(sink)
    BY <2>2 DEF FileInv, WriterHolds
  <2>4. reader.stop <= plain
    <3>1. reader.stop \in Nat /\ position \in Nat
      BY <2>1, ReaderTyped, FileFacts, SMTT(30)
    <3> QED BY <1>1, <2>2, <3>1
  <2> QED BY <2>1, <2>2, <2>3, <2>4, FileFacts
<1>3. reader.start \in Nat /\ reader.stop \in Nat
  BY <1>2, ReaderTyped
<1>4. position \in Nat /\ most \in Nat /\ position < Written(sink) /\ position + most = reader.stop
  BY <1>1, <1>2, <1>3
<1>5. Shaped.chunks = Len(sink) /\ Shaped.length = Written(sink)
  BY <1>2 DEF Shaped
<1>6. no \in Nat
  BY <1>4, FileFacts, DivIs
<1>7. /\ Loads(Shaped, no)
      /\ \E take \in Nat : take <= most /\ read = Bytes(position, take)
  <2> DEFINE p == position
             m == most
             s == Shaped
  <2>1. p \in Nat /\ m \in Nat /\ p < Written(sink) /\ s.chunks = Len(sink) /\ s.length = Written(sink)
    BY <1>4, <1>5
  <2> HIDE DEF p, m, s
  <2>2. /\ Loads(s, p \div ChunkSize)
        /\ \E take \in Nat : take <= m /\ ReadAt(p, m) = Bytes(p, take)
    BY <1>2, <2>1, ReadsWhatWasWritten
  <2> QED BY <2>2 DEF p, m, s
<1>8. PICK take \in Nat : take <= most /\ read = Bytes(position, take)
  BY <1>7
<1>9. got' = got \o read /\ reader' = [reader EXCEPT !.cached = no]
  BY <1>1, <1>7
<1> HIDE DEF no, read
<1>10. got' = Bytes(reader.start, Len(got) + take)
  <2>1. Bytes(reader.start, Len(got)) \o Bytes(reader.start + Len(got), take)
          = Bytes(reader.start, Len(got) + take)
    BY <1>2, <1>3, BytesJoin, ZenonT(60)
  <2> QED BY <1>2, <1>8, <1>9, <2>1
<1>11. got' \in Seq(Nat) /\ Len(got') = Len(got) + take
  <2>1. Len(got) + take \in Nat
    BY <1>2
  <2> QED BY <1>3, <1>10, <2>1, BytesAre
<1>12. reader' \in Reader
  <2>1. no \in Nat \cup {NoChunk}
    BY <1>6
  <2> QED BY <1>2, <1>9, <2>1, Zenon DEF Reader
<1>13. /\ reader'.state = "range" /\ reader'.start = reader.start /\ reader'.stop = reader.stop
       /\ reader'.chunks = reader.chunks /\ reader'.length = reader.length
  BY <1>1, <1>2, <1>9 DEF Reader
<1>14. reader.start + (Len(got) + take) <= reader.stop
  BY <1>2, <1>3, <1>4, <1>8
<1>15. ReaderHolds'
  BY <1>1, <1>2, <1>10, <1>11, <1>13, <1>14 DEF ReaderHolds
<1> QED BY <1>1, <1>2, <1>11, <1>12, <1>15, ReaderStepKeeps

LEMMA EndRangeKeeps ==
    ASSUME FileInv, EndRange PROVE FileInv'
<1>1. /\ reader.state = "range" /\ reader.start + Len(got) >= reader.stop
      /\ reader' = [reader EXCEPT !.state = "open"]
      /\ UNCHANGED <<sink, buffer, ahead, plain, size, got>>
  BY DEF EndRange
<1>2. /\ reader \in Reader /\ reader.length = plain /\ ~Writing
      /\ Finished(sink) /\ reader.chunks = Len(sink)
      /\ got \in Seq(Nat) /\ Len(got) \in Nat /\ got = Bytes(reader.start, Len(got))
      /\ reader.start + Len(got) <= reader.stop
  BY <1>1, FileFacts DEF FileInv, FileTyped, ReaderHolds, WriterHolds
<1>3. reader.start + Len(got) = reader.stop
  BY <1>1, <1>2, ReaderTyped, SMTT(30)
<1>4. reader' \in Reader
  <2>1. "open" \in ReaderState
    BY DEF ReaderState
  <2> QED BY <1>1, <1>2, <2>1, Zenon DEF Reader
<1>5. /\ reader'.state = "open" /\ reader'.start = reader.start /\ reader'.stop = reader.stop
      /\ reader'.chunks = reader.chunks /\ reader'.length = reader.length
  BY <1>1, <1>2 DEF Reader
<1>6. ReaderHolds'
  BY <1>1, <1>2, <1>3, <1>5 DEF ReaderHolds
<1> QED BY <1>1, <1>2, <1>4, <1>6, ReaderStepKeeps

LEMMA SeekToKeeps ==
    ASSUME FileInv, NEW position \in Nat, SeekTo(position) PROVE FileInv'
<1>1. /\ reader.state = "open" /\ reader' = [reader EXCEPT !.at = position]
      /\ UNCHANGED <<sink, buffer, ahead, plain, size, got>>
  BY DEF SeekTo
<1>2. /\ reader \in Reader /\ reader.length = plain /\ ~Writing
      /\ Finished(sink) /\ reader.chunks = Len(sink) /\ got \in Seq(Nat)
      /\ got = Bytes(reader.start, Len(got)) /\ reader.start + Len(got) = reader.stop
  BY <1>1 DEF FileInv, FileTyped, ReaderHolds, WriterHolds
<1>3. reader' \in Reader
  BY <1>1, <1>2, Zenon DEF Reader
<1>4. /\ reader'.state = "open" /\ reader'.start = reader.start /\ reader'.stop = reader.stop
      /\ reader'.chunks = reader.chunks /\ reader'.length = reader.length
  BY <1>1, <1>2 DEF Reader
<1>5. ReaderHolds'
  BY <1>1, <1>2, <1>4 DEF ReaderHolds
<1> QED BY <1>1, <1>2, <1>3, <1>5, ReaderStepKeeps

LEMMA ReadSomeKeeps ==
    ASSUME FileInv, NEW most \in Nat, ReadSome(most) PROVE FileInv'
<1> DEFINE position == reader.at
           no == reader.at \div ChunkSize
           read == ReadAt(reader.at, most)
<1>1. /\ reader.state = "open" /\ position < reader.length
      /\ UNCHANGED <<sink, buffer, ahead, plain, size>>
      /\ reader.cached = no \/ Loads(Shaped, no) =>
           /\ got' = read
           /\ reader' = [reader EXCEPT !.cached = no, !.start = reader.at,
                           !.stop = reader.at + Len(got'), !.at = reader.at + Len(got')]
  BY DEF ReadSome
<1>2. /\ reader \in Reader /\ reader.length = plain /\ plain \in Nat /\ ~Writing
      /\ Finished(sink) /\ reader.chunks = Len(sink) /\ sink \in Seq(Chunk) /\ ChunksAre(sink)
      /\ plain = Written(sink)
  BY <1>1, FileFacts DEF FileInv, FileTyped, ReaderHolds, WriterHolds
<1>3. position \in Nat /\ position < Written(sink)
  BY <1>1, <1>2, ReaderTyped
<1>4. Shaped.chunks = Len(sink) /\ Shaped.length = Written(sink)
  BY <1>2 DEF Shaped
<1>5. no \in Nat
  BY <1>3, FileFacts, DivIs
<1>6. /\ Loads(Shaped, no)
      /\ \E take \in Nat : take <= most /\ read = Bytes(position, take)
  <2> DEFINE p == position
             s == Shaped
  <2>1. p \in Nat /\ p < Written(sink) /\ s.chunks = Len(sink) /\ s.length = Written(sink)
    BY <1>3, <1>4
  <2> HIDE DEF p, s
  <2>2. /\ Loads(s, p \div ChunkSize)
        /\ \E take \in Nat : take <= most /\ ReadAt(p, most) = Bytes(p, take)
    BY <1>2, <2>1, ReadsWhatWasWritten
  <2> QED BY <2>2 DEF p, s
<1>7. PICK take \in Nat : take <= most /\ read = Bytes(position, take)
  BY <1>6
<1>8. /\ got' = read
      /\ reader' = [reader EXCEPT !.cached = no, !.start = reader.at,
                      !.stop = reader.at + Len(got'), !.at = reader.at + Len(got')]
  BY <1>1, <1>6
<1>9. got' = Bytes(position, take) /\ got' \in Seq(Nat) /\ Len(got') = take
  BY <1>3, <1>7, <1>8, BytesAre
<1> DEFINE far == reader.at + Len(got')
<1>10. far \in Nat /\ far = position + Len(got')
  BY <1>3, <1>9
<1>11. reader' = [reader EXCEPT !.cached = no, !.start = position, !.stop = far, !.at = far]
  BY <1>8
<1> HIDE DEF no, read, far
<1>12. reader' \in Reader
  BY <1>2, <1>3, <1>5, <1>10, <1>11 DEF Reader
<1>13. /\ reader'.state = "open" /\ reader'.start = position /\ reader'.stop = far
       /\ reader'.chunks = reader.chunks /\ reader'.length = reader.length
  BY <1>1, <1>2, <1>11 DEF Reader
<1>14. ReaderHolds'
  BY <1>1, <1>2, <1>9, <1>10, <1>13 DEF ReaderHolds
<1> QED BY <1>1, <1>2, <1>9, <1>12, <1>14, ReaderStepKeeps

LEMMA FileInvStep == FileInv /\ [FileNext]_vars_sf => FileInv'
<1> SUFFICES ASSUME FileInv, [FileNext]_vars_sf PROVE FileInv'
  OBVIOUS
<1>1. ASSUME NEW n \in 1..MaxPlain, WritePlain(n) PROVE FileInv'
  BY <1>1, WritePlainKeeps
<1>2. ASSUME NEW n \in 1..MaxPlain, ReadSome(n) PROVE FileInv'
  BY <1>2, ReadSomeKeeps
<1>3. CASE TakeBytes
  BY <1>3, TakeBytesKeeps
<1>4. CASE FinishFile
  BY <1>4, FinishFileKeeps
<1>5. CASE OpenFile
  BY <1>5, OpenFileKeeps
<1>6. ASSUME NEW n \in 0..SizeOf(sink), CutFile(n) PROVE FileInv'
  BY <1>6, CutFileKeeps
<1>7. ASSUME NEW from \in 0..(MaxPlain + 1), NEW count \in 0..MaxPlain, BeginRange(from, count)
      PROVE  FileInv'
  BY <1>7, BeginRangeKeeps
<1>8. CASE RangeChunk
  BY <1>8, RangeChunkKeeps
<1>9. CASE EndRange
  BY <1>9, EndRangeKeeps
<1>10. ASSUME NEW position \in 0..MaxPlain, SeekTo(position) PROVE FileInv'
  BY <1>10, SeekToKeeps
<1>11. CASE UNCHANGED vars_sf
  BY <1>11 DEF vars_sf, FileInv, FileTyped, WriterHolds, ReaderHolds, Writing
<1> QED BY <1>1, <1>2, <1>3, <1>4, <1>5, <1>6, <1>7, <1>8, <1>9, <1>10, <1>11 DEF FileNext

LEMMA FileSafe == FileSpec => []FileInv
<1>1. FileInit => FileInv
  BY FileInvInit
<1>2. FileInv /\ [FileNext]_vars_sf => FileInv'
  BY FileInvStep
<1> QED BY <1>1, <1>2, PTL DEF FileSpec

LEMMA FileInvTyped == FileInv => FileTypeOK
<1> SUFFICES ASSUME FileInv PROVE FileTypeOK
  OBVIOUS
<1>1. reader.state \in ReaderState /\ reader.cached \in Nat \cup {NoChunk}
  BY ReaderTyped DEF FileInv, FileTyped
<1> QED BY <1>1 DEF FileInv, FileTyped, FileTypeOK, ReaderState

LEMMA FileInvReads == FileInv => ReadsAreExact
<1> SUFFICES ASSUME FileInv PROVE ReadsAreExact
  OBVIOUS
<1>1. /\ reader.state # "broken" /\ got = Bytes(reader.start, Len(got))
      /\ reader.state = "open" => reader.start + Len(got) = reader.stop
      /\ reader.state \in {"open", "range"} => Finished(sink) /\ reader.length = plain
  BY DEF FileInv, ReaderHolds
<1>2. Finished(sink) => sink # <<>> /\ sink[Len(sink)].last
  BY DEF Finished
<1> QED BY <1>1, <1>2 DEF ReadsAreExact

\* The type invariant of the sealed file.
THEOREM FileTypeCorrect == FileSpec => []FileTypeOK
  BY FileSafe, FileInvTyped, PTL

\* A reader opens only a finished and whole file, and reads exactly what was
\* written, in any ranges, for every chunk size, tag length and plaintext.
THEOREM ReadsAreAlwaysExact == FileSpec => []ReadsAreExact
  BY FileSafe, FileInvReads, PTL

(*****************************************************************************)
(* VectorCache.                                                              *)
(*****************************************************************************)

ContentSizes == (UNION {SizesOf[v] : v \in Vectors}) \cup {NoSize}
Caches == [CacheSlots -> Partition \cup {NoPartition}]

LEMMA CacheFinite ==
    /\ IsFiniteSet(CacheSlots) /\ IsFiniteSet(Vectors) /\ Limit \in Nat /\ MaxUses \in Nat
    /\ NoSize \notin Nat
<1>1. IsFiniteSet(Indexes \X Partitions)
  BY CacheBounds, FS_Product
<1> QED BY <1>1, CacheBounds DEF CacheSlots

LEMMA ContentTyped ==
    ASSUME NEW c \in Contents
    PROVE  /\ c \in [Vectors -> ContentSizes]
           /\ \A v \in Vectors : c[v] # NoSize => c[v] \in SizesOf[v] /\ c[v] \in Nat \ {0}
<1>1. c \in [Vectors -> ContentSizes] /\ \A v \in Vectors : c[v] # NoSize => c[v] \in SizesOf[v]
  BY DEF Contents, ContentSizes
<1>2. \A v \in Vectors : SizesOf[v] \subseteq Nat \ {0}
  BY CacheBounds
<1> QED BY <1>1, <1>2

LEMMA ContentSized ==
    ASSUME NEW c \in Contents PROVE Sized(c, Filled(c)) /\ BytesOf(c) \in Nat
<1>1. Filled(c) \in SUBSET Vectors /\ \A v \in Filled(c) : c[v] \in Nat
  BY ContentTyped DEF Filled
<1>2. Sized(c, Filled(c))
  BY <1>1, CacheFinite, FS_Subset DEF Sized
<1> QED BY <1>2, UnitsFinite DEF BytesOf

\* A vector put into a partition's content, and one taken out.
LEMMA ContentPut ==
    ASSUME NEW c \in Contents, NEW v \in Vectors, NEW extent \in SizesOf[v]
    PROVE  /\ [c EXCEPT ![v] = extent] \in Contents
           /\ BytesOf([c EXCEPT ![v] = extent])
                = BytesOf(c) - (IF c[v] = NoSize THEN 0 ELSE c[v]) + extent
           /\ BytesOf(c) - (IF c[v] = NoSize THEN 0 ELSE c[v]) \in Nat /\ extent \in Nat
<1> DEFINE d == [c EXCEPT ![v] = extent]
           R == Filled(c) \ {v}
<1>1. extent \in Nat \ {0} /\ extent # NoSize
  BY CacheBounds
<1>2. c \in [Vectors -> ContentSizes] /\ \A u \in Vectors : c[u] # NoSize => c[u] \in SizesOf[u]
  BY ContentTyped
<1>3. d \in [Vectors -> ContentSizes] /\ d[v] = extent /\ \A u \in Vectors : u # v => d[u] = c[u]
  <2>1. extent \in ContentSizes
    BY DEF ContentSizes
  <2> QED BY <1>2, <2>1
<1> HIDE DEF d
<1>4. d \in Contents
  BY <1>2, <1>3 DEF Contents, ContentSizes
<1>5. Filled(d) \ {v} = R /\ v \in Filled(d)
  BY <1>1, <1>3 DEF Filled
<1>6. TotalOf(d, R) = TotalOf(c, R)
  <2>1. \A u \in R : d[u] = c[u]
    BY <1>3 DEF Filled
  <2> QED BY <2>1, TotalSame
<1>7. BytesOf(d) = TotalOf(d, R) + extent
  <2>1. Sized(d, Filled(d))
    BY <1>4, ContentSized
  <2>2. TotalOf(d, Filled(d)) = TotalOf(d, Filled(d) \ {v}) + d[v]
    BY <1>5, <2>1, TotalWithout
  <2> QED BY <1>3, <1>5, <2>2 DEF BytesOf
<1>8. /\ TotalOf(c, R) \in Nat
      /\ BytesOf(c) = TotalOf(c, R) + (IF c[v] = NoSize THEN 0 ELSE c[v])
  <2>1. Sized(c, Filled(c)) /\ BytesOf(c) \in Nat
    BY ContentSized
  <2>2. CASE c[v] = NoSize
    <3>1. R = Filled(c)
      BY <2>2 DEF Filled
    <3> QED BY <2>1, <2>2, <3>1 DEF BytesOf
  <2>3. CASE c[v] # NoSize
    <3>1. v \in Filled(c)
      BY <2>3 DEF Filled
    <3>2. TotalOf(c, Filled(c)) = TotalOf(c, R) + c[v] /\ TotalOf(c, R) \in Nat
      BY <2>1, <3>1, TotalWithout
    <3> QED BY <2>3, <3>2 DEF BytesOf
  <2> QED BY <2>2, <2>3
<1> DEFINE old == IF c[v] = NoSize THEN 0 ELSE c[v]
<1>9. old \in Nat
  BY ContentTyped
<1> HIDE DEF R, old
<1>10. BytesOf(d) = BytesOf(c) - old + extent /\ BytesOf(c) - old \in Nat
  <2> DEFINE r == TotalOf(c, R)
  <2>1. r \in Nat /\ BytesOf(c) = r + old /\ BytesOf(d) = r + extent
    BY <1>6, <1>7, <1>8 DEF old
  <2> HIDE DEF r
  <2> QED BY <1>1, <1>9, <2>1
<1> QED BY <1>1, <1>4, <1>10 DEF d, old

LEMMA ContentTaken ==
    ASSUME NEW c \in Contents, NEW v \in Vectors, c[v] # NoSize
    PROVE  /\ [c EXCEPT ![v] = NoSize] \in Contents
           /\ BytesOf(c) = BytesOf([c EXCEPT ![v] = NoSize]) + c[v]
           /\ c[v] \in Nat
<1> DEFINE d == [c EXCEPT ![v] = NoSize]
<1>1. c \in [Vectors -> ContentSizes] /\ (\A u \in Vectors : c[u] # NoSize => c[u] \in SizesOf[u])
      /\ c[v] \in Nat
  BY ContentTyped
<1>2. d \in [Vectors -> ContentSizes] /\ d[v] = NoSize /\ \A u \in Vectors : u # v => d[u] = c[u]
  <2>1. NoSize \in ContentSizes
    BY DEF ContentSizes
  <2> QED BY <1>1, <2>1
<1> HIDE DEF d
<1>3. d \in Contents
  BY <1>1, <1>2 DEF Contents, ContentSizes
<1>4. Filled(d) = Filled(c) \ {v} /\ v \in Filled(c)
  BY <1>2 DEF Filled
<1>5. TotalOf(d, Filled(d)) = TotalOf(c, Filled(d))
  <2>1. \A u \in Filled(d) : d[u] = c[u]
    BY <1>2 DEF Filled
  <2> QED BY <2>1, TotalSame
<1>6. TotalOf(c, Filled(c)) = TotalOf(c, Filled(c) \ {v}) + c[v]
  <2>1. Sized(c, Filled(c))
    BY ContentSized
  <2> QED BY <1>4, <2>1, TotalWithout
<1> QED BY <1>1, <1>3, <1>4, <1>5, <1>6 DEF BytesOf, d

LEMMA HeldTyped ==
    ASSUME NEW c \in Caches, NEW s \in HeldSlots(c)
    PROVE  /\ s \in CacheSlots /\ c[s] \in Partition
           /\ c[s].vectors \in Contents /\ c[s].last \in 0..MaxUses
           /\ SlotBytes(c)[s] = BytesOf(c[s].vectors) /\ BytesOf(c[s].vectors) \in Nat
<1>1. s \in CacheSlots /\ c[s] \in Partition
  BY DEF HeldSlots, Caches
<1>2. c[s].vectors \in Contents /\ c[s].last \in 0..MaxUses
  BY <1>1 DEF Partition
<1>3. SlotBytes(c)[s] = BytesOf(c[s].vectors)
  BY DEF SlotBytes
<1> QED BY <1>1, <1>2, <1>3, ContentSized

LEMMA CacheSized ==
    ASSUME NEW c \in Caches
    PROVE  /\ Sized(SlotBytes(c), HeldSlots(c)) /\ HeldSlots(c) \in SUBSET CacheSlots
           /\ IsFiniteSet(HeldSlots(c)) /\ Weight(c) \in Nat
<1>1. HeldSlots(c) \in SUBSET CacheSlots
  BY DEF HeldSlots
<1>2. IsFiniteSet(HeldSlots(c))
  BY <1>1, CacheFinite, FS_Subset
<1>3. \A s \in HeldSlots(c) : SlotBytes(c)[s] \in Nat
  <2>1. ASSUME NEW s \in HeldSlots(c) PROVE SlotBytes(c)[s] \in Nat
    BY HeldTyped
  <2> QED BY <2>1
<1>4. Sized(SlotBytes(c), HeldSlots(c))
  BY <1>2, <1>3 DEF Sized
<1> QED BY <1>1, <1>2, <1>4, UnitsFinite DEF Weight

\* Taking partitions out of a cache takes their bytes.
LEMMA WeightWithout ==
    ASSUME NEW c \in Caches, NEW out \in SUBSET HeldSlots(c)
    PROVE  /\ Without(c, out) \in Caches
           /\ HeldSlots(Without(c, out)) = HeldSlots(c) \ out
           /\ Weight(c) = TotalOf(SlotBytes(c), out) + Weight(Without(c, out))
           /\ TotalOf(SlotBytes(c), out) \in Nat /\ Weight(Without(c, out)) \in Nat
           /\ \A s \in CacheSlots \ out : Without(c, out)[s] = c[s]
<1> DEFINE d == Without(c, out)
<1>1. d \in Caches /\ \A s \in CacheSlots : d[s] = IF s \in out THEN NoPartition ELSE c[s]
  BY DEF Without, Caches
<1> HIDE DEF d
<1>2. HeldSlots(d) = HeldSlots(c) \ out
  BY <1>1 DEF HeldSlots
<1>3. \A s \in HeldSlots(d) : SlotBytes(d)[s] = SlotBytes(c)[s]
  <2>1. ASSUME NEW s \in HeldSlots(d) PROVE SlotBytes(d)[s] = SlotBytes(c)[s]
    <3>1. s \in HeldSlots(c) /\ s \in CacheSlots /\ s \notin out
      BY <1>2 DEF HeldSlots
    <3>2. SlotBytes(d)[s] = BytesOf(d[s].vectors) /\ SlotBytes(c)[s] = BytesOf(c[s].vectors)
      BY <3>1 DEF SlotBytes
    <3> QED BY <1>1, <3>1, <3>2
  <2> QED BY <2>1
<1>4. Weight(d) = TotalOf(SlotBytes(c), HeldSlots(c) \ out)
  <2>1. TotalOf(SlotBytes(d), HeldSlots(d)) = TotalOf(SlotBytes(c), HeldSlots(d))
    BY <1>3, TotalSame
  <2> QED BY <1>2, <2>1 DEF Weight
<1>5. /\ TotalOf(SlotBytes(c), HeldSlots(c))
           = TotalOf(SlotBytes(c), out) + TotalOf(SlotBytes(c), HeldSlots(c) \ out)
      /\ TotalOf(SlotBytes(c), out) \in Nat
  BY CacheSized, TotalSplits
<1>6. Weight(d) \in Nat
  BY <1>1, CacheSized
<1> QED BY <1>1, <1>2, <1>4, <1>5, <1>6 DEF Weight, d

\* Putting a partition into a cache in place of the one that was there, if any.
LEMMA WeightPut ==
    ASSUME NEW c \in Caches, NEW s \in CacheSlots, NEW p \in Partition
    PROVE  /\ [c EXCEPT ![s] = p] \in Caches
           /\ HeldSlots([c EXCEPT ![s] = p]) = HeldSlots(c) \cup {s}
           /\ Weight([c EXCEPT ![s] = p]) = Weight(Without(c, {s})) + BytesOf(p.vectors)
           /\ BytesOf(p.vectors) \in Nat
<1> DEFINE d == [c EXCEPT ![s] = p]
           e == Without(c, {s})
<1>1. d \in Caches /\ d[s] = p /\ \A t \in CacheSlots : t # s => d[t] = c[t]
  BY DEF Caches
<1>2. p # NoPartition
  BY NoPartitionAssumption
<1>3. e \in Caches /\ \A t \in CacheSlots : e[t] = IF t \in {s} THEN NoPartition ELSE c[t]
  BY DEF Without, Caches
<1> HIDE DEF d, e
<1>4. HeldSlots(d) = HeldSlots(c) \cup {s} /\ HeldSlots(d) \ {s} = HeldSlots(e) /\ s \in HeldSlots(d)
  BY <1>1, <1>2, <1>3 DEF HeldSlots
<1>5. \A t \in HeldSlots(e) : SlotBytes(e)[t] = SlotBytes(d)[t]
  <2>1. ASSUME NEW t \in HeldSlots(e) PROVE SlotBytes(e)[t] = SlotBytes(d)[t]
    <3>1. t \in HeldSlots(d) /\ t # s /\ t \in CacheSlots
      BY <1>4 DEF HeldSlots
    <3>2. SlotBytes(e)[t] = BytesOf(e[t].vectors) /\ SlotBytes(d)[t] = BytesOf(d[t].vectors)
      BY <3>1 DEF SlotBytes
    <3> QED BY <1>1, <1>3, <3>1, <3>2
  <2> QED BY <2>1
<1>6. Weight(e) = TotalOf(SlotBytes(d), HeldSlots(d) \ {s})
  <2>1. TotalOf(SlotBytes(e), HeldSlots(e)) = TotalOf(SlotBytes(d), HeldSlots(e))
    BY <1>5, TotalSame
  <2> QED BY <1>4, <2>1 DEF Weight
<1>7. TotalOf(SlotBytes(d), HeldSlots(d)) = TotalOf(SlotBytes(d), HeldSlots(d) \ {s}) + SlotBytes(d)[s]
  <2>1. Sized(SlotBytes(d), HeldSlots(d))
    BY <1>1, CacheSized
  <2> QED BY <1>4, <2>1, TotalWithout
<1>8. SlotBytes(d)[s] = BytesOf(p.vectors)
  BY <1>1, <1>4 DEF SlotBytes
<1>9. BytesOf(p.vectors) \in Nat
  BY <1>1, <1>4, HeldTyped
<1> QED BY <1>1, <1>4, <1>6, <1>7, <1>8, <1>9 DEF Weight, d, e

\* Taking out one slot, held or not.
LEMMA WeightDrop ==
    ASSUME NEW c \in Caches, NEW s \in CacheSlots
    PROVE  /\ Without(c, {s}) = [c EXCEPT ![s] = NoPartition]
           /\ Without(c, {s}) \in Caches /\ HeldSlots(Without(c, {s})) = HeldSlots(c) \ {s}
           /\ Weight(c) = Weight(Without(c, {s}))
                            + (IF c[s] = NoPartition THEN 0 ELSE BytesOf(c[s].vectors))
           /\ Weight(c) \in Nat /\ Weight(Without(c, {s})) \in Nat
           /\ (IF c[s] = NoPartition THEN 0 ELSE BytesOf(c[s].vectors)) \in Nat
<1>1. Without(c, {s}) = [c EXCEPT ![s] = NoPartition]
  BY DEF Without, Caches
<1>2. CASE c[s] = NoPartition
  <2>1. [c EXCEPT ![s] = NoPartition] = c
    BY <1>2 DEF Caches
  <2>2. HeldSlots(c) \ {s} = HeldSlots(c)
    BY <1>2 DEF HeldSlots
  <2>3. Weight(c) \in Nat
    BY CacheSized
  <2> QED BY <1>1, <1>2, <2>1, <2>2, <2>3
<1>3. CASE c[s] # NoPartition
  <2>1. s \in HeldSlots(c)
    BY <1>3 DEF HeldSlots
  <2>2. BytesOf(c[s].vectors) \in Nat /\ SlotBytes(c)[s] = BytesOf(c[s].vectors)
    BY <2>1, HeldTyped
  <2>3. TotalOf(SlotBytes(c), {s}) = BytesOf(c[s].vectors)
    BY <2>2, TotalOfOne
  <2>4. {s} \in SUBSET HeldSlots(c)
    BY <2>1
  <2>5. /\ Without(c, {s}) \in Caches
        /\ HeldSlots(Without(c, {s})) = HeldSlots(c) \ {s}
        /\ Weight(c) = TotalOf(SlotBytes(c), {s}) + Weight(Without(c, {s}))
        /\ Weight(Without(c, {s})) \in Nat
    BY <2>4, WeightWithout
  <2>6. Weight(c) \in Nat
    BY CacheSized
  <2>7. (IF c[s] = NoPartition THEN 0 ELSE BytesOf(c[s].vectors)) = BytesOf(c[s].vectors)
    BY <1>3
  <2>8. Weight(c) = Weight(Without(c, {s})) + BytesOf(c[s].vectors)
    BY <2>2, <2>3, <2>5
  <2> QED BY <1>1, <2>2, <2>5, <2>6, <2>7, <2>8
<1> QED BY <1>2, <1>3

\* make_room frees what is needed, or everything but the partition to keep.
LEMMA VictimsMakeRoom ==
    ASSUME NEW c \in Caches, NEW bytes \in Nat, NEW extra \in Nat, NEW keep
    PROVE  /\ Victims(c, bytes, extra, keep) \in SUBSET (HeldSlots(c) \ {keep})
           /\ \/ bytes - TotalOf(SlotBytes(c), Victims(c, bytes, extra, keep)) + extra <= Limit
              \/ Victims(c, bytes, extra, keep) = HeldSlots(c) \ {keep}
<1> DEFINE free(out) == bytes - TotalOf(SlotBytes(c), out)
           choices == {out \in SUBSET (HeldSlots(c) \ {keep}) :
                         \A s \in out : Older(c, s) \ {keep} \subseteq out}
           enough == {out \in choices : free(out) + extra <= Limit}
           least(out) == out \in enough /\ \A other \in enough : Cardinality(out) <= Cardinality(other)
           V == Victims(c, bytes, extra, keep)
<1>1. V = IF enough = {} THEN HeldSlots(c) \ {keep}
          ELSE CHOOSE out \in enough : \A other \in enough : Cardinality(out) <= Cardinality(other)
  BY DEF Victims
<1>2. CASE enough = {}
  BY <1>1, <1>2
<1>3. CASE enough # {}
  <2> DEFINE N == {Cardinality(out) : out \in enough}
  <2>1. \A out \in enough : Cardinality(out) \in Nat
    <3>1. ASSUME NEW out \in enough PROVE Cardinality(out) \in Nat
      <4>1. out \in SUBSET HeldSlots(c) /\ IsFiniteSet(HeldSlots(c))
        BY CacheSized
      <4>2. IsFiniteSet(out)
        BY <4>1, FS_Subset
      <4> QED BY <4>2, FS_CardinalityType
    <3> QED BY <3>1
  <2>2. enough \subseteq SUBSET (HeldSlots(c) \ {keep}) /\ \A out \in enough : free(out) + extra <= Limit
    OBVIOUS
  <2> HIDE DEF enough
  <2>3. N \subseteq Nat /\ N # {}
    BY <1>3, <2>1
  <2>4. PICK n \in N : \A m \in N : n <= m
    <3> HIDE DEF N
    <3> QED BY <2>3, FirstExists
  <2>5. PICK out \in enough : Cardinality(out) = n
    BY <2>4
  <2>6. \A other \in enough : Cardinality(out) <= Cardinality(other)
    BY <2>4, <2>5
  <2>7. V \in enough
    BY <1>1, <1>3, <2>5, <2>6
  <2> QED BY <2>2, <2>7
<1> QED BY <1>2, <1>3

-----------------------------------------------------------------------------
(* The inductive invariant: the types and CacheFits itself.                  *)

CacheInv == CacheTypeOK /\ CacheFits

LEMMA CacheInvTyped ==
    ASSUME CacheInv
    PROVE  /\ cache \in Caches /\ used \in Nat /\ totals \in [CacheSlots -> Nat]
           /\ evicted \in SUBSET CacheSlots /\ wanted \in SUBSET CacheSlots /\ uses \in 0..MaxUses
           /\ loading \in [Loaders -> [slot: CacheSlots, part: Partition] \cup {NoPartition}]
           /\ used = Weight(cache) /\ (used > Limit => Cardinality(HeldSlots(cache)) = 1)
           /\ evicted \cap HeldSlots(cache) = {} /\ wanted \subseteq evicted \cup HeldSlots(cache)
           /\ Limit \in Nat
  BY CacheBounds DEF CacheInv, CacheTypeOK, CacheFits, Caches

LEMMA CacheInvInit == CacheInit => CacheInv
<1> SUFFICES ASSUME CacheInit PROVE CacheInv
  OBVIOUS
<1>1. CacheTypeOK
  BY CacheBounds DEF CacheInit, CacheTypeOK
<1>2. HeldSlots(cache) = {}
  BY DEF CacheInit, HeldSlots
<1>3. Weight(cache) = 0
  BY <1>2, TotalOfNone DEF Weight
<1> QED BY <1>1, <1>2, <1>3, CacheBounds DEF CacheInit, CacheInv, CacheFits

LEMMA BuildPartitionKeeps ==
    ASSUME CacheInv, NEW l \in Loaders, NEW s \in CacheSlots, NEW c \in Contents,
           BuildPartition(l, s, c)
    PROVE  CacheInv'
<1> DEFINE q == [slot |-> s, part |-> [vectors |-> c, last |-> uses]]
<1>1. /\ uses < MaxUses /\ uses' = uses + 1 /\ loading' = [loading EXCEPT ![l] = q]
      /\ UNCHANGED <<cache, used, totals, evicted, wanted>>
  BY DEF BuildPartition, TickUse
<1>2. q \in [slot: CacheSlots, part: Partition]
  BY CacheInvTyped DEF Partition
<1> HIDE DEF q
<1>3. loading' \in [Loaders -> [slot: CacheSlots, part: Partition] \cup {NoPartition}]
  BY <1>1, <1>2, CacheInvTyped
<1>4. uses' \in 0..MaxUses
  BY <1>1, CacheInvTyped, CacheBounds
<1>5. CacheTypeOK'
  BY <1>1, <1>3, <1>4 DEF CacheInv, CacheTypeOK
<1>6. CacheFits'
  BY <1>1 DEF CacheInv, CacheFits
<1> QED BY <1>5, <1>6 DEF CacheInv

\* A slot taken out leaves the budget kept.
LEMMA DropFits ==
    ASSUME CacheInv, NEW s \in CacheSlots
    PROVE  LET rest == Without(cache, {s})
               left == used - (IF cache[s] = NoPartition THEN 0 ELSE BytesOf(cache[s].vectors))
           IN  /\ rest \in Caches /\ HeldSlots(rest) = HeldSlots(cache) \ {s}
               /\ left = Weight(rest) /\ left \in Nat
               /\ left > Limit => Cardinality(HeldSlots(rest)) = 1
               /\ rest = [cache EXCEPT ![s] = NoPartition]
<1> DEFINE rest == Without(cache, {s})
           part == IF cache[s] = NoPartition THEN 0 ELSE BytesOf(cache[s].vectors)
           left == used - part
<1>1. /\ rest = [cache EXCEPT ![s] = NoPartition]
      /\ rest \in Caches /\ HeldSlots(rest) = HeldSlots(cache) \ {s}
      /\ Weight(cache) = Weight(rest) + part
      /\ Weight(cache) \in Nat /\ Weight(rest) \in Nat /\ part \in Nat
  BY CacheInvTyped, WeightDrop
<1> HIDE DEF rest, part
<1>2. left = Weight(rest) /\ left \in Nat /\ left <= used /\ used \in Nat /\ Limit \in Nat
  BY <1>1, CacheInvTyped
<1>3. ASSUME left > Limit PROVE Cardinality(HeldSlots(rest)) = 1
  <2>1. Cardinality(HeldSlots(cache)) = 1
    BY <1>2, <1>3, CacheInvTyped
  <2>2. IsFiniteSet(HeldSlots(cache))
    BY CacheInvTyped, CacheSized
  <2>3. PICK t : HeldSlots(cache) = {t}
    BY <2>1, <2>2, FS_Singleton
  <2>4. s # t
    <3>1. ASSUME s = t PROVE FALSE
      <4>1. HeldSlots(rest) = {}
        BY <1>1, <2>3, <3>1
      <4>2. Weight(rest) = 0
        BY <4>1, TotalOfNone DEF Weight
      <4> QED BY <1>2, <1>3, <4>2
    <3> QED BY <3>1
  <2>5. HeldSlots(rest) = HeldSlots(cache)
    BY <1>1, <2>3, <2>4
  <2> QED BY <2>1, <2>5
<1> QED BY <1>1, <1>2, <1>3 DEF rest, part

LEMMA DropPartitionKeeps ==
    ASSUME CacheInv, NEW s \in CacheSlots, DropPartition(s) PROVE CacheInv'
<1> DEFINE rest == Without(cache, {s})
           left == used - (IF cache[s] = NoPartition THEN 0 ELSE BytesOf(cache[s].vectors))
<1>1. /\ used' = left /\ cache' = [cache EXCEPT ![s] = NoPartition]
      /\ totals' = [totals EXCEPT ![s] = 0]
      /\ evicted' = evicted \ {s} /\ wanted' = wanted \ {s} /\ UNCHANGED <<uses, loading>>
  BY DEF DropPartition
<1>2. /\ rest \in Caches /\ HeldSlots(rest) = HeldSlots(cache) \ {s}
      /\ left = Weight(rest) /\ left \in Nat
      /\ left > Limit => Cardinality(HeldSlots(rest)) = 1
      /\ rest = [cache EXCEPT ![s] = NoPartition]
  BY DropFits
<1> HIDE DEF rest, left
<1>3. cache' = rest
  BY <1>1, <1>2
<1>4. CacheTypeOK'
  BY <1>1, <1>2, <1>3, CacheInvTyped DEF CacheTypeOK, Caches
<1>5. CacheFits'
  BY <1>1, <1>2, <1>3, CacheInvTyped DEF CacheFits
<1> QED BY <1>4, <1>5 DEF CacheInv

LEMMA SetTotalKeeps ==
    ASSUME CacheInv, NEW s \in CacheSlots, NEW total \in Nat, SetTotal(s, total) PROVE CacheInv'
<1>1. /\ totals' = [totals EXCEPT ![s] = total]
      /\ UNCHANGED <<cache, used, evicted, uses, loading, wanted>>
  BY DEF SetTotal
<1>2. CacheTypeOK'
  BY <1>1 DEF CacheInv, CacheTypeOK
<1>3. CacheFits'
  BY <1>1 DEF CacheInv, CacheFits
<1> QED BY <1>2, <1>3 DEF CacheInv

\* A change of one held partition: what its cache then is.
LEMMA PutHeld ==
    ASSUME CacheInv, NEW s \in CacheSlots, cache[s] # NoPartition, NEW p \in Partition
    PROVE  /\ cache[s] \in Partition
           /\ [cache EXCEPT ![s] = p] \in Caches
           /\ HeldSlots([cache EXCEPT ![s] = p]) = HeldSlots(cache) /\ s \in HeldSlots(cache)
           /\ BytesOf(p.vectors) \in Nat /\ BytesOf(cache[s].vectors) \in Nat
           /\ used - BytesOf(cache[s].vectors) \in Nat
           /\ Weight([cache EXCEPT ![s] = p])
                = used - BytesOf(cache[s].vectors) + BytesOf(p.vectors)
<1>1. cache \in Caches /\ used = Weight(cache)
  BY CacheInvTyped
<1>2. s \in HeldSlots(cache)
  BY DEF HeldSlots
<1>3. cache[s] \in Partition /\ BytesOf(cache[s].vectors) \in Nat
  BY <1>1, <1>2, HeldTyped
<1>4. /\ [cache EXCEPT ![s] = p] \in Caches
      /\ HeldSlots([cache EXCEPT ![s] = p]) = HeldSlots(cache) \cup {s}
      /\ Weight([cache EXCEPT ![s] = p]) = Weight(Without(cache, {s})) + BytesOf(p.vectors)
      /\ BytesOf(p.vectors) \in Nat
  BY <1>1, WeightPut
<1>5. /\ Weight(cache) = Weight(Without(cache, {s}))
                            + (IF cache[s] = NoPartition THEN 0 ELSE BytesOf(cache[s].vectors))
      /\ Weight(Without(cache, {s})) \in Nat
  BY <1>1, WeightDrop
<1>6. Weight(cache) = Weight(Without(cache, {s})) + BytesOf(cache[s].vectors)
  BY <1>5
<1> DEFINE a == Weight(Without(cache, {s}))
           b == BytesOf(cache[s].vectors)
<1>7. a \in Nat /\ b \in Nat /\ used = a + b
  BY <1>1, <1>3, <1>5, <1>6
<1> HIDE DEF a, b
<1>8. used - b = a
  BY <1>7
<1> QED BY <1>2, <1>3, <1>4, <1>7, <1>8 DEF a, b

LEMMA SearchKeeps ==
    ASSUME CacheInv, NEW s \in CacheSlots, Search(s) PROVE CacheInv'
<1> DEFINE p == [cache[s] EXCEPT !.last = uses]
<1>1. /\ cache[s] # NoPartition /\ uses < MaxUses /\ uses' = uses + 1
      /\ cache' = [cache EXCEPT ![s] = p]
      /\ UNCHANGED <<used, totals, evicted, loading, wanted>>
  BY DEF Search, TickUse
<1>2. cache[s] \in Partition
  BY <1>1, CacheInvTyped DEF Caches
<1>3. p \in Partition /\ p.vectors = cache[s].vectors
  <2>1. uses \in 0..MaxUses
    BY CacheInvTyped
  <2> QED BY <1>2, <2>1 DEF Partition
<1> HIDE DEF p
<1>4. /\ cache' \in Caches /\ HeldSlots(cache') = HeldSlots(cache)
      /\ BytesOf(p.vectors) \in Nat /\ used - BytesOf(cache[s].vectors) \in Nat
      /\ Weight(cache') = used - BytesOf(cache[s].vectors) + BytesOf(p.vectors)
  BY <1>1, <1>3, PutHeld
<1>5. Weight(cache') = used
  BY <1>3, <1>4, CacheInvTyped
<1>6. uses' \in 0..MaxUses
  BY <1>1, CacheInvTyped, CacheBounds
<1>7. CacheTypeOK'
  BY <1>1, <1>4, <1>6, CacheInvTyped DEF CacheTypeOK, Caches
<1>8. CacheFits'
  BY <1>1, <1>4, <1>5, CacheInvTyped DEF CacheFits
<1> QED BY <1>7, <1>8 DEF CacheInv

LEMMA RemoveVectorKeeps ==
    ASSUME CacheInv, NEW s \in CacheSlots, NEW v \in Vectors, RemoveVector(s, v) PROVE CacheInv'
<1> DEFINE c == cache[s].vectors
           d == [c EXCEPT ![v] = NoSize]
           p == [cache[s] EXCEPT !.vectors = d]
           n == c[v]
<1>1. /\ cache[s] # NoPartition /\ c[v] # NoSize /\ used' = used - n
      /\ cache' = [cache EXCEPT ![s].vectors[v] = NoSize]
      /\ totals' = [totals EXCEPT ![s] = IF @ = 0 THEN 0 ELSE @ - 1]
      /\ UNCHANGED <<evicted, uses, loading, wanted>>
  BY DEF RemoveVector
<1>2. cache[s] \in Partition /\ c \in Contents
  BY <1>1, CacheInvTyped DEF Caches, Partition
<1>3. d \in Contents /\ BytesOf(c) = BytesOf(d) + n /\ n \in Nat
  BY <1>1, <1>2, ContentTaken
<1>4. cache' = [cache EXCEPT ![s] = p]
  BY <1>1
<1> HIDE DEF d
<1>5. p \in Partition /\ p.vectors = d
  BY <1>2, <1>3 DEF Partition
<1> HIDE DEF p, c, n
<1>6. /\ cache' \in Caches /\ HeldSlots(cache') = HeldSlots(cache)
      /\ BytesOf(d) \in Nat /\ BytesOf(c) \in Nat /\ used - BytesOf(c) \in Nat
      /\ Weight(cache') = used - BytesOf(c) + BytesOf(d)
  <2>1. /\ [cache EXCEPT ![s] = p] \in Caches /\ HeldSlots([cache EXCEPT ![s] = p]) = HeldSlots(cache)
        /\ BytesOf(p.vectors) \in Nat /\ BytesOf(cache[s].vectors) \in Nat
        /\ used - BytesOf(cache[s].vectors) \in Nat
        /\ Weight([cache EXCEPT ![s] = p])
             = used - BytesOf(cache[s].vectors) + BytesOf(p.vectors)
    BY <1>1, <1>5, PutHeld
  <2>2. cache[s].vectors = c
    BY DEF c
  <2> QED BY <1>4, <1>5, <2>1, <2>2
<1>7. used' = Weight(cache') /\ used' \in Nat /\ used' <= used
  BY <1>1, <1>3, <1>6, CacheInvTyped
<1>8. totals' \in [CacheSlots -> Nat]
  <2>1. totals \in [CacheSlots -> Nat] /\ totals[s] \in Nat
    BY CacheInvTyped
  <2>2. (IF totals[s] = 0 THEN 0 ELSE totals[s] - 1) \in Nat
    BY <2>1
  <2> QED BY <1>1, <2>1, <2>2
<1>9. CacheTypeOK'
  BY <1>1, <1>6, <1>7, <1>8, CacheInvTyped DEF CacheTypeOK, Caches
<1>10. used' > Limit => Cardinality(HeldSlots(cache')) = 1
  BY <1>6, <1>7, CacheInvTyped
<1>11. CacheFits'
  BY <1>1, <1>6, <1>7, <1>10, CacheInvTyped DEF CacheFits
<1> QED BY <1>9, <1>11 DEF CacheInv

LEMMA UpsertKeeps ==
    ASSUME CacheInv, NEW s \in CacheSlots, NEW v \in Vectors, NEW extent \in SizesOf[v],
           Upsert(s, v, extent)
    PROVE  CacheInv'
<1> DEFINE c == cache[s].vectors
           old == cache[s].vectors[v]
           d == [c EXCEPT ![v] = extent]
           p == [vectors |-> d, last |-> uses]
           grown == [cache EXCEPT ![s] = p]
           less == IF c[v] = NoSize THEN 0 ELSE c[v]
           bytes == used + extent - (IF old = NoSize THEN 0 ELSE old)
           out == IF bytes > Limit THEN Victims(grown, bytes, 0, s) ELSE {}
           freed == TotalOf(SlotBytes(grown), out)
<1>1. /\ cache[s] # NoPartition /\ uses < MaxUses /\ uses' = uses + 1
      /\ cache' = Without(grown, out) /\ used' = bytes - freed
      /\ evicted' = evicted \cup out
      /\ totals' = (IF old = NoSize THEN [totals EXCEPT ![s] = totals[s] + 1] ELSE totals)
      /\ UNCHANGED <<loading, wanted>>
  BY DEF Upsert, TickUse
<1>2. cache[s] \in Partition /\ c \in Contents
  BY <1>1, CacheInvTyped DEF Caches, Partition
<1>3. /\ d \in Contents /\ BytesOf(d) = BytesOf(c) - less + extent
      /\ BytesOf(c) - less \in Nat /\ extent \in Nat /\ BytesOf(c) \in Nat
  BY <1>2, ContentPut, ContentSized
<1>4. p \in Partition /\ p.vectors = d
  BY <1>3, CacheInvTyped DEF Partition
<1>5. bytes = used + extent - less
  OBVIOUS
<1>6. less \in Nat
  BY <1>2, ContentTyped
<1> HIDE DEF p, d, bytes, less
<1>7. /\ grown \in Caches /\ HeldSlots(grown) = HeldSlots(cache) /\ s \in HeldSlots(grown)
      /\ BytesOf(d) \in Nat /\ used - BytesOf(c) \in Nat
      /\ Weight(grown) = used - BytesOf(c) + BytesOf(d)
  <2>1. /\ [cache EXCEPT ![s] = p] \in Caches /\ HeldSlots([cache EXCEPT ![s] = p]) = HeldSlots(cache)
        /\ s \in HeldSlots(cache)
        /\ BytesOf(p.vectors) \in Nat /\ used - BytesOf(cache[s].vectors) \in Nat
        /\ Weight([cache EXCEPT ![s] = p])
             = used - BytesOf(cache[s].vectors) + BytesOf(p.vectors)
    BY <1>1, <1>4, PutHeld
  <2> QED BY <1>4, <2>1
<1> HIDE DEF grown, c, old
<1>8. bytes = Weight(grown) /\ bytes \in Nat
  <2> DEFINE b == BytesOf(c)
             e == BytesOf(d)
             w == Weight(grown)
  <2>1. b \in Nat /\ e = b - less + extent /\ less \in Nat /\ extent \in Nat /\ b - less \in Nat
        /\ used - b \in Nat /\ w = used - b + e /\ used \in Nat /\ e \in Nat
    BY <1>3, <1>6, <1>7, CacheInvTyped
  <2> HIDE DEF b, e, w
  <2>2. bytes = w /\ bytes \in Nat
    BY <1>5, <2>1
  <2> QED BY <2>2 DEF w
<1>9. /\ out \in SUBSET (HeldSlots(grown) \ {s})
      /\ bytes - freed <= Limit \/ out = HeldSlots(grown) \ {s}
  <2>1. CASE bytes > Limit
    <3>1. out = Victims(grown, bytes, 0, s)
      BY <2>1
    <3>2. /\ Victims(grown, bytes, 0, s) \in SUBSET (HeldSlots(grown) \ {s})
          /\ \/ bytes - TotalOf(SlotBytes(grown), Victims(grown, bytes, 0, s)) + 0 <= Limit
             \/ Victims(grown, bytes, 0, s) = HeldSlots(grown) \ {s}
      BY <1>7, <1>8, VictimsMakeRoom
    <3>3. out \in SUBSET HeldSlots(grown)
      BY <3>1, <3>2
    <3>4. freed \in Nat
      BY <1>7, <3>3, WeightWithout
    <3> HIDE DEF out
    <3>5. out \in SUBSET (HeldSlots(grown) \ {s})
          /\ (bytes - freed + 0 <= Limit \/ out = HeldSlots(grown) \ {s})
      BY <3>1, <3>2
    <3> HIDE DEF freed
    <3> QED BY <1>8, <3>4, <3>5
  <2>2. CASE ~(bytes > Limit)
    <3>1. out = {} /\ freed = 0
      BY <2>2, TotalOfNone
    <3> HIDE DEF out, freed
    <3>2. bytes - freed <= Limit
      BY <1>8, <2>2, <3>1, CacheInvTyped
    <3> QED BY <3>1, <3>2
  <2> QED BY <2>1, <2>2
<1> HIDE DEF out
<1>10. /\ cache' \in Caches /\ HeldSlots(cache') = HeldSlots(cache) \ out
       /\ Weight(grown) = freed + Weight(cache')
       /\ freed \in Nat /\ Weight(cache') \in Nat
  <2>1. out \in SUBSET HeldSlots(grown)
    BY <1>9
  <2> QED BY <1>1, <1>7, <2>1, WeightWithout
<1>11. used' = Weight(cache') /\ used' \in Nat
  <2> HIDE DEF freed
  <2> QED BY <1>1, <1>8, <1>10
<1>12. used' > Limit => Cardinality(HeldSlots(cache')) = 1
  <2>1. ASSUME used' > Limit PROVE Cardinality(HeldSlots(cache')) = 1
    <3>1. out = HeldSlots(grown) \ {s}
      <4> HIDE DEF freed
      <4> QED BY <1>1, <1>9, <1>11, <2>1, CacheInvTyped
    <3>2. HeldSlots(cache') = {s}
      BY <1>7, <1>10, <3>1
    <3> QED BY <3>2, FS_Singleton
  <2> QED BY <2>1
<1>13. totals' \in [CacheSlots -> Nat] /\ uses' \in 0..MaxUses
  BY <1>1, CacheInvTyped, CacheBounds
<1>14. out \subseteq CacheSlots /\ out \subseteq HeldSlots(cache)
  BY <1>7, <1>9 DEF HeldSlots
<1>15. CacheTypeOK'
  BY <1>1, <1>10, <1>11, <1>13, <1>14, CacheInvTyped DEF CacheTypeOK, Caches
<1>16. CacheFits'
  BY <1>1, <1>10, <1>11, <1>12, <1>14, CacheInvTyped DEF CacheFits
<1> QED BY <1>15, <1>16 DEF CacheInv

LEMMA HydrateKeeps ==
    ASSUME CacheInv, NEW l \in Loaders, Hydrate(l) PROVE CacheInv'
<1> DEFINE s == loading[l].slot
           part == loading[l].part
           bytes == BytesOf(part.vectors)
           rest == Without(cache, {s})
           left == used - (IF cache[s] = NoPartition THEN 0 ELSE BytesOf(cache[s].vectors))
           count == Cardinality(Filled(part.vectors))
           out == Victims(rest, left, bytes, s)
           freed == TotalOf(SlotBytes(rest), out)
           kept == Without(rest, out)
<1>1. /\ loading[l] # NoPartition /\ loading' = [loading EXCEPT ![l] = NoPartition]
      /\ totals' = [totals EXCEPT ![s] = IF totals[s] > count THEN totals[s] ELSE count]
      /\ wanted' = wanted \cup {s} /\ UNCHANGED uses
      /\ bytes > Limit => cache' = rest /\ used' = left /\ evicted' = evicted \cup {s}
      /\ ~(bytes > Limit) =>
           /\ cache' = [kept EXCEPT ![s] = part]
           /\ used' = left - freed + bytes
           /\ evicted' = (evicted \cup out) \ {s}
  BY DEF Hydrate
<1>2. s \in CacheSlots /\ part \in Partition /\ part.vectors \in Contents
  <2>1. loading[l] \in [slot: CacheSlots, part: Partition]
    BY <1>1, CacheInvTyped
  <2> QED BY <2>1 DEF Partition
<1> HIDE DEF part, s
<1>3. bytes \in Nat /\ count \in Nat
  <2>1. Sized(part.vectors, Filled(part.vectors)) /\ BytesOf(part.vectors) \in Nat
    BY <1>2, ContentSized
  <2> QED BY <2>1, FS_CardinalityType DEF Sized
<1>4. /\ rest \in Caches /\ HeldSlots(rest) = HeldSlots(cache) \ {s}
      /\ left = Weight(rest) /\ left \in Nat
      /\ left > Limit => Cardinality(HeldSlots(rest)) = 1
  BY <1>2, DropFits
<1> HIDE DEF rest, left, bytes, count
<1>5. totals' \in [CacheSlots -> Nat]
  <2>1. totals \in [CacheSlots -> Nat] /\ (IF totals[s] > count THEN totals[s] ELSE count) \in Nat
    BY <1>2, <1>3, CacheInvTyped
  <2> QED BY <1>1, <2>1
<1>6. loading' \in [Loaders -> [slot: CacheSlots, part: Partition] \cup {NoPartition}]
  BY <1>1, CacheInvTyped
<1>7. CASE bytes > Limit
  <2>1. cache' = rest /\ used' = left /\ evicted' = evicted \cup {s}
    BY <1>1, <1>7
  <2>2. CacheTypeOK'
    BY <1>1, <1>2, <1>4, <1>5, <1>6, <2>1, CacheInvTyped DEF CacheTypeOK, Caches
  <2>3. CacheFits'
    BY <1>1, <1>4, <2>1, CacheInvTyped DEF CacheFits
  <2> QED BY <2>2, <2>3 DEF CacheInv
<1>8. CASE ~(bytes > Limit)
  <2>1. /\ cache' = [kept EXCEPT ![s] = part] /\ used' = left - freed + bytes
        /\ evicted' = (evicted \cup out) \ {s}
    BY <1>1, <1>8
  <2>2. /\ out \in SUBSET (HeldSlots(rest) \ {s})
        /\ left - freed + bytes <= Limit \/ out = HeldSlots(rest) \ {s}
    BY <1>3, <1>4, VictimsMakeRoom
  <2>3. out \in SUBSET HeldSlots(rest) /\ HeldSlots(rest) \ {s} = HeldSlots(rest)
    BY <1>4, <2>2
  <2> HIDE DEF out
  <2>4. /\ kept \in Caches /\ HeldSlots(kept) = HeldSlots(rest) \ out
        /\ Weight(rest) = freed + Weight(kept)
        /\ freed \in Nat /\ Weight(kept) \in Nat
    BY <1>4, <2>3, WeightWithout
  <2> HIDE DEF kept, freed
  <2>5. /\ cache' \in Caches /\ HeldSlots(cache') = HeldSlots(kept) \cup {s}
        /\ Weight(cache') = Weight(Without(kept, {s})) + BytesOf(part.vectors)
    BY <1>2, <2>1, <2>4, WeightPut
  <2>6. Without(kept, {s}) = kept
    <3>1. kept[s] = NoPartition
      BY <1>2, <1>4, <2>4 DEF HeldSlots
    <3> QED BY <2>4, <3>1 DEF Without, Caches
  <2>7. used' = Weight(cache') /\ used' \in Nat
    <3>1. Weight(cache') = Weight(kept) + bytes
      BY <2>5, <2>6 DEF bytes
    <3> QED BY <1>3, <1>4, <2>1, <2>4, <3>1
  <2>8. ~(used' > Limit)
    <3>1. CASE out = HeldSlots(rest) \ {s}
      <4>1. HeldSlots(kept) = {}
        BY <2>3, <2>4, <3>1
      <4>2. Weight(kept) = 0
        BY <4>1, TotalOfNone DEF Weight
      <4>3. used' = bytes
        BY <1>3, <1>4, <2>1, <2>4, <4>2
      <4> QED BY <1>8, <4>3
    <3>2. CASE left - freed + bytes <= Limit
      BY <1>3, <1>4, <2>1, <2>4, <3>2, CacheInvTyped
    <3> QED BY <2>2, <3>1, <3>2
  <2>9. out \subseteq CacheSlots
    BY <2>3 DEF HeldSlots
  <2>10. CacheTypeOK'
    BY <1>1, <1>2, <1>5, <1>6, <2>1, <2>5, <2>7, <2>9, CacheInvTyped DEF CacheTypeOK, Caches
  <2>11. HeldSlots(cache') = ((HeldSlots(cache) \ {s}) \ out) \cup {s}
    BY <1>4, <2>4, <2>5
  <2>12. CacheFits'
    BY <1>1, <2>1, <2>7, <2>8, <2>11, CacheInvTyped DEF CacheFits
  <2> QED BY <2>10, <2>12 DEF CacheInv
<1> QED BY <1>7, <1>8

LEMMA CacheInvStep == CacheInv /\ [CacheNext]_vars_vc => CacheInv'
<1> SUFFICES ASSUME CacheInv, [CacheNext]_vars_vc PROVE CacheInv'
  OBVIOUS
<1>1. ASSUME NEW l \in Loaders, Hydrate(l) PROVE CacheInv'
  BY <1>1, HydrateKeeps
<1>2. ASSUME NEW l \in Loaders, NEW s \in CacheSlots, NEW c \in Contents, BuildPartition(l, s, c)
      PROVE  CacheInv'
  BY <1>2, BuildPartitionKeeps
<1>3. ASSUME NEW s \in CacheSlots, Search(s) PROVE CacheInv'
  BY <1>3, SearchKeeps
<1>4. ASSUME NEW s \in CacheSlots, DropPartition(s) PROVE CacheInv'
  BY <1>4, DropPartitionKeeps
<1>5. ASSUME NEW s \in CacheSlots, NEW total \in 0..Cardinality(Vectors), SetTotal(s, total)
      PROVE  CacheInv'
  BY <1>5, SetTotalKeeps
<1>6. ASSUME NEW s \in CacheSlots, NEW v \in Vectors, RemoveVector(s, v) PROVE CacheInv'
  BY <1>6, RemoveVectorKeeps
<1>7. ASSUME NEW s \in CacheSlots, NEW v \in Vectors, NEW extent \in SizesOf[v], Upsert(s, v, extent)
      PROVE  CacheInv'
  BY <1>7, UpsertKeeps
<1>8. CASE UNCHANGED vars_vc
  BY <1>8 DEF vars_vc, CacheInv, CacheTypeOK, CacheFits
<1> QED BY <1>1, <1>2, <1>3, <1>4, <1>5, <1>6, <1>7, <1>8 DEF CacheNext

LEMMA CacheSafe == CacheSpec => []CacheInv
<1>1. CacheInit => CacheInv
  BY CacheInvInit
<1>2. CacheInv /\ [CacheNext]_vars_vc => CacheInv'
  BY CacheInvStep
<1> QED BY <1>1, <1>2, PTL DEF CacheSpec

\* The type invariant of the vector cache.
THEOREM CacheTypeCorrect == CacheSpec => []CacheTypeOK
<1>1. CacheInv => CacheTypeOK
  BY DEF CacheInv
<1> QED BY <1>1, CacheSafe, PTL

\* The budget counts what is held and is kept to, but by one partition that grew
\* alone, and no hydrated partition is silently gone, for any indexes, sizes,
\* limit and number of hydrations.
THEOREM CacheAlwaysFits == CacheSpec => []CacheFits
<1>1. CacheInv => CacheFits
  BY DEF CacheInv
<1> QED BY <1>1, CacheSafe, PTL
=============================================================================
