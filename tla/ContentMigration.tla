--------------------------- MODULE ContentMigration ---------------------------
(* A store that seals its columns value by value: the open that checks the   *)
(* key, the migration that seals what earlier versions left in plaintext or  *)
(* under a retired root, and the scrub and VACUUM it owes afterwards          *)
(* (content_sqlite.rs, plugin_keys, MailStore::open_with_sealer).            *)
(* One process at a time has the store open; it may exit between any two     *)
(* transactions.                                                             *)
EXTENDS Integers, FiniteSets, FiniteSetsExt

CONSTANTS
    NumItems,   \* planned columns, walked in order
    KeysOf,     \* row keys of each column: KeysOf[i] \subseteq Nat \ {0}
    BatchSize,  \* rows per transaction
    NumRoots,   \* root keys the owner ever has, in the order it adopts them
    Absent, Plain, Foreign,  \* no row; not sealed; sealed, opens under no root
    Resets,     \* does the owner call reset_items when the store is Retired?
    MaxStarts, MaxWrites, MaxFaults

Items == 1 .. NumItems
Roots == 1 .. NumRoots
NoRoot == 0
NoCursor == 0

ASSUME MigrationBounds ==
    /\ NumItems \in Nat \ {0}
    /\ NumRoots \in Nat
    /\ BatchSize \in Nat \ {0}
    /\ KeysOf \in [Items -> SUBSET (Nat \ {0})]
    /\ \A i \in Items : IsFiniteSet(KeysOf[i])
    /\ Resets \in BOOLEAN
    /\ MaxStarts \in Nat /\ MaxWrites \in Nat /\ MaxFaults \in Nat

ASSUME MigrationForms ==
    /\ Absent \notin Roots /\ Plain \notin Roots /\ Foreign \notin Roots
    /\ Absent # Plain /\ Absent # Foreign /\ Plain # Foreign

VARIABLES
    cells,    \* cells[i][k]: how the value of column i, row k is stored
    items,    \* the state table's row of each column
    store,    \* its `__store__` row
    residue,  \* what the files still hold of earlier plaintext outside the cells
    proc,     \* the process that has the store open
    cipher,   \* its roots: the current one and the retired ones
    seal,     \* the StoreSeal it decided on
    work,     \* the opening thread, or the background thread
    budget    \* what is left of starts, writes and faults

migrationVars == <<cells, items, store, residue, proc, cipher, seal, work, budget>>

-----------------------------------------------------------------------------
(* Types.                                                                    *)

\* esc: the text starts with the compat escape `encb:raw:`.
Values == [form : {Absent, Plain, Foreign} \cup Roots, esc : BOOLEAN]
Ciphers == [cur : Roots \cup {NoRoot}, retired : SUBSET Roots]
NoCipher == [cur |-> NoRoot, retired |-> {}]
ItemRows == [state : {"none", "pending", "sealing", "sealed"}, cursor : Nat]
StoreRows == [row : {"none", "ok", "vacuum_pending"}, kcv : Roots \cup {NoRoot},
              scrubbed : BOOLEAN, refused : BOOLEAN]
\* Free pages and the free parts of used pages, as an earlier version left them,
\* and the rows whose old content the WAL, or a page no checkpoint has written
\* over, still holds: secure_delete zeroes a replaced value in the new page only.
Rows == UNION {{i} \X KeysOf[i] : i \in Items}
Residues == [free : BOOLEAN, slack : BOOLEAN, wal : SUBSET Rows]
NoResidue == [free |-> FALSE, slack |-> FALSE, wal |-> {}]
Phases == {"idle", "reset", "pending", "checkpoint", "scrub", "vacuum", "verify",
           "begin", "batch", "end"}
Works == [pc : Phases, job : {"pending", "finish"}, item : 1 .. NumItems + 1,
          sealed : BOOLEAN, unreadable : BOOLEAN, retired : BOOLEAN,
          inline : BOOLEAN]
Idle == [pc |-> "idle", job |-> "pending", item |-> 1, sealed |-> FALSE,
         unreadable |-> FALSE, retired |-> FALSE, inline |-> TRUE]
Budgets == [starts : 0 .. MaxStarts, writes : 0 .. MaxWrites, faults : 0 .. MaxFaults]

MigrationTypeOK ==
    /\ DOMAIN cells = Items
    /\ \A i \in Items : cells[i] \in [KeysOf[i] -> Values]
    /\ items \in [Items -> ItemRows]
    /\ store \in StoreRows
    /\ residue \in Residues
    /\ proc \in {"down", "opening", "serving"}
    /\ cipher \in Ciphers
    /\ seal \in {"sealing", "compat", "unhealthy"}
    /\ work \in Works
    /\ budget \in Budgets

-----------------------------------------------------------------------------
(* The key check and the state rows.                                         *)

KcvMatch(c, kcv) ==
    IF kcv = c.cur THEN "current"
    ELSE IF kcv \in c.retired THEN "retired" ELSE "unknown"

RecordKcv(s, root) ==
    [s EXCEPT !.kcv = root, !.row = IF @ = "none" THEN "ok" ELSE @]

\* The record after check_store_key, which fills in a missing one.
Checked(s, c) == IF s.kcv = NoRoot THEN RecordKcv(s, c.cur) ELSE s

SetPending(s, scrubbed, refused) ==
    [s EXCEPT !.row = "vacuum_pending", !.scrubbed = scrubbed, !.refused = refused]

SetOk(s) == [s EXCEPT !.row = "ok", !.scrubbed = FALSE, !.refused = FALSE]

\* Mutant of MarkScrubOwed: the debt is recorded only once the column is done.
MarkScrubForgotten(s) == s

MarkScrubOwed(s) ==
    IF s.row = "vacuum_pending"
    THEN [s EXCEPT !.scrubbed = FALSE]
    ELSE SetPending(s, FALSE, FALSE)

\* all_items_sealed reads the rows there are: a column without one is not missed.
AllItemsSealed(its) == \A i \in Items : its[i].state \in {"none", "sealed"}

-----------------------------------------------------------------------------
(* One value.                                                                *)

NeedsReseal(v, c) == v.form = Plain \/ v.form \in c.retired
Unreadable(v, c) == v.form \notin {Absent, Plain, c.cur} \cup c.retired

Reseal(v, c) ==
    IF NeedsReseal(v, c)
    THEN [form |-> c.cur, esc |-> IF v.form = Plain THEN FALSE ELSE v.esc]
    ELSE v

\* The next rows after the cursor, in key order, at most BatchSize of them.
Ahead(i) == {k \in KeysOf[i] : k > items[i].cursor /\ cells[i][k].form # Absent}
\* Mutant of Batch: the row at the cursor is read again.
BatchRereads(i) ==
    LET ahead == {k \in KeysOf[i] : k >= items[i].cursor /\ cells[i][k].form # Absent}
    IN {k \in ahead : Cardinality({j \in ahead : j < k}) < BatchSize}

Batch(i) == {k \in Ahead(i) : Cardinality({j \in Ahead(i) : j < k}) < BatchSize}

-----------------------------------------------------------------------------
(* A store of an earlier version: plaintext rows, some with content that a   *)
(* keyless process escaped, and freed plaintext of the time before           *)
(* secure_delete.                                                            *)
LegacyValues == {v \in [form : {Absent, Plain, Foreign}, esc : BOOLEAN] :
                    v.esc => v.form = Plain}
LegacyCells == {f \in [Items -> UNION {[KeysOf[i] -> LegacyValues] : i \in Items}] :
                    \A i \in Items : f[i] \in [KeysOf[i] -> LegacyValues]}

MigrationInit ==
    /\ cells \in LegacyCells
    /\ items = [i \in Items |-> [state |-> "none", cursor |-> NoCursor]]
    /\ store = [row |-> "none", kcv |-> NoRoot, scrubbed |-> FALSE, refused |-> FALSE]
    /\ residue \in {NoResidue, [NoResidue EXCEPT !.free = TRUE, !.slack = TRUE]}
    /\ proc = "down" /\ cipher = NoCipher /\ seal = "compat" /\ work = Idle
    /\ budget = [starts |-> MaxStarts, writes |-> MaxWrites, faults |-> MaxFaults]

\* The owner adopts roots in order and may drop retired ones; Newest is the
\* newest root that has sealed anything here.
Newest == Max({r \in Roots : r = store.kcv \/ \E i \in Items : \E k \in KeysOf[i] :
                    cells[i][k].form = r} \cup {NoRoot})

\* sqlite_store_seal without a key: a recorded store is unhealthy, and serves
\* reads; a store that was never sealed goes on in plaintext.
StartKeyless ==
    /\ proc = "down" /\ budget.starts > 0
    /\ budget' = [budget EXCEPT !.starts = @ - 1]
    /\ proc' = "serving" /\ cipher' = NoCipher
    /\ seal' = IF store.kcv # NoRoot THEN "unhealthy" ELSE "compat"
    /\ UNCHANGED <<cells, items, store, residue, work>>

\* With a key that matches: the record is checked, then the owed work comes first.
StartSealing(c) ==
    /\ proc = "down" /\ budget.starts > 0
    /\ c.cur >= Newest /\ c.cur # NoRoot /\ \A r \in c.retired : r < c.cur
    /\ KcvMatch(c, Checked(store, c).kcv) # "unknown"
    /\ budget' = [budget EXCEPT !.starts = @ - 1]
    /\ proc' = "opening" /\ cipher' = c /\ seal' = "sealing"
    /\ store' = Checked(store, c)
    /\ LET retired == KcvMatch(c, store'.kcv) = "retired" IN
         work' = [Idle EXCEPT !.pc = IF retired /\ Resets THEN "reset" ELSE "pending",
                              !.retired = retired]
    /\ UNCHANGED <<cells, items, residue>>

\* reset_items, one statement per column.
ResetItem ==
    /\ work.pc = "reset"
    /\ items' = [items EXCEPT ![work.item] = [state |-> "pending", cursor |-> NoCursor]]
    /\ work' = IF work.item = NumItems
               THEN [work EXCEPT !.pc = "pending", !.item = 1]
               ELSE [work EXCEPT !.item = @ + 1]
    /\ UNCHANGED <<cells, store, residue, proc, cipher, seal, budget>>

\* Where the opening thread goes once the owed work is over: to the migration
\* from run_pending_vacuum, and to serving from finish_store.
Opened(w) == IF w.job = "pending" THEN [w EXCEPT !.pc = "begin"] ELSE Idle
AfterWork ==
    /\ work' = Opened(work)
    /\ proc' = IF work.job = "finish" THEN "serving" ELSE proc

-----------------------------------------------------------------------------
(* run_pending_vacuum and finish_store: the same steps, with other records.  *)

\* Nothing owed, or refused less than a day ago.
NothingPending ==
    /\ work.pc = "pending"
    /\ store.row # "vacuum_pending" \/ store.refused
    /\ work' = Opened(work)
    /\ UNCHANGED <<cells, items, store, residue, proc, cipher, seal, budget>>

BeginPending ==
    /\ work.pc = "pending"
    /\ store.row = "vacuum_pending" /\ ~store.refused
    /\ work' = [work EXCEPT !.pc = "checkpoint"]
    /\ UNCHANGED <<cells, items, store, residue, proc, cipher, seal, budget>>

\* checkpoint_truncate copies every frame back and truncates the WAL.
Checkpoint ==
    /\ work.pc = "checkpoint"
    /\ residue' = [residue EXCEPT !.wal = {}]
    /\ work' = [work EXCEPT !.pc = "scrub"]
    /\ UNCHANGED <<cells, items, store, proc, cipher, seal, budget>>

\* Zero blobs over every free page, unless an earlier scrub is recorded.
Scrub ==
    /\ work.pc = "scrub"
    /\ IF store.row = "vacuum_pending" /\ store.scrubbed
       THEN UNCHANGED <<residue, store>>
       ELSE /\ residue' = [residue EXCEPT !.free = FALSE]
            /\ store' = IF work.job = "pending" THEN SetPending(store, TRUE, FALSE)
                        ELSE store
    /\ work' = [work EXCEPT !.pc = "vacuum"]
    /\ UNCHANGED <<cells, items, proc, cipher, seal, budget>>

\* No room for a chunk: the pages filled so far are lost work.
ScrubNoRoom ==
    /\ work.pc = "scrub"
    /\ ~(store.row = "vacuum_pending" /\ store.scrubbed)
    /\ store' = SetPending(store, FALSE, work.job = "pending")
    /\ AfterWork
    /\ UNCHANGED <<cells, items, residue, cipher, seal, budget>>

\* The rewritten database is in the WAL; the file keeps its pages until the
\* next checkpoint.
Vacuum ==
    /\ work.pc = "vacuum"
    /\ residue' = [NoResidue EXCEPT
                       !.wal = IF residue.free \/ residue.slack THEN Rows ELSE residue.wal]
    /\ work' = [work EXCEPT !.pc = "verify"]
    /\ UNCHANGED <<cells, items, store, proc, cipher, seal, budget>>

\* A store too large to compact while it opens, or (run_pending_vacuum notes the
\* attempt) no room.
VacuumDeferred ==
    /\ work.pc = "vacuum"
    /\ \E noted \in (IF work.job = "pending" THEN BOOLEAN ELSE {FALSE}) :
         store' = SetPending(store, TRUE, noted)
    /\ AfterWork
    /\ UNCHANGED <<cells, items, residue, cipher, seal, budget>>

Verified ==
    /\ work.pc = "verify"
    /\ residue' = [residue EXCEPT !.wal = {}]
    /\ store' = SetOk(store)
    /\ AfterWork
    /\ UNCHANGED <<cells, items, cipher, seal, budget>>

\* A reader holds a snapshot, or a statement fails: finish_store records the
\* debt, run_pending_vacuum leaves the record as it is; both errors are logged.
WorkFails ==
    /\ work.pc \in {"checkpoint", "scrub", "vacuum", "verify"}
    /\ budget.faults > 0
    /\ budget' = [budget EXCEPT !.faults = @ - 1]
    /\ store' = IF work.job = "finish" THEN SetPending(store, FALSE, FALSE) ELSE store
    /\ AfterWork
    /\ UNCHANGED <<cells, items, residue, cipher, seal>>

-----------------------------------------------------------------------------
(* migrate_columns.                                                          *)

\* A store with many messages is served while a thread migrates it.
SpawnMigration ==
    /\ work.pc = "begin" /\ proc = "opening" /\ work.item = 1
    /\ proc' = "serving"
    /\ work' = [work EXCEPT !.inline = FALSE]
    /\ UNCHANGED <<cells, items, store, residue, cipher, seal, budget>>

\* The next column that is not finished; the debt is recorded with its start.
Unfinished == {i \in Items : i >= work.item /\ items[i].state # "sealed"}
BeginItem ==
    /\ work.pc = "begin" /\ Unfinished # {}
    /\ LET i == Min(Unfinished) IN
         /\ items' = [items EXCEPT ![i].state = "sealing"]
         /\ work' = [work EXCEPT !.pc = "batch", !.item = i]
    /\ store' = MarkScrubOwed(store)
    /\ UNCHANGED <<cells, residue, proc, cipher, seal, budget>>

\* The old page images of the plain values among these rows stay in the WAL.
WithStale(i, rows) ==
    [residue EXCEPT !.wal = @ \cup {<<i, k>> : k \in {j \in rows : cells[i][j].form = Plain}}]

SealBatch ==
    /\ work.pc = "batch"
    /\ LET i == work.item
           rows == Batch(i) IN
         /\ cells' = [cells EXCEPT ![i] =
                [k \in KeysOf[i] |-> IF k \in rows THEN Reseal(@[k], cipher) ELSE @[k]]]
         /\ items' = [items EXCEPT ![i].cursor = IF rows = {} THEN @ ELSE Max(rows)]
         /\ residue' = WithStale(i, rows)
         /\ work' = [work EXCEPT
                !.sealed = @ \/ \E k \in rows : NeedsReseal(cells[i][k], cipher),
                !.unreadable = @ \/ \E k \in rows : Unreadable(cells[i][k], cipher),
                !.pc = IF Cardinality(rows) < BatchSize THEN "end" ELSE @]
    /\ UNCHANGED <<store, proc, cipher, seal, budget>>

\* The last unfinished column of a retired store moves its key check value.
EndItem ==
    /\ work.pc = "end"
    /\ items' = [items EXCEPT ![work.item] = [state |-> "sealed", cursor |-> NoCursor]]
    /\ store' = IF work.retired /\ ~work.unreadable /\ AllItemsSealed(items')
                THEN RecordKcv(store, cipher.cur) ELSE store
    /\ work' = [work EXCEPT !.pc = "begin", !.item = @ + 1]
    /\ UNCHANGED <<cells, residue, proc, cipher, seal, budget>>

\* Inline, what was sealed is scrubbed now; a thread leaves that to the next start.
MigrationDone ==
    /\ work.pc = "begin" /\ Unfinished = {}
    /\ IF work.inline /\ work.sealed
       THEN /\ work' = [work EXCEPT !.pc = "checkpoint", !.job = "finish"]
            /\ UNCHANGED proc
       ELSE /\ work' = Idle
            /\ proc' = "serving"
    /\ UNCHANGED <<cells, items, store, residue, cipher, seal, budget>>

\* A transaction fails: the open fails with it, a thread stops for this run.
MigrationFails ==
    /\ work.pc \in {"begin", "batch", "end"} /\ budget.faults > 0
    /\ budget' = [budget EXCEPT !.faults = @ - 1]
    /\ work' = Idle
    /\ proc' = IF work.inline THEN "down" ELSE proc
    /\ UNCHANGED <<cells, items, store, residue, cipher, seal>>

-----------------------------------------------------------------------------
(* Requests and the environment.                                             *)

\* Requests seal what they write under the current root; in compat mode text
\* that looks like an envelope is escaped; an unhealthy store refuses.  A row the
\* migration has not reached yet may be plain: writing over it leaves its old bytes.
Write(i, k) ==
    /\ proc = "serving" /\ seal # "unhealthy" /\ budget.writes > 0
    /\ budget' = [budget EXCEPT !.writes = @ - 1]
    /\ \E esc \in BOOLEAN :
         cells' = [cells EXCEPT ![i][k] =
                     IF seal = "sealing" THEN [form |-> cipher.cur, esc |-> FALSE]
                     ELSE [form |-> Plain, esc |-> esc]]
    /\ residue' = WithStale(i, {k})
    /\ UNCHANGED <<items, store, proc, cipher, seal, work>>

\* A deletion needs no key: an unhealthy store deletes too.
DeleteRow(i, k) ==
    /\ proc = "serving" /\ budget.writes > 0
    /\ cells[i][k].form # Absent
    /\ budget' = [budget EXCEPT !.writes = @ - 1]
    /\ cells' = [cells EXCEPT ![i][k] = [form |-> Absent, esc |-> FALSE]]
    /\ residue' = WithStale(i, {k})
    /\ UNCHANGED <<items, store, proc, cipher, seal, work>>

\* The process exits or is killed; committed transactions stay.
Exit ==
    /\ proc # "down"
    /\ proc' = "down" /\ work' = Idle
    /\ UNCHANGED <<cells, items, store, residue, cipher, seal, budget>>

\* VACUUM_RETRY_SECS pass since the last refusal.
DayPasses ==
    /\ store.refused
    /\ store' = [store EXCEPT !.refused = FALSE]
    /\ UNCHANGED <<cells, items, residue, proc, cipher, seal, work, budget>>

MigrationStep ==
    \/ ResetItem \/ NothingPending \/ BeginPending \/ Checkpoint \/ Scrub \/ Vacuum
    \/ Verified \/ BeginItem \/ SealBatch \/ EndItem \/ MigrationDone

MigrationNext ==
    \/ StartKeyless
    \/ \E c \in Ciphers : StartSealing(c)
    \/ MigrationStep
    \/ SpawnMigration \/ ScrubNoRoom \/ VacuumDeferred \/ WorkFails \/ MigrationFails
    \/ \E i \in Items : \E k \in KeysOf[i] : Write(i, k) \/ DeleteRow(i, k)
    \/ Exit \/ DayPasses

MigrationSpec == MigrationInit /\ [][MigrationNext]_migrationVars

\* The operating system runs the thread that has a step to take; nobody promises
\* that the process is started again.
MigrationFairSpec == MigrationSpec /\ WF_migrationVars(MigrationStep)

-----------------------------------------------------------------------------
(* Properties.                                                               *)

\* The rows the migration has passed: a finished column's, and those of a started
\* one up to its cursor.
Behind(i, k) ==
    \/ items[i].state = "sealed"
    \/ items[i].state = "sealing" /\ k <= items[i].cursor

\* A store recorded `ok` once its migration began holds nothing an earlier version
\* freed, and no old bytes of a row the migration has passed: whatever failed or
\* stopped in between, the debt was recorded first (mark_scrub_owed, finish_store,
\* run_pending_vacuum), also for the plain rows that requests wrote over or deleted
\* ahead of the cursor, with no debt recorded at that moment.
Started == \E i \in Items : items[i].state \in {"sealing", "sealed"}
Scrubbed ==
    /\ ~residue.free /\ ~residue.slack
    /\ \A i \in Items : \A k \in KeysOf[i] : Behind(i, k) => <<i, k>> \notin residue.wal
OkIsScrubbed == store.row = "ok" /\ Started => Scrubbed

\* A column that is finished, and the part of it that the cursor has passed,
\* holds no plaintext: not even a row written behind the cursor by a request,
\* or by a process that has no key.
NoPlainBehindCursor ==
    \A i \in Items : \A k \in KeysOf[i] : Behind(i, k) => cells[i][k].form # Plain

\* The compat escape is not sealed into a value (reseal_value strips it).
EscapeIsNotSealed ==
    \A i \in Items : \A k \in KeysOf[i] : cells[i][k].esc => cells[i][k].form = Plain

\* The three together: what a migration leaves behind is sealed, scrubbed and
\* reads back as what was stored.
MigrationLeavesNoPlain == OkIsScrubbed /\ NoPlainBehindCursor /\ EscapeIsNotSealed

\* A store whose record names the current root has nothing under a retired one,
\* so the owner may drop retired roots (migrate_columns moves the record only
\* when "every value now opens under the current root").
CurrentIsWhole ==
    seal = "sealing" /\ proc # "down" /\ store.kcv = cipher.cur =>
        \A i \in Items : \A k \in KeysOf[i] : cells[i][k].form \notin cipher.retired

\* A started migration finishes every column unless the process exits or a
\* transaction fails, however requests write meanwhile.
MigrationFinishes ==
    work.pc = "begin" ~> \/ \A i \in Items : items[i].state = "sealed"
                         \/ proc = "down"
                         \/ budget.faults < MaxFaults
=============================================================================
