------------------------------ MODULE BlobStore ------------------------------
(***************************************************************************)
(* Attachments and raw MIME: content-addressed files that messages in the  *)
(* database refer to.  Files and rows do not change together: the module   *)
(* has the inserts and deletions that hold the connection lock, the queue  *)
(* of files to remove, what a start repairs, and the two actors that use   *)
(* the files without the lock, readers and the thread that seals files of  *)
(* a store that had no key.                                                *)
(***************************************************************************)
EXTENDS Integers

CONSTANTS
  Messages,   \* message ids; they are uuids and not reused
  InboxOf,    \* [Messages -> Inboxes]
  Inboxes,
  Blobs,      \* contents, and so file names
  BlobsOf,    \* [Messages -> SUBSET Blobs]: attachments and raw MIME
  Readers,    \* concurrent downloads
  NoBlob, NoMessage,
  MaxStarts,  \* bound: starts of the process in a behaviour
  MaxFaults,  \* bound: failing statements and file operations
  MaxShort    \* bound: plain writes that fail half way

ASSUME BlobShape ==
  /\ InboxOf \in [Messages -> Inboxes]
  /\ BlobsOf \in [Messages -> SUBSET Blobs]
ASSUME NoNames == NoBlob \notin Blobs /\ NoMessage \notin Messages
ASSUME Bounds == {MaxStarts, MaxFaults, MaxShort} \subseteq Nat

VARIABLES
  \* the database
  inboxes,  \* existing inboxes
  rows,     \* committed messages
  queue,    \* mail_blob_cleanup
  keyed,    \* the store has recorded a key check value
  \* the blob directory
  file,     \* [Blobs -> Forms]
  \* the process
  mode,     \* its StoreSeal, or "off"
  task,     \* what holds the connection lock
  msg,      \* the message being inserted
  todo,     \* blobs the insert has yet to write, or the drain to look at
  done,     \* queue entries the drain's open transaction deletes
  writing,  \* the blob being written in place
  sealer,   \* the sealing thread: [at, blob, got]
  reader,   \* [Readers -> a download: [at, msg, blob, got]]
  \* bounds and history
  spent,    \* message ids used
  starts, faults, shorts,
  cut,      \* blobs a plain write left short
  raced,    \* blobs the sealing thread read after they had been replaced
  stray     \* files no queue entry announces: of inserts that did not commit,
            \* or renamed into place after their last row went

db      == <<inboxes, rows, queue>>
lock    == <<task, msg, todo, done, writing>>
bounds  == <<starts, faults, shorts>>
history == <<spent, cut, raced, stray>>
vars    == <<db, keyed, file, mode, lock, sealer, reader, bounds, history>>

-----------------------------------------------------------------------------
(* Values                                                                  *)

\* A file as read_blob sees it: the plain content, the sealed content, too
\* few bytes (sealed or not), or the sealed form of a sealed file.
Forms == {"none", "plain", "sealed", "short", "twice"}
Modes == {"off", "compat", "sealing", "unhealthy"}

Idle   == [at |-> "idle", msg |-> NoMessage, blob |-> NoBlob, got |-> "none"]
Asleep == [at |-> "idle", blob |-> NoBlob, got |-> "none"]
Downloads == [at : {"idle", "named", "open", "ok", "failed"},
              msg : Messages \cup {NoMessage},
              blob : Blobs \cup {NoBlob}, got : Forms]
Seals == [at : {"idle", "check", "copy"}, blob : Blobs \cup {NoBlob}, got : Forms]

\* blob_references_sync
Referenced(n) == \E m \in rows : n \in BlobsOf[m]
Whole(n) == file[n] \in {"plain", "sealed"}

Fault == faults < MaxFaults /\ faults' = faults + 1

Release ==
  /\ task' = "none" /\ msg' = NoMessage
  /\ todo' = {} /\ done' = {} /\ writing' = NoBlob

\* What an insert that does not commit leaves behind.
Written == BlobsOf[msg] \ (todo \ {writing})

-----------------------------------------------------------------------------
(* insert_message_in                                                       *)

\* The transaction begins; the inbox exists. Without a usable key for a
\* sealed store nothing is written.
BeginInsert(m) ==
  /\ task = "none" /\ mode \in {"compat", "sealing"}
  /\ m \notin spent /\ InboxOf[m] \in inboxes
  /\ task' = "insert" /\ msg' = m /\ todo' = BlobsOf[m]
  /\ spent' = spent \cup {m}
  /\ UNCHANGED <<db, keyed, file, mode, done, writing, sealer, reader, bounds,
                 cut, raced, stray>>

\* write_blob: the path exists.
BlobExists(n) ==
  /\ task = "insert" /\ n \in todo /\ writing = NoBlob
  /\ file[n] # "none"
  /\ todo' = todo \ {n}
  /\ UNCHANGED <<db, keyed, file, mode, task, msg, done, writing, sealer, reader,
                 bounds, history>>

\* write_blob with a key: a synced temporary file and a rename.
WriteSealed(n) ==
  /\ task = "insert" /\ n \in todo /\ mode = "sealing"
  /\ file[n] = "none"
  /\ file' = [file EXCEPT ![n] = "sealed"]
  /\ todo' = todo \ {n}
  /\ UNCHANGED <<db, keyed, mode, task, msg, done, writing, sealer, reader,
                 bounds, history>>

\* write_private: the file is created under its final name, then filled.
BeginPlain(n) ==
  /\ task = "insert" /\ n \in todo /\ mode = "compat" /\ writing = NoBlob
  /\ file[n] = "none"
  /\ file' = [file EXCEPT ![n] = "short"]
  /\ writing' = n
  /\ UNCHANGED <<db, keyed, mode, task, msg, todo, done, sealer, reader,
                 bounds, history>>

EndPlain ==
  /\ writing # NoBlob
  /\ file' = [file EXCEPT ![writing] = "plain"]
  /\ todo' = todo \ {writing}
  /\ writing' = NoBlob
  /\ UNCHANGED <<db, keyed, mode, task, msg, done, sealer, reader, bounds, history>>

\* write_all fails, say on a full disk. The file stays.
CutShort ==
  /\ writing # NoBlob
  /\ shorts < MaxShort /\ shorts' = shorts + 1
  /\ cut' = cut \cup {writing}
  /\ stray' = stray \cup {n \in Written : ~Referenced(n)}
  /\ Release
  /\ UNCHANGED <<db, keyed, file, mode, sealer, reader, starts, faults, spent, raced>>

\* A blob cannot be written or a statement fails: the transaction rolls back.
InsertFails ==
  /\ task = "insert" /\ writing = NoBlob /\ Fault
  /\ stray' = stray \cup {n \in Written : ~Referenced(n)}
  /\ Release
  /\ UNCHANGED <<db, keyed, file, mode, sealer, reader, starts, shorts, spent, cut, raced>>

\* Mutant of InsertCommits: the transaction may have been rolled back.
InsertCommitsAnyway ==
  /\ todo = {} /\ writing = NoBlob
  /\ rows' = rows \cup {msg}
  /\ stray' = stray
  /\ Release
  /\ UNCHANGED <<inboxes, queue, keyed, file, mode, sealer, reader, bounds,
                 spent, cut, raced>>

InsertCommits ==
  /\ task = "insert" /\ todo = {} /\ writing = NoBlob
  /\ rows' = rows \cup {msg}
  /\ stray' = stray \ BlobsOf[msg]
  /\ Release
  /\ UNCHANGED <<inboxes, queue, keyed, file, mode, sealer, reader, bounds,
                 spent, cut, raced>>

-----------------------------------------------------------------------------
(* Deletions, and the drain of the queue that follows each                 *)

BeginDrain(q) ==
  /\ task' = "drain" /\ todo' = q /\ done' = {}
  /\ UNCHANGED <<msg, writing>>

\* delete_message queues every blob of the message, shared or not.
DeleteMessage(m) ==
  /\ task = "none" /\ mode # "off"
  /\ m \in rows
  /\ rows' = rows \ {m}
  /\ queue' = queue \cup BlobsOf[m]
  /\ BeginDrain(queue')
  /\ UNCHANGED <<inboxes, keyed, file, mode, sealer, reader, bounds, history>>

\* Mutant of DeleteInbox: the references are counted before the rows go.
DeleteInboxCountsFirst(i) ==
  /\ task = "none" /\ mode # "off"
  /\ inboxes' = inboxes \ {i}
  /\ rows' = {m \in rows : InboxOf[m] # i}
  /\ queue' = queue \cup {n \in Blobs : (\E m \in rows \ rows' : n \in BlobsOf[m])
                                        /\ ~Referenced(n)}
  /\ BeginDrain(queue')
  /\ UNCHANGED <<keyed, file, mode, sealer, reader, bounds, history>>

\* delete_inbox queues the blobs no other inbox's message refers to. An unknown
\* inbox only drains.
DeleteInbox(i) ==
  /\ task = "none" /\ mode # "off"
  /\ inboxes' = inboxes \ {i}
  /\ rows' = {m \in rows : InboxOf[m] # i}
  /\ queue' = queue \cup {n \in Blobs : (\E m \in rows \ rows' : n \in BlobsOf[m])
                                        /\ ~Referenced(n)'}
  /\ BeginDrain(queue')
  /\ UNCHANGED <<keyed, file, mode, sealer, reader, bounds, history>>

\* A new row took the blob up, or another one still has it.
DrainKeeps(n) ==
  /\ task = "drain" /\ n \in todo /\ Referenced(n)
  /\ todo' = todo \ {n} /\ done' = done \cup {n}
  /\ UNCHANGED <<db, keyed, file, mode, task, msg, writing, sealer, reader, bounds, history>>

\* Mutant of DrainRemoves: no look at the references.
DrainRemovesBlind(n) ==
  /\ task = "drain" /\ n \in todo
  /\ file' = [file EXCEPT ![n] = "none"]
  /\ todo' = todo \ {n} /\ done' = done \cup {n}
  /\ stray' = stray \ {n}
  /\ UNCHANGED <<db, keyed, mode, task, msg, writing, sealer, reader, bounds, spent, cut, raced>>

\* remove_file, or the file is gone already.
DrainRemoves(n) ==
  /\ task = "drain" /\ n \in todo /\ ~Referenced(n)
  /\ file' = [file EXCEPT ![n] = "none"]
  /\ todo' = todo \ {n} /\ done' = done \cup {n}
  /\ stray' = stray \ {n}
  /\ UNCHANGED <<db, keyed, mode, task, msg, writing, sealer, reader, bounds, spent, cut, raced>>

\* remove_file fails: the entry stays for the next drain.
DrainFails(n) ==
  /\ task = "drain" /\ n \in todo /\ ~Referenced(n) /\ Fault
  /\ todo' = todo \ {n}
  /\ UNCHANGED <<db, keyed, file, mode, task, msg, done, writing, sealer, reader,
                 starts, shorts, history>>

DrainCommits ==
  /\ task = "drain" /\ todo = {}
  /\ queue' = queue \ done
  /\ Release
  /\ UNCHANGED <<inboxes, rows, keyed, file, mode, sealer, reader, bounds, history>>

\* The drain's own transaction fails: the files that went stay queued.
DrainRollsBack ==
  /\ task = "drain" /\ Fault
  /\ Release
  /\ UNCHANGED <<db, keyed, file, mode, sealer, reader, starts, shorts, history>>

-----------------------------------------------------------------------------
(* The process                                                             *)

\* Exit or crash. An insert under way leaves its files.
Stop ==
  /\ mode # "off"
  /\ mode' = "off"
  /\ cut' = IF writing = NoBlob THEN cut ELSE cut \cup {writing}
  /\ stray' = IF task = "insert" THEN stray \cup {n \in Written : ~Referenced(n)}
              ELSE stray
  /\ Release
  /\ sealer' = Asleep
  /\ reader' = [r \in Readers |-> Idle]
  /\ UNCHANGED <<db, keyed, file, bounds, spent, raced>>

\* open_with_sealer: the drain, then the sweep of what no row refers to.
\* Files in `stuck` cannot be removed. With a key the store records it; a
\* sealed store is opened without one, for reading what is not sealed.
Start(key, stuck) ==
  /\ mode = "off"
  /\ starts < MaxStarts /\ starts' = starts + 1
  /\ IF stuck = {} THEN UNCHANGED faults ELSE Fault
  /\ mode' = IF key THEN "sealing" ELSE IF keyed THEN "unhealthy" ELSE "compat"
  /\ keyed' = (keyed \/ key)
  /\ file' = [n \in Blobs |-> IF Referenced(n) \/ n \in stuck THEN file[n] ELSE "none"]
  /\ queue' = {n \in queue : ~Referenced(n) /\ file'[n] # "none"}
  /\ stray' = {n \in stray : file'[n] # "none"}
  /\ UNCHANGED <<inboxes, rows, lock, sealer, reader, shorts, spent, cut, raced>>

-----------------------------------------------------------------------------
(* seal_legacy_blobs: a thread without the lock                            *)

\* seal_file_in_place opens the path and finds no magic number.
SealCheck(n) ==
  /\ mode = "sealing" /\ sealer.at = "idle"
  /\ file[n] \in {"plain", "short"}
  /\ sealer' = [at |-> "check", blob |-> n, got |-> "none"]
  /\ UNCHANGED <<db, keyed, file, mode, lock, reader, bounds, history>>

\* It opens the path again and copies what is there now into a sealed
\* temporary file.
SealCopy ==
  /\ sealer.at = "check" /\ file[sealer.blob] # "none"
  /\ sealer' = [sealer EXCEPT !.at = "copy", !.got = file[sealer.blob]]
  /\ raced' = IF file[sealer.blob] = "sealed" THEN raced \cup {sealer.blob} ELSE raced
  /\ UNCHANGED <<db, keyed, file, mode, lock, reader, bounds, spent, cut, stray>>

\* The copy reads back as what was copied, and is renamed into place.
SealReplace ==
  /\ sealer.at = "copy"
  /\ file' = [file EXCEPT ![sealer.blob] =
       IF sealer.got = "plain" THEN "sealed"
       ELSE IF sealer.got = "short" THEN "short" ELSE "twice"]
  /\ stray' = IF Referenced(sealer.blob) THEN stray ELSE stray \cup {sealer.blob}
  /\ sealer' = Asleep
  /\ UNCHANGED <<db, keyed, mode, lock, reader, bounds, spent, cut, raced>>

\* The path is gone, space is short, or a file operation fails.
SealGivesUp ==
  /\ sealer.at # "idle"
  /\ sealer' = Asleep
  /\ UNCHANGED <<db, keyed, file, mode, lock, reader, bounds, history>>

-----------------------------------------------------------------------------
(* read_raw, read_attachment                                               *)

\* The row, under the lock.
ReadName(r, m, n) ==
  /\ mode # "off" /\ task = "none" /\ reader[r].at = "idle"
  /\ m \in rows /\ n \in BlobsOf[m]
  /\ reader' = [reader EXCEPT ![r] =
       [at |-> "named", msg |-> m, blob |-> n, got |-> "none"]]
  /\ UNCHANGED <<db, keyed, file, mode, lock, sealer, bounds, history>>

\* read_blob opens the path once; what replaces or removes it later does not
\* change what this reader has open.
ReadOpen(r) ==
  /\ reader[r].at = "named"
  /\ LET f == file[reader[r].blob]
     IN  reader' = [reader EXCEPT ![r].got = f,
                                  ![r].at = IF f = "none" THEN "failed" ELSE "open"]
  /\ UNCHANGED <<db, keyed, file, mode, lock, sealer, bounds, history>>

\* Mutant of ReadClose: a process with a key takes every file for sealed.
ReadCloseExpectsSealed(r) ==
  /\ reader[r].at = "open"
  /\ reader' = [reader EXCEPT ![r].at =
       IF reader[r].got = (IF mode = "sealing" THEN "sealed" ELSE "plain")
       THEN "ok" ELSE "failed"]
  /\ UNCHANGED <<db, keyed, file, mode, lock, sealer, bounds, history>>

\* It decrypts a sealed file, for which it needs the key, and compares the
\* digest with the name.
ReadClose(r) ==
  /\ reader[r].at = "open"
  /\ reader' = [reader EXCEPT ![r].at =
       IF reader[r].got = "plain" \/ (reader[r].got = "sealed" /\ mode = "sealing")
       THEN "ok" ELSE "failed"]
  /\ UNCHANGED <<db, keyed, file, mode, lock, sealer, bounds, history>>

ReadEnds(r) ==
  /\ reader[r].at \in {"ok", "failed"}
  /\ reader' = [reader EXCEPT ![r] = Idle]
  /\ UNCHANGED <<db, keyed, file, mode, lock, sealer, bounds, history>>

-----------------------------------------------------------------------------
(* Specification                                                           *)

Init ==
  /\ inboxes = Inboxes /\ rows = {} /\ queue = {} /\ keyed = FALSE
  /\ file = [n \in Blobs |-> "none"]
  /\ mode = "off"
  /\ task = "none" /\ msg = NoMessage /\ todo = {} /\ done = {} /\ writing = NoBlob
  /\ sealer = Asleep
  /\ reader = [r \in Readers |-> Idle]
  /\ spent = {} /\ starts = 0 /\ faults = 0 /\ shorts = 0
  /\ cut = {} /\ raced = {} /\ stray = {}

Insert ==
  \/ \E m \in Messages : BeginInsert(m)
  \/ \E n \in Blobs : BlobExists(n) \/ WriteSealed(n) \/ BeginPlain(n)
  \/ EndPlain \/ CutShort \/ InsertFails \/ InsertCommits

Delete ==
  \/ \E m \in Messages : DeleteMessage(m)
  \/ \E i \in Inboxes : DeleteInbox(i)
  \/ \E n \in Blobs : DrainKeeps(n) \/ DrainRemoves(n) \/ DrainFails(n)
  \/ DrainCommits \/ DrainRollsBack

Process == Stop \/ \E key \in BOOLEAN, stuck \in SUBSET Blobs : Start(key, stuck)

Seal == (\E n \in Blobs : SealCheck(n)) \/ SealCopy \/ SealReplace \/ SealGivesUp

Read(r) ==
  \/ \E m \in Messages, n \in Blobs : ReadName(r, m, n)
  \/ ReadOpen(r) \/ ReadClose(r) \/ ReadEnds(r)

Next == Insert \/ Delete \/ Process \/ Seal \/ \E r \in Readers : Read(r)

Spec == Init /\ [][Next]_vars

-----------------------------------------------------------------------------
(* Properties                                                              *)

TypeOK ==
  /\ inboxes \in SUBSET Inboxes
  /\ rows \in SUBSET Messages
  /\ queue \in SUBSET Blobs
  /\ keyed \in BOOLEAN
  /\ file \in [Blobs -> Forms]
  /\ mode \in Modes
  /\ task \in {"none", "insert", "drain"}
  /\ msg \in Messages \cup {NoMessage}
  /\ todo \in SUBSET Blobs
  /\ done \in SUBSET Blobs
  /\ writing \in Blobs \cup {NoBlob}
  /\ sealer \in Seals
  /\ reader \in [Readers -> Downloads]
  /\ spent \in SUBSET Messages
  /\ starts \in 0..MaxStarts /\ faults \in 0..MaxFaults /\ shorts \in 0..MaxShort
  /\ cut \in SUBSET Blobs /\ raced \in SUBSET Blobs /\ stray \in SUBSET Blobs

\* A committed message's blobs are on disk and whole, whatever deletions,
\* drains, sweeps, restarts and the sealing thread do, except for the two
\* faults the next properties isolate.
CommittedIsWhole ==
  \A m \in rows : \A n \in BlobsOf[m] : Whole(n) \/ n \in cut \cup raced

\* A file no message refers to is queued for removal, belongs to the insert
\* under way, or was left by one of the causes the sweep at start is for.
OrphanIsExpected ==
  \A n \in Blobs : file[n] # "none" /\ ~Referenced(n) =>
    n \in queue \cup stray \/ (task = "insert" /\ n \in BlobsOf[msg])

\* A download of a message that is still there succeeds, though the file is
\* replaced or rewritten while it runs.
ReadFailsOnlyIfDeleted ==
  \A r \in Readers : reader[r].at = "failed" =>
    \/ reader[r].msg \notin rows
    \/ reader[r].blob \in cut \cup raced
    \/ mode = "unhealthy"

\* What comments claim and the code does not do (see the README).

\* sealed_file.rs: "Replace the plaintext file at `path` with its sealed form,
\* safely": sealing in place keeps every committed blob whole.
SealingKeepsBlobs == \A m \in rows : \A n \in BlobsOf[m] : Whole(n) \/ n \in cut

\* write_blob: "Write one content-addressed blob (`name` = plaintext digest)
\* unless it exists": what a committed message refers to has that content.
ExistingIsWhole == \A m \in rows : \A n \in BlobsOf[m] : Whole(n) \/ n \in raced

=============================================================================
