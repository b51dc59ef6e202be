------------------------------- MODULE SealedLog -------------------------------
(***************************************************************************)
(* One append-only sealed log and the file it is compacted to              *)
(* (ryu-crypto, sealed_log.rs): records are appended by one writer, made   *)
(* durable by sync, and recovered by a scan that cuts off a torn tail.     *)
(*                                                                         *)
(* A frame on disk is a whole record, a short one (its length or body is   *)
(* incomplete, or it is zeros) or a garbled one (its length is all there   *)
(* and its body is not what was written).  A process that exits leaves     *)
(* what it wrote; a power failure leaves what was synced, some of the      *)
(* frames written after that in their order, and perhaps a torn one.       *)
(***************************************************************************)
EXTENDS Naturals, Sequences, SequencesExt

CONSTANTS
  MaxRecords,  \* appends in the log's life
  MaxFaulty    \* power failures and failing writes and syncs

ASSUME LogBounds == MaxRecords \in Nat /\ MaxFaulty \in Nat

VARIABLES
  logFile,    \* the file: absent, cut inside its header, or a log and its frames
  durable,    \* how many of its frames are on stable storage
  logWriter,  \* the SealedLogWriter
  target,     \* the compacted file, at its final name
  logCall,    \* what the owner is doing: nothing, or half way through a call
  written,    \* the records of appends that answered Ok and are not lost since
  committed,  \* those that a successful sync covered
  continued,  \* history: a writer went on after an append that failed half way
  rotated,    \* the log's key is a retired one by now
  logUsed     \* records and faults so far

vars_sl == <<logFile, durable, logWriter, target, logCall, written, committed,
             continued, rotated, logUsed>>

Fits == {"whole", "short", "garbled"}
\* `no' is the index that the record was sealed for.
LogFrame == [record: 1..MaxRecords, no: Nat, fit: Fits]
NoTarget == <<0>>

LogTypeOK ==
  /\ logFile \in [state: {"absent", "stub", "log"}, frames: Seq(LogFrame)]
  /\ durable \in Nat
  /\ logWriter \in [up: BOOLEAN, next: Nat, torn: BOOLEAN]
  /\ target \in Seq(0..MaxRecords)
  /\ logCall \in {"none", "create", "publish"}
  /\ written \in Seq(1..MaxRecords) /\ committed \in Seq(1..MaxRecords)
  /\ continued \in BOOLEAN /\ rotated \in BOOLEAN
  /\ logUsed \in [records: 0..MaxRecords, faults: 0..MaxFaulty]

NoLogWriter == [up |-> FALSE, next |-> 0, torn |-> FALSE]

LogInit ==
  /\ logFile = [state |-> "absent", frames |-> <<>>]
  /\ durable = 0 /\ logWriter = NoLogWriter /\ target = NoTarget /\ logCall = "none"
  /\ written = <<>> /\ committed = <<>>
  /\ continued = FALSE /\ rotated = FALSE
  /\ logUsed = [records |-> 0, faults |-> 0]

LogFault == logUsed.faults < MaxFaulty /\ logUsed' = [logUsed EXCEPT !.faults = @ + 1]

(***************************************************************************)
(* The scan.                                                               *)
(***************************************************************************)
Frames == logFile.frames
Opens(i) == Frames[i].fit = "whole" /\ Frames[i].no = i - 1
\* The records before the first frame that does not open.
Good == CHOOSE n \in 0..Len(Frames) :
          /\ \A i \in 1..n : Opens(i)
          /\ n < Len(Frames) => ~Opens(n + 1)
Recovered == [i \in 1..Good |-> Frames[i].record]

Clean == Good = Len(Frames)
\* What a scan makes of the bytes after Good: a tail to cut off, or corruption.  A
\* short frame with more behind it swallows what follows or leads into the middle
\* of it.  A garbled frame at the very start is taken for another key.
TailOutcomes ==
  IF Clean THEN {"clean"}
  ELSE LET bad == Frames[Good + 1].fit
           last == Good + 1 = Len(Frames)
       IN IF last /\ (bad = "short" \/ Good > 0) THEN {"torn"}
          ELSE IF ~last /\ bad = "short" THEN {"torn", "refused"}
          ELSE {"refused"}
LogOutcomes == IF logFile.state = "log" THEN TailOutcomes ELSE {"refused"}

(***************************************************************************)
(* The writer.                                                             *)
(***************************************************************************)
Unopened == ~logWriter.up /\ logCall = "none"

\* create, or open_append of a path that does not exist: the file, then its header
\* and a sync.
CreateLog ==
  /\ Unopened /\ logFile.state = "absent" /\ ~rotated
  /\ logFile' = [state |-> "stub", frames |-> <<>>]
  /\ logCall' = "create"
  /\ UNCHANGED <<durable, logWriter, target, written, committed, continued, rotated, logUsed>>

WriteHeader ==
  /\ logCall = "create"
  /\ logFile' = [logFile EXCEPT !.state = "log"]
  /\ logCall' = "none" /\ logWriter' = [NoLogWriter EXCEPT !.up = TRUE]
  /\ UNCHANGED <<durable, target, written, committed, continued, rotated, logUsed>>

HeaderFails ==
  /\ logCall = "create" /\ LogFault
  /\ logCall' = "none"
  /\ UNCHANGED <<logFile, durable, logWriter, target, written, committed, continued, rotated>>

\* Mutant of OpenAppend: the torn tail is left where it is.
OpenAppendKeepsTail ==
  /\ Unopened /\ ~rotated
  /\ "torn" \in LogOutcomes \/ "clean" \in LogOutcomes
  /\ logWriter' = [up |-> TRUE, next |-> Good, torn |-> FALSE]
  /\ written' = Recovered
  /\ UNCHANGED <<logFile, durable, target, logCall, committed, continued, rotated, logUsed>>

\* open_append of a log: it is scanned, a torn tail is cut off and the cut synced;
\* a log under a retired key is refused.
OpenAppend ==
  /\ Unopened /\ ~rotated
  /\ "torn" \in LogOutcomes \/ "clean" \in LogOutcomes
  /\ logFile' = [logFile EXCEPT !.frames = SubSeq(@, 1, Good)]
  /\ durable' = IF Clean THEN durable ELSE Good
  /\ logWriter' = [up |-> TRUE, next |-> Good, torn |-> FALSE]
  /\ written' = Recovered
  /\ UNCHANGED <<target, logCall, committed, continued, rotated, logUsed>>

Append1(fit) ==
  [logFile EXCEPT !.frames =
     Append(@, [record |-> logUsed.records + 1, no |-> logWriter.next, fit |-> fit])]

AppendRecord ==
  /\ logWriter.up /\ logUsed.records < MaxRecords
  /\ logFile' = Append1("whole")
  /\ logWriter' = [logWriter EXCEPT !.next = @ + 1]
  /\ logUsed' = [logUsed EXCEPT !.records = @ + 1]
  /\ written' = Append(written, logUsed.records + 1)
  /\ continued' = (continued \/ logWriter.torn)
  /\ UNCHANGED <<durable, target, logCall, committed, rotated>>

\* write_all fails half way: the index stays, the file position does not.
AppendFails ==
  /\ logWriter.up /\ logUsed.records < MaxRecords /\ logUsed.faults < MaxFaulty
  /\ logUsed' = [records |-> logUsed.records + 1, faults |-> logUsed.faults + 1]
  /\ logFile' = Append1("short")
  /\ logWriter' = [logWriter EXCEPT !.torn = TRUE]
  /\ continued' = (continued \/ logWriter.torn)
  /\ UNCHANGED <<durable, target, logCall, written, committed, rotated>>

\* Mutant of SyncLog: the records are flushed to the kernel and not synced.
SyncLogFlushes ==
  /\ logWriter.up
  /\ committed' = written
  /\ UNCHANGED <<logFile, durable, logWriter, target, logCall, written, continued, rotated, logUsed>>

SyncLog ==
  /\ logWriter.up
  /\ durable' = Len(Frames) /\ committed' = written
  /\ UNCHANGED <<logFile, logWriter, target, logCall, written, continued, rotated, logUsed>>

CloseLog ==
  /\ logWriter.up
  /\ logWriter' = NoLogWriter
  /\ UNCHANGED <<logFile, durable, target, logCall, written, committed, continued, rotated, logUsed>>

(***************************************************************************)
(* Compaction; the log is left for the caller to delete.                   *)
(***************************************************************************)
\* The strict read, the sealed copy under a temporary name and its sync.
CompactLog ==
  /\ Unopened /\ logFile.state = "log" /\ Clean
  /\ logCall' = "publish"
  /\ UNCHANGED <<logFile, durable, logWriter, target, written, committed, continued, rotated, logUsed>>

\* The rename, and the sync of the directory.
PublishTarget ==
  /\ logCall = "publish"
  /\ target' = Recovered /\ logCall' = "none"
  /\ UNCHANGED <<logFile, durable, logWriter, written, committed, continued, rotated, logUsed>>

PublishFails ==
  /\ logCall = "publish" /\ LogFault
  /\ logCall' = "none"
  /\ UNCHANGED <<logFile, durable, logWriter, target, written, committed, continued, rotated>>

(***************************************************************************)
(* The environment.                                                        *)
(***************************************************************************)
\* The process exits: the kernel keeps what was written.
ExitLog ==
  /\ logWriter.up \/ logCall # "none"
  /\ logWriter' = NoLogWriter /\ logCall' = "none"
  /\ UNCHANGED <<logFile, durable, target, written, committed, continued, rotated, logUsed>>

\* Power fails: the frames after the durable ones survive in order, up to one that
\* may be torn.
PowerFails ==
  /\ LogFault
  /\ \E kept \in durable..Len(Frames), torn \in {"none", "short", "garbled"} :
       /\ torn # "none" => kept < Len(Frames)
       /\ logFile' = [logFile EXCEPT !.frames =
            IF torn = "none" THEN SubSeq(@, 1, kept)
            ELSE Append(SubSeq(@, 1, kept), [@[kept + 1] EXCEPT !.fit = torn])]
       /\ durable' = Len(logFile'.frames)
  /\ logWriter' = NoLogWriter /\ logCall' = "none"
  /\ written' = committed
  /\ UNCHANGED <<target, committed, continued, rotated>>

\* The owner's key is rotated and the old one retired.
RotateLogKey ==
  /\ ~rotated /\ Unopened /\ logFile.state = "log"
  /\ rotated' = TRUE
  /\ UNCHANGED <<logFile, durable, logWriter, target, logCall, written, committed, continued, logUsed>>

LogNext ==
  \/ CreateLog \/ WriteHeader \/ HeaderFails \/ OpenAppend
  \/ AppendRecord \/ AppendFails \/ SyncLog \/ CloseLog
  \/ CompactLog \/ PublishTarget \/ PublishFails
  \/ ExitLog \/ PowerFails \/ RotateLogKey

LogSpec == LogInit /\ [][LogNext]_vars_sl

(***************************************************************************)
(* Properties.                                                             *)
(***************************************************************************)
\* A record that was synced is read back: the log opens, for a reader, for append
\* and under a retired key, and its records begin with the synced ones in order,
\* whatever torn bytes a failed write or a power failure left behind them.  The
\* exception is a writer that went on after an append failed half way.
CommittedLogOpens ==
  ~continued /\ committed # <<>> =>
    /\ LogOutcomes \cap {"refused"} = {}
    /\ IsPrefix(committed, Recovered)

\* The log implements SyncedLog: whatever fails half way, is cut off, recovered or
\* compacted, the records a scan finds only grow by the one just appended or lose an
\* end that was not synced, none comes back or twice, and a sync covers them all.
Promised == INSTANCE SyncedLog WITH
  Records <- 1..MaxRecords,
  NoCopy <- NoTarget,
  entries <- Recovered,
  synced <- IF continued THEN <<>> ELSE committed,
  copy <- target,
  damaged <- continued
ImplementsSyncedLog == Promised!Spec
=============================================================================
