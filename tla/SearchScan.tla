----------------------------- MODULE SearchScan -----------------------------
(***************************************************************************)
(* The free-text search of src/backend/src/store.rs: the rows of an inbox  *)
(* are read newest first in batches of LIMIT and OFFSET, the connection is *)
(* released between two batches, and the messages found are read again by  *)
(* id at the end.  Mail is stored, deleted and moved to or from the trash  *)
(* meanwhile, which moves the rows under the offset.                       *)
(***************************************************************************)
EXTENDS Naturals, Sequences, FiniteSets, SequencesExt, Functions, Selection

CONSTANTS
  Mails,        \* message ids
  ScanColumns,  \* the sealed columns a scan opens, in its order: a sequence
  HitIn,        \* HitIn[m]: the columns of m that hold the needle
  ShutIn,       \* ShutIn[m]: the columns of m that do not open, scanned or not
  Batch,        \* SEARCH_BATCH
  ScanLimit,    \* SEARCH_SCAN_LIMIT
  Limit,        \* most results of the request
  MaxChanges    \* bound: changes to the table during a search

ASSUME SearchBounds ==
  /\ Batch \in Nat \ {0} /\ ScanLimit \in Nat \ {0} /\ Limit \in Nat \ {0}
  /\ MaxChanges \in Nat

VARIABLES
  table,     \* the inbox's messages, newest first
  trashed,   \* those labelled `trash', which the filter leaves out
  scan,      \* the search in progress
  stayed,    \* history: the rows the filter kept from the first batch until now
  shifts,    \* history: rows the filter lost since then, at or before the offset
  changes

vars_ss == <<table, trashed, scan, stayed, shifts, changes>>

Scan == [stage: {"idle", "batch", "read", "done"}, scanned: Nat, matched: Seq(Mails),
         short: BOOLEAN, result: SUBSET Mails]

SearchTypeOK ==
  /\ table \in Seq(Mails)
  /\ trashed \subseteq Mails /\ stayed \subseteq Mails
  /\ scan \in Scan
  /\ shifts \in Nat
  /\ changes \in 0..MaxChanges

SearchInit ==
  /\ table \in {s \in SeqOf(Mails, Cardinality(Mails)) : IsInjective(s)}
  /\ trashed \in SUBSET ToSet(table)
  /\ scan = [stage |-> "idle", scanned |-> 0, matched |-> <<>>, short |-> FALSE, result |-> {}]
  /\ stayed = {} /\ shifts = 0 /\ changes = 0

\* message_filter leaves trashed messages out.
Kept == Selected(table, Mails \ trashed)

Change == changes < MaxChanges /\ changes' = changes + 1

\* A new message is the newest.
InsertMail(m) ==
  /\ Change
  /\ m \notin ToSet(table)
  /\ table' = <<m>> \o table
  /\ UNCHANGED <<trashed, scan, stayed, shifts>>

\* A row that leaves the filter moves one that is not read yet before the offset,
\* unless it was itself still to be read.
ShiftsWithout(m) ==
  IF \E i \in 1..Len(Kept) : i <= scan.scanned /\ Kept[i] = m THEN shifts + 1 ELSE shifts

RemoveMail(m) ==
  /\ Change
  /\ m \in ToSet(table)
  /\ table' = Selected(table, Mails \ {m})
  /\ trashed' = trashed \ {m}
  /\ stayed' = stayed \ {m}
  /\ shifts' = ShiftsWithout(m)
  /\ UNCHANGED scan

\* A label update moves a message to the trash or back.
Relabel(m) ==
  /\ Change
  /\ m \in ToSet(table)
  /\ trashed' = IF m \in trashed THEN trashed \ {m} ELSE trashed \cup {m}
  /\ stayed' = stayed \ {m}
  /\ shifts' = ShiftsWithout(m)
  /\ UNCHANGED <<table, scan>>

\* Mutant of Slice: one row less than asked for.
SliceShort(s, from, count) == SubSeq(s, from, Min({from + count - 2, Len(s)}))

\* LIMIT count OFFSET from - 1 of a sequence of rows.
Slice(s, from, count) == SubSeq(s, from, Min({from + count - 1, Len(s)}))

StartSearch ==
  /\ scan.stage = "idle"
  /\ scan' = [scan EXCEPT !.stage = "batch"]
  /\ stayed' = ToSet(Kept)
  /\ shifts' = 0
  /\ UNCHANGED <<table, trashed, changes>>

\* search_batch opens the columns of a row one by one: the first that holds the
\* needle makes it a match and ends the row, the first that does not open makes it
\* a row to skip.  So a match may hold columns, later ones or ones that no scan
\* reads, that do not open.
Matching ==
  {m \in Mails : \E n \in DOMAIN ScanColumns :
      /\ ScanColumns[n] \in HitIn[m]
      /\ \A k \in 1..n : ScanColumns[k] \notin ShutIn[m]}

\* keep_opened: the whole message opens.
Opening == {m \in Mails : ShutIn[m] = {}}

\* One batch under one lock.  A short batch is the last one.
ScanBatch ==
  LET rows == Slice(Kept, scan.scanned + 1, Batch)
      hits == Selected(rows, Matching)
      scanned == scan.scanned + Len(rows)
      matched == scan.matched \o hits
      short == Len(rows) < Batch
      more == ~short /\ Len(matched) < Limit /\ scanned < ScanLimit
  IN
  /\ scan.stage = "batch"
  /\ scan' = [scan EXCEPT !.scanned = scanned, !.short = short,
       !.matched = IF more THEN matched ELSE Slice(matched, 1, Limit),
       !.stage = IF more THEN "batch" ELSE "read"]
  /\ UNCHANGED <<table, trashed, stayed, shifts, changes>>

\* The rows found are read by id, in their order; an id found twice is one row, the
\* filter is not applied again, a row that does not open whole is left out, and
\* nothing takes its place.
ReadFound ==
  /\ scan.stage = "read"
  /\ scan' = [scan EXCEPT !.stage = "done",
                          !.result = ToSet(scan.matched) \cap ToSet(table) \cap Opening]
  /\ UNCHANGED <<table, trashed, stayed, shifts, changes>>

SearchNext ==
  \/ \E m \in Mails : InsertMail(m) \/ RemoveMail(m) \/ Relabel(m)
  \/ StartSearch \/ ScanBatch \/ ReadFound

SearchSpec == SearchInit /\ [][SearchNext]_vars_ss

(***************************************************************************)
(* Properties.                                                             *)
(***************************************************************************)
\* A search that came to the end of the rows misses no more of them than rows were
\* deleted or trashed before its offset: of the messages that match, open and stayed
\* in the inbox from the first batch on, each such change may hide one, and rows that
\* are added, restored or removed further on hide none.
MissesAreShifts ==
  scan.stage = "done" /\ scan.short /\ Len(scan.matched) < Limit =>
    Cardinality((stayed \cap Matching \cap Opening) \ scan.result) <= shifts

\* The batches of an undisturbed search answer what one query over the scanned
\* rows would: the newest matches, at most Limit, within the scan limit rounded up
\* to whole batches, less those of them that do not open whole.
Rounded == ((ScanLimit + Batch - 1) \div Batch) * Batch
UndisturbedIsExact ==
  scan.stage = "done" /\ changes = 0 =>
    LET newest == Slice(Selected(Slice(Kept, 1, Rounded), Matching), 1, Limit)
    IN scan.matched = newest /\ scan.result = ToSet(newest) \cap Opening

\* Both: what search_message_ids returns while the rows change, or do not.
SearchIsRight == MissesAreShifts /\ UndisturbedIsExact
=============================================================================
