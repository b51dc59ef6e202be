------------------------------ MODULE SealedFile ------------------------------
(***************************************************************************)
(* The chunked sealed file (ryu-crypto, sealed_file.rs): a writer that     *)
(* buffers one chunk, so that it knows which one is the last, and a reader *)
(* that finds the chunks by arithmetic over the file's size.               *)
(*                                                                         *)
(* Plaintext bytes are numbered in the order they are written, so that a   *)
(* byte that is lost, repeated or moved shows.  A chunk opens if it is     *)
(* whole and was sealed as the number, and as the last one or not, that    *)
(* the reader takes it for (its nonce).                                    *)
(***************************************************************************)
EXTENDS Integers, Sequences

CONSTANTS
  ChunkSize,  \* 1 << chunk_log2
  TagLen,     \* TAG_LEN
  MaxPlain,   \* bound: plaintext bytes
  NoChunk

ASSUME FileBounds == ChunkSize \in Nat \ {0} /\ TagLen \in Nat \ {0} /\ MaxPlain \in Nat

VARIABLES
  sink,    \* the chunks written, in order
  buffer,  \* SealedFileWriter.buffer
  ahead,   \* bytes of the write_plain call in progress
  plain,   \* SealedFileWriter.plaintext_len
  size,    \* bytes of the file body after the header, once it is finished
  reader,  \* the SealedFileReader
  got      \* the answer to the reader's last call

vars_sf == <<sink, buffer, ahead, plain, size, reader, got>>

Bytes(from, count) == [i \in 1..count |-> from + i - 1]
Chunk == [no: Nat, last: BOOLEAN, data: Seq(Nat)]
SealedSize(chunk) == Len(chunk.data) + TagLen

NotOpened == [state |-> "none", chunks |-> 0, length |-> 0, at |-> 0, cached |-> NoChunk,
              start |-> 0, stop |-> 0]

FileTypeOK ==
  /\ sink \in Seq(Chunk)
  /\ buffer \in Seq(Nat) /\ Len(buffer) <= ChunkSize
  /\ ahead \in 0..MaxPlain /\ plain \in 0..MaxPlain
  /\ size \in Int
  /\ reader.state \in {"none", "open", "range", "refused", "broken"}
  /\ reader.cached \in Nat \cup {NoChunk}
  /\ got \in Seq(Nat)

FileInit ==
  /\ sink = <<>> /\ buffer = <<>> /\ ahead = 0 /\ plain = 0 /\ size = -1
  /\ reader = NotOpened /\ got = <<>>

Writing == size = -1

(***************************************************************************)
(* The writer.                                                             *)
(***************************************************************************)
WritePlain(n) ==
  /\ Writing /\ ahead = 0 /\ plain + n <= MaxPlain
  /\ ahead' = n /\ plain' = plain + n
  /\ UNCHANGED <<sink, buffer, size, reader, got>>

SealChunk(last) == sink' = Append(sink, [no |-> Len(sink), last |-> last, data |-> buffer])

\* One turn of write_plain's loop: a full buffer is sealed only now that more
\* follows, then the buffer takes what it has room for.
TakeBytes ==
  /\ Writing /\ ahead > 0
  /\ LET kept == IF Len(buffer) = ChunkSize THEN <<>> ELSE buffer
         room == ChunkSize - Len(kept)
         take == IF room < ahead THEN room ELSE ahead
     IN /\ buffer' = kept \o Bytes(plain - ahead, take)
        /\ ahead' = ahead - take
        /\ IF Len(buffer) = ChunkSize THEN SealChunk(FALSE) ELSE UNCHANGED sink
  /\ UNCHANGED <<plain, size, reader, got>>

SizeOf(chunks) == IF chunks = <<>> THEN 0
                  ELSE (Len(chunks) - 1) * (ChunkSize + TagLen) + SealedSize(chunks[Len(chunks)])

\* finish: the last chunk, empty for an empty file.
FinishFile ==
  /\ Writing /\ ahead = 0
  /\ SealChunk(TRUE)
  /\ size' = SizeOf(sink')
  /\ buffer' = <<>>
  /\ UNCHANGED <<ahead, plain, reader, got>>

\* A file that lost its end: a copy that stopped, or a writer that never finished.
CutFile(n) ==
  /\ reader.state = "none" /\ ahead = 0
  /\ n < (IF Writing THEN SizeOf(sink) + 1 ELSE size)
  /\ size' = n
  /\ UNCHANGED <<sink, buffer, ahead, plain, reader, got>>

(***************************************************************************)
(* The reader.                                                             *)
(***************************************************************************)
SealedChunk == ChunkSize + TagLen

\* The shape of a body of `size' bytes; no chunks for one that cannot be.
Shape ==
  LET full == size \div SealedChunk
      rem == size % SealedChunk
  IN IF rem = 0 THEN [chunks |-> full, length |-> full * ChunkSize]
     ELSE IF rem < TagLen THEN [chunks |-> 0, length |-> 0]
     ELSE [chunks |-> full + 1, length |-> full * ChunkSize + rem - TagLen]

\* Mutant of Loads: the last chunk is sealed like any other.
LoadsUnmarked(shape, no) ==
  LET len == IF no + 1 = shape.chunks THEN shape.length - no * ChunkSize + TagLen ELSE SealedChunk
  IN no < Len(sink) /\ SealedSize(sink[no + 1]) = len /\ sink[no + 1].no = no

\* load_chunk: the bytes at the chunk's offset open as chunk `no', the last or not.
Loads(shape, no) ==
  LET last == no + 1 = shape.chunks
      len == IF last THEN shape.length - no * ChunkSize + TagLen ELSE SealedChunk
  IN /\ no < Len(sink)
     /\ SealedSize(sink[no + 1]) = len
     /\ sink[no + 1].no = no /\ sink[no + 1].last = last

OpenFile ==
  /\ ~Writing /\ reader.state = "none"
  /\ reader' =
       IF size >= TagLen /\ Shape.chunks > 0 /\ Loads(Shape, Shape.chunks - 1)
       THEN [NotOpened EXCEPT !.state = "open", !.chunks = Shape.chunks, !.length = Shape.length,
                              !.cached = Shape.chunks - 1]
       ELSE [NotOpened EXCEPT !.state = "refused"]
  /\ UNCHANGED <<sink, buffer, ahead, plain, size, got>>

Shaped == [chunks |-> reader.chunks, length |-> reader.length]
ReadAt(position, most) ==
  LET no == position \div ChunkSize
      within == position - no * ChunkSize
      chunk == sink[no + 1].data
      take == IF most < Len(chunk) - within THEN most ELSE Len(chunk) - within
  IN SubSeq(chunk, within + 1, within + take)

\* read_range: clamped to the end, then chunk by chunk.
BeginRange(start, count) ==
  /\ reader.state = "open"
  /\ got' = <<>>
  /\ LET stop == IF start + count < reader.length THEN start + count ELSE reader.length
     IN reader' = [reader EXCEPT !.state = "range", !.start = start,
                                 !.stop = IF start >= stop THEN start ELSE stop]
  /\ UNCHANGED <<sink, buffer, ahead, plain, size>>

RangeChunk ==
  LET position == reader.start + Len(got)
      no == position \div ChunkSize
  IN
  /\ reader.state = "range" /\ position < reader.stop
  /\ IF reader.cached = no \/ Loads(Shaped, no)
     THEN /\ got' = got \o ReadAt(position, reader.stop - position)
          /\ reader' = [reader EXCEPT !.cached = no]
     ELSE /\ reader' = [reader EXCEPT !.state = "broken"]
          /\ UNCHANGED got
  /\ UNCHANGED <<sink, buffer, ahead, plain, size>>

EndRange ==
  /\ reader.state = "range" /\ reader.start + Len(got) >= reader.stop
  /\ reader' = [reader EXCEPT !.state = "open"]
  /\ UNCHANGED <<sink, buffer, ahead, plain, size, got>>

\* Seek, then one Read: at most the rest of one chunk.
SeekTo(position) ==
  /\ reader.state = "open"
  /\ reader' = [reader EXCEPT !.at = position]
  /\ UNCHANGED <<sink, buffer, ahead, plain, size, got>>

ReadSome(most) ==
  LET no == reader.at \div ChunkSize IN
  /\ reader.state = "open" /\ reader.at < reader.length /\ most > 0
  /\ IF reader.cached = no \/ Loads(Shaped, no)
     THEN /\ got' = ReadAt(reader.at, most)
          /\ reader' = [reader EXCEPT !.cached = no, !.start = reader.at,
                                      !.stop = reader.at + Len(got'), !.at = @ + Len(got')]
     ELSE /\ reader' = [reader EXCEPT !.state = "broken"]
          /\ UNCHANGED got
  /\ UNCHANGED <<sink, buffer, ahead, plain, size>>

FileNext ==
  \/ \E n \in 1..MaxPlain : WritePlain(n) \/ ReadSome(n)
  \/ TakeBytes \/ FinishFile \/ OpenFile
  \/ \E n \in 0..SizeOf(sink) : CutFile(n)
  \/ \E start \in 0..(MaxPlain + 1), count \in 0..MaxPlain : BeginRange(start, count)
  \/ RangeChunk \/ EndRange
  \/ \E position \in 0..MaxPlain : SeekTo(position)

FileSpec == FileInit /\ [][FileNext]_vars_sf

(***************************************************************************)
(* Properties.                                                             *)
(***************************************************************************)
\* A reader that opens the file opened a finished and whole one and knows its
\* length, and what it reads, in any ranges over any chunk boundaries, is what was
\* written there; a file cut anywhere, at a chunk boundary too, is refused.
ReadsAreExact ==
  /\ reader.state \in {"open", "range", "broken"} =>
       reader.length = plain /\ sink # <<>> /\ sink[Len(sink)].last
  /\ reader.state # "broken"
  /\ got = Bytes(reader.start, Len(got))
  /\ reader.state = "open" => reader.start + Len(got) = reader.stop
=============================================================================
