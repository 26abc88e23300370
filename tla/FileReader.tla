----------------------------- MODULE FileReader -----------------------------
(***************************************************************************)
(* Reading of files (libsys/src/io/FileReader.cpp): a stream over a buffer *)
(* with a file's sectors (IsoFileStream in fs/iso9660/DirectoryEntry.cpp)  *)
(* and the reader's cache (a DynamicArray), which grows as the file is     *)
(* read.  Both are records, and the operations are operators on them.      *)
(***************************************************************************)
EXTENDS Integers, Sequences, FiniteSetsExt

CONSTANTS
  InitialCapacity (* of the cache (512)                                    *)

ASSUME FileReaderAssumption == InitialCapacity \in Nat \ {0}

(* Memory that was not written, or does not belong to the buffer.          *)
Junk == [kind |-> "junk"]

(* The stream over the first `size' cells of a buffer.                     *)
Stream(size, cells) == [size |-> size, cells |-> cells, pos |-> 0]

(* A stream without a file: fileStream() of a directory is nullptr.        *)
NoStream == Stream(0, <<>>)

(* InputStream::read(bytes, n): what it reads, and the stream behind it.   *)
Available(s) == s.size - s.pos
StreamBytes(s, n) ==
  [i \in 1 .. Min({n, Available(s)}) |->
     IF s.pos + i <= Len(s.cells) THEN s.cells[s.pos + i] ELSE Junk]
Advanced(s, n) == [s EXCEPT !.pos = @ + Min({n, Available(s)})]

(* FileReader: the stream, the capacity of the cache, the bytes in it (of  *)
(* which there are _fileExtent) and _eofReached.                           *)
NewReader(s, eof) == [stream |-> s, cap |-> InitialCapacity, bytes |-> <<>>, eof |-> eof]

Extent(r) == Len(r.bytes)

(* The capacity the cache is given when the byte at `offset' is wanted.    *)
GrownCapacity(r, offset) ==
  IF offset < r.cap THEN r.cap
  ELSE IF offset < 2 * r.cap THEN 2 * r.cap ELSE offset

(* FileReader::read(offset): the reader after it. *)
ReadUpTo(r, offset) ==
  LET want  == 1 + offset - Extent(r)
      bytes == StreamBytes(r.stream, want)
  IN  IF offset < Extent(r) \/ r.eof THEN r
      ELSE [stream |-> Advanced(r.stream, want),
            cap    |-> GrownCapacity(r, offset),
            bytes  |-> r.bytes \o bytes,
            eof    |-> Len(bytes) # want]

(* ... which returns kEOF if the byte is not there. *)
IsEOF(r, offset) == offset >= Extent(r)

(* What FileReader::read(buf, offset, n) stores, n > 0, in the reader      *)
(* after it has read up to the end of the range.                           *)
BytesInRange(r, offset, n) == SubSeq(r.bytes, offset + 1, Min({offset + n, Extent(r)}))

=============================================================================
