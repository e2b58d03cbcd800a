-------------------------- MODULE FileBackedVector --------------------------
(***************************************************************************)
(* FileBackedVector<T>: an mmap-backed array of fixed-size elements with  *)
(* a one-page header {num_elements, vector_checksum}.  The file grows in  *)
(* chunks of kGrowElements; ComputeChecksum keeps the checksum up to date *)
(* incrementally: Set on an element below changes_end saves the          *)
(* element's original value, and the next ComputeChecksum XORs           *)
(* original ^ current into the cached checksum at that position, skips   *)
(* tracked changes past the (possibly truncated) end and elements it      *)
(* already updated, and appends the elements past changes_end.  When     *)
(* the saved originals would exceed 1/kPartialCrcLimitDiv of the tracked  *)
(* length, tracking is dropped and the checksum restarts from empty.      *)
(* TruncateTo lowers num_elements and leaves the checksum alone.          *)
(*                                                                         *)
(* A checksum is kept as the element sequence it is the CRC of (CRC      *)
(* collisions are left out), so an XOR update at position i replaces the  *)
(* i-th element e by e ^ original ^ current.  Writes go through a shared  *)
(* mapping: the file's elements are the array at every moment, also      *)
(* after the process dies; the header on disk changes only when          *)
(* PersistToDisk (also run by the auto-sync destructor) writes it.        *)
(***************************************************************************)
EXTENDS Integers, Sequences, SequencesExt, FiniteSetsExt, Bitwise

CONSTANTS
  Values,             \* element values; 0 is what a grown file reads as
  MaxElements,        \* kMaxNumElts
  GrowElements,       \* kGrowElements
  PartialCrcLimitDiv, \* kPartialCrcLimitDiv
  MaxCrcLength        \* longest stale checksum explored (see CrcBound)

ASSUME 0 \in Values /\ Values \subseteq Nat
ASSUME MaxElements \in Nat \ {0} /\ GrowElements \in Nat \ {0}
ASSUME PartialCrcLimitDiv \in Nat \ {0} /\ MaxCrcLength \in Nat
ASSUME MaxCrcLength >= MaxElements

VARIABLES
  array,        \* element i of the file's content region, 0..MaxElements-1
  capacity,     \* elements the file has room for; 0 = header only
  hdr,          \* the header on disk, or NoFile
  open,         \* a FileBackedVector instance holds the file
  numElements,  \* in-memory header: num_elements
  crc,          \* in-memory header: vector_checksum
  changes,      \* tracked changes: [idx, orig] in the order of Set
  changesEnd,   \* changes_end: the length crc covers
  status,       \* what the last Create returned
  persisted,    \* history: the content the last PersistToDisk saw
  clean         \* history: no Set, TruncateTo or crash since that persist

vars == <<array, capacity, hdr, open, numElements, crc, changes, changesEnd,
          status, persisted, clean>>
memory == <<numElements, crc, changes, changesEnd>>

NoFile == [num |-> -1, checksum |-> <<>>]
Idx == 0..MaxElements - 1

\* The first n elements of the content region, as a sequence.
Elements(n) == [i \in 1..n |-> array[i - 1]]
Content == Elements(numElements)

\* The Crc32 value of a sequence.  Crc32 starts from 0 and does not
\* invert, so leading zero elements leave it unchanged: the tests expect
\* "abcde" at index 0 and "abcde" after 2^20 - 13 zero elements to have
\* the same checksum, and an empty or all-zero vector to have Crc32(0).
\* Two sequences have the same value when they agree after their leading
\* zeros are dropped.
Crc(s) ==
  LET nz == {i \in DOMAIN s : s[i] # 0}
  IN  IF nz = {} THEN <<>> ELSE SubSeq(s, Min(nz), Len(s))

\* Room for n elements, in whole chunks.
Grown(n) == ((n + GrowElements - 1) \div GrowElements) * GrowElements

(***************************************************************************)
(* ComputeChecksum's result: apply the tracked changes in order, each    *)
(* element at most once and none past num_elements, then append the      *)
(* elements from changes_end to num_elements.                            *)
(***************************************************************************)
ApplyChange(acc, c) ==
  IF c.idx >= numElements \/ c.idx \in acc.updated THEN acc
  ELSE [crc |-> [acc.crc EXCEPT ![c.idx + 1] = (@ ^^ c.orig) ^^ array[c.idx]],
        updated |-> acc.updated \cup {c.idx}]

UpdatedCrc ==
  LET xored == FoldLeft(ApplyChange, [crc |-> crc, updated |-> {}], changes).crc
  IN  IF changesEnd < numElements
        THEN xored \o SubSeq(Content, changesEnd + 1, numElements)
        ELSE xored

ComputeChecksum ==
  /\ open
  /\ crc' = UpdatedCrc
  /\ changes' = <<>>
  /\ changesEnd' = numElements
  /\ UNCHANGED <<array, capacity, hdr, open, numElements, status,
                 persisted, clean>>

(***************************************************************************)
(* Set(idx, value): grow the file to the chunk holding idx, extend        *)
(* num_elements, and when the value changes an element below changes_end *)
(* save its original, or drop tracking when the saved originals would    *)
(* pass the limit.  Set outside 0..kMaxNumElts-1 is OUT_OF_RANGE and      *)
(* changes nothing.                                                       *)
(***************************************************************************)
Track(idx, orig) ==
  IF idx < changesEnd /\ orig # array'[idx]
    THEN IF (Len(changes) + 1) * PartialCrcLimitDiv > changesEnd
           THEN /\ changes' = <<>>
                /\ changesEnd' = 0
                /\ crc' = <<>>
           ELSE /\ changes' = Append(changes, [idx |-> idx, orig |-> orig])
                /\ UNCHANGED <<changesEnd, crc>>
    ELSE UNCHANGED <<changes, changesEnd, crc>>

\* Variant: the original is read after the new value is written.
SetSavesNewValue(idx, v) ==
  /\ open
  /\ capacity' = IF idx < capacity THEN capacity ELSE Grown(idx + 1)
  /\ numElements' = Max({numElements, idx + 1})
  /\ array' = [array EXCEPT ![idx] = v]
  /\ Track(idx, v)
  /\ UNCHANGED <<hdr, open, status, persisted>>
  /\ clean' = FALSE

\* Variant: the file grows to exactly the index written, not by chunks.
SetGrowsExactly(idx, v) ==
  /\ open
  /\ capacity' = IF idx < capacity THEN capacity ELSE idx + 1
  /\ numElements' = Max({numElements, idx + 1})
  /\ array' = [array EXCEPT ![idx] = v]
  /\ Track(idx, array[idx])
  /\ UNCHANGED <<hdr, open, status, persisted>>
  /\ clean' = FALSE

Set(idx, v) ==
  /\ open
  /\ capacity' = IF idx < capacity THEN capacity ELSE Grown(idx + 1)
  /\ numElements' = Max({numElements, idx + 1})
  /\ array' = [array EXCEPT ![idx] = v]
  /\ Track(idx, array[idx])
  /\ UNCHANGED <<hdr, open, status, persisted>>
  /\ clean' = FALSE

\* Variant: the OUT_OF_RANGE check lets n = num_elements + 1 through.
TruncateToPastEnd(n) ==
  /\ open /\ n <= numElements + 1
  /\ numElements' = n
  /\ clean' = FALSE
  /\ UNCHANGED <<array, capacity, hdr, open, crc, changes, changesEnd,
                 status, persisted>>

\* TruncateTo(n): OUT_OF_RANGE unless 0 <= n <= num_elements; the checksum
\* is left alone.
TruncateTo(n) ==
  /\ open /\ n <= numElements
  /\ numElements' = n
  /\ clean' = FALSE
  /\ UNCHANGED <<array, capacity, hdr, open, crc, changes, changesEnd,
                 status, persisted>>

\* PersistToDisk: bring the checksum up to date and write the header.
PersistToDisk ==
  /\ open
  /\ crc' = UpdatedCrc
  /\ changes' = <<>>
  /\ changesEnd' = numElements
  /\ hdr' = [num |-> numElements, checksum |-> UpdatedCrc]
  /\ persisted' = Content
  /\ clean' = TRUE
  /\ UNCHANGED <<array, capacity, open, numElements, status>>

Closed ==
  /\ open' = FALSE
  /\ numElements' = 0 /\ crc' = <<>> /\ changes' = <<>> /\ changesEnd' = 0

\* Destruction with READ_WRITE_AUTO_SYNC persists, then unmaps.
Close ==
  /\ open
  /\ hdr' = [num |-> numElements, checksum |-> UpdatedCrc]
  /\ persisted' = Content
  /\ clean' = TRUE
  /\ Closed
  /\ UNCHANGED <<array, capacity, status>>

\* The process dies: the mapped elements are in the file, the header on
\* disk is the last one written.
Crash ==
  /\ open
  /\ Closed
  /\ clean' = FALSE
  /\ UNCHANGED <<array, capacity, hdr, status, persisted>>

(***************************************************************************)
(* Create: a missing file is created with a header and no elements; an    *)
(* existing one is opened when the checksum of its first num_elements    *)
(* elements equals the header's, and refused with INTERNAL otherwise.     *)
(***************************************************************************)
CreateNew ==
  /\ ~open /\ hdr = NoFile
  /\ open' = TRUE
  /\ hdr' = [num |-> 0, checksum |-> <<>>]
  /\ persisted' = <<>>
  /\ clean' = TRUE
  /\ status' = "OK"
  /\ UNCHANGED <<array, capacity, memory>>

Load ==
  /\ open' = TRUE
  /\ numElements' = hdr.num
  /\ crc' = hdr.checksum
  /\ changes' = <<>>
  /\ changesEnd' = hdr.num
  /\ status' = "OK"
  /\ UNCHANGED <<array, capacity, hdr, persisted, clean>>

\* Variant: an existing file is opened on its header's word.
CreateTrustsHeader ==
  \/ CreateNew
  \/ ~open /\ hdr # NoFile /\ hdr.num <= capacity /\ Load

Create ==
  \/ CreateNew
  \/ /\ ~open /\ hdr # NoFile
     /\ IF Crc(Elements(hdr.num)) = Crc(hdr.checksum)
          THEN Load
          ELSE /\ status' = "INTERNAL"
               /\ UNCHANGED <<array, capacity, hdr, open, memory, persisted,
                              clean>>

\* Delete: remove the file; nothing to do when there is none.
Delete ==
  /\ ~open
  /\ hdr' = NoFile
  /\ array' = [i \in Idx |-> 0]
  /\ capacity' = 0
  /\ persisted' = <<>>
  /\ UNCHANGED <<open, memory, status, clean>>

\* The tests overwrite bytes of a closed file's content region.
Tamper(i, v) ==
  /\ ~open /\ hdr # NoFile /\ i < capacity
  /\ array' = [array EXCEPT ![i] = v]
  /\ clean' = FALSE
  /\ UNCHANGED <<capacity, hdr, open, memory, status, persisted>>

Init ==
  /\ array = [i \in Idx |-> 0]
  /\ capacity = 0
  /\ hdr = NoFile
  /\ open = FALSE
  /\ numElements = 0 /\ crc = <<>> /\ changes = <<>> /\ changesEnd = 0
  /\ status = "NONE"
  /\ persisted = <<>>
  /\ clean = TRUE

Next ==
  \/ \E i \in Idx, v \in Values : Set(i, v)
  \/ \E n \in 0..MaxElements : TruncateTo(n)
  \/ ComputeChecksum
  \/ PersistToDisk
  \/ Close
  \/ Crash
  \/ Create
  \/ Delete
  \/ \E i \in Idx, v \in Values : Tamper(i, v)

Spec == Init /\ [][Next]_vars

\* A checksum kept as a sequence grows without bound once a truncation
\* has left it stale and the vector grows again; a CRC does not.  The
\* model explores stale checksums of up to MaxCrcLength elements, at
\* least MaxElements.
CrcBound == Len(crc) <= MaxCrcLength /\ Len(hdr.checksum) <= MaxCrcLength

-----------------------------------------------------------------------------
(***************************************************************************)
(* Properties.                                                            *)
(***************************************************************************)

\* Every variable holds a value of its kind; the file grows in whole
\* chunks, never past kMaxNumElts, and always has room for num_elements.
TypeOK ==
  /\ array \in [Idx -> Values]
  /\ capacity \in {k * GrowElements : k \in 0..MaxElements} \cap 0..MaxElements
  /\ numElements \in 0..capacity
  /\ hdr = NoFile \/ hdr.num \in 0..MaxElements
  /\ open \in BOOLEAN
  /\ crc \in Seq(Values) /\ Len(crc) >= changesEnd
  /\ changes \in Seq([idx : Idx, orig : Values])
  /\ changesEnd \in 0..MaxElements
  /\ status \in {"NONE", "OK", "INTERNAL"}

\* ComputeChecksum's incremental path (saved originals XORed into the
\* cached checksum, duplicates skipped, tail appended, tracking dropped
\* past the limit) gives the checksum of the content whenever no
\* truncation has cut into what the cached checksum covers, that is while
\* the cached checksum is of exactly changes_end elements, all of them
\* still in the vector.
IncrementalCrcSound ==
  open /\ Len(crc) = changesEnd /\ changesEnd <= numElements
    => Crc(UpdatedCrc) = Crc(Content)

\* A Create that opens an existing file hands out exactly the content the
\* last PersistToDisk (or auto-sync close) saw, whatever was written,
\* crashed or overwritten in between: the header checksum catches it.
RecoveredContentIsPersisted ==
  [][~open /\ open' => Content' = persisted]_vars

\* The vector's contract: ComputeChecksum returns the checksum of the
\* current logical content at all times, truncation included.
ChecksumMatchesContent ==
  open => Crc(UpdatedCrc) = Crc(Content)

=============================================================================
