-------------------------- MODULE IndexPersistence --------------------------
(***************************************************************************)
(* The lite index across process lifetimes.  Its lexicon, posting head    *)
(* table and hit buffer live in memory-mapped files under one directory,   *)
(* so every write of the open index reaches the files; the index header   *)
(* (last_added_document_id and the combined checksum) is written only by  *)
(* PersistToDisk, and by the destructor, which persists.  Index::Create   *)
(* starts fresh on a missing directory, loads the files when the header   *)
(* checksum is the checksum of what it finds, and fails DATA_LOSS         *)
(* otherwise.                                                             *)
(*                                                                         *)
(* The combined checksum is a function of the header fields, the lexicon, *)
(* the posting table and the hit buffer content; it is kept as the tuple  *)
(* of what it covers, so two images have the same checksum exactly when   *)
(* they agree on it.  The collisions of Crc32 itself are examined in      *)
(* FileBackedVector.                                                      *)
(***************************************************************************)
EXTENDS Integers, Sequences

CONSTANTS Terms, Queries, DocIds, Sections, Masks, MaxHits, MaxTerms,
  Corrupt     \* hits the overwritten bytes of the hit buffer decode to

VARIABLES
  lexicon, heads, hits, lastAdded, editor, itr,
  open,       \* an Index instance exists
  hdr,        \* lite.hdr on disk, or NoHeader
  files,      \* the lexicon, head table and hit buffer files, or NoFiles
  status      \* the status of the last Index::Create

index == <<lexicon, heads, hits, lastAdded, editor, itr>>
vars == <<lexicon, heads, hits, lastAdded, editor, itr,
          open, hdr, files, status>>

LI == INSTANCE LiteIndex

NoFiles  == [lexicon |-> <<>>, heads |-> <<>>, hits |-> <<>>, exists |-> FALSE]

\* What the mapped files hold while the index is open.
Files == [lexicon |-> lexicon, heads |-> heads, hits |-> hits, exists |-> TRUE]

\* Index::ComputeChecksum over a header field and the three files.
Checksum(la, f) ==
  [lastAdded |-> la, lexicon |-> f.lexicon, heads |-> f.heads, hits |-> f.hits]

NoHeader == [exists |-> FALSE, lastAdded |-> LI!Invalid,
             checksum |-> Checksum(LI!Invalid, NoFiles)]

\* The header PersistToDisk writes: the document id and the checksum.
WriteHeader ==
  hdr' = [exists |-> TRUE, lastAdded |-> lastAdded,
          checksum |-> Checksum(lastAdded, Files)]

\* The in-memory state of a closed index, or of a fresh one: empty.
Dropped ==
  /\ lexicon' = <<>> /\ heads' = <<>> /\ hits' = <<>>
  /\ lastAdded' = LI!Invalid /\ editor' = LI!NoEditor /\ itr' = LI!NoIterator

\* Edits of the open index go through the mapping at once.
IdxEdit(d, s, mt) ==
  /\ open
  /\ LI!Edit(d, s, mt)
  /\ UNCHANGED <<open, hdr, files, status>>

IdxAddHit(t) ==
  /\ open
  /\ LI!AddHit(t)
  /\ UNCHANGED <<open, hdr, files, status>>

\* Index::PersistToDisk: flush the files, write the header.
PersistToDisk ==
  /\ open
  /\ WriteHeader
  /\ UNCHANGED <<index, open, files, status>>

\* The destructor persists, then the mapping is released.
Close ==
  /\ open
  /\ WriteHeader
  /\ files' = Files
  /\ open' = FALSE
  /\ Dropped
  /\ UNCHANGED status

\* The process dies: the mapped pages reach the files, the header does not.
Crash ==
  /\ open
  /\ files' = Files
  /\ open' = FALSE
  /\ Dropped
  /\ UNCHANGED <<hdr, status>>

\* Index::Create on an existing directory: load, or DATA_LOSS.
Load ==
  /\ hdr.exists
  /\ IF hdr.checksum = Checksum(hdr.lastAdded, files)
       THEN /\ lexicon' = files.lexicon /\ heads' = files.heads
            /\ hits' = files.hits /\ lastAdded' = hdr.lastAdded
            /\ editor' = LI!NoEditor /\ itr' = LI!NoIterator
            /\ open' = TRUE /\ status' = "OK"
       ELSE /\ status' = "DATA_LOSS"
            /\ UNCHANGED <<index, open>>
  /\ UNCHANGED <<hdr, files>>

\* Index::Create on a missing directory: a fresh, empty index.
CreateFresh ==
  /\ ~hdr.exists
  /\ Dropped
  /\ open' = TRUE /\ status' = "OK"
  /\ UNCHANGED <<hdr, files>>

Create == ~open /\ (CreateFresh \/ Load)

\* A closed index's hit buffer file overwritten in place with bytes h
\* decodes to.
Tamper(j, h) ==
  /\ ~open /\ files.exists /\ j \in DOMAIN files.hits
  /\ files' = [files EXCEPT !.hits[j] = h]
  /\ UNCHANGED <<index, open, hdr, status>>

\* DeleteDirectoryRecursively of the index directory.
Delete ==
  /\ ~open
  /\ hdr' = NoHeader /\ files' = NoFiles
  /\ UNCHANGED <<index, open, status>>

Init ==
  /\ LI!Init
  /\ open = FALSE
  /\ hdr = NoHeader
  /\ files = NoFiles
  /\ status = "NONE"

Next ==
  \/ \E d \in DocIds, s \in Sections, mt \in LI!MatchTypes : IdxEdit(d, s, mt)
  \/ \E t \in Terms : IdxAddHit(t)
  \/ PersistToDisk
  \/ Close
  \/ Crash
  \/ Create
  \/ \E j \in 1..MaxHits, h \in Corrupt : Tamper(j, h)
  \/ Delete

Spec == Init /\ [][Next]_vars

-----------------------------------------------------------------------------
TypeOK ==
  /\ LI!TypeOK
  /\ open \in BOOLEAN
  /\ status \in {"NONE", "OK", "DATA_LOSS"}
  /\ files.exists \in BOOLEAN /\ files.hits \in Seq(LI!Hit)
  /\ ~open => lexicon = <<>> /\ hits = <<>> /\ editor = LI!NoEditor

=============================================================================
