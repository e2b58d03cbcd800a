------------------------- MODULE MCFileBackedVector -------------------------
(***************************************************************************)
(* Two instantiations of FileBackedVector.  The checksum run keeps one    *)
(* vector open and drives Set, TruncateTo and ComputeChecksum on six      *)
(* elements, enough for two saved originals to be tracked at once (with   *)
(* kPartialCrcLimitDiv = 3, changes_end must reach 6), so the same        *)
(* element can be changed twice between checksums.  The recovery run     *)
(* adds persist, close, crash, reopen, delete and overwriting a closed    *)
(* file, on fewer elements, and leaves truncation to the runs of the full *)
(* Spec.                                                                  *)
(***************************************************************************)
EXTENDS FileBackedVector

\* A vector created once and never closed.
OpenNext ==
  \/ \E i \in Idx, v \in Values : Set(i, v)
  \/ \E n \in 0..MaxElements : TruncateTo(n)
  \/ ComputeChecksum

OpenSpec == Init /\ [][CreateNew \/ OpenNext]_vars

\* Every operation but TruncateTo: the recovery run checks that reopening
\* catches lost and overwritten writes when no truncation has left a
\* stale checksum behind (MCFileBackedVectorStale.cfg shows what one does).
RecoveryNext ==
  \/ \E i \in Idx, v \in Values : Set(i, v)
  \/ ComputeChecksum
  \/ PersistToDisk
  \/ Close
  \/ Crash
  \/ Create
  \/ Delete
  \/ \E i \in Idx, v \in Values : Tamper(i, v)

RecoverySpec == Init /\ [][RecoveryNext]_vars

=============================================================================
