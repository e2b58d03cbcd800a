--------------------------- MODULE IndexAbstract ---------------------------
(***************************************************************************)
(* What the inverted index promises, without lexicon, hit buffer or       *)
(* posting chains: a set of postings (term, document, section, whether    *)
(* the hit was indexed for prefix matching) that only grows, appended in  *)
(* non-decreasing document order, and the answer a query must give over   *)
(* such a set: one DocHitInfo per matching document, in strictly          *)
(* descending document order, whose mask is the OR of the matching        *)
(* sections restricted to the query's mask; documents whose restricted    *)
(* mask is empty are left out.                                            *)
(***************************************************************************)
EXTENDS Integers, FiniteSets, Sequences, SequencesExt

CONSTANTS
  Terms,      \* terms handed to AddHit: tuples of characters
  DocIds,     \* document ids that may be edited
  Sections    \* section ids used by editors, a subset of 0..15

\* kInvalidDocumentId
Invalid == -1

MatchTypes == {"EXACT_ONLY", "PREFIX"}

Posting == [term : Terms, doc : DocIds, section : Sections, prefix : BOOLEAN]

\* DocHitInfo{document_id, hit_section_ids_mask}; the 16-bit mask is kept
\* as the set of its one bits.
DocHitInfo(d, m) == [doc |-> d, mask |-> m]

\* A posting answers query term q under match type mt: an exact query
\* takes every hit of q itself, whatever its match type; a prefix query
\* also takes the prefix-tagged hits of the longer terms that start with q.
Matches(p, q, mt) ==
  \/ p.term = q
  \/ mt = "PREFIX" /\ p.prefix /\ IsPrefix(q, p.term)

\* The answer to GetIterator(q, mask, mt) drained by GetHits.
Query(P, q, mask, mt) ==
  LET hit    == {p \in P : Matches(p, q, mt)}
      MaskOf(d) == {p.section : p \in {h \in hit : h.doc = d}} \cap mask
      docs   == {d \in {p.doc : p \in hit} : MaskOf(d) # {}}
      sorted == SetToSortSeq(docs, LAMBDA a, b : a > b)
  IN  [i \in 1..Len(sorted) |-> DocHitInfo(sorted[i], MaskOf(sorted[i]))]

VARIABLES
  postings,   \* the set of postings the index holds
  lastAdded   \* last_added_document_id()

Init ==
  /\ postings = {}
  /\ lastAdded = Invalid

\* A successful AddHit: one posting, for a document no older than the
\* last one added.
Add(p) ==
  /\ p.doc >= lastAdded
  /\ postings' = postings \cup {p}
  /\ lastAdded' = p.doc

Next == \E p \in Posting : Add(p)

Spec == Init /\ [][Next]_<<postings, lastAdded>>

=============================================================================
