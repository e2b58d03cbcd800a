----------------------------- MODULE LiteIndex -----------------------------
(***************************************************************************)
(* The lite inverted index behind Index::Edit and Index::GetIterator:     *)
(* a term lexicon (term -> dense term id), a hit buffer of packed hits    *)
(* each carrying a back-pointer to the previous hit of the same term, a   *)
(* posting head table (term id -> newest hit), last_added_document_id,    *)
(* the scoped Editor that de-duplicates the terms of one                  *)
(* (document, section, match type), and the hit iterator that walks the   *)
(* chains of the candidate terms and merges them into one DocHitInfo per  *)
(* document.                                                              *)
(*                                                                         *)
(* One iterator is kept: the tests, like the index's callers, replace the *)
(* iterator they hold, and live iterators do not interact (they only read *)
(* the hit buffer).  The back-pointer is kept as an absolute hit index    *)
(* (the widened prev_offset the design allows).                            *)
(***************************************************************************)
EXTENDS Integers, FiniteSets, Sequences, SequencesExt, FiniteSetsExt

CONSTANTS
  Terms,      \* terms handed to AddHit: tuples of characters
  Queries,    \* query terms handed to GetIterator
  DocIds,     \* document ids handed to Edit
  Sections,   \* section ids handed to Edit, a subset of 0..15
  Masks,      \* section masks handed to GetIterator, as sets of section ids
  MaxHits,    \* hit buffer capacity, derived from index_merge_size
  MaxTerms    \* lexicon capacity

ASSUME MaxHits \in Nat \ {0} /\ MaxTerms \in Nat \ {0}
ASSUME Sections \subseteq 0..15 /\ Masks \subseteq SUBSET (0..15)

VARIABLES
  lexicon,    \* term id -> term, ids dense in insertion order
  heads,      \* term id -> index of the newest hit of that term, 0 = none
  hits,       \* the hit buffer: [tid, doc, section, prefix, prev]
  lastAdded,  \* last_added_document_id
  editor,     \* the live Index::Editor, or NoEditor
  itr         \* the live DocHitInfoIterator, or NoIterator; its bound,
              \* the hit count at creation, is read by the properties only

vars == <<lexicon, heads, hits, lastAdded, editor, itr>>

\* The postings the hit buffer holds, read through the lexicon.
Postings ==
  {[term |-> lexicon[h.tid], doc |-> h.doc, section |-> h.section,
    prefix |-> h.prefix] : h \in Range(hits)}

Abs == INSTANCE IndexAbstract WITH postings <- Postings

Invalid == Abs!Invalid
MatchTypes == Abs!MatchTypes
DocHitInfo(d, m) == Abs!DocHitInfo(d, m)

NoEditor == [doc |-> Invalid]
NoIterator == [status |-> "NONE"]

Hit == [tid : 1..MaxTerms, doc : DocIds, section : Sections,
        prefix : BOOLEAN, prev : 0..MaxHits]

TermId(t) == CHOOSE i \in DOMAIN lexicon : lexicon[i] = t

(***************************************************************************)
(* Index::Edit(document_id, section_id, match_type): a fresh editor with  *)
(* an empty set of seen terms; the editor it replaces is dropped, and the *)
(* hits it appended stay.                                                 *)
(***************************************************************************)
Edit(d, s, mt) ==
  /\ editor' = [doc |-> d, section |-> s, match |-> mt, seen |-> {}]
  /\ UNCHANGED <<lexicon, heads, hits, lastAdded, itr>>

\* Editor::AddHit of a term this editor already added: OK, nothing written.
AddHitSeen(t) ==
  /\ t \in editor.seen
  /\ UNCHANGED vars

\* A document older than the last one added is refused: INVALID_ARGUMENT.
AddHitOutOfOrder(t) ==
  /\ t \notin editor.seen
  /\ editor.doc < lastAdded
  /\ UNCHANGED vars

\* The term flows lexicon -> hit buffer: a new term is given the next id
\* and an empty head.  A full lexicon, or then a full hit buffer, fails
\* RESOURCE_EXHAUSTED without touching last_added_document_id; a term the
\* lexicon took before the hit buffer refused the hit stays in it.
LexiconWith(t) == IF t \in Range(lexicon) THEN lexicon ELSE Append(lexicon, t)
HeadsWith(t)   == IF t \in Range(lexicon) THEN heads ELSE Append(heads, 0)
LexiconFull(t) == t \notin Range(lexicon) /\ Len(lexicon) = MaxTerms

\* Variant: the term is recorded as seen before the hit buffer refuses it.
AddHitExhaustedMarksSeen(t) ==
  /\ t \notin editor.seen
  /\ editor.doc >= lastAdded
  /\ \/ LexiconFull(t) /\ UNCHANGED <<lexicon, heads>>
     \/ ~LexiconFull(t) /\ Len(hits) = MaxHits
        /\ lexicon' = LexiconWith(t)
        /\ heads' = HeadsWith(t)
  /\ editor' = [editor EXCEPT !.seen = @ \cup {t}]
  /\ UNCHANGED <<hits, lastAdded, itr>>

\* Variant: last_added_document_id set before the buffer is found full.
AddHitExhaustedAdvancesLastAdded(t) ==
  /\ t \notin editor.seen
  /\ editor.doc >= lastAdded
  /\ \/ LexiconFull(t) /\ UNCHANGED <<lexicon, heads>>
     \/ ~LexiconFull(t) /\ Len(hits) = MaxHits
        /\ lexicon' = LexiconWith(t)
        /\ heads' = HeadsWith(t)
  /\ lastAdded' = editor.doc
  /\ UNCHANGED <<hits, editor, itr>>

AddHitExhausted(t) ==
  /\ t \notin editor.seen
  /\ editor.doc >= lastAdded
  /\ \/ LexiconFull(t) /\ UNCHANGED <<lexicon, heads>>
     \/ ~LexiconFull(t) /\ Len(hits) = MaxHits
        /\ lexicon' = LexiconWith(t)
        /\ heads' = HeadsWith(t)
  /\ UNCHANGED <<hits, lastAdded, editor, itr>>

\* The hit is appended with a back-pointer to the term's previous head and
\* becomes the head; its document becomes last_added_document_id.
\* Variant: the back-pointer names the previous hit of any term.
AppendHitPrevLast(t) ==
  LET tid == IF t \in Range(lexicon) THEN TermId(t) ELSE Len(lexicon) + 1
  IN  /\ lexicon' = LexiconWith(t)
      /\ hits' = Append(hits, [tid |-> tid, doc |-> editor.doc,
                               section |-> editor.section,
                               prefix |-> editor.match = "PREFIX",
                               prev |-> Len(hits)])
      /\ heads' = [HeadsWith(t) EXCEPT ![tid] = Len(hits) + 1]

AppendHit(t) ==
  LET tid == IF t \in Range(lexicon) THEN TermId(t) ELSE Len(lexicon) + 1
  IN  /\ lexicon' = LexiconWith(t)
      /\ hits' = Append(hits, [tid |-> tid, doc |-> editor.doc,
                               section |-> editor.section,
                               prefix |-> editor.match = "PREFIX",
                               prev |-> HeadsWith(t)[tid]])
      /\ heads' = [HeadsWith(t) EXCEPT ![tid] = Len(hits) + 1]

\* Variant: the capacity check lets one hit past the end of the buffer.
AddHitAppendPastEnd(t) ==
  /\ t \notin editor.seen
  /\ editor.doc >= lastAdded
  /\ ~LexiconFull(t)
  /\ Len(hits) <= MaxHits
  /\ AppendHit(t)
  /\ lastAdded' = editor.doc
  /\ editor' = [editor EXCEPT !.seen = @ \cup {t}]
  /\ UNCHANGED itr

AddHitAppend(t) ==
  /\ t \notin editor.seen
  /\ editor.doc >= lastAdded
  /\ ~LexiconFull(t)
  /\ Len(hits) < MaxHits
  /\ AppendHit(t)
  /\ lastAdded' = editor.doc
  /\ editor' = [editor EXCEPT !.seen = @ \cup {t}]
  /\ UNCHANGED itr

AddHit(t) ==
  /\ editor # NoEditor
  /\ \/ AddHitSeen(t)
     \/ AddHitOutOfOrder(t)
     \/ AddHitExhausted(t)
     \/ AddHitAppend(t)

(***************************************************************************)
(* Hit iterator.  A walker per candidate term starts at the term's head   *)
(* and follows back-pointers; hits appended later are never reached.      *)
(***************************************************************************)

\* The hit indexes of a chain, newest first.
RECURSIVE Chain(_)
Chain(j) == IF j = 0 THEN <<>> ELSE <<j>> \o Chain(hits[j].prev)

\* Variant: every hit of a candidate term counts for a prefix query.
QualifiesIgnoringFlag(it, i, h) == lexicon[i] = it.q \/ it.match = "PREFIX"

\* A hit of candidate term i counts for query q: every hit of q itself,
\* and for a prefix query the prefix-tagged hits of the longer terms.
Qualifies(it, i, h) ==
  lexicon[i] = it.q \/ (it.match = "PREFIX" /\ h.prefix)

\* The sections of the qualifying hits of the run of document d that
\* starts at chain position j, and the position after that run.
RECURSIVE RunSections(_, _, _, _)
RunSections(it, i, j, d) ==
  IF j = 0 \/ hits[j].doc # d THEN {}
  ELSE (IF Qualifies(it, i, hits[j]) THEN {hits[j].section} ELSE {})
       \cup RunSections(it, i, hits[j].prev, d)

RECURSIVE After(_, _)
After(j, d) == IF j # 0 /\ hits[j].doc = d THEN After(hits[j].prev, d) ELSE j

\* One Advance of the merge: take the largest pending document, OR the
\* qualifying sections of every walker positioned on it, move those
\* walkers past it, and skip the document when the bits AND the mask
\* are empty.
RECURSIVE NextGroup(_, _)
NextGroup(it, cur) ==
  LET live == {i \in DOMAIN cur : cur[i] # 0}
  IN  IF live = {} THEN [found |-> FALSE]
      ELSE
        LET d    == Max({hits[cur[i]].doc : i \in live})
            on   == {i \in live : hits[cur[i]].doc = d}
            bits == UNION {RunSections(it, i, cur[i], d) : i \in on}
            next == [i \in DOMAIN cur |->
                       IF i \in on THEN After(cur[i], d) ELSE cur[i]]
        IN  IF bits \cap it.mask = {} THEN NextGroup(it, next)
            ELSE [found |-> TRUE, cur |-> next,
                  info |-> DocHitInfo(d, bits \cap it.mask)]

\* Index::GetIterator: an exact query looks up the one term id, a prefix
\* query takes every lexicon term the query is a prefix of.
Candidates(q, mt) ==
  {i \in DOMAIN lexicon :
     IF mt = "EXACT_ONLY" THEN lexicon[i] = q ELSE IsPrefix(q, lexicon[i])}

GetIterator(q, mask, mt) ==
  /\ itr' = [q |-> q, mask |-> mask, match |-> mt, status |-> "NONE",
             cur |-> [i \in Candidates(q, mt) |-> heads[i]],
             emitted |-> <<>>, info |-> DocHitInfo(Invalid, {}),
             bound |-> Len(hits)]
  /\ UNCHANGED <<lexicon, heads, hits, lastAdded, editor>>

\* DocHitInfoIterator::Advance: OK with the next DocHitInfo; past the end
\* the info is {kInvalidDocumentId, 0} and the status NOT_FOUND when the
\* iterator never advanced before, RESOURCE_EXHAUSTED afterwards.
Advance ==
  /\ itr # NoIterator
  /\ LET g == NextGroup(itr, itr.cur) IN
       itr' = IF g.found
                THEN [itr EXCEPT !.cur = g.cur, !.info = g.info,
                                 !.emitted = Append(@, g.info),
                                 !.status = "OK"]
                ELSE [itr EXCEPT !.info = DocHitInfo(Invalid, {}),
                                 !.status = IF @ = "NONE" THEN "NOT_FOUND"
                                            ELSE "RESOURCE_EXHAUSTED"]
  /\ UNCHANGED <<lexicon, heads, hits, lastAdded, editor>>

Init ==
  /\ lexicon = <<>>
  /\ heads = <<>>
  /\ hits = <<>>
  /\ lastAdded = Invalid
  /\ editor = NoEditor
  /\ itr = NoIterator

Next ==
  \/ \E d \in DocIds, s \in Sections, mt \in MatchTypes : Edit(d, s, mt)
  \/ \E t \in Terms : AddHit(t)
  \/ \E q \in Queries, m \in Masks, mt \in MatchTypes : GetIterator(q, m, mt)
  \/ Advance

Spec == Init /\ [][Next]_vars

-----------------------------------------------------------------------------
TypeOK ==
  /\ lexicon \in Seq(Terms) /\ Len(lexicon) <= MaxTerms
  /\ heads \in Seq(0..MaxHits) /\ Len(heads) = Len(lexicon)
  /\ hits \in Seq(Hit) /\ Len(hits) <= MaxHits
  /\ lastAdded \in DocIds \cup {Invalid}
  /\ editor = NoEditor \/ editor.seen \subseteq Terms
  /\ itr = NoIterator
     \/ itr.status \in {"NONE", "OK", "NOT_FOUND", "RESOURCE_EXHAUSTED"}

\* Invariant 2 of the hit buffer: following back-pointers from a term's
\* posting head visits every hit of that term and no other, newest first,
\* in non-increasing document order (what the iterator's merge relies on,
\* and what AddHit's document-order check and head update must keep).
ChainsWellFormed ==
  /\ \A j \in DOMAIN hits : hits[j].prev < j
  /\ \A i \in DOMAIN lexicon :
       LET c == Chain(heads[i]) IN
       /\ Range(c) = {j \in DOMAIN hits : hits[j].tid = i}
       /\ \A k \in 1..Len(c) - 1 : hits[c[k]].doc >= hits[c[k + 1]].doc

\* The postings of the first n hits of the buffer.
PostingsUpTo(n) ==
  {[term |-> lexicon[hits[j].tid], doc |-> hits[j].doc,
    section |-> hits[j].section, prefix |-> hits[j].prefix] : j \in 1..n}

\* The iterator returned by GetIterator yields, Advance by Advance, exactly
\* the answer the abstract index gives over the hits present when it was
\* created: strictly descending documents, section-masked, match-type
\* filtered, one DocHitInfo per document; once Advance fails it has
\* yielded all of it.
IteratorMatchesQuery ==
  itr # NoIterator =>
    LET want == Abs!Query(PostingsUpTo(itr.bound), itr.q, itr.mask, itr.match)
    IN  /\ IsPrefix(itr.emitted, want)
        /\ itr.status \in {"NOT_FOUND", "RESOURCE_EXHAUSTED"} =>
             itr.emitted = want

\* Every AddHit the live editor answered OK is visible: an exact query
\* for the term over all sections reports the editor's document with the
\* editor's section set.
OkHitsVisible ==
  editor # NoEditor =>
    \A t \in editor.seen :
      \E r \in Range(Abs!Query(Postings, t, 0..15, "EXACT_ONLY")) :
        r.doc = editor.doc /\ editor.section \in r.mask

\* The lite index implements the abstract index: each step adds at most
\* one posting, for a document no older than last_added_document_id.
AbsSpec == Abs!Spec

\* Invariant 5 of the design: an EXACT_ONLY query never returns a document
\* whose only hits of the query term were indexed for prefix matching.
ExactQueryExcludesPrefixHits ==
  itr # NoIterator /\ itr.match = "EXACT_ONLY" =>
    \A r \in Range(itr.emitted) :
      \E p \in PostingsUpTo(itr.bound) :
        p.term = itr.q /\ p.doc = r.doc /\ ~p.prefix

\* The iterator's contract: the first non-OK status Advance returns is
\* NOT_FOUND; only later calls return RESOURCE_EXHAUSTED.
FirstFailureIsNotFound ==
  [][itr # NoIterator /\ itr.status \in {"NONE", "OK"} /\ Advance
       => itr'.status \in {"OK", "NOT_FOUND"}]_vars

=============================================================================
