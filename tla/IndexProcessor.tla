--------------------------- MODULE IndexProcessor ---------------------------
(***************************************************************************)
(* IndexProcessor::IndexDocument(document, document_id) over the lite     *)
(* index.  A document is refused with INVALID_ARGUMENT unless its id is   *)
(* greater than last_added_document_id (or nothing was added yet).  Its   *)
(* indexed sections are then taken in section-id order; each gets one     *)
(* Index::Editor with the section's term match type, and every token of   *)
(* the section's content, normalized (lower-cased, truncated to           *)
(* max_token_length), goes through Editor::AddHit.  Before a token is      *)
(* added the token count is raised; past max_tokens_per_document the call *)
(* stops at once and returns RESOURCE_EXHAUSTED (kReturnError) or OK       *)
(* (kSuppressError), keeping the hits already added.  A failing AddHit    *)
(* does not stop the call: the error is remembered and returned at the    *)
(* end.                                                                   *)
(*                                                                         *)
(* The segmenter is abstracted away: a document is the sequence of its    *)
(* (section, token) pairs in the order the processor visits them.  The     *)
(* call runs on the caller's thread; its steps are taken one by one here,  *)
(* with no query in between.                                              *)
(***************************************************************************)
EXTENDS Integers, Sequences, SequencesExt, FiniteSetsExt

CONSTANTS
  Terms, Queries, DocIds, Sections, Masks, MaxHits, MaxTerms,
  Documents,       \* documents handed to IndexDocument
  SectionMatch,    \* section id -> term match type, from the schema
  Lower,           \* character -> its lower-case form
  MaxTokens,       \* Options::max_tokens_per_document
  MaxTokenLength,  \* the normalizer's max_term_byte_size
  Behaviors        \* Options::token_limit_behavior values in use

ASSUME MaxTokens \in Nat /\ MaxTokenLength \in Nat \ {0}
ASSUME Behaviors \subseteq {"kReturnError", "kSuppressError"}

VARIABLES
  lexicon, heads, hits, lastAdded, editor, itr,
  proc,    \* the IndexDocument call in progress, or Idle
  result   \* the status the last IndexDocument call returned

index == <<lexicon, heads, hits, lastAdded, editor, itr>>
vars == <<lexicon, heads, hits, lastAdded, editor, itr, proc, result>>

LI == INSTANCE LiteIndex

Idle == [doc |-> LI!Invalid]

\* Normalizer::NormalizeTerm: lower-case, then cut to MaxTokenLength.
Lowercase(tok) == [i \in DOMAIN tok |-> Lower[tok[i]]]
Truncate(tok) == SubSeq(tok, 1, Min({Len(tok), MaxTokenLength}))
Normalize(tok) == Truncate(Lowercase(tok))

\* Variant: the order check lets the last added document in again.
IndexDocumentRetry(d, doc, b) ==
  /\ proc = Idle
  /\ IF lastAdded # LI!Invalid /\ d < lastAdded
       THEN /\ result' = "INVALID_ARGUMENT"
            /\ UNCHANGED <<index, proc>>
       ELSE /\ proc' = [doc |-> d, tokens |-> doc, rest |-> doc, count |-> 0,
                        status |-> "OK", behavior |-> b, section |-> -1,
                        base |-> Len(hits)]
            /\ UNCHANGED <<index, result>>

(***************************************************************************)
(* IndexDocument, first step: the document-order check.                   *)
(***************************************************************************)
IndexDocument(d, doc, b) ==
  /\ proc = Idle
  /\ IF lastAdded # LI!Invalid /\ d <= lastAdded
       THEN /\ result' = "INVALID_ARGUMENT"
            /\ UNCHANGED <<index, proc>>
       ELSE /\ proc' = [doc |-> d, tokens |-> doc, rest |-> doc, count |-> 0,
                        status |-> "OK", behavior |-> b, section |-> -1,
                        base |-> Len(hits)]
            /\ UNCHANGED <<index, result>>

\* A new section: Index::Edit with the section's match type.
StartSection ==
  /\ proc # Idle /\ proc.rest # <<>>
  /\ Head(proc.rest).section # proc.section
  /\ LET s == Head(proc.rest).section
     IN  /\ LI!Edit(proc.doc, s, SectionMatch[s])
         /\ proc' = [proc EXCEPT !.section = s]
  /\ UNCHANGED result

\* Variant: the limit is taken one token early.
TokenLimitEarly ==
  /\ proc # Idle /\ proc.rest # <<>>
  /\ Head(proc.rest).section = proc.section
  /\ proc.count + 2 > MaxTokens
  /\ result' = IF proc.behavior = "kReturnError"
                 THEN "RESOURCE_EXHAUSTED" ELSE "OK"
  /\ proc' = Idle
  /\ UNCHANGED index

\* The next token passes the token limit: stop, keeping what was added.
TokenLimit ==
  /\ proc # Idle /\ proc.rest # <<>>
  /\ Head(proc.rest).section = proc.section
  /\ proc.count + 1 > MaxTokens
  /\ result' = IF proc.behavior = "kReturnError"
                 THEN "RESOURCE_EXHAUSTED" ELSE "OK"
  /\ proc' = Idle
  /\ UNCHANGED index

\* Variant: the token count is compared before it is raised.
AddTokenPastLimit ==
  /\ proc # Idle /\ proc.rest # <<>>
  /\ Head(proc.rest).section = proc.section
  /\ proc.count <= MaxTokens
  /\ LET t == Normalize(Head(proc.rest).token)
         next(st) == proc' = [proc EXCEPT !.rest = Tail(@),
                                          !.count = @ + 1, !.status = st]
     IN  \/ (LI!AddHitSeen(t) \/ LI!AddHitAppend(t)) /\ next(proc.status)
         \/ LI!AddHitExhausted(t) /\ next("RESOURCE_EXHAUSTED")
  /\ UNCHANGED result

\* The next token goes through Editor::AddHit; a failure is remembered
\* and the call goes on.  (The document-order check above keeps every
\* AddHit of the call from being refused as out of order: the editor's
\* document is newer than last_added_document_id, or equal to it after a
\* hit of this call.)
AddToken ==
  /\ proc # Idle /\ proc.rest # <<>>
  /\ Head(proc.rest).section = proc.section
  /\ proc.count + 1 <= MaxTokens
  /\ LET t == Normalize(Head(proc.rest).token)
         next(st) == proc' = [proc EXCEPT !.rest = Tail(@),
                                          !.count = @ + 1, !.status = st]
     IN  \/ (LI!AddHitSeen(t) \/ LI!AddHitAppend(t)) /\ next(proc.status)
         \/ LI!AddHitExhausted(t) /\ next("RESOURCE_EXHAUSTED")
  /\ UNCHANGED result

\* Every token visited: return the remembered status.
Finish ==
  /\ proc # Idle /\ proc.rest = <<>>
  /\ result' = proc.status
  /\ proc' = Idle
  /\ UNCHANGED index

Init ==
  /\ LI!Init
  /\ proc = Idle
  /\ result = "NONE"

Next ==
  \/ \E d \in DocIds, doc \in Documents, b \in Behaviors :
       IndexDocument(d, doc, b)
  \/ StartSection
  \/ TokenLimit
  \/ AddToken
  \/ Finish

Spec == Init /\ [][Next]_vars

-----------------------------------------------------------------------------
TypeOK ==
  /\ LI!TypeOK
  /\ result \in {"NONE", "OK", "INVALID_ARGUMENT", "RESOURCE_EXHAUSTED"}
  /\ proc = Idle
     \/ /\ proc.doc \in DocIds /\ proc.tokens \in Documents
        /\ proc.count \in 0..Len(proc.tokens) /\ proc.behavior \in Behaviors
        /\ proc.status \in {"OK", "RESOURCE_EXHAUSTED"}
        /\ proc.base \in 0..Len(hits)

\* The postings a list of (section, token) pairs should give this call.
Expected(toks) ==
  {[term |-> Normalize(e.token), doc |-> proc.doc, section |-> e.section,
    prefix |-> SectionMatch[e.section] = "PREFIX"] : e \in Range(toks)}

\* The postings the hits appended by the call in progress stand for.
Added ==
  {[term |-> lexicon[hits[j].tid], doc |-> hits[j].doc,
    section |-> hits[j].section, prefix |-> hits[j].prefix] :
     j \in proc.base + 1..Len(hits)}

\* The hit buffer never holds the same (term, document, section) twice:
\* a document is indexed once (the order check refuses a retry, even of a
\* document whose earlier call failed part way), and within one call a
\* section's repeated tokens, normalized to one term, share an editor.
HitsUnique ==
  \A i, j \in DOMAIN hits :
    i < j => <<hits[i].tid, hits[i].doc, hits[i].section>>
               # <<hits[j].tid, hits[j].doc, hits[j].section>>

\* The tokens the token limit lets through.
Admitted(toks) == SubSeq(toks, 1, Min({MaxTokens, Len(toks)}))

\* When IndexDocument returns, the hits it appended are postings of its
\* own normalized tokens, with the section's match type, and none of a
\* token past max_tokens_per_document; when no AddHit of the call failed,
\* every token up to the limit is indexed, whichever limit behaviour;
\* and under kReturnError an OK result means every token of the document
\* is indexed.
IndexedTokensExact ==
  [][proc # Idle /\ proc' = Idle =>
       /\ Added \subseteq Expected(Admitted(proc.tokens))
       /\ proc.status = "OK" => Added = Expected(Admitted(proc.tokens))
       /\ result' = "OK" /\ proc.behavior = "kReturnError" =>
            Added = Expected(proc.tokens)]_vars

\* What a caller of kSuppressError reads from OK: every token up to the
\* limit is indexed; a failed AddHit is reported, as it is when the
\* document stays under the limit.
OkMeansAdmittedIndexed ==
  [][proc # Idle /\ proc' = Idle /\ result' = "OK" =>
       Added = Expected(Admitted(proc.tokens))]_vars

=============================================================================
