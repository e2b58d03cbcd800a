--------------------------- MODULE PackedHitBuffer ---------------------------
(***************************************************************************)
(* The hit buffer as the design lays it out (section 4.C): a packed hit   *)
(* keeps the distance back to the previous hit of its term in an          *)
(* OffsetBits-wide prev_offset field, 0 meaning none.  Appending at       *)
(* position current_len writes prev_offset = current_len - prev, with     *)
(* prev = posting_head[term_id].  When that distance does not fit the     *)
(* field, the term's chain is split: the new hit starts a segment with    *)
(* prev_offset 0, and the older segment's head is recorded in the         *)
(* overflow map under the term id.  A walker goes from the head along     *)
(* prev_offset and, at the start of a segment, to the overflow map.       *)
(*                                                                         *)
(* The overflow map keeps, per term, the heads of its older segments in   *)
(* the order they were split off; the walker, coming from the newest      *)
(* segment, takes them newest first.  The field keeps its width: what is  *)
(* stored is the distance modulo 2^OffsetBits.                            *)
(***************************************************************************)
EXTENDS Integers, Sequences, FiniteSets

CONSTANTS
  TermIds,     \* term ids of the lexicon
  MaxHits,     \* hit buffer capacity
  OffsetBits   \* width of the prev_offset field (13 in the design)

ASSUME OffsetBits \in Nat \ {0}

VARIABLES
  hits,      \* the hit buffer: [tid, off]
  heads,     \* posting head table: term id -> position of its newest hit
  overflow   \* term id -> heads of its older segments, oldest first

vars == <<hits, heads, overflow>>

Field == 2^OffsetBits

\* The distance from the term's head to the hit appended now, 0 when the
\* term has no hit yet.
Distance(t) == IF heads[t] = 0 THEN 0 ELSE Len(hits) + 1 - heads[t]

\* Variant: the stored distance is not masked to the field's width.
AppendUnmasked(t) ==
  LET d == Distance(t) IN
  /\ Len(hits) < MaxHits
  /\ IF d < Field
       THEN /\ hits' = Append(hits, [tid |-> t, off |-> d])
            /\ UNCHANGED overflow
       ELSE /\ hits' = Append(hits, [tid |-> t, off |-> d])
            /\ overflow' = [overflow EXCEPT ![t] = Append(@, heads[t])]
  /\ heads' = [heads EXCEPT ![t] = Len(hits) + 1]

\* Variant: a distance of exactly 2^OffsetBits is taken to fit.
AppendFitsAtWidth(t) ==
  LET d == Distance(t) IN
  /\ Len(hits) < MaxHits
  /\ IF d <= Field
       THEN /\ hits' = Append(hits, [tid |-> t, off |-> d % Field])
            /\ UNCHANGED overflow
       ELSE /\ hits' = Append(hits, [tid |-> t, off |-> 0])
            /\ overflow' = [overflow EXCEPT ![t] = Append(@, heads[t])]
  /\ heads' = [heads EXCEPT ![t] = Len(hits) + 1]

\* Variant: the overflow map holds one entry per term, the latest split.
AppendOverwritesOverflow(t) ==
  LET d == Distance(t) IN
  /\ Len(hits) < MaxHits
  /\ IF d < Field
       THEN /\ hits' = Append(hits, [tid |-> t, off |-> d % Field])
            /\ UNCHANGED overflow
       ELSE /\ hits' = Append(hits, [tid |-> t, off |-> 0])
            /\ overflow' = [overflow EXCEPT ![t] = <<heads[t]>>]
  /\ heads' = [heads EXCEPT ![t] = Len(hits) + 1]

\* Appending a hit: the distance in prev_offset when it fits, else a new
\* segment and the old head into the overflow map.
AppendHit(t) ==
  LET d == Distance(t) IN
  /\ Len(hits) < MaxHits
  /\ IF d < Field
       THEN /\ hits' = Append(hits, [tid |-> t, off |-> d % Field])
            /\ UNCHANGED overflow
       ELSE /\ hits' = Append(hits, [tid |-> t, off |-> 0])
            /\ overflow' = [overflow EXCEPT ![t] = Append(@, heads[t])]
  /\ heads' = [heads EXCEPT ![t] = Len(hits) + 1]

HitBufferFull(t) ==
  /\ Len(hits) = MaxHits
  /\ UNCHANGED vars

Init ==
  /\ hits = <<>>
  /\ heads = [t \in TermIds |-> 0]
  /\ overflow = [t \in TermIds |-> <<>>]

Next == \E t \in TermIds : AppendHit(t) \/ HitBufferFull(t)

Spec == Init /\ [][Next]_vars

\* The chain walker of term t: positions newest first.  k counts the
\* overflow entries of t not yet taken; a segment start with none left
\* is the end of the chain.
Walk(t) ==
  LET RECURSIVE W(_, _)
      W(j, k) ==
        IF j = 0 THEN <<>>
        ELSE <<j>> \o (IF hits[j].off > 0 THEN W(j - hits[j].off, k)
                       ELSE IF k = 0 THEN <<>>
                       ELSE W(overflow[t][k], k - 1))
  IN  W(heads[t], Len(overflow[t]))

\* The back-pointer the walker follows from hit j, given the walk w of
\* its term: the next position of the walk, 0 at its end, and -1 for a
\* hit the walk misses.
PrevOf(w, j) ==
  IF \E i \in DOMAIN w : w[i] = j
    THEN LET i == CHOOSE i \in DOMAIN w : w[i] = j
         IN  IF i < Len(w) THEN w[i + 1] ELSE 0
    ELSE -1

\* Each hit with the back-pointer its term's walker follows from it.
Decoded ==
  LET walks == [t \in TermIds |-> Walk(t)]
  IN  [j \in DOMAIN hits |-> [tid |-> hits[j].tid,
                              prev |-> PrevOf(walks[hits[j].tid], j)]]

Abs == INSTANCE HitBuffer WITH hits <- Decoded

-----------------------------------------------------------------------------
TypeOK ==
  /\ hits \in Seq([tid : TermIds, off : 0..Field - 1])
  /\ Len(hits) <= MaxHits
  /\ heads \in [TermIds -> 0..MaxHits]
  /\ overflow \in [TermIds -> Seq(1..MaxHits)]

\* Invariant 2 of the design over the packed layout, as a refinement: the
\* walker started at a term's posting head, following prev_offset and
\* the overflow map across every segment split off by an overflowing
\* distance, steps from each hit to exactly the previous hit of its term,
\* the back-pointer the widened layout writes, append by append.
AbsSpec == Abs!Spec

=============================================================================
