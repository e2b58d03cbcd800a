------------------------------ MODULE HitBuffer ------------------------------
(***************************************************************************)
(* The hit buffer with widened back-pointers, the representation the       *)
(* design allows in place of prev_offset and the one LiteIndex uses: each *)
(* hit records the position of the previous hit of its term (0 = none),   *)
(* and the posting head table the position of each term's newest hit.     *)
(* Only the term of a hit matters to the chains; its document, section    *)
(* and match flag are left out.                                           *)
(***************************************************************************)
EXTENDS Integers, Sequences

CONSTANTS TermIds, MaxHits

VARIABLES hits, heads

vars == <<hits, heads>>

\* Appending a hit: it points back at the term's head and becomes the head.
AppendHit(t) ==
  /\ Len(hits) < MaxHits
  /\ hits' = Append(hits, [tid |-> t, prev |-> heads[t]])
  /\ heads' = [heads EXCEPT ![t] = Len(hits) + 1]

\* A full buffer refuses the hit: RESOURCE_EXHAUSTED, nothing written.
HitBufferFull(t) ==
  /\ Len(hits) = MaxHits
  /\ UNCHANGED vars

Init ==
  /\ hits = <<>>
  /\ heads = [t \in TermIds |-> 0]

Next == \E t \in TermIds : AppendHit(t) \/ HitBufferFull(t)

Spec == Init /\ [][Next]_vars

\* The positions of a chain, newest first.
RECURSIVE Chain(_)
Chain(j) == IF j = 0 THEN <<>> ELSE <<j>> \o Chain(hits[j].prev)

=============================================================================
