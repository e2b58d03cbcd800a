-------------------------- MODULE MCIndexProcessor --------------------------
EXTENDS IndexProcessor

\* Section 0 is indexed EXACT_ONLY and section 1 PREFIX, as the exact and
\* prefixed properties of the processor tests' schema.
ProcSectionMatch == [s \in {0, 1} |-> IF s = 0 THEN "EXACT_ONLY" ELSE "PREFIX"]

ProcLower == [c \in {"A", "a", "b", "c", "x"} |-> IF c = "A" THEN "a" ELSE c]

\* With a two-character normalizer "Ab", "ab" and "abc" are all term "ab".
Tok(s, t) == [section |-> s, token |-> t]
Ab  == <<"A", "b">>
ab  == <<"a", "b">>
abc == <<"a", "b", "c">>
x   == <<"x">>
c   == <<"c">>

\* A document in two sections; a repeated section; a document past the
\* token limit; a document whose first term is a third one, refused by a
\* full two-term lexicon when it comes after the others; a document with
\* nothing to index.
TwoSections == << Tok(0, Ab), Tok(1, abc) >>
Repeated    == << Tok(1, ab), Tok(1, Ab) >>
TooMany     == << Tok(0, x), Tok(1, ab), Tok(1, x) >>
NewTerm     == << Tok(0, c), Tok(1, x) >>
Empty       == << >>

ProcDocuments == {TwoSections, Repeated, TooMany, NewTerm, Empty}
ProcTerms     == {ab, x, c}
=============================================================================
