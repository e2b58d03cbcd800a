---------------------------- MODULE MCLiteIndex ----------------------------
EXTENDS LiteIndex

\* Terms of the index tests: "foo", its extension "fool", "bar", and the
\* one-letter query "f" of the persistence test.
foo  == <<"f", "o", "o">>
fool == <<"f", "o", "o", "l">>
bar  == <<"b", "a", "r">>
f    == <<"f">>

\* Query runs: two terms one of which extends the other, the full mask
\* and a mask that drops section 3.  The two-hit violation runs query
\* both "f" and "foo".
QueryTerms   == {foo, fool}
QueryQueries == {f, foo}
QueryMasks   == {{2, 3}, {2}}

\* Query run over three hits: the query "foo" alone, which has both an
\* equal candidate (foo) and a longer one (fool), so that a three-hit
\* buffer, where one walker of a merge holds two documents, stays small.
MergeQueries == {foo}

\* Capacity run, with no queries: three terms for a two-term lexicon, so
\* that both the lexicon and the hit buffer fill up.
CapTerms   == {foo, fool, bar}
CapQueries == {}
CapMasks   == {}
=============================================================================
