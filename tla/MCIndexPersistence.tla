------------------------- MODULE MCIndexPersistence -------------------------
EXTENDS IndexPersistence

\* Terms of the persistence tests: "foo" and "bar".
foo == <<"f", "o", "o">>
bar == <<"b", "a", "r">>

PersistTerms == {foo, bar}

\* The "ffff..." overwrite of the corruption test, read back as a hit of
\* the first term in a document and section the index also uses.
PersistCorrupt == {[tid |-> 1, doc |-> 1, section |-> 2, prefix |-> TRUE,
                    prev |-> 0]}
=============================================================================
