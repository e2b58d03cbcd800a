# TLA+ models of the icing lite index and file-backed vector

These modules model the storage core of the icing search library in this
repository: the file-backed vector and the "lite" inverted index built on it.
They are checked with TLC.

The repository holds the tests of these components (`src/unnamed/part_000` is
`index_test.cc`, plus `src/icing/file/file-backed-vector_test.cc` and
`src/icing/index/index-processor_test.cc`), not their implementation. Each
definition therefore models the behaviour those tests pin down, and the design
(`spec.md`) fills in what no test fixes. PROJECT.json's `map` names the test
lines each definition stands for. Definitions taken from the design alone are
marked `spec_modelled`.

## The system

| Part | What it does | Interacts with |
|------|--------------|----------------|
| FileBackedVector | An mmap-backed array with a header `{num_elements, vector_checksum}`. It grows in chunks of `kGrowElements` and has an incremental checksum. | Storage for the hit buffer and the posting head table. |
| Lexicon | Maps a term to a dense term id, with prefix enumeration. | The editor inserts terms; GetIterator looks them up. |
| Hit buffer and posting heads | Packed hits `(doc, section, match flag, prev_offset)`. The heads point at each term's newest hit, and the back-pointers chain a term's hits newest first. | Editor appends; iterator walks. |
| Index facade and Editor | `Edit(doc, section, match)` gives an editor. `AddHit(term)` de-duplicates per editor, refuses documents older than `last_added_document_id`, and fails `RESOURCE_EXHAUSTED` when full. | Lexicon, hit buffer |
| Hit iterator | `GetIterator(term, mask, match)` chooses the candidate terms. `Advance` merges their chains into one `DocHitInfo` per document, in descending document order. | Reads the hit buffer |
| Index persistence | Combined header checksum, PersistToDisk, and reopen. | FileBackedVector |
| IndexProcessor | Splits a document into tokens, normalizes them, and feeds them to editors per section. It checks the document order and a token limit. | Segmenter, normalizer, index |
| LanguageSegmenter, Normalizer | Text to tokens, and lower-casing plus truncation. | IndexProcessor |
| Logging | `ICING_LOG(severity)` over the `LogSeverity` levels. | Debug lines only; nothing reads them back (not modelled) |

## Modules

- **`IndexAbstract`** is what the index promises. Its state is a growing set of postings `(term, doc, section, prefix)` plus `lastAdded`. Its only step, `Add`, adds a posting for a document no older than `lastAdded`. `Query(P, q, mask, mt)` is the reference answer of a drained iterator:
  - one `DocHitInfo` per matching document, in strictly descending document order;
  - the mask is the matching sections restricted to the query mask;
  - a document with an empty mask is left out;
  - an exact query takes every hit of `q`;
  - a prefix query also takes the prefix-tagged hits of longer terms.
- **`LiteIndex`** is the lite index itself.
  - **Variables:**
    - `lexicon`: the sequence of terms, with term id = position;
    - `heads`, `hits`: the hit buffer, each hit with `prev`;
    - `lastAdded`;
    - `editor`: the live editor with its `seen` set;
    - `itr`: one live iterator with its per-term chain cursors.
  - **Actions:**
    - `Edit`;
    - `AddHit`, made of four alternatives: `AddHitSeen` (dedupe), `AddHitOutOfOrder` (INVALID_ARGUMENT), `AddHitExhausted` (full lexicon, or full hit buffer after the term was inserted) and `AddHitAppend`;
    - `GetIterator`;
    - `Advance`, whose merge is the recursive operator `NextGroup` over `Chain`, `RunSections` and `After`.
  - **Refinement:** `Abs == INSTANCE IndexAbstract WITH postings <- Postings` maps the hit buffer to its set of postings. `AbsSpec` is checked as a property.
- **`FileBackedVector`** is the vector.
  - **Variables:**
    - `array`: the file's content region, which survives the process;
    - `capacity`;
    - `hdr`: the header on disk;
    - the in-memory `numElements`, `crc`, `changes` and `changesEnd`;
    - `status`: the last Create result;
    - two history variables, `persisted` and `clean`.
  - **The checksum** is kept as the element sequence it is computed over. `Crc(s)` identifies sequences that differ only in leading zeros, because Crc32 starts at 0 without inversion. The Grow test pins this: `"abcde"` has the same checksum with and without 2^20-13 zeros before it.
  - **Actions:**
    - `Set`: grow by chunks, extend `num_elements`, then save the original value or drop tracking past the partial limit;
    - `TruncateTo`: leaves the checksum alone;
    - `ComputeChecksum`: XORs the saved originals, skipping duplicates and elements past the end, then appends the tail;
    - `PersistToDisk`;
    - `Close`: the auto-sync destructor;
    - `Crash`;
    - `Create`: a new file, or a validated reopen, with INTERNAL on a mismatch;
    - `Delete`;
    - `Tamper`: the tests' overwrite of a closed file.
- **`IndexProcessor`** is `IndexDocument` over the lite index.
  - It shares the six `LiteIndex` variables and calls the `LiteIndex` actions through `LI == INSTANCE LiteIndex`, so the editor and hit buffer it drives are the ones the other runs check.
  - **Variables:**
    - `proc`: the call in progress, with the document id, its (section, token) list, the tokens left, the token count, the remembered status, the limit behaviour and the current section;
    - `result`: the status the last call returned.
  - **Actions:**
    - `IndexDocument`: INVALID_ARGUMENT when the id is not newer than `last_added_document_id`; otherwise the call starts;
    - `StartSection`: `Index::Edit` with the section's match type;
    - `TokenLimit`: past `max_tokens_per_document`, return RESOURCE_EXHAUSTED or OK;
    - `AddToken`: normalize the token and call `AddHit`; a failure is remembered, and the call goes on;
    - `Finish`: return the remembered status.
  - `Normalize` is `Truncate(Lowercase(tok))`, the normalizer's conversion.
  - The segmenter is left out: a document is given as its token list in section order, which is what the segmenter and the section manager produce.
  - The out-of-order `AddHit` outcome is not an alternative of `AddToken`. The order check at the start of the call already rules it out.
- **`IndexPersistence`** is the lite index across process lifetimes, composing `LiteIndex` in the same way.
  - **Variables:**
    - `open`;
    - `hdr`: lite.hdr, holding `last_added_document_id` and the combined checksum;
    - `files`: the lexicon, head-table and hit-buffer files as a closed index leaves them;
    - `status`: the last Create result.
  - **Writes:** `IdxEdit` and `IdxAddHit` are the `LiteIndex` operations of an open index. They reach the mapped files at once.
  - **Actions:**
    - `PersistToDisk`: write the header;
    - `Close`: the destructor, which persists;
    - `Crash`: the files keep the mapped pages, and the header is not written;
    - `Create`, which is either `CreateFresh` (no header) or `Load` (the checksum matches, or DATA_LOSS);
    - `Tamper`: the corruption test's overwrite of the hit buffer file;
    - `Delete`: the test teardown.
  - `Checksum(lastAdded, files)` is kept as the tuple of what the combined checksum covers (design §6: header fields, lexicon, head table, hit buffer). Crc32's own collisions are examined in `FileBackedVector`, not here.
- **`HitBuffer`** is the hit buffer with widened back-pointers, the layout the design allows as an alternative.
  - **Variables:** `hits`, each with its term id and the absolute position `prev` of the previous hit of its term, and `heads`.
  - **Actions:** `AppendHit(t)`, which writes `prev = heads[t]` and moves the head; and `HitBufferFull`, where the append fails once the buffer holds `MaxHits` hits.
- **`PackedHitBuffer`** is the layout of design §4.C, with the field width as the constant `OffsetBits` (13 in the design).
  - **Variables:**
    - `hits`, each with its term id and `off`, the stored `prev_offset`;
    - `heads`;
    - `overflow`: per term, the heads of its older chain segments, oldest first.
  - **Actions:**
    - `AppendHit(t)` computes `Distance(t) = current_len - prev`. When the distance is below `2^OffsetBits`, it is stored modulo the width. Otherwise the hit starts a new segment with `off = 0`, and the old head is appended to `overflow[t]`.
    - `HitBufferFull`.
  - **Walker:** `Walk(t)` is the per-term chain walker. It follows `off` and, at the start of a segment, takes the next overflow entry, newest first.
  - **Refinement:** `Abs == INSTANCE HitBuffer WITH hits <- Decoded`. `Decoded` gives each hit the position the walker steps to from it (`PrevOf`). `AbsSpec` is design invariant 2 for the packed layout: append by append, the walker reproduces exactly the chain the widened layout writes.
  - Both modules come from the design (`spec.md` lines 96 and 98), because no code or test of this repository reaches the overflow map. They are `spec_modelled` in the map, except for the full-buffer refusal, which `index_test.cc` pins.
- **`MCLiteIndex`, `MCFileBackedVector`, `MCIndexProcessor` and `MCIndexPersistence`** hold the TLC instantiations:
  - `MCLiteIndex` defines the terms `foo`, `fool`, `bar` and the query `f`;
  - `MCIndexProcessor` defines the schema (section 0 EXACT_ONLY, section 1 PREFIX), the lower-casing map and four documents;
  - `MCFileBackedVector` adds `OpenSpec`, a vector that is never closed, and `RecoverySpec`, every operation but truncation.

## Runs

| Run | cfg | Expect | What it shows |
|-----|-----|--------|---------------|
| lite_query | MCLiteIndex.cfg | pass | Over up to three hits, every iterator yields exactly `Abs!Query` over the hits present when it was created, Advance by Advance, even when AddHits interleave. This holds for exact and prefix queries and for both masks. (`TypeOK`, `IteratorMatchesQuery`) |
| lite_capacity | MCLiteIndexCap.cfg | pass | Three terms fill a two-term lexicon and a three-hit buffer. Chains stay exact and non-increasing in document order, every OK AddHit of the live editor is queryable, and the index refines `IndexAbstract`. (`ChainsWellFormed`, `OkHitsVisible`, `AbsSpec`) |
| lite_exact_prefix | MCLiteIndexExact.cfg | violation | An EXACT_ONLY query returns a document that has only prefix-tagged hits of the term. |
| lite_first_failure | MCLiteIndexStatus.cfg | violation | The first failing Advance after an OK returns RESOURCE_EXHAUSTED. |
| proc_index | MCIndexProcessor.cfg | pass | The processor over the lite index, with the lexicon and the hit buffer filling up part way through a document. No hit is stored twice, even across a retried document. Each call stores no posting beyond its normalized tokens up to the limit, all of them when it returns OK, and every token when it returns OK under kReturnError. (`TypeOK`, `HitsUnique`, `IndexedTokensExact`) |
| persist_states | MCIndexPersistence.cfg | pass | Closes, crashes, overwrites of the hit buffer file and directory deletes, composed with the lite index, never take the index or its files out of their types; the hit buffer and lexicon stay within capacity across reloads. (`TypeOK`) |
| proc_suppress | MCIndexProcessorSuppress.cfg | violation | Under kSuppressError, a call whose AddHit failed returns OK when it then reaches the token limit. |
| fbv_crc | MCFileBackedVectorCrc.cfg | pass | The incremental checksum equals the content's checksum whenever no truncation has cut under it. This covers two saved originals, duplicates, the limit reset and tail appends. (`IncrementalCrcSound`) |
| fbv_recovery | MCFileBackedVector.cfg | pass | Without truncation, every successful reopen after close, crash, delete or overwrite yields the last persisted content. (`RecoveredContentIsPersisted`) |
| fbv_truncate | MCFileBackedVectorTruncate.cfg | violation | After TruncateTo, ComputeChecksum is stale. |
| fbv_stale_reopen | MCFileBackedVectorStale.cfg | violation | The stale checksum lets Create accept overwritten content that was never persisted. |
| hit_packed | MCPackedHitBuffer.cfg | pass | With a 2-bit `prev_offset`, distances of exactly `2^OffsetBits` and beyond and two splits of one term's chain happen. The walker over `prev_offset` and the overflow map still steps from every hit to exactly the previous hit of its term. The packed buffer therefore refines `HitBuffer`. (`TypeOK`, `AbsSpec`) |

PROJECT.json lists a mutant for every property of every passing run, and
TLC finds each of them. A mutant is a plausible bug in the modelled operation:
- the capacity check letting one hit past the end;
- a prefix query ignoring the hit's match flag;
- a back-pointer to the previous hit of any term;
- a failed AddHit marking the term seen, or advancing `last_added_document_id`;
- `TruncateTo` accepting `num_elements + 1`;
- `Set` saving the value after writing it;
- growth that is not chunked;
- `Create` trusting the header;
- the processor letting the last added document in again;
- the token count compared before it is raised;
- the token limit taken one token early;
- a `prev_offset` stored without the mask;
- a distance of exactly `2^OffsetBits` taken to fit;
- an overflow map holding only the latest split of a term.

### What the violations mean

1. **Exact queries and prefix hits.** `spec.md` contradicts itself here. Its data-model paragraph says a PREFIX hit is returned by exact queries too. Invariant 5 and the iterator description say it is not. `index-processor_test.cc:237` follows the data-model paragraph.
2. **First failure status.** The design says the first non-OK status is NOT_FOUND. `index_test.cc:132` expects RESOURCE_EXHAUSTED once the iterator has returned OK.
3. **Stale checksum after truncation.** Truncation leaves the checksum stale, and the tests pin that (`file-backed-vector_test.cc:159`, `:412`). The design says ComputeChecksum is always the checksum of the current content. The consequences:
   - A truncated vector that is then persisted or closed has a header checksum its content does not match, so it cannot be reopened. This follows from `fbv_truncate` and has no run of its own.
   - Because Crc32 ignores leading zeros, the stale checksum of the longer content can match a shorter content that was overwritten after the persist. Create then accepts content that was never persisted. The trace is: Set, ComputeChecksum, TruncateTo, Close, overwrite, Create.
4. **Error code on mismatch.** No run checks this one. The test expects INTERNAL on a checksum mismatch (`file-backed-vector_test.cc:132`), while the design says DATA_LOSS. `FileBackedVector.Create` models INTERNAL, as the test pins. A run for it would only restate that one assignment, so the run slot went to the packed hit buffer.
5. **kSuppressError hides a failed AddHit.** The test pins OK for a document past the limit under kSuppressError (`index-processor_test.cc:335`). The disabled test at `:520` shows a failed AddHit being remembered while the call goes on. Together, a document whose AddHit failed and that then reaches the limit returns OK with a token below the limit missing.  Nothing else records the lost hit: design §7 gives no log or status for it. Neither the design nor a test says which status should win, so this is recorded as a gap in the specification.

## Bounds

- **lite_query:**
  - two terms, one extending the other (`foo`, `fool`), so prefix expansion and the match-flag rule both matter;
  - the query `foo`, which has an equal candidate (`foo`) and a longer one (`fool`), as exact and as prefix query;
  - documents {0,1}, sections {2,3};
  - masks {2,3} and {2};
  - up to 3 hits.

  Three hits are the fewest in which one walker of a two-term merge holds two documents, or one document in two sections, while the other walker holds a hit. This reaches multi-term merges, documents with two sections, masked-out documents that `NextGroup` skips, iterators created between AddHits, and both end-of-iteration statuses. The violation runs `lite_exact_prefix` and `lite_first_failure` keep two hits and also query `f`. 1,274,053 states.
- **lite_capacity:**
  - three terms for a two-term lexicon and a three-hit buffer, so both limits are hit;
  - a full buffer is also reached with a term newly inserted into the lexicon.

  No queries, because the properties quantify over all queries themselves. 66,945 states.
- **fbv_crc:** 6 elements, `kGrowElements` 3, `kPartialCrcLimitDiv` 3.
  - The divisor 3 is the smallest one consistent with the test's "1 of 2 changes exceeds the limit".
  - With it, 6 elements is the smallest vector on which two originals are tracked at once, so overlapping changes reach the duplicate-skipping path.
  - The values are {0,1}.
  - Stale checksums are explored up to 6 elements (`CrcBound`). Such a checksum grows without bound as a sequence, though a real CRC does not.

  804,387 states.
- **proc_index:**
  - document ids {0,1,2,3} and five documents:
    - one with a token in each section;
    - one repeating a section with "ab" and "Ab";
    - one with three tokens against a limit of 2;
    - one whose first token is a third term, `c`;
    - an empty one;
  - a two-character normalizer, so "Ab", "ab" and "abc" are one term;
  - a two-term lexicon and a four-hit buffer. The lexicon refuses `c` once `ab` and `x` are in it, and the buffer fills up within the third document.

  This reaches the refused retry, deduplication across case and truncation, and both limit behaviours. It reaches AddHit failing part way through a document with RESOURCE_EXHAUSTED, from a full lexicon and from a full hit buffer. It also reaches an empty document that leaves `last_added_document_id` unchanged. 17,450 states.
- **persist_states:**
  - terms `foo` and `bar`, documents {0,1}, section 2;
  - a two-hit buffer and a two-term lexicon;
  - one corrupt hit value for the overwrite.

  This reaches a crash with hits, a lexicon term or neither written since the last persist, and an overwrite before or after a persist. It also reaches reopening a full index, and a delete and rebuild after DATA_LOSS. 204,629 states.
- **fbv_recovery:** 4 elements in two chunks of 2, values {0,1}, 7,156 states.
- **hit_packed:**
  - `OffsetBits` 2, so distances 1 to 3 fit and 4 is the first that does not;
  - two terms and nine hits.

  Nine hits are the fewest in which one term is split twice: it has hits at positions 1, 5 and 9, and the other term fills the gaps. Every interleaving of the two terms is explored. This reaches distances of exactly 4 and beyond, and a term split while the other term is not. The 13-bit field of the design behaves the same at its own boundary, `2^13`. 1,023 states.

The real constants are far larger: `kMaxNumElts` = 2^20, `kGrowElements` =
2^14, and an `index_merge_size` of 1 MiB. The behaviours these properties are
about already occur at the boundaries the small bounds reach:
- a full buffer;
- a chunk edge;
- the partial-limit switch;
- a truncation below `changes_end`.

## Fairness

No specification assumes fairness, and no property is a liveness property.
`IndexDocument` is one synchronous call on the caller's thread: once started,
its loop over sections and tokens consumes one token per step and ends, so its
return holds by the shape of the model and a liveness property would restate
that. Nothing in the code promises that a caller starts a call, or makes any
LiteIndex or FileBackedVector operation or query. The properties are safety
properties or refinements of safety specifications.

## Not modelled

1. **Out of scope:**
   - LanguageSegmenter (ICU text segmentation, stateless);
   - the fuzz test driver;
   - logging. `ICING_VLOG` (`logging.h:24`) has no caller in the repository, and the only `ICING_LOG` calls are two INFO lines of the vector test, debug output nobody reads back;
   - a round-trip property of `IndexPersistence`. The combined checksum is kept as the tuple it covers, so "a successful Create loads the persisted index" would hold by construction; the collision class where a reload does accept other content is Crc32's, checked by `fbv_stale_reopen` on `FileBackedVector`;
   - `DocHitInfoIterator::ToString` (`index_test.cc:327`-`358`), a read-only rendering of the iterator's mask, term and match type that no property depends on;
   - `Get`, which only reads and appears as `Content`;
   - `Index::Create`'s INTERNAL on an I/O failure and INVALID_ARGUMENT on a bad merge size, which are error returns that leave no state;
   - the index's files as `FileBackedVector` instances. `IndexPersistence` takes their content as written through the mapping, and `FileBackedVector` checks what a vector's own header and checksum do with it.

2. **Why nothing more is modelled.** The only implementation code in the repository is `logging.h`, two macro definitions, and the `LogSeverity` enum. Everything else above is modelled from the tests that pin its behaviour, or from the design where no test reaches it. Every operation those tests and the design give a component, and that changes state, is an action of a module. What remains are the parts listed under 1. A further model would have to invent behaviour that neither the code nor the design fixes, for example:
   - the engine that drives PersistToDisk and the index merge;
   - the bit packing of the 24-bit document id, for which the design states no bound check.
