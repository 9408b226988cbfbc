# A TLA+ verification project for bc-zip

`bc-zip` (namespace and paths below are relative to the repository root) is a lossless
compressor that looks for the LZ77 parsing of a file which minimises one resource (compressed
space or estimated decompression time) while the other stays below a bound.

## 1. Inventory

### 1.1 Components, state, operations

| Component | Sources | State | Operations |
|---|---|---|---|
| Bicriteria driver | `bicriteria_compress.cpp` 619-1040 | `sol_cache`, `comp_cache`, the warm/cold graph inside `sol_getter`, the basis, `W` | `run`, `optimal` (two overloads), `get_basis`, `writable_solution`, `writable_parsings`, `path_swap`, the loop over the bounds |
| Dual basis | `bicriteria_compress.cpp` 464-583 | the lines `left` and `right` | `intersect`, `update`, `current`, `lower_envelope` |
| Compressed cache | `bicriteria_compress.cpp` 398-462 | a bounded FIFO list | `add`, `remove_latest`, `get` |
| Solution getter | `include/solution_getter.hpp` | the cached graph | `fast`, `full`, with one or two cost models |
| Path swapper | `include/path_swapper.hpp` | two phrase readers, heads, head and tail costs, best swap | `swap_points`, `generate` |
| Solution integrator | `include/solution_integrator.hpp` | next position of every parsing, the generator's position | `integrate`, `fix` |
| Optimal parser | `include/optimal_parser.hpp`, `edges.hpp` | cost and edge vectors, sliding window minimum | `parse`, `edge_relax`, `plain_relax`, `flip`, `s_window::update` |
| Edge generation protocols | `include/base_fsg.hpp`, `bucket_fsg.hpp`, `rightmost_fsg.hpp` | mesh indices, generator position, the bucket, the greedy parsing | `gen_next`, `generate_edges`, `up`, `right`, the rounds on buckets, the rightmost copies |
| Graph cache | `include/graph_cache.hpp` | a bit stream per distance class | `max_match` of the caching and of the cached generator |
| Generators over blocks | `include/fast_fsg.hpp`, `online_rsa.hpp`, `scan.hpp`, `match_length.hpp`, `cc_stats.hpp`, `space_opt_subseq.hpp` | rings of sorted blocks for the kept classes of distances, matches found ahead, the last merged block of a kept class, lengths carried | `max_match`, `get_rsa`, `notify`, `set`, `match`, `skip`, `get_seq` |
| Generators over windows of ranks | `include/fsg.hpp`, `AVLtree.h` | a tree or a bitmap of suffix ranks for each class, a shared pool of nodes, lengths carried | `max_match`, `pre_gen`, `post_gen`, `levels`, `Set`, `Remove`, `Insert`, `Delete` |
| Generator registry and factories | `include/generators.hpp`, `fsg_fact.hpp`, `libs/generators.cpp` | none | `get_kind`, `compatible`, `suggest_gen` |
| Cost models | `include/cost_model.hpp`, `libs/cm_factory.cpp`, `include/cm_factory.hpp` | class bounds, costs | `get_id`, `edge_cost`, `fuse`, `id`, mixtures |
| Codecs and bit I/O | `include/encoders.hpp`, `libs/encoders.cpp`, `include/unaligned_io.hpp` | byte and bit cursor | encode and decode a distance, a length, a literal run; `data_len` |
| Parsing writer and phrase reader | `include/write_parsing.hpp`, `phrase_reader.hpp` | cursor, `next_literal` | `write_parsing`, `parsing_length`, `next`, `end` |
| Decompressor | `include/decompress.hpp`, `copy_routines.hpp` | output cursor, `nextliteral` | `run`, `copy_fast` |
| Container format | `libs/format.cpp` | none | `pack`, `unpack` |
| Programming interface | `include/api.hpp`, `impl/` | none | `compress`, `compress_buffer`, `decompress`, `fix_parsing`, safe sizes |
| Target and time models | `libs/target_read.cpp`, `wm_serializer.cpp`, `model_read.cpp` | none | `read_field`, `wm_serialize`, `wm_unserialize`, `get_wm` |
| Calibration tools | `tools/get_latencies.cpp`, `tools/calibrator.cpp` | matrices of times | plateaus of the probes, `reduce_tm`, `literal_decode_time`, `get_cm` |
| Command line | `main.cpp`, `bit_compress.cpp`, `list_gens.cpp`, `decompress.cpp` | none | dispatch on the command; the retry of `bit_compress` |
| Emulated models, hardware counters, file access | `libs/`, `tools/` | none | read once, or measure |
| Dead code | `include/same_fsg.hpp` | - | included by nothing |
| Vendored | `ext_libs/`, `tests/ext_libs/` | - | divsufsort, cppformat, sha1, gtest |

### 1.2 How the components interact

Everything runs in one thread; components call each other and share no state but what is passed.

1. The command line builds one `bicriteria_compressor` for a file and calls `run` once for each
   bound it was given. The compressor's caches (solutions, compressed parsings, cached graph)
   outlive a bound; the roles of cost and weight may be exchanged from a bound to the next.
2. `run` asks `optimal` for parsings under combinations of the two models. A new one is computed
   by the solution getter, which runs the optimal parser on a generator: the first time a caching
   generator that records the graph, later a cached one that replays it.
3. The optimal parser pulls the edges of each position from the generation protocol, which asks
   its generator for the longest match of each class of distances.
4. A parsing found on the cached graph names a distance of the right class for each copy, not the
   right distance: before it is written, the integrator generates the text once more and gives each
   copy a real distance. Several parsings are integrated in one pass.
5. The dual basis ends as two parsings, one on each side of the bound. The path swapper reads both
   in step and looks for the cheapest switch from one to the other within the bound.
6. The result is written as a stream of codes, which the phrase reader and the decompressor read
   back. The bits are put in a buffer reserved by the price the cost model gave the parsing, behind
   a header with the name of the encoder and the size of the text.
7. Which generator serves depends on the distances of the encoder: a class of lists each generator
   takes. The plain compressor tries the one asked for and, on a mismatch, the one suggested.
8. Before any of this, once for a machine: `get_latencies` reads the probes of its memory,
   `calibrator` times the phrases of each encoder, and the time models they give are kept in a target
   file, read when a compressor is built and fused with the encoder's own model.

### 1.3 What is hard

* No concurrency and no failure recovery: nothing is persisted but the output, so crashes, lost
  messages and interleavings of processes do not exist here. The difficulty is elsewhere:
* **stale state across calls**: solutions and compressed parsings recorded for one bound serve the
  next one under exchanged roles; an evicted parsing is generated again by a getter that is warm by
  now; the vector of edges keeps those of earlier positions;
* **protocols between a writer and a reader**: streams without framing (the cached graph, the
  compressed parsing), where one count out of step garbles all that follows;
* **two cursors advancing at different paces** over one text: the two readers of the swapper, the
  parsings the integrator fixes together;
* **boundaries**: class bounds, the literal window, the end of the text, unsigned subtractions that
  rely on being overwritten, parsings that weigh exactly the bound;
* **structures shared by several users**: the trees of ranks take their nodes from one pool of exactly
  the right size; classes of distances served by one block keep the last one merged between them;
* **bits and buffers**: codes cut at any bit, readers and writers that move whole words past the last
  one, sizes computed from prices rather than from what is written;
* **pruning**: most of the graph is never looked at, and the result must be as if it were;
* **termination** of the loop over multipliers, and of `flip`.

Every such place is listed with its line under "hazards" in `PROJECT.json`.

### 1.4 What makes each component correct

| Component | Correct when |
|---|---|
| Bicriteria driver | every bound gets a parsing within it (padded), or a cheapest one when that is enough, whatever was served before; a bound is refused exactly when nothing fits |
| Dual basis | its lines straddle the bound; the value where they meet is a lower bound of every feasible cost, and descends |
| Optimal parser | the parsing is as cheap as the best in the whole graph, and lighter than its equals |
| Edge generation | edges are copies of the text with the right id; none dominated, none missing that an optimum needs |
| Graph cache | replayed edges have the lengths and ids of the generated ones; streams are read exactly as written |
| Integrator | each copy gets a distance of its class that copies the text; no phrase is missed; no throw |
| Path swapper | the swap is a parsing of the text, within the budget, no costlier than a base within it; no throw |
| Stream | what is read is what was written; decompression gives the text |
| Generators | the edges of each position are copies that no copy of the graph improves on; every block asked for is still in its ring; windows hold the positions in reach and nothing else |
| Codecs and container | what is decoded is what was encoded, at any bit; the length is what the cost model says; nothing is read or written past a buffer |
| Generator choice | every list of distances a model may have is served by the generator tried first or second |
| Cost models | a fused or mixed model prices each phrase as its parts do; one id, one model |
| Calibration | the levels of memory found are those of the machine; no class of phrases is charged more or less than was measured; a target gives back the model put in it |

## 2. Plan

Modules in the order they were written; those marked *next* do not exist yet.

| Module | Models | Composes |
|---|---|---|
| `DualLines`, `CompressedCache` | pure operators of the dual lines and of the bounded cache | |
| `Bicriteria`, `BicriteriaProofs` | the driver and its loop over the bounds, and its theorems | the two above; the swap by its contract |
| `BoundRequests` | abstract: what a list of bounds is promised | implemented by `Bicriteria` |
| `PathSwap`, `PathSwapProofs` | the swapper, and its theorems | |
| `EdgeMesh`, `EdgeMeshProofs` | classes, levels, the mesh of edges, and lemmas on it, on recursion, on the windows of classes and on the order of suffixes | |
| `OptimalParser`, `OptimalParserProofs` | shortest path, literal window, flip; the protocols on buckets and rightmost copies; theorems | `EdgeMesh` |
| `GraphCache` | writing and replaying the graph | `EdgeMesh` |
| `Integrator`, `IntegratorProofs` | giving copies real distances, on the graph a first parse has cached | `GraphCache` |
| `ParsingStream`, `ParsingStreamProofs` | writer, phrase reader, `fix_parsing`, decompressor; theorems | |
| `EdgeGenerator` | abstract: what the parser expects of a generator; which edges will do is its parameter, given `Offers` of `EdgeMesh` | implemented by `BlockGenerator` and `RankWindows` |
| `Suffixes` | ranks of suffixes, for both kinds of generators | |
| `OptimalSubseq` | the choice of classes whose blocks are kept | |
| `BlockSort`, `BlockGenerator` | the rings of sorted blocks of `online_rsa.hpp`, and `fast_fsg.hpp` over them, with its three getters | `EdgeMesh`, `OptimalSubseq`, `Suffixes` |
| `RankTree`, `RankBitmap` | the balanced tree and the bitmap of words of `AVLtree.h` | |
| `RankWindows`, `RankWindowsProofs` | `fsg.hpp` over windows of ranks, and its theorems | the two above, `EdgeMesh`, `Suffixes` |
| `CostModels` | class search, cost maps, `fuse`, mixtures, ids | |
| `UnalignedIO`, `Encoders` | bits in bytes; coders of distances, lengths and runs, with the registered tables | |
| `Container`, `GeneratorChoice` | the header; kinds of distances and who serves them | |
| `Codec` | a command from its choice of a generator to the bytes delivered and back | the four above |
| `Latencies`, `Calibrator`, `TargetFile` | the computations of the tools and the lines of a target | `CostModels` |
| `Calibration`, `CalibrationProofs` | from the probes of a machine to the models of a session, and its theorems | the three above |
| *Next:* `BestParsing` | abstract: a best parsing of a text | implemented by `OptimalParser` |
| *Next:* `SwapOfBases` | the two parsings of `Bicriteria` given to `PathSwap` | removes the contract of `Swap` |

Theorems planned, in order of worth: for `BlockGenerator`, that the lengths found are those of
`MaxMatch` (`EdgeMeshProofs` has the lemmas on ranks it needs, `RankWindowsProofs` those on carried lengths); for `Codec`,
`RoundTrip` (a coder at a time, without `Bitwise`, which rules proofs out).

## 3. What is modelled

**Bicriteria.** A file is the set of the (space, time) values of its parsings; the parser is an
oracle that returns any optimal one, except that single-model parses always return the same one. A
multiplier is an exact rational, and `Eps` is the gap the loop stops at. One action for each stage of `run`; the variables are the caches
and the locals that live across stages. `Fast` keeps the getter's rule that until the graph is
cached the second model is dropped. `Swap` is the contract `PathSwap` is checked against.

**PathSwap.** One action per half-step of a round of `swap_points` (evaluate a side, start a turn,
read one phrase) and per loop turn of `generate`. Costs are any functions of distance and length. The
totals a parsing is recorded with are no better than its own (`IsInput`): `NoWorseThanRecorded` of
`Bicriteria` checks that it hands the swapper no others.

**EdgeMesh.** `Level` is one turn of `generate_edges`, `Climb` its inner loop on `up`, `Right` the
step to the next class of distances. `MaxMatch` is what a generator promises: the longest match at
a distance of the class, any of those as long.

**OptimalParser.** `StartEdges`, `NextLevel` and `InsertLiteral` are `gen_next` of the protocol and
of the literal inserter, `RelaxCopy` one turn of the loop on edges, `RelaxRun` the literal edge,
`FlipEdge` one turn of `flip`. Costs are pairs (`bi_edge_cost`); a zero weight model gives the
single-model parser. A job says in which buckets the text is cut (`NextBucket`, `bucket_fsg.hpp`:
copies and what they copy are in one bucket) and whether the edges are those of the greedy
parsing at its rightmost sources (`GiveEdges`, `GiveRightmost`, `rm_protocol`).

**GraphCache.** `WriteLength` is `max_match` of the caching generator with the turn of
`generate_edges` around it; `ReadLength` that of the cached one. A code word is a value with the
form it was written in (unary, or escaped).

**Integrator.** A session: the actions of `GraphCache` parse the text twice, then the graph's
parsings are integrated. The phrases of a parsing are chosen when they are read, among those the
cached graph allows; the generator's position and the integrator's are one variable, as each
`gen_next` moves both.

**BlockGenerator, BlockSort, OptimalSubseq.** A block is the set of positions it holds, as splitting
keeps the order of suffixes, which is `isa`; merging and scanning become the nearest rank on either
side among the positions in reach. A level of a queue keeps its ring, and the pair `idx_pos` as
`filled` and `next`. `HeadMatch` and `Refill` are `max_match` when the buffer has the position and
when its block must be computed, with the turn of `generate_edges` around it. The build is one with
assertions: `Abort` is a request for a block no longer in its ring, or a distance out of its class.
The variable `getter` chooses `generic_rsa_getter`, which keeps blocks for every class;
`generalized_rsa`, which keeps them for the classes `get_seq` chooses and lets the others use the
merged block of the next kept one (`split_max_match`); or `same_rsa_getter`. Lengths are extended on the
text, as `maximal_length` does, from what is left of the last ones: nothing in the model knows that
they are right.

**RankWindows, RankTree, RankBitmap.** The windows of `fsg.hpp`, one for each class: a position that
leaves one enters the next. The near ones are trees whose nodes are cells of the shared pool, with
keys, sons and balances, and the insertions, deletions and rotations of `AVLtree.h` with their
stack of ancestors; the far ones are bitmaps, word by word and summary by summary. Matches are carried
from a position to the next one symbol shorter. `TreeShare` and `WordBits` are the code's threshold
between trees and bitmaps and its word, smaller.

**ParsingStream.** A stream is a sequence of whole codes read by index; a parsing maps the places where
its phrases start to them. `CountFrom`, `CountCopy` and `WriteRun` are the loop of `write_parsing` that
counts the copies after a run, and what it writes then. `GlueCopy` and `GlueRun` are a client of the
API that reads a parsing, keeps its counts aside and puts wrong ones on the runs (the API test does
this); `FixCopy` and `FixRun` are one turn of `proper_nexts::run` with `phrase_reader::next` in it; `Spread` and `MoveWord` the two loops of
`copy_fast`. Cells past the head that a store of a whole word touches are modelled.

**UnalignedIO, Encoders, Container, GeneratorChoice, Codec.** Memory is bytes; the writer ORs a
value into the bytes it straddles, the reader takes it in two parts as the code does, and both record
the last byte they touch. `Encoders` has the coders with the classes, prefixes and widths of the
registered tables, their cost models, and both writers of literal runs. A `request` of `Codec` is one command: through a
file, the two calls of the programming interface, or an emulation that writes nothing. The bytes
past the end of a file read in memory are any of `Junk`.

**CostModels, Latencies, Calibrator, TargetFile, Calibration.** The computations are operators; the
actions of `Calibration` are the stages, with what the machine answers chosen by the stage that asks.
Times are integers, `PerNano` of them to the nanosecond: `interpolate` compares whole ones. A number printed and read again is the number; the lines and their order, the
sections of a target and the cost of a symbol put in and taken off are modelled.

## 4. What is checked

| Run | Instance | Shows |
|---|---|---|
| `compress` | every file of up to three parsings on a 3 by 3 grid under every fixed bound 0 to 4; three files of six to eight parsings on long hulls under 0 to 24; two files with ties under two or three bounds of both types; a steep file; a flat one; two cache entries | the basis straddles each bound and `phi` bounds every feasible cost from below; the loop ends, within the gap of the optimum when `phi'` is positive; what a bound leaves in the caches never spoils a later one; the driver implements `BoundRequests` |
| `swap` | every straddling pair of parsings of two texts of five symbols; exact and stale totals, padded and not | readers in step, bridges exist, accounting, a swap is found, what is generated is a parsing of the delivered cost |
| `parse` | every two-letter text of seven symbols, distances 1, 2, 3-4, lengths up to 2, 3, 5; five pairs of models, windows 1 and 3; one bucket and two; rightmost copies | the pruned search is optimal among the parsings the generator allows; the window is the minimum of those in reach; no copy allowed beats all edges; it ends |
| `sessions` | every two-letter text of eight symbols and four of nine, distances 1, 2-3, 4-6, lengths up to 2 and 4; two parsings, runs up to 3 | replay gives the same graph and reads each stream to its end; integrated copies get real distances, nothing missed, no throw |
| `stream` | every parsing of five texts of five to eight symbols, word of four | the text comes back; counts tell runs from copies, to the end |
| `windows` | every two-letter text of twelve symbols; two classes with trees (1-4 and 5), two with bitmaps of four levels (6-8 and 9-10), the last ending before the text | windows, pool, trees and bitmaps stay right, and the edges are those of `EdgeGenerator` |
| `blocks` | every two-letter text of nine symbols and words of four repeated to twelve, distances 1, 2-3, 4-7, 8-15; every class kept, and an optimal choice | the edges are those of `EdgeGenerator`, however long a level is put off; a block is missing only after a split (below) |
| `codecs` | every registered encoder with its tables: first and last value of every class, at every bit of a byte, with short runs and the longest of the eight-bit ones; file and both calls of the interface; every list of up to four distances among 1 to 8 and unbounded, with every generator | what is read is what was written, at the price of the cost model, inside the buffers; some generator always serves |
| `calibrate` | the hybrid encoder on machines of two and three levels of memory; every answer of a probe at a boundary; close and distinct phrase times | levels of memory found, times added up as measured, at the ends of classes as the code does (below), targets read back, fused prices right |
| `early_return` | one file | a disagreement with the documentation, below |
| `blocks_missing`, `same_blocks` | every two-letter text of nine symbols | two defects of the block generators, below |

**Why the bounds are enough.** Files: long hulls need several multipliers, ties make solutions
differ that cost the same, and a cache of two entries evicts; the gap is 1/20 instead of the 1e-6 of the code, as
values here are tens, and the bases of the flat file differ by less than that. Swapper: a text of five symbols already
lets one side read several phrases in a turn. Texts of seven and eight symbols have copies in, at and
across every class bound of these classes, overlapping copies, levels that open and levels skipped; the
window of one symbol is always full, that of three expires and is beaten both ways; a bucket of four
cuts copies and is followed by a shorter one. In `sessions` a length may be written escaped, and the
text `baaaabaaa` skips a level while its match keeps shrinking, the case where writing a difference
would go wrong. Nine symbols with classes up to
seven split blocks on all levels twice, and lengths of at most three put levels off over several
blocks; the repeated words of twelve are where the optimal choice of classes drops one. Twelve symbols
fill both trees and empty them again through single and double rotations and through deletions of nodes with
two sons. Encoders are not scaled down. Machines have every boundary of a cache between
two probes or on one. Each property was seen to fail on a
plausible bug in the code it is about (the mutants in `PROJECT.json`), on these same instances.

**Assumption of `EndIsOptimal`.** Optimality is claimed for models where a longer or farther copy
never costs less, as in all the encoders and time models of the repository, and among the parsings
the protocol allows (the buckets, the rightmost copies); the run also has a model that is not
monotone, for which the other properties hold and this one claims nothing.

**Fairness.** `Bicriteria` and `OptimalParser` assume `WF_vars(Next)`: a program of one
thread keeps running. Nothing else is assumed; the other modules state no liveness.

**Deadlock** is checked in every run: each module ends in an explicit stuttering `Terminated`.

### Disagreements and defects found

* `early_return`: with ties, the parsing written by an early return is not the one whose weight was
  compared with the bound, and may exceed it.
* `blocks_missing`: in a build with assertions `assert(present)` fails. A level keeps
  `D(k)/Q(k)` blocks, rounded down, behind those just split, but its blocks of the text start at
  `D(k-1)` and may straddle a split; if long matches put the level off until after the split, the
  farther window is gone. `AbortsAfterASplit` says that this is the only
  way to abort. The shortest case found by the run fails on the program too, and so does a
  file of 8.4 million bytes with a run of 60700 equal ones and the distances of the hybrid encoder.
* `same_blocks`: `same_rsa_getter` merges a block with two windows that, from the third class on, do
  not reach it. A neighbour shifted by one may fall in the gap; the length carried from it is then
  taken as that of another, and the edge is not a copy. The edges of the run's text are those the
  program gives.

Noticed while modelling, and stated by no run:

* The loop over multipliers stops on `delta > eps` with `delta` divided by a lower envelope that may
  be negative (`bicriteria_compress.cpp:950`); it then ends on a basis that is not the optimal one.
  `PositiveEndIsNear` states what holds, and the steep file of `compress` takes the other end.
* `get_seq` starts its chains from a sentinel class that ends at 1 (`space_opt_subseq.cpp`), so none
  starts with a class of its own that ends there: for classes 1, 2, 4, 8 it chooses 2, 4, 8, which its own
  measure finds dearer. No property claims its choice optimal.
* A text longer than the last class of a model has its length appended as an end that the others need
  not divide; with classes 1, 3, 7, 15 and 18 symbols `generalized_rsa` stops on an assertion. The
  texts of `blocks` end within the last class, as files up to a gigabyte do for the registered
  encoders.
* `calibrator` adds the decode time of a phrase class from the entry the class before it ends in to the one
  it ends in, both included (`tools/calibrator.cpp:859-883`): an entry at a boundary is charged
  both times, four where distances and lengths both end a class. A copy of these is dearer than measured.
  `CopiesAddUp`, a part of `TimesAddUp`, states what every entry is charged, these included (`ChargedFor`).
* `PSStruct::SetRange` allocates pointers for `Log32(range)` levels and fills those of `Log32(range + 1)`
  (`AVLtree.h:418-436`): when the text's length plus one is a power of 32 it writes past the end of its arrays.
  Nothing uses that level, so the model has the levels allocated; what the write does is undefined, and
  such texts are excluded by an assumption of `RankWindows` (`BitmapAssumption`), in the run and in the theorems.
* `literal_decode_time` divides a text of a gigabyte by the longest run. Runs of 255 and of 65535 symbols (`soda09_8`,
  `soda09_16`, `nibble4_8`, `nibble4_16`) do not divide it, and what is left over falls to the estimates; `RunsAddUp` is
  the other part, about the runs that do.
* The usage text of the bounded compressor speaks of `k` for kilobytes
  (`bicriteria_compress.cpp:1129`); the reader of bounds takes `K` only (`:199`).
* The coders named `nibble4_16` and `nibble4_16U` are declared with the classes of `soda09`
  (`include/encoders.hpp:695` and `:713`), not those of their name; the model has them as declared.
* A target that ends before the overhead of copies leaves it uninitialised (`wm_serializer.cpp:107`);
  targets of the model are whole.

## 5. What is proved

Each theorem holds for every value of the constants that meets the assumptions beside their
declaration. TLC evaluates those on every run. It checked on the instances above, before they were proved, the
properties, and the inductive invariants that can be evaluated: `WindowsInv` cannot, as it says that
sets of nodes exist.

| Theorem | Property | Holds for |
|---|---|---|
| `BicriteriaProofs`: `DriverInductive`, `DualInductive` | the two inductive invariants | every file, list of bounds, capacity of the cache, gap, weight of a phrase |
| `AlwaysStraddles` | `BasisStraddles` | |
| `AlwaysEfficient` | `OnlyEfficient` | |
| `AlwaysNoWorse` | `NoWorseThanRecorded` | |
| `PromiseKept` | `KeepsPromise`: the driver implements `BoundRequests` | |
| `AlwaysLowerBound` | `LowerBoundSound` | |
| `AlwaysNearOptimal` | `PositiveEndIsNear`: the basis is within the gap of the optimum | |
| `OptimalParserProofs`: `ParserInductive` | the inductive invariant | every text, classes, models, window, bucket |
| `WindowAlwaysMinimum` | `WindowMinimum` | |
| `EdgesAlwaysDominate` | `EdgesDominate` | |
| `AlwaysOptimal` | `EndIsOptimal` | |
| `IntegratorProofs`: `SessionInductive` | the inductive invariant | every text, classes, coding, number of parsings |
| `AlwaysReadsWhatWasWritten` | each length decoded is the one written there | |
| `AlwaysSameGraph` | `SameGraph` | |
| `AlwaysFindsAnEdge` | `NeverThrows` | |
| `NoneIsMissed` | `NoPhraseMissed` | |
| `AlwaysCopiesTheText` | `FixedCopiesTheText` | |
| `CalibrationProofs`: `CalibrationInductive` | the inductive invariant | every machine, encoder, matrix of times, target, multiplier |
| `FusedPricesHold` | `FusedPrices` | |
| `TargetsReadBack` | `ReadsBackTheModel` | |
| `ReducedTimesAreClose` | `ReducedIsClose` | |
| `TimesAlwaysAddUp` | `TimesAddUp` | every copy, every longest run that divides the text |
| `PathSwapProofs`: `TypeCorrect` | `TypeOK` | every text length, costs, parsings, totals, bound |
| `ReadersStayOnPhrases` | `ReadersOnPhrases` | |
| `BridgesAreInside` | `BridgeInside` | |
| `HeadTailBalance` | `HeadTailAccounting` | |
| `SwapNoWorse` | `NoWorseThanABase` | |
| `AlwaysGeneratesAParsing` | `GeneratesAParsing` | |
| `AlwaysDeliversTheBest` | `DeliversTheBest` | |
| `RankWindowsProofs`: `WindowsInductive` | the inductive invariant | every text, classes, share of the trees, width of a word |
| `StructuresKept` | `StructuresRight` | |
| `WindowsComplete` | `WindowsHold` | |
| `PromiseKept` | `KeepsPromise`: `fsg_gen` implements `EdgeGenerator` | |
| `ParsingStreamProofs`: `KindsAlwaysAgree` | `KindsAgree` | every text, parsing, word, wrong count |
| `FixAlwaysRestores` | `FixRestoresTheParsing` | |
| `TextComesBack` | `DecodedPrefix` | |

**Recursion.** What a model computes along a text (the cost of a path, the places of phrases, the best
path of a graph) is a recursive function, that is, a CHOOSE. `EdgeMeshProofs` states induction for a set of
numbers instead of a predicate (`InductionOn`), and that functions defined by steps forward
(`RecursionOn`) or from all that comes before (`CourseOn`) exist, and `PathSwapProofs` the same of jumps
(`UnfoldingOn`); the modules that do not extend the first have a copy of the lemmas they need. The
unfolding of each recursive definition is then a lemma of its own.

**The driver.** `IInv` says what the compressor holds whatever was served before: each cached solution
is an optimum of the combination of models it is filed under, and no two answer to one combination
(`CachesPart`); the two ends of the trade-off are cached (`OptimaPart`); the basis is two cached
solutions on the two sides of the bound, and what is written of it is no worse than recorded
(`BasisPart`). An optimum of a positive combination, or of a pair of models, is efficient (`MadeIsEfficient`),
which is why a solution made for one bound is good for the next under exchanged roles, and why a
parsing generated again has the same values. The refinement maps `request` to the bounds left, the
answers to the parsings written, and every stage but those that answer to a stutter.

`IDual` adds what an iteration establishes: the solution for the multiplier is the least there, so
`phi_bp` is below every feasible cost and below where any two lines on the two sides meet; the basis
only descends, so it meets no higher than `phi_b`; and the loop ends on a positive `phi_bp` only when
the two are within the gap. `AlwaysNearOptimal` says so whatever the gap is. That the basis is *the* optimum would
need a gap finer than any two values of the file can differ by, which 1e-6 is not on real files, nor the
gap of `compress` on its flat one: there the loop does end on a basis that is near and not optimal.

**The parser.** `EdgeMeshProofs` shows that a turn of `generate_edges` keeps `MeshOK`: the edges of the
first `n` classes are copies with the right ids, of rising lengths, and each length of each copy in
these classes is covered by an edge no shorter, of the same class of lengths and no farther. `IInv` of
`OptimalParserProofs` ties the window to the costs (`WindowOK`: it holds, in order, the positions in
reach that no later one beats), the mesh to its bucket and the greedy parsing to the position it
awaits. `EndIsOptimal` needs a second invariant, `IOpt`: the edges found are the last ones of paths of
that cost from the start (`Tree`); no path promises less than the optimum (`Above`); and some path
that has come to the position or beyond, or goes on past it by a literal run, promises as much (`Cut`).
It moves past a position by the edges that dominate (where monotone models are needed) and by the
window's minimum: a run chosen there may not be the optimal path's, but costs no more.
`flip` then turns edges into the position they end at to edges out of the position they start at
(`FlipAt`).

**The cached graph and the integrator.** Whichever match a generator finds, its length is the same
(`LengthAt`), so the graph a text has is a function of it: `ReadMesh` is the mesh of `cached_fsg_gen` after
each level, at the nearest distance of each class, and `Depth` how many levels a position asks for. What
`generate_edges` makes of other matches differs in distances, not in lengths and costs (`Alike`).
`SameGraph` speaks of the state between two positions only; `IInv` adds that within one the mesh is that of
the levels asked for so far (`MeshPart`), that each stream holds the codes of the positions behind while it
is written, and those of the positions ahead while it is read (`StreamPart`; `CodesBefore` says which code is
whose), that the length kept for a level is the one of the last position that asked for it
(`Recalls`: both generators predict from it, so they take the same branch), and that the index moved one step
at a position is the one searched for (`CountPart`). Generating a position again gives every length once more,
which is `NeverThrows`; `FixPart` keeps the position at the lowest of the parsings and none behind, and
`VectorPart` that the edges of this position come first in the vector. `FixedCopiesTheText` then holds
because lengths of one mesh rise: the first edge of a copy's length in the vector is this position's.

**The swapper.** `BridgeInside` is not inductive: it speaks of the state between rounds, and within a
round the two sides move one after the other. `IInv` adds what relates them meanwhile: both heads
are where phrases start (`OnPhrases`) and only grow (`HeadsGrow`); a side's last phrase starts no
later than the other's head (`StartsBehind`); a side still waiting for its turn was not ahead of the
other when the round began (`PendingBehind`), and then no parsing was at its end (`RoundOpen`), so
each side has a phrase to read; and the queue and the writer are where `pc` says (`QueueFilled`,
`WriterIdle`, `WriterOnPhrase`). `SwapNoWorse` adds that before the first round the two parsings are
themselves candidates (`Fresh`), and once a side's first candidate has been evaluated the best found costs no
more than that parsing if it is within the budget (`Covered`). What is generated needs two more:
`SwapInv`, heads and tails are the sums of the phrases read and left, and the best swap recorded costs
at least what the path it stands for does (`BestPriced`); `GenInv`, what is written so far agrees with
that path.

**The windows of ranks.** The work is in what the two structures do, shown apart from the generator.
A set of nodes of the pool *is* a tree (`AVL`) when some function gives each node those under it,
in order and balanced (`Descends`); so a tree is a set, and the rest of the pool cannot matter. A
rotation restores the balance (`Settled`, `Mended`) whenever one side has changed by one, which the
loop of `GlobalRebalance` carries up a path: each turn leaves a tree of the same nodes, as high as before or one step off
(`Raised`). `Insert` and `Delete` are then a change at the end of a path, and `Unchain`, which moves keys
from node to node and releases another node than the one found, keeps the data of all the
others (`Removed`). `Search` ends beside the nearest keys (`Searched`). A bitmap *stands for* a set of numbers (`StandsFor`) when each word, at each level,
has the bits and the ends of the numbers under it; `Set` may stop at the first word that has numbers on both sides of
the new one, or the number itself for an end, and `Remove` at the first word it was no end of: those above would not change.

`Trees` is a loop over trees on one pool, and the point is the node it carries: after `m`
turns the first `m` trees hold the new windows, the others the old ones, and the node in hand is in none
of them and is for the position that has just left window `m` (`TurnsHold`, `Carried`). Nodes never run
out because a tree that has not yet dropped a position has windows below it that are empty, and until then each
position takes the node of its own number (`TreesHold`). `MatchesFor` says why a length carried may be
trusted: it is the length of the start of a match with *some* position of the window on that side
(`StartsBelow`, `StartsAbove`), so the nearest rank on the side, whichever it is by now, has it too, and
is only extended. One symbol later, a suffix that shares a start stays on its side, and its distance
in the class; when only a start of no symbol is left nothing is claimed. The nearest ranks on
the two sides then have the longest match of the window (`NearBy`, `Longest`), and the windows are the classes
(`WindowsComplete`), so the mesh gets what `EdgeGenerator` promises (`MeshFor`). All this is at the
position in hand, or, between `PostGen` and `PreGen`, at the one before (`Now`).

**The stream.** `KindsAgree` holds because a reader's counter is right for its place (`Counts`: so many
copies and a run follow, or one copy less and the end); `IInv` says so of the client's reader, of
`fix_parsing`'s and of the decompressor's, that every phrase behind the writer is encoded (`WriterOK`), which
counts the client holds (`ClientOK`) and has used (`FixerOK`), and, within a copy, that the distance of the words moved is
a period of the text to be made (`CopierOK`).

**Models and targets.** Each stage of `Calibration` hands the next one thing, and `IInv` says what:
windows that grow past the encoder's distances, times of its classes, a model of whole numbers that
reaches as far as the encoder's own. The work is in the operators. `FuseEnds` gives the members of two
vectors in order, without repeating any (`FuseEndsIs`), so an end of the fused model falls in the same class
of each of the two as all the distances it stands for (`SameClassOfEnd`), and `fuse` prices each as the two
do (`FuseIs`); `FusedPrices` takes it three times. The id of a copy is divided back into its classes (`QuotientIs`,
`MapFinds`), with the same bound on the width of an id that `EdgeMeshProofs` rests on; its lemmas on
vectors of classes are why `CalibrationProofs` extends that module, whose own classes play no part.
`ReducedIsClose` is not kept by a turn of `reduce_matrix`: closeness is not transitive, and a row can be
merged next to one that was. `Grouped` is: each row left is the first of the measured rows it stands for, all of them within a tenth
of it, and as groups are found from the top, the rows past the last one found stand for themselves
and none before is like the next (`SinglesPast`), so a merge never joins two groups. A second pass, over
columns, multiplies the two tenths: 121 to 100.
`CopiesAddUp` rests on one fact, used for distances, lengths and windows: the classes of phrases whose two ends a class
of the fused model lies between are its own and that of the number after its end, the same one off the boundaries
(`SpanIs`), and it is always in just one of the windows (`MissesIs`, `WindowIs`), so the sums of `get_cm` are those
stated (`DecodeIs`, `CopyPriced`). `RunsAddUp` needs the two
timings solved for: runs that divide the text all take the same (`WholeRunsTake`), and then the divisions leave no rest
(`LiteralsExact`). `RunsInv` keeps what was found exact until the model is built.
A target gives back the rows after a title up to the next one (`FieldIs`), and these the model
(`ReadsBack`).

The assumptions are on what machines and users provide. An encoder's last class of lengths is not below the
lines of cache `get_cm` adds (24), nor its longest run above the text it is timed on; measured
times are not zero; windows grow, past the encoder's distances; the other sections of a target start with titles, none the encoder's.
A text served by a bitmap does not have a power of 32, less one, as its length (section 4).

**Only model-checked.** Liveness (`Terminates` of `Bicriteria` and of `OptimalParser`), which rests on
fairness; the properties of `BlockGenerator`, its refinement of `EdgeGenerator` among them; those of `Codec`
(which reaches `Bitwise`, about which nothing can be proved here); two of `Calibration`. `CachesRecovered`
is true of machines whose caches stand apart and are probed on both sides, as in the run, not of all. `IdsTellModelsApart`
says that two models of one session with equal maps are equal, which holds for the literals of these
encoders: literals are no part of an id.

## 6. Not modelled

* Rounding: multipliers and costs are exact; the code uses doubles, and prints times with six digits.
* Integers of 2^31 and more; the 32-bit literal writer's `max_length`, which wraps to zero and is used
  by no registered coder.
* Sizes of the input and output files of the decompressor: copies past the end of the output are
  seen by `ParsingStream` only up to a word.
* The hash of `id()`: an id is the map of costs itself, so that two models with equal hashes by chance
  are not considered.
* The loops of the calibration tools that take the times, and their statistics: what they measure is any
  value of a set.
* `same_fsg.hpp`, which nothing includes; emulated models, read once from a file; hardware counters,
  file access, parsing of the command line, listings, progress messages.
* Vendored libraries; the suffix array appears as the ranks of suffixes.
