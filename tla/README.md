# Verification of open_flexzl

open_flexzl compresses slices of `u32`. The encoder cuts the input into chunks,
parses each chunk with a match finder of its own (FieldLZ) into five *side
streams*, compresses every stream separately, and writes a frame in which each
chunk carries a small *decoding map*: the list of transforms that turn the
stored bytes back into the chunk. The decoder is a generic executor of such
maps. The wire format is described in `src/plan.md`, the encoder's choices in
`src/docs/compressor.md`.

This directory holds TLA+ modules for the parts of that program in which state
matters, TLC configurations that check them on small instances, and TLAPS
proofs. Every definition that models code is listed in `PROJECT.json` ("map")
with the lines it models. Paths below are relative to `src/src/` unless they
say otherwise.

## 1. Inventory

All of the program is sequential. There are no threads, no callbacks and
nothing is persisted between calls; the hard behaviours are *protocols between
data structures*: five streams that must advance in step, cursors that chase
each other through a buffer that is still growing, a graph that is executed
while it is still being read, and numeric boundaries. The input of every decoder
is arbitrary bytes, the input of every encoder an arbitrary slice.

| Component | Source | State it keeps | Operations | What makes it correct |
|---|---|---|---|---|
| FieldLZ encoder | `field_lz.rs:40-87, 293-387, 430-461` | cursor, anchor, hash table, five output streams | one scan iteration (match or advance), final flush | the streams mean exactly the chunk; no table entry is ever at or past the cursor; the decoder's limits hold; never fails; terminates |
| FieldLZ decoder | `field_lz.rs:89-291` | five read cursors, three repeat offsets, growing output, running match | limit checks, token header and literal copy, one copied value, final checks | accepts exactly the well-formed streams, returns what they mean, never indexes outside a buffer; its output stays within the chunk, or below twice the chunk when it refuses |
| Chunk decoder (decoding map) | `frame.rs:251-632` | chunk header, stream slots, transform log | read header, stored stream, transform record; judge | an accepted map is an acyclic graph that ends in its final stream, has no dead stream, and yields a whole chunk |
| Frame encoder and decoder | `frame.rs:36-57, 111-164` | frame header, elements written so far | encode all chunks; decode a chunk and account for it | chunk lengths add up to the total; order kept; nothing left over |
| Chunker | `frame.rs:59-109` | start, current chunk limit | next range | the ranges cover the input in order, none empty, none over the limit |
| Side-stream planner | `frame.rs:634-864` | stored streams, transform list, next stream id | append a raw, literal, dictionary or transposed route; close with FieldLZ and maybe delta | every map it emits is one the chunk decoder accepts |
| Route selection | `frame.rs:166-196, 757-774, 866-1031` | value statistics, candidate sizes | analyse, choose delta or plain, choose literal-only | any choice decodes to the same chunk |
| Literal dictionary | `literal_dict.rs` | value to index map, code list | build, encode, decode | decode inverts encode; the 256 and 65536 value limits |
| Delta, transpose | `delta.rs`, `transpose.rs` | none | wrapping delta; split into byte lanes, and inverses | each pair is inverse |
| Varint and reader | `varint.rs` | read position | write, read, read exact | inverse; position never passes the end; overflow |
| Zstd wrapper | `zstd_codec.rs` | none | compress, decompress to a given size | external library |
| API, errors, constants | `lib.rs`, `error.rs`, `constants.rs` | none | re-exports, limits | the limits appear as CONSTANTS |

How they interact. `compress_u32` calls the chunker, then for each chunk the
route selection, which runs the FieldLZ encoder (on the values or their deltas),
gives the five streams to the planner, and writes the planner's stored streams
and transform records. `decompress_u32` reads the frame header and calls the
chunk decoder per chunk; that one fills slots from stored streams and calls
zstd, transpose, dictionary, FieldLZ and delta in the order of the records.
Everything is a call that returns; the only shared state is what the caller
passes by reference.

Hard behaviours, with the line where each bites and the property that watches
it, are the "hazards" of `PROJECT.json`. In short:

- the hash table is written from three places, two of them ahead of the cursor;
- a match may overlap itself, in the match count and in the decoder's copy loop;
- lengths escape into side streams at an exact boundary (`>=` and not `>`);
- code paths the encoder never exercises (repeat offsets 0 to 2, leftover
  entries, reserved bits) exist in the decoder for hand-made streams;
- the decoder enforces limits up front that the encoder never computes;
- the graph rules are local tests (`used`, `defined`, first input of the final
  producer) meant to have global consequences;
- the planner hands out stream ids through nested routes that each take one or
  two, and a wrong one shows only when the frame is decoded;
- an adaptive cut is a position in a window, a range one in the input, and the
  two differ only after a full first window;
- a code of one or two bytes is cut off without notice when the table outgrows it;
- the reader adds a length from the frame to its position, unchecked;
- two gates with different ratios over the same statistics are asked in turn.

## 2. Modules

| Module | What it is |
|---|---|
| `FieldLzFormat` | the five streams, the token, the limits; constants `Value`, `MaxChunk`, `CodeMax` |
| `FieldLzReference` | what streams mean, written without a decoder: `WellFormed`, `Meaning` |
| `FieldLzEncoder` | `encode_u32_to_side_streams` as a state machine |
| `FieldLzDecoder` | `decode_side_streams` as a state machine |
| `LosslessCodec` | the abstract promise: what comes back is what went in |
| `FieldLzRoundTrip` | encoder and decoder composed, implements `LosslessCodec` |
| `DecodingMap` | chunk decoder: slots, records, judgement |
| `FrameFormat` | what a frame is made of, shared by the next three; constants `Value`, `MaxChunk` |
| `Chunker` | `choose_chunk_ranges` and `choose_adaptive_chunk_end`, one range a step |
| `FrameDecoder` | `decompress_u32` on any frame, right or wrong |
| `FrameRoundTrip` | the chunker, the frame writer and the frame decoder composed, implements `LosslessCodec` |
| `SideStreamPlanner` | `build_field_lz_side_stream_graph` and the routes it appends |
| `PlannedChunk` | the planner composed with the steps of `DecodingMap` |
| `LiteralDict` | `literal_dict::build_candidate` and `decode` |
| `LiteralRoute` | the choice of the literal route, with `transpose.rs`, and the way back; implements `LosslessCodec` |
| `Varint` | `write_u64`, `read_u64`, `read_single_usize`, `read_exact` |
| `RouteSelection` | chunk statistics, the literal-only and delta gates, samples, `delta.rs`; implements `LosslessCodec` |
| `FieldLzReferenceProofs` | lemmas about the reference, and about naturals and induction, for the other proof modules |
| `FieldLzDecoderProofs` | theorems about `FieldLzDecoder` |
| `FieldLzRoundTripProofs` | theorems about `FieldLzEncoder` and `FieldLzRoundTrip` |
| `DecodingMapProofs` | theorems about `DecodingMap` |
| `FrameProofs` | theorems about `FrameDecoder`, `Chunker`, `FrameRoundTrip` and `Varint` |
| `PlannedChunkProofs` | theorems about `SideStreamPlanner` and `PlannedChunk` |
| `LiteralRouteProofs` | theorems about `LiteralDict` and `LiteralRoute` |
| `RouteSelectionProofs` | theorems about `RouteSelection` |
| `MC...` | instances for TLC: they only give constants values (those of the two decoders also name the states to start from) |

Four compositions hang together like the code does. `FrameRoundTrip` takes a
chunk record to stand for the chunk it decodes to. Why it does is shown a level
down: `RouteSelection` for what is done to a chunk as a whole, `FieldLzRoundTrip`
for the parse into five streams, `LiteralRoute` for the literal stream, and
`PlannedChunk` for the map that carries the streams. `LosslessCodec` is the
abstract specification of four of them.

`FieldLzFormat` is extended by `FieldLzReference`, and that by the encoder and
the decoder. `FieldLzRoundTrip` extends the encoder and instantiates the decoder
(`Dec == INSTANCE FieldLzDecoder`), whose variables it declares; it instantiates
`LosslessCodec` with the refinement mapping below.

### FieldLzEncoder

| Model | Code |
|---|---|
| `cursor`, `anchor`, `table`, `out` | `i`, `anchor`, `table.entries`, `out` |
| `hash` | `hash_two_values(_, _, mask)`: *any* function from pairs to buckets, fixed for the call |
| `EmitMatch` | one loop iteration that finds a match: store the cursor in the table, literals, token, offset, extra lengths, seeding, jump; also its error return |
| `Advance` | one iteration that does not |
| `Finish` | the literals after the loop |
| `Seeded`, `SeedPositions` | `seed_hash_table_after_match`, both patterns (dense and strided) |
| `AppendMatchSequence` | the token and the escapes |
| `IsMatchLen` | `count_match_len`, which counts one value at a time, stated as "this is the run's length" |
| `marks` | history only: how far the streams reached after each token. No guard reads it |

The table's "last put wins" is kept: seeds are inserted in increasing order, so
the greatest position of a bucket remains. Bytes are abstracted to entries, as
the little-endian split is a bijection; the one observable of bytes, a length
that is not a multiple of the width, is `aligned` in the decoder.

### FieldLzDecoder

One action per loop step. `CheckLimits` is everything before the loop;
`ReadToken` a token header with its literal copy; `CopyValue` one turn of the
copy loop, separate because a copied value can be the source of a later one;
`RejectToken` any of the error returns inside an iteration, with what the code
read and appended before it: the repeat offsets once the offset was read, the
cursors of the entries taken, and the literals, which are in the output before
the offset and the match are checked (`field_lz.rs:233-248`); `Finish` the
trailing literals, appended if they fit even when a leftover check then fails. `checked_add` cannot overflow on a 64-bit `usize` for entries
of 32 bits, so sums are unbounded integers.

### FieldLzRoundTrip and LosslessCodec

`Handoff` gives the decoder the streams the encoder returned and the chunk's
length, as the FieldLZ record and the chunk header do. The refinement mapping is
`source <- input` and `result <- IF decoding = "done" THEN output ELSE Pending`:
the one abstract step `Return` is the decoder's `Finish`, all others stutter.

### DecodingMap

| Model | Code |
|---|---|
| `slots` | `StreamSlot`: defined, used, element width, and whether the length is that of the chunk |
| `log` | `TransformLogEntry`: id, *first* input, output |
| `inputsOf` | history: all inputs, which the code does not keep |
| `ReadHeader`, `ReadStored`, `ExecuteTransform`, `Judge` | `decode_chunk_encoding`, with `read_and_execute_transform_record` inlined |
| `Fail` | every early error return; the checks are guards of the other actions |

Since the bytes are arbitrary, every reader call's result is chosen by `\E`, and
every codec may refuse. A transform's contents are reduced to what later checks
see: the width it records and whether it produced a whole chunk
(`MayReturn`: FieldLZ does or fails, delta keeps the length, the others give any).

### Chunker, FrameDecoder and FrameRoundTrip

| Model | Code |
|---|---|
| `start`, `refined`, `ranges` | `start`, `use_refined_chunks`, `ranges`; `cut` in a range is history |
| `CutHead`, `TakeWindow` | one iteration of `choose_chunk_ranges`, with and without `Some(end)` from `choose_adaptive_chunk_end` |
| `CutPositions` | the loop over the window: the only position where the value is the first beyond `DictCap` distinct ones, if both length tests pass |
| `WriteHeader`, `WriteChunk`, `CloseFrame` | `compress_u32` |
| `ReadHeader`, `DecodeChunk`, `RejectChunk`, `Finish` | `decompress_u32`: the prologue and the two counts, one record with the running total, the checks at the end |

`FrameRoundTrip` extends `Chunker` and `FrameDecoder`, which share no variable;
`FrameFormat` holds what both speak of. A frame is its prologue (right or not), its counts, its records and whether
anything follows them. A record is the chunk it decodes to, or refused.

### SideStreamPlanner and PlannedChunk

| Model | Code |
|---|---|
| `nextId`, `stored`, `transforms`, `inputs`, `lanes` | the locals of the same purpose; every route returns the counter it ends with |
| `PlanDictionary`, `PlanSplit` / `AppendLane` / `CloseLanes`, `PlanRawLiterals` | the three literal routes |
| `AppendRaw` | the other four streams, raw or through zstd (`RawRoute`) |
| `CloseGraph` | the FieldLZ record, `delta_int` when FieldLZ ran on deltas, the final id |
| `ReadHeader`, `ReadStored`, `ExecuteTransform`, `Judge` | `decode_chunk_encoding` on what was planned |

A payload is what it stands for (a side stream, a lane, a table, codes), its
length in bytes and whether it was compressed; `Restored` says what each codec
makes of its inputs, `Garbage` unless they are the ones it was meant to get.
The decoder's steps are those of `DecodingMap` (`Map == INSTANCE DecodingMap`),
given what the planner wrote instead of arbitrary bytes, so the same definitions
judge the plan that judge arbitrary maps. Which literal route wins depends on
compressed sizes; any route whose size threshold is met may be taken.

### LiteralDict and LiteralRoute

`LiteralDict` reads one literal a step: known, new, or a reason to give up (too
few literals, table full, too few repetitions when two-byte codes are tried).
`Code(index)` is `index as u8` or `as u16`: it keeps what fits, so a full table
that was not noticed would be a wrong code and no error. `LiteralRoute` calls it
for one-byte, then for two-byte codes; a candidate may be turned down because
the sizes do not pay. `ShouldTrySplit` is `should_try_literal_split4` with its
four clauses. A value is the tuple of its bytes.

### Varint

The reader on any bytes, one byte a step, with the word's width kept (`Word`,
`% Word` in `Extended`; a shift by k payloads multiplies with `Weight[k]`), and what is done with the number: `EndSingle` for a
private header, `ReadPayload` for a length. `read_exact` adds without a check:
`panic` is what a build with overflow checks does, the wrapped sum what any
other does. Both are outcomes of the model.

### RouteSelection

`Scan` applies `LiteralOnly` and then `DeltaGate` to the counts
`ChunkValueAnalysis` makes; `Sample` compresses one range of
`delta_sample_ranges`; `Compare` may come out either way, as compressed sizes are
not modelled. The `Restore...` steps are what the decoder undoes: deltas summed
modulo the word, literal-only streams read through `FieldLzReference`, plain
chunks as `FieldLzRoundTrip` shows.

## 3. Runs

| Run | Instance | Distinct states | Shows |
|---|---|---|---|
| `field_lz_encoder` | all chunks of 1 to 8 values over 2 values, all 16 hashes of pairs into 2 buckets, `CodeMax` 2, seed stride 2, dense span 4 | 54,656 | streams at every step mean exactly the covered input; table, limits, no failure, termination |
| `field_lz_decoder` | streams of up to 2 tokens of every kind with all entries, single entries too many or too few, and chains of up to 4 offset codes; `MaxChunk` 8, `CodeMax` 1 | 1,049,785 | accepts exactly well-formed streams, returns their meaning, no index out of range, output bounded on refusals too |
| `field_lz_round_trip` | as `field_lz_encoder` | 110,400 | decoder never refuses, output always a prefix of the chunk, implements `LosslessCodec` |
| `decoding_map` | 4 slots, 3 transforms, FieldLZ with 2 inputs, split with 2 lanes | 5.2 million | global shape of accepted graphs |
| `decoding_map_plan_rule` | same | violation | finding, section 5 |
| `frame_round_trip` | all inputs of 0 to 10 values over 3 values, up to renaming; `MaxChunk` 5, refined 2, dictionary of 2, head 3, tail 2 | 193,222 | ranges tile the input, cuts are where they pay, the frame gives the input back |
| `frame_decoder` | up to 3 records of 0 to 2 values, announced elements 0 to 5, announced chunks 0 to 4, right and wrong prologue and end | 130,128 | accepts exactly the frames without fault, never outgrows the announced count |
| `side_stream_plan` | the five real inputs with their widths, four lanes, chunks of 1 to 5 values, compression from 3 bytes, rich routes from 2 literals | 6,919 | ids are dense, every plan is accepted and rebuilds the chunk |
| `literal_route` | all literal streams of 0 to 6 of 5 four-byte values, 2 and 4 codes | 271,966 | codes name the literals at every step, every route is lossless |
| `varint` | all sequences of up to 4 bytes with 2 payload bits; words of 5 bits in up to 3 bytes | 32,487 | accepts exactly what the writer writes, never moves back or past the end |
| `varint_plan_rule` | same | violation | finding, section 5 |
| `route_selection` | all chunks of 1 to 7 values modulo 4, one sample | 74,124 | the gates meet the shapes they are for, every route is undone |

Why the bounds are enough for the cases that matter:

- Encoder and round trip. Two values already give every pattern of equality and
  two buckets every collision, including pairs that collide without being equal
  and candidates that were overwritten. Eight values allow two or three matches,
  a match that overlaps itself (offset 1, length 7), literal runs and matches
  below, at and above the escape (`CodeMax` 2: literals 2, matches 3), both
  seeding patterns (`DenseSpan` 4) with a strided seed, a tail, and the full
  chunk (`N = MaxChunk`). The constants are 15, 8, 16 and 131072 or more in the
  code; the proofs cover all values.
- Decoder. It never compares values, so literals are numbered by position: a
  mixed-up value is a different output. Each error return is reached by some
  start state, and the streams accepted include matches that overlap and all
  permutations of the repeat offsets.
- Decoding map. Four slots and three transforms let stored, transformed, FieldLZ
  and delta streams coexist, with room for a dead stream, a skipped slot, a
  second FieldLZ and a doubly read stream. FieldLZ takes two inputs of widths 4
  and 2 instead of five, the split two lanes instead of four: the checks treat
  all inputs alike. The proofs hold for the real numbers.
- Frame round trip. The chunker only asks whether values are equal, so inputs are
  numbered by first occurrence. Ten values leave room for a full window of five
  and a cut in the second one, with a refined range behind it; three values are
  one more than the dictionary holds. Heads and tails fall below, at and above
  their minimum. The empty input is one of the start states.
- Frame decoder. Every count can be too small, right and too large, by the
  records and by each other, and any record can be the refused one.
- Side-stream plan. Sides of 0, 2, 4, 8 bytes and more lie on both sides of three
  bytes for every width, so every stream is stored both ways, in every
  combination a chunk of five values allows. The limits are 19 slots and 11
  transforms, which the largest plan meets exactly; the code allows 110,000 and
  20,000, so no plan comes near them.
- Literal route. Six literals fill a one-byte table of 2 and a two-byte table
  of 4, with and without a fifth value to overflow it; the five values differ in
  single lanes such that each clause of the split test is the deciding one for
  some stream.
- Varint. Three bytes of two bits hold one bit more than the word of five, as ten
  bytes of seven hold six more than 64: of the last byte one bit may be used. Four
  bytes add one behind the longest number, and lengths run to the word's end.
- Route selection. Seven values put every ratio (1/2, 9/10, 1/4) on either side
  where it rounds; modulo 4 every step size wraps.

Fairness. `WF(Next)` and no more, in the specifications whose termination is
checked: a function that was called keeps running until it returns. The decoder
on arbitrary streams has no liveness run: its loops are `for` loops over finite
slices; in `field_lz_round_trip` it terminates as part of the composition. No action
needs fairness of its own because the code is deterministic between choices of
input and of what sizes come out. `EncoderReturned`, `DecoderReturned`,
`BothReturned` and `Returned` are stuttering steps of a finished call, so TLC's
deadlock check stays on: a phase without a successor would be reported.

Every property has a mutant in `PROJECT.json`: a definition marked "Faulty
variant", kept right before the one it alters, under which TLC finds the property
violated. No specification uses them.

## 4. Proofs

Proved by TLAPS for every value of the constants the named assumptions allow:

| Assumption | Says |
|---|---|
| `FormatAssumption`, `EncoderAssumption`, `ChunkLimitAssumption` | sizes are naturals, codes, strides and chunks positive |
| `PendingAssumption` (two), the last part of `RouteAssumption` (two) | the mark for "no result yet" is not a result |
| `MapAssumption`, `ComposedAssumption` | widths 1, 2 and 4 exist, FieldLZ has at least one input |
| `PlannerAssumption` | FieldLZ has its five inputs of widths 4, 2, 4, 4 and 4, a split has four lanes, size thresholds are positive |
| `LimitsAssumption` | the decoder allows 19 streams and 11 records, the most a plan has; the code allows 110,000 and 20,000 (`constants.rs:27-28`) |
| `ChunkerAssumption` | a refined range is no longer than a full one, a head is longer than the dictionary |
| `DictAssumption`, `RouteAssumption` of `LiteralRoute` | thresholds are naturals, both codes exist, a value is a tuple of at least two bytes |
| `RouteAssumption` of `RouteSelection` | values are the residues of `Modulus`; a literal-only chunk has at least four values |
| `VarintAssumption` | the word is what `MaxBytes` bytes hold when the last payload is at most `LastMax`; no input is longer than a word counts |

Every invariant a passing run checks, and the two action properties
`SlotsAreWriteOnce` and `ReaderAdvances`, is also stated by a theorem.

**Facts about recursive functions.** `Meaning`, `WellFormed`, `RecentOffsets`,
`DecodeDeltas`, `Written` and the join of a frame's records are recursive, and
the library's induction rules take an operator, which no prover here can
instantiate. What these functions yield is proved by *first-order* induction
instead: collect the numbers up to a bound for which the formula holds in a set,
show that it contains zero and, with each number, the next one
(`InductionUpTo`, from the least number outside). `RecursionOnNat` in
`FrameProofs` gives a function that calls itself at a smaller argument its
equation; `PartialSumsExist` does the same for the sums of the reference. Most
lemmas of `FieldLzReferenceProofs` say what one more token changes.

**Encoder** (`FieldLzRoundTripProofs`, first half). `Spec => []` of `TypeOK`,
`TableBehindCursor`, `TokensDescribeInput`, `MarksFollowStreams`,
`WithinDecoderLimits`, `NeverFails` and `StreamsMeanInput`, for every set of
values, every chunk length and *every hash function*. The inductive invariant
`IInv` conjoins the type invariant, the table invariant, the two properties about
marks, the size bound and "no failure". None of the parts is inductive alone: the
offset of a token is right because the candidate comes from a table entry behind
the cursor; the table stays behind because the cursor jumps exactly to the match
end; the token's literals are right because the last mark is at the anchor;
earlier tokens stay right because streams only grow at the end (`GrowsAtEnd`).
`StreamsMeanInput` needs nothing more: by induction over the tokens, the sums of
the reference are the marks, so a token's entries lie where its description has
them, and what the description says of the input is what `Meaning` asks of the
output. `MeaningIsUnique` says that this determines it.

**Decoder** (`FieldLzDecoderProofs`). From the initial state that allows *any*
streams, which the run can only sample: `Spec => []` of `TypeOK`,
`OutputIsBounded` and `CopySourceExists`, and full correctness against the
reference: `RepeatsAreRecent`, `AcceptsWellFormed` (every refusal, the limits up
front included, is justified, and every acceptance) and `OutputIsMeaning`.
`CopySourceExists` says that no index of `decode_side_streams` is out of range.
`OutputIsBounded` says that the output stays within the chunk while the call runs
and when it succeeds. It does not on every refusal: four literals in a chunk of
four, taken as one with a match of three and then three more, leave seven values
before the second token is refused. What holds then is less than twice the chunk.
`DInv`, for the bounds, adds that nothing is left to copy between two matches
(`NothingLeftBetweenMatches`), without which the bound on the output says nothing
about the literals of the next token, and that the literals fit in the chunk and
one of them was taken before the output held anything (`LiteralsBounded`), without
which a refused token might bring a whole chunk of literals to a full output.
`MeaningInv`, for the rest, adds where the
reference stands after the tokens read (`ReadSoFar`): the cursors are its sums,
the repeats its recent offsets, the output its meaning so far. That an early
refusal is right takes `WellFormedBounds` and `PositionsGrow`: what is too much
after some tokens cannot become right after more.

**Round trip** (`FieldLzRoundTripProofs`, second half). `RoundTripSpec => []` of
`DecoderNeverRejects` and `OutputIsPrefix`, and `RoundTripSpec => Codec!Spec`:
the two functions together are a lossless codec, for every chunk and hash
function. The invariant `RInv` adds to `IInv` where the decoder stands: after k
tokens every cursor is at mark k + 1 and the output ends where that mark does
(`AtMark`); in the middle of a match, the output has passed the match's start
and lacks exactly `left` values to the next mark (`MatchUnderWay`). A copied
value is right (`CopiedValueIsNext`) since the token says `input[p] =
input[p - offset]` of the *chunk* and the output equals the chunk as far as the
offset reaches back, the values just copied included: the overlap needs no case
of its own. For the refinement, `Finish` is the only step that maps to `Return`.

**Decoding map** (`DecodingMapProofs`). `TypeOK`, `SlotsAreWriteOnce` and all
five graph properties. The inductive invariant `GraphInv`, beside `TypeOK`,
relates slots and log: a slot marked used was read by some logged transform;
every transform filled a slot of its own; records read only outputs of earlier
ones; the logged first input is all a delta has; FieldLZ outputs are whole
chunks and delta keeps the length; "accepted" was earned by every check.
`TypeOK` alone allows a used slot that no transform reads, and with it dead
streams and a consumed final stream. `EverySlotReachesFinal`
quantifies over all sets closed under "inputs of the producer"; its proof takes
the latest transform whose output is outside such a set (`GreatestNatural`) and
finds a later consumer of it.

**Frame** (`FrameProofs`). The decoder on *any* frame: `DecoderSpec => []` of
`DecoderTypeOK` and `AcceptsExactFrames`. `DecoderInv` says that the output is
the records read so far, joined. The join never shrinks as records are added, so
a total that passes the announced count in the loop would have failed the
comparison at the end, and the early check refuses nothing else.

Chunker and round trip: `Spec => []` of `RangesTileInput` and `CutHeadFitsCode`,
and `Spec => Codec!Spec`: for every input and every choice of the limits, the
decoder refuses no frame the encoder writes and returns the input. `ChunkerInv`
adds to the two properties that no range ends past `start` and that windows are
full until the input ends or a cut is taken; without that, nothing says that the
ranges before a cut are full. That the first value beyond the table makes the
head richer by exactly one (`NewValueCounts`) rests on the library's facts about
finite sets. `RoundTripInv` adds what the writer has written (`FrameInv`: record
i is the stretch of range i) and where the reader stands (`ReaderInv`: the output
is the input up to the end of the last range read). The total can then never
exceed the announced count, since the stretch read so far and the next one are
together a prefix of the input (`PrefixGrows`).

**Varint** (`FrameProofs`). `ReaderSpec => []AcceptsOnlyWritten` and `ReaderSpec
=> ReaderAdvances`, for every base, every width of the word and every input. While
the number is read, `NumberInv` says both which numbers begin with the bytes
taken so far and which could still be the one meant; a refusal is the
case where none could. `VarintMovesForward` shows where a wrapped sum
`pos + value` ends up: before the position, so the slice is refused.

**Planner** (`PlannedChunkProofs`). `Spec => []` of `PlanTypeOK`,
`StreamIdsAreDense`, `RecordsInDecodeOrder` and `PlanIsDecoded`, for every chunk,
every number of entries and every combination of routes; `PlannerUndisturbed`
takes the first three from the planner alone to the composition. The invariant
`PlanInv` adds that records read only what was filled before (`Dense`) and that a
literal route finds no inputs yet. A route of the code takes up to four ids at
once; its lemma is put together from two about a single id, storing a stream
(`StoreNext`) and adding a record (`RecordNext`).

That no plan is refused needs to know what the decoder will hold when it comes to
a record, while the record is still being planned. `PlanExplained` states it as an
*explanation*: a function from the ids handed out so far to a payload and a width,
such that each stored stream is what it says (`Sound`), every record passes the
codec's checks on the explained inputs and yields its explained output
(`Passes`), and no id is left unread but those the planner still holds
(`AllReadBut`). Explanations are extended id by id and never revised, and the
decoder's slots are always the explanation restricted to what was read. At the
end the last id means the chunk, and the judgement's tests follow.
`Spec => Map!Spec`: the composition implements `DecodingMap`, so the theorems
about accepted maps hold for the ones the encoder writes. `ReadInv` is what that
needs: while the decoder reads, the planner has returned and the header announces
the records there are.

**Literal routes** (`LiteralRouteProofs`). `Spec => []CodesNameLiterals` and
`Spec => Codec!Spec`: for every pair of code widths, every threshold and every
stream of literals, no code is ever cut off, and each route gives the literals
back. The invariant adds to `CodesNameLiterals` that a candidate has a code for
each literal; that no code is cut off (`CodeFits`) follows from the table being
no larger than the code span, which is part of the property.

**Route selection** (`RouteSelectionProofs`). `Spec => []RoutesFitShapes` and
`Spec => Codec!Spec`. The invariant says that a chunk is where the gates sent it
(`FollowsGates`); the rest is about the gates: a constant chunk and one that
steps steadily have all or none of their pairs equal (`PairsCounted`, by
cardinalities), and the ratios then leave one gate each (`ConstantIsPlain`,
`ProgressionIsDelta`, `GatesExclude`). Deltas are summed back by induction over
the positions (`DeltasRestore`), each step a wrap or none (`WrappingSteps`). The
literal-only streams, which no encoder made, are well formed for every chunk
(`LiteralsAccepted`) and mean their literals, by `MeaningIsUnique`.

Only model-checked: liveness, that is `Terminates` of the encoder,
`EventuallyAccepted` of the planner, and the fair part of the four refinements of
`LosslessCodec` (`ImplementsLosslessCodec`, `RouteIsLossless`, `ChunkIsRestored`),
of which the theorems prove `Codec!Spec`, everything but the fairness. ENABLED is
out of the prover's reach.

## 5. Findings

`decoding_map_plan_rule`. `src/plan.md:437` says that the final stream must be
the sole output of exactly one FieldLZ transform. The decoder (`frame.rs:326-338`)
also accepts a `delta_int` whose input is that output, and the encoder writes
such maps for delta-coded chunks. The plan's own progress notes (`plan.md:35`)
record that change; its rule was not updated. The code is consistent with itself.

`varint_plan_rule`. `src/plan.md:388` says that all byte-size arithmetic must be
checked for overflow. `read_exact` (`varint.rs:61`) computes `self.pos + len`
unchecked, with a length from the frame. A build with overflow checks panics; one
without wraps, and `ReaderAdvances` shows that the slice then refuses the
payload, so the reader never leaves its input.

Three further places where text and code disagree, met while modelling and
harmless: `plan.md:426` has every chunk but the last full, which the adaptive
cuts no longer make so (the decoder does not ask for it);
`docs/compressor.md:191` has a raw FieldLZ candidate built for every chunk and
the smaller result kept, while the code builds exactly one encoding;
`literal_dict.rs:27` speaks of one-byte codes only, while two-byte codes are
tried as well.

## 6. Not modelled, and the plan

The order in which the project was built: FieldLZ format, encoder, decoder and
round trip; decoding map; their proofs; chunker and frame; planner, composed
with the decoding map; literal routes; varint; route selection; the safety proofs
of frame, literal routes and planner; the proofs against the recursive references
(streams, decoder, frames, deltas, varint) and of the planner's explanation.

What the plan has left is one theorem across levels. That a record of a frame may
stand for its chunk follows from the theorems about `RouteSelection`,
`FieldLzRoundTrip`, `LiteralRoute` and `PlannedChunk` taken together; each gap
between them is a choice one module leaves open and the next one closes, and no
module composes all of them. Liveness stays with TLC.

Left out for good: the zstd library and the parser of its frame header (external;
any bytes or failure), compressed sizes and size estimates (heuristics that no
correctness property depends on; where they decide, the model lets either side
win), error wording, the re-exports of the API, benchmarks and the test data.
