# go-rdx in TLA+

go-rdx is a Go library for RDX, a replicated data format: documents are streams
of TLV records, every element may carry an ID with a revision, and documents are
merged so that replicas converge. This directory models the library, model-checks
the models with TLC on small instances, and proves part of what they promise with
TLAPS for every instance.

The library is sequential: it starts no goroutine, takes no lock and persists
nothing. What is hard in it is elsewhere: loops that rearrange one slice under each
other's feet, comparators that must be consistent with each other, updates that
reach replicas in any order and number, buffers whose contents move while records
are open or that several builders share, formats at the limits of their widths, and a
text notation whose tuples have no brackets.

## Inventory

| part (source) | state | operations | what makes it correct | modules |
|---|---|---|---|---|
| iterator heap (`itheap.go`) | the `Heap` slice, each iterator's place in its input | `Heapize`, `Up`, `Down`, `EqUp`, `Remove`, `NextK`, `MergeNext`, `IntersectNext`, `HeapMerge` | every record goes into exactly one round, rounds are of equal records and in order, calls return (but for one crash) | `MergeHeap`, `MultiwayMerge`, `MergeHeapProofs` |
| elements of one spot (`rdx.go`) | the front of that same slice | `MergeSameSpotElements`, `mergeValuesF/I/R/S/T` | the slice is only permuted; the last write wins, under its greatest ID | `SameSpot`, `RdxOrder`, `SameSpotProofs` |
| comparators (`rdx.go`, `id.go`, `ron.go`) | none | `CompareLWW`, `CompareEuler`, `CompareLinear`, `CompareMultix`, `ID.Compare`, `Ron60.Less` | each is a total preorder | `RdxOrder`, `OrderLaws`, `OrderLawsProofs` |
| documents (`rdx.go`) | a replica's document | `Merge`, `Normalize`, `ID.Removed`, `Recovered`, `Replaced` | the document depends only on which updates were merged | `RdxMerge`, `Replication` |
| readers (`rdx.go`) | none | `Pick`, `Delve`, `Flatten`, `ObjectReader` | an element is found at its path, and only there; flattening keeps what is live where it was, with its value | `Paths` |
| TLV (`tlv.go`, `Iter.Read`) | the buffer and the stack of open records | `OpenTLV`, `CloseTLV`, `CancelTLV`, `WriteTLKV`, `ReadTLKV`, `Iter.Read` | the buffer is what writing the records at once would give; readers take it apart again | `Tlv`, `TlvBytes`, `TlvProofs` |
| `Builder` (`builder.go`) | a stack of slices, whose arrays clones share | `FIRST` and its kin, `Into`, `Outo`, `Clone`, `Copy`, `Stream` | a builder holds what it was given and closes without a panic; a call on one changes no other | `Builder`, `TlvBytes`, `BuilderProofs` |
| words (`zipint.go`, `id.go`, `ron.go`) | none | zipping of pairs, integers and floats; RON64 and RON60 texts; revisions | round trip at every width; revisions bump the same element | `Words`, `OrderLawsProofs` |
| JDR parser and renderers (`jdr.go`) | the stack of records being built | the `JDRon...` callbacks, `WriteAllJDR`, `RenderJDR` | brackets nest, nothing is lost, written documents come back | `Jdr`, `JdrText` |
| Merkle line (`merkle7574.go`) | the line of roots | `Append` | every leaf under one root, in order | `Merkle7574`, `MerkleProofs` |
| JDR lexer (`JDR.rl.go`) | generated by Ragel | calls the callbacks, stops at the first error | an ID is never lexed as a number | `Jdr` (`Next`), `Words` (`LexedAsRef`); the rest of the language of tokens is not modelled |
| `Heap2` (`itheap.go`, `heap.go`) | a slice of iterators, the merged records | `MakeHeap2`, `AddIter`, `Read`, `HeapUp`, `HeapDownN` | as the iterator heap, for any number of inputs | `Heap2`, `Heap2Proofs` |
| test runner (`test.go`, `*_test.go`) | | | | not modelled: test harness |

How they interact. `Merge` runs `HeapMerge` over the inputs with the comparator of
the enclosing container. A round of `HeapMerge` (`MergeNext`) brings the iterators
at equal records to the front of the heap's slice (`EqUp`) and hands that part of the
slice to `MergeSameSpotElements`, which permutes it in place, writes one record through
the TLV functions, and for containers calls `HeapMerge` on their contents. `Normalize`
cuts the contents of sets and multiplexed containers where they are out of order and
heap-merges the chunks. `ParseNormalizeJDR` drives the parser's callbacks, which write
through the same TLV functions, and normalizes what comes out. `Pick`, `Delve` and
`ObjectReader` search documents by the order that `Merge` and `Normalize` leave them in,
without looking at the rest. `Builder` writes the same records as the TLV functions, by
code of its own. `Heap2` is a second heap that no other part of the library uses yet.

The hazards, each at its line with the properties that watch it, are in
`PROJECT.json`.

## Modules

**MergeHeap** has one action per iteration of each loop of `itheap.go`: `data` are the
inputs, `ih` with `len` is the `Heap` slice and its backing array, `pos` each iterator's
record, `q`/`eqs` are `EqUp`'s, `i` and `c` the loop indices. A record is its rank under
the comparator in use, which OrderLaws justifies; `Bad` is bytes that `Iter.Read`
refuses; comparing an iterator that has failed may answer anything or panic
(`UpPanic`), as the code then slices by stale lengths. A panic is the end of the program and of the
model, not a return: `Terminates` allows it in one place only, where the code has it, the repair loop
of a round of several records in which a `Read` failed (`CrashedInRepair`). `AnyOrder` lets
`MergeSameSpotElements` permute the front in any way, and `Broken` lets it fail.

**MultiwayMerge** is what `HeapMerge` promises: a round takes the least record and all
that equal it from the inputs that are at it. `ImplementsMerge` maps the heap to it by
what each input has left.

**Heap2** is the other heap of `itheap.go`, one action per iteration of its loops and of
`HeapUp` and `HeapDownN`; `eqs` is the list of equal slots, and `MergedOrders` has the
permutations that reach the heap because the MergeFn was given the heap's own slice. `AddIter`
appends every iterator it is handed, one of nothing included; such an iterator has the rank
`Blank` that the LessFn gives a zero type, a zero ID and no value, takes part in rounds, adds nothing to
them (a round of such only adds no record, and `Read` still returns true), and is dropped when its rank has come up. It
is shown to implement the same MultiwayMerge.

**SameSpot** is the loop of `MergeSameSpotElements`: `Overtake`, `Drop` and `Join` are
its three branches, `Write` and `Refuse` what follows. **RdxOrder** holds the elements,
IDs and comparators as operators; **OrderLaws** states the laws of an order over any
three elements.

**RdxMerge** computes `Merge` and `Normalize` on whole documents with the same heap
steps as MergeHeap, because the order of equal elements in the heap decides ties.
**Replication** puts replicas around it: they write documents, delete, undelete and
replace elements of what they hold, and merge batches of updates, in any order and
again and again, or each other's documents. Replicas and network are the callers'.
**Paths** has the functions that read a document, applied to whatever the replicas hold. `Flattened`
says what `Flatten` keeps and where, and leaves out the values directly in multiplexed containers, which
`ValuesKept` demands and the code loses.

**TlvBytes** writes records to bytes, lengths as little-endian numbers (`ByteWeight` is the weight of
a byte in them). **Tlv** has the buffer byte by byte, with bytes of eight values instead of 256 so that
both kinds of header, and the moves between them, happen in small buffers. `level` is
history: what each open record was given. Keys, values and payload may be any sequences of bytes. The readers
panic where the code does: `ReadTLKV` with a key of 255 bytes (`1 + value[0]` is a byte), `ID` and `Value` after `Read` with one of
250 or more in a long record, 253 in a short one (`hdrlen + idlen` is a byte), and `Value` where the key's length is all of the record.

**Builder** has builders as Go has them: a level is an array, a length and a capacity, and
`append` writes in place while the capacity lasts, so that clones really share memory.
Growing an array may leave `Slack` bytes of spare capacity or none. Calls with value
receivers return a pointer to their own copy of the slice header; what is then opened or
closed through it is `StrayInto` and `StrayOuto`, and `strayed`, which no guard looks at, remembers
whose levels no longer match their contents. Such a builder can still be filled, closed, strayed from and
cloned: `Outo` takes the last byte it finds for the length of a stamp and what is before it for a
letter (`IDLen`, `Wrapped`, `Lower`). `HasMark` has the calls of `Outo` that do not panic; the others end the program.

**Words** has the byte strings and texts of 64-bit words as operators, with words of eight
one-bit bytes, RON64 digits of two bits, and four such digits where the code has eleven. Two
of the digits are decimal and one is the exponent sign, as `e` is. Powers are recursive functions
(`TwoTo`, `ByteWeight`, `RonWeight`), which can be proved about; `WordSize` assumes that a word takes
one RON digit more than a list position has, as 64 bits do with positions of 60.

**Jdr** has one action per lexer callback. Marks keep the finished elements of their
record where the code keeps offsets into one buffer; Tlv shows that the buffer holds
them. **JdrText** adds the renderers and the round trip.

**Merkle7574** has a call of `Append` as an action; a hash is the tree it commits to.

The `MC...` modules give the constants their values. Definitions introduced by
"mistake:" are plausible errors in the definition after them; they are used only to
see that the properties would notice.

## Runs

| run | shows |
|---|---|
| `heap_small` | up to four inputs, any of seven streams each (empty, equal, overlapping, unsorted, cut off, unreadable), and seven readable ones: `HeapMerge` implements the multiway merge, loses nothing, returns but for the crash of its repair loop over a failed iterator, keeps its slice sound and restores the heap, however the front is permuted; up to five inputs: `IntersectNext` finds exactly the common records |
| `heap2` | `Heap2`, of up to three inputs (empty, equal, overlapping, unsorted, cut off) and of eight and nine, implements the multiway merge, keeps every unread iterator, clears those of nothing in time, and can be drained |
| `heap_eight` | **violated.** With eight inputs the repair loop (marked `FIXME bad`) leaves a broken heap: records come out unsorted, one of them twice |
| `laws` | every slice of up to four of fourteen elements that contend for a spot: only permuted, the winners' ID is their greatest, and where the comparison is consistent on the slice the winners are the greatest elements; any three of 62 elements: the four comparators are total preorders, except `CompareLWW` on an empty tuple, another tuple and a non-tuple (`EmptyAmongTuples`); any two words: zips and texts come back, and an ID stays that of the same element until its revisions run out, and no longer; up to eight appends of three different leaves to a Merkle line of three slots, the last finding it full: the roots are those of the perfect trees over the leaves in order |
| `replicas_docs` | two replicas with a map, a version vector, a list and a tuple, three updates: a document is the merge of the updates seen, whatever order, grouping and repetition; sets stay in strict order; what was seen before changes nothing; `Delve`, `Pick` and `ObjectReader` find every element of it and no other, and `Flatten` keeps what is live at its path, with its value unless that stands in a multiplexed container |
| `replicas_entries` | **violated.** Two entries stamped under one key and a deletion: a batch merge and pairwise merges disagree for good |
| `replicas_flatten` | **violated.** `Flatten` empties the values in a version vector |
| `tlv_write` | all ways to open, fill, wrap, close and cancel records in a buffer of 20 bytes, two levels deep, with three items on a level |
| `tlv_cut` | **violated.** `ReadTLV` of a part of a long record panics instead of answering `ErrIncomplete` |
| `builder` | two builders, cloned, copied, streamed into each other, up to two containers open in each: what they hold is what they were given, and no call changes two of them, strayed from or not |
| `jdr_text` | all texts of up to six tokens, and some 4,600 documents in four styles |
| `jdr_inline` | **violated.** `RenderJDR` with short inline tuples drops a tuple's ID |

Bounds and why they are enough. Seven inputs is where the heap gets its third full
level and the last size the repair loop handles; eight is the first at which it fails;
`IntersectNext`, which has no repair loop, is right up to five inputs and misses common
records from six. That seven and five are right with inputs of any length is proved (below). Four elements per spot let an element be dropped, overtake, and join
before and after each other. In `replicas_docs` three updates and batches of two give all orders,
groupings and repetitions of conflicting edits; of each container one element is edited in place (`Places`);
revisions are of two bits instead of six.
In Tlv a byte has eight values, so a length of eight needs the long header, and `MaxItems` = 3 items on a
level are a key, a record and what is wrapped behind it. In Builder a byte has four,
with elements added while all builders hold at most `MaxLen` = 4 bytes: enough for a long
record inside a short one, for a clone to share a level that the original then closes, and for calls
that stray to leave bytes that `Outo` can read as a mark. Heap2 is
drained with up to `MaxRounds` = 5 calls of `Read`, as many as the inputs have different records;
its eight inputs are the ones the older heap leaves unsorted, in all rotations and exchanges of
two. Of the seven inputs of the older heap at most three are at one record, since their
order in the front is chosen freely. Words are enumerated in full, 256 by 256; list positions
include both ends of the RON60 ring. Six tokens hold
a bracketed list with a comma and a colon; two-element documents nested three deep
reach every pairing of notations.

Fairness. `MergeHeap` and `SameSpot` assume weak fairness of `Next`: a call on one
goroutine runs until it returns. With it every call ends, in a return or in the crash that `Terminates` names. In `laws`
the assumption is made of SameSpot's steps alone. `Heap2` assumes it of its
`Next`, the calls of the caller included: the caller's loop calls `Heap2.Read` until it is false. That loop ends only if all
inputs are readable (`Drained`). The other specifications
state safety only; Replication's replicas may stop at any time.

## Findings

* `HeapMerge` of eight or more inputs (`itheap.go:415`), against the README's "fully
  immune to reordering".
* Revisions of one container are equal to each other in `MergeSameSpotElements`
  (`rdx.go:155`), and a third element is compared with an arbitrary one of them; so
  replicas diverge. This is also why `LastWriteWins` asks for `Coherent`.
* `Flatten` loses the values of FIRST elements in a multiplexed container: they are read as records, and the error
  of that is overwritten by `CloseTLV`'s (`rdx.go:815`), against the README's "any tombstones, any non-zero timestamps
  and other parts of a document that have no effect".
* `ReadTLV` checks a long length against `len(data)+5` (`tlv.go:42`).
* `renderInlineTupleJDR` writes no stamp, and writes nothing for a leading empty tuple
  (`jdr.go:618`, `648`).

Seen while modelling, without a run of their own: `CompareLWW` has a cycle on `()`, `(2)` and `1`, so
merging them depends on the order (hence `EmptyAmongTuples`); `IntersectNext` misses
records with six inputs; after a failed `Read` the repair loop still compares the failed
iterator (`itheap.go:413`); `Append` on a full Merkle line panics where `ErrOutOfRange`
was meant (`merkle7574.go:71`, modelled as `AppendPanics`); a trailing comma in brackets
adds an empty tuple. Further:

* Elements that compare equal with different bytes (references that differ in revision only,
  zeroes of both signs) are kept by their place in the heap (`rdx.go:274`), so replicas
  can differ in them. The drafts of `replicas_docs` leave them out.
* `Flatten` drops deleted elements at the top of a document without a gap, so that later ones move up; the updates of
  `replicas_docs` delete below the top only.
* `Pick` and `Delve` answer a negative index with the empty record and no error
  (`rdx.go:870`). `Normalize` does not sort lists, so `Delve` may miss an item of a list that was
  parsed out of position order.
* `Heap2` never lets go of a failed iterator, and its `Error` is always nil
  (`itheap.go:511`): a loop over `Read` then never ends, or panics. A `Read` that comes to iterators of nothing only returns
  true and merges no record.
* `WriteTLKV` writes keys of up to 255 bytes, but after `Iter.Read` of one of 250 or more `ID` and `Value` panic, as they
  add up bytes (`itheap.go:193`, `211`, `215`), and `ReadTLKV` panics at 255 (`tlv.go:62`). IDs have at most 16.
* `ObjectReader` lists deleted pairs like others.
* Zips of 7, 14 and 15 bytes, which nothing writes, are read as two zeroes.
* `WriteJDR` writes references with `RonString` (`jdr.go:696`): `0-5` is read back as the
  number 5.

## Proofs

TLAPS proves, for every value of the constants:

* **MergeHeapProofs** - `TypeCorrect`, `SlotsStayDistinct` (no iterator is lost from the
  slice or in it twice), `RoundsAreOfEquals`, and `NothingIsLost` (when `HeapMerge` returns
  without error every input has gone into rounds, record by record, in its order). They hold for any
  number of inputs, eight and more included: the broken heap loses the order, never a
  record. The inductive invariant `IInv` strengthens them by: indices stay within the
  live part of the slice (`IndexOK`); live slots hold different iterators, each standing at
  a record (`SlotsOK`), a readable one unless an error is pending (`ReadableOK`); the prefix
  `EqUp` collects is equal to the root (`PrefixOK`); each input went into rounds with its
  records up to its iterator, those of the round that `NextK` has yet to advance counted as
  taken (`TakenOK`); an input is let go of only once it is exhausted (`KeptOK`);
  and inputs not yet heapized are untouched (`NotBegunOK`). It assumes that inputs are
  sequences of ranks and `Bad`, and nothing of how they are sorted.
  Four theorems say what the heap is for, of inputs of any length but with their number limited as
  the code's defect demands. With up to seven inputs, `HeapRestored` (`HeapOrder`) and
  `MergesLikeTheMerge` (`ImplementsMerge`: a round is a step of MultiwayMerge, all else stutters); with
  up to five ascending inputs, `IntersectsExactly` (`IntersectExact`); with strictly ascending inputs,
  seven or five of them, `RoundsAscend` (`MergedInOrder`, the property that `heap_eight` refutes of eight).
  `MergesLikeTheMerge` further asks, where intersections are among the inputs, that the abstract merge
  may be given no input, which is what an intersection maps to.
  The invariant is `OrderOK`: until an error, what each loop has left undone. `UpOK`: which slots `Heapize` and the
  repair loop have made good, with one record on its way up. `DownOK`: what `NextK` has sunk, from the
  end of the front to the root; a parent outside the front may be greater than its children, which is
  harmless (`InScope`) only while the repair loop reaches all such children. `EqOK`: every slot equal
  to the root is in the front, in `EqUp`'s queue, or under one that is. `OrderOK` is claimed only under
  `Fits`, the limits of seven and five.
  The other theorems add to it that the heap gives up only where the abstract merge is stuck
  (`StuckOK`), that an intersection goes on only while no input is missing (`FullOK`), that a common record
  is in a round or still to come in every input (`ExactOK`), and that what is to come is greater than the
  last round (`LastOK`).
* **SameSpotProofs** - `TypeCorrect`, `OnlyPermutes` (what MergeHeap assumes of the call),
  `EqualsUnderGreatestID` (with `WinnersEqual`, which no run needs to repeat), and `LastWriteIsKept`: if the comparison is consistent on the slice, the
  winners are exactly the greatest elements. The invariant adds that, under a
  consistent comparison, no slot already looked at is greater than the first and those
  beyond `eq` are less than it (`SeenOK`), and that the slice is onto the inputs.
* **OrderLawsProofs** - `EulerIsAnOrder`, `MultixIsAnOrder`, `LinearIsAnOrder` and `LWWIsAnOrder`:
  the four comparators are total preorders on
  all elements, with any IDs and values; `CompareLWW` only on triples that have no empty tuple together with another tuple and a
  non-tuple (`EmptyAmongTuples`), though merges compare such, and on some of them it runs in a circle. The argument goes through a lexicographic composition of
  three-way comparisons. For lists it needs that `NewRon60` yields a number whatever the sequence
  number, that is, that a digit shift exists which fits and cannot be exceeded: a least one, as powers grow.
  Of words it proves the four properties that the run `laws` enumerates. `TogglesKeepStems`: removing and recovering
  keep the ID an element's own exactly while revisions are left. `WordPairsZip` and `WordNumbersZip`: zips come
  back, in the fewest bytes, for bytes of any number of bits. `WordTextsParse`: RON64 and RON60 texts come back, or are
  refused where the code refuses them, for digits of any base, any number of digits from two on and any letters
  in the place of `E` and `e`; words too long, zeroes in front and exponents at the end are cases of their own.
  These rest on what the digits of a number are and that Horner's rule undoes them.
* **Heap2Proofs** - `HeapInvariant`, `NoneLost` (`HoldsUnread`) and `DrainingIsMerging`: Heap2 implements
  MultiwayMerge with any number of inputs of any length, inputs of nothing among them, which the older heap does not do with
  eight. Order is claimed until an iterator fails, slots always. The invariant says that
  slots hold different iterators, all that have data and, but for slots still to be sunk, none that was read to its
  end (`SlotsOK`); that one of nothing is in a slot only until its rank has come up (`BlankOK`);
  that the list of equals starts at the root, grows, and has a parent of each of its slots before it
  (`EqsOK`), and that of the children of slots already looked at all equals are in it (`FoundOK`); that no
  slot is less than its parent, except at the cursor of `HeapUp`, under the cursor of `HeapDownN` and under slots
  still to be sunk (`HeapOK`); and that the rounds took exactly what the iterators have passed
  (`TakenOK`). `EqsOK` is what makes sinking the equals from the last to the first sound: whatever a
  slot sinks into is settled already. That the root is least, and that a list closed under equal children has
  every iterator at the root's record, needs induction over slots; the provers get it from
  `LeastNumber` in **NumberFacts**: a nonempty set of numbers has a least one. The refinement maps each
  round to one step of MultiwayMerge, all other steps to stuttering.
* **BuilderProofs** - `BuilderInvariant`, `SlicesStayApart` (`OneOwner`), `HoldsWhatItWasGiven` (`Built`) and
  `CallsAreIsolated` (`Isolated`), for any number of builders, depth, values and slack. `Isolated` and `OneOwner` hold
  of all builders that `NewBuilder`, `Clone` and `Copy` made, those strayed from included, whatever is called on them next. The
  invariant has types, that slices lie within their arrays, that any two slices keep apart
  (`Apart`: where one can append in place the other is full and ends no later), and that builders
  nothing strayed from hold what they were given. It is stated of memory, slices and histories as values
  (`InvOf`), since a call computes several of them before it is done. All calls come down to two: one slice
  is written, in place or in an array nothing points to (`OneSlice`), or all slices of a builder are replaced
  (`Fits`). `Outo` is the long case: the mark that is read back from the clone is the one `Into` left,
  which holds because `Built` is part of the invariant; without it `Outo` could cut anywhere. That
  an array is always free is a counting argument over `Arrays`. Assumed: stamps and values are
  sequences of bytes, and a zipped ID has at most `MaxID` bytes (`ZipID` makes 16, as many as `Outo` has room for), which a byte can count.
* **TlvProofs** - `BufferFramed` (`Framed`): however records are opened, filled, wrapped, closed and cancelled,
  the buffer is what writing the finished records at once would have given, for any records, depth, letters and number of byte values from
  three on. The invariant `WInv` has the types and, of every level, that the bytes from its start to the start of the next are
  what the level was given (`Sound`), so that closing may move them by the difference between the reserved
  header and the one needed. It is claimed until a call returns an error.
  Of the readers, `RecordsComeBack` (`RecordsRead`): a closed buffer yields its records, letters, keys and values, one by
  one to the end, and `PartsAreIncomplete` (`IterWaits`): given a record cut short anywhere, the iterator
  calls it incomplete, never bad. `RInv` adds to `WInv`, while all calls succeed, what levels are given
  (`ItemsOK`): the outermost records only, those below a key before all else, within the `MaxData`
  bytes the buffer may have. Each record is then a header, the length of its key, its key and its value, and a length of
  four bytes reads as the number it was written from, by Horner's rule. Assumed: a key's length fits one
  byte, for `RecordsComeBack` with six to spare (keys of up to 249 bytes, where IDs have 16), beyond which the readers panic, and `MaxData` is below a quarter of what four bytes can say, beyond which `Iter.Read` refuses
  a record that `CloseTLV` writes.
* **MerkleProofs** - `LineCommits` (`Commits`), for lines of any number of slots: every leaf appended is under one
  root, in order, in trees as the bits of the count say. The invariant adds types and that the count has no bit
  beyond the line, without which `Append` on a full line would look like one that carries.

**NumberFacts** holds what these have in common: least numbers, induction over `0..N` (stated of a set,
not of an operator), that a function defined by recursion over `0..N` exists and obeys its equation,
division, powers, digits and Horner's rule, and parts of sequences.

Only model-checked: termination and draining (liveness); whole documents, that is `SameAsSeen`, `StaysOrdered`, `Found`, `Flattened` and
`Immune`, and `InOrder` and `RoundTrips` of JDR, because RdxMerge, Replication, Paths and JdrText compute
by recursion over documents, of which nothing can be proved for all inputs here; and, within reach but not proved,
`Nesting` and `FieldsKept` of the JDR parser. What the five violated runs show is a counterexample, not a theorem.

## Not modelled

Lexing, except of the texts of IDs, and the conversion of numbers and strings in JDR (text in, text out, no
state that outlives the call); `StyleYell` and indentation of the renderers. Without a caller in
the library: `spliceTLV`, `Iter.Seek` and `Into`, `ID.Xor`, the 32-bit pairs of `zipint.go`, `MakePLEXOf` of several
elements, and `Ron60.Fit`, which may go past its upper limit and whose test is commented
out. `Timestamp` reads the clock. A pointer that `p := b.I0(1)` keeps is another name of b's levels until one of the
two grows: what is written through it later shows in b or is overwritten by it (`builder.go:64`). Chains of one call through such a
pointer are modelled (`StrayInto`, `StrayOuto`), pointers that are kept and longer chains are not, and are no builders in the sense of `Isolated`. The test runner is file I/O.

## Plan

1. Done: MergeHeap with MultiwayMerge, Heap2; SameSpot; RdxOrder with OrderLaws; RdxMerge with
   Replication and Paths; TlvBytes with Tlv and Builder; Words; Jdr with JdrText; Merkle7574; and the proofs above.
2. Models left: `StyleYell`, whose semicolon notation the parser already has; the escapes of
   strings.
3. Next proofs: `Nesting` and `FieldsKept` of Jdr, whose marks are a stack as Tlv's are.
