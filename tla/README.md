# A verification development for wson

wson is a binary form of JSON: one tag byte for each value, varints for sizes
and small integers, strings as length and bytes (UTF-16 in native order), maps
and arrays as a count followed by that many entries. The repository holds a C
writer with a C++ pull parser, an older version of both, a Java library, and
bridges to JavaScriptCore, a native runtime and Objective-C. This directory
models the parts that keep state, checks them with TLC on small instances, and
proves the most important of their properties with TLAPS for all values of the
constants.

    tlc -config MCWsonIo.cfg MCWsonIo        one run
    tlapm WsonIo_proofs.tla                  the proofs of one module

`PROJECT.json` is the machine-readable index: components, runs, the mutant that
each property detects, the source lines of every definition, findings, hazards
and theorems.

## 1. Inventory

| component | state | operations | modelled by |
|---|---|---|---|
| C writer, `io/wson/wson.c`, `wson_protocol.c` | a malloc'ed block, its length, a position | the raw writes, the tagged writes, `wson_io_buffer_resize` | `WsonVarint`, `WsonProtocol`, `WsonIo`, `ByteLog` |
| C++ pull parser, `io/wson/wson_parser.*` and the reads of `wson.c` | one cursor in a byte buffer it does not own, the decoding buffer | `nextType`, `backType`, `nextNumber/Bool/StringUTF8`, `nextMapSize/ArraySize/MapKeyUTF8`, `skipValue`, `toStringUTF8`, `getState`/`resetState` | `WsonParser`, `TreeWalk`, `Utf16` |
| UTF-16 to UTF-8, `io/wson/wson_util.cpp` | the destination buffer of the parser | plain conversion, JSON quoting | `Utf16` |
| older C library, `c/` | as the first two; position and length of 32 bits | the same | `WsonBuffer`; `WsonParser` with another constant |
| Java serialiser, `Wson.Builder` and `io/Pool` | a byte buffer and a reference list on loan from a `ThreadLocal` pool of weak references; the Java stack | `toWson`, `writeObject` and its branches, `close` | `WsonBuilder`, `WsonEncoding` |
| Java parser, `Wson.Parser` | position, pooled char buffer, a `String[]` of keys that all threads share | `parse`, `readObject` and its branches | `KeyCache`, `Bridges` |
| Java `Input`/`Output` | array and position | fixed and variable-length integers, `ensureCapacity` | `JavaIo` |
| `cache/LruCache` and the bean cache | an access-ordered map, its size | `get`, `put`, `remove`, `trimToSize` | `LruCache` |
| DOM reader, `jsc/dom_wson.cpp` | a parser, the node being built | two passes over the keys of a node | `DomDocuments`, `DomRender` |
| JavaScriptCore bridge, `jsc/wson_jsc.cpp` | object stack, depth, two caches of identifiers | two passes over the properties of an object; reading | `Bridges` |
| runtime bridge, `jsc/wson_for_runtime.cpp` | none beyond writer and parser | counting and writing; reading | `Bridges` |
| Cocoa bridge, `ios` and `mac` `WsonParser.m` | none | headers, then entries; reading | `Bridges` |

How they interact. A bridge walks a foreign object and calls the C writer; its
bytes cross to another language, where a parser walks them. Nothing in the
bytes says where a value ends except its own tag and sizes, so writer and
parsers are correct only together: each parser call has to move exactly as far
as the writer did, and each bridge has to write as many entries as it has
announced. In Java the serialiser calls back into the program's getters, which
may throw or call the serialiser again; the bean cache, the special-class cache
and the key cache are shared by all threads.

What is hard in it:

* **ordering of calls**: a client of the pull parser may mix reading, skipping,
  converting, rendering to text, going back one tag and restoring a saved
  position, in any order; the keys of a document come in any order;
* **boundaries**: growth of the block between the pieces of one write; varints
  with 28 to 32 significant bits; signed numbers mapped to unsigned ones;
  capacities near the largest int; buffers sized before the text is seen;
* **re-entry and failure**: an exception half-way through a graph, and the
  `catch` that writes another form of the same object; a stack overflow; a
  getter that calls `toWson` while the outer call holds what the pool lent; the
  collector clearing the pool at any moment;
* **interleaving**: `create` and `entryRemoved` run outside the lock of the
  cache; the key cache has no lock;
* **two readings of one thing**: the properties of a JavaScript object are
  counted in one pass and written in a second, through getters.

What makes each part correct, in one sentence. Writer: never past the block, no
uninitialised byte in the output, earlier output never changed, amortised
growth. Parser: every call ends on a value boundary of the tree written, and
does so as a walk of that tree would. Conversions: what is reserved covers what
is stored, and what is stored reads back. Serialiser: the output is the
encoding of the graph, of a cyclic one with the references to its own ancestors
as nulls; no two active calls share a buffer; every call ends. Caches: the size
is the number of entries, the bound is exceeded only while somebody is
trimming, each value is released exactly once; a key returned is the key in the
stream. Bridges: every reader gets the tree that the value written stands for.

## 2. Modules

* **`WsonVarint`** — `wson_io_write_var_uint`, `wson_io_read_var_uint` and the
  zigzag of signed numbers, as functions (no RECURSIVE): `VarUint`, `ReadUint`, `Zig`, `Zag`.
* **`WsonProtocol`** — the tag bytes.
* **`WsonIo`** — the writer. `buf` is the C struct. A cell of `data` is a byte or
  `Junk`, which is what malloc and realloc leave; a store past the block is
  lost. One action for each public call, with every reservation (`Ensure`), store
  and move it makes in the order of the code. The growth rule has its three
  numbers as constants: 8192, 2 and 4096 in `io/wson`, 16384, 1 and 1024 in `c/`.
* **`WsonBuffer`** — the writer of `c/`, reduced to lengths: position and block
  length are 32-bit numbers, the comparison before a resize is in 32 or in 64
  bits, depending on the type of the size reserved. It makes the stores that
  `WsonIo` models byte by byte. `Init` and `Next` are called `wson_buffer_new` and
  `wson_push` here, so that one run can extend both this and `JavaIo`.
* **`ByteLog`** — what a writer promises: a log to which whole encodings are
  appended. `WsonIo` implements it with `log` mapped to the bytes below
  `position` (property `AppendOnly`).
* **`WsonParser`** — the pull parser over the bytes of a document. The state is
  the bytes, the cursor and what the client knows: the tag it read last, the
  sizes of the containers it is in, a saved position. One action for each call.
  `skipValue` and `toJSONtring` call themselves for the items of a container:
  `calls` is the stack of these calls with their loop variables, a step of
  theirs is one item, and the client goes on when the stack is empty (`job` says
  for which call it was made and where `toStringUTF8` goes back to). What the
  writer makes of a node is the constant `Written`, one byte sequence for each
  item it has; `EncodingAssumption` says item by item how these grow. So the
  module needs no recursive operator and can be proved about; `MCWsonParser`
  computes `Written` and TLC checks the assumption.
  `SkippedFloat` is how far `skipValue` moves over a float, the one place where
  the two versions of the parser differ; `AsNumber` are the types of value the
  client asks a number of.
* **`TreeWalk`** — the abstract parser: a walk of the tree with a path instead of
  a cursor. `WsonParser` implements it (`WalksTheTree`).
* **`Utf16`** — the two conversions of `wson_util.cpp`, and `requireDecodingBuffer`
  with the sizes its callers ask for. A conversion is a `Loop`: a round is a
  function on the position in the text and the bytes put out so far, applied as
  often as the text has units. The reference, a reader of UTF-8 and one of JSON
  strings, consists of such loops too, which the proofs compare round by round.
* **`WsonBuilder`** — `Wson.toWson`. `builders` is the stack of active calls
  on one thread, each with the stack of its `write…` methods; `slot` is the pool
  (a `ThreadLocal`, so one thread is enough), `content` the elements of the
  reference lists. A step is what runs between two callbacks. Exceptions
  (`raised`) unwind frame by frame into the `catch` of `writeAdapterObject`; a
  stack overflow (`Overflow`) passes all of them, at any depth beyond `SafeDepth`.
* **`WsonEncoding`** — the reference: the encoding of a graph as a function of
  the graph, independently of how the builder walks. `encode[n]` is the encoding
  of values at most `n` objects deep, and no object is inside itself, so that the
  number of objects in reach is depth enough. It uses recursive functions, not recursive
  operators, so that it can be proved about. **`WsonShape`** — which sequences of
  tokens are one value, with recursive operators; only `builder_fallback` uses it.
* **`KeyCache`** — how `Wson.Parser` reads strings and keys. A step is one access
  to the shared array or one copy into the thread's char buffer. The array is
  neither volatile nor locked, so a slot is the set of what was ever stored in
  it and a read takes any of these, or null. Its next-state relation is `KeyNext`, since
  `Caches_proofs` extends both this and `LruCache`.
* **`JavaIo`** — `Output.ensureCapacity` in ints that wrap, each write together
  with the reservation `Wson.Builder` makes for it, and what `Input` reads of the
  numbers. `MaxInt` is a constant: with the theorems it may be 2^31 - 1.
* **`LruCache`** — one action for each synchronized block and for each callback
  outside the lock, for every thread that calls it (`Callers`). `older` is the access order as a relation; `fresh` is the
  set of values outside the cache's care, which makes "released once" a state
  property.
* **`Bridges`** — the three bridges as writers and readers of one sequence of
  tokens, and the Java parser as a fourth reader. An entry of an object yields
  one value when it is counted and possibly another when it is written. The caches of
  identifiers live across calls, or for one call, as `init` and `destory` say. What the
  calls of a bridge to itself do is a recursive function of a level: `Push`, `ReadTo` and
  the reference, `Plain`. A level is applied to what the one below does for each item, so
  that the levels bound the depth; `LevelsSuffice` shows that the bound leaves nothing out.
* **`DomRender`** — the two parsers of render trees, `WsonGenerate` and
  `Wson2Pairs`, as readers of tokens; a reader that does not move over a value
  is `Lost`. A loop over the entries of a map is `Repeat`, its body a function on where the
  reader is and what it has; the calls a reader makes of itself are `Repeat` too, of what a call does
  when the calls inside it return `inside`. **`DomDocuments`** — the documents: values
  up to `MaxNesting` levels, over any set of strings, with distinct keys in each map.
  The next-state relation is `DomNext`, since `MCBridges` extends both this and `Bridges`.
* **`MC…`** — the small instances; `MCConversions` holds `JavaIo`, `WsonBuffer` and `Utf16`,
  `MCBridges` holds `Bridges` and `DomRender`. **`…_proofs`** — the theorems,
  those of the parts of `MCConversions` in `Conversions_proofs`; `CommonLemmas` has what several of them need.

`WsonVarint` and `WsonProtocol` are shared by `WsonIo`, `WsonParser`, `WsonBuffer` and
`JavaIo`, so each reader reads what the same definitions write. `WsonIo` and
`WsonParser` work on bytes; the modules above them work on tokens, which is
what these two justify: a call of the writer appends one token and a call of the
parser takes one.

## 3. Runs

| run | shows |
|---|---|
| `io_writer` | every sequence of write calls keeps the four invariants of the block and implements `ByteLog`; each reallocation at least doubles the block |
| `parser` | any mixture of calls stays aligned, a rendering from the start covers the whole document, and the cursor refines the walk of the tree: the parser of `c/` on documents of every type, that of `io/wson` on those without floats |
| `builder_clean` | with calls that do not fail: the output is the encoding, the reference list is the path, every call ends |
| `builder_failing` | also with re-entry from getters, failures, stack overflow and the collector: no object is written inside itself, active calls have distinct buffers, every call ends |
| `lru_cache` | three threads: types, size, bound, conservation of values, one eldest entry, and a cache over its bound comes back to it |
| `key_cache` | two threads: every string returned is the one in the stream; the array keeps only short keys, each in its slot |
| `conversions` | writes fail only when the output is beyond half of the ints; arrays at least double; the block of `c/` is overrun only beyond half of its 32 bits, and stays in proportion; numbers and text read back; the decoding buffer is large enough |
| `bridges` | what any bridge writes every reader reads back; entries that vanish while they are written are absent; the three DOM readers make one tree of a document in any order of its keys |
| `io_parser_float`, `parser_text_number`, `builder_shared_list`, `builder_fallback` | violations, see Findings |

Bounds, and why they are enough.

* `MCWsonIo` scales the growth parameters down (`SmallLimit` 4, `LargeFactor` 2,
  `Slack` 1) and starts from blocks of 0, 2 and 5 bytes, so that an empty block, one below the limit
  and one above it, and requests below and above the length, all occur within
  two calls. `MaxPosition` 4: no call starts beyond it. Numbers of one and
  of two varint bytes, strings of zero, one and three bytes. The proofs cover all values.
* `MCWsonParser` instantiates `Nodes` with the documents and everything inside them. `MCWsonParser.cfg` sets `SkippedFloat` to the 4 of `c/`; no other document than
  one with a float tells the two parsers apart. The documents have each type as a whole document, inside an array and as the
  value of a map, an empty container and a nested one: alignment is lost or kept
  value by value, and the sibling after a value is what a wrong move hits.
* `MCWsonBuilder`'s graphs have a cycle through a list, null entries and
  elements, a getter that throws (with and without a working JSON form), a bean
  that `equals` its parent, a null key, a `CharSequence` that throws, and a
  getter that calls `toWson`; at most `MaxNest` = 2 calls are active at once.
  `SafeDepth` 3 in `builder_failing`: the graph of a bean that holds a list that
  holds a cyclic map is deeper, with half-written values on each level; 99 elsewhere, deeper than any of the graphs.
* `LruCache.cfg`: three threads, three keys, four values, `maxSize` 1: a cache
  that is over its bound by two entries while three threads trim it, two threads
  in `create` for one key while the third puts it. Values are named again after
  their release, so behaviours are unbounded. No symmetry, as liveness is checked.
* `MCKeyCache`: two threads and texts that are prefixes of each other, of equal
  length, empty, too long for the cache (`CachedBelow` 3) and longer than the
  least buffer (`MinChars` 1); all but one share a slot.
* `MCConversions`: `MaxInt` 127 and `Least` 16, so that a few strings of 40 reach the
  overflow of the addition and of the doubling. Numbers of one, two and five
  varint bytes, with and without high bytes inside. For `WsonBuffer`, numbers below 64 and blocks that grow
  by 6, by their length, or by a request and 3: single strings fit, two of them wrap;
  `MaxMost` 40: no call starts when more was needed, since nothing is claimed beyond 31. Texts of up to two units out of
  14 that bound the cases of the conversion, and of three where surrogates meet
  each other and text.
* `MCBridges`: an object for each kind, with circles, a value of every kind in
  every place, an object whose `toJSON` returns something else, a property that
  changes between the passes. Two of the three keys agree in length and hash, one
  is not cacheable. `MaxDeep` 2 is less than the depth of the objects;
  caches of 4 and 2 slots. Documents with five keys in all 120 orders, parts of
  the expected and of other types, nested nodes in good order, in bad order and
  without a type, and documents that are no map. `MaxNesting` 8 is more than the levels of any of them.

Fairness. `WsonBuilder`: `WF_vars(Run)`, a thread that has called `toWson` is
scheduled until it returns. `LruCache`: weak fairness of each thread inside its
call; `create` and `entryRemoved` return. Neither assumes that anybody makes
another call. The other modules have no liveness to claim: each of their steps
is a whole call, and in `KeyCache` no step waits for another thread. A single
call of `trimToSize` is not claimed to end: other threads may refill the cache
between any two of its rounds.

`MCWsonIo.cfg` and `MCConversions.cfg` do not check for deadlock: behind
`MaxPosition`, and after a write that has thrown, the models stop.

## 4. Theorems

* `CommonLemmas` — `Counting`, `Recursion`: functions defined by recursion on the numbers
  exist, in a form that takes sets and functions for parameters, where the
  theorems of the library take operators. `VarUintBytes`, `VarUintRoundTrip`: the varint of any
  32-bit number is one to five bytes, and reading it back, whatever follows,
  gives the number and its size. By cases on the number of 7-bit groups.
  `VarUintContinues`: all bytes but the last have their high bit set.
  `ZigZagRoundTrip`: for every integer.
* `WsonIo_proofs` — the inductive invariant `Inv` is: `position` is at most
  `length`, `data` has exactly the cells `0..length-1`, and those below
  `position` are bytes. The type invariant alone is not inductive, since
  whether a store falls inside the block depends on the first part. Each
  `Put…` is shown once to *append*: the bytes below the old position stay, the
  encoding follows, the invariant holds after it (`StoreAppends` to `CallAppends`);
  appending composes (`AppendsCompose`), and every action is a sequence of these. From it: `TypeCorrect`, `NoOverrun`
  (`InCapacity`), `NoJunk` (`Initialised`), `AmortisedGrowth` (`Doubling`) and
  `Refinement` (`WsonIo` implements `ByteLog`), for all growth parameters,
  arguments and lengths of run.
* `WsonParser_proofs` — `TypeCorrect`, `AlwaysAligned` (`Aligned`), `RendersTheWhole`
  (`WholeDocument`) and `Refinement` (the cursor implements `TreeWalk`), for every set of documents,
  all sizes of 32 bits and every depth. The hypothesis `ReadsWhatIsWritten` leaves out the
  two findings about the parser and nothing else: no document has a float unless `skipValue` moves
  over floats, and no string is read with `nextNumber`; without either half a run finds the
  counterexample. `MCWsonParser` has TLC evaluate it (`ReadingAssumption`).
  `Aligned` is not inductive: an invariant about the byte the cursor is on says nothing of
  the bytes that follow. What is inductive is (`Inv`): the frames of the client,
  followed by those of the calls that run for it, stand for nested nodes of the
  tree (`Placing`), the encoding of each of which lies in the document as a whole
  from its place on (`Sits`); and the cursor is at the item, its tag or its value
  (`ClientAt`), also in the saved state. From `Sits` follows what each reading operator
  finds and where it ends: the one lemma for varints is `VarintSits`, for leaves
  `LeafSits` and `ContentSits`, for headers `ContainerSits`, for keys `KeySits`. Then `Placing` goes on
  to the next item, into it and out of it (`PlacingBeyond`, `PlacingInto`, `PlacingOuter`),
  and each action is one of these. No induction on the tree is needed: a
  recursive skip is a walk with a stack, and the stack is part of the state.
  `Refinement` maps frames to nodes; the steps of the parser's loops are stutters of
  the walk, and their return is the one step of the client's call (`TreeSteps`).
* `WsonBuilder_proofs` — `TypeCorrect`, and `BuffersAreExclusive`: the buffers
  of the active calls are pairwise distinct and none of them is in the pool.
  The second half is what makes the first inductive: the next call may be given
  what the pool has. For every graph and every depth of re-entry.
  `NeverInsideItself`: on every graph in which no getter in reach of a root
  calls `toWson` (`NoCallers`), no object is written inside itself. `refs` is not
  the path after a failure: what a caught exception or an abandoned call has
  recorded stays in it. What is inductive is `PathInv`, that the path *embeds* in
  `refs`: it is a subsequence of it. Entering an object appends it to both;
  leaving one takes the last of both, and what is left of the path lies before
  that in `refs`; a catch only shortens the path; and an object that `refs` does
  not hold is not on the path. The hypothesis
  is needed: `builder_shared_list` is the counterexample without it.
  `RefsAreThePath`: on the graphs that leave nothing behind, `refs` is the path
  exactly. These are the `CleanGraph`s: no getter in reach calls `toWson`, only
  writing a bean may fail, a bean of a class that can fail has a JSON form that
  works, and the objects in reach are fewer than `SafeDepth`. They include cyclic
  graphs and caught exceptions; `MCWsonBuilder` has TLC evaluate that those of `builder_clean` are clean (`CleanAssumption`). The invariant `CleanInv`
  adds to `PathInv` that an exception is always that of the bean on top of the stack, so that
  the `catch` that takes it has nothing to unwind, and that the list in the pool
  is empty between two calls. That the stack does not overflow is `StackBound`: by `PathInv` the
  objects on it are distinct, and there are too few of them.
  `WritesTheEncoding` (`Faithful`): on clean graphs that are also `Steady`, a call that
  returns has written the encoding of its root. Steady are those whose output depends on the
  graph alone: the beans of a class fail all or none, since the first that fails changes how the
  others are written (`specialClass`), and the keys of a bean are not null. The
  invariant is `Due`: what has been written, followed by what the frames have still to write, the
  top one first, *is* the encoding of the root. What a frame has still to write (`Remain`) is
  an encoding for a value not yet begun, the end of one for a container at its i-th entry, all
  of it for a bean whose getters are being called. Each step moves a piece from one side to
  the other (`SettlesPop`, `SettlesReplace`, `SettlesEnter`): `DueWrites` to `DueLeave`, one lemma for
  each action. Where the builder asks `refs`, the encoding asks the path; that these agree is
  `CleanInv`. That the recursive functions exist and compute what they say is shown from
  the well-foundedness of the numbers (`Counting`, `Recursion`).
* `Caches_proofs`, `LruCache` — `TypeCorrect` with `Phase` (what a thread holds follows
  from where it is in its call); `ValuesConserved`, by the six ways a value can
  change place; `SizeCounts` and `WithinBound` together, because a trim that
  stops at an empty map leaves a small size only if the size counts the map. For
  any number of threads, keys and values and any `maxSize`.
  `EldestExists`: the accesses are a strict total order of the cached keys, kept by
  touching, removing and inserting one; a nonempty finite strict total order has
  exactly one least member, which is shown by well-foundedness of strict subsets.
* `Caches_proofs`, `KeyCache` — `KeyTypeCorrect`, `StringsAsInStream` and `CacheIsBounded`. The invariant
  (`InBuffer`) is that between the copy and the return the characters of the
  text are the first of the thread's own buffer, which no other thread has; a
  hit is compared with them, so that it does not matter what the slot yields.
* `Conversions_proofs`, `JavaIo` — `FailuresAreTooLarge` and `AmortisedGrowth`, for every
  `MaxInt`. The step is `Ready(o, left)`: after a reservation either the array has
  `left` bytes left or it has failed and the output is beyond half of the ints;
  each store uses up a part of them. `NumbersAreReadBack`: what `Output` wrote
  last is the encoding of the number (`Sent`), which varints and four bytes read
  back as the number (`ReadsBackUnsigned`, `ReadsBackFixed`), the latter where the property claims it.
* `Conversions_proofs`, `WsonBuffer` — `OutsideIsTooLarge` and `BlockInProportion`, for every width and
  all growth constants. The invariant says something only of buffers that are
  not `TooLarge`; what makes it inductive is that `most` never decreases, so that a
  buffer whose length has wrapped is too large for good.
* `Conversions_proofs`, `Utf16` — `CharactersSurvive`, `QuotingIsUndone` and
  `RoomSuffices`, for texts of any length over all 65536 units. A character is
  recovered from its bytes (`Utf8Reads`, by the number of bytes), and bytes of more than
  one are none of the escaped ones. The readers are then followed along the
  rounds `w[n]` of the conversion: a UTF-8 reader has consumed exactly the bytes
  `w[n]` has put out and holds the characters of the units before `w[n].at`
  (`CharactersReadBack`); a JSON reader of the quoted form has consumed what the quoted
  conversion put out after `n` rounds and holds what the plain one did
  (`QuotesReadBack`). Both rest because each loop that does not stand still moves on
  (`LoopMoves`), so that as many rounds as there are bytes are enough. A unit becomes
  at most three bytes, and four are asked for (`ThreeInFour`).
* `Bridges_proofs` — `BridgesTypeCorrect`, `WhatIsWrittenIsReadBack` (`ReadsBack`) and
  `VanishedPropertiesAreAbsent` (`VanishedIsAbsent`), for every heap, any depth, any keys
  and any sizes of the caches. `ReadsBack` says nothing of how much of a buffer one item
  takes. What goes through is `ReadsAt`: *wherever* in the buffer the tokens written for a
  value lie, a reader there returns the tree the value stands for, and is behind the
  last of them. It is shown by induction on the levels of the writer, for all levels
  of the reader that are no fewer than the tokens (`AllRead`); inside, along the items of an object: after
  the pieces of the first `j` a reader has as many entries as these stand for, and is behind
  them (`ItemsRead`). For that each item that is not left out has to take a token at
  least (`PushNonEmpty`), a key has to come back from the cache (`NamedProperties`), and the
  header has to announce what follows: `Announced` is `Following` if the same properties are skipped
  in both passes (`CountedAsWritten`), which is what `Sound` asks of getters. Where they vanish,
  `Announced` is larger: a reader that looks for the end stays there, and Java moves on with
  each item it is still promised (`ReadBeyond`), so that it ends up outside of its array.
  `LevelsSuffice`: JavaScriptCore stops by itself (`SettledJsc`); in a tree at least one more
  object is settled at each level (`SettledTree`), since among those that are not there is one
  none of whose items is among them.

* `DomRender_proofs` — `TreesOfAnyOrder` (`OrderIsFree`), `TidyTreesAreGenerated`
  (`GeneratesTheTree`) and `PairsOfAnyMap` (`PairsAreEntries`), for every document of any
  depth over any strings. As in `Bridges_proofs`, what goes through the induction is about a value that
  lies *anywhere* in the tokens: wherever its encoding stands (`Stands`), skipping ends
  behind it (`SkipsThere`), and a reader there returns the tree the value stands for
  and is behind it too (`OldReadsThere`, `NewReadsThere`, `GeneratesThere`), by induction on
  how deep the value is, for any depth of calls that is no less than its tokens. `Encode` bounds its own
  recursion by `MaxNesting`; that a value has at least as many tokens as levels
  (`NestedGrows`) makes the length of the document depth enough for the readers. Inside
  a map the invariant goes along its entries: the new reader has after `k` of them the parts
  among the first `k`, each in its place (`NewStep`, `GenStep`). For the old reader it has two
  cases (`Begun`): as long as the order was right, it has the parts so far, and before the
  type there was none; once it was wrong, it has a bare object with type and ref, or none yet, since the
  order only goes wrong before the type and nothing is added from then on (`FirstStep`). So the
  second pass starts from a bare object and adds each part once (`SecondStep`).

Assumptions of the theorems are the named ASSUMEs of the modules: ranges of the
constants, and that the markers (`None`, `NoKey`, …) are not members of the
sets they stand outside of. `JavaIo` assumes also that the bytes of a single
string, with their length, can be counted by an int. `WsonParser` assumes that
documents are trees the writer can be given (`DocumentAssumption`), that the bytes
are what it writes of them (`EncodingAssumption`). `Utf16` assumes that texts consist of
16-bit units (`TextsAssumption`). `WsonBuilder` assumes that null, leaves, throwing values and
calls of `toWson` are no objects (`GraphAssumption`). `Bridges` assumes that there are finitely
many objects, that objects, leaves and values without a form are told apart (`ValuesAssumption`), and that properties have
keys (`HeapsAssumption`). `DomDocuments` assumes that documents are of its form
(`DocumentsAssumption`): no key comes twice in a map, as every writer takes them
from an object or a map. TLC evaluates all of them for the instances of the runs.

Only model-checked: liveness (`Terminates`, `Shrinks`), which is out of the
prover's reach.

## 5. Findings

1. `io/wson/wson_parser.cpp:283` — `skipValue` does not move over a float.
   Every later call reads from the middle of it. `c/` does move. (`io_parser_float`)
2. `io/wson/wson_parser.cpp:224` — `nextNumber` of a string moves over the
   string twice and converts the bytes behind it. (`parser_text_number`)
3. `io/Pool.java:65` — `requireArrayList` clears `bufferRef`, not
   `arrayListRef`: the list stays in the pool while it is lent, and a `toWson`
   called from a getter clears the list of the call around it. (`builder_shared_list`)
4. `Wson.java:568` — the fallback to JSON starts behind the half-written map. (`builder_fallback`)

Met while modelling, and excluded by the hypotheses of the properties named, or by the inputs
of a run, so that the rest could be checked:

* `io/wson/wson_parser.cpp:312` — no case for the extension type the writer can
  write (no document of run `parser` has one).
* `io/wson/wson_parser.cpp:88` — the decoding buffer is too short for quoted
  texts of fewer than three units and for the terminator of an empty one, as
  long as it has fewer than 9 bytes (`TextFits`).
* `Wson.java:91` — a `toWson` that fails leaves its list of references filled
  and pooled; the next call on the thread writes null for objects it finds there
  (`Faithful` is checked where no call fails).
* `io/Input.java:155` — `readInt` does not mask its bytes; `NumbersReadBack`
  states exactly for which numbers it works. `Wson.java` does not call it.
* `jsc/wson_for_runtime.cpp:219` — an array element of an unknown type is
  announced and not written; `WsonParser.m:241` — a `CGVector` is followed by a
  null nobody announced; `toObj:` counts the entries of a map and does not look
  for the end, so that it is left out of `VanishedIsAbsent` (`Sound`, `VanishedIsAbsent` in `Bridges`).
* `jsc/dom_wson.cpp:381` — `WsonGenerate` does not skip a part of an unexpected
  type and stops at null children (`Tidy`); the older DOM parser leaves out objects
  without a type, the newer makes them. Its parser gets no length, so it never sees an end.

## 6. Assumptions and what is left out

* The parser is given the true length of its buffer, and a client takes back
  only a tag it has just read, and restores only a position it saved.
* `malloc` and `realloc` succeed. The position of the writer does not reach
  2^64; for `c/`, whose position has 32 bits, `WsonBuffer` says when it matters, and
  `size_t` is taken to have 64. Lengths of strings are not negative.
* In `WsonParser` a string is a few bytes, and a number converted to text is not
  spelled out; `Utf16` has the conversion of text.
* The object graph does not change during `toWson` of Java, except through
  getters that call `toWson` themselves.
* `Bridges`: number, string and boolean objects, dates, and the classes and C types that
  Cocoa distinguishes, are leaves; so are the Java classes a parse creates. The
  fields of a `CGPoint` have the names the code gives them, `width` and `height`, which no
  property is about. Reading past the end of a C buffer is not given a meaning.
* `sizeOf` of `LruCache` is 1: no subclass overrides it. Statistics are left out.

Not modelled:

* the trees `aversions`, `jsctools`, `jsctest`, `WsonTest`, `io/WsonTest` and
  `java/src/test`: an earlier version, the headers of JavaScriptCore (most of the
  repository's lines), tests and benchmark programs;
* the 64-bit varints of `Input`/`Output`, which nothing in `Wson.java` calls, and
  the values of doubles and longs, beyond the integers TLC has: their eight
  bytes are stored and skipped;
* formatting of numbers as text (`snprintf`), and the logging of the parsers.

## 7. Plan

Every safety property that a run checks is proved. What remains open is outside of
what is modelled (section 6), and liveness, which stays with TLC.
