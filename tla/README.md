# A TLA+ model of gr-compress

gr-compress is an out-of-tree module for GNU Radio. Its blocks compress a sample
stream with zstd into messages, carry those messages as a byte stream, store them in
a file, and turn all of that back into samples. Beside the blocks, the repository carries
the programs that write the docstrings of its Python package from Doxygen's XML, and
those that keep a Python binding in step with its header. This directory holds TLA+
modules for the blocks and for these programs, the TLC configurations that check them,
and TLAPS proofs about them.
Paths are relative to the root of the repository (the directory `src/` of
`PROJECT.json`).

## 1. Inventory

| component | state it keeps | operations | talks to |
|---|---|---|---|
| `lib/ZStdCompressor`, `lib/ZStdDecompressor` | a zstd context, no data between calls | `maxDestBufferSize`, `compress`, `decompress` | libzstd |
| `compress_impl` | `localWriteBuffer` with size and fill, `compressedBuffer` with size, `pCompressor` | `work`, `stop`; `test`, `timeCompression` for the test program | stream in, messages out on "compressed" |
| `decompress_impl` | `localWriteBuffer` with size, `byteQueue` | handler `compressedIn`, `work`, `stop`; `test` | messages in, stream out, messages out on "uncompressed" |
| `CompressedMsgToStream_impl` | `byteQueue` | handler `compressedIn`, `work` | messages in, byte stream out |
| `StreamToDecompressionMsg_impl` | `byteQueue`, `headerValid`, `currentHeader`, `localWriteBuffer` with size | `work`, `stop` | byte stream in, messages out |
| `CompressedFileSink_impl` + `file_sink_base` | `d_fp`, `d_new_fp`, `d_updated`, `d_unbuffered` and what stdio buffers | handler `compressedIn`, `stop`, destructor; `open`, `close`, `do_update`, `set_unbuffered` for the application | messages in, a file |
| `CompressedFileSource_impl` | `d_fp`, `d_new_fp`, `d_updated`, `d_repeat`, `byteQueue`, two buffers with sizes | `work`, `stop`; `open`, `close`, `seek` for the application | a file, stream out |
| `ComplexToPacked12_impl`, `Packed12ToComplex_impl` | none | `work` | streams |
| `lib/test_compress.cc` | the file and one object of `compress_impl` and of `decompress_impl` | `TestCompression` | `test`, `timeCompression` of both |
| `docs/doxygen/doxyxml/generated` | none | `parse`; `build`, `find` and `description` of the objects it makes | XML files that Doxygen wrote |
| `docs/doxygen/doxyxml` (`Base`, `DoxyIndex`, ...) | for each object `_parsed`, `_error`, `_retrieved_data`, `_members`, `_data` and the caches `_in_category`, `_dict_members`; the table `_refs` of the index | `name`, `error`, `data`, `members`, `in_category`, `get_member`, `has_member` | the parser; the objects among themselves |
| `docs/doxygen/update_pydoc.py` | the dictionary in a JSON file, the headers, `docstring_status` | `scrape`, `sub`, `copy`, each a process | doxyxml, the `*_pydoc_template.h` files |
| `docs/doxygen/swig_doc.py` | the interface file | one process | doxyxml |
| `python/bindings/header_utils.py`, `bind_oot_file.py` | the comment block in the C++ file of a binding | `get_flags`, `bind_oot_file` | cmake, bindtool |
| `grc/`, CMake, the rest of `python/` | none | editor metadata, build, glue | not modelled |

How they interact. Every block has one thread, in which the GNU Radio scheduler runs
its message handlers and its `work`; a handler and `work` of one block never overlap.
`message_port_pub` puts a message straight into the mailbox of the receiver, an
unbounded queue that is served by the receiver's thread. So blocks interleave at the
level of mailboxes and stream buffers. The two file blocks are also called by the
application's thread (`open`, `close`, `seek`, `set_unbuffered`) while their own
thread runs. The documentation programs run one after the other, each in one thread; what
makes them hard is that their objects are read lazily, in an order that depends on what
was asked before, and share their caches. A flowgraph can be stopped and started again with the same objects; no
block overrides `start`, and several free in `stop` what only the constructor makes.

What is hard here, in the order of how much it matters:

1. buffers that are reallocated by hand, with a size kept beside them, under requests
   of any size from the scheduler;
2. items, compression blocks, records and calls of `work` that all cut the stream at
   different places, so that bytes wait in five places;
3. parser state that outlives a call, and a stop, in the middle of a record;
4. errors that a wrapper turns into an ordinary value;
5. a file whose writer can be killed at any moment, and a reader whose file is
   exchanged, closed or repositioned by another thread between two steps of `work`;
6. the end of a stream: what waits for a full block, item or request;
7. objects that read a file when they are first asked, so that a method reads other
   objects on the way, fails half way, or fills a cache from what was read so far;
8. texts that go through two escapes and a regular expression, and two programs that
   are copies of one another and have to agree.

`PROJECT.json` lists the hazards at their lines with the properties that cover them.

What makes each part correct: the compress block partitions its input and describes
every block exactly; the decompress block returns every intact block once, whole and
in order; the pair is a pipe; the two stream converters are a FIFO for messages; a
file is a chain of records with at most one broken at its end; the file source plays
whole blocks in order; the 12-bit blocks return the code nearest to a component in their
range; and, apart from the cases of section 4, none of them leaves a buffer, uses a
stream that is closed or loses one. What a doxyxml object answers does not depend on what
was asked before; each class and function has the docstring that the XML gives it, in
both programs, and it arrives in its placeholder; and a binding that is made
automatically never falls behind its header.

## 2. Modules

    ZStd ──┬── Compress ──────────────┬── MessagePath ── implements ── BytePipe
           │                          │
           ├── Decompress ────────────┤
           │                          └── TestProgram
           ├── CompressedMsgToStream ──┐
           ├── StreamToDecompressionMsg┴─ StreamLink ── implements ── MessageFifo
           ├── FileSink
           └── FileSource
    Packed12

    GeneratedObjects ──┬── GeneratedParser ──┐
                       │                     ├── UpdatePydoc ── SwigDoc ──┐
                       └── DoxyXml ──────────┘                            ├── MCDocs
                                                               Bindings ──┘

| module | models | state and actions against the code |
|---|---|---|
| `ZStd` | both wrappers and `CompressionHeader` | operators only. A byte of the stream is its position in the stream; a byte of a frame knows the frame's content, its length and its own place, which is what decides whether a span of bytes is one whole frame. `Header` has fields modulo `WordSize`. `Decompress` maps every error to size 0, as the wrapper does. |
| `Compress` | `compress_impl` | one variable per member that matters, named as in the code; `compressedBufferAlloc` is what `new[]` gave, beside the size the block believes. `WorkCollect` and `WorkPublish` are the two ways through `work`, `WorkFault` a call that leaves a buffer, uses a null pointer or runs out of the capacity; `Stop`, `Start`. |
| `Decompress` | `decompress_impl` | `CompressedIn`, `Work`, `Stop`, `Start`. The branch for a size above the announced one is there, although no value takes it. |
| `CompressedMsgToStream` | the block of that name | `CompressedIn`, `Work`. |
| `StreamToDecompressionMsg` | the block of that name | `work` publishes in the middle of its loop, so a call is `WorkBegin` and then a step per iteration: `PublishRecord`, `ReturnWithHeader`, `ReturnWithoutHeader`. |
| `MessagePath` | compress → decompress | both modules instantiated; the output of the one and the mailbox of the other are one variable. |
| `BytePipe` | what that pair promises | bytes 1, 2, 3, ... are accepted and delivered in order. |
| `StreamLink` | messages → stream → messages | both modules instantiated around one stream buffer. |
| `MessageFifo` | what that pair promises | a FIFO channel for messages. |
| `FileSink` | the sink and `file_sink_base` | a stream is its file, its position and what stdio buffers. The handler leaves any part of its bytes buffered unless it flushes; `Kill` may fall into the middle of the handler. `Destroy` is the destructors. |
| `FileSource` | the source | a call of `work` is `WorkBegin` (the test of `d_updated` and the `fclose` of `do_update`), `Install` (the rest of it, and the test for a file), `Lock`, then `ReadHeader`/`ReadData` per record, then `Return` or the end of the file. `stop` is `StopClose`, `StopForget` and `StopFree`: where a stream is closed and what replaces it are steps of their own. The application's `Open`, `OpenFails`, `Close` come wherever `fp_mutex` is not held, and in the middle of `stop` they close a stream again (`ClosedTwice`). `Seek` takes no lock and comes anywhere, with any of the three values of `whence`; it fails before the beginning of a file and goes behind its end. |
| `Packed12` | the two 12-bit blocks | rounding, limiting, packing and unpacking of one sample. |
| `TestProgram` | `TestCompression` with `test` and `timeCompression` | one action per part of the program; the operators of `Compress` and `Decompress` are reused, because `test` repeats the code of `work` and of the handler. |
| `GeneratedTypes` | the classes of `compoundsuper.py` and `indexsuper.py` | one row per class: the attributes and child elements its `buildAttributes` and `buildChildren` keep, and how. All that the generated code decides is in these rows. |
| `GeneratedParser` | what the build methods have in common, the subclasses of `compound.py` and `index.py`, `text.py` | `Build` makes an object from an element by the row of its class; `docParaTypeSub` is the one subclass that builds more. It rests on the rows of `GeneratedTypes`. Operators only. |
| `GeneratedObjects` | the methods of `compound.py` and `index.py` that look something up in what was parsed | `Find`, `find_members` and `find_compounds_and_members` as in the code. They recurse nowhere, so that `DoxyXml`, which is proved about, can stand on them and not on the parser. Operators only. |
| `DoxyXml` | `base.py`, `doxyindex.py` | the objects are records in `heap`, each method is an operator from a heap to a new heap, a value and an exception; what an exception interrupts keeps what was done before. A loop is the operator `Loop`, a recursive function over the list. The actions are a client's calls of the methods on any object it knows (`ClientInit`, `ClientNext`, `ClientSpec`). The index is read by `ParseTop` and every other object by `ParseCompound`: reading the index reads headers and namespaces, and they never read the index, which counts as parsed from its first step on. The parameter `Projects` holds what `parse` makes of the outputs of Doxygen that are considered. |
| `UpdatePydoc` | `update_pydoc.py` | one operator per function, `Do2` and `Do4` string together the assignments of a function body. `Scrape` is one process, `sub_docstring_in_pydoc_h` a step per template, in the order `glob` happens to give, `copy_docstring_templates` likewise. |
| `SwigDoc` | `swig_doc.py` | what differs from `UpdatePydoc`; the copied parts are mapped to both files. |
| `Bindings` | `header_utils.py`, `bind_oot_file.py` | a comment block is a function from tags to texts. The developer's edits and cmake's three ways (`UseBinding`, `Regenerate`, `OutOfSync`) are actions. |
| `..._proofs` | | theorems, see section 5. |
| `MC...` | | instances for TLC: a sender or an application where one is needed, and history variables. |

Some definitions are preceded by one whose name has a suffix (`BlockReady_TooSoon`)
and whose comment says "mutant" or "Mutation": the same code with a plausible bug. They are used
nowhere in the specification. `PROJECT.json` names for every property of a passing run
one of them under which TLC finds the property violated.

### What is abstracted

* Compression itself. A frame of a block may have any size from 1 to the bound;
  `CompressBound(n)` is `n + Overhead`, where libzstd adds a term that grows slowly with
  `n`: both are positive, above `n` and never fall as `n` grows.
* Damage of a block in transit or in a file is a frame that is cut short, a frame that
  does not decompress, or missing metadata, rather than every possible byte string.
* Logging and the verbose counters.
* Numbers outside their range: `BlockFitsHeader` assumes that a block and one call's
  input fit the 32-bit header. The constructor takes the block size as an `int`, and
  a scheduler request is a buffer of a few megabytes at most, so the build satisfies
  it. (The comments in `lib/compress_impl.cc` speak of `uint64_t` fields; the struct
  has `uint32_t`. Only the struct is modelled.)
* In `FileSink`, items of one byte, as every flowgraph of the repository uses it, and
  writes that succeed. In `FileSource`, the begin tag, `d_file_begin` and
  `d_repeat_cnt`, which have no effect on the output.
* In `FileSource`, what `seek`, `open` and `close` do is one step each. `seek` reads `d_fp`
  and then uses it; if `d_fp` is closed in between, the whole `seek` can as well fall
  between that `fclose` and the replacement, where the model has it use the closed
  stream. `open` and `close` exclude `do_update` by `fp_mutex`; the test of `d_updated`,
  which comes before the lock, is joined with the `fclose` behind it, because a call
  between the two has the effect of one before both. `stop` takes no lock. A call that
  falls between its test of `d_new_fp` and the reset of it closes the stream that `stop` has
  closed, or takes it away so that `stop` closes it twice or a null pointer: `ClosedTwice`
  stands for all of these. Any other overlap leaves what the call leaves before or
  after one of the steps of `stop`.
* In the documentation modules, a text is a sequence of words. Layout (`strip`, blank
  lines, indentation) is left out, and so are CDATA sections, which Doxygen does not
  write where the programs read, and the conversion of some attributes to integers.
  Every compound that is looked at has a brief and a detailed description, as Doxygen
  writes them. Names with characters that have a meaning in a regular expression do not
  occur. A file is read whole or not at all.
* In `Bindings`, the text of a header is its version, and versions have different hashes.
* In `Packed12`, floating point is exact. A component is given as an integer `t`
  with `x = t / 4095 - 1`, so the model has the codes and the points half way between.

### External parts

GNU Radio is modelled from how the blocks use it: `work` is called with any number of
items up to a bound, a mailbox is an unbounded FIFO, `stop` is called once the
thread has ended and `Start` may follow. What `new`, stdio and `fread` do is modelled
where the blocks depend on it.

Python's strings, dictionaries and regular expressions (`Split`, `Join`, `Update`,
`Unescaped`, `LeadingWord`) are modelled by what they do with the words that occur. cmake's
part in `Bindings` is that of GNU Radio's GrPybind, and what a generated file looks like
is bindtool's; the developer who edits header, code, hash, flags and tags is the
environment.

The model of the documentation programs was compared with the programs: the nine
documents of `MCDocs` were written out as XML, `scrape`, `sub` and `swig_doc.py` were
run on them, and dictionaries, headers, `docstring_status`, interface files and
exceptions were the model's in all 18 cases.

## 3. Runs

| run | question | result |
|---|---|---|
| `compress` | do the block's cuts, sizes and buffers hold for every sequence of calls, stops and restarts? | pass |
| `decompress` | do intact blocks survive between spoilt ones and over restarts; are both outputs equal; does the block drain? | pass |
| `message_path` | do the two blocks in threads of their own implement a pipe, and how much do they hold back? | pass |
| `stream_link` | do the converters implement a FIFO however the calls cut the stream? | pass |
| `file_sink` | what is in the file at any moment, killed or not? | pass |
| `file_sink_close` | does output go where `open` and `close` say? | violated |
| `file_source` | does the source play whole blocks in order, under concurrent `open`, `close`, `seek`; does it end or go on; what can make it fault? | pass |
| `file_source_tail` | is everything in the file delivered? | violated |
| `file_source_seek` | does `seek` take a sample offset? | violated |
| `packed12` | which code is restored, for every component in and out of range? | pass |
| `test_program` | for which files does the test program's round trip work? | pass |
| `docs` | do the docstrings say what the XML says, whatever was asked before and by whichever program; does a binding follow its header? | pass |

### Bounds, and why they are enough

* `compress`: items of 2 bytes, blocks of 3, calls of 1 or 2 items, 10 bytes in all.
  A block then never falls on an item boundary, one call can bring more than a block,
  and three blocks follow one another, so every buffer is replaced and reused.
  `WordSize` 9 is just large enough for `BlockFitsHeader`.
* `decompress`: blocks of 1 to 3 bytes, items of 2, 5 bytes in all, first buffer of 1
  byte: blocks end inside items, the buffer grows, a spoilt block lies between two
  intact ones. Every block of it may have a header or not.
* `message_path`: item sizes 1 and 2, blocks of 3, 12 bytes in all: four blocks in flight
  at once, with all of compress buffer, mailbox, `byteQueue` and output occupied, and a
  stop of either block in each such state.
* `stream_link`: headers of 2 bytes, frames of 1 or 2, calls of up to 4 bytes, three
  messages: a record is cut at each of its places, and one call can complete two.
* `file_sink`: two files, two messages with or without a header, two calls of the
  application, a file that is appended to or truncated.
* `file_source`: two files, as layouts of records (`MCLayouts`). The first takes each of
  three shapes (whole records; a record that does not decompress between good ones and one
  cut within its frame at the end; one record, cut within its header). Requests of 1 or 2 bytes, two calls of the application
  or restarts at any step; a `seek` goes one item back or forth from the beginning, from
  where the stream is or from the end, so that it fails before the file, stops within a
  header or a frame, and goes behind the end. `BufferSize` 2 makes the larger records replace
  buffers.
* `packed12`: one component takes every value from -600 to 8800, well beyond both ends
  of the range 0..8190; the other the values around its bit fields. What one component
  contributes to the bytes does not depend on the other, and section 5 proves the
  properties for all values.
* `test_program`: files of 0 to 6 bytes, blocks of 5, four calls: files smaller than,
  equal to and larger than a block, small files of which two or three make a block, and
  files so small that no block is made before the calls end. As in the program, the
  buffer that is timed is as long as a block.

* `docs`: nine outputs of Doxygen of two to five compounds each. Four are what Doxygen
  writes for this repository's kind of code (a block of today, a block of old with a group
  and a malformed class, names and texts that the substitution may get wrong, a text that
  begins with digits); five are flawed in one way each. Four calls of a client in any
  order, on any object it has come by: enough to build a cache on one object after
  another was half read. Header versions up to 4, flags 0, 1 and true. A behaviour
  is a client, `scrape`, `sub` and then `swig_doc.py`, a `copy`, or cmake at a binding: each
  process begins with objects of its own, so the kinds of behaviour add their states and do
  not multiply them.

`CHECK_DEADLOCK FALSE` is in the configurations of systems that really stop: the
compress block alone when the input bound is reached and it has faulted, the file
blocks after the end of the process or of the calls, the conversion of one sample, the
end of the test program and of the documentation programs. The composed systems are checked for deadlock.

### The properties

* `NoFaultBeforeStop`, `NeverOverruns`, `NoFault`, `FaultsOnlyBy`, `BuffersHold`: the
  hand-made buffer management. The way to a fault that remains is a block that is
  started again after `stop` has freed its buffers; in the file source also a call of
  the application while a stream is closed and not replaced, or a `seek` without a file.
* `Partition`, `InOrder`, `IntactBlocksSurvive`, `PlaysInOrder`, `FileIsChain`: no byte is
  lost, repeated or moved. `InOrder` states it for all places a byte can be in at once.
* `PipeSpec`, `FifoSpec`: the two refinements.
* `BlockSizes`, `MetadataExact`, `MessagesMatchStream`, `InStep`: what one part says of the
  data agrees with the data.
* `HoldsBackLittle`, `Drains`, `AllArrive`, `LosesLessThanACall`, `Durable`, `Finishes`,
  `KeepsPlaying`: what must have arrived in the end or survive a crash.
* `ThrowsOnlyWhenClosed`, `NoStreamLeaks`: sequences of calls.
* `NearestOrWrapped`, `NoDrift`, `RoundTrip`: conversions there and back.
* `LazinessHidden`: an object that was read has all the members of its file or of the index,
  in their order and one of each name (`MembersComplete`), and a cache holds what would be
  found anew (`CachesTrue`), after any sequence of calls, exceptions included. The members of
  an index whose reading an exception ended are not spoken of: they never become complete.
* `DocstringsAsWritten`, `SwigAgrees`: the dictionary against the documents, and the
  second program against the first. What the documents call for is defined in `MCDocs`
  from the XML alone, without the parser and the objects.
* `PlaceholdersFilled`: what is in the headers at the end, through both escapes.
* `FoundWhereListed`: the parser keeps what the documents list, so that the members of
  `LazinessHidden` are those of the documents (`MembersAsWritten`); and the index and the
  files agree under the two ways of searching.
* `NeverStale`: a binding and its header over any edits and runs of cmake.

### Fairness

The scheduler's thread of a block runs its handlers while messages wait and calls
`work` again as long as there is input or room. That is weak fairness of the handler and
of `work` of the receiving block. Nothing is assumed of the source of a stream or of
the application, and nothing of `Stop` and `Start`: `Drains`, `HoldsBackLittle` and
`AllArrive` therefore say what happens if the receiver is in the end left running.
For the file source, a call of `work` goes on to its end and is followed by another,
until the block ends; `Finishes` and `KeepsPlaying` depend on no more than that.

## 4. What the code does otherwise than it says

1. `file_sink_close`: `include/compress/file_sink_base.h:51-60` has `open` begin output to
   the file it names and `close` stop output until the next `open`. Both only take effect
   in `do_update`, which the sink's handler never calls.
2. `file_source_tail`: `work` returns "done" at the end of the file although `byteQueue`
   still holds data when less is left than was asked for.
3. `file_source_seek`: `include/compress/CompressedFileSource.h` documents `seek_point` as
   a sample offset; it is used as an offset in the compressed file.

Seen while modelling and not the subject of a run:

* `grc/compress_Packed12ToComplex.block.yml:20` says that the block "reverses the
  ComplexToPacked12 process". A component below -1 does not come back near -1:
  `lib/ComplexToPacked12_impl.cc:76-77` limits codes with `std::min` only, so a negative code
  loses its bits above the twelfth and wraps. The component just below -1 comes back
  as 1. One above 1 is limited. `NearestOrWrapped` says what comes back in each case.
* `CompressedFileSource_impl::seek` takes no lock and does not test `d_fp`: it uses a closed
  stream when it falls between lines 190 and 192 of `do_update` or 101 and 102 of `stop`, and
  a null pointer without a file. `stop` takes no lock either, so that with an `open` or a
  `close` between lines 105 and 107 `d_new_fp` is closed twice or is null when it is closed. `FaultsOnlyBy` lists these
  cases and says that there are no others in a block that was not restarted.
* `seek` behind the end of the file succeeds; the next call of `work` takes it for the end,
  and ends or goes back to the first record.
* The blocks free in `stop` what only the constructor makes: a compress block or a file
  source that is started again faults (`NoFault`, `FaultsOnlyBy`).
* `lib/decompress_impl.cc:92` tests for a result above the expected size, prints an error
  and returns. The wrapper returns 0 for every error (`lib/ZStdDecompressor.cc:29`), so
  that branch is dead; a block that is not compressed data is published as an empty
  message when `sendMsg` is set.
* `docs/doxygen/update_pydoc.py:290` puts the docstring behind `\1` in the replacement of
  a regular expression. A docstring that begins with two octal digits ("12-bit ...")
  makes `\112`, the character J: the placeholder's name is lost and the status says PASS,
  where the comment of line 293 intends to "just leave the docstring blank".
  `PlaceholdersFilled` has this case as its exception. Other leading digits give FAIL
  and a blank.
* doxyxml never finds a class by a qualified name (`gr::compress::compress`): the index
  names it so, and `get_member` looks up the part before the first `::`. An object made
  from a refid that the index does not list raises `AttributeError` when asked for its
  name. (`DoxyXml` has the index read first when it is asked for its name; in the code that
  raises `AttributeError` at once. No program asks.)
* `timeCompression` prints "all 0's" of a buffer that nothing has written; `RoundTrip`
  shows that the test program can only succeed with a file of at least 64000 bytes.

## 5. Proofs

TLAPS checks theorems of ten specifications, for all values of the constants that
satisfy the named assumptions (`ZStdAssumption`, `CompressAssumption` with
`BlockFitsHeader`, `DecompressAssumption`, `PathAssumption`, `StreamLinkAssumption`,
`Packed12Assumption`, `TestProgramAssumption`, `FileSinkAssumption`,
`FileSourceAssumption`, `LayoutsAssumption`, `ProjectsAssumption`, `WantedAssumption`; each is
evaluated by TLC on the runs). Where a run fixes
`FrameLen`, the length of a frame, or the largest block `MaxBlock`, the theorem holds for
every positive length and every bound.

*ZStd_proofs.* What runs of consecutive bytes are when they are concatenated or cut,
what a receiver decompresses a message to (`BlockMessagePayload`, `DecompressBounded`), and
how a chain of messages grows at its end and shrinks at its head (`ChainAppend`,
`ChainTail`). `FlattenSeq`, in which the properties say what a sequence of blocks or of
records amounts to, is recursive in its library. `SetInduction` replaces the induction
theorems of the prover's library: it speaks of the set of the numbers for which something
holds, and so needs no operator as a parameter. With it `FlattensExists` shows that the
recursive function in `FlattenSeq` exists, and `FlattenAppend` what one element more adds.

*Compress_proofs.* The inductive invariant `IndInv` is the conjunction of the checked
invariants `TypeOK`, `NoFaultBeforeStop`, `Partition`, `BlockSizes` and `MetadataExact`.
None is inductive alone: that a copy stays in its buffer needs the sizes to be true,
that the next message starts where the last one ended needs the waiting bytes to be
the right ones, and that those are all there needs the buffer safety. `SafeBeforeStop`
shows that the guard of `WorkFault` is false while `pCompressor` is there; `CollectStep`
and `PublishStep` are the two steps of `work`.

*Decompress_proofs.* The block on its own, with intact and spoilt messages, stops and
starts. `IndInv` joins the types, `NeverOverruns`, `MessagesMatchStream` and
`OrderInv`: the bytes that were queued come before those that wait, which come in the order
of their messages, and together they are those of the intact blocks. That no copy leaves its buffer needs that
`Decompress` returns at most what the header announced (`DecompressBounded`), also for a
block whose header lies. `IntactBlocksSurvive` and `MessagesMatchStream` follow.

*MessagePath_proofs.* `IndInv` consists of `TypeOK`, `InOrder`, `NoFault` and the facts
about the compress block's buffers and the messages in the mailbox (`MailBounded`) that
keep those inductive: a message in flight announces exactly its content, so that the
handler takes the branch without an error and writes inside its buffer. From it follow
type correctness, `InOrder`, `NoFault`, and `ImplementsPipe`: every step of the two
blocks is a step of `BytePipe` or leaves it unchanged. `Work` of the decompress block is
`Deliver`, a call of `work` of the compress block is `Accept`, all others stutter.

*StreamLink_proofs.* That the two stream blocks implement `MessageFifo` (`ImplementsFifo`), and
`InStep` (`ParserInStep`), for every length of the header, sizes of messages and calls, and
stops and starts of the receiver. `InStep` speaks of the front of `receiveQueue` only, so it
is not inductive. `IndInv` speaks of the whole sequence `T` of bytes that the sending handler
ever queued, and the offset of each record in it: the records lie in `T` one behind the
other (`Laid`), and `receiveQueue`, `stream` and `sendQueue` are windows of `T` side by side,
from where the parser stands to the end (`InTransit`). `T` only grows, at its end, so that a
step is a cut or a join of windows (`WindowCut`, `WindowJoin`). `T` and the offsets are no
variables of the code; the invariant says that they exist. A header is read from the next
record because the parser stands at an offset, or behind the header that it holds
(`HeldInv`). That each message fits the header's fields comes from
`StreamLinkAssumption`.

*FileSink_proofs.* For every number of files, messages and calls: type correctness,
`NoStreamLeaks` (theorem `StreamsAccounted`), `FileIsChain` (`FileIsAlwaysAChain`) and
`Durable` (`HandledIsDurable`). The open streams are those that `d_fp` and `d_new_fp` point
to, which are different ones, unless the process or the object has ended; a step that
drops a pointer without closing its stream would break it. Alone that is not inductive:
`IndInv` adds what the flags can be, that both pointers are streams or null, and that a
stream which waits to be installed has nothing in its buffer. What is in the files needs
more, `ChainInv`: unless the file has been truncated, it and what its stream still buffers
are together what was there before and the records handled since, one behind the other
(`Whole`); the stream writes at the end of the file (`AtEnd`); and the messages that wait
are such that the handler writes just their record (`Proper`). `FrameLen` is assumed to be a positive number, as the runs have it.

*FileSource_proofs.* Type correctness and `NoStreamLeaks` (theorem `StreamsAccounted`). Here
`IndInv` also knows where a call of `work` or `stop` stands: which stream is closed and not
yet replaced, that `d_fp` is not null from `Lock` on, and that there is a stream to clear
in `StopFree`. A position can be any number, also one behind the end, where `fread` yields
nothing (`FreadPart`). Theorem `FaultsExplained` is `FaultsOnlyBy`: whatever undefined
behaviour is reached comes of a `seek` without a stream that can be used, of a call in the
middle of `stop`, or of a restart. It needs `RoomInv`: a block that was never
stopped has room for a header in its read buffer (`FaultInv` is the conjunction). Theorem `ThrowsForLackOfFile` is the action
property `ThrowsOnlyWhenClosed`; `OpenInv` says that after a call of `open` that succeeded,
and until another call or a stop takes it away, `do_update` leaves a file in `d_fp`.

`PlaysInOrder` (`BlocksInOrder`) and `LosesLessThanACall` (`EndsWithinACall`) are proved for
files of any number of records of one frame length, of which some do not decompress and the
last may be cut anywhere:
`LayoutsAssumption` asks that sizes fit the header and that the bytes of all blocks have
different numbers, by which the properties tell the blocks apart. `FilesMade` derives where
each byte of a file lies (`FileOf`). Neither property is inductive, because neither says
where the stream stands. `PositionInv` says it while `seek` has not been called: there is a
number k of records that the stream has left behind (`Behind`; `header` then is the one of
the next record), and that the stream stands in the file, and `Ready` relates k to what has been played: the good blocks among the
k are in it, and the next one may follow the last. At the end of a file k is the number of
its records, although fewer may be whole, since behind a short read there is no good one
(`NothingBehind`). After a `seek` the stream may stand anywhere; then `FrameFound` shows that
bytes which decompress are the frame of a whole record, wherever they were read, and so
`BlockJoins` needs no position. `RequestInv` bounds what the last call gives up by the
request, and `WaitingInv` says that a stream that waits to be installed is at its beginning.

*Standalone_proofs.* The blocks of 12 bits, the test program, the bindings and doxyxml, in
one module.
`Packed12`: `BitFields` splits an integer into bit fields, `UnpackPack` shows that unpacking
returns both codes modulo 2^12, `CodeNearest` which code a
component has: up to 1 the nearest one, of 12 bits from -1 up and negative or 0 below, and
above 1 the largest of 12 bits. `Wrapped` shows what becomes of a code that loses its upper
bits. The invariant ties `packed` and `restored` to the codes of the sample, and type
correctness, `NearestOrWrapped` and `NoDrift` follow.

The test program: `BuffersHold` and `RoundTrip`, for every size of file, block and buffer that
`TestProgramAssumption` allows. `TestInv` adds to them that before the file is read
nothing has been collected or noted (`IdleInv`), and that what has been noted is the frame
of one file of a block or more, that of more than one smaller file, or nothing (`FrameInv`).
`BlockIsSafe` shows that what the program compresses fits the buffers it has made for it.

`Bindings`: `NeverStale` (theorem `Fresh`) for any number of versions of the header.
The parts of `FreshInv`: the code of the binding is of a header that existed; a binding that
is wanted automatic has flags that are read as such and names its header, so that
`OutOfSync` cannot take it; and a hash that equals the header's stands beside that
header's code, unless somebody noted it by hand.

doxyxml: `LazinessHidden` (theorem `LazinessNeverShows`) and `RefidsIdentify`, for every set
of outputs of Doxygen that `ProjectsAssumption` allows, sound or flawed, of any size, and any
number of calls in any order. The assumption asks that no file is both well-formed and
malformed, that the lists of an element are sequences, that each compound has one entry in
the index, and that no refid is an inner group in one place and an inner class in another. An
object is found by its refid whatever its class is, so without the last two one object would
have to stand for two.

The inductive invariant `DocInv` says three things of the heap between two calls. It is well
formed (`WellFormed`): members are objects of the heap or `None`, the table of refids leads
to the object that has the refid, and each object was made from an entry of the index that a
reader comes to, from a group, or from a memberdef of a file; one that was made from a group
has a refid that no entry has. Every object is as it should be (`Good`): one that has not
been read has no members, no error and no caches; one that has been read is complete, and its
caches are true. And before the index is read there is no object but the index; from then on
its entries are known. This is why a group that is read later shows an inner class by its
name: the object is already there.

Within a call objects are half read, and the methods call one another. So the lemmas about
the methods speak of a heap that is well formed and in which all objects but those of a set
`X` are good (`AllGood`): what is being read is in `X`. `Grown` says what a method leaves
alone: only one object has changed, the others are as they were, there may be new ones, every
object keeps its class and its origin, and the table only grows. `GoodKept` carries `Good` of
an object over the reading of others, because names and classes of members never change. The
exception that stops a method is a field of its result, and its heap satisfies the same as
one without. `Loop` is a recursive function: `RunsExist` shows with `SetInduction` that it
exists, `RunsAreLoops` what it comes to after each pass. The loops of the methods are stated
by what they have made of the part of the list they have gone through: `DefsAdded` for
memberdefs, `InnerAdded` for groups, `Stage` for the index, `DictStage` for a dictionary. TLC
evaluated `DocInv` as an invariant of the run `docs` before it was proved.

Only model-checked: `DocstringsAsWritten`, `PlaceholdersFilled`, `FoundWhereListed` and
`SwigAgrees`, and every liveness property. Liveness under fairness and ENABLED are outside
what this prover does. The four invariants compare what comes out with what is in a document,
through the parser, which recurses over elements of any depth, and through the escapes and
patterns of `UpdatePydoc`: RECURSIVE operators, which the prover's SMT backend does not
accept, and what they compute needs induction over data.

## 6. Plan

Done: everything above, in this order: `ZStd`, `Compress`, `Decompress`, `MessagePath` with
its refinement, `StreamLink` with its refinement, `FileSink`, `FileSource`, proofs of
`Compress` and `MessagePath`, `Packed12` with its proofs, `TestProgram`; the documentation
programs from the parser up, `Bindings` with its proofs, proofs of `FileSink`,
`FileSource` and `StreamLink`; proofs of `Decompress`, of the files' content in `FileSink`, of
`TestProgram` and of what `FileSource` plays; `DoxyXml` without RECURSIVE operators, apart from the
parser, and its proofs.

Next:

1. `FilePath`: a sink that is killed or destroyed at any moment, its file read by a
   source: what is played is a prefix of what was sent, and how much is missing. The
   sink's own properties can then be checked in that run.
2. `UpdatePydoc` with a parameter for the texts it reads, in place of the parser's
   `description`, so that `SwigAgrees` (two copies of one program) could be proved without
   what either computes.

## 7. Not modelled

The GRC block descriptions, the build files, the pybind11 glue and the package's
`__init__`: they keep no state and take no decisions of their own.

Of the generated parser, everything that writes: `export`, `exportLiteral` and their
helpers, which are most of its lines, and `main` and `parseString` of the superclasses;
nothing in the repository calls them. Of the options of the programs, `custom_output`,
which no caller passes.

`set_begin_tag` of the file source, whose effect nothing reads. Items of the file sink of
more than one byte. libzstd and GNU Radio appear as sections 2 and 3 describe them.
