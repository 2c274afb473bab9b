# A verification of minidump-2-core

`minidump-2-core` (crate `minidump2core`) turns a Breakpad minidump of a Linux process into an ELF
core file that a debugger can load.  The program is sequential: it reads the whole minidump, builds
one in-memory process, adds to its memory, and writes the core in one pass.  What is hard in it is
not concurrency but *agreement*: between three readers that describe the same addresses, between
many injections that cut and refill the same table, between pointers computed before the bytes they
point at exist, and between headers written before the data they announce.  This directory models
those agreements in TLA+, checks them with TLC on small instances and proves the central ones with
TLAPS for all values of the constants.

Paths below are relative to the repository; `src/src/` holds the crate.

## 1. Inventory

| Component | Source | State | Operations | What makes it correct |
|---|---|---|---|---|
| Mapping table | `model.rs`, `augment.rs:22-75` | `CrashedProcess::mappings`, a `BTreeMap` from start address to `Mapping` | `insert_mapping`, `insert_mapping_if_absent`, `add_data_to_mapping` | disjoint segments, data inside its segment and on whole pages, no injected byte lost, no file position moved |
| Augmentation | `augment.rs:86-213` | the process, position in the pipeline | stack loop, gate on debug data, link map, `patch_dt_debug`, dynamic section | every stack is in the table; dynamic section -> `DT_DEBUG` -> r_debug -> link map holds |
| Link map rebuild | `augment.rs:215-327` | the growing byte vector | r_debug header, one turn per shared object | forward and backward walk, terminated names, alignment, 32-bit range |
| Core writer | `core_writer.rs:26-143`, `elf.rs` | bytes written, running offsets | layout, sum, headers, notes, pad, data | the headers announce where the bytes went; parts do not overlap |
| Note segment | `core_writer.rs:149-215`, `notes.rs`, `regs.rs` | notes so far, thread order | process notes, `NT_FILE`, reordering, notes per thread | signal and registers belong to their thread; no thread lost or repeated; every note can be reached |
| Minidump reader | `rust_minidump.rs` | the process under construction | one step per stream, module loop, syntheses, link map records, three scans of ELF files | no module replaces a maps line; what stands in for a missing stream is consistent; of a cut link map every whole record is read; a refusal has a named reason; the table is fit for injection |
| Maps text parser | `linux_maps.rs` | none | parse a line | all lines or none |
| Register tables | `regs.rs` | none | context to bytes | layout |
| Program | `main.rs` | output file, write buffer | read, augment, open, write, flush, exit | captured bytes are in the file; the exit code tells what became of the output; it ends |
| Errors, library surface | `error.rs`, `lib.rs` | none | | |

How they interact.  `main::run` calls `read_process_from_path`, `augment_process` and `write_core`
in this order and stops at the first error.  The reader fills the table with `insert_mapping` (maps
text, also when it arrives in the auxv stream) and `insert_mapping_if_absent` (modules), and collects
threads, the exception, the auxiliary vector and `DsoDebug`.  The augmentation changes only the
table, through `add_data_to_mapping`.  The writer reads the process and changes nothing.  The link
map names come from `signatures`, which the module loop filled.  There are no threads, callbacks,
timeouts or retries; the only environment is the file system (the executables and libraries may be
on this disk, be other versions, or be cut short) and the output (opening, any write and the flush may
fail).

Hard behaviours, each listed at its line under `hazards` in `PROJECT.json`: sequences of splits and
refills, page and 64-bit boundary arithmetic with checked and unchecked steps side by side, the
half-done split when an overflow check fires, forward and backward pointers computed from different
copies of a name length, headers before data, thread reordering by id, fallbacks between streams, one
load displacement computed in three places, records a file cuts, a buffer that holds the end of the core.

## 2. Modules

| Module | Models | Role |
|---|---|---|
| `PageArith` | `align_up`, `align_down`, `padded_vec`, u64 | arithmetic shared by all |
| `MemoryImage` | - | abstract specification: memory as an array over addresses |
| `MappingTable` | the table and its three operations | core component; `LibrarySpec` and `Spec` |
| `Augment` | `augment_process` | composes `MappingTable` (EXTENDS) with the pipeline |
| `LinkMap` | `build_link_map_blob` | component |
| `CoreWriter` | `write_core` | component |
| `Filter` | loops that keep the elements of a list that pass a test | operator of `Notes` and `Ingest` |
| `Notes` | `build_note_segment`, `write_thread_notes` | component |
| `ElfScan` | `elf_dynamic_runtime_addr`, `read_executable_dynamic`, `build_synthetic_auxv` | operators on ELF files |
| `DsoStream` | `parse_dso_debug`, `read_link_map_*`, `read_md_ascii_string` | operators on one stream |
| `Ingest` | `read_process_from_minidump` | composes `MappingTable` and `ElfScan` (EXTENDS) and `DsoStream` (INSTANCE) with the readers |
| `Convert` | `main.rs` | composes `Augment` (EXTENDS) with `CoreWriter` (INSTANCE), the output and its buffer |
| `MC*` | - | constants for TLC |
| `PageArithProofs`, `FilterProofs` | - | lemmas on operators |
| `MappingTableProofs`, `LinkMapProofs`, `CoreWriterProofs`, `NotesProofs`, `IngestProofs` | - | theorems about the component of that name |
| `ConvertProofs` | - | theorems about `Augment` and `Convert` |

**PageArith.**  `Addr == 0..MaxAddr` is `u64`; `MaxAddr + 1` is a whole number of pages, as `2^64`
is.  Checked additions are written without wrap and compared with `MaxAddr` by the caller, as the
code does; the one unchecked subtraction on the way (`aligned_address - key`) is `WrapSub`.

**MappingTable.**  `mappings` is a function from addresses to a mapping or `Absent`.  A data vector is
`[src, prefix, len]`: `prefix` zeros, `len` bytes of source `src`, zeros up to a page, so the length of
the real vector is `DataLen` and byte *i* of which blob stands at which address is all that is kept.
`SplitMapping`, `RefillMapping` and `SynthesizeMapping` are the three exits of
`add_data_to_mapping`; the order inside the split (cut first, then the checked offset) is kept, so
a failing split leaves the table with the front part cut, as the code does.  `status` is
the return value; `"panic"` is what a build with overflow checks does.  `imported` and `captured`
are history variables used by properties and by the assumptions on a live dump only.
Two specifications share the actions.  `LibrarySpec` calls them in any order, with every mapping that
`Mapping::new` can make (not empty, no data yet; unaligned and overlapping ones too) and every blob; what a
caller could do to the table through `mappings_mut` is left out.  `Spec` is what the pipeline does on the
dump of a live process.  The assumptions of `Spec` are
`LiveImport` and `LiveCapture`: whole-page disjoint regions whose file positions do not overflow, a
repeated region allowed; non-empty blobs that share no page, each inside one region or outside all of
them.  That the pipeline keeps to them is the property `UsesTableAsLive` of `Augment`, checked on its
dumps and proved from `LiveDump`, and the run `augment_doc` shows what happens when they fail.
`InvertedOffPage` says of every use of the library which tables can hold an inverted mapping, whose
`p_memsz` the writer would wrap: those that were given a mapping which begins off a page.

**MemoryImage.**  What the table promises without keys or splits: each address has a backing (a
position of a file, anonymous, nothing) and perhaps a byte.  A region is mapped; a capture
writes exactly its own pages.  `MappingTable!ImplementsMemoryImage` is the refinement: the mapping
reads both arrays through the segments that contain an address.

**Augment.**  `stage` and `turn` are the program counter of `augment_process` (and of the two reader loops
in front of it).  The gate (`version`, entries or dynamic bytes), the skip of empty stacks, the failure of
`build_link_map_blob` and the `?` after each injection are guards.  `EntryToPatch` is the search of
`patch_dt_debug` over the tags of whole entries; it is an operator and its result one step, as its `while`
loop has no state but a position that grows with each turn.  Some dumps have a region mapped at
`LINK_MAP_ADDR`, which the link map then splits; elsewhere it makes a mapping of its own.  `LiveDump(d)` says
of a dump alone, not of the order in which it is processed, what makes it one of a live process: its regions
(a module that starts where a maps line does adds none) are whole pages and disjoint or equal, its blobs
share no page and lie inside one region or outside all.  `LiveDumpsAreLive` and `DumpsAreLive` in
`MCAugment` and `MCConvert` have TLC evaluate it on the dumps of the runs.

**LinkMap.**  One action per loop turn.  A name is its length; the words of a record are numbers, as
the properties are about pointers.  `PrevAddr` keeps the code's form: computed backwards from the tail
of the data with the size of the previous *substituted* name.

**CoreWriter.**  One action per write.  `pos` is how many bytes have been written; `placed` and `sums`
are history.  `WriteFails` may happen at every write.  ELF32 refusals (`elf32_word`) are `RefusePhdr`, which
leaves the words in front of the refused one in the file (`BytesBeforeRefusal`);
an inverted mapping wraps (`WrapSub`) or ends the run, for both kinds of build.  Its inputs assume of
the table what `LibraryDataOnPages` proves of it: data starts on a page and fills pages.

**Notes.**  The notes as a sequence of records `type / thread / signal / context`; `CurSig` is the
clamp to 16 bits.  A context is the CPU it belongs to, and `ContextsOf` says which an architecture
accepts; another is an error.  `DescLen` and `NoteLen` give each note its length: the structures pad
to the word of the architecture, `Note::build` to 4.

**ElfScan.**  An ELF file is its entry point, `e_phoff` and its program headers; of a header the type,
`p_vaddr`, how far the file reaches into it, and whether the bytes it describes are there.  The three
scans differ in what they read of a header (`Scanned`), agree on the first `PT_LOAD` and the last
header of any other type, and return `None` for everything else (wrong class, unreadable header, a
base below `p_vaddr`, overflow).

**DsoStream.**  The header of the stream, and what lies at the position of the link map: records, the
last of which the file may cut.  The count in the header is any u32.  Before the first record is looked
for, memory for that many is reserved; up to `Reservable` records the allocator is sure to find it, above
it may refuse (`ReserveFails`), which ends the program: an abort, or a panic where the capacity overflows
the address space.  `RecordsRead` is the loop with its test against the end of the file;
were it too weak, `ReadFails` would be the error of the read behind it.

**Ingest.**  `stage` follows the order of the streams.  A stream is its parsed content, `Missing` or
`Unreadable` (only raw streams report that; typed ones that do not parse count as missing, as `get_stream`
is matched with `Err(_)`).  `Executable` and `ExecutableOnDisk` are the two ways the code looks for the main
executable, `LibraryFile` the search for a module's file (the name for the debugger, then its last component
in the system's directories).  `disk` is what this machine holds under each path.  `auxv`, `info` and
`dsoDebug` say where a field came from, and the last two addresses and the link map of a synthesis are those
the scans compute.  `Unconvertible` lists the reasons for which a minidump may be refused, the cut raw
stream, the cut maps line and the refused reservation among them; `CutLinkMapRead` says that a cut link map
is none, and what of it is read.  `MapsPreferred` is about maps text against the module list; which of two
*lines* for one address is kept is left open, as code and documentation disagree (section 5).
`LiveMinidump` is the assumption on a dump of a live process; `LiveRegions` shows that from it the readers
leave what `MappingTable!LiveImport` assumes.

**Filter.**  `Kept(s, K)` is the loop that copies to a new vector the elements of `s` that are in `K`,
a recursive function of the position: the threads other than the crashing one, the maps lines
with an absolute path.

**Convert.**  `phase` runs through `write_core` on the table that `Augment` left; `sink`, `output`,
`disk` and `exit` are the program's.  `disk` is how many bytes of the core have left the buffer: a
`BufWriter` is external and modelled by what it guarantees, which is that it holds back at most its
capacity, that `flush` writes the rest or reports an error, and that dropping it does neither reliably.
`Process` adds to the augmentation the ways the reader may fail.  `SegmentKeys` is the order in which a
`BTreeMap` yields its keys, by the rank of each.  `CapturedBytesInCore` is the
end-to-end statement: a debugger that looks up the address of a captured byte in the program headers
of a finished core finds that byte at that file position.

## 3. Runs

Sizes are TLC's distinct states.

| Run | States | What it shows |
|---|---|---|
| `table` | 5 716 | on live dumps, in every order: disjoint, data inside segments, bytes and file positions kept, also as `NT_FILE` tells them in pages, nothing refused, and the flat memory is implemented |
| `table_library` | 36 446 | the three operations in any order, aligned or not: typing, page discipline of data, and where an inverted mapping can come from, through panics, half splits and overlaps |
| `link_map` | 9 924 | the walk of a debugger in both directions, names, alignment, 32-bit failures |
| `writer` | 37 387 | headers announce what is written, for every point of failure |
| `notes` | 96 808 | ownership of registers and signal, no thread lost or repeated, every note reached by the lengths in its header |
| `notes_doc` | - | *violation*: signal on a thread that did not crash |
| `augment` | 51 504 | whole augmentations: no stack lost, the debugger's chain, table assumptions |
| `augment_doc` | - | *violation*: two stacks on one page |
| `ingest` | 19 711 | fallbacks between streams, the table fit for injection, one displacement told everywhere, a cut link map read up to the cut, every refusal for a named reason |
| `ingest_doc` | - | *violation*: two different main executables |
| `auxv_doc` | - | *violation*: `AT_PHDR` of an executable without `PT_PHDR` |
| `convert` | 10 508 | the whole program with every step failing: captured bytes end up in the core, the exit code tells what became of the output, it ends |

Bounds, and why they are enough.

* Pages of 2 bytes, 6 pages (10 in `augment`): the smallest page with an inner byte, so a blob
  can start on or off a page and end on or off one.  Two regions of one file plus the page below and
  behind them give all relations of a blob to a region: first page, later page, last page, outside
  below, outside above; 20 blobs in all orders give splits of split parts and refills of both halves.
  The second region ends at the last file position, so an offset moved too far is refused.
* `link_map`: two objects of all 12 kinds and three of the kinds around the padding boundary (7 and 8
  bytes); three is the smallest number with an inner record.  `Max32 = 256` with `Base = 64` puts long
  blobs and high addresses across the limit.
* `writer`: three segments of six shapes, which include all mixtures of empty and full segments;
  four exceed `MaxPhnum = 4`.  Note lengths put the end of the notes before, on and behind a page.
* `notes`: three threads of two ids, a crashing id that is listed once, twice or not; vectors and file
  names whose length is and is not a multiple of 4.
* `augment`: two stacks (in one region, at its end, outside, empty), five tag lists, both sides of
  every gate, a region in the place of the link map.
* `ingest`: families of minidumps, each varying all the streams one question depends on, over
  one plain minidump (streams present or not; modules inside, across and beside listed regions;
  executables and libraries with headers in every order, cut, of the other class, linked at zero or
  above; link map records that are whole, cut, fewer or more than claimed); varying all of them together
  multiplies states but no new decision depends on two families.  `MaxAddr = 11` and `Max32 = 9` let
  both the 64-bit sum and the 32-bit vector overflow.  Link maps claim 0 to 3 records and hold 0 to 2;
  `Reservable = 2`, so a count of 3 may be refused or read.
* `convert`: one to five segments, so `MaxPhnum = 5` is crossed; `Max32 = 350` refuses some ELF32
  offsets in the middle of the headers; notes of 3 and 160 bytes and a buffer of 100 make a write that
  fits the buffer, one that empties it and one that goes around it.

`CHECK_DEADLOCK FALSE` is set because every one of these systems is a program that ends.

Fairness: `WF(ConvertNext)` for `Exits`, the one liveness property, justified because one
thread runs the program and no call of it waits for another (a write to a pipe that nobody reads is
the caller's matter).  The other specifications have safety properties only and state none.

## 4. What is proved

Every theorem is checked by `tlapm` for all values of the constants, from the named assumptions of the
modules, which TLC evaluates in every run:

* `PageArithAssumption`: a positive page size that divides the address space;
* `TableAssumption`, `LinkMapAssumption`, `NotesAssumption`, `ElfScanAssumption`, `IngestAssumption`,
  `ConvertAssumption`: the inputs have their types, and the values that stand for "none" are none of the
  others; the link map's base is aligned to 8 bytes; without an exception stream there is no fatal
  signal and no exception context; a path names one file of the disk;
* `WriterAssumption`: data starts on a page and fills pages.  `ConvertProofs` discharges it (below);
* `AugmentAssumption`: LINK_MAP_ADDR is on a page, and each blob has a source of its own.  A source is
  the name a model gives to bytes in order to follow them, so the last is not a restriction on dumps.

Where a theorem needs a dump of a live process, that is a hypothesis on the minidump
(`LiveMinidump`) or the dump (`LiveDump(dump)`) alone.

**The table** (`PageArithProofs`, `MappingTableProofs`).  `LibraryTypeOK` and `LibraryDataOnPages` hold for
every sequence of calls on the inputs of `LibrarySpec`; both are inductive together.  So is
`LibraryInvertedOffPage`: the front part of a split begins where its mapping did and ends at a page above
it, the back part begins at that page and ends where the mapping did.  For `Spec` the invariant is
`LiveInv`, and from it `LiveDisjointMappings`, `LiveAccepted`, `LiveSegmentFits`, `LiveCapturesKept`,
`LiveBackingKept`, `LiveFileNoteKept`.  None of these is inductive: that a cut leaves data inside its
mapping depends on where all earlier cuts were.  `LiveInv` therefore says where every entry comes from:
it is a piece of one region with that region's file position, it ends where the region ends or where the
page of a blob begins, and it carries no data or the data of the one blob whose page it starts at and
whose pages it contains; or it is the synthetic home of a blob outside all regions.  Regions are covered
and every blob is held.  The step lemmas follow the code: the readers, the refill, the split (front,
back, the others), the synthesis.  `LiveMemoryImage` is the refinement: each of these steps, seen through
the entry that contains an address, maps a region, dumps a capture, or changes nothing.

**The link map** (`LinkMapProofs`).  `LinkMapLoop` is the loop invariant (where each record stands, and
that the next one will begin at the end of the data, which is where `l_next` of the last record points
already); `LinkMapTypeOK`, `LinkMapForward`, `LinkMapBackward` and `LinkMapLaidOut` follow, for any number
of objects and any names.

**The writer** (`CoreWriterProofs`).  `WriterInvariant` relates the three walks through the history of
partial sums (`sums[i]` is the data before segment *i*): the walk that announces has reached
`LoadStart + sums[walk]`, and so has the walk that writes.  From it follow all six properties of the run.
The proof assumes nothing on the segments' ranges, so it holds for inverted ones too.

**The notes** (`FilterProofs`, `NotesProofs`).  `NotesInv` says that the status notes are those the turns of
the loop made, in the order of the turns, each with the signal and context of its turn; `RegistersBelong`
is a conjunct of it because the last status decides what the next register note belongs to.
`KeptPlaces` says of the loop that moves the crashing thread to the front what it keeps and where each
element goes; with it `NotesEachThreadOnce` and `NotesCrashOnItsThread` are statements about the process's
thread list, of any length.  `NotesReachedInvariant` needs that a note's length is a multiple of 4 whatever
its descriptor.

**The readers** (`IngestProofs`).  `IngestInv` has for every entry of the table the line or module it was
made from (`FromLine`: the last of the lines read so far with that start; `FromModule`: there is no such
line), and `LinesRead` counts through both texts, so that the moment between them is no special case.
`MapsWin` follows: at an address where a line starts, the entry is a line's.  On a `LiveMinidump`, an entry
that comes from a module has a start that no line has (`EntryOrigin`), so what is inserted next is apart
from every entry or has the range of one: each call is a step of the live table with every regular mapping
as a possible import (`ReadersAreLive`).  The table's theorems carry over: the image refinement
(`ReadersMemoryImage`) and, from `LiveInvariant`, the whole and disjoint regions that injection relies on
(`ReadersLeaveRegions`).  The other properties have invariants of their own on which source filled a field:
`IngestTypes`, `CapturedVector`, `ProcessName`, and `Displacement`, which holds for any ELF headers.
`CutLinkMap` rests on `RecordFacts` (what the loop reads, for any claimed count) and on a conjunct that each
step which fails has one of the reasons in `Unconvertible`.

**Augmentation and program** (`ConvertProofs`).  The proof composes.
`AugmentCalls` is the implementation of `LibrarySpec` on every dump, which carries over the library's
theorems (`AugmentTypes`, `AugmentDataOnPages`).  On a live dump `AugmentLiveInv` adds to `LiveInv` what
each stage has read (`RegionsRead`) and injected (`Injected`: at each stage `captured` is exactly the
blobs of the stages so far); from it every call is a step of `Spec` (`PipelineIsLive`), so the image
refinement carries over (`AugmentMemoryImage`), nothing that is left to inject is refused, and at the end
every blob is readable (`AugmentStacks`, `AugmentLinkMap`).
`ConvertProofs` takes the writer's theorems through an INSTANCE whose inputs are all those with data on
whole pages; `SegmentsPaged` proves from `DataOnPages` that the table is one of them, so
`WriterAssumption` is not a premise here but a consequence.  `ConvertInv` (every dump) has the writer's
invariant of that table and the order of opening, flushing and exit; `ConvertTypes` and `ConvertExit`
follow.  `ConvertCore` is the end-to-end theorem, for live dumps: `BlobByte` finds a captured byte in the
entry at its page, `SegmentKeysFacts` that entry's place in key order, `DataPlaces` and `HeadersReach` the
place in the file; disjointness of entries and of file ranges make both unique.

Induction over data.  The library's induction theorems take an operator as parameter, which the provers
cannot instantiate.  Where a recursive *function* is involved (`Filter`), `FilterProofs` states the property
as the set of numbers that have it (`InductionInSet`, `LeastNat`) and shows first that the function exists
(`RecursionExists`).  `SegmentKeysFacts` needs none: the rank is an injection of a finite set into an
interval of its size.

Only model-checked: liveness (`Exits`), which is out of the prover's reach.  Every other
property of a passing run is stated by a theorem.

## 5. Disagreements between documentation and code

1. The first `NT_PRSTATUS` is documented to be the crashing thread's (`src/src/core_writer.rs:8-10`,
   `src/src/model.rs:330`); if the exception names a thread that is not listed, the first listed
   thread gets its signal and registers.  Run `notes_doc`.
2. "Inject each thread's stack bytes" (`src/src/augment.rs:78`): of two stacks on one page the last
   survives.  Run `augment_doc`.  A live process has no such stacks unless they are tiny
   (alternate or coroutine stacks).
3. "The main executable" is found by two conditions (`src/src/rust_minidump.rs:499` and `:770`).  Run
   `ingest_doc`.
4. "AT_PHDR: runtime address of the program-header table." (`src/src/rust_minidump.rs:832`): without
   `PT_PHDR` the code adds the *file offset* of the table to the load bias (`:833`), which is right only
   for an image linked at zero.  Run `auxv_doc`; an executable without `PT_PHDR` is normally a static
   one linked at a fixed address, so this is the usual case of that branch.

Seen, without a run:

* `insert_mapping` says that an existing entry is preserved (`src/src/model.rs:373-375`); it is
  replaced (`:377`).  So maps text in the auxv stream replaces what `MD_LINUX_MAPS` said of an address,
  although the latter is called preferred (`src/src/rust_minidump.rs:172`).  Against the module list
  either text is preferred, which `insert_mapping_if_absent` sees to; `MapsPreferred` says that much.
* A count in `MD_LINUX_DSO_DEBUG` is believed before it is compared with the file
  (`Vec::with_capacity(dso_count)`, `src/src/rust_minidump.rs:913` and `:941`): one near 2^32 asks for some
  170 GB, and where the allocator refuses them the program ends without a core, while any count that can
  be reserved is harmless (`CutLinkMapRead`).
* 65535 program headers are accepted (`src/src/core_writer.rs:34`), but `e_phnum` 0xffff is `PN_XNUM`, which
  a reader takes for an extended count.
* `l_ld = load_base + PT_DYNAMIC_vaddr` (`src/src/rust_minidump.rs:509`) holds only for an image linked at
  zero; the code subtracts the first `p_vaddr` (`OneDisplacement` needs that).
* `pid` is documented as the process ID (`src/src/model.rs:225`); it is the crashing thread's
  (`src/src/rust_minidump.rs:114-120`), which differs when another thread than the main one crashed.
* `README.md:14` and `CHANGELOG.md:16` of the repository list `NT_SIGINFO`, which no code writes.
* `tests/linux_maps_tests.rs:117` says of an empty maps line that it "would just be skipped", while
  `parse_maps_line` refuses it (`src/src/linux_maps.rs:37-39`).
* `--verbose` is "currently unused" (`src/src/main.rs:27-28`); the reader and the augmentation use it.

## 6. Not modelled, and the plan

Not modelled: the values of registers and of the other fields inside notes and headers, and their order
(layout; the repository's tests compare them); the characters of names, paths and build ids; hex
digits and words of a maps line; the option parser, messages and `--verbose` lines; what the crate
`minidump` parses; `BufWriter` and the standard output's own line buffer, of which only the guarantees
above are used; sums such as `o + 16` that could only overflow for a header near the last address of
the machine, where a build with overflow checks would stop.  `error.rs` and `lib.rs` have no state.

What is left: `Ingest` and `Augment` meet in the table but not in one module.  That a `LiveMinidump` is read
into a `LiveDump` holds in two halves (`ReadersAreLive` derives `LiveImport` from the minidump;
`LiveDump` is assumed of what the readers of `Augment`, which are those of the table only, are given); one
theorem over both would need the reader's threads and `DsoDebug` as the dump's.
