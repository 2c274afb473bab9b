---------------------------- MODULE MappingTable ----------------------------
(***************************************************************************)
(* The mapping table: CrashedProcess::mappings (model.rs), the BTreeMap    *)
(* from a start address to the mapping that becomes one PT_LOAD segment,   *)
(* and the three operations that change it:                                *)
(*                                                                         *)
(*   insert_mapping             a line of /proc/<pid>/maps                 *)
(*   insert_mapping_if_absent   a module of the module list                *)
(*   add_data_to_mapping        captured bytes: a stack, the rebuilt link  *)
(*                              map or the patched dynamic section         *)
(*                                                                         *)
(* A blob is its source and its length; which byte of which source lies at *)
(* an address is what the properties tell apart.                           *)
(***************************************************************************)
EXTENDS PageArith

CONSTANTS
    Imports,        \* the mappings the readers may insert
    Captures,       \* the blobs that may be injected
    Files,          \* paths of file-backed mappings
    Permissions,    \* MappingPermissions
    ReadWrite,      \* MappingPermissions::read_write()
    Sources,        \* where captured bytes come from
    NoFile,         \* filename: None
    NoSource,       \* the source of an empty data vector
    Absent          \* a key the BTreeMap does not hold

VARIABLES
    mappings,       \* CrashedProcess::mappings
    status,         \* what the last operation returned
    imported,       \* history: the table as the readers left it
    captured        \* history: the blobs injected with success

vars == <<mappings, status, imported, captured>>

\* Mapping::data: `prefix` zeros, `len` bytes of `src`, zeros up to a whole page.
Data == [src : Sources \cup {NoSource}, prefix : 0..(PageSize - 1), len : Addr]
NoData == [src |-> NoSource, prefix |-> 0, len |-> 0]
DataLen(d) == PaddedLen(d.prefix + d.len)

Mapping == [start : Addr, end : Addr, offset : Addr, permissions : Permissions,
            filename : Files \cup {NoFile}, data : Data]

Capture == [src : Sources, addr : Addr, len : Addr]

ASSUME TableAssumption ==
    /\ Imports \subseteq {m \in Mapping : m.start < m.end /\ m.data = NoData}
    /\ Captures \subseteq Capture
    /\ ReadWrite \in Permissions
    /\ Absent \notin Mapping
    /\ NoFile \notin Files
    /\ NoSource \notin Sources

-----------------------------------------------------------------------------
\* The keys that table t holds.
Keys(t) == {k \in Addr : t[k] # Absent}

\* Mapping::contains
ContainsEnd(m, a) == m.start <= a /\ a <= m.end
Contains(m, a) == m.start <= a /\ a < m.end

\* The key add_data_to_mapping works on: the first in key order that contains a.
FirstContaining(k, a) ==
    /\ k \in Keys(mappings) /\ Contains(mappings[k], a)
    /\ \A j \in Keys(mappings) : Contains(mappings[j], a) => k <= j

NoneContaining(a) == \A k \in Keys(mappings) : ~Contains(mappings[k], a)

PageStartUnaligned(c) == c.addr
PageStart(c) == AlignDown(c.addr)
PageEnd(c)   == AlignUp(c.addr + c.len)

\* padded_vec
BlobNotShifted(c) == [src |-> c.src, prefix |-> 0, len |-> c.len]
BlobFromAddress(c) == [src |-> c.src, prefix |-> c.addr, len |-> c.len]
Blob(c) == [src |-> c.src, prefix |-> c.addr - PageStart(c), len |-> c.len]

\* What a split leaves in front of the captured page ...
FrontPartUncut(m, base) == m
FrontPart(m, base) == [m EXCEPT !.end = base]

\* ... the file offset behind it, before the overflow check; the unchecked
\* base - k wraps when the mapping starts above the page ...
OffsetNotMoved(m, k, base) == m.offset
OffsetFromZero(m, k, base) == IF m.filename = NoFile THEN m.offset ELSE m.offset + base
OffsetBehind(m, k, base) ==
    IF m.filename = NoFile THEN m.offset ELSE m.offset + WrapSub(base, k)

\* ... and the rest of the mapping, which takes the data.
BackPart(m, k, base, c) ==
    [m EXCEPT !.start  = base,
              !.offset = OffsetBehind(m, k, base),
              !.data   = Blob(c)]

\* Mapping::new with the captured data, and what it and the overflow checks
\* before it require.
SyntheticCut(c) ==
    [start |-> PageStart(c), end |-> c.addr + c.len, offset |-> 0,
     permissions |-> ReadWrite, filename |-> NoFile, data |-> Blob(c)]
Synthetic(c) ==
    [start |-> PageStart(c), end |-> PageEnd(c), offset |-> 0,
     permissions |-> ReadWrite, filename |-> NoFile, data |-> Blob(c)]

SyntheticUnchecked(c) == PageStart(c) < PageEnd(c)
SyntheticFits(c) == PageEnd(c) <= MaxAddr /\ PageStart(c) < PageEnd(c)

Put(k, m) == [mappings EXCEPT ![k] = m]

-----------------------------------------------------------------------------
Init ==
    /\ mappings = [a \in Addr |-> Absent]
    /\ status = "ok"
    /\ imported = mappings
    /\ captured = {}

InsertMapping(m) ==
    /\ mappings' = Put(m.start, m)
    /\ status' = "ok"
    /\ imported' = mappings'
    /\ UNCHANGED captured

InsertMappingIfAbsent(m) ==
    /\ mappings' = IF mappings[m.start] = Absent THEN Put(m.start, m) ELSE mappings
    /\ status' = "ok"
    /\ imported' = mappings'
    /\ UNCHANGED captured

Return(s, c) ==
    /\ status' = s
    /\ captured' = IF s = "ok" THEN captured \cup {c} ELSE captured
    /\ UNCHANGED imported

\* The page that holds the blob begins inside a mapping: the mapping is cut in
\* two there, and the second part takes the data.  The cut is made before the
\* new file offset is computed, so a failure leaves the first part cut.  A
\* mapping that starts off a page boundary may begin above `base`: a build with
\* overflow checks panics there.
SplitMapping(c, k) ==
    LET m    == mappings[k]
        base == PageStart(c)
        cut  == Put(k, FrontPart(m, base))
    IN  /\ base # k
        /\ \/ /\ OffsetBehind(m, k, base) <= MaxAddr
              /\ mappings' = [cut EXCEPT ![base] = BackPart(m, k, base, c)]
              /\ Return("ok", c)
           \/ /\ OffsetBehind(m, k, base) > MaxAddr
              /\ mappings' = cut
              /\ Return("error", c)
           \/ /\ m.filename # NoFile /\ base < k
              /\ mappings' = cut
              /\ Return("panic", c)

\* The mapping begins with the page that holds the blob: it takes the data.
RefillMapping(c, k) ==
    /\ PageStart(c) = k
    /\ mappings' = [mappings EXCEPT ![k] = [@ EXCEPT !.start = k, !.data = Blob(c)]]
    /\ Return("ok", c)

\* No mapping contains the address: a new one covers the pages of the blob.
SynthesizeMapping(c) ==
    /\ NoneContaining(c.addr)
    /\ \/ /\ SyntheticFits(c)
          /\ mappings' = Put(PageStart(c), Synthetic(c))
          /\ Return("ok", c)
       \/ /\ ~SyntheticFits(c)
          /\ UNCHANGED mappings
          /\ Return("error", c)

AddDataToMapping(c) ==
    \/ \E k \in Addr : FirstContaining(k, c.addr) /\ SplitMapping(c, k)
    \/ \E k \in Addr : FirstContaining(k, c.addr) /\ RefillMapping(c, k)
    \/ SynthesizeMapping(c)

-----------------------------------------------------------------------------
(***************************************************************************)
(* The three operations as a library's caller may use them: in any order,  *)
(* on any mapping as Mapping::new makes it (not empty, without data) and   *)
(* on any blob, until one panics.                                          *)
(***************************************************************************)
LibraryNext ==
    /\ status # "panic"
    /\ \/ \E m \in Imports : InsertMapping(m)
       \/ \E m \in Imports : InsertMappingIfAbsent(m)
       \/ \E c \in Captures : AddDataToMapping(c)

LibrarySpec == Init /\ [][LibraryNext]_vars

(***************************************************************************)
(* The pipeline on the minidump of a live process.  The readers finish     *)
(* before the augmentation starts and the first error ends it (main.rs).   *)
(* The kernel maps whole, disjoint pages of files that end before 2^64; a  *)
(* module may name a region the maps stream already listed.  The captured  *)
(* blobs share no page, and each was read from one region or lies outside  *)
(* all of them.                                                            *)
(***************************************************************************)
Apart(m, n)     == m.end <= n.start \/ n.end <= m.start
SameRange(m, n) == m.start = n.start /\ m.end = n.end

LiveImport(m) ==
    /\ m.start % PageSize = 0 /\ m.end % PageSize = 0
    /\ m.filename # NoFile => m.offset + (m.end - m.start) <= MaxAddr
    /\ \A k \in Keys(mappings) : Apart(m, mappings[k]) \/ SameRange(m, mappings[k])

ApartPages(c, d) == PageEnd(c) <= PageStart(d) \/ PageEnd(d) <= PageStart(c)
Within(c, m)     == m.start <= c.addr /\ c.addr + c.len <= m.end
Outside(c, m)    == PageEnd(c) <= m.start \/ m.end <= PageStart(c)

LiveCapture(c) ==
    /\ c.len > 0 /\ PageEnd(c) <= MaxAddr
    /\ \A d \in captured : ApartPages(c, d)
    /\ \/ \E k \in Keys(imported) : Within(c, imported[k])
       \/ \A k \in Keys(imported) : Outside(c, imported[k])

ReadMapsLine ==
    /\ captured = {}
    /\ \E m \in Imports : LiveImport(m) /\ InsertMapping(m)

ReadModule ==
    /\ captured = {}
    /\ \E m \in Imports :
          /\ m.start \in Keys(mappings) \/ LiveImport(m)
          /\ InsertMappingIfAbsent(m)

Inject == \E c \in Captures : LiveCapture(c) /\ AddDataToMapping(c)

Next == status = "ok" /\ (ReadMapsLine \/ ReadModule \/ Inject)

Spec == Init /\ [][Next]_vars

-----------------------------------------------------------------------------
TypeOK ==
    /\ mappings \in [Addr -> Mapping \cup {Absent}]
    /\ imported \in [Addr -> Mapping \cup {Absent}]
    /\ status \in {"ok", "error", "panic"}
    /\ captured \subseteq Captures

\* Whatever the calls, a mapping is filed under its start address, and one with
\* captured bytes starts on a page and carries whole pages: write_core derives
\* p_vaddr from the first, and p_offset congruent to it from the second.
DataOnPages ==
    \A k \in Keys(mappings) :
        LET m == mappings[k] IN
        /\ m.start = k
        /\ DataLen(m.data) > 0 =>
              m.start % PageSize = 0 /\ DataLen(m.data) % PageSize = 0

\* Whatever is inserted and injected, through overlaps, panics and half splits: a mapping
\* that begins on a page ends behind its start.  Only one that begins off a page can be
\* cut below its start (augment.rs:48), and then p_memsz wraps (core_writer.rs:92).
InvertedOffPage ==
    \A k \in Keys(mappings) :
        k % PageSize = 0 => mappings[k].start < mappings[k].end

\* Injecting into live mappings never leaves an inverted range, nor two segments
\* that claim one address, though a split writes two entries and may overwrite.
DisjointMappings ==
    \A k \in Keys(mappings) :
        /\ mappings[k].start < mappings[k].end
        /\ \A j \in Keys(mappings) : j # k => Apart(mappings[j], mappings[k])

\* No mapping carries more bytes than it spans (p_filesz <= p_memsz), although
\* add_data_to_mapping shortens mappings and never shortens their data.
SegmentFits ==
    \A k \in Keys(mappings) :
        DataLen(mappings[k].data) <= mappings[k].end - mappings[k].start

\* The byte of data that mapping m holds for address a: a captured one, or zero
\* padding, or none when the data ends before a.
ByteOf(m, a) ==
    LET i == a - m.start - m.data.prefix IN
    IF i \in 0..(m.data.len - 1) THEN <<m.data.src, i>>
    ELSE IF a - m.start < DataLen(m.data) THEN <<"zero">> ELSE <<>>

\* Later injections, which split, refill and create mappings around it, never
\* move or lose a byte injected before: each stays readable at its address.
CapturesKept ==
    \A c \in captured : \A i \in 0..(c.len - 1) :
        \E k \in Keys(mappings) :
            /\ Contains(mappings[k], c.addr + i)
            /\ ByteOf(mappings[k], c.addr + i) = <<c.src, i>>

\* What mapping m says lies behind address a: a file position (NT_FILE) or
\* anonymous memory, and its permissions.
Backing(m, a) ==
    <<m.filename, m.permissions,
      IF m.filename = NoFile THEN m.offset ELSE m.offset + (a - m.start)>>

\* Injection changes nothing a debugger maps by NT_FILE: an address the readers
\* mapped stays mapped to the same position of the same file, however often its
\* mapping was cut.
BackingKept ==
    \A k \in Keys(imported) : \A a \in imported[k].start..(imported[k].end - 1) :
        \E j \in Keys(mappings) :
            /\ Contains(mappings[j], a)
            /\ Backing(mappings[j], a) = Backing(imported[k], a)

\* build_nt_file_payload: an entry for each named mapping, with its file offset in
\* pages; a debugger multiplies by the page size.
PageOffsetInBytes(m) == m.offset
PageOffset(m) == m.offset \div PageSize
FileNote ==
    { [file |-> mappings[k].filename, start |-> mappings[k].start, end |-> mappings[k].end,
       pageOffset |-> PageOffset(mappings[k])] :
        k \in {j \in Keys(mappings) : mappings[j].filename # NoFile} }

\* The note tells a debugger the same position of the same file for every address
\* that the readers found mapped at a whole page of a file, however the mapping was
\* cut since, and tells it of no second one.
FileNoteKept ==
    \A k \in Keys(imported) :
        imported[k].filename # NoFile /\ imported[k].offset % PageSize = 0 =>
            \A a \in imported[k].start..(imported[k].end - 1) :
                /\ \E e \in FileNote : e.start <= a /\ a < e.end
                /\ \A e \in FileNote :
                      e.start <= a /\ a < e.end =>
                         /\ e.file = imported[k].filename
                         /\ e.pageOffset * PageSize + (a - e.start)
                               = imported[k].offset + (a - imported[k].start)

\* The dump of a live process is always accepted: none of the overflow and
\* range checks of add_data_to_mapping fires on it.
LiveDumpAccepted == status = "ok"

-----------------------------------------------------------------------------
(***************************************************************************)
(* The inductive invariant behind the properties above.  It says where     *)
(* every entry of the table comes from: it is a piece of one region the    *)
(* readers mapped, which ends where that region or the page of a blob      *)
(* ends it, or it is the synthetic home of a blob outside every region.    *)
(***************************************************************************)
\* The readers left whole-page, disjoint, data-free mappings filed under their
\* starts, with file positions that do not overflow inside them.
RegionsOK ==
    \A k \in Keys(imported) :
        LET m == imported[k] IN
        /\ m.start = k /\ m.start < m.end /\ m.data = NoData
        /\ m.start % PageSize = 0 /\ m.end % PageSize = 0
        /\ m.filename # NoFile => m.offset + (m.end - m.start) <= MaxAddr
        /\ \A j \in Keys(imported) : j # k => Apart(imported[j], m)

OutsideRegions(c) == \A k \in Keys(imported) : Outside(c, imported[k])

\* The blobs share no page, and each lies in one region or outside all.
BlobsOK ==
    \A c \in captured :
        /\ c.len > 0 /\ PageEnd(c) <= MaxAddr
        /\ \A d \in captured : d # c => ApartPages(c, d)
        /\ \/ \E k \in Keys(imported) : Within(c, imported[k])
           \/ OutsideRegions(c)

\* m is what cutting left of region r.
PieceOf(m, r) ==
    /\ r.start <= m.start /\ m.start < m.end /\ m.end <= r.end
    /\ m.start % PageSize = 0
    /\ m.end = r.end \/ \E c \in captured : m.end = PageStart(c)
    /\ m.filename = r.filename /\ m.permissions = r.permissions
    /\ m.offset = IF r.filename = NoFile THEN r.offset
                  ELSE r.offset + (m.start - r.start)

HomeOf(m, c) == m = Synthetic(c) /\ OutsideRegions(c)

HoldsBlob(m, c) == m.data = Blob(c) /\ m.start = PageStart(c) /\ PageEnd(c) <= m.end

EntriesOK ==
    \A k \in Keys(mappings) :
        LET m == mappings[k] IN
        /\ m.start = k
        /\ \/ \E j \in Keys(imported) : PieceOf(m, imported[j])
           \/ \E c \in captured : HomeOf(m, c)
        /\ m.data = NoData \/ \E c \in captured : HoldsBlob(m, c)

\* Cutting leaves no gap, and every blob is the data of the entry at its page.
RegionsCovered ==
    \A j \in Keys(imported) : \A a \in Addr :
        Contains(imported[j], a) => \E k \in Keys(mappings) : Contains(mappings[k], a)

BlobsHeld ==
    \A c \in captured : /\ PageStart(c) \in Keys(mappings)
                        /\ HoldsBlob(mappings[PageStart(c)], c)

LiveInv ==
    /\ TypeOK
    /\ status = "ok"
    /\ captured = {} => mappings = imported
    /\ RegionsOK /\ BlobsOK /\ EntriesOK /\ DisjointMappings
    /\ RegionsCovered /\ BlobsHeld

-----------------------------------------------------------------------------
\* The memory that the table describes, address by address; no order of splits
\* can be seen in it.
EntryAt(a)   == mappings[CHOOSE k \in Keys(mappings) : FirstContaining(k, a)]
BackingAt(a) == IF NoneContaining(a) THEN <<>> ELSE Backing(EntryAt(a), a)
ByteAt(a)    == IF NoneContaining(a) THEN <<>> ELSE ByteOf(EntryAt(a), a)

Image == INSTANCE MemoryImage WITH
    Regions <- Imports,
    Blobs   <- Captures,
    backing <- [a \in Addr |-> BackingAt(a)],
    bytes   <- [a \in Addr |-> ByteAt(a)]

\* Seen through the segments, every import maps one region and every injection
\* dumps exactly the pages of its blob: the table implements the flat memory.
ImplementsMemoryImage == Image!Spec

=============================================================================
