----------------------------- MODULE CoreWriter -----------------------------
(***************************************************************************)
(* write_core (src/src/core_writer.rs): the ELF core file is written in    *)
(* one pass to a stream that cannot seek,                                  *)
(*                                                                         *)
(*   Ehdr | Phdr (PT_NOTE) | Phdr * N (PT_LOAD) | notes | pad | data ...   *)
(*                                                                         *)
(* so every header announces where bytes will stand that are not written   *)
(* yet.  Three walks over the mapping table must agree: the one that sums  *)
(* the data, the one that writes the headers and the one that writes the   *)
(* data.  Any write may fail.                                              *)
(***************************************************************************)
EXTENDS PageArith, Sequences

CONSTANTS
    Inputs,         \* what there is to write: the ELF class, notes, segments
    Max32,          \* u32::MAX
    MaxPhnum        \* u16::MAX

VARIABLES
    core,           \* the input
    phase,          \* the part of the file that is next
    pos,            \* bytes written so far
    totalData,      \* the running sum of the data lengths
    loadOffset,     \* load_offset, where the next segment with data will stand
    ehdr,           \* e_phnum as written in the ELF header
    phdrs,          \* the program headers written
    walk,           \* the mapping that a loop over the table has reached
    placed,         \* history: where the notes and then each segment went
    sums            \* history: totalData before each turn of the first loop

vars == <<core, phase, pos, totalData, loadOffset, ehdr, phdrs, walk, placed, sums>>

\* One mapping, as the writer sees it.
Segment == [start : Addr, end : Addr, filesz : Nat]

\* noteLen is the length that build_note_segment returned.  Captured data starts
\* on a page and fills pages (MappingTable!DataOnPages).
Input == [class : {1, 2}, noteLen : Nat, segments : Seq(Segment)]

ASSUME WriterAssumption ==
    /\ Inputs \subseteq Input
    /\ Max32 \in Nat /\ MaxPhnum \in Nat
    /\ \A c \in Inputs : \A i \in 1..Len(c.segments) :
          c.segments[i].filesz > 0 =>
              /\ c.segments[i].start % PageSize = 0
              /\ c.segments[i].filesz % PageSize = 0

-----------------------------------------------------------------------------
\* ElfHeader::size and ElfHeader::phdr_size
EhdrSize == IF core.class = 2 THEN 64 ELSE 52
PhdrSize == IF core.class = 2 THEN 56 ELSE 32

Count == Len(core.segments)
PhnumLoadsOnly == Count
Phnum == 1 + Count

PtNoteOffsetNoNote == EhdrSize + PhdrSize * Count
PtNoteOffset == EhdrSize + PhdrSize * Phnum
PtNoteEnd    == PtNoteOffset + core.noteLen

\* note_pad: the zeros that put the first segment on a page of the file.
NotePadNone == 0
NotePad == IF PtNoteEnd % PageSize = 0 THEN 0 ELSE PageSize - (PtNoteEnd % PageSize)
LoadStart == PtNoteEnd + NotePad

\* Where a segment without data points: behind the last byte of the file.
EmptyOffsetZero == 0
EmptyOffset == LoadStart + totalData

Segment32Fits(h) ==
    core.class = 2 \/ \A w \in {h.offset, h.vaddr, h.filesz, h.memsz} : w <= Max32

NotePhdr ==
    [type |-> "PT_NOTE", offset |-> PtNoteOffset, vaddr |-> 0,
     filesz |-> core.noteLen, memsz |-> 0]

LoadPhdrFixed(s) ==
    [type |-> "PT_LOAD", vaddr |-> s.start,
     offset |-> IF s.filesz = 0 THEN EmptyOffset ELSE LoadStart,
     filesz |-> s.filesz, memsz |-> WrapSub(s.end, s.start)]
LoadPhdrSigned(s) ==
    [type |-> "PT_LOAD", vaddr |-> s.start,
     offset |-> IF s.filesz = 0 THEN EmptyOffset ELSE loadOffset,
     filesz |-> s.filesz, memsz |-> s.end - s.start]
LoadPhdr(s) ==
    [type |-> "PT_LOAD", vaddr |-> s.start,
     offset |-> IF s.filesz = 0 THEN EmptyOffset ELSE loadOffset,
     filesz |-> s.filesz, memsz |-> WrapSub(s.end, s.start)]

-----------------------------------------------------------------------------
Init ==
    /\ core \in Inputs
    /\ phase = "layout"
    /\ pos = 0 /\ totalData = 0 /\ loadOffset = 0 /\ ehdr = 0
    /\ phdrs = <<>> /\ placed = <<>>
    /\ walk = 1 /\ sums = <<0>>

\* The header counts the segments in 16 bits.
ComputeLayout ==
    /\ phase = "layout"
    /\ IF Phnum <= MaxPhnum
       THEN phase' = "sum" /\ loadOffset' = LoadStart
       ELSE phase' = "failed" /\ UNCHANGED loadOffset
    /\ UNCHANGED <<core, pos, totalData, ehdr, phdrs, walk, placed, sums>>

SumData ==
    /\ phase = "sum" /\ walk <= Count
    /\ totalData' = totalData + core.segments[walk].filesz
    /\ sums' = Append(sums, totalData')
    /\ walk' = walk + 1
    /\ UNCHANGED <<core, phase, pos, loadOffset, ehdr, phdrs, placed>>

WriteEhdr ==
    /\ phase = "sum" /\ walk > Count
    /\ pos' = pos + EhdrSize
    /\ ehdr' = Phnum
    /\ phase' = "note_phdr"
    /\ UNCHANGED <<core, totalData, loadOffset, phdrs, walk, placed, sums>>

\* ProgramHeader::write refuses a field that an ELF32 header cannot hold.
WritePhdr(h) ==
    /\ Segment32Fits(h)
    /\ pos' = pos + PhdrSize
    /\ phdrs' = Append(phdrs, h)

\* The words in front of the refused one are written: p_type, p_offset, p_vaddr,
\* p_paddr, p_filesz.
BytesBeforeRefusal(h) ==
    IF h.offset > Max32 THEN 4 ELSE IF h.vaddr > Max32 THEN 8
    ELSE IF h.filesz > Max32 THEN 16 ELSE 20

RefusePhdr(h) ==
    /\ ~Segment32Fits(h)
    /\ pos' = pos + BytesBeforeRefusal(h)
    /\ phase' = "failed"
    /\ UNCHANGED <<core, totalData, loadOffset, ehdr, phdrs, walk, placed, sums>>

WriteNotePhdr ==
    /\ phase = "note_phdr"
    /\ \/ /\ WritePhdr(NotePhdr)
          /\ phase' = "load_phdrs" /\ walk' = 1
          /\ UNCHANGED <<core, totalData, loadOffset, ehdr, placed, sums>>
       \/ RefusePhdr(NotePhdr)

\* p_memsz is an unchecked subtraction: an inverted mapping panics in a build
\* with overflow checks and wraps without.
WriteLoadPhdr ==
    /\ phase = "load_phdrs" /\ walk <= Count
    /\ LET s == core.segments[walk] IN
       \/ /\ WritePhdr(LoadPhdr(s))
          /\ loadOffset' = loadOffset + s.filesz
          /\ walk' = walk + 1
          /\ UNCHANGED <<core, phase, totalData, ehdr, placed, sums>>
       \/ RefusePhdr(LoadPhdr(s))
       \/ /\ s.end < s.start
          /\ phase' = "failed"
          /\ UNCHANGED <<core, pos, totalData, loadOffset, ehdr, phdrs, walk, placed, sums>>

WriteNotes ==
    /\ phase = "load_phdrs" /\ walk > Count
    /\ placed' = Append(placed, pos)
    /\ pos' = pos + core.noteLen
    /\ phase' = "pad"
    /\ UNCHANGED <<core, totalData, loadOffset, ehdr, phdrs, walk, sums>>

WritePad ==
    /\ phase = "pad"
    /\ pos' = pos + NotePad
    /\ phase' = "data" /\ walk' = 1
    /\ UNCHANGED <<core, totalData, loadOffset, ehdr, phdrs, placed, sums>>

\* Nothing is written for a segment without data.
WriteData ==
    /\ phase = "data" /\ walk <= Count
    /\ placed' = Append(placed, pos)
    /\ pos' = pos + core.segments[walk].filesz
    /\ walk' = walk + 1
    /\ UNCHANGED <<core, phase, totalData, loadOffset, ehdr, phdrs, sums>>

Finish ==
    /\ phase = "data" /\ walk > Count
    /\ phase' = "done"
    /\ UNCHANGED <<core, pos, totalData, loadOffset, ehdr, phdrs, walk, placed, sums>>

\* The stream refuses a write, and write_core returns at once.
Writing ==
    \/ phase = "sum" /\ walk > Count
    \/ phase \in {"note_phdr", "load_phdrs"}
    \/ phase = "pad" /\ NotePad > 0
    \/ phase = "data" /\ walk <= Count /\ core.segments[walk].filesz > 0

WriteFails ==
    /\ Writing
    /\ phase' = "failed"
    /\ UNCHANGED <<core, pos, totalData, loadOffset, ehdr, phdrs, walk, placed, sums>>

Next ==
    \/ ComputeLayout \/ SumData \/ WriteEhdr \/ WriteNotePhdr \/ WriteLoadPhdr
    \/ WriteNotes \/ WritePad \/ WriteData \/ Finish \/ WriteFails

Spec == Init /\ [][Next]_vars

-----------------------------------------------------------------------------
Phdr == [type : {"PT_NOTE", "PT_LOAD"}, offset : Nat, vaddr : Nat, filesz : Nat, memsz : Nat]

TypeOK ==
    /\ core \in Inputs
    /\ phase \in {"layout", "sum", "note_phdr", "load_phdrs", "pad", "data", "done", "failed"}
    /\ pos \in Nat /\ totalData \in Nat /\ loadOffset \in Nat /\ ehdr \in Nat
    /\ phdrs \in Seq(Phdr)
    /\ placed \in Seq(Nat) /\ sums \in Seq(Nat)
    /\ walk \in Nat \ {0}

\* Phdr i + 1 describes segment i.
HeadersComplete == phase \in {"pad", "data", "done"}

\* The header's offset for the notes, written before them, is where they went ...
NotesWhereAnnounced == HeadersComplete => phdrs[1].offset = placed[1]

\* ... and each segment with data went where its header, written a pass earlier,
\* says.
DataWhereAnnounced ==
    \A i \in 1..(Len(placed) - 1) :
        core.segments[i].filesz > 0 => phdrs[i + 1].offset = placed[i + 1]

\* A reader that follows the headers finds what write_core put there.
PartsWhereAnnounced == NotesWhereAnnounced /\ DataWhereAnnounced

\* A segment without data points behind everything in the file, so a debugger
\* never reads the headers or notes as its contents.
EmptyPastEnd ==
    phase = "done" => \A i \in 1..Count :
        core.segments[i].filesz = 0 => phdrs[i + 1].offset >= pos

\* A loadable segment can be mapped: its place in the file and its address agree
\* modulo the page.
PageCongruent ==
    \A i \in 2..Len(phdrs) :
        phdrs[i].filesz > 0 => phdrs[i].offset % PageSize = phdrs[i].vaddr % PageSize

\* The parts of the file a reader is sent to do not overlap: headers, notes and
\* each segment's data, in this order.
PartsApart ==
    HeadersComplete =>
        /\ EhdrSize + PhdrSize * ehdr <= phdrs[1].offset
        /\ \A i, j \in 1..Len(phdrs) :
              i < j /\ phdrs[j].filesz > 0
                 => phdrs[i].filesz = 0 \/ phdrs[i].offset + phdrs[i].filesz <= phdrs[j].offset

\* e_phnum is the number of headers that follow, and it fits its field.
PhnumTrue == HeadersComplete => ehdr = Len(phdrs) /\ ehdr = Phnum /\ ehdr <= MaxPhnum

=============================================================================
