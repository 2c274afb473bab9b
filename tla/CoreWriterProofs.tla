-------------------------- MODULE CoreWriterProofs --------------------------
(***************************************************************************)
(* The three walks of write_core agree, for every number and size of       *)
(* segments, every length of the notes and both ELF classes.               *)
(***************************************************************************)
EXTENDS CoreWriter, PageArithProofs

\* sums[i] is the length of the data of the segments before i.
SumsOK ==
    /\ Len(sums) \in 1..(Count + 1)
    /\ sums[1] = 0 /\ totalData = sums[Len(sums)]
    /\ \A i \in 1..(Len(sums) - 1) : sums[i + 1] = sums[i] + core.segments[i].filesz
    /\ \A i \in 1..Len(sums) : sums[i] % PageSize = 0
    /\ \A i, j \in 1..Len(sums) : i <= j => sums[i] <= sums[j]

\* Where each loop stands when it begins a turn.
PhasesOK ==
    /\ walk \in 1..(Count + 1)
    /\ phase \in {"layout", "sum", "note_phdr"} => phdrs = <<>>
    /\ phase \in {"layout", "sum", "note_phdr", "load_phdrs"} => placed = <<>>
    /\ phase = "layout" => walk = 1
    /\ phase \in {"layout", "sum"} => pos = 0 /\ Len(sums) = walk
    /\ phase \in {"sum", "note_phdr"} => loadOffset = LoadStart
    /\ phase \notin {"layout", "failed"} => Phnum <= MaxPhnum
    /\ phase \notin {"layout", "sum", "failed"} => Len(sums) = Count + 1 /\ ehdr = Phnum
    /\ phase = "note_phdr" => pos = EhdrSize
    /\ phase = "load_phdrs" => /\ Len(phdrs) = walk
                               /\ pos = EhdrSize + PhdrSize * walk
                               /\ loadOffset = LoadStart + sums[walk]
    /\ HeadersComplete => Len(phdrs) = Count + 1
    /\ phase = "pad" => Len(placed) = 1 /\ pos = PtNoteEnd
    /\ phase = "data" => Len(placed) = walk /\ pos = LoadStart + sums[walk]
    /\ phase = "done" => Len(placed) = Count + 1 /\ pos = LoadStart + totalData

\* What the headers written so far announce.
PhdrOK(i) ==
    /\ phdrs[i + 1].filesz = core.segments[i].filesz
    /\ phdrs[i + 1].vaddr = core.segments[i].start
    /\ phdrs[i + 1].offset = IF core.segments[i].filesz = 0 THEN EmptyOffset
                             ELSE LoadStart + sums[i]

PhdrsOK ==
    /\ Len(phdrs) <= Count + 1
    /\ Len(phdrs) > 0 => /\ Len(sums) = Count + 1
                         /\ phdrs[1].offset = PtNoteOffset
                         /\ phdrs[1].filesz = core.noteLen
    /\ \A i \in 1..(Len(phdrs) - 1) : PhdrOK(i)

\* Where the parts written so far stand.
PlacedOK ==
    /\ Len(placed) > 0 => Len(phdrs) = Count + 1 /\ placed[1] = PtNoteOffset
    /\ Len(placed) <= Count + 1
    /\ \A i \in 1..(Len(placed) - 1) : placed[i + 1] = LoadStart + sums[i]

WriterInv == TypeOK /\ SumsOK /\ PhasesOK /\ PhdrsOK /\ PlacedOK

-----------------------------------------------------------------------------
(* The layout of one input.                                                *)

LEMMA LayoutFacts ==
    ASSUME core \in Inputs
    PROVE  /\ core.segments \in Seq(Segment) /\ Count \in Nat /\ core.noteLen \in Nat
           /\ EhdrSize \in Nat /\ PhdrSize \in Nat /\ Phnum = Count + 1
           /\ PtNoteOffset \in Nat /\ PtNoteOffset = EhdrSize + PhdrSize * (Count + 1)
           /\ PtNoteEnd \in Nat /\ PtNoteEnd = PtNoteOffset + core.noteLen
           /\ NotePad \in Nat /\ LoadStart \in Nat /\ LoadStart = PtNoteEnd + NotePad
           /\ LoadStart % PageSize = 0
<1>1. core.segments \in Seq(Segment) /\ core.noteLen \in Nat
  BY WriterAssumption DEF Input
<1>2. Count \in Nat /\ Phnum = Count + 1 /\ Phnum \in Nat
  BY <1>1, SMT DEF Count, Phnum
<1>3. EhdrSize \in Nat /\ PhdrSize \in {56, 32}
  BY DEF EhdrSize, PhdrSize
<1>4. PhdrSize * Phnum \in Nat
  BY <1>2, <1>3, SMT
<1>5. PtNoteOffset \in Nat /\ PtNoteOffset = EhdrSize + PhdrSize * (Count + 1)
  BY <1>2, <1>3, <1>4, SMT DEF PtNoteOffset
<1>6. PtNoteEnd \in Nat /\ PtNoteEnd = PtNoteOffset + core.noteLen
  BY <1>1, <1>5, SMT DEF PtNoteEnd
<1>7. LoadStart = AlignUp(PtNoteEnd)
  BY <1>6, ModRange, PageArithAssumption, SMT DEF LoadStart, NotePad, AlignUp
<1>8. NotePad \in Nat
  BY <1>6, ModRange, PageArithAssumption, SMT DEF NotePad
<1>9. LoadStart \in Nat /\ LoadStart % PageSize = 0 /\ LoadStart = PtNoteEnd + NotePad
  BY <1>6, <1>7, AlignUpFacts DEF LoadStart
<1> QED
  BY <1>1, <1>2, <1>3, <1>5, <1>6, <1>8, <1>9

LEMMA SegmentFacts ==
    ASSUME core \in Inputs, NEW i \in 1..Count
    PROVE  /\ core.segments[i] \in Segment
           /\ core.segments[i].filesz \in Nat /\ core.segments[i].start \in Nat
           /\ core.segments[i].filesz % PageSize = 0
           /\ core.segments[i].filesz > 0 => core.segments[i].start % PageSize = 0
<1>1. core.segments[i] \in Segment
  BY LayoutFacts, SMT DEF Count
<1>2. core.segments[i].filesz \in Nat /\ core.segments[i].start \in Nat
  BY <1>1, PageArithAssumption, SMT DEF Segment, Addr
<1>3. core.segments[i].filesz > 0 =>
        core.segments[i].start % PageSize = 0 /\ core.segments[i].filesz % PageSize = 0
  BY WriterAssumption DEF Count
<1>4. core.segments[i].filesz = 0 => core.segments[i].filesz % PageSize = 0
  BY PageArithAssumption, SMT
<1> QED
  BY <1>1, <1>2, <1>3, <1>4, SMT

\* The layout depends on the input alone, which no step changes.
LEMMA SameLayout ==
    ASSUME core' = core
    PROVE  /\ Count' = Count /\ Phnum' = Phnum /\ EhdrSize' = EhdrSize
           /\ PhdrSize' = PhdrSize /\ PtNoteOffset' = PtNoteOffset
           /\ PtNoteEnd' = PtNoteEnd /\ NotePad' = NotePad /\ LoadStart' = LoadStart
BY DEF Count, Phnum, EhdrSize, PhdrSize, PtNoteOffset, PtNoteEnd, NotePad, LoadStart

\* One turn of the first loop, and what stands in the sums so far.
LEMMA SumAt ==
    ASSUME sums \in Seq(Nat), NEW i \in 1..Len(sums)
    PROVE  sums[i] \in Nat
BY SMT

LEMMA NextSum ==
    ASSUME SumsOK, sums \in Seq(Nat), NEW i \in Nat \ {0}, i + 1 <= Len(sums)
    PROVE  /\ sums[i] \in Nat /\ sums[i + 1] \in Nat
           /\ sums[i + 1] = sums[i] + core.segments[i].filesz
<1>1. Len(sums) \in Nat
  BY SMT
<1>2. i \in 1..Len(sums) /\ i + 1 \in 1..Len(sums) /\ i \in 1..(Len(sums) - 1)
  BY <1>1, SMT
<1>3. sums[i] \in Nat /\ sums[i + 1] \in Nat
  BY <1>2, SumAt
<1>4. sums[i + 1] = sums[i] + core.segments[i].filesz
  BY <1>2 DEF SumsOK
<1> QED
  BY <1>3, <1>4

\* The parts of the invariant that a step leaves alone.
LEMMA SumsKept ==
    ASSUME SumsOK, core' = core, sums' = sums, totalData' = totalData
    PROVE  SumsOK'
BY DEF SumsOK, Count

LEMMA PhdrsKept ==
    ASSUME PhdrsOK, core' = core, sums' = sums, totalData' = totalData, phdrs' = phdrs
    PROVE  PhdrsOK'
<1>1. \A i \in 1..(Len(phdrs) - 1) : PhdrOK(i)'
  BY SameLayout DEF PhdrsOK, PhdrOK, EmptyOffset
<1> QED
  BY <1>1, SameLayout DEF PhdrsOK

LEMMA PlacedKept ==
    ASSUME PlacedOK, core' = core, sums' = sums, phdrs' = phdrs, placed' = placed
    PROVE  PlacedOK'
BY SameLayout DEF PlacedOK

LEMMA FailKept ==
    ASSUME WriterInv, phase' = "failed",
           UNCHANGED <<core, pos, totalData, loadOffset, ehdr, phdrs, walk, placed, sums>>
    PROVE  WriterInv'
<1>1. SumsOK' /\ PhdrsOK' /\ PlacedOK'
  BY SumsKept, PhdrsKept, PlacedKept DEF WriterInv
<1>2. TypeOK' /\ PhasesOK'
  BY SameLayout DEF WriterInv, TypeOK, PhasesOK, HeadersComplete
<1> QED
  BY <1>1, <1>2 DEF WriterInv

\* A refused header leaves some of its words behind, and the write has failed.
LEMMA RefusedBytes ==
    ASSUME NEW h
    PROVE  BytesBeforeRefusal(h) \in Nat
BY SMT DEF BytesBeforeRefusal

LEMMA RefuseKept ==
    ASSUME WriterInv, NEW h, RefusePhdr(h)
    PROVE  WriterInv'
<1>1. SumsOK' /\ PhdrsOK' /\ PlacedOK'
  BY SumsKept, PhdrsKept, PlacedKept DEF WriterInv, RefusePhdr
<1>2. pos' \in Nat
  BY RefusedBytes, SMT DEF WriterInv, TypeOK, RefusePhdr
<1>3. TypeOK' /\ PhasesOK'
  BY <1>2, SameLayout DEF WriterInv, TypeOK, PhasesOK, HeadersComplete, RefusePhdr
<1> QED
  BY <1>1, <1>3 DEF WriterInv

-----------------------------------------------------------------------------
LEMMA WriterInit == Init => WriterInv
<1> SUFFICES ASSUME Init
             PROVE  WriterInv
  OBVIOUS
<1>1. core \in Inputs /\ Count \in Nat /\ 0 % PageSize = 0
  BY LayoutFacts, PageArithAssumption, SMT DEF Init
<1>2. TypeOK
  BY <1>1, SMT DEF Init, TypeOK, Phdr
<1>3. SumsOK /\ PhasesOK /\ PhdrsOK /\ PlacedOK
  BY <1>1, SMT DEF Init, SumsOK, PhasesOK, PhdrsOK, PlacedOK, HeadersComplete
<1> QED
  BY <1>2, <1>3 DEF WriterInv

LEMMA LayoutStep == WriterInv /\ ComputeLayout => WriterInv'
<1> SUFFICES ASSUME WriterInv, ComputeLayout
             PROVE  WriterInv'
  OBVIOUS
<1>1. CASE phase' = "sum" /\ loadOffset' = LoadStart /\ Phnum <= MaxPhnum
  <2>1. SumsOK' /\ PhdrsOK' /\ PlacedOK'
    BY <1>1, SumsKept, PhdrsKept, PlacedKept DEF WriterInv, ComputeLayout
  <2>2. TypeOK'
    BY <1>1, LayoutFacts DEF WriterInv, TypeOK, ComputeLayout
  <2>3. PhasesOK'
    BY <1>1, SameLayout DEF WriterInv, PhasesOK, ComputeLayout, HeadersComplete
  <2> QED
    BY <2>1, <2>2, <2>3 DEF WriterInv
<1>2. CASE phase' = "failed" /\ UNCHANGED loadOffset
  BY <1>2, FailKept DEF ComputeLayout
<1> QED
  BY <1>1, <1>2 DEF ComputeLayout

\* The first walk extends the sums by one page-sized step.
LEMMA SumStep == WriterInv /\ SumData => WriterInv'
<1> SUFFICES ASSUME WriterInv, SumData
             PROVE  WriterInv'
  OBVIOUS
<1>1. PICK w \in 1..Count : w = walk
  BY DEF SumData, WriterInv, TypeOK
<1>2. PICK f \in Nat : f = core.segments[w].filesz /\ f % PageSize = 0
  BY <1>1, SegmentFacts DEF WriterInv, TypeOK
<1>3. /\ core \in Inputs /\ Count \in Nat /\ core' = core /\ phase = "sum" /\ phase' = "sum"
      /\ Len(sums) = w /\ sums \in Seq(Nat) /\ totalData = sums[w] /\ totalData \in Nat
      /\ totalData' = totalData + f /\ walk' = w + 1
      /\ sums' = Append(sums, totalData + f)
      /\ pos' = pos /\ phdrs' = phdrs /\ placed' = placed /\ loadOffset' = loadOffset
      /\ ehdr' = ehdr /\ phdrs = <<>> /\ placed = <<>>
  BY <1>1, <1>2, LayoutFacts DEF SumData, WriterInv, TypeOK, SumsOK, PhasesOK
<1>4. /\ sums' \in Seq(Nat) /\ Len(sums') = w + 1 /\ sums'[w + 1] = totalData + f
      /\ \A i \in 1..w : sums'[i] = sums[i]
  BY <1>3, SMT
<1>5. TypeOK'
  BY <1>1, <1>3, <1>4, SMT DEF WriterInv, TypeOK
<1>6. SumsOK'
  <2>1. (totalData + f) % PageSize = 0
    <3>1. totalData % PageSize = 0
      BY <1>1, <1>3 DEF WriterInv, SumsOK
    <3>2. totalData \in Int /\ f \in Int
      BY <1>2, <1>3, SMT
    <3>3. (totalData + f) % PageSize = f % PageSize
      BY <3>1, <3>2, ModShift
    <3> QED
      BY <1>2, <3>3
  <2>2. ASSUME NEW i \in 1..w
        PROVE  sums[i] <= totalData /\ sums[i] % PageSize = 0 /\ sums[i] \in Nat
    <3>1. i \in 1..Len(sums) /\ w \in 1..Len(sums) /\ i <= w
      BY <1>1, <1>3, SMT
    <3>2. sums[i] <= sums[w] /\ sums[i] % PageSize = 0
      BY <3>1 DEF WriterInv, SumsOK
    <3>3. sums[i] \in Nat
      BY <1>3, <3>1, SumAt
    <3> QED
      BY <1>3, <3>2, <3>3
  <2>3. \A i \in 1..(w + 1) : sums'[i] % PageSize = 0
    BY <1>1, <1>3, <1>4, <2>1, <2>2, SMT
  <2>4. ASSUME NEW i \in 1..(w + 1), NEW j \in 1..(w + 1), i <= j
        PROVE  sums'[i] <= sums'[j]
    <3>1. CASE j \in 1..w
      <4>1. i \in 1..w
        BY <2>4, <3>1, SMT
      <4> QED
        BY <1>3, <1>4, <2>4, <3>1, <4>1 DEF WriterInv, SumsOK
    <3>2. CASE j = w + 1 /\ i \in 1..w
      BY <1>2, <1>3, <1>4, <2>2, <3>2, SMT
    <3>3. CASE j = w + 1 /\ i = w + 1
      BY <1>2, <1>3, <1>4, <3>3, SMT
    <3> QED
      BY <1>1, <2>4, <3>1, <3>2, <3>3, SMT
  <2>5. ASSUME NEW i \in 1..w
        PROVE  sums'[i + 1] = sums'[i] + core.segments[i].filesz
    <3>1. CASE i = w
      BY <1>2, <1>3, <1>4, <3>1
    <3>2. CASE i # w
      <4>1. i \in 1..w /\ i + 1 \in 1..w /\ i \in Nat \ {0} /\ i + 1 <= Len(sums)
        BY <1>1, <1>3, <3>2, SMT
      <4>2. SumsOK /\ sums \in Seq(Nat)
        BY <1>3 DEF WriterInv
      <4>3. sums[i + 1] = sums[i] + core.segments[i].filesz
        BY <4>1, <4>2, NextSum
      <4> QED
        BY <1>4, <4>1, <4>3
    <3> QED
      BY <3>1, <3>2
  <2>6. sums'[1] = 0 /\ Len(sums') \in 1..(Count + 1) /\ (w + 1) - 1 = w
    <3>1. sums[1] = 0 /\ 1 \in 1..w
      BY <1>1, <1>3 DEF WriterInv, SumsOK
    <3> QED
      BY <1>1, <1>3, <1>4, <3>1, SMT
  <2>7. /\ Count' = Count /\ core' = core /\ Len(sums') = w + 1
        /\ totalData' = sums'[Len(sums')]
    BY <1>3, <1>4, SameLayout
  <2>8. \A i \in 1..(Len(sums') - 1) : sums'[i + 1] = sums'[i] + core'.segments[i].filesz
    BY <2>5, <2>6, <2>7
  <2>9. \A i, j \in 1..Len(sums') : i <= j => sums'[i] <= sums'[j]
    BY <2>4, <2>7
  <2>10. \A i \in 1..Len(sums') : sums'[i] % PageSize = 0
    BY <2>3, <2>7
  <2> QED
    BY <2>6, <2>7, <2>8, <2>9, <2>10 DEF SumsOK
<1>7. PhdrsOK' /\ PlacedOK'
  BY <1>3, SMT DEF PhdrsOK, PlacedOK, Count
<1>8. PhasesOK'
  <2>1. w + 1 \in 1..(Count + 1)
    BY <1>1, <1>3, SMT
  <2> QED
    BY <1>3, <1>4, <2>1, SameLayout DEF WriterInv, PhasesOK, HeadersComplete
<1> QED
  BY <1>5, <1>6, <1>7, <1>8 DEF WriterInv

LEMMA EhdrStep == WriterInv /\ WriteEhdr => WriterInv'
<1> SUFFICES ASSUME WriterInv, WriteEhdr
             PROVE  WriterInv'
  OBVIOUS
<1>0. core \in Inputs /\ pos = 0
  BY DEF WriterInv, WriteEhdr, TypeOK, PhasesOK
<1>1. core \in Inputs /\ Count \in Nat /\ Phnum \in Nat /\ EhdrSize \in Nat /\ pos = 0
  <2>1. Count \in Nat /\ Phnum = Count + 1 /\ EhdrSize \in Nat
    BY <1>0, LayoutFacts
  <2> QED
    BY <1>0, <2>1, SMT
<1>2. SumsOK' /\ PhdrsOK' /\ PlacedOK'
  BY SumsKept, PhdrsKept, PlacedKept DEF WriterInv, WriteEhdr
<1>3. TypeOK'
  BY <1>1, SMT DEF WriterInv, WriteEhdr, TypeOK
<1>4. PhasesOK'
  <2>1. pos' = EhdrSize
    BY <1>1, SMT DEF WriteEhdr
  <2>2. Len(sums) = Count + 1
    BY <1>1, SMT DEF WriterInv, WriteEhdr, PhasesOK
  <2> QED
    BY <2>1, <2>2, SameLayout DEF WriterInv, WriteEhdr, PhasesOK, HeadersComplete
<1> QED
  BY <1>2, <1>3, <1>4 DEF WriterInv

LEMMA NotePhdrStep == WriterInv /\ WriteNotePhdr => WriterInv'
<1> SUFFICES ASSUME WriterInv, WriteNotePhdr
             PROVE  WriterInv'
  OBVIOUS
<1>1. CASE RefusePhdr(NotePhdr)
  BY <1>1, RefuseKept
<1>2. CASE /\ WritePhdr(NotePhdr)
           /\ phase' = "load_phdrs" /\ walk' = 1
           /\ UNCHANGED <<core, totalData, loadOffset, ehdr, placed, sums>>
  <2>1. /\ core \in Inputs /\ core' = core /\ phase = "note_phdr"
        /\ phdrs = <<>> /\ placed = <<>> /\ pos = EhdrSize /\ loadOffset = LoadStart
        /\ Len(sums) = Count + 1 /\ sums[1] = 0 /\ ehdr = Phnum
    BY <1>2 DEF WriterInv, WriteNotePhdr, TypeOK, PhasesOK, SumsOK
  <2> /\ PtNoteOffset \in Nat /\ core.noteLen \in Nat /\ LoadStart \in Nat
      /\ EhdrSize \in Nat /\ PhdrSize \in Nat /\ Count \in Nat
    BY <2>1, LayoutFacts
  <2>2. NotePhdr \in Phdr /\ NotePhdr.offset = PtNoteOffset /\ NotePhdr.filesz = core.noteLen
    BY DEF NotePhdr, Phdr
  <2>3. /\ phdrs' = <<NotePhdr>> /\ Len(phdrs') = 1 /\ phdrs'[1] = NotePhdr
        /\ pos' = EhdrSize + PhdrSize /\ PhdrSize * 1 = PhdrSize
        /\ phdrs' \in Seq(Phdr) /\ pos' \in Nat
    BY <1>2, <2>1, <2>2, SMT DEF WritePhdr
  <2>4. TypeOK'
    BY <1>2, <2>1, <2>3, SMT DEF WriterInv, TypeOK
  <2>5. SumsOK' /\ PlacedOK'
    <3>1. SumsOK'
      BY <1>2, <2>1, SumsKept DEF WriterInv
    <3>2. placed' = <<>> /\ Len(placed') = 0 /\ 1..(0 - 1) = {}
      BY <1>2, <2>1, SMT
    <3>3. 0 <= Count' + 1
      BY <2>1, SameLayout, SMT
    <3> QED
      BY <3>1, <3>2, <3>3, SMT DEF PlacedOK
  <2>6. PhdrsOK'
    <3>1. 1 <= Count + 1 /\ 1..(Len(phdrs') - 1) = {}
      BY <2>3, SMT
    <3> QED
      BY <1>2, <2>1, <2>2, <2>3, <3>1, SameLayout DEF PhdrsOK
  <2>7. PhasesOK'
    <3>1. 1 \in 1..(Count + 1) /\ LoadStart = LoadStart + sums[1]
      BY <2>1, SMT
    <3> QED
      BY <1>2, <2>1, <2>3, <3>1, SameLayout DEF WriterInv, PhasesOK, HeadersComplete
  <2> QED
    BY <2>4, <2>5, <2>6, <2>7 DEF WriterInv
<1> QED
  BY <1>1, <1>2 DEF WriteNotePhdr

\* The header of segment w announces LoadStart + sums[w], where the loop stands.
LEMMA LoadPhdrStep == WriterInv /\ WriteLoadPhdr => WriterInv'
<1> SUFFICES ASSUME WriterInv, WriteLoadPhdr
             PROVE  WriterInv'
  OBVIOUS
<1>1. PICK w \in 1..Count : w = walk
  BY SMT DEF WriteLoadPhdr, WriterInv, TypeOK
<1>2. PICK s \in Segment : s = core.segments[w] /\ s.filesz \in Nat /\ s.start \in Nat
  BY <1>1, SegmentFacts DEF WriterInv, TypeOK
<1>3. CASE phase' = "failed" /\ UNCHANGED <<core, pos, totalData, loadOffset, ehdr,
                                            phdrs, walk, placed, sums>>
  BY <1>3, FailKept
<1>4. CASE /\ WritePhdr(LoadPhdr(s))
           /\ loadOffset' = loadOffset + s.filesz
           /\ walk' = walk + 1
           /\ UNCHANGED <<core, phase, totalData, ehdr, placed, sums>>
  <2>1. /\ core \in Inputs /\ Count \in Nat /\ core' = core /\ phase = "load_phdrs"
        /\ placed = <<>> /\ Len(phdrs) = w /\ phdrs \in Seq(Phdr)
        /\ pos = EhdrSize + (PhdrSize * w) /\ pos \in Nat
        /\ loadOffset = LoadStart + sums[w] /\ loadOffset \in Nat
        /\ Len(sums) = Count + 1 /\ ehdr = Phnum /\ sums[w + 1] = sums[w] + s.filesz
        /\ sums[w] \in Nat /\ sums[w + 1] \in Nat /\ totalData \in Nat
    <3>1. core \in Inputs /\ phase = "load_phdrs" /\ core' = core
      BY <1>4 DEF WriterInv, TypeOK, WriteLoadPhdr
    <3>2. Count \in Nat
      BY <3>1, LayoutFacts
    <3>3. /\ placed = <<>> /\ Len(phdrs) = w /\ phdrs \in Seq(Phdr)
          /\ pos = EhdrSize + (PhdrSize * w) /\ pos \in Nat
          /\ loadOffset = LoadStart + sums[w] /\ loadOffset \in Nat
          /\ Len(sums) = Count + 1 /\ sums \in Seq(Nat) /\ ehdr = Phnum /\ totalData \in Nat
      BY <1>1, <3>1 DEF WriterInv, TypeOK, PhasesOK
    <3>4. w \in Nat \ {0} /\ w + 1 <= Len(sums)
      BY <3>2, <3>3, SMT
    <3>5. /\ sums[w] \in Nat /\ sums[w + 1] \in Nat
          /\ sums[w + 1] = sums[w] + core.segments[w].filesz
      <4>1. SumsOK
        BY DEF WriterInv
      <4>2. sums \in Seq(Nat)
        BY <3>3
      <4> QED
        BY <3>4, <4>1, <4>2, NextSum
    <3> QED
      BY <1>2, <3>1, <3>2, <3>3, <3>5
  <2> /\ LoadStart \in Nat /\ EhdrSize \in Nat /\ PhdrSize \in {32, 56}
    BY <2>1, LayoutFacts DEF PhdrSize
  <2>2. PICK h : h = LoadPhdr(s)
    OBVIOUS
  <2>3. /\ h \in Phdr /\ h.filesz = s.filesz /\ h.vaddr = s.start
        /\ h.offset = IF s.filesz = 0 THEN EmptyOffset ELSE loadOffset
    <3>1. WrapSub(s.end, s.start) \in Nat
      BY <1>2, PageArithAssumption, SMT DEF WrapSub, Segment, Addr
    <3>2. EmptyOffset \in Nat
      BY <2>1, SMT DEF EmptyOffset
    <3>3. loadOffset \in Nat /\ s.filesz \in Nat /\ s.start \in Nat
      BY <1>2, <2>1
    <3>4. h = [type |-> "PT_LOAD", vaddr |-> s.start,
               offset |-> IF s.filesz = 0 THEN EmptyOffset ELSE loadOffset,
               filesz |-> s.filesz, memsz |-> WrapSub(s.end, s.start)]
      BY <2>2 DEF LoadPhdr
    <3> QED
      BY <3>1, <3>2, <3>3, <3>4 DEF Phdr
  <2>4. /\ phdrs' = Append(phdrs, h) /\ pos' = pos + PhdrSize /\ walk' = w + 1
        /\ phdrs' \in Seq(Phdr) /\ Len(phdrs') = w + 1 /\ phdrs'[w + 1] = h
        /\ \A i \in 1..w : phdrs'[i] = phdrs[i]
    BY <1>1, <1>4, <2>1, <2>2, <2>3, SMT DEF WritePhdr
  <2>5. TypeOK'
    <3>1. pos' \in Nat /\ loadOffset' \in Nat /\ walk' \in Nat \ {0}
      <4> pos \in Nat /\ loadOffset \in Nat /\ PhdrSize \in Nat
        BY <2>1
      <4> QED
        BY <1>1, <1>2, <1>4, <2>4, SMT
    <3> QED
      BY <1>4, <2>4, <3>1 DEF WriterInv, TypeOK
  <2>6. SumsOK' /\ PlacedOK'
    BY <1>4, <2>1, SumsKept, SMT DEF WriterInv, PlacedOK, Count
  <2>7. PhdrsOK'
    <3>1. ASSUME NEW i \in 1..w
          PROVE  PhdrOK(i)'
      <4>1. CASE i = w
        BY <1>2, <1>4, <2>1, <2>3, <2>4, <4>1, SameLayout DEF PhdrOK, EmptyOffset
      <4>2. CASE i # w
        <5>1. i \in 1..(Len(phdrs) - 1) /\ i + 1 \in 1..w
          BY <1>1, <2>1, <4>2, SMT
        <5>2. PhdrOK(i) /\ phdrs'[i + 1] = phdrs[i + 1]
          BY <2>4, <5>1 DEF WriterInv, PhdrsOK
        <5> QED
          BY <1>4, <2>1, <5>2, SameLayout DEF PhdrOK, EmptyOffset
      <4> QED
        BY <4>1, <4>2
    <3>2. /\ Len(phdrs) > 0 /\ 1 \in 1..w /\ w + 1 <= Count + 1 /\ (w + 1) - 1 = w
      BY <1>1, <2>1, SMT
    <3>3. phdrs'[1] = phdrs[1]
      BY <2>4, <3>2
    <3> QED
      BY <1>4, <2>1, <2>4, <3>1, <3>2, <3>3, SameLayout DEF WriterInv, PhdrsOK
  <2>8. PhasesOK'
    <3>1. w + 1 \in 1..(Count + 1) /\ loadOffset' = LoadStart + sums[w + 1]
      BY <1>1, <1>2, <1>4, <2>1, SMT
    <3>2. pos' = EhdrSize + (PhdrSize * (w + 1))
      <4>1. CASE PhdrSize = 32
        BY <2>1, <2>4, <4>1, SMT
      <4>2. CASE PhdrSize = 56
        BY <2>1, <2>4, <4>2, SMT
      <4> QED
        BY <4>1, <4>2
    <3> QED
      BY <1>4, <2>1, <2>4, <3>1, <3>2, SameLayout DEF WriterInv, PhasesOK, HeadersComplete
  <2> QED
    BY <2>5, <2>6, <2>7, <2>8 DEF WriterInv
<1>5. CASE RefusePhdr(LoadPhdr(s))
  BY <1>5, RefuseKept
<1> QED
  BY <1>1, <1>2, <1>3, <1>4, <1>5 DEF WriteLoadPhdr

LEMMA NotesStep == WriterInv /\ WriteNotes => WriterInv'
<1> SUFFICES ASSUME WriterInv, WriteNotes
             PROVE  WriterInv'
  OBVIOUS
<1>1. /\ core \in Inputs /\ core' = core /\ phase = "load_phdrs" /\ phase' = "pad"
      /\ Len(phdrs) = walk /\ placed = <<>> /\ walk \in Nat /\ walk > Count
      /\ walk \in 1..(Count + 1) /\ pos = EhdrSize + (PhdrSize * walk) /\ pos \in Nat
      /\ placed' = Append(placed, pos) /\ pos' = pos + core.noteLen
  BY DEF WriterInv, WriteNotes, TypeOK, PhasesOK
<1>2. /\ Count \in Nat /\ core.noteLen \in Nat /\ PtNoteEnd = PtNoteOffset + core.noteLen
      /\ PtNoteOffset = EhdrSize + (PhdrSize * (Count + 1))
  BY <1>1, LayoutFacts
<1>3. walk = Count + 1
  BY <1>1, <1>2, SMT
<1>4. pos = PtNoteOffset
  BY <1>1, <1>2, <1>3
<1>5. /\ placed' = <<pos>> /\ Len(placed') = 1 /\ placed'[1] = pos /\ placed' \in Seq(Nat)
      /\ pos' \in Nat /\ pos' = PtNoteEnd /\ 1..(1 - 1) = {} /\ 1 <= Count + 1
  BY <1>1, <1>2, <1>4, SMT
<1>6. TypeOK'
  BY <1>5 DEF WriterInv, WriteNotes, TypeOK
<1>7. SumsOK' /\ PhdrsOK'
  BY SumsKept, PhdrsKept DEF WriterInv, WriteNotes
<1>8. PlacedOK'
  BY <1>1, <1>3, <1>4, <1>5, SameLayout DEF PlacedOK, WriteNotes
<1>9. PhasesOK'
  BY <1>1, <1>3, <1>5, SameLayout DEF WriterInv, WriteNotes, PhasesOK, HeadersComplete
<1> QED
  BY <1>6, <1>7, <1>8, <1>9 DEF WriterInv

LEMMA PadStep == WriterInv /\ WritePad => WriterInv'
<1> SUFFICES ASSUME WriterInv, WritePad
             PROVE  WriterInv'
  OBVIOUS
<1>1. /\ core \in Inputs /\ core' = core /\ phase = "pad" /\ phase' = "data" /\ walk' = 1
      /\ pos = PtNoteEnd /\ pos' = pos + NotePad /\ Len(placed) = 1 /\ sums[1] = 0
  BY DEF WriterInv, WritePad, TypeOK, PhasesOK, SumsOK
<1>2. /\ Count \in Nat /\ LoadStart \in Nat /\ LoadStart = PtNoteEnd + NotePad
  BY <1>1, LayoutFacts
<1>3. pos' = LoadStart + sums[1] /\ pos' \in Nat /\ 1 \in 1..(Count + 1)
  BY <1>1, <1>2, SMT
<1>4. TypeOK'
  BY <1>3, SMT DEF WriterInv, WritePad, TypeOK
<1>5. SumsOK' /\ PhdrsOK' /\ PlacedOK'
  BY SumsKept, PhdrsKept, PlacedKept DEF WriterInv, WritePad
<1>6. PhasesOK'
  BY <1>1, <1>3, SameLayout DEF WriterInv, WritePad, PhasesOK, HeadersComplete
<1> QED
  BY <1>4, <1>5, <1>6 DEF WriterInv

\* The third walk stands where the second said it would.
LEMMA DataStep == WriterInv /\ WriteData => WriterInv'
<1> SUFFICES ASSUME WriterInv, WriteData
             PROVE  WriterInv'
  OBVIOUS
<1>1. PICK w \in 1..Count : w = walk
  BY SMT DEF WriteData, WriterInv, TypeOK
<1>2. PICK f \in Nat : f = core.segments[w].filesz
  BY <1>1, SegmentFacts DEF WriterInv, TypeOK
<1>3. /\ core \in Inputs /\ core' = core /\ phase = "data" /\ phase' = "data"
      /\ Len(placed) = w /\ placed \in Seq(Nat) /\ pos = LoadStart + sums[w] /\ pos \in Nat
      /\ placed' = Append(placed, pos) /\ pos' = pos + f /\ walk' = w + 1
      /\ Len(sums) = Count + 1 /\ sums \in Seq(Nat) /\ placed[1] = PtNoteOffset
      /\ Len(phdrs) = Count + 1 /\ ehdr = Phnum
  <2>1. walk > 0
    BY DEF WriterInv, TypeOK
  <2> QED
    BY <1>1, <1>2, <2>1, SMT DEF WriterInv, WriteData, TypeOK, PhasesOK, PlacedOK, HeadersComplete
<1>4. Count \in Nat /\ LoadStart \in Nat
  BY <1>3, LayoutFacts
<1>5. SumsOK /\ sums \in Seq(Nat)
  BY <1>3 DEF WriterInv
<1>6. sums[w + 1] = sums[w] + f /\ sums[w] \in Nat /\ sums[w + 1] \in Nat
  <2>1. w \in Nat \ {0} /\ w + 1 <= Len(sums)
    BY <1>3, <1>4, SMT
  <2>2. /\ sums[w] \in Nat /\ sums[w + 1] \in Nat
        /\ sums[w + 1] = sums[w] + core.segments[w].filesz
    BY <1>5, <2>1, NextSum
  <2> QED
    BY <1>2, <2>2
<1>7. /\ placed' \in Seq(Nat) /\ Len(placed') = w + 1 /\ placed'[w + 1] = pos
      /\ \A i \in 1..w : placed'[i] = placed[i]
      /\ pos' = LoadStart + sums[w + 1] /\ pos' \in Nat /\ walk' \in Nat \ {0}
      /\ w + 1 \in 1..(Count + 1) /\ (w + 1) - 1 = w /\ 1 \in 1..w /\ w + 1 <= Count + 1
  <2>1. /\ placed' \in Seq(Nat) /\ Len(placed') = w + 1 /\ placed'[w + 1] = pos
        /\ \A i \in 1..w : placed'[i] = placed[i]
    <3> placed \in Seq(Nat) /\ pos \in Nat /\ Len(placed) = w /\ placed' = Append(placed, pos)
      BY <1>3
    <3> QED
      BY SMT
  <2>2. pos' = LoadStart + sums[w + 1] /\ pos' \in Nat
    <3>1. PICK x \in Nat, l \in Nat : x = sums[w] /\ l = LoadStart
      BY <1>4, <1>6
    <3>2. pos' = (l + x) + f /\ sums[w + 1] = x + f
      BY <1>3, <1>6, <3>1
    <3>3. (l + x) + f = l + (x + f) /\ (l + x) + f \in Nat
      BY SMT
    <3> QED
      BY <3>1, <3>2, <3>3
  <2>3. /\ walk' \in Nat \ {0} /\ w + 1 \in 1..(Count + 1) /\ (w + 1) - 1 = w
        /\ 1 \in 1..w /\ w + 1 <= Count + 1
    BY <1>3, <1>4, SMT
  <2> QED
    BY <2>1, <2>2, <2>3
<1>8. TypeOK'
  BY <1>7 DEF WriterInv, WriteData, TypeOK
<1>9. SumsOK' /\ PhdrsOK'
  BY SumsKept, PhdrsKept DEF WriterInv, WriteData
<1>10. PlacedOK'
  <2>1. ASSUME NEW i \in 1..w
        PROVE  placed'[i + 1] = LoadStart + sums[i]
    <3>1. CASE i = w
      BY <1>3, <1>7, <3>1
    <3>2. CASE i # w
      <4>1. i \in 1..(Len(placed) - 1) /\ i + 1 \in 1..w
        BY <1>3, <3>2, SMT
      <4> QED
        BY <1>7, <4>1 DEF WriterInv, PlacedOK
    <3> QED
      BY <3>1, <3>2
  <2> QED
    BY <1>3, <1>7, <2>1, SameLayout DEF PlacedOK, WriteData
<1>11. PhasesOK'
  BY <1>3, <1>7, SameLayout DEF WriterInv, WriteData, PhasesOK, HeadersComplete
<1> QED
  BY <1>8, <1>9, <1>10, <1>11 DEF WriterInv

LEMMA FinishStep == WriterInv /\ Finish => WriterInv'
<1> SUFFICES ASSUME WriterInv, Finish
             PROVE  WriterInv'
  OBVIOUS
<1>1. /\ core \in Inputs /\ core' = core /\ phase = "data" /\ phase' = "done"
      /\ walk > Count /\ walk \in 1..(Count + 1) /\ Len(placed) = walk
      /\ pos = LoadStart + sums[walk] /\ Len(sums) = Count + 1 /\ totalData = sums[Len(sums)]
  BY DEF WriterInv, Finish, TypeOK, PhasesOK, SumsOK
<1>2. Count \in Nat
  BY <1>1, LayoutFacts
<1>3. walk = Count + 1
  BY <1>1, <1>2, SMT
<1>4. SumsOK' /\ PhdrsOK' /\ PlacedOK'
  BY SumsKept, PhdrsKept, PlacedKept DEF WriterInv, Finish
<1>5. TypeOK' /\ PhasesOK'
  BY <1>1, <1>3, SameLayout DEF WriterInv, Finish, TypeOK, PhasesOK, HeadersComplete
<1> QED
  BY <1>4, <1>5 DEF WriterInv

\* Every stage keeps the invariant.
LEMMA WriterStep == WriterInv /\ [Next]_vars => WriterInv'
<1> SUFFICES ASSUME WriterInv, [Next]_vars
             PROVE  WriterInv'
  OBVIOUS
<1>1. CASE WriteFails
  BY <1>1, FailKept DEF WriteFails
<1>2. CASE UNCHANGED vars
  <2>1. SumsOK' /\ PhdrsOK' /\ PlacedOK'
    BY <1>2, SumsKept, PhdrsKept, PlacedKept DEF WriterInv, vars
  <2>2. TypeOK' /\ PhasesOK'
    BY <1>2, SameLayout DEF WriterInv, vars, TypeOK, PhasesOK, HeadersComplete
  <2> QED
    BY <2>1, <2>2 DEF WriterInv
<1> QED
  BY <1>1, <1>2, LayoutStep, SumStep, EhdrStep, NotePhdrStep, LoadPhdrStep, NotesStep,
     PadStep, DataStep, FinishStep DEF Next

\* In every run, each header names the running sum at its segment, and each
\* segment is written at that sum.
THEOREM WriterInvariant == Spec => []WriterInv
<1> QED
  BY WriterInit, WriterStep, PTL DEF Spec

\* TypeOK: the writer keeps offsets and lengths natural numbers.
THEOREM WriterTypeOK == Spec => []TypeOK
<1>1. WriterInv => TypeOK
  BY DEF WriterInv
<1> QED
  BY <1>1, WriterInvariant, PTL

\* The PT_NOTE header announces the place of the notes.
THEOREM WriterNotes == Spec => []NotesWhereAnnounced
<1>1. WriterInv => NotesWhereAnnounced
  <2> SUFFICES ASSUME WriterInv, HeadersComplete
               PROVE  phdrs[1].offset = placed[1]
    BY DEF NotesWhereAnnounced
  <2>1. Len(phdrs) = Count + 1 /\ Count \in Nat /\ Len(placed) > 0
    <3>1. Len(phdrs) = Count + 1 /\ Count \in Nat /\ walk \in 1..(Count + 1)
      BY LayoutFacts DEF WriterInv, TypeOK, PhasesOK
    <3>2. Len(placed) \in {1, walk, Count + 1}
      BY DEF WriterInv, PhasesOK, HeadersComplete
    <3> QED
      BY <3>1, <3>2, SMT
  <2>2. Len(phdrs) > 0
    BY <2>1, SMT
  <2> QED
    BY <2>1, <2>2 DEF WriterInv, PhdrsOK, PlacedOK
<1> QED
  BY <1>1, WriterInvariant, PTL

\* The PT_LOAD header of every segment with data announces the place of the data.
THEOREM WriterData == Spec => []DataWhereAnnounced
<1>1. WriterInv => DataWhereAnnounced
  <2> SUFFICES ASSUME WriterInv, NEW i \in 1..(Len(placed) - 1), core.segments[i].filesz > 0
               PROVE  phdrs[i + 1].offset = placed[i + 1]
    BY DEF DataWhereAnnounced
  <2>1. Count \in Nat /\ Len(placed) \in Nat
    BY LayoutFacts DEF WriterInv, TypeOK
  <2>2. Len(placed) > 0 /\ Len(placed) <= Count + 1
    BY <2>1, SMT DEF WriterInv, PlacedOK
  <2>3. Len(phdrs) = Count + 1
    BY <2>2 DEF WriterInv, PlacedOK
  <2>4. i \in 1..(Len(phdrs) - 1) /\ i \in 1..Count
    BY <2>1, <2>2, <2>3, SMT
  <2>5. core.segments[i].filesz # 0
    BY <2>4, SegmentFacts, SMT DEF WriterInv, TypeOK
  <2>6. phdrs[i + 1].offset = LoadStart + sums[i]
    BY <2>4, <2>5 DEF WriterInv, PhdrsOK, PhdrOK
  <2> QED
    BY <2>6 DEF WriterInv, PlacedOK
<1> QED
  BY <1>1, WriterInvariant, PTL

\* Notes and data stand where their headers announced them.
THEOREM WriterAnnounced == Spec => []PartsWhereAnnounced
<1>1. NotesWhereAnnounced /\ DataWhereAnnounced => PartsWhereAnnounced
  BY DEF PartsWhereAnnounced
<1> QED
  BY <1>1, WriterNotes, WriterData, PTL

\* A segment without data points behind the last byte of the file.
THEOREM WriterEmptyPastEnd == Spec => []EmptyPastEnd
<1>1. WriterInv => EmptyPastEnd
  <2> SUFFICES ASSUME WriterInv, phase = "done", NEW i \in 1..Count,
                      core.segments[i].filesz = 0
               PROVE  phdrs[i + 1].offset >= pos
    BY DEF EmptyPastEnd
  <2>1. Count \in Nat /\ Len(phdrs) = Count + 1 /\ pos = LoadStart + totalData /\ pos \in Nat
    BY LayoutFacts DEF WriterInv, TypeOK, PhasesOK, HeadersComplete
  <2>2. i \in 1..(Len(phdrs) - 1)
    BY <2>1, SMT
  <2>3. phdrs[i + 1].offset = pos
    BY <2>1, <2>2 DEF WriterInv, PhdrsOK, PhdrOK, EmptyOffset
  <2> QED
    BY <2>1, <2>3, SMT
<1> QED
  BY <1>1, WriterInvariant, PTL

\* e_phnum counts the headers, and fits 16 bits.
THEOREM WriterPhnum == Spec => []PhnumTrue
<1>1. WriterInv => PhnumTrue
  BY LayoutFacts DEF WriterInv, TypeOK, PhasesOK, HeadersComplete, PhnumTrue
<1> QED
  BY <1>1, WriterInvariant, PTL

\* What the invariant says of the header of segment i.
LEMMA PhdrFacts ==
    ASSUME WriterInv, NEW i \in 1..(Len(phdrs) - 1), phdrs[i + 1].filesz > 0
    PROVE  /\ i \in 1..Count /\ Count \in Nat /\ Len(sums) = Count + 1
           /\ i \in 1..Len(sums) /\ i + 1 \in 1..Len(sums)
           /\ core.segments[i].start % PageSize = 0
           /\ phdrs[i + 1].vaddr = core.segments[i].start
           /\ phdrs[i + 1].offset = LoadStart + sums[i]
           /\ sums[i] \in Nat /\ sums[i] % PageSize = 0
           /\ sums[i + 1] \in Nat /\ LoadStart + sums[i + 1] = phdrs[i + 1].offset + phdrs[i + 1].filesz
<1>1. Count \in Nat /\ LoadStart \in Nat /\ Len(phdrs) \in Nat /\ sums \in Seq(Nat)
  BY LayoutFacts DEF WriterInv, TypeOK
<1>2. Len(phdrs) > 0 /\ Len(phdrs) <= Count + 1
  BY <1>1, SMT DEF WriterInv, PhdrsOK
<1>3. Len(sums) = Count + 1
  BY <1>2 DEF WriterInv, PhdrsOK
<1>4. i \in 1..Count /\ i \in 1..Len(sums) /\ i + 1 \in 1..Len(sums) /\ i \in 1..(Len(sums) - 1)
  BY <1>1, <1>2, <1>3, SMT
<1>5. PhdrOK(i)
  BY DEF WriterInv, PhdrsOK
<1>6. PICK f \in Nat : f = core.segments[i].filesz /\ f = phdrs[i + 1].filesz
  BY <1>4, <1>5, SegmentFacts DEF WriterInv, TypeOK, PhdrOK
<1>7. f # 0 /\ core.segments[i].filesz > 0
  BY <1>6, SMT
<1>8. core.segments[i].start % PageSize = 0
  BY <1>4, <1>7, SegmentFacts DEF WriterInv, TypeOK
<1>9. phdrs[i + 1].vaddr = core.segments[i].start /\ phdrs[i + 1].offset = LoadStart + sums[i]
  BY <1>5, <1>6, <1>7 DEF PhdrOK
<1>10. /\ sums[i] \in Nat /\ sums[i + 1] \in Nat /\ sums[i] % PageSize = 0
       /\ sums[i + 1] = sums[i] + f
  <2>1. sums[i] \in Nat /\ sums[i + 1] \in Nat
    BY <1>1, <1>4
  <2>2. sums[i] % PageSize = 0
    BY <1>4 DEF WriterInv, SumsOK
  <2>3. sums[i + 1] = sums[i] + core.segments[i].filesz
    BY <1>4 DEF WriterInv, SumsOK
  <2> QED
    BY <1>6, <2>1, <2>2, <2>3
<1>11. LoadStart + sums[i + 1] = phdrs[i + 1].offset + phdrs[i + 1].filesz
  <2>1. PICK x \in Nat, l \in Nat : x = sums[i] /\ l = LoadStart
    BY <1>1, <1>10
  <2>2. l + (x + f) = (l + x) + f
    BY SMT
  <2> QED
    BY <1>6, <1>9, <1>10, <2>1, <2>2
<1> QED
  BY <1>1, <1>3, <1>4, <1>8, <1>9, <1>10, <1>11

\* A segment with data can be mapped: its offset and its address agree modulo
\* the page.
THEOREM WriterPageCongruent == Spec => []PageCongruent
<1>1. WriterInv => PageCongruent
  <2> SUFFICES ASSUME WriterInv, NEW k \in 2..Len(phdrs), phdrs[k].filesz > 0
               PROVE  phdrs[k].offset % PageSize = phdrs[k].vaddr % PageSize
    BY DEF PageCongruent
  <2>1. PICK i \in 1..(Len(phdrs) - 1) : k = i + 1
    <3> Len(phdrs) \in Nat
      BY DEF WriterInv, TypeOK
    <3> k - 1 \in 1..(Len(phdrs) - 1) /\ k = (k - 1) + 1
      BY SMT
    <3> QED
      OBVIOUS
  <2>2. /\ phdrs[k].offset = LoadStart + sums[i] /\ sums[i] \in Nat /\ sums[i] % PageSize = 0
        /\ phdrs[k].vaddr % PageSize = 0
    BY <2>1, PhdrFacts
  <2>3. LoadStart \in Nat /\ LoadStart % PageSize = 0
    BY LayoutFacts DEF WriterInv, TypeOK
  <2>4. (LoadStart + sums[i]) % PageSize = sums[i] % PageSize
    <3> LoadStart \in Int /\ sums[i] \in Int
      BY <2>2, <2>3, SMT
    <3> QED
      BY <2>3, ModShift
  <2> QED
    BY <2>2, <2>4
<1> QED
  BY <1>1, WriterInvariant, PTL

\* The headers, the notes and the data of each segment do not overlap.
THEOREM WriterPartsApart == Spec => []PartsApart
<1>1. WriterInv => PartsApart
  <2> SUFFICES ASSUME WriterInv, HeadersComplete
               PROVE  PartsApart
    BY DEF PartsApart
  <2>1. /\ Len(phdrs) = Count + 1 /\ Count \in Nat /\ ehdr = Phnum /\ Phnum = Count + 1
        /\ PtNoteOffset = EhdrSize + (PhdrSize * (Count + 1)) /\ PtNoteOffset \in Nat
        /\ PtNoteEnd \in Nat /\ PtNoteEnd = PtNoteOffset + core.noteLen
        /\ NotePad \in Nat /\ LoadStart = PtNoteEnd + NotePad /\ LoadStart \in Nat
    BY LayoutFacts DEF WriterInv, TypeOK, PhasesOK, HeadersComplete
  <2>2. Len(phdrs) > 0
    BY <2>1, SMT
  <2>3. phdrs[1].offset = PtNoteOffset /\ phdrs[1].filesz = core.noteLen
    BY <2>2 DEF WriterInv, PhdrsOK
  <2>4. EhdrSize + PhdrSize * ehdr <= phdrs[1].offset
    <3>1. EhdrSize + PhdrSize * ehdr = PtNoteOffset
      BY <2>1
    <3> QED
      BY <2>1, <2>3, <3>1, SMT
  <2>5. ASSUME NEW i \in 1..Len(phdrs), NEW j \in 1..Len(phdrs), i < j, phdrs[j].filesz > 0,
               phdrs[i].filesz # 0
        PROVE  phdrs[i].offset + phdrs[i].filesz <= phdrs[j].offset
    <3>1. PICK b \in 1..(Len(phdrs) - 1) : j = b + 1
      <4> j - 1 \in 1..(Len(phdrs) - 1) /\ j = (j - 1) + 1
        BY <2>1, <2>5, SMT
      <4> QED
        OBVIOUS
    <3>2. phdrs[j].offset = LoadStart + sums[b] /\ sums[b] \in Nat /\ b \in 1..Len(sums)
      BY <2>5, <3>1, PhdrFacts
    <3>3. CASE i = 1
      <4>1. phdrs[i].offset + phdrs[i].filesz = PtNoteEnd
        BY <2>1, <2>3, <3>3
      <4> QED
        BY <2>1, <3>2, <4>1, SMT
    <3>4. CASE i # 1
      <4>1. PICK a \in 1..(Len(phdrs) - 1) : i = a + 1
        <5> i - 1 \in 1..(Len(phdrs) - 1) /\ i = (i - 1) + 1
          BY <2>1, <3>4, SMT
        <5> QED
          OBVIOUS
      <4>2. phdrs[i].filesz > 0
        <5>1. phdrs[i] \in Phdr
          <6> phdrs \in Seq(Phdr)
            BY DEF WriterInv, TypeOK
          <6> QED
            OBVIOUS
        <5>2. phdrs[i].filesz \in Nat
          BY <5>1 DEF Phdr
        <5> QED
          BY <2>5, <5>2, SMT
      <4>3. /\ LoadStart + sums[a + 1] = phdrs[i].offset + phdrs[i].filesz
            /\ a + 1 \in 1..Len(sums) /\ sums[a + 1] \in Nat
        BY <4>1, <4>2, PhdrFacts
      <4>4. a + 1 <= b
        BY <2>1, <2>5, <3>1, <4>1, SMT
      <4>5. sums[a + 1] <= sums[b]
        BY <3>2, <4>3, <4>4 DEF WriterInv, SumsOK
      <4>6. LoadStart + sums[a + 1] <= LoadStart + sums[b]
        <5>1. PICK x \in Nat, y \in Nat, l \in Nat :
                  x = sums[a + 1] /\ y = sums[b] /\ l = LoadStart
          BY <2>1, <3>2, <4>3
        <5>2. l + x <= l + y
          BY <4>5, <5>1, SMT
        <5> QED
          BY <5>1, <5>2
      <4> QED
        BY <3>2, <4>3, <4>6
    <3> QED
      BY <3>3, <3>4
  <2> QED
    BY <2>4, <2>5 DEF PartsApart
<1> QED
  BY <1>1, WriterInvariant, PTL

-----------------------------------------------------------------------------
(* What the program that calls write_core needs of it.                     *)

\* No step takes back a byte, nor changes the input.
LEMMA WriterMoves ==
    ASSUME WriterInv, Next
    PROVE  core' = core /\ pos \in Nat /\ pos <= pos'
<1>1. core \in Inputs /\ pos \in Nat
  BY DEF WriterInv, TypeOK
<1>2. EhdrSize \in Nat /\ PhdrSize \in Nat /\ core.noteLen \in Nat /\ NotePad \in Nat
  BY <1>1, LayoutFacts
<1>3. \A n \in Nat : pos' = pos + n => pos <= pos'
  BY <1>1, SMT
<1>4. pos' = pos => pos <= pos'
  BY <1>1, SMT
<1>5. ASSUME WriteData
      PROVE  pos <= pos'
  <2>1. walk \in 1..Count
    BY <1>1, <1>5, LayoutFacts, SMT DEF WriteData, WriterInv, PhasesOK
  <2> QED
    BY <1>1, <1>3, <1>5, <2>1, SegmentFacts DEF WriteData
<1>6. core' = core
  BY DEF Next, ComputeLayout, SumData, WriteEhdr, WriteNotePhdr, WriteLoadPhdr, WriteNotes,
     WritePad, WriteData, Finish, WriteFails, RefusePhdr
<1>7. pos <= pos'
  BY <1>2, <1>3, <1>4, <1>5, RefusedBytes DEF Next, ComputeLayout, SumData, WriteEhdr,
     WriteNotePhdr,
     WriteLoadPhdr, WritePhdr, WriteNotes, WritePad, Finish, WriteFails, RefusePhdr
<1> QED
  BY <1>1, <1>6, <1>7

\* A finished file reaches as far as every header says.
LEMMA HeadersReach ==
    ASSUME WriterInv, phase = "done", NEW k \in 1..Len(phdrs), phdrs[k].filesz > 0
    PROVE  phdrs[k].offset + phdrs[k].filesz <= pos
<1>1. /\ Len(phdrs) = Count + 1 /\ Count \in Nat /\ Len(sums) = Count + 1
      /\ LoadStart \in Nat /\ PtNoteEnd \in Nat /\ NotePad \in Nat /\ LoadStart = PtNoteEnd + NotePad
      /\ PtNoteEnd = PtNoteOffset + core.noteLen /\ sums \in Seq(Nat)
      /\ pos = LoadStart + sums[Len(sums)]
  BY LayoutFacts DEF WriterInv, TypeOK, PhasesOK, HeadersComplete, SumsOK
<1>2. Len(sums) \in 1..Len(sums) /\ sums[Len(sums)] \in Nat
  BY <1>1, SMT
<1>3. CASE k = 1
  <2>1. phdrs[k].offset + phdrs[k].filesz = PtNoteEnd
    BY <1>1, <1>3, SMT DEF WriterInv, PhdrsOK
  <2> QED
    BY <1>1, <1>2, <2>1, SMT
<1>4. CASE k # 1
  <2>1. k - 1 \in 1..(Len(phdrs) - 1) /\ (k - 1) + 1 = k
    BY <1>1, <1>4, SMT
  <2>2. PICK i \in 1..(Len(phdrs) - 1) : k = i + 1
    BY <2>1
  <2>3. /\ i + 1 \in 1..Len(sums) /\ sums[i + 1] \in Nat
        /\ LoadStart + sums[i + 1] = phdrs[k].offset + phdrs[k].filesz
    BY <2>2, PhdrFacts
  <2>4. i + 1 <= Len(sums)
    BY <1>1, <2>3, SMT
  <2>5. \A a, b \in 1..Len(sums) : a <= b => sums[a] <= sums[b]
    BY DEF WriterInv, SumsOK
  <2>6. sums[i + 1] <= sums[Len(sums)]
    BY <1>2, <2>3, <2>4, <2>5
  <2>7. LoadStart \in Nat /\ sums[i + 1] \in Nat /\ sums[Len(sums)] \in Nat
    BY <1>1, <1>2, <2>3
  <2>8. LoadStart + sums[i + 1] <= LoadStart + sums[Len(sums)]
    BY <2>6, <2>7, SMT
  <2> QED
    BY <1>1, <2>3, <2>8
<1> QED
  BY <1>3, <1>4

\* In a finished file, the data of segment i, where its header says; no position
\* lies in the data of two segments.
LEMMA DataPlaces ==
    ASSUME WriterInv, phase = "done", NEW i \in 1..Count
    PROVE  /\ Len(phdrs) = Count + 1 /\ Count \in Nat
           /\ phdrs[i + 1].vaddr = core.segments[i].start
           /\ phdrs[i + 1].filesz = core.segments[i].filesz
           /\ placed[i + 1] \in Nat /\ core.segments[i].filesz \in Nat
           /\ core.segments[i].filesz > 0 => phdrs[i + 1].offset = placed[i + 1]
           /\ \A j \in 1..Count : i < j =>
                 placed[j + 1] \in Nat /\ placed[i + 1] + core.segments[i].filesz <= placed[j + 1]
<1>1. /\ Len(phdrs) = Count + 1 /\ Count \in Nat /\ Len(sums) = Count + 1 /\ sums \in Seq(Nat)
      /\ Len(placed) = Count + 1 /\ LoadStart \in Nat /\ core \in Inputs
  BY LayoutFacts DEF WriterInv, TypeOK, PhasesOK, HeadersComplete
<1>2. ASSUME NEW j \in 1..Count
      PROVE  /\ placed[j + 1] = LoadStart + sums[j] /\ sums[j] \in Nat /\ sums[j + 1] \in Nat
             /\ sums[j + 1] = sums[j] + core.segments[j].filesz
             /\ core.segments[j].filesz \in Nat /\ PhdrOK(j)
  <2>1. /\ j \in 1..(Len(placed) - 1) /\ j \in 1..(Len(phdrs) - 1) /\ j \in 1..(Len(sums) - 1)
        /\ j \in 1..Len(sums) /\ j + 1 \in 1..Len(sums)
    BY <1>1, SMT
  <2>2. sums[j] \in Nat /\ sums[j + 1] \in Nat
    BY <1>1, <2>1
  <2>3. core.segments[j].filesz \in Nat
    BY <1>1, SegmentFacts
  <2> QED
    BY <2>1, <2>2, <2>3 DEF WriterInv, PlacedOK, SumsOK, PhdrsOK
<1>3. PICK f \in Nat, s \in Nat, l \in Nat :
          f = core.segments[i].filesz /\ s = sums[i] /\ l = LoadStart
  BY <1>1, <1>2
<1>4. placed[i + 1] = l + s /\ placed[i + 1] \in Nat /\ sums[i + 1] = s + f /\ PhdrOK(i)
  <2>1. l + s \in Nat
    BY SMT
  <2> QED
    BY <1>2, <1>3, <2>1
<1>5. ASSUME NEW j \in 1..Count, i < j
      PROVE  placed[j + 1] \in Nat /\ placed[i + 1] + f <= placed[j + 1]
  <2>1. i + 1 \in 1..Len(sums) /\ j \in 1..Len(sums) /\ i + 1 <= j
    BY <1>1, <1>5, SMT
  <2>2. sums[i + 1] <= sums[j]
    BY <2>1 DEF WriterInv, SumsOK
  <2>3. PICK t \in Nat : t = sums[j]
    BY <1>2
  <2>4. placed[j + 1] = l + t /\ s + f <= t
    BY <1>2, <1>3, <1>4, <2>2, <2>3
  <2>5. l + t \in Nat /\ (l + s) + f <= l + t
    BY <2>4, SMT
  <2> QED
    BY <1>4, <2>4, <2>5
<1>6. /\ phdrs[i + 1].vaddr = core.segments[i].start /\ phdrs[i + 1].filesz = f
      /\ f # 0 => phdrs[i + 1].offset = LoadStart + sums[i]
  BY <1>3, <1>4 DEF PhdrOK
<1>7. f > 0 => f # 0
  BY SMT
<1> QED
  BY <1>1, <1>3, <1>4, <1>5, <1>6, <1>7

=============================================================================
