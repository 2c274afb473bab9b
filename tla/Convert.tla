------------------------------ MODULE Convert ------------------------------
(***************************************************************************)
(* The program (src/src/main.rs): run reads and augments a process, opens  *)
(* the output, writes the core through a buffer and flushes it.  Composes  *)
(* Augment, whose table it hands to the writer, with CoreWriter.           *)
(*                                                                         *)
(* The output is a path that may already hold a core, or standard output.  *)
(* Opening it, writing and flushing may fail.  The buffer (BufWriter) is   *)
(* external: it may hold back up to BufSize bytes, and when it is dropped  *)
(* it writes what it holds and ignores how that ends.                      *)
(***************************************************************************)
EXTENDS Augment, FiniteSets

CONSTANTS
    NoteLens,       \* lengths that build_note_segment may return
    Max32,          \* u32::MAX
    MaxPhnum,       \* u16::MAX
    BufSize         \* capacity of a BufWriter

VARIABLES
    \* the state of write_core
    core, phase, pos, totalData, loadOffset, ehdr, phdrs, walk, placed, sums,
    sink,           \* --output, or standard output
    output,         \* the core under the path of --output
    disk,           \* bytes of the new core that left the buffer
    exit            \* the exit code

writerVars  == <<core, phase, pos, totalData, loadOffset, ehdr, phdrs, walk, placed, sums>>
convertVars == <<augmentVars, writerVars, sink, output, disk, exit>>

\* The input of write_core is the process, so Inputs names none.
W == INSTANCE CoreWriter WITH Inputs <- {}

ASSUME ConvertAssumption ==
    /\ NoteLens \subseteq Nat
    /\ Max32 \in Nat /\ MaxPhnum \in Nat /\ BufSize \in Nat

-----------------------------------------------------------------------------
\* The segments, in the key order of the BTreeMap.
Rank(k) == Cardinality({j \in Keys(mappings) : j <= k})
SegmentKeys ==
    [i \in 1..Cardinality(Keys(mappings)) |-> CHOOSE k \in Keys(mappings) : Rank(k) = i]
SegmentsNoData ==
    [i \in DOMAIN SegmentKeys |->
        LET m == mappings[SegmentKeys[i]]
        IN  [start |-> m.start, end |-> m.end, filesz |-> PageSize * (m.data.len \div PageSize)]]
Segments ==
    [i \in DOMAIN SegmentKeys |->
        LET m == mappings[SegmentKeys[i]]
        IN  [start |-> m.start, end |-> m.end, filesz |-> DataLen(m.data)]]

ConvertInit ==
    /\ AugmentInit
    /\ core = [class |-> 2, noteLen |-> 0, segments |-> <<>>]
    /\ phase = "closed"
    /\ pos = 0 /\ totalData = 0 /\ loadOffset = 0 /\ ehdr = 0
    /\ phdrs = <<>> /\ placed = <<>> /\ walk = 1 /\ sums = <<0>>
    /\ sink \in {"file", "stdout"}
    /\ output = "old"
    /\ disk = 0
    /\ exit = "running"

\* read_process_from_path and augment_process; the first has other ways to fail.
Process ==
    /\ stage \notin {"done", "failed"}
    /\ \/ AugmentNext
       \/ /\ stage \in {"maps", "modules"}
          /\ stage' = "failed"
          /\ UNCHANGED <<tableVars, dump, turn, patched>>
    /\ UNCHANGED <<writerVars, sink, output, disk, exit>>

Refuse ==
    /\ stage = "failed"
    /\ exit' = "failure"
    /\ UNCHANGED <<augmentVars, writerVars, sink, output, disk>>

\* File::create truncates; standard output is open.
OpenOutputAppending ==
    /\ stage = "done" /\ phase = "closed"
    /\ phase' = "notes"
    /\ output' = IF sink = "file" THEN "new" ELSE output
    /\ disk' = IF sink = "file" THEN disk + 1 ELSE disk
    /\ UNCHANGED <<augmentVars, core, pos, totalData, loadOffset, ehdr, phdrs, walk, placed, sums,
                   sink, exit>>
OpenOutput ==
    /\ stage = "done" /\ phase = "closed"
    /\ \/ /\ phase' = "notes"
          /\ output' = IF sink = "file" THEN "new" ELSE output
          /\ UNCHANGED exit
       \/ /\ sink = "file"
          /\ exit' = "failure"
          /\ UNCHANGED <<phase, output>>
    /\ UNCHANGED <<augmentVars, core, pos, totalData, loadOffset, ehdr, phdrs, walk, placed, sums,
                   sink, disk>>

\* write_core builds the notes before it writes anything; that can fail.
BuildNotes ==
    /\ phase = "notes"
    /\ \/ \E k \in {1, 2}, n \in NoteLens :
             /\ core' = [class |-> k, noteLen |-> n, segments |-> Segments]
             /\ phase' = "layout"
       \/ phase' = "failed" /\ UNCHANGED core
    /\ UNCHANGED <<augmentVars, pos, totalData, loadOffset, ehdr, phdrs, walk, placed, sums,
                   sink, output, disk, exit>>

\* A step of write_core.  What it writes goes to the buffer, behind what that holds,
\* if the two fit; a buffer is written out whole.
Write ==
    /\ W!Next
    /\ disk' \in {d \in {disk, pos, pos'} : pos' - d <= BufSize}
    /\ UNCHANGED <<augmentVars, sink, output, exit>>

\* write_core failed, and the buffer is dropped.
AbandonRetried ==
    /\ phase = "failed"
    /\ phase' = "notes" /\ core' = [core EXCEPT !.segments = <<>>]
    /\ pos' = 0 /\ totalData' = 0 /\ loadOffset' = 0 /\ ehdr' = 0 /\ disk' = 0
    /\ phdrs' = <<>> /\ placed' = <<>> /\ walk' = 1 /\ sums' = <<0>>
    /\ UNCHANGED <<augmentVars, sink, output, exit>>
Abandon ==
    /\ phase = "failed"
    /\ disk' \in {disk, pos}
    /\ exit' = "failure"
    /\ UNCHANGED <<augmentVars, writerVars, sink, output>>

FlushIgnored ==
    /\ phase = "done"
    /\ disk' \in {disk, pos}
    /\ exit' = "success"
    /\ UNCHANGED <<augmentVars, writerVars, sink, output>>
Flush ==
    /\ phase = "done"
    /\ \/ disk' = pos /\ exit' = "success"
       \/ disk' \in {disk, pos} /\ exit' = "failure"
    /\ UNCHANGED <<augmentVars, writerVars, sink, output>>

ConvertNext ==
    /\ exit = "running"
    /\ \/ Process \/ Refuse \/ OpenOutput \/ BuildNotes \/ Write \/ Abandon \/ Flush

\* One thread runs the program until it exits; no call of it blocks for ever.
ConvertSpec == ConvertInit /\ [][ConvertNext]_convertVars /\ WF_convertVars(ConvertNext)

-----------------------------------------------------------------------------
ConvertTypeOK ==
    /\ AugmentTypeOK
    /\ core \in W!Input
    /\ phase \in {"closed", "notes", "layout", "sum", "note_phdr", "load_phdrs", "pad", "data",
                  "done", "failed"}
    /\ pos \in Nat /\ totalData \in Nat /\ loadOffset \in Nat /\ ehdr \in Nat
    /\ phdrs \in Seq(W!Phdr) /\ placed \in Seq(Nat) /\ sums \in Seq(Nat)
    /\ walk \in Nat \ {0}
    /\ sink \in {"file", "stdout"} /\ output \in {"old", "new"}
    /\ disk \in 0..pos
    /\ exit \in {"running", "success", "failure"}

\* The byte that write_core put at position p of the file.
CoreByte(p) ==
    LET js == {j \in 1..Len(core.segments) :
                 placed[j + 1] <= p /\ p < placed[j + 1] + core.segments[j].filesz}
    IN  IF js = {} THEN <<>>
        ELSE LET j == CHOOSE j \in js : TRUE
                 m == mappings[SegmentKeys[j]]
             IN  ByteOf(m, m.start + (p - placed[j + 1]))

\* What the whole program is for: after a success a debugger that looks up the
\* address of a captured byte in the program headers finds it in the file, at the
\* position the headers give, through all splits, paddings and offsets on the way.
CapturedBytesInCore ==
    exit = "success" =>
        \A c \in captured : \A i \in 0..(c.len - 1) :
            LET a    == c.addr + i
                hits == {n \in 2..Len(phdrs) :
                           phdrs[n].vaddr <= a /\ a < phdrs[n].vaddr + phdrs[n].filesz}
            IN  /\ hits # {}
                /\ \A n \in hits :
                      LET p == phdrs[n].offset + (a - phdrs[n].vaddr)
                      IN  p < disk /\ CoreByte(p) = <<c.src, i>>

\* The exit code tells what became of the output.  After a success nothing is left in
\* the buffer and the file reaches as far as its headers say; after a failure an
\* earlier core is lost only if the minidump could be read and augmented.
ExitTellsOutput ==
    /\ exit = "success" =>
          /\ disk = pos
          /\ \A n \in 1..Len(phdrs) :
                phdrs[n].filesz > 0 => phdrs[n].offset + phdrs[n].filesz <= disk
          /\ sink = "file" => output = "new"
    /\ exit = "failure" /\ output = "new" => stage = "done" /\ sink = "file"

\* The program ends, whatever fails.
Exits == <>(exit # "running")

=============================================================================
