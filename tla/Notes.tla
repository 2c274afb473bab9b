------------------------------- MODULE Notes -------------------------------
(***************************************************************************)
(* build_note_segment and write_thread_notes (src/src/core_writer.rs) with *)
(* the note builders they call (notes.rs, regs.rs): the order of the notes *)
(* in PT_NOTE, and which thread gets the fatal signal and the registers of *)
(* the exception record.  A debugger reads the notes in one pass: a        *)
(* register note belongs to the last NT_PRSTATUS in front of it, and the   *)
(* first NT_PRSTATUS is the thread it selects.                             *)
(***************************************************************************)
EXTENDS Filter

CONSTANTS
    Processes,      \* the processes to write
    Tids,           \* thread ids
    Signals,        \* values of fatal_signal
    Max32,          \* u32::MAX
    MaxI16,         \* i16::MAX
    NoTid,          \* crashing_tid: None
    NoContext       \* a context that is None

VARIABLES
    process,        \* the CrashedProcess
    phase,          \* the part of the note segment that is next
    ordered,        \* `ordered`: the threads, the crashing one in front
    index,          \* the thread the loop has reached
    notes           \* the notes written

vars == <<process, phase, ordered, index, notes>>

Architectures == {"x86", "x86_64", "arm", "aarch64", "mips", "mips64"}

\* The CPU whose registers a MinidumpRawContext holds.
Cpus == {"x86", "amd64", "arm", "arm64", "arm64_old", "mips"}
Context == Cpus \cup {NoContext}

Thread == [tid : Tids, context : Context]

\* What NT_FILE stores of the mappings with a name: their number, the bytes of the
\* names with their NULs, and the largest of the numbers, which decides whether a
\* 32-bit note can hold them.
Process == [arch : Architectures, crashing : Tids \cup {NoTid}, exception : Context,
            signal : Signals, threads : Seq(Thread), auxvLen : Nat,
            fileCount : Nat, fileNamesLen : Nat, largestFileWord : Nat]

\* ingest_exception sets the three fields of a crash together.
ASSUME NotesAssumption ==
    /\ Processes \subseteq Process
    /\ NoTid \notin Tids /\ NoContext \notin Cpus
    /\ 0 \in Signals /\ Signals \subseteq Int
    /\ Max32 \in Nat /\ MaxI16 \in Nat
    /\ \A p \in Processes :
          p.crashing = NoTid => p.exception = NoContext /\ p.signal = 0

-----------------------------------------------------------------------------
Threads == process.threads

\* to_pr_reg: the contexts an architecture accepts.
ContextsOf(arch) ==
    CASE arch = "x86"                -> {"x86"}
      [] arch = "x86_64"             -> {"amd64"}
      [] arch = "arm"                -> {"arm"}
      [] arch = "aarch64"            -> {"arm64", "arm64_old"}
      [] arch \in {"mips", "mips64"} -> {"mips"}

\* to_fpregset (the FXSAVE area of an amd64 context is always there) and
\* to_prxfpreg.
HasFpregset(arch) == arch \in {"x86", "x86_64"}
HasPrxfpreg(arch) == arch = "x86"

\* pr_cursig, a 16-bit field.
CurSig(signal) ==
    IF signal \in (-MaxI16 - 1)..MaxI16 THEN signal ELSE MaxI16

PlainNote(type, t, tid) ==
    [type |-> type, thread |-> t, tid |-> tid, signal |-> 0, cursig |-> 0,
     fpvalid |-> FALSE, context |-> NoContext]

ProcessNote(type)     == PlainNote(type, 0, NoTid)
RegisterNote(type, t) == PlainNote(type, t, Threads[t].tid)

Is64 == process.arch \in {"x86_64", "aarch64", "mips64"}

FileNoteFits == Is64 \/ process.largestFileWord <= Max32

\* The lengths of the descriptors; the structures pad to a long.
LongSize == IF Is64 THEN 8 ELSE 4
PadTo(n, align) == n + ((align - (n % align)) % align)

PrpsinfoLen ==
    PadTo(4, LongSize) + LongSize
    + (IF process.arch \in {"x86_64", "mips", "mips64"} THEN 8 ELSE 4) + 4 * 4 + 16 + 80
RegLen ==
    CASE process.arch = "x86"                -> 17 * 4
      [] process.arch = "x86_64"             -> 27 * 8
      [] process.arch = "arm"                -> 18 * 4
      [] process.arch = "aarch64"            -> 34 * 8
      [] process.arch \in {"mips", "mips64"} -> 45 * LongSize
PrstatusLen == PadTo(PadTo(14, LongSize) + 10 * LongSize + 4 * 4 + RegLen + 4, LongSize)
FileLen == (2 + 3 * process.fileCount) * LongSize + process.fileNamesLen

\* An amd64 FXSAVE area; seven words and the register area of an i386; its FXSAVE.
FpregsetLen == IF process.arch = "x86" THEN 7 * 4 + 80 ELSE 512
PrxfpregLen == 512

DescLen(type) ==
    CASE type = "NT_PRPSINFO" -> PrpsinfoLen
      [] type = "NT_AUXV"     -> process.auxvLen
      [] type = "NT_FILE"     -> FileLen
      [] type = "NT_PRSTATUS" -> PrstatusLen
      [] type = "NT_FPREGSET" -> FpregsetLen
      [] type = "NT_PRXFPREG" -> PrxfpregLen

\* Note::build: a header of 12 bytes, "CORE" or "LINUX" with its NUL, and the
\* descriptor; the bytes so far are padded to 4 after each.
NameLen(type) == IF type = "NT_PRXFPREG" THEN 6 ELSE 5
NoteLenUnpadded(type) == PadTo(12 + NameLen(type), 4) + DescLen(type)
NoteLen(type) == PadTo(PadTo(12 + NameLen(type), 4) + DescLen(type), 4)

-----------------------------------------------------------------------------
\* The crashing thread: the first in the list with its id, if any.
CrashingThreadZeroBased ==
    LET hits == {t \in 1..Len(Threads) : Threads[t].tid = process.crashing} IN
    IF hits = {} THEN <<>> ELSE <<(CHOOSE t \in hits : \A u \in hits : t <= u) - 1>>
CrashingThread ==
    LET hits == {t \in 1..Len(Threads) : Threads[t].tid = process.crashing} IN
    IF hits = {} THEN <<>> ELSE <<CHOOSE t \in hits : \A u \in hits : t <= u>>

OtherThreadsAll == [t \in 1..Len(Threads) |-> t]
OtherThreads ==
    Kept([t \in 1..Len(Threads) |-> t], {t \in 1..Len(Threads) : Threads[t].tid # process.crashing})

\* What the loop passes to write_thread_notes for the thread at index i.
SignalAtAlways(i) == process.signal
SignalAt(i)  == IF i = 1 THEN process.signal ELSE 0
ContextAt(i) ==
    IF i = 1 /\ process.exception # NoContext THEN process.exception
                                              ELSE Threads[ordered[i]].context

\* The notes of the thread at index i.
StatusOf(i) ==
    LET t == ordered[i] IN
    [type |-> "NT_PRSTATUS", thread |-> t, tid |-> Threads[t].tid,
     signal |-> SignalAt(i), cursig |-> CurSig(SignalAt(i)),
     fpvalid |-> HasFpregset(process.arch), context |-> ContextAt(i)]

ThreadNotesFpFirst(i) ==
    (IF HasFpregset(process.arch) THEN <<RegisterNote("NT_FPREGSET", ordered[i])>> ELSE <<>>)
    \o <<StatusOf(i)>>
    \o (IF HasPrxfpreg(process.arch) THEN <<RegisterNote("NT_PRXFPREG", ordered[i])>> ELSE <<>>)
ThreadNotes(i) ==
    <<StatusOf(i)>>
    \o (IF HasFpregset(process.arch) THEN <<RegisterNote("NT_FPREGSET", ordered[i])>> ELSE <<>>)
    \o (IF HasPrxfpreg(process.arch) THEN <<RegisterNote("NT_PRXFPREG", ordered[i])>> ELSE <<>>)

-----------------------------------------------------------------------------
Init ==
    /\ process \in Processes
    /\ phase = "process"
    /\ ordered = <<>> /\ index = 1 /\ notes = <<>>

WriteProcessNotes ==
    /\ phase = "process"
    /\ notes' = notes \o <<ProcessNote("NT_PRPSINFO"), ProcessNote("NT_AUXV")>>
    /\ phase' = "file"
    /\ UNCHANGED <<process, ordered, index>>

WriteFileNote ==
    /\ phase = "file"
    /\ \/ /\ FileNoteFits
          /\ notes' = Append(notes, ProcessNote("NT_FILE"))
          /\ phase' = "order"
       \/ /\ ~FileNoteFits
          /\ phase' = "failed"
          /\ UNCHANGED notes
    /\ UNCHANGED <<process, ordered, index>>

\* Other threads with the id of the crashing one are dropped.
OrderThreads ==
    /\ phase = "order"
    /\ ordered' = CrashingThread \o OtherThreads
    /\ phase' = "threads"
    /\ UNCHANGED <<process, index, notes>>

\* A thread without context gets no notes; a context of another CPU is an error.
WriteThreadNotes ==
    /\ phase = "threads" /\ index <= Len(ordered)
    /\ \/ /\ ContextAt(index) = NoContext
          /\ index' = index + 1
          /\ UNCHANGED <<phase, notes>>
       \/ /\ ContextAt(index) \in Cpus \ ContextsOf(process.arch)
          /\ phase' = "failed"
          /\ UNCHANGED <<index, notes>>
       \/ /\ ContextAt(index) \in ContextsOf(process.arch)
          /\ notes' = notes \o ThreadNotes(index)
          /\ index' = index + 1
          /\ UNCHANGED phase
    /\ UNCHANGED <<process, ordered>>

Finish ==
    /\ phase = "threads" /\ index > Len(ordered)
    /\ phase' = "done"
    /\ UNCHANGED <<process, ordered, index, notes>>

Next ==
    \/ WriteProcessNotes \/ WriteFileNote \/ OrderThreads \/ WriteThreadNotes \/ Finish

Spec == Init /\ [][Next]_vars

-----------------------------------------------------------------------------
Types == {"NT_PRPSINFO", "NT_AUXV", "NT_FILE", "NT_PRSTATUS", "NT_FPREGSET", "NT_PRXFPREG"}

Note == [type : Types, thread : Nat, tid : Tids \cup {NoTid}, signal : Signals,
         cursig : Int, fpvalid : BOOLEAN, context : Context]

TypeOK ==
    /\ process \in Processes
    /\ phase \in {"process", "file", "order", "threads", "done", "failed"}
    /\ ordered \in Seq(1..Len(Threads))
    /\ index \in 1..(Len(ordered) + 1)
    /\ notes \in Seq(Note)

StatusNotes == {n \in 1..Len(notes) : notes[n].type = "NT_PRSTATUS"}

\* The NT_PRSTATUS a debugger attaches note n to.
OwnerOf(n) == {s \in StatusNotes : s <= n /\ \A u \in StatusNotes : u <= n => u <= s}

\* Read in one pass, every register note falls to the thread whose registers it
\* holds, and pr_fpvalid announces an NT_FPREGSET exactly when one follows.
RegistersBelong ==
    /\ \A n \in 1..Len(notes) : notes[n].type \in {"NT_FPREGSET", "NT_PRXFPREG"} =>
          \E s \in OwnerOf(n) : notes[s].thread = notes[n].thread
    /\ \A s \in StatusNotes : notes[s].fpvalid <=>
          \E n \in 1..Len(notes) : notes[n].type = "NT_FPREGSET" /\ s \in OwnerOf(n)

\* A reader knows of a note only the two lengths in its header, and rounds each up to
\* a multiple of 4: this way it comes from note to note and to the end, however
\* long the auxiliary vector and the file names are.
Written ==
    LET at[n \in 0..Len(notes)] ==
            IF n = 0 THEN 0 ELSE at[n - 1] + NoteLen(notes[n].type)
    IN  at
Reached ==
    LET Up(n) == ((n + 3) \div 4) * 4
        at[n \in 0..Len(notes)] ==
            IF n = 0 THEN 0
            ELSE at[n - 1] + 12 + Up(NameLen(notes[n].type)) + Up(DescLen(notes[n].type))
    IN  at
NotesReached == Reached = Written

\* Moving the crashing thread to the front neither repeats nor loses a thread: one
\* with a context has exactly one status, except a later namesake of the crashing
\* thread, which gets none.
Namesake(t) == Threads[t].tid = process.crashing /\ t # CrashingThread[1]

EachThreadOnce ==
    phase = "done" =>
        /\ \A s, u \in StatusNotes : s # u => notes[s].thread # notes[u].thread
        /\ \A t \in 1..Len(Threads) :
              /\ Threads[t].context # NoContext /\ ~Namesake(t)
                    => \E s \in StatusNotes : notes[s].thread = t
              /\ Namesake(t) => \A s \in StatusNotes : notes[s].thread # t

\* When the crashing thread is listed, the fatal signal and the registers of the
\* exception record are its own and no other thread's, and if its registers are
\* known its status is the first.
CrashOnItsThread ==
    CrashingThread # <<>> =>
        /\ \A s \in StatusNotes :
              notes[s].signal # 0 => notes[s].thread = CrashingThread[1]
        /\ \A s \in StatusNotes :
              notes[s].thread # CrashingThread[1]
                 => notes[s].context = Threads[notes[s].thread].context
        /\ phase = "done" /\ {process.exception, Threads[CrashingThread[1]].context} # {NoContext}
              => \A s \in StatusNotes :
                    (\A u \in StatusNotes : s <= u) => notes[s].thread = CrashingThread[1]

\* The crashing thread first (core_writer.rs:8-10): the status that carries the
\* fatal signal names the thread that crashed.  The code gives the signal to
\* whichever thread heads the list, also when the crashing one is not listed.
SignalNamesCrashingThread ==
    \A s \in StatusNotes : notes[s].signal # 0 => notes[s].tid = process.crashing

=============================================================================
