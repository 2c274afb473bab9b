------------------------------- MODULE Ingest -------------------------------
(***************************************************************************)
(* read_process_from_minidump (src/src/rust_minidump.rs): the streams of a *)
(* minidump are read in a fixed order into one CrashedProcess.  Most may   *)
(* be missing, several describe the same thing, and what a missing one     *)
(* would have said is taken from another: mappings from the module list or *)
(* from an auxv stream that holds maps text, the process name from the     *)
(* command line or a module, r_debug and the auxiliary vector from the     *)
(* executable on disk.                                                     *)
(*                                                                         *)
(* A stream is its parsed content.  A typed stream that rust-minidump      *)
(* cannot parse counts as missing; a raw stream may be unreadable.  The    *)
(* files of modules are what this disk holds, not what the process had.    *)
(***************************************************************************)
EXTENDS MappingTable, ElfScan, Filter

CONSTANTS
    Minidumps,      \* the minidumps, with the options of the conversion
    Names,          \* module names
    Tids,           \* thread ids other than 0
    ReadOnly,       \* MappingPermissions::read_only()
    Missing,        \* a stream that the minidump does not have
    Unreadable,     \* a raw stream whose place in the file is wrong
    Vector,         \* an auxv stream that holds an auxiliary vector
    Captured,       \* a field that was filled from the minidump itself
    Malformed,      \* a line of maps text that does not parse
    Reservable      \* link map records for which the allocator is sure to find memory

VARIABLES
    minidump,       \* the minidump that is read
    stage,          \* the stream that is next
    turn,           \* the position in the loop over it
    auxv,           \* CrashedProcess::auxv: Captured, or what was synthesized
    info,           \* ProcessInfo: where pr_fname and pr_psargs come from
    threads,        \* the threads added
    signatures,     \* CrashedProcess::signatures
    crashing,       \* crashing_tid; fatal_signal and exception_context go with it
    pid,            \* ProcessInfo::pid
    dsoDebug        \* CrashedProcess::dso_debug; None is DsoDebug::default()

tableVars   == <<mappings, status, imported, captured>>
processVars == <<auxv, info, threads, signatures, crashing, pid, dsoDebug>>
ingestVars  == <<tableVars, processVars, minidump, stage, turn>>

\* One line of maps text: filename is NoFile unless it is a path from the root.
Line == [start : Addr, end : Addr, offset : Addr, permissions : Permissions,
         filename : Files \cup {NoFile}]

\* lib is looks_like_shared_lib, guid that the module has a nonzero build id.
Module == [base : Addr, size : Addr, name : Names, lib : BOOLEAN, guid : BOOLEAN]

\* A path is a directory and a name: the module's own, --sobasedir, where
\* --mangle-sonames points to, or one of SYSTEM_LIB_DIRS.
Path == Files \cup ({"system"} \X Names)

Stream == INSTANCE DsoStream WITH Libraries <- Names, NoName <- None

\* What the conversion of a minidump depends on: the options, the CPU width, the
\* streams and the files on this disk.  The typed maps stream is what by_addr()
\* yields, in that order; maps text in the auxv stream is as it was captured.
Minidump ==
    [rewrite : {"none", "sobasedir", "mangle"}, system : {Missing, "supported", "unsupported"},
     class : {32, 64}, disk : SUBSET [path : Path, file : ElfFile],
     maps : Seq(Line) \cup {Missing},
     auxv : {Missing, Unreadable, Vector} \cup Seq(Line \cup {Malformed}),
     cmdline : {Missing, Unreadable, "unterminated", "unnamed", "named"},
     threads : Seq(Tids) \cup {Missing}, modules : Seq(Module) \cup {Missing},
     exception : Tids \cup {Missing},
     dsoDebug : {Missing, Unreadable} \cup Stream!DsoStream]

ASSUME IngestAssumption ==
    /\ Minidumps \subseteq Minidump
    /\ \A d \in Minidumps : \A e, f \in d.disk : e.path = f.path => e = f
    /\ 0 \notin Tids
    /\ Reservable \in Nat
    /\ ReadOnly \in Permissions
    /\ {"none", "sobasedir", "mangle"} \X Names \subseteq Files
    \* What stands for a case is none of the others.
    /\ Vector \notin {Missing, Unreadable}
    /\ Captured \notin Module \cup [exe : Module, phdr : Addr, entry : Addr] \cup {None}
    /\ None # "cmdline"

-----------------------------------------------------------------------------
Modules == IF minidump.modules = Missing THEN <<>> ELSE minidump.modules

\* signature_for: the path a debugger is to look for the module under.
SignatureFor(m) ==
    CASE minidump.rewrite = "sobasedir"           -> <<"sobasedir", m.name>>
      [] minidump.rewrite = "mangle" /\ m.guid    -> <<"mangle", m.name>>
      [] OTHER                                    -> <<"none", m.name>>

\* The lines a maps reader keeps, and the mapping one of them makes.
IsKept(l) == l # Malformed /\ l.filename # NoFile
KeptLines(lines) == Kept(lines, {lines[i] : i \in {j \in 1..Len(lines) : IsKept(lines[j])}})
LineMapping(l) ==
    [start |-> l.start, end |-> l.end, offset |-> l.offset, permissions |-> l.permissions,
     filename |-> l.filename, data |-> NoData]

\* Mapping::new refuses an empty or inverted range.
RangesOK(lines) == \A i \in 1..Len(lines) : lines[i].start < lines[i].end

\* parse_linux_maps takes all of the text or nothing.
TextOK(text) ==
    (\A i \in 1..Len(text) : text[i] # Malformed) /\ RangesOK(KeptLines(text))

\* base + size is unchecked; in a release build it wraps, and the mapping is
\* dropped as inverted.
ModuleEnd(m) == (m.base + m.size) % (MaxAddr + 1)
ModuleMapping(m) ==
    [start |-> m.base, end |-> ModuleEnd(m), offset |-> 0, permissions |-> ReadOnly,
     filename |-> SignatureFor(m), data |-> NoData]
HasRange(m) == m.size > 0 /\ m.base < ModuleEnd(m)

\* The first of the modules at the places in hits.
FirstModule(hits) == IF hits = {} THEN None ELSE Modules[Min(hits)]

\* The main executable, as ingest_modules and synthesize_dso_debug find it ...
Executable == FirstModule({i \in 1..Len(Modules) : ~Modules[i].lib})
\* ... and as build_synthetic_auxv does.
FileAt(path) ==
    LET here == {e \in minidump.disk : e.path = path}
    IN  IF here = {} THEN None ELSE (CHOOSE e \in here : TRUE).file
FileOf(m) == FileAt(<<"none", m.name>>)
ExecutableOnDisk ==
    FirstModule({i \in 1..Len(Modules) : ~Modules[i].lib /\ FileOf(Modules[i]) # None})

\* elf_dynamic_runtime_addr looks for a library where a debugger will, and then by
\* its last component in the system's directories; a mangled name is in none.
LibraryFile(path) ==
    IF FileAt(path) # None THEN FileAt(path)
    ELSE IF path[1] = "mangle" THEN None ELSE FileAt(<<"system", path[2]>>)

IsText(a) == a \notin {Missing, Unreadable, Vector}

-----------------------------------------------------------------------------
IngestInit ==
    /\ Init
    /\ minidump \in Minidumps
    /\ stage = "system" /\ turn = 1
    /\ auxv = None /\ crashing = None /\ pid = 0 /\ dsoDebug = None
    /\ info = [filename |-> None, arguments |-> None]
    /\ threads = <<>>
    /\ signatures = [a \in Addr |-> None]

GoTo(s) == stage' = s /\ turn' = 1 /\ UNCHANGED minidump

\* MinidumpSystemInfo is the one stream that must be there.
ReadSystemInfo ==
    /\ stage = "system"
    /\ GoTo(IF minidump.system = "supported" THEN "maps" ELSE "failed")
    /\ UNCHANGED <<tableVars, processVars>>

\* The next of the mappings that `lines` make is inserted; then stage s begins.
InsertLines(lines, s) ==
    \/ /\ turn <= Len(lines)
       /\ InsertMapping(LineMapping(lines[turn]))
       /\ turn' = turn + 1
       /\ UNCHANGED <<minidump, stage, processVars>>
    \/ /\ turn > Len(lines)
       /\ GoTo(s)
       /\ UNCHANGED <<tableVars, processVars>>

ReadMaps ==
    /\ stage = "maps"
    /\ \/ /\ minidump.maps = Missing
          /\ GoTo("auxv") /\ UNCHANGED <<tableVars, processVars>>
       \/ /\ minidump.maps # Missing /\ ~RangesOK(KeptLines(minidump.maps))
          /\ GoTo("failed") /\ UNCHANGED <<tableVars, processVars>>
       \/ /\ minidump.maps # Missing /\ RangesOK(KeptLines(minidump.maps))
          /\ InsertLines(KeptLines(minidump.maps), "auxv")

\* MD_LINUX_AUXV may hold maps text instead of a vector.
ReadAuxv ==
    /\ stage = "auxv"
    /\ \/ /\ minidump.auxv = Missing
          /\ GoTo("cmdline") /\ UNCHANGED <<tableVars, processVars>>
       \/ /\ minidump.auxv = Unreadable
          /\ GoTo("failed") /\ UNCHANGED <<tableVars, processVars>>
       \/ /\ minidump.auxv = Vector
          /\ GoTo("cmdline") /\ auxv' = Captured
          /\ UNCHANGED <<tableVars, info, threads, signatures, crashing, pid, dsoDebug>>
       \/ /\ IsText(minidump.auxv) /\ ~TextOK(minidump.auxv)
          /\ GoTo("failed") /\ UNCHANGED <<tableVars, processVars>>
       \/ /\ IsText(minidump.auxv) /\ TextOK(minidump.auxv)
          /\ InsertLines(KeptLines(minidump.auxv), "cmdline")

\* apply_cmdline: a line without NUL or space changes nothing; one that begins
\* with it leaves the name empty.
ReadCmdline ==
    /\ stage = "cmdline"
    /\ GoTo(IF minidump.cmdline = Unreadable THEN "failed" ELSE "threads")
    /\ info' = CASE minidump.cmdline = "named"   -> [filename |-> "cmdline", arguments |-> "cmdline"]
                 [] minidump.cmdline = "unnamed" -> [filename |-> None, arguments |-> "cmdline"]
                 [] OTHER                        -> info
    /\ UNCHANGED <<tableVars, auxv, threads, signatures, crashing, pid, dsoDebug>>

ReadThreads ==
    /\ stage = "threads"
    /\ threads' = IF minidump.threads = Missing THEN threads ELSE minidump.threads
    /\ GoTo("modules")
    /\ UNCHANGED <<tableVars, auxv, info, signatures, crashing, pid, dsoDebug>>

\* One turn of ingest_modules: a mapping unless one starts there, and the name.
\* A build with overflow checks panics when base + size overflows.
IngestModuleReplacing ==
    /\ stage = "modules" /\ turn <= Len(Modules)
    /\ LET m == Modules[turn] IN
       /\ IF HasRange(m) THEN InsertMapping(ModuleMapping(m)) ELSE UNCHANGED tableVars
       /\ signatures' = [signatures EXCEPT ![m.base] = SignatureFor(m)]
    /\ turn' = turn + 1
    /\ UNCHANGED <<minidump, stage, auxv, info, threads, crashing, pid, dsoDebug>>
IngestModule ==
    /\ stage = "modules" /\ turn <= Len(Modules)
    /\ LET m == Modules[turn] IN
       \/ /\ IF HasRange(m) THEN InsertMappingIfAbsent(ModuleMapping(m)) ELSE UNCHANGED tableVars
          /\ signatures' = [signatures EXCEPT ![m.base] = SignatureFor(m)]
          /\ turn' = turn + 1
          /\ UNCHANGED <<minidump, stage, auxv, info, threads, crashing, pid, dsoDebug>>
       \/ /\ m.base + m.size > MaxAddr
          /\ GoTo("failed") /\ UNCHANGED <<tableVars, processVars>>

\* apply_module_name_fallback with the executable.
NameFallbackOnDisk ==
    IF ExecutableOnDisk = None \/ info.filename # None THEN info
    ELSE [filename  |-> ExecutableOnDisk.name,
          arguments |-> IF info.arguments = None THEN ExecutableOnDisk.name ELSE info.arguments]
NameFallback ==
    IF Executable = None \/ info.filename # None THEN info
    ELSE [filename  |-> Executable.name,
          arguments |-> IF info.arguments = None THEN Executable.name ELSE info.arguments]

NameProcess ==
    /\ stage = "modules" /\ turn > Len(Modules)
    /\ info' = NameFallback
    /\ GoTo("exception")
    /\ UNCHANGED <<tableVars, auxv, threads, signatures, crashing, pid, dsoDebug>>

\* The exception record, and the pid: the crashing thread's id, or else the first.
PidUndefaulted(tid) == IF tid # None THEN tid ELSE IF threads # <<>> THEN threads[1] ELSE None
Pid(tid) == IF tid # None THEN tid ELSE IF threads # <<>> THEN threads[1] ELSE 0

ReadException ==
    /\ stage = "exception"
    /\ crashing' = IF minidump.exception = Missing THEN crashing ELSE minidump.exception
    /\ pid' = Pid(crashing')
    /\ GoTo("dso_debug")
    /\ UNCHANGED <<tableVars, auxv, info, threads, signatures, dsoDebug>>

\* parse_dso_debug on the captured stream.
CapturedDso(d) ==
    [exe |-> Captured, ldbase |-> d.ldbase, dynamic |-> d.dynamic, data |-> d.data,
     linkMap |-> Stream!LinkMapOf(d)]

ReadDsoDebug ==
    /\ stage = "dso_debug" /\ minidump.dsoDebug # Missing
    /\ \/ /\ minidump.dsoDebug = Unreadable
          /\ GoTo("failed") /\ UNCHANGED processVars
       \/ /\ minidump.dsoDebug # Unreadable /\ Stream!ReserveFails(minidump.dsoDebug)
          /\ GoTo("failed") /\ UNCHANGED processVars
       \/ /\ minidump.dsoDebug # Unreadable
          /\ IF Stream!ReadFails(minidump.dsoDebug)
             THEN GoTo("failed") /\ UNCHANGED dsoDebug
             ELSE /\ GoTo("done")
                  /\ dsoDebug' = IF minidump.dsoDebug.short THEN dsoDebug
                                 ELSE CapturedDso(minidump.dsoDebug)
          /\ UNCHANGED <<auxv, info, threads, signatures, crashing, pid>>
    /\ UNCHANGED tableVars

\* Without one, r_debug is made from the module list.  An entry of its link map has
\* the name under which a debugger will look for the module.
LinkMapEntry(m) ==
    LET name == IF signatures[m.base] = None THEN <<"none", m.name>> ELSE signatures[m.base]
        f    == LibraryFile(name)
        ld   == IF f = None THEN None ELSE RuntimeDynamic(minidump.class, f, m.base)
    IN  [addr |-> m.base, name |-> name, ld |-> IF ld = None THEN 0 ELSE ld]

\* The dynamic section is the executable's, if its file is there and has one; or
\* else there is none, and the base address stands in for the load bias.
SyntheticDso ==
    IF Executable = None THEN None
    ELSE LET f == FileOf(Executable)
             x == IF f = None THEN None
                  ELSE ExecutableDynamic(minidump.class, f, Executable.base)
         IN  [exe     |-> Executable,
              ldbase  |-> IF x = None THEN Executable.base ELSE x.bias,
              dynamic |-> IF x = None THEN 0 ELSE x.dynamic,
              data    |-> x # None,
              linkMap |-> [i \in 1..Len(Modules) |-> LinkMapEntry(Modules[i])]]

\* And so is an auxiliary vector, from the executable that is on this disk.
SyntheticAuxv ==
    IF ExecutableOnDisk = None THEN None
    ELSE LET a == AuxvOf(minidump.class, FileOf(ExecutableOnDisk), ExecutableOnDisk.base)
         IN  IF a = None THEN None
             ELSE [exe |-> ExecutableOnDisk, phdr |-> a.phdr, entry |-> a.entry]

SynthesizeAuxvAlways ==
    auxv' = IF SyntheticAuxv = None THEN auxv ELSE SyntheticAuxv
SynthesizeAuxv ==
    auxv' = IF auxv # None \/ SyntheticAuxv = None THEN auxv ELSE SyntheticAuxv

SynthesizeDsoDebug ==
    /\ stage = "dso_debug" /\ minidump.dsoDebug = Missing
    /\ dsoDebug' = IF SyntheticDso = None THEN dsoDebug ELSE SyntheticDso
    /\ SynthesizeAuxv
    /\ GoTo("done")
    /\ UNCHANGED <<tableVars, info, threads, signatures, crashing, pid>>

IngestNext ==
    \/ ReadSystemInfo \/ ReadMaps \/ ReadAuxv \/ ReadCmdline \/ ReadThreads \/ IngestModule
    \/ NameProcess \/ ReadException \/ ReadDsoDebug \/ SynthesizeDsoDebug

IngestSpec == IngestInit /\ [][IngestNext]_ingestVars

-----------------------------------------------------------------------------
LinkMapOf(names) == Seq([addr : Addr, ld : Addr, name : names])

IngestTypeOK ==
    /\ TypeOK
    /\ minidump \in Minidump
    /\ stage \in {"system", "maps", "auxv", "cmdline", "threads", "modules", "exception",
                  "dso_debug", "done", "failed"}
    /\ turn \in Nat \ {0}
    /\ auxv \in [exe : Module, phdr : Addr, entry : Addr] \cup {None, Captured}
    /\ info \in [filename : Names \cup {None, "cmdline"}, arguments : Names \cup {None, "cmdline"}]
    /\ threads \in Seq(Tids)
    /\ signatures \in [Addr -> Files \cup {None}]
    /\ crashing \in Tids \cup {None} /\ pid \in Tids \cup {0}
    /\ dsoDebug \in [exe : Module \cup {Captured}, ldbase : Addr, dynamic : Addr, data : BOOLEAN,
                      linkMap : LinkMapOf(Files) \cup LinkMapOf(Names \cup {None})] \cup {None}

\* The lines of the maps texts of the minidump, whichever stream holds them.
TextLines ==
    (IF minidump.maps = Missing THEN <<>> ELSE minidump.maps)
    \o (IF IsText(minidump.auxv) THEN minidump.auxv ELSE <<>>)

\* "We prefer richer data from MD_LINUX_MAPS; only synthesize a mapping for modules we
\* have not already seen." (rust_minidump.rs:393): once all is read, the entry at each
\* start that a maps text lists is that of a line, with the line's end, permissions and
\* file offset, whatever the module list says of the address.  Which line, when several
\* have that start, is left open: the code takes the last, its documentation the first.
MapsPreferred ==
    stage = "done" =>
        \A i \in 1..Len(TextLines) :
            IsKept(TextLines[i]) =>
                \E j \in 1..Len(TextLines) :
                    /\ IsKept(TextLines[j]) /\ TextLines[j].start = TextLines[i].start
                    /\ mappings[TextLines[i].start] = LineMapping(TextLines[j])

\* NT_AUXV never holds maps text, and a captured vector is never replaced by the
\* three entries that can be synthesized.
CapturedAuxvKept ==
    stage = "done" => (auxv = Captured <=> minidump.auxv = Vector)

\* d describes a module of the list, not a captured r_debug.
IsSynthesized(d) == d # None /\ d.exe # Captured

\* The process is named by its command line if that has a name, and otherwise by
\* the executable that heads the synthesized r_debug.
NameOfExecutable ==
    stage = "done" =>
        /\ minidump.cmdline = "named" => info.filename = "cmdline"
        /\ minidump.cmdline # "named" /\ IsSynthesized(dsoDebug)
              => info.filename = dsoDebug.exe.name

\* Both syntheses speak of "the main executable" (rust_minidump.rs:499, 770): the
\* auxiliary vector, from which a debugger takes the load displacement, and r_debug
\* describe the same one.  The code looks for it with two different conditions.
SameExecutable ==
    stage = "done" /\ auxv \notin {None, Captured} /\ IsSynthesized(dsoDebug)
        => auxv.exe = dsoDebug.exe

\* A dump of a live process: its maps texts list whole, disjoint pages, and a module
\* that they do not list by its start is apart from all they list and from the other
\* such modules.
OnPages(m) == m.start % PageSize = 0 /\ m.end % PageSize = 0
LiveMinidump ==
    LET lines   == {LineMapping(TextLines[i]) : i \in {j \in 1..Len(TextLines) : IsKept(TextLines[j])}}
        modules == {ModuleMapping(Modules[i]) : i \in {j \in 1..Len(Modules) : HasRange(Modules[j])}}
        others  == {m \in modules : \A l \in lines : l.start # m.start}
    IN  /\ \A l \in lines \cup others : OnPages(l) /\ l.offset + (l.end - l.start) <= MaxAddr
        /\ \A l, n \in lines : Apart(l, n) \/ SameRange(l, n)
        /\ \A m \in others : /\ \A l \in lines : Apart(l, m)
                             /\ \A n \in others : Apart(n, m) \/ n.start = m.start

\* From such a dump the readers leave the table that the injections rely on
\* (MappingTable!LiveInv): whole, disjoint regions, although a module that a maps
\* text lists may span several of the regions it lists.
LiveRegions == stage = "done" /\ LiveMinidump => RegionsOK

\* The load displacement of the executable comes out of its file three times.  When
\* its dynamic section was found, AT_ENTRY is displaced by the ldbase of r_debug, and
\* the executable's own entry in the link map, if its file is the same, has the l_ld
\* that r_debug's dynamic section has.
OneDisplacement ==
    stage = "done" /\ IsSynthesized(dsoDebug) /\ dsoDebug.data =>
        LET exe == dsoDebug.exe IN
        /\ auxv \notin {None, Captured} =>
              auxv.exe = exe /\ auxv.entry - FileOf(exe).entry = dsoDebug.ldbase
        /\ \A i \in 1..Len(Modules) :
              LET e == dsoDebug.linkMap[i] IN
              e.addr = exe.base /\ LibraryFile(e.name) = FileOf(exe) => e.ld = dsoDebug.dynamic

\* Why a conversion may be refused: no supported system; a kept line whose range is
\* empty; maps text with a line that does not parse, the last one cut short included; a
\* raw stream whose place is not in the file; a module that ends above 2^64; a link map
\* said to have more records than memory can be reserved for.
Unconvertible ==
    \/ minidump.system # "supported"
    \/ minidump.maps # Missing /\ ~RangesOK(KeptLines(minidump.maps))
    \/ IsText(minidump.auxv) /\ ~TextOK(minidump.auxv)
    \/ Unreadable \in {minidump.auxv, minidump.cmdline, minidump.dsoDebug}
    \/ \E i \in 1..Len(Modules) : Modules[i].base + Modules[i].size > MaxAddr
    \/ minidump.dsoDebug \notin {Missing, Unreadable} /\ Stream!ReserveFails(minidump.dsoDebug)

\* A link map that the file cuts is no further reason: the loop of read_link_map
\* (rust_minidump.rs:914) stops at the first record that is not whole, no later and no
\* earlier, so that no record in front of the cut is lost, and a header that claims
\* fewer records than there are is obeyed.
CutLinkMapRead ==
    /\ stage = "failed" => Unconvertible
    /\ stage = "done" /\ dsoDebug # None /\ dsoDebug.exe = Captured =>
          LET s == minidump.dsoDebug
              n == Len(dsoDebug.linkMap)
          IN  /\ n <= s.count
              /\ n < s.count /\ ~s.sentinel => n = Len(s.records) \/ ~s.records[n + 1].whole
              /\ \A i \in 1..n : s.records[i].whole /\ dsoDebug.linkMap[i].addr = s.records[i].addr

\* "AT_PHDR: runtime address of the program-header table." (rust_minidump.rs:832): in
\* an executable that is mapped from its first byte, the table is e_phoff above the
\* base address.
HeadersMapped(f) ==
    LET i == LastOf(f, "PT_PHDR")
        v == f.phdrs[FirstLoad(f)].vaddr
    IN  i = 0 \/ f.phdrs[i].vaddr = v + f.phoff
AuxvPointsAtHeaders ==
    stage = "done" /\ auxv \notin {None, Captured} =>
        LET f == FileOf(auxv.exe) IN
        HeadersMapped(f) => auxv.phdr = auxv.exe.base + f.phoff

=============================================================================
