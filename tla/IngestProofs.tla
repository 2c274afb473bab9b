---------------------------- MODULE IngestProofs ----------------------------
(***************************************************************************)
(* The readers, for every set of minidumps: which of two sources fills a   *)
(* field, what a table of lines and modules holds, and that the load       *)
(* displacement comes out of an executable the same each time.             *)
(***************************************************************************)
EXTENDS Ingest, MappingTableProofs, FilterProofs

\* The lines that the two texts make mappings of, in their order.
MapLines  == IF minidump.maps = Missing THEN <<>> ELSE KeptLines(minidump.maps)
AuxvLines == IF IsText(minidump.auxv) THEN KeptLines(minidump.auxv) ELSE <<>>
AllLines  == MapLines \o AuxvLines

\* How many of them have been inserted, unless the conversion was refused.
LinesRead ==
    CASE stage = "system" -> 0
      [] stage = "maps"   -> turn - 1
      [] stage = "auxv"   -> Len(MapLines) + turn - 1
      [] OTHER            -> Len(AllLines)

PastMaps == stage \in {"auxv", "cmdline", "threads", "modules", "exception", "dso_debug", "done"}
PastAuxv == PastMaps /\ stage # "auxv"
Named    == stage \in {"exception", "dso_debug", "done"}

\* The last of the first n lines with start a is the entry at a; an entry that no
\* line has comes from the module list, after all lines.
FromLine(a, n) ==
    \E j \in 1..n : /\ AllLines[j].start = a /\ mappings[a] = LineMapping(AllLines[j])
                    /\ \A k \in (j + 1)..n : AllLines[k].start # a
FromModule(a, n) ==
    /\ \A k \in 1..n : AllLines[k].start # a
    /\ \/ mappings[a] = Absent
       \/ /\ n = Len(AllLines)
          /\ \E i \in 1..Len(Modules) :
                /\ HasRange(Modules[i]) /\ Modules[i].base = a
                /\ mappings[a] = ModuleMapping(Modules[i])

TurnsOK ==
    /\ stage = "system" => turn = 1
    /\ stage = "maps" => turn <= Len(MapLines) + 1
    /\ stage = "auxv" => turn <= Len(AuxvLines) + 1
TextsOK ==
    /\ PastMaps /\ minidump.maps # Missing => RangesOK(KeptLines(minidump.maps))
    /\ PastAuxv /\ IsText(minidump.auxv) => RangesOK(KeptLines(minidump.auxv))
EntriesFrom == \A a \in Addr : FromLine(a, LinesRead) \/ FromModule(a, LinesRead)
TableOK ==
    /\ imported = mappings
    /\ stage # "failed" => TurnsOK /\ TextsOK /\ EntriesFrom

\* Which source a field was filled from.
AuxvOK ==
    /\ stage \in {"system", "maps", "auxv"} => auxv = None
    /\ PastAuxv /\ minidump.auxv = Vector => auxv = Captured
    /\ PastAuxv /\ minidump.auxv # Vector =>
          auxv = None \/ (stage = "done" /\ auxv = SyntheticAuxv)
InfoOK ==
    /\ stage \in {"system", "maps", "auxv", "cmdline"} => info.filename = None
    /\ stage \in {"threads", "modules"} =>
          info.filename = IF minidump.cmdline = "named" THEN "cmdline" ELSE None
    /\ Named => info.filename = IF minidump.cmdline = "named" THEN "cmdline"
                                ELSE IF Executable = None THEN None ELSE Executable.name
DsoOK ==
    dsoDebug # None =>
        /\ stage = "done"
        /\ \/ minidump.dsoDebug = Missing /\ dsoDebug = SyntheticDso
           \/ /\ minidump.dsoDebug \notin {Missing, Unreadable}
              /\ dsoDebug = CapturedDso(minidump.dsoDebug)
FailedOK == stage = "failed" => Unconvertible

IngestInv == IngestTypeOK /\ TableOK /\ AuxvOK /\ InfoOK /\ DsoOK /\ FailedOK

-----------------------------------------------------------------------------
LEMMA MinidumpFacts ==
    ASSUME minidump \in Minidump
    PROVE  /\ minidump.disk \in SUBSET [path : Path, file : ElfFile]
           /\ minidump.maps # Missing => minidump.maps \in Seq(Line)
           /\ IsText(minidump.auxv) => minidump.auxv \in Seq(Line \cup {Malformed})
           /\ minidump.threads # Missing => minidump.threads \in Seq(Tids)
           /\ Modules \in Seq(Module) /\ Len(Modules) \in Nat
           /\ \A i \in 1..Len(Modules) : Modules[i] \in Module
           /\ minidump.exception # Missing => minidump.exception \in Tids
           /\ minidump.dsoDebug \notin {Missing, Unreadable} =>
                 minidump.dsoDebug \in Stream!DsoStream
<1>1. /\ minidump.disk \in SUBSET [path : Path, file : ElfFile]
      /\ minidump.maps \in Seq(Line) \cup {Missing}
      /\ minidump.auxv \in {Missing, Unreadable, Vector} \cup Seq(Line \cup {Malformed})
      /\ minidump.threads \in Seq(Tids) \cup {Missing}
      /\ minidump.modules \in Seq(Module) \cup {Missing}
      /\ minidump.exception \in Tids \cup {Missing}
      /\ minidump.dsoDebug \in {Missing, Unreadable} \cup Stream!DsoStream
  BY DEF Minidump
<1>2. Modules \in Seq(Module)
  BY <1>1, EmptySeq DEF Modules
<1>3. Len(Modules) \in Nat /\ \A i \in 1..Len(Modules) : Modules[i] \in Module
  BY <1>2, LenProperties, ElementOfSeq
<1> QED
  BY <1>1, <1>2, <1>3 DEF IsText

\* What FiniteSetsExt!Min and Max of places in a list are.
LEMMA MinFacts ==
    ASSUME NEW T \in SUBSET Nat, T # {}
    PROVE  Min(T) \in T /\ \A i \in T : Min(T) <= i
<1>1. \E n \in T : \A m \in T : n =< m
  BY LeastNat
<1> QED
  BY <1>1 DEF Min

LEMMA MaxFacts ==
    ASSUME NEW n \in Nat, NEW T \in SUBSET (1..n), T # {}
    PROVE  Max(T) \in T /\ \A i \in T : i <= Max(T)
<1> DEFINE U == {u \in 0..n : \A i \in T : i <= u}
<1>1. U \in SUBSET Nat /\ n \in U
  BY SMT
<1>2. PICK u \in U : \A v \in U : u <= v
  <2> HIDE DEF U
  <2> QED
    BY <1>1, LeastNat
<1>3. PICK t \in T : TRUE
  OBVIOUS
<1>4. u \in T
  <2> SUFFICES ASSUME u \notin T
               PROVE  FALSE
    OBVIOUS
  <2>1. u \in 0..n /\ t \in 1..n /\ t <= u /\ t # u
    BY <1>2, <1>3
  <2>2. u - 1 \in 0..n
    BY <2>1, SMT
  <2>3. ASSUME NEW i \in T
        PROVE  i <= u - 1
    <3>1. i \in 1..n /\ i <= u /\ i # u
      BY <1>2
    <3> QED
      BY <2>1, <3>1, SMT
  <2>4. u - 1 \in U
    BY <2>2, <2>3
  <2>5. u <= u - 1
    BY <1>2, <2>4
  <2> QED
    BY <2>1, <2>5, SMT
<1>5. \E x \in T : \A y \in T : x >= y
  <2>1. \A y \in T : u >= y
    BY <1>2
  <2> QED
    BY <1>4, <2>1
<1>6. Max(T) \in T /\ \A y \in T : Max(T) >= y
  BY <1>5 DEF Max
<1>7. ASSUME NEW i \in T
      PROVE  i <= Max(T)
  <2>1. Max(T) \in 1..n /\ i \in 1..n /\ Max(T) >= i
    BY <1>6
  <2> QED
    BY <2>1, SMT
<1> QED
  BY <1>6, <1>7

\* The executable is a module; if its file is here, both scans find it.
LEMMA ExecutableFacts ==
    ASSUME minidump \in Minidump
    PROVE  /\ Executable # None => Executable \in Module
           /\ ExecutableOnDisk # None =>
                 ExecutableOnDisk \in Module /\ FileOf(ExecutableOnDisk) # None
           /\ Executable # None /\ FileOf(Executable) # None =>
                 ExecutableOnDisk = Executable
<1> DEFINE H == {i \in 1..Len(Modules) : ~Modules[i].lib}
           D == {i \in 1..Len(Modules) : ~Modules[i].lib /\ FileOf(Modules[i]) # None}
<1>1. /\ H \in SUBSET Nat /\ D \in SUBSET Nat /\ D \subseteq H
      /\ \A i \in H : Modules[i] \in Module
      /\ \A i \in D : FileOf(Modules[i]) # None
  BY MinidumpFacts, SMT
<1>2. /\ Executable = FirstModule(H) /\ ExecutableOnDisk = FirstModule(D)
      /\ \A i \in H : FileOf(Modules[i]) # None => i \in D
  BY DEF Executable, ExecutableOnDisk
<1> HIDE DEF H, D
<1>3. H # {} => Min(H) \in H /\ Executable = Modules[Min(H)]
  BY <1>1, <1>2, MinFacts DEF FirstModule
<1>4. D # {} => Min(D) \in D /\ ExecutableOnDisk = Modules[Min(D)]
  BY <1>1, <1>2, MinFacts DEF FirstModule
<1>5. (H = {} => Executable = None) /\ (D = {} => ExecutableOnDisk = None)
  BY <1>2 DEF FirstModule
<1>6. ASSUME Executable # None, FileOf(Executable) # None
      PROVE  ExecutableOnDisk = Executable
  <2>1. Min(H) \in H /\ Executable = Modules[Min(H)]
    BY <1>3, <1>5, <1>6
  <2>2. Min(H) \in D
    BY <1>2, <1>6, <2>1
  <2>3. Min(D) \in D /\ Min(D) <= Min(H)
    BY <1>1, <2>2, MinFacts
  <2>4. Min(H) <= Min(D)
    BY <1>1, <2>3, MinFacts
  <2>5. Min(D) = Min(H)
    <3>1. Min(D) \in Nat /\ Min(H) \in Nat
      BY <1>1, <2>1, <2>3
    <3> QED
      BY <2>3, <2>4, <3>1, SMT
  <2> QED
    BY <1>4, <2>1, <2>3, <2>5
<1> QED
  BY <1>1, <1>3, <1>4, <1>5, <1>6

LEMMA FileFacts ==
    ASSUME minidump \in Minidump, NEW p, FileAt(p) # None
    PROVE  FileAt(p) \in ElfFile
<1> DEFINE here == {e \in minidump.disk : e.path = p}
<1>1. here # {} /\ FileAt(p) = (CHOOSE e \in here : TRUE).file
  BY DEF FileAt
<1>2. (CHOOSE e \in here : TRUE) \in here
  BY <1>1
<1> QED
  BY <1>1, <1>2, MinidumpFacts

-----------------------------------------------------------------------------
\* What the three scans have in common.
LEMMA HeaderFacts ==
    ASSUME NEW f \in ElfFile
    PROVE  /\ f.entry \in Addr /\ f.phoff \in Addr
           /\ FirstLoad(f) # 0 => f.phdrs[FirstLoad(f)].vaddr \in Addr
           /\ \A type : LastOf(f, type) # 0 => f.phdrs[LastOf(f, type)].vaddr \in Addr
<1>1. /\ f.entry \in Addr /\ f.phoff \in Addr /\ f.phdrs \in Seq(ProgramHeader)
  BY DEF ElfFile
<1>2. /\ Len(f.phdrs) \in Nat
      /\ \A i \in 1..Len(f.phdrs) : f.phdrs[i] \in ProgramHeader
  BY <1>1, LenProperties, ElementOfSeq
<1>3. \A i \in 1..Len(f.phdrs) : f.phdrs[i].vaddr \in Addr
  BY <1>2 DEF ProgramHeader
<1>4. \A type : HeadersOf(f, type) \in SUBSET (1..Len(f.phdrs)) /\ 1..Len(f.phdrs) \subseteq Nat
  BY SMT DEF HeadersOf
<1>5. ASSUME FirstLoad(f) # 0
      PROVE  FirstLoad(f) \in 1..Len(f.phdrs)
  <2>1. HeadersOf(f, "PT_LOAD") # {} /\ FirstLoad(f) = Min(HeadersOf(f, "PT_LOAD"))
    BY <1>5 DEF FirstLoad
  <2>2. HeadersOf(f, "PT_LOAD") \in SUBSET Nat
    BY <1>4
  <2> QED
    BY <1>4, <2>1, <2>2, MinFacts
<1>6. ASSUME NEW type, LastOf(f, type) # 0
      PROVE  LastOf(f, type) \in 1..Len(f.phdrs)
  <2>1. HeadersOf(f, type) # {} /\ LastOf(f, type) = Max(HeadersOf(f, type))
    BY <1>6 DEF LastOf
  <2> QED
    BY <1>2, <1>4, <2>1, MaxFacts
<1> QED
  BY <1>1, <1>3, <1>5, <1>6

LEMMA BiasFacts ==
    ASSUME NEW f \in ElfFile, NEW base \in Addr, HasBias(f, base)
    PROVE  Bias(f, base) \in Addr
<1>1. f.phdrs[FirstLoad(f)].vaddr \in Addr /\ f.phdrs[FirstLoad(f)].vaddr <= base
  BY HeaderFacts DEF HasBias
<1> QED
  BY <1>1, PageArithAssumption, SMT DEF Bias, Addr

\* Both scans for the dynamic section compute one address.
LEMMA DynamicFacts ==
    ASSUME NEW class, NEW f \in ElfFile, NEW base \in Addr
    PROVE  /\ RuntimeDynamic(class, f, base) \in Addr \cup {None}
           /\ ExecutableDynamic(class, f, base) # None =>
                 /\ ExecutableDynamic(class, f, base).bias = Bias(f, base)
                 /\ Bias(f, base) \in Addr
                 /\ ExecutableDynamic(class, f, base).dynamic \in Addr
                 /\ RuntimeDynamic(class, f, base) = ExecutableDynamic(class, f, base).dynamic
<1> DEFINE d == LastOf(f, "PT_DYNAMIC")
           v == f.phdrs[d].vaddr
<1>1. ASSUME d # 0, HasBias(f, base), Bias(f, base) + v <= MaxAddr
      PROVE  Bias(f, base) \in Addr /\ Bias(f, base) + v \in Addr
  <2>1. Bias(f, base) \in Addr /\ v \in Addr
    BY <1>1, HeaderFacts, BiasFacts
  <2> HIDE DEF v
  <2> QED
    BY <1>1, <2>1, PageArithAssumption, SMT DEF Addr
<1>2. RuntimeDynamic(class, f, base) \in Addr \cup {None}
  BY <1>1 DEF RuntimeDynamic
<1>3. ASSUME ExecutableDynamic(class, f, base) # None
      PROVE  /\ Scanned(f, class, {"all"}) /\ d # 0 /\ HasBias(f, base)
             /\ Bias(f, base) + v <= MaxAddr
             /\ ExecutableDynamic(class, f, base)
                   = [dynamic |-> Bias(f, base) + v, bias |-> Bias(f, base)]
  BY <1>3 DEF ExecutableDynamic
<1>4. Scanned(f, class, {"all"}) => Scanned(f, class, {"all", "vaddr"})
  BY DEF Scanned
<1>5. ASSUME ExecutableDynamic(class, f, base) # None
      PROVE  RuntimeDynamic(class, f, base) = Bias(f, base) + v
  BY <1>3, <1>4, <1>5 DEF RuntimeDynamic
<1> QED
  BY <1>1, <1>2, <1>3, <1>5

LEMMA AuxvFacts ==
    ASSUME NEW class, NEW f \in ElfFile, NEW base \in Addr, AuxvOf(class, f, base) # None
    PROVE  /\ AuxvOf(class, f, base).entry = Bias(f, base) + f.entry
           /\ AuxvOf(class, f, base).entry \in Addr /\ AuxvOf(class, f, base).phdr \in Addr
           /\ Bias(f, base) \in Addr
<1>1. /\ HasBias(f, base)
      /\ AuxvFits(class, Bias(f, base) + PhdrVaddr(f)) /\ AuxvFits(class, Bias(f, base) + f.entry)
      /\ AuxvOf(class, f, base)
            = [phdr |-> Bias(f, base) + PhdrVaddr(f), entry |-> Bias(f, base) + f.entry]
  BY DEF AuxvOf
<1>2. Bias(f, base) \in Addr /\ f.entry \in Addr /\ PhdrVaddr(f) \in Addr
  BY <1>1, BiasFacts, HeaderFacts DEF PhdrVaddr
<1>3. ASSUME NEW a \in Addr, AuxvFits(class, Bias(f, base) + a)
      PROVE  Bias(f, base) + a \in Addr
  BY <1>2, <1>3, PageArithAssumption, ElfScanAssumption, SMT DEF AuxvFits, Addr
<1> QED
  BY <1>1, <1>2, <1>3

\* The records read are those before the first that the file does not hold whole,
\* and reading them never fails.
LEMMA RecordFacts ==
    ASSUME NEW d \in Stream!DsoStream
    PROVE  /\ ~Stream!ReadFails(d)
           /\ \E n \in 0..d.count :
                 /\ Stream!RecordsRead(d) = 1..n
                 /\ \A i \in 1..n : i \in 1..Len(d.records) /\ d.records[i].whole
                 /\ n < d.count /\ ~d.sentinel =>
                       n = Len(d.records) \/ ~d.records[n + 1].whole
<1>1. d.count \in Nat /\ Len(d.records) \in Nat
  <2>1. d.count \in 0..Max32 /\ Max32 \in Nat
    BY ElfScanAssumption, PageArithAssumption, SMT DEF Stream!DsoStream
  <2> QED
    BY <2>1, LenProperties, SMT DEF Stream!DsoStream
<1> DEFINE R == Stream!RecordsRead(d)
           T == {i \in 1..d.count : ~Stream!FitsFile(d, i)}
<1>2. ASSUME NEW i \in R
      PROVE  i \in 1..d.count /\ Stream!FitsFile(d, i) /\ ~d.sentinel
  <2>1. i \in 1..d.count /\ ~d.sentinel /\ \A j \in 1..i : Stream!FitsFile(d, j)
    BY DEF Stream!RecordsRead
  <2>2. i \in 1..i
    BY <2>1, SMT
  <2> QED
    BY <2>1, <2>2
<1>3. ~Stream!ReadFails(d)
  BY <1>2 DEF Stream!ReadFails, Stream!FitsFile
<1>4. ASSUME NEW i \in 1..d.count, Stream!FitsFile(d, i)
      PROVE  i \in 1..Len(d.records) /\ d.records[i].whole
  <2>1. i <= Len(d.records) /\ d.records[i].whole
    BY <1>4 DEF Stream!FitsFile
  <2> QED
    BY <1>1, <2>1, SMT
<1> SUFFICES \E n \in 0..d.count :
                 /\ R = 1..n
                 /\ n < d.count /\ ~d.sentinel => n + 1 \in T
  <2>1. ASSUME NEW n \in 0..d.count, R = 1..n
        PROVE  \A i \in 1..n : i \in 1..Len(d.records) /\ d.records[i].whole
    BY <1>2, <1>4, <2>1
  <2>2. ASSUME NEW n \in 0..d.count, R = 1..n, n + 1 \in T
        PROVE  n = Len(d.records) \/ ~d.records[n + 1].whole
    <3>1. n = 0 \/ n \in 1..n
      BY SMT
    <3>2. n <= Len(d.records)
      BY <1>1, <2>1, <2>2, <3>1, SMT
    <3>3. ~ (n + 1 <= Len(d.records)) \/ ~d.records[n + 1].whole
      BY <2>2 DEF Stream!FitsFile
    <3> QED
      BY <1>1, <3>2, <3>3, SMT
  <2> HIDE DEF R, T
  <2> QED
    BY <1>3, <2>1, <2>2 DEF R
<1>5. CASE d.sentinel
  <2>1. R = 1..0 /\ 0 \in 0..d.count
    BY <1>1, <1>5, SMT DEF Stream!RecordsRead
  <2> QED
    BY <1>5, <2>1
<1>6. CASE ~d.sentinel /\ T = {}
  <2>1. \A i \in 1..d.count : \A j \in 1..i : j \in 1..d.count
    BY <1>1, SMT
  <2>2. R = 1..d.count
    BY <1>6, <2>1 DEF Stream!RecordsRead
  <2>3. d.count \in 0..d.count /\ ~ (d.count < d.count)
    BY <1>1, SMT
  <2> QED
    BY <2>2, <2>3
<1>7. CASE ~d.sentinel /\ T # {}
  <2>1. T \in SUBSET Nat /\ T \subseteq 1..d.count
    BY SMT
  <2>2. PICK t \in T : \A i \in T : t <= i
    <3> HIDE DEF T
    <3> QED
      BY <1>7, <2>1, LeastNat
  <2>3. t \in 1..d.count /\ t - 1 \in 0..d.count /\ (t - 1) + 1 = t
    BY <1>1, <2>1, <2>2, SMT
  <2>4. ASSUME NEW i \in 1..d.count
        PROVE  (\A j \in 1..i : Stream!FitsFile(d, j)) <=> i \in 1..(t - 1)
    <3>1. i \in 1..(t - 1) <=> i < t
      BY <1>1, <2>3, SMT
    <3>2. ASSUME i < t, NEW j \in 1..i
          PROVE  Stream!FitsFile(d, j)
      <4>1. j \in 1..d.count /\ ~ (t <= j)
        BY <1>1, <2>3, <3>2, SMT
      <4> QED
        BY <2>2, <4>1
    <3>3. ~ (i < t) => t \in 1..i
      BY <1>1, <2>3, SMT
    <3>4. ~Stream!FitsFile(d, t)
      BY <2>2
    <3> QED
      BY <3>1, <3>2, <3>3, <3>4
  <2>5. 1..(t - 1) \subseteq 1..d.count
    BY <1>1, <2>3, SMT
  <2>6. R = 1..(t - 1)
    BY <1>7, <2>4, <2>5 DEF Stream!RecordsRead
  <2> QED
    BY <2>2, <2>3, <2>6
<1> QED
  BY <1>5, <1>6, <1>7

-----------------------------------------------------------------------------
\* `kept` are the lines that make mappings, at the places `at` of the text.
KeptAt(kept, lines, at) ==
    /\ at \in Seq(1..Len(lines)) /\ Len(at) = Len(kept)
    /\ \A i \in 1..Len(at) : kept[i] = lines[at[i]] /\ IsKept(lines[at[i]])
    /\ \A i, j \in 1..Len(at) : i < j => at[i] < at[j]
    /\ \A m \in 1..Len(lines) : IsKept(lines[m]) => \E i \in 1..Len(at) : at[i] = m

LEMMA KeptLinesFacts ==
    ASSUME NEW lines \in Seq(Line \cup {Malformed})
    PROVE  KeptLines(lines) \in Seq(Line) /\ \E at : KeptAt(KeptLines(lines), lines, at)
<1> DEFINE K == {lines[i] : i \in {j \in 1..Len(lines) : IsKept(lines[j])}}
           q == KeptLines(lines)
<1>1. q = Kept(lines, K)
  BY DEF KeptLines
<1>2. \A m \in 1..Len(lines) : IsKept(lines[m]) => lines[m] \in K
  OBVIOUS
<1>3. \A l \in K : IsKept(l) /\ l \in Line
  <2>1. \A j \in 1..Len(lines) : lines[j] \in Line \cup {Malformed}
    BY ElementOfSeq
  <2> QED
    BY <2>1 DEF IsKept
<1> HIDE DEF K, q
<1>4. q \in Seq(Line \cup {Malformed}) /\ \E at : Places(lines, K, at)
  BY <1>1, KeptPlaces
<1>5. PICK at : Places(lines, K, at)
  BY <1>4
<1>6. /\ at \in Seq(1..Len(lines)) /\ Len(at) = Len(q)
      /\ \A i \in 1..Len(at) : q[i] = lines[at[i]] /\ lines[at[i]] \in K
      /\ \A i, j \in 1..Len(at) : i < j => at[i] < at[j]
      /\ \A m \in 1..Len(lines) : lines[m] \in K => \E i \in 1..Len(at) : at[i] = m
  BY <1>1, <1>5 DEF Places
<1>7. KeptAt(q, lines, at)
  BY <1>2, <1>3, <1>6 DEF KeptAt
<1>8. \A i \in 1..Len(q) : q[i] \in Line
  BY <1>3, <1>6
<1>9. q \in Seq(Line)
  <2>1. Len(q) \in Nat /\ q \in [1..Len(q) -> Line \cup {Malformed}]
    BY <1>4, LenProperties
  <2>2. q \in [1..Len(q) -> Line]
    BY <1>8, <2>1
  <2> QED
    BY <2>1, <2>2, SeqDef
<1> QED
  BY <1>7, <1>9 DEF q

\* The lines of one text after the other.
LEMMA KeptJoined ==
    ASSUME NEW S, NEW T, NEW k1 \in Seq(S), NEW k2 \in Seq(S), NEW l1 \in Seq(T), NEW l2 \in Seq(T),
           NEW a1, KeptAt(k1, l1, a1), NEW a2, KeptAt(k2, l2, a2)
    PROVE  \E at : KeptAt(k1 \o k2, l1 \o l2, at)
<1> DEFINE n1 == Len(k1)
           n2 == Len(k2)
           m1 == Len(l1)
           m2 == Len(l2)
           at == [i \in 1..(n1 + n2) |-> IF i <= n1 THEN a1[i] ELSE m1 + a2[i - n1]]
<1>1. /\ n1 \in Nat /\ n2 \in Nat /\ m1 \in Nat /\ m2 \in Nat
      /\ Len(k1 \o k2) = n1 + n2 /\ Len(l1 \o l2) = m1 + m2
      /\ \A i \in 1..(n1 + n2) : (k1 \o k2)[i] = IF i <= n1 THEN k1[i] ELSE k2[i - n1]
      /\ \A i \in 1..(m1 + m2) : (l1 \o l2)[i] = IF i <= m1 THEN l1[i] ELSE l2[i - m1]
  BY LenProperties, ConcatProperties
<1>2. /\ \A i \in 1..n1 : a1[i] \in 1..m1 /\ k1[i] = l1[a1[i]] /\ IsKept(l1[a1[i]])
      /\ \A i, j \in 1..n1 : i < j => a1[i] < a1[j]
      /\ \A m \in 1..m1 : IsKept(l1[m]) => \E i \in 1..n1 : a1[i] = m
  BY ElementOfSeq DEF KeptAt
<1>3. /\ \A i \in 1..n2 : a2[i] \in 1..m2 /\ k2[i] = l2[a2[i]] /\ IsKept(l2[a2[i]])
      /\ \A i, j \in 1..n2 : i < j => a2[i] < a2[j]
      /\ \A m \in 1..m2 : IsKept(l2[m]) => \E i \in 1..n2 : a2[i] = m
  BY ElementOfSeq DEF KeptAt
<1> DEFINE k == k1 \o k2
           l == l1 \o l2
<1> HIDE DEF n1, n2, m1, m2, k, l
<1>4. ASSUME NEW i \in 1..(n1 + n2), i <= n1
      PROVE  /\ i \in 1..n1 /\ at[i] = a1[i] /\ at[i] \in 1..(m1 + m2) /\ at[i] <= m1
             /\ k[i] = l[at[i]] /\ IsKept(l[at[i]])
  <2>1. i \in 1..n1 /\ at[i] = a1[i]
    BY <1>1, <1>4, SMT
  <2>2. at[i] \in 1..m1 /\ at[i] \in 1..(m1 + m2) /\ at[i] <= m1
    BY <1>1, <1>2, <2>1, SMT
  <2>3. k[i] = k1[i] /\ l[at[i]] = l1[a1[i]]
    BY <1>1, <1>4, <2>1, <2>2 DEF k, l
  <2> QED
    BY <1>2, <2>1, <2>2, <2>3
<1>5. ASSUME NEW i \in 1..(n1 + n2), ~ (i <= n1)
      PROVE  /\ i - n1 \in 1..n2 /\ at[i] = m1 + a2[i - n1] /\ at[i] \in 1..(m1 + m2)
             /\ ~ (at[i] <= m1) /\ at[i] - m1 = a2[i - n1]
             /\ k[i] = l[at[i]] /\ IsKept(l[at[i]])
  <2>1. i - n1 \in 1..n2 /\ at[i] = m1 + a2[i - n1]
    BY <1>1, <1>5, SMT
  <2>2. a2[i - n1] \in 1..m2
    BY <1>3, <2>1
  <2>3. at[i] \in 1..(m1 + m2) /\ ~ (at[i] <= m1) /\ at[i] - m1 = a2[i - n1]
    BY <1>1, <2>1, <2>2, SMT
  <2>4. k[i] = k2[i - n1] /\ l[at[i]] = l2[a2[i - n1]]
    BY <1>1, <1>5, <2>3 DEF k, l
  <2> QED
    BY <1>3, <2>1, <2>3, <2>4
<1>6. at \in Seq(1..(m1 + m2)) /\ Len(at) = n1 + n2
  <2>1. at \in [1..(n1 + n2) -> 1..(m1 + m2)]
    BY <1>4, <1>5
  <2>2. n1 + n2 \in Nat
    BY <1>1
  <2> HIDE DEF at
  <2> QED
    BY <2>1, <2>2, FunctionAsSeq
<1>7. ASSUME NEW i \in 1..(n1 + n2), NEW j \in 1..(n1 + n2), i < j
      PROVE  at[i] < at[j]
  <2>1. CASE j <= n1
    <3>1. i <= n1
      BY <1>1, <1>7, <2>1, SMT
    <3> QED
      BY <1>2, <1>4, <1>7, <2>1, <3>1
  <2>2. CASE ~ (i <= n1)
    <3>1. ~ (j <= n1) /\ i - n1 < j - n1
      BY <1>1, <1>7, <2>2, SMT
    <3>2. a2[i - n1] < a2[j - n1] /\ a2[i - n1] \in 1..m2 /\ a2[j - n1] \in 1..m2
      BY <1>3, <1>5, <2>2, <3>1
    <3>3. at[i] = m1 + a2[i - n1] /\ at[j] = m1 + a2[j - n1]
      BY <1>5, <2>2, <3>1
    <3>4. \A x, y \in 1..m2 : x < y => m1 + x < m1 + y
      BY <1>1, SMT
    <3> QED
      BY <3>2, <3>3, <3>4
  <2>3. CASE i <= n1 /\ ~ (j <= n1)
    <3>1. at[i] \in 1..(m1 + m2) /\ at[j] \in 1..(m1 + m2) /\ at[i] <= m1 /\ ~ (at[j] <= m1)
      BY <1>4, <1>5, <2>3
    <3> HIDE DEF at
    <3> QED
      BY <1>1, <3>1, SMT
  <2> QED
    BY <2>1, <2>2, <2>3
<1>8. ASSUME NEW m \in 1..(m1 + m2), IsKept(l[m])
      PROVE  \E i \in 1..(n1 + n2) : at[i] = m
  <2>1. CASE m <= m1
    <3>1. m \in 1..m1 /\ l[m] = l1[m]
      BY <1>1, <2>1, SMT DEF l
    <3>2. PICK i \in 1..n1 : a1[i] = m
      BY <1>2, <1>8, <3>1
    <3>3. i \in 1..(n1 + n2) /\ i <= n1
      BY <1>1, SMT
    <3> QED
      BY <1>4, <3>2, <3>3
  <2>2. CASE ~ (m <= m1)
    <3>3. m1 \in Nat /\ m2 \in Nat
      BY <1>1
    <3>4. m - m1 \in 1..m2
      BY <2>2, <3>3, SMT
    <3>5. l[m] = l2[m - m1]
      BY <1>1, <2>2 DEF l
    <3>1. m - m1 \in 1..m2 /\ l[m] = l2[m - m1]
      BY <3>4, <3>5
    <3>2. PICK i \in 1..n2 : a2[i] = m - m1
      BY <1>3, <1>8, <3>1
    <3>6. i + n1 \in 1..(n1 + n2) /\ ~ (i + n1 <= n1) /\ (i + n1) - n1 = i /\ m1 + (m - m1) = m
      BY <1>1, SMT
    <3> QED
      BY <1>5, <3>2, <3>6
  <2> QED
    BY <2>1, <2>2
<1> HIDE DEF at
<1>9. KeptAt(k, l, at)
  BY <1>1, <1>4, <1>5, <1>6, <1>7, <1>8 DEF KeptAt, k, l
<1> QED
  BY <1>9 DEF k, l

\* Both texts.
LEMMA LinesFacts ==
    ASSUME minidump \in Minidump
    PROVE  /\ MapLines \in Seq(Line) /\ AuxvLines \in Seq(Line) /\ AllLines \in Seq(Line)
           /\ Len(MapLines) \in Nat /\ Len(AuxvLines) \in Nat
           /\ Len(AllLines) = Len(MapLines) + Len(AuxvLines)
           /\ \A i \in 1..Len(MapLines) : AllLines[i] = MapLines[i]
           /\ \A i \in 1..Len(AuxvLines) : AllLines[Len(MapLines) + i] = AuxvLines[i]
           /\ TextLines \in Seq(Line \cup {Malformed})
           /\ \E at : KeptAt(AllLines, TextLines, at)
<1> DEFINE M == IF minidump.maps = Missing THEN <<>> ELSE minidump.maps
           A == IF IsText(minidump.auxv) THEN minidump.auxv ELSE <<>>
           S == Line \cup {Malformed}
<1>1. M \in Seq(S) /\ A \in Seq(S)
  <2>1. minidump.maps # Missing => minidump.maps \in Seq(S)
    BY MinidumpFacts, SeqMonotonic
  <2> QED
    BY <2>1, MinidumpFacts, EmptySeq
<1>2. KeptAt(<<>>, <<>>, <<>>)
  BY EmptySeq, SMT DEF KeptAt
<1>3. MapLines \in Seq(Line) /\ \E at : KeptAt(MapLines, M, at)
  BY <1>1, <1>2, KeptLinesFacts, EmptySeq DEF MapLines
<1>4. AuxvLines \in Seq(Line) /\ \E at : KeptAt(AuxvLines, A, at)
  BY <1>1, <1>2, KeptLinesFacts, EmptySeq DEF AuxvLines
<1>5. TextLines = M \o A
  BY DEF TextLines
<1> HIDE DEF M, A, S
<1>6. PICK a1 : KeptAt(MapLines, M, a1)
  BY <1>3
<1>7. PICK a2 : KeptAt(AuxvLines, A, a2)
  BY <1>4
<1>8. \E at : KeptAt(AllLines, TextLines, at)
  BY <1>1, <1>3, <1>4, <1>5, <1>6, <1>7, KeptJoined DEF AllLines
<1>9. AllLines \in Seq(Line) /\ TextLines \in Seq(S)
  BY <1>1, <1>3, <1>4, <1>5, ConcatProperties DEF AllLines
<1> DEFINE n1 == Len(MapLines)
           n2 == Len(AuxvLines)
<1>10. /\ n1 \in Nat /\ n2 \in Nat /\ Len(AllLines) = n1 + n2
       /\ \A i \in 1..(n1 + n2) :
             AllLines[i] = IF i <= n1 THEN MapLines[i] ELSE AuxvLines[i - n1]
  BY <1>3, <1>4, LenProperties, ConcatProperties DEF AllLines
<1> HIDE DEF n1, n2
<1>11. ASSUME NEW i \in 1..n1
       PROVE  AllLines[i] = MapLines[i]
  BY <1>10, SMT
<1>12. ASSUME NEW i \in 1..n2
       PROVE  AllLines[n1 + i] = AuxvLines[i]
  <2>1. n1 + i \in 1..(n1 + n2) /\ ~ (n1 + i <= n1) /\ (n1 + i) - n1 = i
    BY <1>10, SMT
  <2> QED
    BY <1>10, <2>1
<1> QED
  BY <1>3, <1>4, <1>8, <1>9, <1>10, <1>11, <1>12 DEF n1, n2, S

-----------------------------------------------------------------------------
LEMMA MappingTypes ==
    /\ \A l \in Line : LineMapping(l) \in Mapping
    /\ \A m \in Module : /\ SignatureFor(m) \in Files /\ ModuleEnd(m) \in Addr
                         /\ ModuleMapping(m) \in Mapping
<1>1. NoData \in Data
  BY EmptyData
<1>2. ASSUME NEW l \in Line
      PROVE  LineMapping(l) \in Mapping
  BY <1>1 DEF Line, LineMapping, Mapping
<1>3. ASSUME NEW m \in Module
      PROVE  /\ SignatureFor(m) \in Files /\ ModuleEnd(m) \in Addr
             /\ ModuleMapping(m) \in Mapping
  <2>1. m.name \in Names /\ m.base \in Addr /\ m.size \in Addr
    BY DEF Module
  <2>2. /\ <<"none", m.name>> \in Files /\ <<"sobasedir", m.name>> \in Files
        /\ <<"mangle", m.name>> \in Files
    BY <2>1, IngestAssumption
  <2>3. SignatureFor(m) \in Files
    BY <2>2 DEF SignatureFor
  <2>4. ModuleEnd(m) \in Addr
    BY <2>1, PageArithAssumption, SMT DEF ModuleEnd, Addr
  <2>5. 0 \in Addr /\ ReadOnly \in Permissions
    BY PageArithAssumption, IngestAssumption, SMT DEF Addr
  <2> QED
    BY <1>1, <2>1, <2>3, <2>4, <2>5 DEF ModuleMapping, Mapping
<1> QED
  BY <1>2, <1>3

\* What r_debug and the auxiliary vector are made of.
DsoRecord == [exe : Module \cup {Captured}, ldbase : Addr, dynamic : Addr, data : BOOLEAN,
              linkMap : LinkMapOf(Files) \cup LinkMapOf(Names \cup {None})]
AuxvRecord == [exe : Module, phdr : Addr, entry : Addr]

LEMMA CapturedTypes ==
    ASSUME NEW d \in Stream!DsoStream
    PROVE  CapturedDso(d) \in DsoRecord
<1>0. Stream!Addr = Addr
  BY DEF Stream!Addr, Addr
<1>1. /\ d.ldbase \in Addr /\ d.dynamic \in Addr /\ d.data \in BOOLEAN
      /\ d.records \in Seq(Stream!RawRecord)
  BY <1>0 DEF Stream!DsoStream
<1>2. PICK n \in 0..d.count :
         Stream!RecordsRead(d) = 1..n /\ \A i \in 1..n : i \in 1..Len(d.records)
  BY RecordFacts
<1>3. n \in Nat
  BY <1>1, <1>2, ElfScanAssumption, PageArithAssumption, SMT DEF Stream!DsoStream
<1> DEFINE E == [addr : Addr, ld : Addr, name : Names \cup {None}]
<1>4. \A i \in 1..n : d.records[i] \in Stream!RawRecord
  BY <1>1, <1>2, ElementOfSeq
<1>5. \A i \in 1..n : [addr |-> d.records[i].addr, ld |-> d.records[i].ld,
                       name |-> d.records[i].name] \in E
  BY <1>0, <1>4 DEF Stream!RawRecord
<1>6. Stream!LinkMapOf(d) \in [1..n -> E]
  BY <1>2, <1>5 DEF Stream!LinkMapOf
<1>7. Stream!LinkMapOf(d) \in LinkMapOf(Names \cup {None})
  BY <1>3, <1>6, FunctionAsSeq DEF LinkMapOf
<1> QED
  BY <1>1, <1>7 DEF CapturedDso, DsoRecord

LEMMA SyntheticTypes ==
    ASSUME minidump \in Minidump, signatures \in [Addr -> Files \cup {None}]
    PROVE  /\ SyntheticAuxv \in AuxvRecord \cup {None}
           /\ SyntheticDso \in DsoRecord \cup {None}
<1>1. \A m \in Module : m.base \in Addr /\ m.name \in Names
  BY DEF Module
<1>2. 0 \in Addr
  BY PageArithAssumption, SMT DEF Addr
<1>3. ASSUME SyntheticAuxv # None
      PROVE  SyntheticAuxv \in AuxvRecord
  <2> DEFINE m == ExecutableOnDisk
             a == AuxvOf(minidump.class, FileOf(m), m.base)
  <2>1. m # None /\ a # None /\ SyntheticAuxv = [exe |-> m, phdr |-> a.phdr, entry |-> a.entry]
    BY <1>3 DEF SyntheticAuxv
  <2>2. m \in Module /\ FileOf(m) # None
    BY <2>1, ExecutableFacts
  <2>3. FileOf(m) \in ElfFile /\ m.base \in Addr
    BY <1>1, <2>2, FileFacts DEF FileOf
  <2>4. a.phdr \in Addr /\ a.entry \in Addr
    BY <2>1, <2>3, AuxvFacts
  <2> QED
    BY <2>1, <2>2, <2>4 DEF AuxvRecord
<1>4. ASSUME NEW m \in Module
      PROVE  LinkMapEntry(m) \in [addr : Addr, ld : Addr, name : Files]
  <2> DEFINE name == IF signatures[m.base] = None THEN <<"none", m.name>> ELSE signatures[m.base]
             f    == LibraryFile(name)
             ld   == IF f = None THEN None ELSE RuntimeDynamic(minidump.class, f, m.base)
  <2>1. name \in Files
    <3>1. signatures[m.base] \in Files \cup {None}
      BY <1>1
    <3>2. <<"none", m.name>> \in Files
      BY <1>1, IngestAssumption
    <3> QED
      BY <3>1, <3>2
  <2>2. f # None => f \in ElfFile
    BY FileFacts DEF LibraryFile
  <2>3. ld \in Addr \cup {None}
    BY <1>1, <2>2, DynamicFacts
  <2>4. LinkMapEntry(m) = [addr |-> m.base, name |-> name, ld |-> IF ld = None THEN 0 ELSE ld]
    BY DEF LinkMapEntry
  <2> HIDE DEF name, ld
  <2> QED
    BY <1>1, <1>2, <2>1, <2>3, <2>4
<1>5. ASSUME SyntheticDso # None
      PROVE  SyntheticDso \in DsoRecord
  <2> DEFINE m == Executable
             f == FileOf(m)
             x == IF f = None THEN None ELSE ExecutableDynamic(minidump.class, f, m.base)
             links == [i \in 1..Len(Modules) |-> LinkMapEntry(Modules[i])]
  <2>1. /\ m # None
        /\ SyntheticDso = [exe |-> m, ldbase |-> IF x = None THEN m.base ELSE x.bias,
                           dynamic |-> IF x = None THEN 0 ELSE x.dynamic, data |-> x # None,
                           linkMap |-> links]
    BY <1>5 DEF SyntheticDso
  <2>2. m \in Module /\ m.base \in Addr
    BY <1>1, <2>1, ExecutableFacts
  <2>3. x # None => x.bias \in Addr /\ x.dynamic \in Addr
    BY <2>2, FileFacts, DynamicFacts DEF FileOf
  <2>4. links \in LinkMapOf(Files)
    <3> DEFINE E == [addr : Addr, ld : Addr, name : Files]
    <3>1. links \in [1..Len(Modules) -> E] /\ Len(Modules) \in Nat
      BY <1>4, MinidumpFacts
    <3> HIDE DEF links, E
    <3>2. links \in Seq(E)
      BY <3>1, FunctionAsSeq
    <3> QED
      BY <3>2 DEF LinkMapOf, E
  <2> HIDE DEF x, links
  <2> QED
    BY <1>2, <2>1, <2>2, <2>3, <2>4 DEF DsoRecord
<1> QED
  BY <1>3, <1>5

-----------------------------------------------------------------------------
\* No step changes the minidump, and what is computed from it alone stays.
LEMMA SameMinidump ==
    ASSUME minidump' = minidump
    PROVE  /\ Modules' = Modules /\ MapLines' = MapLines /\ AuxvLines' = AuxvLines
           /\ AllLines' = AllLines /\ SyntheticAuxv' = SyntheticAuxv
           /\ Executable' = Executable /\ (Unconvertible' <=> Unconvertible)
           /\ \A m : SignatureFor(m)' = SignatureFor(m)
<1>1. Modules' = Modules
  BY DEF Modules
<1>2. MapLines' = MapLines /\ AuxvLines' = AuxvLines
  BY DEF MapLines, AuxvLines, IsText
<1>3. AllLines' = AllLines
  BY <1>2 DEF AllLines
<1>4. \A p : FileAt(p)' = FileAt(p)
  BY DEF FileAt
<1>5. Executable' = Executable /\ ExecutableOnDisk' = ExecutableOnDisk
  BY <1>1, <1>4 DEF Executable, ExecutableOnDisk, FirstModule, FileOf
<1>6. SyntheticAuxv' = SyntheticAuxv
  BY <1>4, <1>5 DEF SyntheticAuxv, FileOf
<1>7. Unconvertible' <=> Unconvertible
  BY <1>1 DEF Unconvertible, IsText
<1>8. \A m : SignatureFor(m)' = SignatureFor(m)
  BY DEF SignatureFor
<1> QED
  BY <1>1, <1>2, <1>3, <1>5, <1>6, <1>7, <1>8

LEMMA MinidumpStays == [IngestNext]_ingestVars => minidump' = minidump
BY DEF ingestVars, IngestNext, ReadSystemInfo, ReadMaps, ReadAuxv, ReadCmdline, ReadThreads,
       IngestModule, NameProcess, ReadException, ReadDsoDebug, SynthesizeDsoDebug, InsertLines, GoTo

-----------------------------------------------------------------------------
LEMMA InsertTypes ==
    ASSUME TypeOK, NEW m \in Mapping, InsertMapping(m) \/ InsertMappingIfAbsent(m)
    PROVE  TypeOK'
<1>1. m.start \in Addr
  BY DEF Mapping
<1> QED
  BY <1>1 DEF TypeOK, InsertMapping, InsertMappingIfAbsent, Put

LEMMA InsertLinesTypes ==
    ASSUME IngestTypeOK, NEW lines \in Seq(Line), NEW s \in {"auxv", "cmdline"}, InsertLines(lines, s)
    PROVE  IngestTypeOK'
<1>1. CASE /\ turn <= Len(lines) /\ InsertMapping(LineMapping(lines[turn]))
           /\ turn' = turn + 1 /\ UNCHANGED <<minidump, stage, processVars>>
  <2>1. turn \in 1..Len(lines) /\ turn' \in Nat \ {0}
    <3>1. Len(lines) \in Nat /\ turn \in Nat \ {0}
      BY LenProperties DEF IngestTypeOK
    <3> QED
      BY <1>1, <3>1, SMT
  <2>2. LineMapping(lines[turn]) \in Mapping
    BY <2>1, ElementOfSeq, MappingTypes
  <2>3. TypeOK'
    BY <1>1, <2>2, InsertTypes DEF IngestTypeOK
  <2> QED
    BY <1>1, <2>1, <2>3 DEF IngestTypeOK, processVars
<1>2. CASE turn > Len(lines) /\ GoTo(s) /\ UNCHANGED <<tableVars, processVars>>
  BY <1>2 DEF IngestTypeOK, TypeOK, GoTo, tableVars, processVars
<1> QED
  BY <1>1, <1>2 DEF InsertLines

LEMMA IngestTypeInit == IngestInit => IngestTypeOK
<1> SUFFICES ASSUME IngestInit
             PROVE  IngestTypeOK
  OBVIOUS
<1>1. TypeOK /\ minidump \in Minidump
  BY TypeInit, IngestAssumption DEF IngestInit
<1>2. threads \in Seq(Tids)
  BY EmptySeq DEF IngestInit
<1> QED
  BY <1>1, <1>2 DEF IngestInit, IngestTypeOK

LEMMA IngestTypeStep == IngestTypeOK /\ [IngestNext]_ingestVars => IngestTypeOK'
<1> SUFFICES ASSUME IngestTypeOK, [IngestNext]_ingestVars
             PROVE  IngestTypeOK'
  OBVIOUS
<1>1. minidump \in Minidump /\ minidump' = minidump
  BY MinidumpStays DEF IngestTypeOK
<1>2. CASE UNCHANGED ingestVars
  BY <1>2 DEF IngestTypeOK, TypeOK, ingestVars, tableVars, processVars
<1>3. CASE ReadSystemInfo
  BY <1>3 DEF ReadSystemInfo, GoTo, IngestTypeOK, TypeOK, tableVars, processVars
<1>4. CASE ReadMaps
  <2>1. minidump.maps # Missing => KeptLines(minidump.maps) \in Seq(Line)
    BY <1>1, LinesFacts DEF MapLines
  <2>2. ASSUME NEW s \in {"auxv", "failed"}, GoTo(s), UNCHANGED <<tableVars, processVars>>
        PROVE  IngestTypeOK'
    BY <2>2 DEF GoTo, IngestTypeOK, TypeOK, tableVars, processVars
  <2>3. CASE minidump.maps # Missing /\ InsertLines(KeptLines(minidump.maps), "auxv")
    BY <2>1, <2>3, InsertLinesTypes
  <2> QED
    BY <1>4, <2>2, <2>3 DEF ReadMaps
<1>5. CASE ReadAuxv
  <2>1. IsText(minidump.auxv) => KeptLines(minidump.auxv) \in Seq(Line)
    BY <1>1, LinesFacts DEF AuxvLines
  <2>2. ASSUME NEW s \in {"cmdline", "failed"}, GoTo(s), UNCHANGED <<tableVars, processVars>>
        PROVE  IngestTypeOK'
    BY <2>2 DEF GoTo, IngestTypeOK, TypeOK, tableVars, processVars
  <2>3. CASE IsText(minidump.auxv) /\ InsertLines(KeptLines(minidump.auxv), "cmdline")
    BY <2>1, <2>3, InsertLinesTypes
  <2>4. CASE /\ GoTo("cmdline") /\ auxv' = Captured
             /\ UNCHANGED <<tableVars, info, threads, signatures, crashing, pid, dsoDebug>>
    BY <2>4 DEF GoTo, IngestTypeOK, TypeOK, tableVars
  <2> QED
    BY <1>5, <2>2, <2>3, <2>4 DEF ReadAuxv
<1>6. CASE ReadCmdline
  <2>1. info' \in [filename : Names \cup {None, "cmdline"}, arguments : Names \cup {None, "cmdline"}]
    BY <1>6 DEF ReadCmdline, IngestTypeOK
  <2>2. stage' \in {"failed", "threads"} /\ turn' = 1
    BY <1>6 DEF ReadCmdline, GoTo
  <2> QED
    BY <1>1, <1>6, <2>1, <2>2 DEF ReadCmdline, IngestTypeOK, TypeOK, tableVars
<1>7. CASE ReadThreads
  <2>1. threads' \in Seq(Tids)
    BY <1>1, <1>7, MinidumpFacts DEF ReadThreads, IngestTypeOK
  <2> QED
    BY <1>7, <2>1 DEF ReadThreads, GoTo, IngestTypeOK, TypeOK, tableVars
<1>8. CASE IngestModule
  <2>1. turn \in 1..Len(Modules) /\ turn + 1 \in Nat \ {0}
    <3>1. Len(Modules) \in Nat /\ turn \in Nat \ {0}
      BY <1>1, MinidumpFacts DEF IngestTypeOK
    <3> QED
      BY <1>8, <3>1, SMT DEF IngestModule
  <2> DEFINE m == Modules[turn]
  <2>2. m \in Module /\ m.base \in Addr /\ ModuleMapping(m) \in Mapping /\ SignatureFor(m) \in Files
    BY <1>1, <2>1, MinidumpFacts, MappingTypes DEF Module
  <2>3. CASE /\ IF HasRange(m) THEN InsertMappingIfAbsent(ModuleMapping(m)) ELSE UNCHANGED tableVars
             /\ signatures' = [signatures EXCEPT ![m.base] = SignatureFor(m)]
             /\ turn' = turn + 1
             /\ UNCHANGED <<minidump, stage, auxv, info, threads, crashing, pid, dsoDebug>>
    <3>1. TypeOK'
      <4>1. CASE HasRange(m)
        BY <2>2, <2>3, <4>1, InsertTypes DEF IngestTypeOK
      <4>2. CASE ~HasRange(m)
        BY <2>3, <4>2 DEF IngestTypeOK, TypeOK, tableVars
      <4> QED
        BY <4>1, <4>2
    <3>2. signatures' \in [Addr -> Files \cup {None}]
      <4> HIDE DEF m
      <4> QED
        BY <2>2, <2>3 DEF IngestTypeOK
    <3> QED
      BY <2>1, <2>3, <3>1, <3>2 DEF IngestTypeOK
  <2>4. CASE GoTo("failed") /\ UNCHANGED <<tableVars, processVars>>
    BY <2>4 DEF GoTo, IngestTypeOK, TypeOK, tableVars, processVars
  <2> QED
    BY <1>8, <2>3, <2>4 DEF IngestModule
<1>9. CASE NameProcess
  <2>1. Executable # None => Executable.name \in Names
    BY <1>1, ExecutableFacts DEF Module
  <2>2. info' \in [filename : Names \cup {None, "cmdline"}, arguments : Names \cup {None, "cmdline"}]
    BY <1>9, <2>1 DEF NameProcess, NameFallback, IngestTypeOK
  <2> QED
    BY <1>9, <2>2 DEF NameProcess, GoTo, IngestTypeOK, TypeOK, tableVars
<1>10. CASE ReadException
  <2>1. crashing' \in Tids \cup {None}
    BY <1>1, <1>10, MinidumpFacts DEF ReadException, IngestTypeOK
  <2>2. threads # <<>> => threads[1] \in Tids
    <3>1. threads \in Seq(Tids)
      BY DEF IngestTypeOK
    <3>2. threads # <<>> => 1 \in 1..Len(threads)
      BY <3>1, EmptySeq, SMT
    <3> QED
      BY <3>1, <3>2, ElementOfSeq
  <2>3. pid' \in Tids \cup {0}
    BY <1>10, <2>1, <2>2 DEF ReadException, Pid
  <2> QED
    BY <1>10, <2>1, <2>3 DEF ReadException, GoTo, IngestTypeOK, TypeOK, tableVars
<1>11. CASE ReadDsoDebug
  <2>1. dsoDebug' \in DsoRecord \cup {None}
    <3>1. dsoDebug \in DsoRecord \cup {None}
      BY DEF IngestTypeOK, DsoRecord
    <3>2. minidump.dsoDebug \notin {Missing, Unreadable} =>
             CapturedDso(minidump.dsoDebug) \in DsoRecord
      BY <1>1, MinidumpFacts, CapturedTypes
    <3> QED
      BY <1>11, <3>1, <3>2 DEF ReadDsoDebug, processVars
  <2>2. /\ stage' \in {"failed", "done"} /\ turn' = 1
        /\ UNCHANGED <<tableVars, auxv, info, threads, signatures, crashing, pid>>
    BY <1>11 DEF ReadDsoDebug, GoTo, processVars
  <2> QED
    BY <1>1, <2>1, <2>2 DEF IngestTypeOK, TypeOK, tableVars, DsoRecord
<1>12. CASE SynthesizeDsoDebug
  <2>1. SyntheticAuxv \in AuxvRecord \cup {None} /\ SyntheticDso \in DsoRecord \cup {None}
    BY <1>1, SyntheticTypes DEF IngestTypeOK
  <2>2. dsoDebug' \in DsoRecord \cup {None}
    BY <1>12, <2>1 DEF SynthesizeDsoDebug, IngestTypeOK, DsoRecord
  <2>3. auxv' \in AuxvRecord \cup {None, Captured}
    BY <1>12, <2>1 DEF SynthesizeDsoDebug, SynthesizeAuxv, IngestTypeOK, AuxvRecord
  <2>4. /\ stage' = "done" /\ turn' = 1
        /\ UNCHANGED <<tableVars, info, threads, signatures, crashing, pid>>
    BY <1>12 DEF SynthesizeDsoDebug, GoTo
  <2> QED
    BY <1>1, <2>2, <2>3, <2>4 DEF IngestTypeOK, TypeOK, tableVars, DsoRecord, AuxvRecord
<1> QED
  BY <1>2, <1>3, <1>4, <1>5, <1>6, <1>7, <1>8, <1>9, <1>10, <1>11, <1>12 DEF IngestNext

\* Whatever streams a minidump has and whatever files this disk holds, the process
\* that is read keeps its types: every mapping's fields, every synthesized address
\* and every sum is a u64, also when a module ends above the address space.
THEOREM IngestTypes == IngestSpec => []IngestTypeOK
BY IngestTypeInit, IngestTypeStep, PTL DEF IngestSpec

-----------------------------------------------------------------------------
LEMMA SameDso ==
    ASSUME minidump' = minidump, signatures' = signatures
    PROVE  SyntheticDso' = SyntheticDso
<1>1. Modules' = Modules /\ Executable' = Executable
  BY SameMinidump
<1>2. \A p : FileAt(p)' = FileAt(p)
  BY DEF FileAt
<1>3. \A p : LibraryFile(p)' = LibraryFile(p)
  BY <1>2 DEF LibraryFile
<1>4. \A m : LinkMapEntry(m)' = LinkMapEntry(m)
  BY <1>3 DEF LinkMapEntry
<1> QED
  BY <1>1, <1>2, <1>4 DEF SyntheticDso, FileOf

\* The fields keep their sources through every step.
FieldsOK == AuxvOK /\ InfoOK /\ DsoOK /\ FailedOK

LEMMA FieldsInit == IngestInit => FieldsOK
BY DEF IngestInit, FieldsOK, AuxvOK, InfoOK, DsoOK, FailedOK, PastAuxv, PastMaps, Named

LEMMA FieldsStep == IngestTypeOK /\ FieldsOK /\ [IngestNext]_ingestVars => FieldsOK'
<1> SUFFICES ASSUME IngestTypeOK, FieldsOK, [IngestNext]_ingestVars
             PROVE  FieldsOK'
  OBVIOUS
<1>1. /\ minidump \in Minidump /\ minidump' = minidump /\ SyntheticAuxv' = SyntheticAuxv
      /\ Executable' = Executable /\ (Unconvertible' <=> Unconvertible)
  BY MinidumpStays, SameMinidump DEF IngestTypeOK
<1>2. CASE UNCHANGED ingestVars
  <2>1. SyntheticDso' = SyntheticDso /\ CapturedDso(minidump.dsoDebug)' = CapturedDso(minidump.dsoDebug)
    BY <1>1, <1>2, SameDso DEF ingestVars, processVars
  <2> QED
    BY <1>1, <1>2, <2>1
    DEF FieldsOK, AuxvOK, InfoOK, DsoOK, FailedOK, PastAuxv, PastMaps, Named, ingestVars, processVars
<1>3. CASE ReadSystemInfo
  BY <1>1, <1>3 DEF ReadSystemInfo, GoTo, processVars, Unconvertible,
     FieldsOK, AuxvOK, InfoOK, DsoOK, FailedOK, PastAuxv, PastMaps, Named
<1>4. CASE ReadMaps
  <2>1. stage = "maps" /\ UNCHANGED processVars
    BY <1>4 DEF ReadMaps, InsertLines
  <2>2. /\ stage' \in {"maps", "auxv", "failed"}
        /\ stage' = "failed" => Unconvertible
    BY <1>4 DEF ReadMaps, InsertLines, GoTo, Unconvertible
  <2> QED
    BY <1>1, <2>1, <2>2 DEF processVars,
       FieldsOK, AuxvOK, InfoOK, DsoOK, FailedOK, PastAuxv, PastMaps, Named
<1>5. CASE ReadAuxv
  <2>1. stage = "auxv" /\ UNCHANGED <<info, threads, signatures, crashing, pid, dsoDebug>>
    BY <1>5 DEF ReadAuxv, InsertLines, processVars
  <2>2. /\ stage' \in {"auxv", "cmdline", "failed"}
        /\ stage' = "failed" => Unconvertible
        /\ stage' \in {"auxv", "failed"} => auxv' = auxv
        /\ stage' = "cmdline" => auxv' = IF minidump.auxv = Vector THEN Captured ELSE auxv
    <3>1. IsText(minidump.auxv) => minidump.auxv # Vector
      BY DEF IsText
    <3> QED
      BY <1>5, <3>1, IngestAssumption DEF ReadAuxv, InsertLines, GoTo, processVars, Unconvertible
  <2> QED
    BY <1>1, <2>1, <2>2 DEF
       FieldsOK, AuxvOK, InfoOK, DsoOK, FailedOK, PastAuxv, PastMaps, Named
<1>6. CASE ReadCmdline
  <2>1. /\ stage = "cmdline" /\ stage' \in {"failed", "threads"}
        /\ stage' = "failed" => Unconvertible
        /\ info'.filename = IF minidump.cmdline = "named" THEN "cmdline" ELSE None
    BY <1>6 DEF ReadCmdline, GoTo, Unconvertible, FieldsOK, InfoOK
  <2> QED
    BY <1>1, <1>6, <2>1 DEF ReadCmdline,
       FieldsOK, AuxvOK, InfoOK, DsoOK, FailedOK, PastAuxv, PastMaps, Named
<1>7. CASE ReadThreads
  BY <1>1, <1>7 DEF ReadThreads, GoTo,
     FieldsOK, AuxvOK, InfoOK, DsoOK, FailedOK, PastAuxv, PastMaps, Named
<1>8. CASE IngestModule
  <2>1. /\ stage = "modules" /\ stage' \in {"modules", "failed"}
        /\ UNCHANGED <<auxv, info, dsoDebug>>
    BY <1>8 DEF IngestModule, GoTo, processVars
  <2>2. stage' = "failed" => Unconvertible
    <3>1. turn \in 1..Len(Modules)
      <4>1. Len(Modules) \in Nat /\ turn \in Nat \ {0} /\ turn <= Len(Modules)
        BY <1>1, <1>8, MinidumpFacts DEF IngestTypeOK, IngestModule
      <4> QED
        BY <4>1, SMT
    <3> QED
      BY <1>8, <2>1, <3>1 DEF IngestModule, Unconvertible
  <2> QED
    BY <1>1, <2>1, <2>2 DEF
       FieldsOK, AuxvOK, InfoOK, DsoOK, FailedOK, PastAuxv, PastMaps, Named
<1>9. CASE NameProcess
  <2>1. /\ stage = "modules" /\ stage' = "exception" /\ UNCHANGED <<auxv, dsoDebug>>
        /\ info' = NameFallback
    BY <1>9 DEF NameProcess, GoTo
  <2>2. info.filename = IF minidump.cmdline = "named" THEN "cmdline" ELSE None
    BY <2>1 DEF FieldsOK, InfoOK
  <2>3. info'.filename = IF minidump.cmdline = "named" THEN "cmdline"
                         ELSE IF Executable = None THEN None ELSE Executable.name
    BY <2>1, <2>2, IngestAssumption DEF NameFallback
  <2> QED
    BY <1>1, <2>1, <2>3 DEF
       FieldsOK, AuxvOK, InfoOK, DsoOK, FailedOK, PastAuxv, PastMaps, Named
<1>10. CASE ReadException
  BY <1>1, <1>10 DEF ReadException, GoTo,
     FieldsOK, AuxvOK, InfoOK, DsoOK, FailedOK, PastAuxv, PastMaps, Named
<1>11. CASE ReadDsoDebug
  <2>1. stage = "dso_debug" /\ dsoDebug = None /\ minidump.dsoDebug # Missing
    BY <1>11 DEF ReadDsoDebug, FieldsOK, DsoOK
  <2>2. /\ stage' \in {"failed", "done"} /\ UNCHANGED <<auxv, info>>
        /\ stage' = "failed" => dsoDebug' = None /\ Unconvertible
        /\ dsoDebug' # None => /\ minidump.dsoDebug # Unreadable
                               /\ dsoDebug' = CapturedDso(minidump.dsoDebug)
    <3>1. minidump.dsoDebug # Unreadable => ~Stream!ReadFails(minidump.dsoDebug)
      BY <1>1, <2>1, MinidumpFacts, RecordFacts
    <3> QED
      BY <1>11, <2>1, <3>1 DEF ReadDsoDebug, GoTo, processVars, Unconvertible
  <2>3. CapturedDso(minidump.dsoDebug)' = CapturedDso(minidump.dsoDebug)
    BY <1>1
  <2> QED
    BY <1>1, <2>1, <2>2, <2>3 DEF
       FieldsOK, AuxvOK, InfoOK, DsoOK, FailedOK, PastAuxv, PastMaps, Named
<1>12. CASE SynthesizeDsoDebug
  <2>1. /\ stage = "dso_debug" /\ stage' = "done" /\ dsoDebug = None /\ info' = info
        /\ minidump.dsoDebug = Missing /\ dsoDebug' \in {None, SyntheticDso}
        /\ auxv' = IF auxv # None \/ SyntheticAuxv = None THEN auxv ELSE SyntheticAuxv
    BY <1>12 DEF SynthesizeDsoDebug, SynthesizeAuxv, GoTo, FieldsOK, DsoOK
  <2>2. SyntheticDso' = SyntheticDso
    BY <1>1, <1>12, SameDso DEF SynthesizeDsoDebug
  <2>3. Captured # None
    BY IngestAssumption
  <2> QED
    BY <1>1, <2>1, <2>2, <2>3 DEF
       FieldsOK, AuxvOK, InfoOK, DsoOK, FailedOK, PastAuxv, PastMaps, Named
<1> QED
  BY <1>2, <1>3, <1>4, <1>5, <1>6, <1>7, <1>8, <1>9, <1>10, <1>11, <1>12 DEF IngestNext

-----------------------------------------------------------------------------
LEMMA FieldsInvariant == IngestSpec => [](IngestTypeOK /\ FieldsOK)
<1>1. IngestInit => IngestTypeOK /\ FieldsOK
  BY IngestTypeInit, FieldsInit
<1>2. IngestTypeOK /\ FieldsOK /\ [IngestNext]_ingestVars => (IngestTypeOK /\ FieldsOK)'
  BY IngestTypeStep, FieldsStep
<1> QED
  BY <1>1, <1>2, PTL DEF IngestSpec

\* A synthesized r_debug is the one of the executable; a synthesized vector that of
\* the executable on this disk.
LEMMA SynthesizedDso ==
    ASSUME IngestTypeOK, FieldsOK, IsSynthesized(dsoDebug)
    PROVE  Executable # None /\ dsoDebug = SyntheticDso /\ dsoDebug.exe = Executable
<1>1. dsoDebug = SyntheticDso /\ dsoDebug # None
  BY DEF IsSynthesized, CapturedDso, FieldsOK, DsoOK
<1> QED
  BY <1>1 DEF SyntheticDso

\* NT_AUXV is the captured vector if there is one, and never maps text.
THEOREM CapturedVector == IngestSpec => []CapturedAuxvKept
<1>1. IngestTypeOK /\ FieldsOK => CapturedAuxvKept
  <2> SUFFICES ASSUME IngestTypeOK, FieldsOK, stage = "done"
               PROVE  auxv = Captured <=> minidump.auxv = Vector
    BY DEF CapturedAuxvKept
  <2>1. SyntheticAuxv \in AuxvRecord \cup {None}
    BY SyntheticTypes DEF IngestTypeOK
  <2>2. SyntheticAuxv # Captured /\ Captured # None
    BY <2>1, IngestAssumption DEF AuxvRecord
  <2> QED
    BY <2>2 DEF FieldsOK, AuxvOK, PastAuxv, PastMaps
<1> QED
  BY <1>1, FieldsInvariant, PTL

\* The process is named by its command line, or by the executable that r_debug was
\* made from, in whatever order the streams come to say so.
THEOREM ProcessName == IngestSpec => []NameOfExecutable
<1>1. IngestTypeOK /\ FieldsOK => NameOfExecutable
  <2> SUFFICES ASSUME IngestTypeOK, FieldsOK, stage = "done"
               PROVE  /\ minidump.cmdline = "named" => info.filename = "cmdline"
                      /\ minidump.cmdline # "named" /\ IsSynthesized(dsoDebug)
                            => info.filename = dsoDebug.exe.name
    BY DEF NameOfExecutable
  <2> QED
    BY SynthesizedDso DEF FieldsOK, InfoOK, Named
<1> QED
  BY <1>1, FieldsInvariant, PTL

\* Of a link map that the file cuts, every whole record in front of the cut is read
\* and none behind it, however many the header claims; and no step refuses a minidump
\* but for a reason that Unconvertible names.
THEOREM CutLinkMap == IngestSpec => []CutLinkMapRead
<1>1. IngestTypeOK /\ FieldsOK => CutLinkMapRead
  <2> SUFFICES ASSUME IngestTypeOK, FieldsOK
               PROVE  CutLinkMapRead
    OBVIOUS
  <2>1. ASSUME dsoDebug # None, dsoDebug.exe = Captured
        PROVE  LET s == minidump.dsoDebug
                   n == Len(dsoDebug.linkMap)
               IN  /\ n <= s.count
                   /\ n < s.count /\ ~s.sentinel => n = Len(s.records) \/ ~s.records[n + 1].whole
                   /\ \A i \in 1..n :
                         s.records[i].whole /\ dsoDebug.linkMap[i].addr = s.records[i].addr
    <3> DEFINE d == minidump.dsoDebug
    <3>1. minidump \in Minidump
      BY DEF IngestTypeOK
    <3>2. d \in Stream!DsoStream /\ dsoDebug = CapturedDso(d)
      <4>1. dsoDebug # SyntheticDso
        <5>1. Executable # None => Executable # Captured
          BY <3>1, ExecutableFacts, IngestAssumption
        <5> QED
          BY <2>1, <5>1 DEF SyntheticDso
      <4> QED
        BY <2>1, <3>1, <4>1, MinidumpFacts DEF FieldsOK, DsoOK
    <3>3. PICK n \in 0..d.count :
             /\ Stream!RecordsRead(d) = 1..n
             /\ \A i \in 1..n : i \in 1..Len(d.records) /\ d.records[i].whole
             /\ n < d.count /\ ~d.sentinel => n = Len(d.records) \/ ~d.records[n + 1].whole
      BY <3>2, RecordFacts
    <3> DEFINE map == dsoDebug.linkMap
               at(i) == [addr |-> d.records[i].addr, ld |-> d.records[i].ld,
                         name |-> d.records[i].name]
    <3>4. map = [i \in 1..n |-> at(i)]
      BY <3>2, <3>3 DEF CapturedDso, Stream!LinkMapOf
    <3>5. n \in Nat /\ n <= d.count
      <4>1. d.count \in Nat
        BY <3>2, ElfScanAssumption, PageArithAssumption, SMT DEF Stream!DsoStream
      <4> QED
        BY <3>3, <4>1, SMT
    <3>6. Len(map) = n
      <4>1. map \in [1..n -> {at(i) : i \in 1..n}]
        BY <3>4
      <4> HIDE DEF map, at
      <4> QED
        BY <3>5, <4>1, FunctionAsSeq
    <3>7. \A i \in 1..n : map[i].addr = d.records[i].addr
      BY <3>4
    <3> HIDE DEF map, d
    <3>8. /\ Len(map) <= d.count
          /\ Len(map) < d.count /\ ~d.sentinel =>
                Len(map) = Len(d.records) \/ ~d.records[Len(map) + 1].whole
          /\ \A i \in 1..Len(map) : d.records[i].whole /\ map[i].addr = d.records[i].addr
      BY <3>3, <3>5, <3>6, <3>7
    <3> QED
      BY <3>8 DEF map, d
  <2> QED
    BY <2>1 DEF CutLinkMapRead, FieldsOK, FailedOK
<1> QED
  BY <1>1, FieldsInvariant, PTL

\* Whatever the executable's headers say and wherever it was loaded, AT_ENTRY, the
\* ldbase of r_debug and the executable's own l_ld come out of one displacement.
THEOREM Displacement == IngestSpec => []OneDisplacement
<1>1. IngestTypeOK /\ FieldsOK => OneDisplacement
  <2> SUFFICES ASSUME IngestTypeOK, FieldsOK, stage = "done", IsSynthesized(dsoDebug), dsoDebug.data
               PROVE  LET exe == dsoDebug.exe IN
                      /\ auxv \notin {None, Captured} =>
                            auxv.exe = exe /\ auxv.entry - FileOf(exe).entry = dsoDebug.ldbase
                      /\ \A i \in 1..Len(Modules) :
                            LET e == dsoDebug.linkMap[i] IN
                            e.addr = exe.base /\ LibraryFile(e.name) = FileOf(exe)
                               => e.ld = dsoDebug.dynamic
    BY DEF OneDisplacement
  <2> DEFINE exe == Executable
             f == FileOf(exe)
             x == ExecutableDynamic(minidump.class, f, exe.base)
  <2>1. /\ minidump \in Minidump /\ exe # None /\ dsoDebug = SyntheticDso
        /\ dsoDebug.exe = exe
    BY SynthesizedDso DEF IngestTypeOK
  <2>2. /\ f # None /\ x # None /\ dsoDebug.ldbase = x.bias /\ dsoDebug.dynamic = x.dynamic
        /\ dsoDebug.linkMap = [i \in 1..Len(Modules) |-> LinkMapEntry(Modules[i])]
    BY <2>1 DEF SyntheticDso
  <2>3. f \in ElfFile /\ exe \in Module /\ exe.base \in Addr
    BY <2>1, <2>2, FileFacts, ExecutableFacts DEF FileOf, Module
  <2>4. /\ x.bias = Bias(f, exe.base) /\ Bias(f, exe.base) \in Addr /\ x.dynamic \in Addr
        /\ RuntimeDynamic(minidump.class, f, exe.base) = x.dynamic
    BY <2>2, <2>3, DynamicFacts
  <2>5. ASSUME auxv \notin {None, Captured}
        PROVE  auxv.exe = exe /\ auxv.entry - f.entry = dsoDebug.ldbase
    <3> DEFINE a == AuxvOf(minidump.class, f, exe.base)
    <3>1. ExecutableOnDisk = exe
      BY <2>1, <2>2, ExecutableFacts
    <3>2. auxv = SyntheticAuxv /\ auxv # None
      BY <2>5 DEF FieldsOK, AuxvOK, PastAuxv, PastMaps
    <3>3. a # None /\ auxv.exe = exe /\ auxv.entry = a.entry
      BY <3>1, <3>2 DEF SyntheticAuxv
    <3>4. a.entry = Bias(f, exe.base) + f.entry
      BY <2>3, <3>3, AuxvFacts
    <3>5. Bias(f, exe.base) \in Int /\ f.entry \in Int
      BY <2>3, <2>4, HeaderFacts, SMT DEF Addr
    <3>6. (Bias(f, exe.base) + f.entry) - f.entry = Bias(f, exe.base)
      <4> HIDE DEF f, exe
      <4> QED
        BY <3>5, SMT
    <3> QED
      BY <2>2, <2>4, <3>3, <3>4, <3>6
  <2>6. ASSUME NEW i \in 1..Len(Modules), dsoDebug.linkMap[i].addr = exe.base,
               LibraryFile(dsoDebug.linkMap[i].name) = f
        PROVE  dsoDebug.linkMap[i].ld = dsoDebug.dynamic
    <3> DEFINE e == LinkMapEntry(Modules[i])
    <3>1. dsoDebug.linkMap[i] = e
      BY <2>2
    <3>2. e.addr = Modules[i].base
      BY DEF LinkMapEntry
    <3>3. LibraryFile(e.name) = f /\ Modules[i].base = exe.base
      BY <2>6, <3>1, <3>2
    <3>4. e.ld = IF RuntimeDynamic(minidump.class, f, exe.base) = None THEN 0
                 ELSE RuntimeDynamic(minidump.class, f, exe.base)
      BY <2>2, <3>3 DEF LinkMapEntry
    <3>5. x.dynamic # None
      BY <2>4, ElfScanAssumption DEF Addr
    <3> QED
      BY <2>2, <2>4, <3>1, <3>4, <3>5
  <2> QED
    BY <2>1, <2>5, <2>6
<1> QED
  BY <1>1, FieldsInvariant, PTL

-----------------------------------------------------------------------------
LEMMA EntriesStay ==
    ASSUME EntriesFrom, minidump' = minidump, mappings' = mappings, LinesRead' = LinesRead
    PROVE  EntriesFrom'
<1>1. AllLines' = AllLines /\ Modules' = Modules /\ \A m : SignatureFor(m)' = SignatureFor(m)
  BY SameMinidump
<1>2. \A i : ModuleMapping(Modules[i])' = ModuleMapping(Modules[i])
  BY <1>1 DEF ModuleMapping
<1>3. \A a \in Addr : FromLine(a, LinesRead) => FromLine(a, LinesRead)'
  BY <1>1 DEF FromLine
<1>4. \A a \in Addr : FromModule(a, LinesRead) => FromModule(a, LinesRead)'
  BY <1>1, <1>2 DEF FromModule
<1> QED
  BY <1>3, <1>4 DEF EntriesFrom

\* The next line becomes the entry at its start, and the last with that start.
LEMMA EntriesWithLine ==
    ASSUME IngestTypeOK, EntriesFrom, minidump' = minidump, NEW n \in Nat, LinesRead = n,
           LinesRead' = n + 1, n + 1 \in 1..Len(AllLines),
           InsertMapping(LineMapping(AllLines[n + 1]))
    PROVE  EntriesFrom'
<1>1. AllLines' = AllLines /\ Modules' = Modules /\ \A m : SignatureFor(m)' = SignatureFor(m)
  BY SameMinidump
<1>2. \A i : ModuleMapping(Modules[i])' = ModuleMapping(Modules[i])
  BY <1>1 DEF ModuleMapping
<1> DEFINE l == AllLines[n + 1]
<1>3. /\ l \in Line /\ l.start \in Addr /\ LineMapping(l).start = l.start
  <2>1. AllLines \in Seq(Line)
    BY LinesFacts DEF IngestTypeOK
  <2>2. l \in Line
    BY <2>1, ElementOfSeq
  <2> QED
    BY <2>2 DEF Line, LineMapping
<1>4. \A a \in Addr : mappings'[a] = IF a = l.start THEN LineMapping(l) ELSE mappings[a]
  BY <1>3 DEF InsertMapping, Put, IngestTypeOK, TypeOK
<1>5. /\ n + 1 \in 1..(n + 1) /\ ((n + 1) + 1)..(n + 1) = {}
      /\ \A j \in 1..n : j \in 1..(n + 1)
      /\ \A k \in 1..(n + 1) : k \in 1..n \/ k = n + 1
      /\ \A j \in 1..n : \A k \in (j + 1)..(n + 1) : k \in (j + 1)..n \/ k = n + 1
  BY SMT
<1> HIDE DEF l
<1>6. ASSUME NEW a \in Addr, a = l.start
      PROVE  FromLine(a, LinesRead)'
  <2>1. /\ AllLines'[n + 1].start = a /\ mappings'[a] = LineMapping(AllLines'[n + 1])
        /\ \A k \in ((n + 1) + 1)..(n + 1) : AllLines'[k].start # a
    BY <1>1, <1>4, <1>5, <1>6 DEF l
  <2> QED
    BY <1>5, <2>1 DEF FromLine
<1>7. ASSUME NEW a \in Addr, a # l.start, FromLine(a, n)
      PROVE  FromLine(a, LinesRead)'
  <2>1. PICK j \in 1..n : /\ AllLines[j].start = a /\ mappings[a] = LineMapping(AllLines[j])
                          /\ \A k \in (j + 1)..n : AllLines[k].start # a
    BY <1>7 DEF FromLine
  <2>2. mappings'[a] = mappings[a] /\ AllLines[n + 1].start # a
    BY <1>4, <1>7 DEF l
  <2>3. \A k \in (j + 1)..(n + 1) : AllLines[k].start # a
    BY <1>5, <2>1, <2>2
  <2>4. /\ AllLines'[j].start = a /\ mappings'[a] = LineMapping(AllLines'[j])
        /\ \A k \in (j + 1)..(n + 1) : AllLines'[k].start # a
    BY <1>1, <2>1, <2>2, <2>3
  <2> QED
    BY <1>5, <2>4 DEF FromLine
<1>8. ASSUME NEW a \in Addr, a # l.start, FromModule(a, n)
      PROVE  FromModule(a, LinesRead)'
  <2>1. \A k \in 1..(n + 1) : AllLines'[k].start # a
    BY <1>1, <1>5, <1>8 DEF FromModule, l
  <2>2. mappings'[a] = mappings[a]
    BY <1>4, <1>8
  <2>3. n # Len(AllLines)
    <3>1. AllLines \in Seq(Line)
      BY LinesFacts DEF IngestTypeOK
    <3>2. Len(AllLines) \in Nat
      BY <3>1, LenProperties
    <3> QED
      BY <3>2, SMT
  <2>4. mappings[a] = Absent
    BY <1>8, <2>3 DEF FromModule
  <2> QED
    BY <1>1, <2>1, <2>2, <2>4 DEF FromModule
<1> QED
  BY <1>6, <1>7, <1>8 DEF EntriesFrom

\* A module becomes an entry only where no line begins.
LEMMA EntriesWithModule ==
    ASSUME IngestTypeOK, EntriesFrom, minidump' = minidump,
           LinesRead = Len(AllLines), LinesRead' = Len(AllLines),
           NEW i \in 1..Len(Modules), HasRange(Modules[i]),
           InsertMappingIfAbsent(ModuleMapping(Modules[i]))
    PROVE  EntriesFrom'
<1>1. AllLines' = AllLines /\ Modules' = Modules /\ \A m : SignatureFor(m)' = SignatureFor(m)
  BY SameMinidump
<1>2. \A k : /\ ModuleMapping(Modules[k])' = ModuleMapping(Modules[k])
             /\ (HasRange(Modules[k])' <=> HasRange(Modules[k]))
  BY <1>1 DEF ModuleMapping, HasRange
<1> DEFINE m == Modules[i]
           b == m.base
<1>3. b \in Addr /\ ModuleMapping(m).start = b
  BY MinidumpFacts DEF IngestTypeOK, Module, ModuleMapping
<1>4. \A a \in Addr : mappings'[a] = IF a = b /\ mappings[b] = Absent
                                     THEN ModuleMapping(m) ELSE mappings[a]
  BY <1>3 DEF InsertMappingIfAbsent, Put, IngestTypeOK, TypeOK
<1> DEFINE n == LinesRead
<1>5. CASE mappings[b] # Absent
  <2>1. \A a \in Addr : mappings'[a] = mappings[a]
    BY <1>4, <1>5
  <2>2. \A a \in Addr : FromLine(a, LinesRead) => FromLine(a, LinesRead)'
    BY <1>1, <2>1 DEF FromLine
  <2>3. \A a \in Addr : FromModule(a, LinesRead) => FromModule(a, LinesRead)'
    BY <1>1, <1>2, <2>1 DEF FromModule
  <2> QED
    BY <2>2, <2>3 DEF EntriesFrom
<1>6. CASE mappings[b] = Absent
  <2>1. \A a \in Addr : mappings'[a] = IF a = b THEN ModuleMapping(m) ELSE mappings[a]
    BY <1>4, <1>6
  <2>2. ASSUME NEW a \in Addr, a # b
        PROVE  /\ FromLine(a, LinesRead) => FromLine(a, LinesRead)'
               /\ FromModule(a, LinesRead) => FromModule(a, LinesRead)'
    <3>1. mappings'[a] = mappings[a]
      BY <2>1, <2>2
    <3> QED
      BY <1>1, <1>2, <3>1 DEF FromLine, FromModule
  <2>3. FromModule(b, LinesRead)
    <3>1. ~FromLine(b, LinesRead)
      <4> SUFFICES ASSUME FromLine(b, LinesRead)
                   PROVE  FALSE
        OBVIOUS
      <4>1. PICK j \in 1..Len(AllLines) : mappings[b] = LineMapping(AllLines[j])
        BY DEF FromLine
      <4>2. AllLines[j] \in Line
        BY LinesFacts, ElementOfSeq DEF IngestTypeOK
      <4>3. LineMapping(AllLines[j]) \in Mapping
        BY <4>2, MappingTypes
      <4> QED
        BY <1>6, <4>1, <4>3, TableAssumption
    <3> QED
      BY <1>3, <3>1 DEF EntriesFrom
  <2>4. mappings'[b] = ModuleMapping(Modules[i])
    BY <1>3, <2>1
  <2>5. ASSUME NEW a \in Addr, a = b
        PROVE  FromModule(a, LinesRead)'
    BY <1>1, <1>2, <2>3, <2>4, <2>5 DEF FromModule
  <2>6. ASSUME NEW a \in Addr
        PROVE  FromLine(a, LinesRead)' \/ FromModule(a, LinesRead)'
    <3>1. FromLine(a, LinesRead) \/ FromModule(a, LinesRead)
      BY DEF EntriesFrom
    <3> QED
      BY <2>2, <2>5, <3>1
  <2> QED
    BY <2>6 DEF EntriesFrom
<1> QED
  BY <1>5, <1>6

LEMMA TableInit == IngestInit => TableOK
<1> SUFFICES ASSUME IngestInit
             PROVE  TableOK
  OBVIOUS
<1>1. /\ stage = "system" /\ turn = 1 /\ LinesRead = 0
      /\ mappings = [a \in Addr |-> Absent] /\ imported = mappings
  BY DEF IngestInit, Init, LinesRead
<1>2. \A a \in Addr : FromModule(a, LinesRead)
  <2>1. 1..0 = {}
    BY SMT
  <2> QED
    BY <1>1, <2>1 DEF FromModule
<1> QED
  BY <1>1, <1>2 DEF TableOK, TurnsOK, TextsOK, EntriesFrom, PastMaps, PastAuxv

\* How many lines have been read when a loop over the texts ends.
LEMMA LinesCounted ==
    ASSUME IngestTypeOK, TurnsOK
    PROVE  /\ LinesRead \in Nat
           /\ stage = "maps" /\ (minidump.maps = Missing \/ turn > Len(MapLines)) =>
                 LinesRead = Len(MapLines)
           /\ stage = "auxv" /\ (~IsText(minidump.auxv) \/ turn > Len(AuxvLines)) =>
                 LinesRead = Len(AllLines)
<1>1. /\ Len(MapLines) \in Nat /\ Len(AuxvLines) \in Nat /\ turn \in Nat \ {0}
      /\ Len(AllLines) = Len(MapLines) + Len(AuxvLines)
  BY LinesFacts DEF IngestTypeOK
<1>2. (minidump.maps = Missing => Len(MapLines) = 0) /\ (~IsText(minidump.auxv) => Len(AuxvLines) = 0)
  BY EmptySeq DEF MapLines, AuxvLines
<1>3. CASE stage = "maps"
  <2>1. LinesRead = turn - 1 /\ turn <= Len(MapLines) + 1
    BY <1>3 DEF LinesRead, TurnsOK
  <2> QED
    BY <1>1, <1>2, <1>3, <2>1, SMT
<1>4. CASE stage = "auxv"
  <2>1. LinesRead = Len(MapLines) + turn - 1 /\ turn <= Len(AuxvLines) + 1
    BY <1>4 DEF LinesRead, TurnsOK
  <2> QED
    BY <1>1, <1>2, <1>4, <2>1, SMT
<1>5. CASE stage \notin {"maps", "auxv"}
  <2>1. LinesRead \in {0, Len(AllLines)}
    BY <1>5 DEF LinesRead
  <2> QED
    BY <1>1, <1>5, <2>1, SMT
<1> QED
  BY <1>3, <1>4, <1>5

LEMMA TableStep ==
    IngestTypeOK /\ TableOK /\ [IngestNext]_ingestVars => TableOK'
<1> SUFFICES ASSUME IngestTypeOK, TableOK, [IngestNext]_ingestVars
             PROVE  TableOK'
  OBVIOUS
<1>1. /\ minidump \in Minidump /\ minidump' = minidump
      /\ Modules' = Modules /\ MapLines' = MapLines /\ AuxvLines' = AuxvLines /\ AllLines' = AllLines
  BY MinidumpStays, SameMinidump DEF IngestTypeOK
<1>2. /\ Len(MapLines) \in Nat /\ Len(AuxvLines) \in Nat /\ turn \in Nat \ {0}
      /\ Len(AllLines) = Len(MapLines) + Len(AuxvLines)
      /\ \A i \in 1..Len(MapLines) : AllLines[i] = MapLines[i]
      /\ \A i \in 1..Len(AuxvLines) : AllLines[Len(MapLines) + i] = AuxvLines[i]
  BY <1>1, LinesFacts DEF IngestTypeOK
<1>3. imported = mappings
  BY DEF TableOK
\* Steps that leave the table alone.
<1>4. ASSUME UNCHANGED tableVars, stage # "failed", TurnsOK', TextsOK', LinesRead' = LinesRead
      PROVE  TableOK'
  <2>1. EntriesFrom'
    BY <1>1, <1>4, EntriesStay DEF TableOK, tableVars
  <2> QED
    BY <1>3, <1>4, <2>1 DEF TableOK, tableVars
<1>5. ASSUME UNCHANGED tableVars, stage' = "failed"
      PROVE  TableOK'
  BY <1>3, <1>5 DEF TableOK, tableVars
<1>6. CASE UNCHANGED ingestVars
  <2>1. UNCHANGED tableVars /\ stage' = stage /\ turn' = turn
    BY <1>6 DEF ingestVars
  <2>2. LinesRead' = LinesRead
    BY <1>1, <2>1 DEF LinesRead
  <2>3. stage # "failed" => TurnsOK' /\ TextsOK'
    BY <1>1, <2>1 DEF TableOK, TurnsOK, TextsOK, PastMaps, PastAuxv, IsText
  <2> QED
    BY <1>4, <1>5, <2>1, <2>2, <2>3
<1>7. CASE ReadSystemInfo
  <2>1. stage = "system" /\ UNCHANGED tableVars /\ stage' \in {"maps", "failed"} /\ turn' = 1
    BY <1>7 DEF ReadSystemInfo, GoTo
  <2>2. stage' = "maps" => LinesRead = 0 /\ LinesRead' = 0
    BY <2>1 DEF LinesRead
  <2>3. stage' = "maps" => TurnsOK' /\ TextsOK'
    <3>1. 1 <= Len(MapLines) + 1
      BY <1>2, SMT
    <3> QED
      BY <1>1, <2>1, <3>1 DEF TurnsOK, TextsOK, PastMaps, PastAuxv
  <2> QED
    BY <1>4, <1>5, <2>1, <2>2, <2>3
<1>8. CASE ReadMaps
  <2>1. /\ stage = "maps" /\ TurnsOK /\ TextsOK /\ EntriesFrom
        /\ LinesRead = turn - 1 /\ turn <= Len(MapLines) + 1
    BY <1>8 DEF ReadMaps, TableOK, TurnsOK, LinesRead
  <2>2. ASSUME GoTo("auxv"), UNCHANGED tableVars,
               minidump.maps # Missing => RangesOK(KeptLines(minidump.maps)),
               minidump.maps = Missing \/ turn > Len(MapLines)
        PROVE  TableOK'
    <3>1. LinesRead = Len(MapLines) /\ LinesRead' = Len(MapLines) + 1 - 1
      BY <1>1, <2>1, <2>2, LinesCounted DEF LinesRead, GoTo
    <3>2. LinesRead' = LinesRead
      BY <1>2, <3>1, SMT
    <3>3. 1 <= Len(AuxvLines) + 1
      BY <1>2, SMT
    <3>4. TurnsOK' /\ TextsOK'
      BY <1>1, <2>2, <3>3 DEF GoTo, TurnsOK, TextsOK, PastMaps, PastAuxv
    <3> QED
      BY <1>4, <2>1, <2>2, <3>2, <3>4
  <2>3. ASSUME minidump.maps # Missing, turn <= Len(MapLines), InsertMapping(LineMapping(MapLines[turn])),
               turn' = turn + 1, stage' = stage
        PROVE  TableOK'
    <3>1. turn \in 1..Len(MapLines) /\ turn - 1 \in Nat /\ (turn - 1) + 1 = turn
      BY <1>2, <2>3, SMT
    <3>2. LinesRead' = turn' - 1
      BY <2>1, <2>3 DEF LinesRead
    <3>3. LinesRead' = (turn - 1) + 1
      BY <1>2, <2>3, <3>2, SMT
    <3>4. turn \in 1..Len(AllLines)
      BY <1>2, <3>1, SMT
    <3>5. InsertMapping(LineMapping(AllLines[(turn - 1) + 1]))
      BY <1>2, <2>3, <3>1
    <3>6. EntriesFrom'
      <4> DEFINE n == turn - 1
      <4>1. n \in Nat /\ LinesRead = n /\ n + 1 \in 1..Len(AllLines)
        BY <2>1, <3>1, <3>4
      <4>2. PICK c \in Nat : c = n
        BY <4>1
      <4>3. LinesRead = c /\ c + 1 \in 1..Len(AllLines)
        BY <4>1, <4>2
      <4>4. LinesRead' = c + 1
        BY <3>3, <4>2
      <4>5. InsertMapping(LineMapping(AllLines[c + 1]))
        BY <3>5, <4>2
      <4> QED
        BY <1>1, <2>1, <4>3, <4>4, <4>5, EntriesWithLine
    <3>7. TurnsOK' /\ TextsOK'
      <4>1. turn + 1 <= Len(MapLines) + 1
        BY <1>2, <2>3, SMT
      <4> QED
        BY <1>1, <2>1, <2>3, <4>1 DEF TurnsOK, TextsOK, PastMaps, PastAuxv
    <3> QED
      BY <2>3, <3>6, <3>7 DEF TableOK, InsertMapping
  <2>4. minidump.maps # Missing => MapLines = KeptLines(minidump.maps)
    BY DEF MapLines
  <2>5. minidump.maps # Missing /\ InsertLines(KeptLines(minidump.maps), "auxv") =>
           \/ /\ turn <= Len(MapLines) /\ InsertMapping(LineMapping(MapLines[turn]))
              /\ turn' = turn + 1 /\ stage' = stage
           \/ turn > Len(MapLines) /\ GoTo("auxv") /\ UNCHANGED tableVars
    BY <2>4 DEF InsertLines
  <2>6. GoTo("failed") => stage' = "failed"
    BY DEF GoTo
  <2> QED
    BY <1>5, <1>8, <2>2, <2>3, <2>5, <2>6 DEF ReadMaps
<1>9. CASE ReadAuxv
  <2>1. /\ stage = "auxv" /\ TurnsOK /\ TextsOK /\ EntriesFrom
        /\ LinesRead = Len(MapLines) + turn - 1 /\ turn <= Len(AuxvLines) + 1
    BY <1>9 DEF ReadAuxv, TableOK, TurnsOK, LinesRead
  <2>2. ASSUME GoTo("cmdline"), UNCHANGED tableVars,
               IsText(minidump.auxv) => RangesOK(KeptLines(minidump.auxv)),
               ~IsText(minidump.auxv) \/ turn > Len(AuxvLines)
        PROVE  TableOK'
    <3>1. LinesRead = Len(AllLines) /\ LinesRead' = Len(AllLines)
      BY <1>1, <2>1, <2>2, LinesCounted DEF LinesRead, GoTo
    <3>2. TurnsOK' /\ TextsOK'
      BY <1>1, <2>1, <2>2 DEF GoTo, TurnsOK, TextsOK, PastMaps, PastAuxv, IsText
    <3> QED
      BY <1>4, <2>1, <2>2, <3>1, <3>2
  <2>3. ASSUME turn <= Len(AuxvLines), InsertMapping(LineMapping(AuxvLines[turn])),
               turn' = turn + 1, stage' = stage
        PROVE  TableOK'
    <3> DEFINE n == Len(MapLines) + turn - 1
    <3>1. /\ turn \in 1..Len(AuxvLines) /\ n \in Nat /\ n + 1 = Len(MapLines) + turn
          /\ n + 1 \in 1..Len(AllLines)
      BY <1>2, <2>3, SMT
    <3>2. LinesRead' = Len(MapLines) + (turn + 1) - 1
      BY <1>1, <2>1, <2>3 DEF LinesRead
    <3>3. LinesRead' = n + 1
      BY <1>2, <3>2, SMT
    <3>4. AllLines[n + 1] = AuxvLines[turn]
      BY <1>2, <3>1
    <3>5. EntriesFrom'
      <4>1. PICK c \in Nat : c = n
        BY <3>1
      <4>2. LinesRead = c /\ c + 1 \in 1..Len(AllLines) /\ AllLines[c + 1] = AuxvLines[turn]
        BY <2>1, <3>1, <3>4, <4>1
      <4>3. LinesRead' = c + 1
        BY <3>3, <4>1
      <4>4. InsertMapping(LineMapping(AllLines[c + 1]))
        BY <2>3, <4>2
      <4> QED
        BY <1>1, <2>1, <4>2, <4>3, <4>4, EntriesWithLine
    <3>6. TurnsOK' /\ TextsOK'
      <4>1. turn + 1 <= Len(AuxvLines) + 1
        BY <1>2, <2>3, SMT
      <4> QED
        BY <1>1, <2>1, <2>3, <4>1 DEF TurnsOK, TextsOK, PastMaps, PastAuxv
    <3> QED
      BY <2>3, <3>5, <3>6 DEF TableOK, InsertMapping
  <2>4. IsText(minidump.auxv) => AuxvLines = KeptLines(minidump.auxv)
    BY DEF AuxvLines
  <2>5. IsText(minidump.auxv) /\ InsertLines(KeptLines(minidump.auxv), "cmdline") =>
           \/ /\ turn <= Len(AuxvLines) /\ InsertMapping(LineMapping(AuxvLines[turn]))
              /\ turn' = turn + 1 /\ stage' = stage
           \/ turn > Len(AuxvLines) /\ GoTo("cmdline") /\ UNCHANGED tableVars
    BY <2>4 DEF InsertLines
  <2>6. GoTo("failed") => stage' = "failed"
    BY DEF GoTo
  <2>7. TextOK(minidump.auxv) => RangesOK(KeptLines(minidump.auxv))
    BY DEF TextOK
  <2>8. minidump.auxv \in {Missing, Unreadable, Vector} => ~IsText(minidump.auxv)
    BY DEF IsText
  <2> QED
    BY <1>5, <1>9, <2>2, <2>3, <2>5, <2>6, <2>7, <2>8 DEF ReadAuxv
\* All lines have been read.
<1>10. ASSUME stage \in {"cmdline", "threads", "modules", "exception", "dso_debug"}, UNCHANGED tableVars,
              stage' \in {"threads", "modules", "exception", "dso_debug", "done", "failed"}
       PROVE  TableOK'
  <2>1. LinesRead = Len(AllLines) /\ LinesRead' = Len(AllLines)
    BY <1>1, <1>10 DEF LinesRead
  <2>2. stage' # "failed" => TurnsOK' /\ TextsOK'
    BY <1>1, <1>10 DEF TableOK, TurnsOK, TextsOK, PastMaps, PastAuxv, IsText
  <2> QED
    BY <1>4, <1>5, <1>10, <2>1, <2>2
<1>11. CASE IngestModule
  <2>1. stage = "modules" /\ turn \in 1..Len(Modules)
    <3>1. Len(Modules) \in Nat /\ turn <= Len(Modules)
      BY <1>1, <1>11, MinidumpFacts DEF IngestModule
    <3> QED
      BY <1>2, <1>11, <3>1, SMT DEF IngestModule
  <2>2. CASE HasRange(Modules[turn]) /\ InsertMappingIfAbsent(ModuleMapping(Modules[turn])) /\ stage' = stage
    <3>1. LinesRead = Len(AllLines) /\ LinesRead' = Len(AllLines)
      BY <1>1, <2>1, <2>2 DEF LinesRead
    <3>2. EntriesFrom'
      BY <1>1, <2>1, <2>2, <3>1, EntriesWithModule DEF TableOK
    <3>3. TurnsOK' /\ TextsOK'
      BY <1>1, <2>1, <2>2 DEF TableOK, TurnsOK, TextsOK, PastMaps, PastAuxv, IsText
    <3> QED
      BY <2>2, <3>2, <3>3 DEF TableOK, InsertMappingIfAbsent
  <2>3. \/ /\ HasRange(Modules[turn]) /\ InsertMappingIfAbsent(ModuleMapping(Modules[turn]))
           /\ stage' = stage
        \/ UNCHANGED tableVars /\ stage' \in {stage, "failed"}
    BY <1>11 DEF IngestModule, GoTo
  <2> QED
    BY <1>10, <2>1, <2>2, <2>3
<1>12. CASE ReadCmdline
  BY <1>10, <1>12 DEF ReadCmdline, GoTo
<1>13. CASE ReadThreads
  BY <1>10, <1>13 DEF ReadThreads, GoTo
<1>14. CASE NameProcess
  BY <1>10, <1>14 DEF NameProcess, GoTo
<1>15. CASE ReadException
  BY <1>10, <1>15 DEF ReadException, GoTo
<1>16. CASE ReadDsoDebug
  BY <1>10, <1>16 DEF ReadDsoDebug, GoTo
<1>17. CASE SynthesizeDsoDebug
  BY <1>10, <1>17 DEF SynthesizeDsoDebug, GoTo
<1> QED
  BY <1>6, <1>7, <1>8, <1>9, <1>11, <1>12, <1>13, <1>14, <1>15, <1>16, <1>17 DEF IngestNext

\* What each field and each entry of the table was made from, after any step of the
\* readers.
THEOREM IngestInvariant == IngestSpec => []IngestInv
<1>1. IngestInit => IngestInv
  BY IngestTypeInit, FieldsInit, TableInit DEF IngestInv, FieldsOK
<1>2. IngestInv /\ [IngestNext]_ingestVars => IngestInv'
  BY IngestTypeStep, FieldsStep, TableStep DEF IngestInv, FieldsOK
<1> QED
  BY <1>1, <1>2, PTL DEF IngestSpec

-----------------------------------------------------------------------------
\* "We prefer richer data from MD_LINUX_MAPS" (rust_minidump.rs): for texts of any
\* length, in one stream or two, the table holds a line's entry at each address a
\* line starts at, and no module replaces it.
THEOREM MapsWin == IngestSpec => []MapsPreferred
<1>1. IngestInv => MapsPreferred
  <2> SUFFICES ASSUME IngestInv, stage = "done",
                      NEW i \in 1..Len(TextLines), IsKept(TextLines[i])
               PROVE  \E j \in 1..Len(TextLines) :
                         /\ IsKept(TextLines[j]) /\ TextLines[j].start = TextLines[i].start
                         /\ mappings[TextLines[i].start] = LineMapping(TextLines[j])
    BY DEF MapsPreferred
  <2> DEFINE t == Len(TextLines)
             n == Len(AllLines)
             a == TextLines[i].start
  <2>1. minidump \in Minidump /\ LinesRead = n /\ EntriesFrom
    BY DEF IngestInv, IngestTypeOK, TableOK, LinesRead
  <2>2. t \in Nat /\ n \in Nat /\ \A k \in 1..n : AllLines[k] \in Line
    <3>1. TextLines \in Seq(Line \cup {Malformed}) /\ AllLines \in Seq(Line)
      BY <2>1, LinesFacts
    <3> QED
      BY <3>1, LenProperties, ElementOfSeq
  <2>3. PICK at : KeptAt(AllLines, TextLines, at)
    BY <2>1, LinesFacts
  <2>4. /\ Len(at) = n
        /\ \A k \in 1..n : /\ at[k] \in 1..t /\ AllLines[k] = TextLines[at[k]]
                           /\ IsKept(TextLines[at[k]])
        /\ \A m \in 1..t : IsKept(TextLines[m]) => \E k \in 1..n : at[k] = m
    BY <2>3, ElementOfSeq DEF KeptAt
  <2>5. PICK p \in 1..n : at[p] = i
    BY <2>4
  <2>6. a = AllLines[p].start /\ a \in Addr
    BY <2>2, <2>4, <2>5 DEF Line
  <2> HIDE DEF t, n, a
  <2>7. FromLine(a, n)
    BY <2>1, <2>6 DEF EntriesFrom, FromModule
  <2>8. PICK j \in 1..n : AllLines[j].start = a /\ mappings[a] = LineMapping(AllLines[j])
    BY <2>7 DEF FromLine
  <2>9. /\ at[j] \in 1..t /\ IsKept(TextLines[at[j]]) /\ TextLines[at[j]].start = a
        /\ mappings[a] = LineMapping(TextLines[at[j]])
    BY <2>4, <2>8
  <2> QED
    BY <2>9 DEF a, t
<1> QED
  BY <1>1, IngestInvariant, PTL

\* What a minidump says is mapped.
MinidumpLines ==
    {LineMapping(TextLines[i]) : i \in {j \in 1..Len(TextLines) : IsKept(TextLines[j])}}
MinidumpModules ==
    {ModuleMapping(Modules[i]) : i \in {j \in 1..Len(Modules) : HasRange(Modules[j])}}
OtherModules == {m \in MinidumpModules : \A l \in MinidumpLines : l.start # m.start}

LEMMA LinesOfMinidump ==
    ASSUME minidump \in Minidump
    PROVE  /\ \A k \in 1..Len(AllLines) :
                 AllLines[k] \in Line /\ LineMapping(AllLines[k]) \in MinidumpLines
           /\ \A l \in MinidumpLines : \E k \in 1..Len(AllLines) : l = LineMapping(AllLines[k])
<1>1. PICK at : KeptAt(AllLines, TextLines, at)
  BY LinesFacts
<1>2. /\ \A k \in 1..Len(AllLines) : /\ at[k] \in 1..Len(TextLines) /\ AllLines[k] = TextLines[at[k]]
                                     /\ IsKept(TextLines[at[k]])
      /\ \A m \in 1..Len(TextLines) : IsKept(TextLines[m]) => \E k \in 1..Len(AllLines) : at[k] = m
  BY <1>1, ElementOfSeq DEF KeptAt
<1>3. \A k \in 1..Len(AllLines) : AllLines[k] \in Line
  BY LinesFacts, ElementOfSeq
<1> QED
  BY <1>2, <1>3 DEF MinidumpLines

LEMMA LiveMinidumpStays ==
    ASSUME [IngestNext]_ingestVars
    PROVE  LiveMinidump' <=> LiveMinidump
<1>1. minidump' = minidump
  BY MinidumpStays
<1>2. Modules' = Modules /\ \A m : SignatureFor(m)' = SignatureFor(m)
  BY <1>1, SameMinidump
<1>3. TextLines' = TextLines
  BY <1>1 DEF TextLines, IsText
<1>4. MinidumpLines' = MinidumpLines
  BY <1>3 DEF MinidumpLines
<1>5. MinidumpModules' = MinidumpModules
  BY <1>2 DEF MinidumpModules, ModuleMapping, HasRange
<1>6. OtherModules' = OtherModules
  BY <1>4, <1>5 DEF OtherModules
<1> QED
  BY <1>4, <1>6 DEF LiveMinidump, MinidumpLines, MinidumpModules, OtherModules

LEMMA LinesReadBound ==
    ASSUME IngestTypeOK, TurnsOK
    PROVE  LinesRead <= Len(AllLines)
<1>1. /\ Len(MapLines) \in Nat /\ Len(AuxvLines) \in Nat /\ turn \in Nat \ {0}
      /\ Len(AllLines) = Len(MapLines) + Len(AuxvLines)
  BY LinesFacts DEF IngestTypeOK
<1>2. CASE stage = "maps"
  <2>1. LinesRead = turn - 1 /\ turn <= Len(MapLines) + 1
    BY <1>2 DEF LinesRead, TurnsOK
  <2> QED
    BY <1>1, <2>1, SMT
<1>3. CASE stage = "auxv"
  <2>1. LinesRead = Len(MapLines) + turn - 1 /\ turn <= Len(AuxvLines) + 1
    BY <1>3 DEF LinesRead, TurnsOK
  <2> QED
    BY <1>1, <2>1, SMT
<1>4. CASE stage \notin {"maps", "auxv"}
  <2>1. LinesRead \in {0, Len(AllLines)}
    BY <1>4 DEF LinesRead
  <2> QED
    BY <1>1, <2>1, SMT
<1> QED
  BY <1>2, <1>3, <1>4

LEMMA LineNotAbsent ==
    ASSUME NEW l \in Line
    PROVE  LineMapping(l) # Absent
BY MappingTypes, TableAssumption

\* Every entry is that of a line or, once all lines are read, of a module at an
\* address that no line has.
LEMMA EntryOrigin ==
    ASSUME IngestInv, stage # "failed", NEW k \in Keys(mappings)
    PROVE  /\ mappings[k].start = k
           /\ \/ mappings[k] \in MinidumpLines
              \/ LinesRead = Len(AllLines) /\ mappings[k] \in OtherModules
<1>1. /\ minidump \in Minidump /\ EntriesFrom /\ LinesRead \in Nat /\ k \in Addr /\ mappings[k] # Absent
      /\ Len(AllLines) \in Nat
  BY LinesCounted, LinesFacts, LenProperties DEF IngestInv, IngestTypeOK, TableOK, Keys
<1>2. CASE FromLine(k, LinesRead)
  <2>1. PICK j \in 1..LinesRead : AllLines[j].start = k /\ mappings[k] = LineMapping(AllLines[j])
    BY <1>2 DEF FromLine
  <2>2. j \in 1..Len(AllLines)
    BY <1>1, <2>1, LinesReadBound, SMT DEF IngestInv, TableOK
  <2> QED
    BY <1>1, <2>1, <2>2, LinesOfMinidump DEF LineMapping
<1>3. CASE FromModule(k, LinesRead)
  <2>1. /\ LinesRead = Len(AllLines)
        /\ \E i \in 1..Len(Modules) :
              HasRange(Modules[i]) /\ Modules[i].base = k /\ mappings[k] = ModuleMapping(Modules[i])
    BY <1>1, <1>3 DEF FromModule
  <2>2. mappings[k] \in MinidumpModules /\ mappings[k].start = k
    BY <2>1 DEF MinidumpModules, ModuleMapping
  <2>3. \A l \in MinidumpLines : l.start # k
    BY <1>1, <1>3, <2>1, LinesOfMinidump DEF FromModule, LineMapping
  <2> QED
    BY <2>1, <2>2, <2>3 DEF OtherModules
<1> QED
  BY <1>1, <1>2, <1>3 DEF EntriesFrom

\* What a step of the readers does to the table.
LEMMA ReaderCalls ==
    ASSUME IngestInv, [IngestNext]_ingestVars
    PROVE  \/ UNCHANGED tableVars
           \/ /\ stage # "failed" /\ LinesRead # Len(AllLines)
              /\ \E k \in 1..Len(AllLines) : /\ AllLines[k].start < AllLines[k].end
                                             /\ InsertMapping(LineMapping(AllLines[k]))
           \/ /\ stage # "failed" /\ LinesRead = Len(AllLines)
              /\ \E i \in 1..Len(Modules) : /\ HasRange(Modules[i])
                                            /\ InsertMappingIfAbsent(ModuleMapping(Modules[i]))
<1>1. /\ minidump \in Minidump /\ turn \in Nat \ {0}
      /\ Len(MapLines) \in Nat /\ Len(AuxvLines) \in Nat /\ Len(Modules) \in Nat
      /\ Len(AllLines) = Len(MapLines) + Len(AuxvLines)
      /\ \A i \in 1..Len(MapLines) : AllLines[i] = MapLines[i]
      /\ \A i \in 1..Len(AuxvLines) : AllLines[Len(MapLines) + i] = AuxvLines[i]
  BY LinesFacts, MinidumpFacts DEF IngestInv, IngestTypeOK
<1>2. CASE ReadMaps
  <2>1. stage = "maps" /\ LinesRead = turn - 1
    BY <1>2 DEF ReadMaps, LinesRead
  <2>2. ASSUME minidump.maps # Missing, RangesOK(KeptLines(minidump.maps)), turn <= Len(MapLines),
               InsertMapping(LineMapping(MapLines[turn]))
        PROVE  /\ LinesRead # Len(AllLines)
               /\ \E k \in 1..Len(AllLines) : /\ AllLines[k].start < AllLines[k].end
                                              /\ InsertMapping(LineMapping(AllLines[k]))
    <3>1. turn \in 1..Len(MapLines) /\ turn \in 1..Len(AllLines) /\ turn - 1 # Len(AllLines)
      BY <1>1, <2>2, SMT
    <3>2. MapLines[turn].start < MapLines[turn].end
      BY <2>2, <3>1 DEF MapLines, RangesOK
    <3> QED
      BY <1>1, <2>1, <2>2, <3>1, <3>2
  <2>3. minidump.maps # Missing => MapLines = KeptLines(minidump.maps)
    BY DEF MapLines
  <2> QED
    BY <1>2, <2>1, <2>2, <2>3 DEF ReadMaps, InsertLines
<1>3. CASE ReadAuxv
  <2>1. stage = "auxv" /\ LinesRead = Len(MapLines) + turn - 1
    BY <1>3 DEF ReadAuxv, LinesRead
  <2>2. ASSUME IsText(minidump.auxv), TextOK(minidump.auxv), turn <= Len(AuxvLines),
               InsertMapping(LineMapping(AuxvLines[turn]))
        PROVE  /\ LinesRead # Len(AllLines)
               /\ \E k \in 1..Len(AllLines) : /\ AllLines[k].start < AllLines[k].end
                                              /\ InsertMapping(LineMapping(AllLines[k]))
    <3>1. /\ turn \in 1..Len(AuxvLines) /\ Len(MapLines) + turn \in 1..Len(AllLines)
          /\ Len(MapLines) + turn - 1 # Len(AllLines)
      BY <1>1, <2>2, SMT
    <3>2. AuxvLines[turn].start < AuxvLines[turn].end
      BY <2>2, <3>1 DEF AuxvLines, TextOK, RangesOK
    <3> QED
      BY <1>1, <2>1, <2>2, <3>1, <3>2
  <2>3. IsText(minidump.auxv) => AuxvLines = KeptLines(minidump.auxv)
    BY DEF AuxvLines
  <2> QED
    BY <1>3, <2>1, <2>2, <2>3 DEF ReadAuxv, InsertLines
<1>4. CASE IngestModule
  <2>1. stage = "modules" /\ LinesRead = Len(AllLines) /\ turn \in 1..Len(Modules)
    <3>1. stage = "modules" /\ turn <= Len(Modules)
      BY <1>4 DEF IngestModule
    <3> QED
      BY <1>1, <3>1, SMT DEF LinesRead
  <2> QED
    BY <1>4, <2>1 DEF IngestModule
<1>5. CASE UNCHANGED ingestVars
  BY <1>5 DEF ingestVars
<1> QED
  BY <1>2, <1>3, <1>4, <1>5 DEF IngestNext, ReadSystemInfo, ReadCmdline, ReadThreads,
     NameProcess, ReadException, ReadDsoDebug, SynthesizeDsoDebug

\* The table, with every mapping that Mapping::new returns as a possible import.
Regular == {m \in Mapping : m.start < m.end /\ m.data = NoData}
Reader  == INSTANCE MappingTableProofs WITH Imports <- Regular

ReaderInv == IngestInv /\ LiveMinidump /\ status = "ok" /\ captured = {}

LEMMA ReaderTakes == Reader!TableAssumption /\ Reader!PageArithAssumption
BY TableAssumption, PageArithAssumption
   DEF Reader!TableAssumption, Reader!PageArithAssumption, Regular, Reader!Mapping, Mapping,
       Reader!Data, Data, Reader!NoData, NoData, Reader!Addr, Addr, Reader!Capture, Capture

\* A line or a module can be inserted next to what was read before it.
LEMMA ReadIsLive ==
    ASSUME ReaderInv, stage # "failed", NEW m \in Mapping,
           \/ m \in MinidumpLines /\ LinesRead # Len(AllLines)
           \/ m \in OtherModules /\ m.start \notin Keys(mappings)
    PROVE  LiveImport(m)
<1>1. /\ \A l \in MinidumpLines \cup OtherModules :
            OnPages(l) /\ l.offset + (l.end - l.start) <= MaxAddr
      /\ \A l, n \in MinidumpLines : Apart(l, n) \/ SameRange(l, n)
      /\ \A o \in OtherModules : /\ \A l \in MinidumpLines : Apart(l, o)
                                 /\ \A n \in OtherModules : Apart(n, o) \/ n.start = o.start
  BY DEF ReaderInv, LiveMinidump, MinidumpLines, MinidumpModules, OtherModules
<1>2. ASSUME NEW k \in Keys(mappings)
      PROVE  Apart(m, mappings[k]) \/ SameRange(m, mappings[k])
  <2>1. /\ mappings[k].start = k
        /\ \/ mappings[k] \in MinidumpLines
           \/ LinesRead = Len(AllLines) /\ mappings[k] \in OtherModules
    BY EntryOrigin DEF ReaderInv
  <2>2. Apart(mappings[k], m) => Apart(m, mappings[k])
    BY DEF Apart
  <2>3. CASE m \in MinidumpLines /\ LinesRead # Len(AllLines)
    BY <1>1, <2>1, <2>3
  <2>4. CASE m \in OtherModules /\ m.start \notin Keys(mappings)
    BY <1>1, <1>2, <2>1, <2>2, <2>4
  <2> QED
    BY <2>3, <2>4
<1> QED
  BY <1>1, <1>2 DEF LiveImport, OnPages

LEMMA ReaderStep ==
    ASSUME ReaderInv, [IngestNext]_ingestVars
    PROVE  ReaderInv' /\ [Reader!Next]_(Reader!vars)
<1> USE DEF ReaderInv
<1>1. /\ minidump \in Minidump /\ minidump' = minidump /\ status = "ok" /\ captured = {}
  BY MinidumpStays DEF IngestInv, IngestTypeOK
<1>2. IngestInv'
  BY IngestTypeStep, FieldsStep, TableStep DEF IngestInv, FieldsOK
<1>3. LiveMinidump'
  BY LiveMinidumpStays
<1>4. CASE UNCHANGED tableVars
  BY <1>1, <1>2, <1>3, <1>4 DEF tableVars, Reader!vars
<1>5. ASSUME stage # "failed", LinesRead # Len(AllLines),
             NEW k \in 1..Len(AllLines), AllLines[k].start < AllLines[k].end,
             InsertMapping(LineMapping(AllLines[k]))
      PROVE  status' = "ok" /\ captured' = {} /\ Reader!Next
  <2> DEFINE m == LineMapping(AllLines[k])
  <2>1. m \in MinidumpLines /\ m \in Mapping
    BY <1>1, LinesOfMinidump, MappingTypes
  <2>2. m \in Regular
    BY <1>5, <2>1 DEF LineMapping, Regular
  <2>3. LiveImport(m)
    BY <1>5, <2>1, ReadIsLive
  <2>4. Reader!LiveImport(m) /\ Reader!InsertMapping(m)
    BY <1>5, <2>3 DEF LiveImport, Reader!LiveImport, Keys, Reader!Keys, Apart, Reader!Apart,
       SameRange, Reader!SameRange, InsertMapping, Reader!InsertMapping, Put, Reader!Put,
       Addr, Reader!Addr
  <2> QED
    BY <1>1, <1>5, <2>2, <2>4 DEF InsertMapping, Reader!Next, Reader!ReadMapsLine
<1>6. ASSUME stage # "failed", LinesRead = Len(AllLines),
             NEW i \in 1..Len(Modules), HasRange(Modules[i]),
             InsertMappingIfAbsent(ModuleMapping(Modules[i]))
      PROVE  status' = "ok" /\ captured' = {} /\ Reader!Next
  <2> DEFINE m == ModuleMapping(Modules[i])
  <2>1. m \in MinidumpModules /\ m \in Mapping
    BY <1>1, <1>6, MinidumpFacts, MappingTypes DEF MinidumpModules
  <2>2. m \in Regular
    BY <1>6, <2>1 DEF ModuleMapping, HasRange, Regular
  <2>3. m.start \notin Keys(mappings) => m \in OtherModules
    <3>1. m.start \in Addr
      BY <2>1 DEF Mapping
    <3>2. ASSUME m.start \notin Keys(mappings), NEW l \in MinidumpLines
          PROVE  l.start # m.start
      <4>1. PICK j \in 1..Len(AllLines) : l = LineMapping(AllLines[j])
        BY <1>1, LinesOfMinidump
      <4>2. mappings[m.start] = Absent
        BY <3>1, <3>2 DEF Keys
      <4>3. \A k \in 1..LinesRead : LineMapping(AllLines[k]) # Absent
        BY <1>1, <1>6, LinesOfMinidump, LineNotAbsent
      <4>4. ~ FromLine(m.start, LinesRead)
        BY <4>2, <4>3 DEF FromLine
      <4> QED
        BY <1>1, <1>6, <3>1, <4>1, <4>4 DEF IngestInv, TableOK, EntriesFrom, FromModule, LineMapping
    <3> QED
      BY <2>1, <3>2 DEF OtherModules
  <2>4. m.start \in Keys(mappings) \/ LiveImport(m)
    BY <1>6, <2>1, <2>3, ReadIsLive
  <2>5. /\ m.start \in Reader!Keys(mappings) \/ Reader!LiveImport(m)
        /\ Reader!InsertMappingIfAbsent(m)
    BY <1>6, <2>4 DEF LiveImport, Reader!LiveImport, Keys, Reader!Keys, Apart, Reader!Apart,
       SameRange, Reader!SameRange, InsertMappingIfAbsent, Reader!InsertMappingIfAbsent,
       Put, Reader!Put, Addr, Reader!Addr
  <2> QED
    BY <1>1, <1>6, <2>2, <2>5 DEF InsertMappingIfAbsent, Reader!Next, Reader!ReadModule
<1> QED
  BY <1>1, <1>2, <1>3, <1>4, <1>5, <1>6, ReaderCalls

\* What Spec assumes of the readers' calls follows from the minidump: they insert, in
\* their order, only mappings that are apart from all inserted before or have the
\* range of one.  The readers implement the live table.
THEOREM ReadersAreLive == IngestSpec /\ LiveMinidump => Reader!Spec
<1>1. IngestInit /\ LiveMinidump => ReaderInv /\ Reader!Init
  <2>1. IngestInit => IngestInv
    BY IngestTypeInit, FieldsInit, TableInit DEF IngestInv, FieldsOK
  <2>2. IngestInit => Reader!Init /\ status = "ok" /\ captured = {}
    BY DEF IngestInit, Init, Reader!Init, Addr, Reader!Addr
  <2> QED
    BY <2>1, <2>2 DEF ReaderInv
<1>2. ReaderInv /\ [IngestNext]_ingestVars => ReaderInv' /\ [Reader!Next]_(Reader!vars)
  BY ReaderStep
<1> QED
  BY <1>1, <1>2, PTL DEF IngestSpec, Reader!Spec

\* Seen as memory, the readers of a live process map its regions and nothing else.
THEOREM ReadersMemoryImage == IngestSpec /\ LiveMinidump => Reader!ImplementsMemoryImage
<1>1. Reader!Spec => Reader!ImplementsMemoryImage
  BY Reader!LiveMemoryImage, ReaderTakes
<1> QED
  BY <1>1, ReadersAreLive, PTL

\* The table that the readers leave of a live process is fit for injection: whole
\* pages, disjoint, filed under their starts, for any number of lines and modules.
THEOREM ReadersLeaveRegions == IngestSpec => []LiveRegions
<1>1. Reader!LiveInv => LiveRegions
  BY DEF Reader!LiveInv, Reader!RegionsOK, RegionsOK, LiveRegions, Keys, Reader!Keys,
     Apart, Reader!Apart, Addr, Reader!Addr, Reader!NoData, NoData
<1>2. Reader!Spec => []Reader!LiveInv
  BY Reader!LiveInvariant, ReaderTakes
<1>3. [IngestNext]_ingestVars /\ ~LiveMinidump => ~LiveMinidump'
  BY LiveMinidumpStays
<1>4. ~LiveMinidump => LiveRegions
  BY DEF LiveRegions
<1> QED
  BY <1>1, <1>2, <1>3, <1>4, ReadersAreLive, PTL DEF IngestSpec

=============================================================================
