---------------------------- MODULE ConvertProofs ----------------------------
(***************************************************************************)
(* The pipeline and the whole program, for dumps of any size.              *)
(*                                                                         *)
(* On every dump the augmentation makes only calls that the table accepts. *)
(* On the dump of a live process it keeps to what Spec assumes, so that    *)
(* the theorems about injection hold of it, and from them that what it     *)
(* injected is readable when it is done.  What the table then holds is an  *)
(* input of write_core, whose invariant, taken from CoreWriterProofs,      *)
(* gives the position of every captured byte in the core.                  *)
(***************************************************************************)
EXTENDS Convert, MappingTableProofs, FilterProofs, FiniteSetTheorems

-----------------------------------------------------------------------------
(* Facts about a dump.                                                     *)

LEMMA DumpTypes ==
    ASSUME NEW d \in Dumps
    PROVE  /\ d.maps \in Seq(Imports) /\ d.modules \in Seq(Imports)
           /\ d.stacks \in Seq(Stack) /\ d.dso \in Dso
           /\ Len(d.maps) \in Nat /\ Len(d.modules) \in Nat /\ Len(d.stacks) \in Nat
           /\ \A i \in 1..Len(d.maps) : d.maps[i] \in Imports
           /\ \A i \in 1..Len(d.modules) : d.modules[i] \in Imports
           /\ \A t \in 1..Len(d.stacks) : d.stacks[t] \in Stack
           /\ d.dso.tags \in Seq({"DT_DEBUG", "DT_NULL", "DT_OTHER"})
           /\ Len(d.dso.tags) \in Nat
<1>1. d \in Dump
  BY AugmentAssumption
<1>2. /\ d.maps \in Seq(Imports) /\ d.modules \in Seq(Imports)
      /\ d.stacks \in Seq(Stack) /\ d.dso \in Dso
  BY <1>1 DEF Dump
<1>3. d.dso.tags \in Seq({"DT_DEBUG", "DT_NULL", "DT_OTHER"})
  BY <1>2 DEF Dso
<1> QED
  BY <1>2, <1>3, LenProperties, ElementOfSeq

LEMMA ImportTypes ==
    ASSUME NEW m \in Imports
    PROVE  /\ m \in Mapping /\ m.start \in Addr /\ m.end \in Addr
           /\ m.start \in Nat /\ m.end \in Nat /\ m.start < m.end
BY TableAssumption DEF Mapping, Addr

LEMMA RegionImports ==
    ASSUME NEW d \in Dumps, NEW r \in Regions(d)
    PROVE  r \in Imports
BY DumpTypes DEF Regions

\* The entry that patch_dt_debug rewrites: the first one that is not DT_OTHER, if
\* it is a DT_DEBUG.
LEMMA EntryToPatchFirst ==
    ASSUME dump \in Dumps
    PROVE  /\ EntryToPatch \in 0..Len(dso.tags)
           /\ \A i \in 1..Len(dso.tags) :
                 (/\ dso.tags[i] = "DT_DEBUG"
                  /\ \A j \in 1..(i - 1) : dso.tags[j] = "DT_OTHER")
                 <=> EntryToPatch = i
<1> DEFINE n == Len(dso.tags)
           stops == {i \in 1..n : dso.tags[i] \in {"DT_DEBUG", "DT_NULL"}}
           first == CHOOSE i \in stops : \A j \in stops : i <= j
<1>1. /\ n \in Nat
      /\ \A i \in 1..n : dso.tags[i] \in {"DT_DEBUG", "DT_NULL", "DT_OTHER"}
  BY DumpTypes, ElementOfSeq DEF dso
<1>2. EntryToPatch = IF stops # {} /\ dso.tags[first] = "DT_DEBUG" THEN first ELSE 0
  BY DEF EntryToPatch
<1>3. stops \in SUBSET Nat /\ stops \subseteq 1..n
  BY <1>1
<1>4. stops # {} => first \in stops /\ \A j \in stops : first <= j
  <2> HIDE DEF stops
  <2> SUFFICES ASSUME stops # {}
               PROVE  \E i \in stops : \A j \in stops : i <= j
    OBVIOUS
  <2> QED
    BY <1>3, LeastNat
<1>5. \A i \in 1..n : i \notin stops <=> dso.tags[i] = "DT_OTHER"
  BY <1>1
<1>6. \A i \in stops : dso.tags[i] # "DT_OTHER" /\ i \in 1..n
  BY <1>5
<1>7. ASSUME NEW i \in 1..n, dso.tags[i] = "DT_DEBUG",
             \A j \in 1..(i - 1) : dso.tags[j] = "DT_OTHER"
      PROVE  EntryToPatch = i
  <2>1. i \in stops
    BY <1>7
  <2>2. first \in 1..n /\ first <= i /\ dso.tags[first] # "DT_OTHER"
    BY <1>4, <1>6, <2>1
  <2>3. first = i
    <3> HIDE DEF first, stops, n
    <3>1. first \notin 1..(i - 1)
      BY <1>7, <2>2
    <3> QED
      BY <1>1, <2>2, <3>1, SMT
  <2> QED
    BY <1>2, <1>7, <2>1, <2>3
<1>8. ASSUME NEW i \in 1..n, EntryToPatch = i
      PROVE  /\ dso.tags[i] = "DT_DEBUG"
             /\ \A j \in 1..(i - 1) : dso.tags[j] = "DT_OTHER"
  <2>1. i # 0
    BY <1>1, <1>8, SMT
  <2>2. stops # {} /\ dso.tags[first] = "DT_DEBUG" /\ first = i
    BY <1>2, <1>8, <2>1
  <2>3. ASSUME NEW j \in 1..(i - 1)
        PROVE  j \in 1..n /\ ~ (i <= j)
    BY <1>1, <2>3, SMT
  <2> QED
    BY <1>4, <1>5, <2>2, <2>3
<1>9. EntryToPatch \in 0..n
  <2>1. first \in 1..n \/ EntryToPatch = 0
    BY <1>2, <1>3, <1>4
  <2>2. EntryToPatch = first \/ EntryToPatch = 0
    BY <1>2
  <2> HIDE DEF first, stops, n
  <2> QED
    BY <1>1, <2>1, <2>2, SMT
<1> QED
  BY <1>7, <1>8, <1>9

-----------------------------------------------------------------------------
(* On every dump.                                                          *)

LEMMA BlobsOfDump ==
    ASSUME NEW d \in Dumps
    PROVE  /\ \A t \in 1..Len(d.stacks) : d.stacks[t].len > 0 =>
                 StackBlob(d, t) \in StackBlobs(d)
           /\ StackBlobs(d) \subseteq Blobs(d) /\ Blobs(d) \subseteq Captures
           /\ DsoKnown(d) /\ d.dso.blobLen # TooWide => LinkMap(d) \in Blobs(d)
           /\ DsoKnown(d) /\ d.dso.blobLen # TooWide /\ HasDynamic(d) =>
                 DynamicData(d) \in Blobs(d)
<1>1. Blobs(d) \subseteq Captures
  BY AugmentAssumption
<1> QED
  BY <1>1 DEF StackBlobs, Blobs

\* What a step calls, and on what.
CallsTable ==
    \/ \E m \in Imports : InsertMapping(m) \/ InsertMappingIfAbsent(m)
    \/ \E c \in Blobs(dump) : AddDataToMapping(c)
    \/ UNCHANGED vars

\* The stages that inject the link map and the dynamic section are reached only if
\* there is something to inject, and after an error or a panic nothing is called.
StagesOK ==
    /\ stage \in {"maps", "modules", "stacks", "link_map", "dynamic", "done", "failed"}
    /\ stage \in {"link_map", "dynamic"} => DsoKnown(dump)
    /\ stage = "dynamic" => HasDynamic(dump) /\ dso.blobLen # TooWide
    /\ status # "ok" => stage = "failed"

AugmentInv ==
    /\ StagesOK
    /\ dump \in Dumps /\ turn \in Nat \ {0} /\ patched \in 0..Len(dso.tags)

LEMMA InsertReturnsOk ==
    ASSUME NEW m, InsertMapping(m) \/ InsertMappingIfAbsent(m)
    PROVE  status' = "ok"
BY DEF InsertMapping, InsertMappingIfAbsent

LEMMA AugmentStep ==
    ASSUME AugmentInv, [AugmentNext]_augmentVars
    PROVE  AugmentInv' /\ CallsTable /\ (~ UNCHANGED vars => status = "ok")
<1> USE DEF AugmentInv, StagesOK
<1>1. CASE ReadMaps
  <2>1. CASE turn <= Len(dump.maps) /\ InsertMapping(dump.maps[turn])
             /\ turn' = turn + 1 /\ UNCHANGED <<dump, stage, patched>>
    <3>1. dump.maps[turn] \in Imports
      BY <2>1, DumpTypes, SMT
    <3>2. status' = "ok" /\ CallsTable
      BY <2>1, <3>1, InsertReturnsOk DEF CallsTable
    <3> QED
      BY <1>1, <2>1, <3>2 DEF ReadMaps, dso, DsoKnown, HasDynamic, DynamicLen
  <2>2. CASE GoTo("modules") /\ UNCHANGED tableVars
    BY <1>1, <2>2 DEF ReadMaps, GoTo, CallsTable, tableVars, vars, dso
  <2> QED
    BY <1>1, <2>1, <2>2 DEF ReadMaps
<1>2. CASE ReadModules
  <2>1. CASE turn <= Len(dump.modules) /\ InsertMappingIfAbsent(dump.modules[turn])
             /\ turn' = turn + 1 /\ UNCHANGED <<dump, stage, patched>>
    <3>1. dump.modules[turn] \in Imports
      BY <2>1, DumpTypes, SMT
    <3>2. status' = "ok" /\ CallsTable
      BY <2>1, <3>1, InsertReturnsOk DEF CallsTable
    <3> QED
      BY <1>2, <2>1, <3>2 DEF ReadModules, dso, DsoKnown, HasDynamic, DynamicLen
  <2>2. CASE GoTo("stacks") /\ UNCHANGED tableVars
    BY <1>2, <2>2 DEF ReadModules, GoTo, CallsTable, tableVars, vars, dso
  <2> QED
    BY <1>2, <2>1, <2>2 DEF ReadModules
<1>3. CASE InjectStack
  <2>1. CASE dump.stacks[turn].len > 0 /\ AddDataToMapping(StackBlob(dump, turn))
             /\ Continue("stacks")
    <3>1. turn \in 1..Len(dump.stacks)
      BY <1>3, DumpTypes, SMT DEF InjectStack
    <3>2. CallsTable
      BY <2>1, <3>1, BlobsOfDump DEF CallsTable
    <3> QED
      BY <1>3, <2>1, <3>2 DEF InjectStack, Continue, dso
  <2>2. CASE UNCHANGED tableVars /\ UNCHANGED stage
    BY <1>3, <2>2 DEF InjectStack, CallsTable, tableVars, vars, dso
  <2> QED
    BY <1>3, <2>1, <2>2 DEF InjectStack
<1>4. CASE StacksDone
  BY <1>4 DEF StacksDone, GoTo, CallsTable, tableVars, vars, dso, DsoKnown, DynamicLen
<1>5. CASE InjectLinkMap
  <2>1. CASE dso.blobLen # TooWide /\ AddDataToMapping(LinkMap(dump))
             /\ Continue(IF HasDynamic(dump) THEN "dynamic" ELSE "done")
    <3>1. LinkMap(dump) \in Blobs(dump)
      BY <1>5, <2>1, BlobsOfDump DEF InjectLinkMap, dso
    <3>2. CallsTable
      BY <2>1, <3>1 DEF CallsTable
    <3>3. dump' = dump /\ turn' = turn /\ patched' = patched /\ stage = "link_map"
      BY <1>5 DEF InjectLinkMap
    <3>4. DsoKnown(dump)' /\ (HasDynamic(dump) => HasDynamic(dump)') /\ dso' = dso
      BY <3>3 DEF DsoKnown, HasDynamic, DynamicLen, dso
    <3> QED
      BY <2>1, <3>2, <3>3, <3>4 DEF Continue
  <2>2. CASE stage' = "failed" /\ UNCHANGED tableVars
    BY <1>5, <2>2 DEF InjectLinkMap, CallsTable, tableVars, vars, dso
  <2> QED
    BY <1>5, <2>1, <2>2 DEF InjectLinkMap
<1>6. CASE InjectDynamic
  <2>1. DynamicData(dump) \in Blobs(dump)
    BY <1>6, BlobsOfDump DEF InjectDynamic, dso
  <2>2. CallsTable
    BY <1>6, <2>1 DEF InjectDynamic, CallsTable
  <2>3. EntryToPatch \in 0..Len(dso.tags)
    BY EntryToPatchFirst
  <2> QED
    BY <1>6, <2>2, <2>3 DEF InjectDynamic, Continue, dso
<1>7. CASE UNCHANGED augmentVars
  BY <1>7 DEF augmentVars, vars, CallsTable, dso, DsoKnown, HasDynamic, DynamicLen
<1> QED
  BY <1>1, <1>2, <1>3, <1>4, <1>5, <1>6, <1>7 DEF AugmentNext

LEMMA AugmentInitInv == AugmentInit => AugmentInv
<1> SUFFICES ASSUME AugmentInit
             PROVE  AugmentInv
  OBVIOUS
<1>1. 0 \in 0..Len(dso.tags)
  BY DumpTypes, SMT DEF AugmentInit, dso
<1> QED
  BY <1>1 DEF AugmentInit, AugmentInv, StagesOK, Init

LEMMA AugmentCallsLibrary ==
    ASSUME AugmentInv, [AugmentNext]_augmentVars
    PROVE  [LibraryNext]_vars
<1>1. CallsTable /\ (~ UNCHANGED vars => status = "ok") /\ Blobs(dump) \subseteq Captures
  BY AugmentStep, BlobsOfDump DEF AugmentInv
<1>2. ASSUME NEW c \in Blobs(dump), AddDataToMapping(c), status = "ok"
      PROVE  LibraryNext
  BY <1>1, <1>2 DEF LibraryNext
<1>3. ASSUME NEW m \in Imports, InsertMapping(m) \/ InsertMappingIfAbsent(m), status = "ok"
      PROVE  LibraryNext
  BY <1>3 DEF LibraryNext
<1> QED
  BY <1>1, <1>2, <1>3 DEF CallsTable

\* augment_process and the readers call the table only as its public interface
\* allows: what is proved of every sequence of calls holds of the pipeline, and
\* nothing is called after a panic.
THEOREM AugmentCalls == AugmentSpec => LibrarySpec
<1>1. AugmentInit => AugmentInv /\ Init
  BY AugmentInitInv DEF AugmentInit
<1>2. AugmentInv /\ [AugmentNext]_augmentVars => AugmentInv' /\ [LibraryNext]_vars
  BY AugmentStep, AugmentCallsLibrary
<1> QED
  BY <1>1, <1>2, PTL DEF AugmentSpec, LibrarySpec

\* The state of the pipeline keeps its types on every dump: every mapping is well
\* formed whatever the addresses and lengths in the minidump, and patch_dt_debug
\* rewrites no entry outside the section.
THEOREM AugmentTypes == AugmentSpec => []AugmentTypeOK
<1>1. AugmentInit => AugmentInv
  BY AugmentInitInv
<1>2. AugmentInv /\ [AugmentNext]_augmentVars => AugmentInv'
  BY AugmentStep
<1>3. AugmentInv /\ TypeOK => AugmentTypeOK
  BY DEF AugmentInv, StagesOK, AugmentTypeOK
<1>4. AugmentSpec => []TypeOK
  BY AugmentCalls, LibraryTypeOK, PTL
<1> QED
  BY <1>1, <1>2, <1>3, <1>4, PTL DEF AugmentSpec

\* On every dump a segment that has data starts on a page and has whole pages of it.
THEOREM AugmentDataOnPages == AugmentSpec => []DataOnPages
BY AugmentCalls, LibraryDataOnPages, PTL

-----------------------------------------------------------------------------
(* On the dump of a live process.                                          *)

\* The stacks before the n-th.
StacksBefore(n) ==
    {StackBlob(dump, t) : t \in {u \in 1..Len(dump.stacks) : u < n /\ dump.stacks[u].len > 0}}

\* Each entry the readers made has the range of a region, and there is one for each
\* line and module that was read.
RegionsRead ==
    /\ \A k \in Keys(imported) : \E r \in Regions(dump) : SameRange(imported[k], r)
    /\ \A j \in 1..Len(dump.maps) :
          stage # "failed" /\ (stage = "maps" => j < turn) =>
              dump.maps[j].start \in Keys(imported)
    /\ \A j \in 1..Len(dump.modules) :
          stage \notin {"maps", "failed"} /\ (stage = "modules" => j < turn) =>
              dump.modules[j].start \in Keys(imported)

\* What is injected when a stage begins, and for the stacks after each turn.
Injected ==
    /\ stage \in {"maps", "modules"} => captured = {}
    /\ stage = "stacks" => captured = StacksBefore(turn)
    /\ stage = "link_map" => captured = StackBlobs(dump)
    /\ stage = "dynamic" => captured = StackBlobs(dump) \cup {LinkMap(dump)}
    /\ stage = "done" => /\ captured = Blobs(dump)
                         /\ DsoKnown(dump) => dso.blobLen # TooWide
                         /\ DsoKnown(dump) /\ HasDynamic(dump) => patched = EntryToPatch

AugmentLiveInv == LiveInv /\ AugmentInv /\ LiveDump(dump) /\ RegionsRead /\ Injected

\* A region can be inserted next to those read before it.
LEMMA RegionIsLive ==
    ASSUME AugmentLiveInv, stage \in {"maps", "modules"}, NEW r \in Regions(dump)
    PROVE  LiveImport(r)
<1> USE DEF AugmentLiveInv
<1>1. mappings = imported
  BY DEF LiveInv, Injected
<1>2. ASSUME NEW k \in Keys(mappings)
      PROVE  Apart(r, mappings[k]) \/ SameRange(r, mappings[k])
  <2>1. PICK q \in Regions(dump) : SameRange(mappings[k], q)
    BY <1>1 DEF RegionsRead
  <2>2. Apart(r, q) \/ SameRange(r, q)
    BY DEF LiveDump
  <2> QED
    BY <2>1, <2>2 DEF Apart, SameRange
<1> QED
  BY <1>2 DEF LiveImport, LiveDump

\* When the readers are done, each region has its entry.
LEMMA RegionHasEntry ==
    ASSUME AugmentLiveInv, stage \notin {"maps", "modules", "failed"}, NEW r \in Regions(dump)
    PROVE  r.start \in Keys(imported) /\ SameRange(imported[r.start], r)
<1> USE DEF AugmentLiveInv
<1>1. r.start \in Keys(imported)
  <2>1. \/ \E i \in 1..Len(dump.maps) : r = dump.maps[i]
        \/ \E i \in 1..Len(dump.modules) : r = dump.modules[i]
    BY DEF Regions
  <2>2. /\ \A i \in 1..Len(dump.maps) : dump.maps[i].start \in Keys(imported)
        /\ \A i \in 1..Len(dump.modules) : dump.modules[i].start \in Keys(imported)
    BY DEF RegionsRead
  <2> QED
    BY <2>1, <2>2
<1>2. PICK q \in Regions(dump) : SameRange(imported[r.start], q)
  BY <1>1 DEF RegionsRead
<1>3. imported[r.start].start = r.start
  BY <1>1 DEF LiveInv, RegionsOK
<1>4. /\ r.start \in Nat /\ r.end \in Nat /\ r.start < r.end
      /\ q.start \in Nat /\ q.end \in Nat /\ q.start < q.end
  BY RegionImports, ImportTypes DEF AugmentInv
<1>5. ~ Apart(r, q)
  BY <1>2, <1>3, <1>4, SMT DEF SameRange, Apart
<1>6. SameRange(r, q)
  BY <1>5 DEF LiveDump
<1> QED
  BY <1>1, <1>2, <1>6 DEF SameRange

\* What is left to inject keeps to the assumptions of Spec.
LEMMA BlobIsLive ==
    ASSUME AugmentLiveInv, stage \notin {"maps", "modules", "failed"},
           NEW c \in Blobs(dump), c \notin captured, captured \subseteq Blobs(dump)
    PROVE  LiveCapture(c)
<1> USE DEF AugmentLiveInv
<1>1. c.len > 0 /\ PageEnd(c) <= MaxAddr
  BY DEF LiveDump
<1>2. \A d \in captured : ApartPages(c, d)
  BY DEF LiveDump
<1>3. CASE \E r \in Regions(dump) : Within(c, r)
  <2>1. PICK r \in Regions(dump) : Within(c, r)
    BY <1>3
  <2>2. r.start \in Keys(imported) /\ Within(c, imported[r.start])
    BY <2>1, RegionHasEntry DEF SameRange, Within
  <2> QED
    BY <1>1, <1>2, <2>2 DEF LiveCapture
<1>4. CASE \A r \in Regions(dump) : Outside(c, r)
  <2>1. ASSUME NEW k \in Keys(imported)
        PROVE  Outside(c, imported[k])
    BY <1>4 DEF RegionsRead, SameRange, Outside
  <2> QED
    BY <1>1, <1>2, <2>1 DEF LiveCapture
<1> QED
  BY <1>3, <1>4 DEF LiveDump

\* The sources tell the blobs apart.
LEMMA BlobsDiffer ==
    ASSUME dump \in Dumps
    PROVE  /\ \A t \in 1..Len(dump.stacks) : StackBlob(dump, t) \notin StacksBefore(t)
           /\ LinkMap(dump) \notin StackBlobs(dump)
           /\ DynamicData(dump) \notin StackBlobs(dump) \cup {LinkMap(dump)}
<1>1. ASSUME NEW t \in 1..Len(dump.stacks), StackBlob(dump, t) \in StacksBefore(t)
      PROVE  FALSE
  <2>1. PICK u \in 1..Len(dump.stacks) : u < t /\ StackBlob(dump, t) = StackBlob(dump, u)
    BY <1>1 DEF StacksBefore
  <2>2. StackOf(t) = StackOf(u)
    BY <2>1 DEF StackBlob
  <2>3. t = u
    BY <2>2, AugmentAssumption
  <2> QED
    BY <2>1, <2>3, DumpTypes, SMT
<1>2. ASSUME NEW t \in 1..Len(dump.stacks)
      PROVE  StackBlob(dump, t) # LinkMap(dump) /\ StackBlob(dump, t) # DynamicData(dump)
  <2>1. StackOf(t) # LinkMapBlob /\ StackOf(t) # DynamicBlob
    BY AugmentAssumption
  <2> QED
    BY <2>1 DEF StackBlob, LinkMap, DynamicData
<1>3. LinkMap(dump) # DynamicData(dump)
  BY AugmentAssumption DEF LinkMap, DynamicData
<1> QED
  BY <1>1, <1>2, <1>3 DEF StackBlobs

\* What a line or a module leaves in the table.
LEMMA ReadEntry ==
    ASSUME TypeOK, mappings = imported, NEW m \in Imports,
           InsertMapping(m) \/ InsertMappingIfAbsent(m)
    PROVE  /\ mappings' = imported' /\ captured' = captured
           /\ Keys(imported') = Keys(imported) \cup {m.start}
           /\ \A k \in Keys(imported') :
                 \/ k \in Keys(imported) /\ imported'[k] = imported[k]
                 \/ imported'[k] = m /\ (InsertMapping(m) \/ m.start \notin Keys(imported))
<1>1. /\ m \in Mapping /\ m.start \in Addr /\ m # Absent
  BY ImportTypes, TableAssumption
<1>2. imported' = mappings' /\ captured' = captured
  BY DEF InsertMapping, InsertMappingIfAbsent
<1>3. CASE mappings' = Put(m.start, m) /\ (InsertMapping(m) \/ m.start \notin Keys(imported))
  <2>1. imported' = [imported EXCEPT ![m.start] = m]
    BY <1>2, <1>3 DEF Put
  <2> QED
    BY <1>1, <1>2, <1>3, <2>1 DEF Keys, TypeOK
<1>4. CASE mappings' = mappings /\ m.start \in Keys(mappings)
  BY <1>2, <1>4
<1> QED
  BY <1>1, <1>3, <1>4 DEF InsertMapping, InsertMappingIfAbsent, Keys

LEMMA ReadMapsLive ==
    ASSUME AugmentLiveInv, ReadMaps
    PROVE  [Next]_vars /\ RegionsRead' /\ Injected'
<1> USE DEF AugmentLiveInv
<1>1. /\ stage = "maps" /\ captured = {} /\ status = "ok" /\ TypeOK /\ mappings = imported
      /\ turn \in Nat \ {0} /\ dump \in Dumps /\ dump' = dump
      /\ Len(dump.maps) \in Nat /\ Len(dump.modules) \in Nat
  BY DumpTypes DEF ReadMaps, Injected, LiveInv, AugmentInv, GoTo
<1>2. CASE /\ turn <= Len(dump.maps) /\ InsertMapping(dump.maps[turn])
           /\ turn' = turn + 1 /\ UNCHANGED <<dump, stage, patched>>
  <2> DEFINE m == dump.maps[turn]
  <2>1. turn \in 1..Len(dump.maps) /\ m \in Regions(dump) /\ m \in Imports
    BY <1>1, <1>2, DumpTypes, SMT DEF Regions
  <2>2. LiveImport(m)
    BY <1>1, <2>1, RegionIsLive
  <2>3. Next
    BY <1>1, <1>2, <2>1, <2>2 DEF Next, ReadMapsLine
  <2>4. /\ captured' = {}
        /\ Keys(imported') = Keys(imported) \cup {m.start}
        /\ \A k \in Keys(imported') :
              (k \in Keys(imported) /\ imported'[k] = imported[k]) \/ imported'[k] = m
    BY <1>1, <1>2, <2>1, ReadEntry
  <2>5. \A j \in 1..Len(dump.maps) : j < turn' => j < turn \/ j = turn
    BY <1>1, <1>2, SMT
  <2>6. /\ \A k \in Keys(imported) : \E r \in Regions(dump) : SameRange(imported[k], r)
        /\ \A j \in 1..Len(dump.maps) : j < turn => dump.maps[j].start \in Keys(imported)
    BY <1>1 DEF RegionsRead
  <2>7. SameRange(m, m)
    BY DEF SameRange
  <2>8. \A k \in Keys(imported') : \E r \in Regions(dump) : SameRange(imported'[k], r)
    BY <2>1, <2>4, <2>6, <2>7
  <2>9. \A j \in 1..Len(dump.maps) : j < turn' => dump.maps[j].start \in Keys(imported')
    BY <2>4, <2>5, <2>6
  <2>10. stage' = "maps" /\ dump' = dump
    BY <1>1, <1>2
  <2> QED
    BY <2>3, <2>4, <2>8, <2>9, <2>10 DEF RegionsRead, Injected
<1>3. CASE turn > Len(dump.maps) /\ GoTo("modules") /\ UNCHANGED tableVars
  <2>1. UNCHANGED vars /\ stage' = "modules" /\ turn' = 1 /\ imported' = imported /\ captured' = {}
    BY <1>1, <1>3 DEF tableVars, vars, GoTo
  <2>2. /\ \A j \in 1..Len(dump.maps) : j < turn
        /\ \A j \in 1..Len(dump.modules) : ~ (j < turn')
    BY <1>1, <1>3, <2>1, SMT
  <2> QED
    BY <1>1, <2>1, <2>2 DEF RegionsRead, Injected
<1> QED
  BY <1>2, <1>3 DEF ReadMaps

LEMMA ReadModulesLive ==
    ASSUME AugmentLiveInv, ReadModules
    PROVE  [Next]_vars /\ RegionsRead' /\ Injected'
<1> USE DEF AugmentLiveInv
<1>1. /\ stage = "modules" /\ captured = {} /\ status = "ok" /\ TypeOK /\ mappings = imported
      /\ turn \in Nat \ {0} /\ dump \in Dumps /\ dump' = dump
      /\ Len(dump.maps) \in Nat /\ Len(dump.modules) \in Nat /\ Len(dump.stacks) \in Nat
  BY DumpTypes DEF ReadModules, Injected, LiveInv, AugmentInv, GoTo
<1>2. CASE /\ turn <= Len(dump.modules) /\ InsertMappingIfAbsent(dump.modules[turn])
           /\ turn' = turn + 1 /\ UNCHANGED <<dump, stage, patched>>
  <2> DEFINE m == dump.modules[turn]
  <2>1. turn \in 1..Len(dump.modules) /\ m \in Imports
    BY <1>1, <1>2, DumpTypes, SMT
  <2>2. /\ \A k \in Keys(imported) : \E r \in Regions(dump) : SameRange(imported[k], r)
        /\ \A j \in 1..Len(dump.maps) : dump.maps[j].start \in Keys(imported)
        /\ \A j \in 1..Len(dump.modules) : j < turn => dump.modules[j].start \in Keys(imported)
    BY <1>1 DEF RegionsRead
  <2>3. m.start \notin Keys(imported) => m \in Regions(dump)
    BY <2>1, <2>2 DEF Regions, Listed
  <2>4. m.start \in Keys(mappings) \/ LiveImport(m)
    BY <1>1, <2>3, RegionIsLive
  <2>5. Next
    BY <1>1, <1>2, <2>1, <2>4 DEF Next, ReadModule
  <2>6. /\ captured' = {}
        /\ Keys(imported') = Keys(imported) \cup {m.start}
    BY <1>1, <1>2, <2>1, ReadEntry
  <2>7. SameRange(m, m)
    BY DEF SameRange
  <2>8. ASSUME NEW k \in Keys(imported')
        PROVE  \E r \in Regions(dump) : SameRange(imported'[k], r)
    <3>1. CASE k \in Keys(imported) /\ imported'[k] = imported[k]
      BY <2>2, <3>1
    <3>2. CASE imported'[k] = m /\ m.start \notin Keys(imported)
      BY <2>3, <2>7, <3>2
    <3>3. CASE imported'[k] = m /\ m.start \in Keys(imported)
      <4>1. mappings' = mappings /\ imported' = mappings'
        BY <1>1, <1>2, <3>3 DEF InsertMappingIfAbsent, Keys
      <4> QED
        BY <1>1, <2>2, <2>8, <4>1
    <3> QED
      BY <1>1, <1>2, <2>1, <2>8, <3>1, <3>2, <3>3, ReadEntry
  <2>9. \A j \in 1..Len(dump.modules) : j < turn' => j < turn \/ j = turn
    BY <1>1, <1>2, SMT
  <2>10. stage' = "modules" /\ dump' = dump
    BY <1>1, <1>2
  <2>11. /\ \A j \in 1..Len(dump.maps) : dump.maps[j].start \in Keys(imported')
         /\ \A j \in 1..Len(dump.modules) :
               j < turn' => dump.modules[j].start \in Keys(imported')
    BY <2>2, <2>6, <2>9
  <2> QED
    BY <2>5, <2>6, <2>8, <2>10, <2>11 DEF RegionsRead, Injected
<1>3. CASE turn > Len(dump.modules) /\ GoTo("stacks") /\ UNCHANGED tableVars
  <2>1. UNCHANGED vars /\ stage' = "stacks" /\ turn' = 1 /\ imported' = imported /\ captured' = {}
    BY <1>1, <1>3 DEF tableVars, vars, GoTo
  <2>2. \A j \in 1..Len(dump.modules) : j < turn
    BY <1>1, <1>3, SMT
  <2>3. StacksBefore(turn)' = {}
    <3>1. \A t \in 1..Len(dump.stacks) : ~ (t < 1)
      BY <1>1, SMT
    <3> QED
      BY <1>1, <2>1, <3>1 DEF StacksBefore
  <2> QED
    BY <1>1, <2>1, <2>2, <2>3 DEF RegionsRead, Injected
<1> QED
  BY <1>2, <1>3 DEF ReadModules

\* Nothing that is left to inject is refused.
LEMMA InjectLive ==
    ASSUME AugmentLiveInv, stage \notin {"maps", "modules", "failed"},
           NEW c \in Blobs(dump), c \notin captured, captured \subseteq Blobs(dump),
           AddDataToMapping(c)
    PROVE  Next /\ status' = "ok" /\ imported' = imported /\ captured' = captured \cup {c}
<1>1. LiveInv /\ status = "ok" /\ c \in Captures
  BY BlobsOfDump DEF AugmentLiveInv, AugmentInv, LiveInv
<1>2. LiveCapture(c)
  BY BlobIsLive
<1>3. Next
  BY <1>1, <1>2 DEF Next, Inject
<1>4. status' = "ok"
  BY <1>1, <1>3, LiveStep DEF LiveInv
<1>5. \E s \in {"ok", "error", "panic"} : Return(s, c)
  BY DEF AddDataToMapping, SplitMapping, RefillMapping, SynthesizeMapping
<1> QED
  BY <1>3, <1>4, <1>5 DEF Return

LEMMA RegionsStayRead ==
    ASSUME AugmentLiveInv, stage \notin {"maps", "modules", "failed"}, stage' \notin {"maps", "modules"},
           imported' = imported, dump' = dump
    PROVE  RegionsRead'
BY DEF AugmentLiveInv, RegionsRead

LEMMA StacksLive ==
    ASSUME AugmentLiveInv, InjectStack
    PROVE  [Next]_vars /\ RegionsRead' /\ Injected'
<1> USE DEF AugmentLiveInv
<1>1. /\ stage = "stacks" /\ captured = StacksBefore(turn) /\ dump \in Dumps
      /\ turn \in 1..Len(dump.stacks) /\ Len(dump.stacks) \in Nat
      /\ turn' = turn + 1 /\ dump' = dump
  BY DumpTypes, SMT DEF InjectStack, Injected, AugmentInv
<1>2. \A t \in 1..Len(dump.stacks) : t < turn + 1 <=> t < turn \/ t = turn
  BY <1>1, SMT
<1>3. captured \subseteq Blobs(dump)
  BY <1>1, BlobsOfDump DEF StacksBefore
<1>4. CASE dump.stacks[turn].len > 0 /\ AddDataToMapping(StackBlob(dump, turn))
           /\ Continue("stacks")
  <2> DEFINE c == StackBlob(dump, turn)
  <2>1. c \in Blobs(dump) /\ c \notin captured
    BY <1>1, <1>4, BlobsOfDump, BlobsDiffer
  <2>2. Next /\ status' = "ok" /\ imported' = imported /\ captured' = captured \cup {c}
    BY <1>1, <1>3, <1>4, <2>1, InjectLive
  <2>3. StacksBefore(turn)' = StacksBefore(turn) \cup {c}
    BY <1>1, <1>2, <1>4 DEF StacksBefore
  <2>4. stage' = "stacks"
    BY <1>4, <2>2 DEF Continue
  <2> QED
    BY <1>1, <2>2, <2>3, <2>4, RegionsStayRead DEF Injected
<1>5. CASE dump.stacks[turn].len = 0 /\ UNCHANGED tableVars /\ UNCHANGED stage
  <2>1. UNCHANGED vars /\ imported' = imported /\ captured' = captured
    BY <1>5 DEF tableVars, vars
  <2>2. ~ (dump.stacks[turn].len > 0)
    BY <1>5
  <2>3. StacksBefore(turn)' = StacksBefore(turn)
    BY <1>1, <1>2, <2>2 DEF StacksBefore
  <2> QED
    BY <1>1, <1>5, <2>1, <2>3, RegionsStayRead DEF Injected
<1> QED
  BY <1>4, <1>5 DEF InjectStack

LEMMA StacksDoneLive ==
    ASSUME AugmentLiveInv, StacksDone
    PROVE  [Next]_vars /\ RegionsRead' /\ Injected'
<1> USE DEF AugmentLiveInv
<1>1. /\ stage = "stacks" /\ captured = StacksBefore(turn) /\ dump \in Dumps
      /\ turn > Len(dump.stacks) /\ turn \in Nat /\ Len(dump.stacks) \in Nat
      /\ dump' = dump /\ stage' = IF DsoKnown(dump) THEN "link_map" ELSE "done"
  BY DumpTypes DEF StacksDone, GoTo, Injected, AugmentInv
<1>2. UNCHANGED vars /\ imported' = imported /\ captured' = captured
  BY DEF StacksDone, tableVars, vars
<1>3. StacksBefore(turn) = StackBlobs(dump)
  <2>1. \A t \in 1..Len(dump.stacks) : t < turn
    BY <1>1, SMT
  <2> QED
    BY <2>1 DEF StacksBefore, StackBlobs
<1>4. ~ DsoKnown(dump) => Blobs(dump) = StackBlobs(dump)
  BY DEF Blobs
<1>5. StackBlobs(dump)' = StackBlobs(dump) /\ Blobs(dump)' = Blobs(dump) /\ DsoKnown(dump)' = DsoKnown(dump)
  BY <1>1
<1> QED
  BY <1>1, <1>2, <1>3, <1>4, <1>5, RegionsStayRead DEF Injected

LEMMA LinkMapLive ==
    ASSUME AugmentLiveInv, InjectLinkMap
    PROVE  [Next]_vars /\ RegionsRead' /\ Injected'
<1> USE DEF AugmentLiveInv
<1>1. /\ stage = "link_map" /\ captured = StackBlobs(dump) /\ dump \in Dumps
      /\ DsoKnown(dump) /\ dump' = dump /\ dso' = dso
  BY DEF InjectLinkMap, Injected, AugmentInv, StagesOK, dso
<1>2. captured \subseteq Blobs(dump)
  BY <1>1, BlobsOfDump
<1>3. CASE dso.blobLen # TooWide /\ AddDataToMapping(LinkMap(dump))
           /\ Continue(IF HasDynamic(dump) THEN "dynamic" ELSE "done")
  <2> DEFINE c == LinkMap(dump)
  <2>1. c \in Blobs(dump) /\ c \notin captured
    BY <1>1, <1>3, BlobsOfDump, BlobsDiffer DEF dso
  <2>2. Next /\ status' = "ok" /\ imported' = imported /\ captured' = captured \cup {c}
    BY <1>1, <1>2, <1>3, <2>1, InjectLive
  <2>3. stage' = IF HasDynamic(dump) THEN "dynamic" ELSE "done"
    BY <1>3, <2>2 DEF Continue
  <2>4. ~ HasDynamic(dump) => Blobs(dump) = StackBlobs(dump) \cup {c}
    BY <1>1, <1>3 DEF Blobs, dso
  <2>5. /\ StackBlobs(dump)' = StackBlobs(dump) /\ Blobs(dump)' = Blobs(dump)
        /\ LinkMap(dump)' = c /\ HasDynamic(dump)' = HasDynamic(dump)
    BY <1>1
  <2> QED
    BY <1>1, <1>3, <2>2, <2>3, <2>4, <2>5, RegionsStayRead DEF Injected
<1>4. CASE stage' = "failed" /\ UNCHANGED tableVars
  <2>1. UNCHANGED vars /\ imported' = imported
    BY <1>4 DEF tableVars, vars
  <2> QED
    BY <1>1, <1>4, <2>1, RegionsStayRead DEF Injected
<1> QED
  BY <1>3, <1>4 DEF InjectLinkMap

LEMMA DynamicLive ==
    ASSUME AugmentLiveInv, InjectDynamic
    PROVE  [Next]_vars /\ RegionsRead' /\ Injected'
<1> USE DEF AugmentLiveInv
<1> DEFINE c == DynamicData(dump)
<1>1. /\ stage = "dynamic" /\ captured = StackBlobs(dump) \cup {LinkMap(dump)}
      /\ dump \in Dumps /\ dump' = dump /\ dso' = dso
      /\ DsoKnown(dump) /\ HasDynamic(dump) /\ dso.blobLen # TooWide
      /\ patched' = EntryToPatch
  BY DEF InjectDynamic, Injected, AugmentInv, StagesOK, dso
<1>2. /\ c \in Blobs(dump) /\ c \notin captured /\ captured \subseteq Blobs(dump)
      /\ Blobs(dump) = captured \cup {c}
  BY <1>1, BlobsOfDump, BlobsDiffer DEF dso, Blobs
<1>3. Next /\ status' = "ok" /\ imported' = imported /\ captured' = captured \cup {c}
  BY <1>1, <1>2, InjectLive DEF InjectDynamic
<1>4. stage' = "done"
  BY <1>3 DEF InjectDynamic, Continue
<1>5. EntryToPatch' = EntryToPatch /\ Blobs(dump)' = Blobs(dump)
  BY <1>1 DEF EntryToPatch
<1> QED
  BY <1>1, <1>2, <1>3, <1>4, <1>5, RegionsStayRead DEF Injected

LEMMA AugmentLiveInit == AugmentInit /\ LiveDump(dump) => AugmentLiveInv
<1> SUFFICES ASSUME AugmentInit, LiveDump(dump)
             PROVE  AugmentLiveInv
  OBVIOUS
<1>1. LiveInv /\ AugmentInv
  BY LiveInit, AugmentInitInv DEF AugmentInit
<1>2. /\ stage = "maps" /\ turn = 1 /\ captured = {} /\ Keys(imported) = {} /\ dump \in Dumps
  BY DEF AugmentInit, Init, Keys
<1>3. \A j \in 1..Len(dump.maps) : ~ (j < 1)
  BY <1>2, DumpTypes, SMT
<1> QED
  BY <1>1, <1>2, <1>3 DEF AugmentLiveInv, RegionsRead, Injected

LEMMA AugmentLiveStep ==
    ASSUME AugmentLiveInv, [AugmentNext]_augmentVars
    PROVE  [Next]_vars /\ AugmentLiveInv'
<1>1. AugmentInv' /\ dump' = dump
  BY AugmentStep DEF AugmentLiveInv, AugmentNext, augmentVars, ReadMaps, ReadModules,
     InjectStack, StacksDone, InjectLinkMap, InjectDynamic, GoTo
<1>2. [Next]_vars /\ RegionsRead' /\ Injected'
  <2>1. CASE UNCHANGED augmentVars
    <3>1. /\ UNCHANGED vars /\ imported' = imported /\ captured' = captured
          /\ dump' = dump /\ stage' = stage /\ turn' = turn /\ patched' = patched
      BY <2>1 DEF augmentVars, vars
    <3>2. RegionsRead'
      BY <3>1 DEF AugmentLiveInv, RegionsRead
    <3>3. /\ StacksBefore(turn)' = StacksBefore(turn) /\ dso' = dso
          /\ EntryToPatch' = EntryToPatch
      BY <3>1 DEF StacksBefore, EntryToPatch, dso
    <3>4. Injected'
      BY <3>1, <3>3 DEF AugmentLiveInv, Injected
    <3> QED
      BY <3>1, <3>2, <3>4
  <2> QED
    BY <2>1, ReadMapsLive, ReadModulesLive, StacksLive, StacksDoneLive, LinkMapLive,
       DynamicLive DEF AugmentNext
<1>3. LiveInv'
  BY <1>2, LiveStep DEF AugmentLiveInv
<1>4. LiveDump(dump)'
  BY <1>1 DEF AugmentLiveInv
<1> QED
  BY <1>1, <1>2, <1>3, <1>4 DEF AugmentLiveInv

\* Throughout the augmentation of a live process the captured blobs are exactly
\* those that the stages so far inject, and the table was read region by region.
THEOREM AugmentLiveInvariant == AugmentSpec /\ LiveDump(dump) => []AugmentLiveInv
<1>1. AugmentInit /\ LiveDump(dump) => AugmentLiveInv
  BY AugmentLiveInit
<1>2. AugmentLiveInv /\ [AugmentNext]_augmentVars => AugmentLiveInv'
  BY AugmentLiveStep
<1> QED
  BY <1>1, <1>2, PTL DEF AugmentSpec

\* What Spec assumes of the calls follows from the dump alone: the readers and
\* augment_process make, in their order, calls on live regions and live captures
\* and stop at nothing.  The pipeline implements the live table.
THEOREM PipelineIsLive == AugmentSpec /\ LiveDump(dump) => UsesTableAsLive
<1>1. AugmentInit => Init
  BY DEF AugmentInit
<1>2. AugmentLiveInv /\ [AugmentNext]_augmentVars => [Next]_vars
  BY AugmentLiveStep
<1> QED
  BY <1>1, <1>2, AugmentLiveInvariant, PTL DEF AugmentSpec, UsesTableAsLive, Spec

\* Seen as memory, the augmentation of a live process's dump maps its regions and
\* dumps its blobs, and nothing else.
THEOREM AugmentMemoryImage == AugmentSpec /\ LiveDump(dump) => ImplementsMemoryImage
BY PipelineIsLive, LiveMemoryImage, PTL DEF UsesTableAsLive

LEMMA CapturedReadable ==
    ASSUME LiveInv, NEW c \in captured
    PROVE  Readable(c)
BY LiveBytesKept DEF CapturesKept, Readable

\* When the augmentation of a live process is done, every byte of every thread's
\* stack is in the segments at its address.
THEOREM AugmentStacks == AugmentSpec /\ LiveDump(dump) => []StacksInjected
<1>1. ASSUME AugmentLiveInv, stage = "done", NEW t \in 1..Len(dump.stacks)
      PROVE  Readable(StackBlob(dump, t))
  <2>1. dump \in Dumps /\ captured = Blobs(dump) /\ LiveInv
    BY <1>1 DEF AugmentLiveInv, AugmentInv, Injected
  <2>2. CASE dump.stacks[t].len > 0
    BY <2>1, <2>2, BlobsOfDump, CapturedReadable
  <2>3. CASE ~ (dump.stacks[t].len > 0)
    <3>1. dump.stacks[t].len = 0
      BY <2>1, <2>3, DumpTypes, SMT DEF Stack
    <3>2. StackBlob(dump, t).len = 0
      BY <3>1 DEF StackBlob
    <3>3. 0..(StackBlob(dump, t).len - 1) = {}
      BY <3>2, SMT
    <3> QED
      BY <3>3 DEF Readable
  <2> QED
    BY <2>2, <2>3
<1>2. AugmentLiveInv => StacksInjected
  BY <1>1 DEF StacksInjected
<1> QED
  BY <1>2, AugmentLiveInvariant, PTL

\* When it is done, the link map is readable at LINK_MAP_ADDR and the dynamic
\* section at its own address, and the entry rewritten in it is its first DT_DEBUG.
THEOREM AugmentLinkMap == AugmentSpec /\ LiveDump(dump) => []DebuggerFindsLinkMap
<1>1. ASSUME AugmentLiveInv, stage = "done", DsoKnown(dump)
      PROVE  /\ Readable(LinkMap(dump))
             /\ HasDynamic(dump) => Readable(DynamicData(dump)) /\ patched = EntryToPatch
  <2>1. /\ dump \in Dumps /\ captured = Blobs(dump) /\ LiveInv /\ dump.dso.blobLen # TooWide
        /\ HasDynamic(dump) => patched = EntryToPatch
    BY <1>1 DEF AugmentLiveInv, AugmentInv, Injected, dso
  <2> QED
    BY <1>1, <2>1, BlobsOfDump, CapturedReadable
<1>2. ASSUME AugmentLiveInv
      PROVE  DebuggerFindsLinkMap
  <2>1. dump \in Dumps
    BY <1>2 DEF AugmentLiveInv, AugmentInv
  <2>2. dso.links # 0 \/ DynamicLen(dump) # 0 => DsoKnown(dump)
    BY DEF DsoKnown, dso
  <2> QED
    BY <1>1, <1>2, <2>1, <2>2, EntryToPatchFirst DEF DebuggerFindsLinkMap
<1> QED
  BY <1>2, AugmentLiveInvariant, PTL

-----------------------------------------------------------------------------
(* The segments in key order.                                              *)

LEMMA KeyRank ==
    ASSUME NEW k \in Keys(mappings)
    PROVE  /\ Cardinality(Keys(mappings)) \in Nat /\ IsFiniteSet(Keys(mappings))
           /\ Rank(k) \in 1..Cardinality(Keys(mappings))
           /\ \A l \in Keys(mappings) : Rank(l) = Rank(k) => l = k
<1> DEFINE K == Keys(mappings)
           Upto(l) == {j \in K : j <= l}
<1>1. K \subseteq Addr /\ \A l \in K : l \in Int
  BY PageArithAssumption, SMT DEF Keys, Addr
<1>2. IsFiniteSet(K)
  <2>1. IsFiniteSet(Addr)
    BY FS_Interval, PageArithAssumption, SMT DEF Addr
  <2> QED
    BY <1>1, <2>1, FS_Subset
<1>3. ASSUME NEW l \in K
      PROVE  /\ Upto(l) \in SUBSET K /\ IsFiniteSet(Upto(l)) /\ l \in Upto(l)
             /\ Cardinality(Upto(l)) \in Nat /\ Cardinality(Upto(l)) # 0
             /\ Cardinality(Upto(l)) <= Cardinality(K)
  <2>1. Upto(l) \in SUBSET K /\ l \in Upto(l)
    BY <1>1
  <2> HIDE DEF Upto, K
  <2>2. IsFiniteSet(Upto(l)) /\ Cardinality(Upto(l)) <= Cardinality(K)
    BY <1>2, <2>1, FS_Subset
  <2> QED
    BY <2>1, <2>2, FS_CardinalityType, FS_EmptySet
<1>4. ASSUME NEW l \in K, NEW m \in K, Cardinality(Upto(l)) = Cardinality(Upto(m)), l <= m
      PROVE  l = m
  <2>1. Upto(l) \in SUBSET Upto(m)
    BY <1>1, <1>4, SMT
  <2>2. Upto(l) = Upto(m)
    <3> HIDE DEF Upto, K
    <3> QED
      BY <1>3, <1>4, <2>1, FS_Subset
  <2>3. m \in Upto(l)
    BY <1>3, <2>2
  <2> QED
    BY <1>1, <1>4, <2>3, SMT
<1>5. \A l \in K : Rank(l) = Cardinality(Upto(l))
  BY DEF Rank
<1>6. Cardinality(K) \in Nat
  BY <1>2, FS_CardinalityType
<1>7. Rank(k) \in 1..Cardinality(K)
  <2>1. k \in K
    OBVIOUS
  <2> HIDE DEF Upto, K
  <2> QED
    BY <1>3, <1>5, <1>6, <2>1, SMT
<1>8. ASSUME NEW l \in K, Rank(l) = Rank(k)
      PROVE  l = k
  <2>1. l <= k \/ k <= l
    BY <1>1, SMT
  <2>2. k \in K
    OBVIOUS
  <2> HIDE DEF Upto, K
  <2> QED
    BY <1>4, <1>5, <1>8, <2>1, <2>2
<1> QED
  BY <1>2, <1>6, <1>7, <1>8

\* SegmentKeys lists every key once.
LEMMA SegmentKeysFacts ==
    /\ Len(SegmentKeys) = Cardinality(Keys(mappings)) /\ Len(SegmentKeys) \in Nat
    /\ DOMAIN SegmentKeys = 1..Len(SegmentKeys)
    /\ \A i \in 1..Len(SegmentKeys) : SegmentKeys[i] \in Keys(mappings) /\ Rank(SegmentKeys[i]) = i
    /\ \A k \in Keys(mappings) : Rank(k) \in 1..Len(SegmentKeys) /\ SegmentKeys[Rank(k)] = k
<1> DEFINE K == Keys(mappings)
           N == Cardinality(K)
           rank == [k \in K |-> Rank(k)]
<1>1. IsFiniteSet(K) /\ N \in Nat
  <2>1. IsFiniteSet(Addr)
    BY FS_Interval, PageArithAssumption, SMT DEF Addr
  <2>2. IsFiniteSet(K)
    BY <2>1, FS_Subset DEF Keys
  <2> QED
    BY <2>2, FS_CardinalityType
<1>2. rank \in Injection(K, 1..N)
  <2>1. rank \in [K -> 1..N]
    BY KeyRank
  <2>2. \A a, b \in K : rank[a] = rank[b] => a = b
    BY KeyRank
  <2> HIDE DEF rank, N, K
  <2> QED
    BY <2>1, <2>2 DEF Injection, IsInjective
<1>3. rank \in Surjection(K, 1..N)
  <2>1. IsFiniteSet(1..N) /\ Cardinality(1..N) = N
    <3> HIDE DEF N
    <3> QED
      BY <1>1, FS_Interval, SMT
  <2> HIDE DEF rank, N, K
  <2>2. Cardinality(K) = Cardinality(1..N)
    BY <2>1 DEF N
  <2> QED
    BY <1>2, <2>1, <2>2, FS_Injection
<1>4. \A i \in 1..N : \E k \in K : Rank(k) = i
  BY <1>3 DEF Surjection
<1>5. SegmentKeys = [i \in 1..N |-> CHOOSE k \in K : Rank(k) = i]
  BY DEF SegmentKeys
<1>6. \A i \in 1..N : SegmentKeys[i] \in K /\ Rank(SegmentKeys[i]) = i
  BY <1>4, <1>5
<1>7. SegmentKeys \in [1..N -> K]
  BY <1>5, <1>6
<1>8. Len(SegmentKeys) = N
  <2> HIDE DEF N, K
  <2>1. SegmentKeys \in Seq(K)
    BY <1>1, <1>7, SeqDef
  <2> QED
    BY <1>1, <1>7, <2>1, LenProperties, SMT
<1>9. \A k \in K : Rank(k) \in 1..N /\ SegmentKeys[Rank(k)] = k
  BY <1>6, KeyRank
<1> QED
  BY <1>1, <1>5, <1>6, <1>8, <1>9

-----------------------------------------------------------------------------
(* What write_core is given.                                               *)

\* write_core's input, whose data starts on a page and fills pages.
CoreInputs ==
    {c \in W!Input : \A i \in 1..Len(c.segments) :
        c.segments[i].filesz > 0 =>
            c.segments[i].start % PageSize = 0 /\ c.segments[i].filesz % PageSize = 0}

P == INSTANCE CoreWriterProofs WITH Inputs <- CoreInputs

LEMMA WriterTakes == P!WriterAssumption /\ P!PageArithAssumption
<1>1. P!PageArithAssumption
  BY PageArithAssumption DEF P!PageArithAssumption
<1>2. W!Input = P!Input
  BY DEF W!Input, P!Input, W!Segment, P!Segment, W!Addr, P!Addr
<1>3. P!WriterAssumption
  BY <1>2, ConvertAssumption DEF P!WriterAssumption, CoreInputs
<1> QED
  BY <1>1, <1>3

LEMMA SameWriter == W!Next = P!Next
BY DEF W!Next, P!Next, W!ComputeLayout, P!ComputeLayout, W!SumData, P!SumData,
   W!WriteEhdr, P!WriteEhdr, W!WriteNotePhdr, P!WriteNotePhdr, W!WritePhdr, P!WritePhdr,
   W!RefusePhdr, P!RefusePhdr, W!WriteLoadPhdr, P!WriteLoadPhdr, W!WriteNotes, P!WriteNotes,
   W!WritePad, P!WritePad, W!WriteData, P!WriteData, W!Finish, P!Finish, W!WriteFails,
   P!WriteFails, W!Writing, P!Writing, W!EhdrSize, P!EhdrSize, W!PhdrSize, P!PhdrSize,
   W!Count, P!Count, W!Phnum, P!Phnum, W!PtNoteOffset, P!PtNoteOffset, W!PtNoteEnd,
   P!PtNoteEnd, W!NotePad, P!NotePad, W!LoadStart, P!LoadStart, W!EmptyOffset,
   P!EmptyOffset, W!Segment32Fits, P!Segment32Fits, W!NotePhdr, P!NotePhdr, W!LoadPhdr,
   P!LoadPhdr, W!WrapSub, P!WrapSub, W!BytesBeforeRefusal, P!BytesBeforeRefusal

\* The number of bytes of a mapping's data.
LEMMA DataLenNat ==
    ASSUME NEW d \in Data
    PROVE  DataLen(d) \in Nat
<1>1. d.prefix + d.len \in Nat
  BY PageArithAssumption, SMT DEF Data, Addr
<1>2. (PageSize - ((d.prefix + d.len) % PageSize)) \in Nat
  BY <1>1, ModRange, PageArithAssumption, SMT
<1>3. (PageSize - ((d.prefix + d.len) % PageSize)) % PageSize \in Nat
  BY <1>2, ModRange, SMT
<1> QED
  BY <1>1, <1>3, SMT DEF DataLen, PaddedLen

\* The table makes an input of it, whatever the calls that built the table.
LEMMA SegmentsPaged ==
    ASSUME TypeOK, DataOnPages, NEW class \in {1, 2}, NEW n \in Nat
    PROVE  /\ Segments \in Seq(P!Segment) /\ Len(Segments) = Len(SegmentKeys)
           /\ [class |-> class, noteLen |-> n, segments |-> Segments] \in CoreInputs
<1>1. ASSUME NEW i \in 1..Len(SegmentKeys)
      PROVE  /\ Segments[i] \in P!Segment
             /\ Segments[i].filesz > 0 =>
                   Segments[i].start % PageSize = 0 /\ Segments[i].filesz % PageSize = 0
  <2> DEFINE m == mappings[SegmentKeys[i]]
  <2>1. SegmentKeys[i] \in Keys(mappings)
    BY SegmentKeysFacts
  <2>2. m \in Mapping
    BY <2>1 DEF TypeOK, Keys
  <2>3. DataLen(m.data) \in Nat
    BY <2>2, DataLenNat DEF Mapping
  <2>4. Segments[i] = [start |-> m.start, end |-> m.end, filesz |-> DataLen(m.data)]
    BY SegmentKeysFacts DEF Segments
  <2>5. DataLen(m.data) > 0 => m.start % PageSize = 0 /\ DataLen(m.data) % PageSize = 0
    BY <2>1 DEF DataOnPages
  <2> HIDE DEF m
  <2>6. m.start \in Addr /\ m.end \in Addr
    BY <2>2 DEF Mapping
  <2>7. Segments[i] \in P!Segment
    BY <2>3, <2>4, <2>6 DEF P!Segment, P!Addr, Addr
  <2> QED
    BY <2>4, <2>5, <2>7
<1>2. Segments \in [1..Len(SegmentKeys) -> P!Segment]
  BY <1>1, SegmentKeysFacts DEF Segments
<1>3. Segments \in Seq(P!Segment) /\ Len(Segments) = Len(SegmentKeys)
  BY <1>2, SegmentKeysFacts, FunctionAsSeq
<1>4. [class |-> class, noteLen |-> n, segments |-> Segments] \in W!Input
  BY <1>3 DEF W!Input, W!Segment, P!Segment, W!Addr, P!Addr
<1> QED
  BY <1>1, <1>3, <1>4 DEF CoreInputs

-----------------------------------------------------------------------------
(* The program, on every dump.                                             *)

WriterTypes ==
    /\ core \in W!Input
    /\ phase \in {"closed", "notes", "layout", "sum", "note_phdr", "load_phdrs", "pad", "data",
                  "done", "failed"}
    /\ pos \in Nat /\ totalData \in Nat /\ loadOffset \in Nat /\ ehdr \in Nat
    /\ phdrs \in Seq(W!Phdr) /\ placed \in Seq(Nat) /\ sums \in Seq(Nat)
    /\ walk \in Nat \ {0}

\* Before write_core begins its variables are as CoreWriter!Init has them.
Unwritten ==
    /\ pos = 0 /\ totalData = 0 /\ loadOffset = 0 /\ ehdr = 0
    /\ phdrs = <<>> /\ placed = <<>> /\ walk = 1 /\ sums = <<0>>

\* While write_core runs, and after it, its invariant holds of the table.
Written ==
    /\ phase \in {"closed", "notes"} => Unwritten
    /\ phase \notin {"closed", "notes", "failed"} => P!WriterInv /\ core.segments = Segments

\* The output is opened when the process is augmented, and before anything is
\* written; success is told when all of it is.
Opened ==
    /\ phase # "closed" => stage = "done" /\ (sink = "file" => output = "new")
    /\ output = "new" => stage = "done" /\ sink = "file"
    /\ exit = "success" => phase = "done" /\ disk = pos

OutputTypes ==
    /\ sink \in {"file", "stdout"} /\ output \in {"old", "new"}
    /\ disk \in 0..pos
    /\ exit \in {"running", "success", "failure"}

PagedTable == AugmentInv /\ TypeOK /\ DataOnPages

ConvertInv == PagedTable /\ WriterTypes /\ Written /\ Opened /\ OutputTypes

LEMMA WriterInvTypes ==
    ASSUME P!WriterInv
    PROVE  WriterTypes
BY DEF P!WriterInv, P!TypeOK, CoreInputs, WriterTypes, W!Phdr, P!Phdr

LEMMA WriterInvTypesNext == P!WriterInv' => WriterTypes'
BY WriterInvTypes, PTL

LEMMA WriterStarts == P!Init' => P!WriterInv'
<1>1. P!Init => P!WriterInv
  BY P!WriterInit, WriterTakes
<1> QED
  BY <1>1, PTL

LEMMA TableKept ==
    ASSUME PagedTable, UNCHANGED augmentVars
    PROVE  PagedTable' /\ Segments' = Segments
<1>1. UNCHANGED vars /\ mappings' = mappings
  BY DEF augmentVars, vars
<1>2. AugmentInv'
  BY AugmentStep DEF PagedTable
<1>3. TypeOK' /\ DataOnPages'
  BY <1>1, TypeStep, DataOnPagesStep DEF PagedTable
<1>4. Segments' = Segments
  BY <1>1 DEF Segments, SegmentKeys, Rank
<1> QED
  BY <1>2, <1>3, <1>4 DEF PagedTable

\* Nothing but the part of the program before write_core changes.
LEMMA WriterKept ==
    ASSUME WriterTypes, Written, UNCHANGED writerVars, Segments' = Segments \/ phase = "closed"
    PROVE  WriterTypes' /\ Written'
<1>1. UNCHANGED <<core, phase, pos, totalData, loadOffset, ehdr, phdrs, walk, placed, sums>>
  BY DEF writerVars
<1>2. WriterTypes'
  BY <1>1 DEF WriterTypes
<1>3. Unwritten => Unwritten'
  BY <1>1 DEF Unwritten
<1>4. P!WriterInv => P!WriterInv'
  <2>1. UNCHANGED P!vars
    BY <1>1 DEF P!vars
  <2>2. P!WriterInv /\ [P!Next]_(P!vars) => P!WriterInv'
    BY P!WriterStep, WriterTakes
  <2> QED
    BY <2>1, <2>2
<1> QED
  BY <1>1, <1>2, <1>3, <1>4 DEF Written

LEMMA ConvertStarts == ConvertInit => ConvertInv
<1> SUFFICES ASSUME ConvertInit
             PROVE  ConvertInv
  OBVIOUS
<1>1. PagedTable
  BY AugmentInitInv, TypeInit DEF ConvertInit, AugmentInit, Init, PagedTable, DataOnPages, Keys
<1>2. core \in W!Input
  BY EmptySeq DEF ConvertInit, W!Input
<1>3. phdrs \in Seq(W!Phdr) /\ placed \in Seq(Nat)
  BY EmptySeq DEF ConvertInit
<1>4. sums \in Seq(Nat)
  BY DEF ConvertInit
<1> QED
  BY <1>1, <1>2, <1>3, <1>4 DEF ConvertInit, ConvertInv, WriterTypes, Written, Unwritten, Opened,
     OutputTypes

LEMMA ProcessStep ==
    ASSUME ConvertInv, exit = "running", Process
    PROVE  ConvertInv'
<1> USE DEF ConvertInv
<1>1. /\ stage \notin {"done", "failed"} /\ UNCHANGED <<writerVars, sink, output, disk, exit>>
      /\ pos' = pos /\ phase' = phase
  BY DEF Process, writerVars
<1>2. phase = "closed" /\ output # "new"
  BY <1>1 DEF Opened
<1>3. PagedTable'
  <2>1. CASE AugmentNext
    <3>1. AugmentInv' /\ [LibraryNext]_vars
      BY <2>1, AugmentStep, AugmentCallsLibrary DEF PagedTable
    <3> QED
      BY <3>1, TypeStep, DataOnPagesStep DEF PagedTable
  <2>2. CASE stage' = "failed" /\ UNCHANGED <<tableVars, dump, turn, patched>>
    <3>1. UNCHANGED vars /\ dump' = dump /\ turn' = turn /\ patched' = patched
      BY <2>2 DEF tableVars, vars
    <3>2. TypeOK' /\ DataOnPages'
      BY <3>1, TypeStep, DataOnPagesStep DEF PagedTable
    <3>3. AugmentInv'
      BY <2>2, <3>1 DEF PagedTable, AugmentInv, StagesOK, dso
    <3> QED
      BY <3>2, <3>3 DEF PagedTable
  <2> QED
    BY <2>1, <2>2 DEF Process
<1>4. WriterTypes' /\ Written'
  BY <1>1, <1>2, WriterKept
<1>5. Opened' /\ OutputTypes'
  BY <1>1, <1>2 DEF Opened, OutputTypes
<1> QED
  BY <1>3, <1>4, <1>5

LEMMA RefuseStep ==
    ASSUME ConvertInv, exit = "running", Refuse
    PROVE  ConvertInv'
<1>1. UNCHANGED augmentVars /\ UNCHANGED writerVars /\ UNCHANGED <<sink, output, disk>>
      /\ stage' = stage /\ pos' = pos /\ phase' = phase /\ exit' = "failure"
  BY DEF Refuse, augmentVars, writerVars
<1>2. PagedTable' /\ Segments' = Segments
  BY <1>1, TableKept DEF ConvertInv
<1>3. WriterTypes' /\ Written'
  BY <1>1, <1>2, WriterKept DEF ConvertInv
<1> QED
  BY <1>1, <1>2, <1>3 DEF ConvertInv, Opened, OutputTypes

LEMMA OpenStep ==
    ASSUME ConvertInv, exit = "running", OpenOutput
    PROVE  ConvertInv'
<1> USE DEF ConvertInv
<1>1. /\ UNCHANGED augmentVars /\ stage' = stage /\ stage = "done" /\ phase = "closed"
      /\ UNCHANGED <<core, pos, totalData, loadOffset, ehdr, phdrs, walk, placed, sums, sink, disk>>
  BY DEF OpenOutput, augmentVars
<1>2. PagedTable'
  BY <1>1, TableKept
<1>3. Unwritten'
  BY <1>1 DEF Written, Unwritten
<1>4. CASE phase' = "notes" /\ output' = (IF sink = "file" THEN "new" ELSE output) /\ exit' = exit
  BY <1>1, <1>2, <1>3, <1>4 DEF WriterTypes, Written, Opened, OutputTypes
<1>5. CASE exit' = "failure" /\ phase' = phase /\ output' = output
  BY <1>1, <1>2, <1>3, <1>5 DEF WriterTypes, Written, Opened, OutputTypes
<1> QED
  BY <1>4, <1>5 DEF OpenOutput

LEMMA NotesBuilt ==
    ASSUME ConvertInv, exit = "running", BuildNotes
    PROVE  ConvertInv'
<1> USE DEF ConvertInv
<1>1. /\ UNCHANGED augmentVars /\ stage' = stage /\ phase = "notes"
      /\ UNCHANGED <<pos, totalData, loadOffset, ehdr, phdrs, walk, placed, sums,
                     sink, output, disk, exit>>
  BY DEF BuildNotes, augmentVars
<1>2. PagedTable' /\ Segments' = Segments
  BY <1>1, TableKept
<1>3. Opened' /\ OutputTypes'
  <2>1. phase' # "closed"
    BY DEF BuildNotes
  <2> QED
    BY <1>1, <2>1 DEF Opened, OutputTypes
<1>4. CASE /\ \E k \in {1, 2}, n \in NoteLens :
                 core' = [class |-> k, noteLen |-> n, segments |-> Segments]
           /\ phase' = "layout"
  <2>1. core' \in CoreInputs /\ core'.segments = Segments
    BY <1>4, SegmentsPaged, ConvertAssumption DEF PagedTable
  <2>2. P!Init'
    BY <1>1, <1>4, <2>1 DEF Written, Unwritten, P!Init
  <2>3. P!WriterInv' /\ WriterTypes'
    BY <2>2, WriterStarts, WriterInvTypesNext
  <2> QED
    BY <1>2, <1>3, <1>4, <2>1, <2>3 DEF Written
<1>5. CASE phase' = "failed" /\ core' = core
  BY <1>1, <1>2, <1>3, <1>5 DEF WriterTypes, Written
<1> QED
  BY <1>4, <1>5 DEF BuildNotes

LEMMA WriteStep ==
    ASSUME ConvertInv, exit = "running", Write
    PROVE  ConvertInv'
<1> USE DEF ConvertInv
<1>1. /\ P!Next /\ UNCHANGED augmentVars /\ stage' = stage
      /\ disk' \in {disk, pos, pos'} /\ UNCHANGED <<sink, output, exit>>
  BY SameWriter DEF Write, augmentVars
<1>2. phase \notin {"closed", "notes", "failed"} /\ phase' \notin {"closed", "notes"}
  BY <1>1 DEF P!Next, P!ComputeLayout, P!SumData, P!WriteEhdr, P!WriteNotePhdr, P!RefusePhdr,
     P!WriteLoadPhdr, P!WriteNotes, P!WritePad, P!WriteData, P!Finish, P!WriteFails, P!Writing
<1>3. P!WriterInv /\ core.segments = Segments
  BY <1>2 DEF Written
<1>4. core' = core /\ pos \in Nat /\ pos <= pos'
  BY <1>1, <1>3, P!WriterMoves, WriterTakes
<1>5. P!WriterInv'
  <2>1. P!WriterInv /\ [P!Next]_(P!vars) => P!WriterInv'
    BY P!WriterStep, WriterTakes
  <2> QED
    BY <1>1, <1>3, <2>1
<1>6. PagedTable' /\ Segments' = Segments
  BY <1>1, TableKept
<1>7. WriterTypes'
  BY <1>5, WriterInvTypesNext
<1>8. disk' \in 0..pos'
  BY <1>1, <1>4, <1>7, SMT DEF OutputTypes, WriterTypes
<1>9. Opened' /\ OutputTypes'
  BY <1>1, <1>2, <1>8 DEF Opened, OutputTypes
<1> QED
  BY <1>2, <1>3, <1>4, <1>5, <1>6, <1>7, <1>9 DEF Written

LEMMA EndStep ==
    ASSUME ConvertInv, exit = "running", Abandon \/ Flush
    PROVE  ConvertInv'
<1> USE DEF ConvertInv
<1>1. /\ UNCHANGED augmentVars /\ UNCHANGED writerVars /\ UNCHANGED <<sink, output>>
      /\ stage' = stage /\ pos' = pos /\ phase' = phase
      /\ disk' \in {disk, pos} /\ exit' \in {"success", "failure"}
      /\ exit' = "success" => phase = "done" /\ disk' = pos
  BY DEF Abandon, Flush, augmentVars, writerVars
<1>2. PagedTable' /\ Segments' = Segments
  BY <1>1, TableKept
<1>3. WriterTypes' /\ Written'
  BY <1>1, <1>2, WriterKept
<1>4. disk' \in 0..pos'
  BY <1>1, SMT DEF OutputTypes, WriterTypes
<1>5. Opened' /\ OutputTypes'
  BY <1>1, <1>4 DEF Opened, OutputTypes
<1> QED
  BY <1>2, <1>3, <1>5

LEMMA ConvertStep ==
    ASSUME ConvertInv, [ConvertNext]_convertVars
    PROVE  ConvertInv'
<1>1. CASE UNCHANGED convertVars
  <2>1. /\ UNCHANGED augmentVars /\ UNCHANGED writerVars /\ UNCHANGED <<sink, output, disk, exit>>
        /\ stage' = stage /\ pos' = pos /\ phase' = phase
    BY <1>1 DEF convertVars, augmentVars, writerVars
  <2>2. PagedTable' /\ Segments' = Segments
    BY <2>1, TableKept DEF ConvertInv
  <2>3. WriterTypes' /\ Written'
    BY <2>1, <2>2, WriterKept DEF ConvertInv
  <2> QED
    BY <2>1, <2>2, <2>3 DEF ConvertInv, Opened, OutputTypes
<1> QED
  BY <1>1, ProcessStep, RefuseStep, OpenStep, NotesBuilt, WriteStep, EndStep DEF ConvertNext

LEMMA InvTypes == ConvertInv => ConvertTypeOK
<1>1. AugmentInv /\ TypeOK => AugmentTypeOK
  BY DEF AugmentInv, StagesOK, AugmentTypeOK
<1> QED
  BY <1>1 DEF ConvertInv, PagedTable, WriterTypes, OutputTypes, ConvertTypeOK

\* The invariant of the whole program, on every dump: write_core starts from the
\* variables its specification starts from and its invariant holds of the table the
\* augmentation left; nothing is opened before that is complete, and a success is
\* told only when everything has left the buffer.
THEOREM ConvertInvariant == ConvertSpec => []ConvertInv
<1>1. ConvertInv /\ [ConvertNext]_convertVars => ConvertInv'
  BY ConvertStep
<1> QED
  BY <1>1, ConvertStarts, PTL DEF ConvertSpec

\* The state of the program keeps its types on every dump, and never more bytes
\* have left the buffer than write_core wrote.
THEOREM ConvertTypes == ConvertSpec => []ConvertTypeOK
BY ConvertInvariant, InvTypes, PTL

\* On every dump: success means that the whole core, as far as its headers reach,
\* is in the output; an earlier core is lost only to a run that could read and
\* augment the minidump.
THEOREM ConvertExit == ConvertSpec => []ExitTellsOutput
<1>1. ASSUME ConvertInv, exit = "success"
      PROVE  /\ disk = pos /\ (sink = "file" => output = "new")
             /\ \A n \in 1..Len(phdrs) :
                   phdrs[n].filesz > 0 => phdrs[n].offset + phdrs[n].filesz <= disk
  <2>1. phase = "done" /\ disk = pos /\ (sink = "file" => output = "new")
    BY <1>1 DEF ConvertInv, Opened
  <2>2. P!WriterInv
    BY <1>1, <2>1 DEF ConvertInv, Written
  <2> QED
    BY <2>1, <2>2, P!HeadersReach, WriterTakes
<1>2. ConvertInv => ExitTellsOutput
  BY <1>1 DEF ConvertInv, Opened, ExitTellsOutput
<1> QED
  BY <1>2, ConvertInvariant, PTL

-----------------------------------------------------------------------------
(* The program, on the dump of a live process.                             *)

ConvertLiveInv == ConvertInv /\ AugmentLiveInv

LEMMA ConvertLiveStep ==
    ASSUME ConvertLiveInv, [ConvertNext]_convertVars
    PROVE  ConvertLiveInv'
<1> USE DEF ConvertLiveInv
<1>1. ConvertInv'
  BY ConvertStep
<1>2. CASE [AugmentNext]_augmentVars
  BY <1>1, <1>2, AugmentLiveStep
<1>3. CASE stage' = "failed" /\ UNCHANGED <<tableVars, dump, turn, patched>>
  <2>1. UNCHANGED vars /\ imported' = imported /\ dump' = dump
    BY <1>3 DEF tableVars, vars
  <2>2. LiveInv'
    BY <2>1, LiveStep DEF AugmentLiveInv
  <2>3. AugmentInv'
    BY <1>1 DEF ConvertInv, PagedTable
  <2>4. RegionsRead' /\ Injected' /\ LiveDump(dump)'
    BY <1>3, <2>1 DEF AugmentLiveInv, RegionsRead, Injected
  <2> QED
    BY <1>1, <2>2, <2>3, <2>4 DEF AugmentLiveInv
<1>4. [AugmentNext]_augmentVars \/ (stage' = "failed" /\ UNCHANGED <<tableVars, dump, turn, patched>>)
  BY DEF ConvertNext, convertVars, Process, Refuse, OpenOutput, BuildNotes, Write, Abandon, Flush
<1> QED
  BY <1>2, <1>3, <1>4

\* A captured byte's place in the core is where exactly one program header says.
LEMMA ByteInCore ==
    ASSUME ConvertLiveInv, exit = "success", NEW c \in captured, NEW i \in 0..(c.len - 1)
    PROVE  LET a    == c.addr + i
               hits == {n \in 2..Len(phdrs) :
                          phdrs[n].vaddr <= a /\ a < phdrs[n].vaddr + phdrs[n].filesz}
           IN  /\ hits # {}
               /\ \A n \in hits :
                     LET p == phdrs[n].offset + (a - phdrs[n].vaddr)
                     IN  p < disk /\ CoreByte(p) = <<c.src, i>>
<1> DEFINE a == c.addr + i
           k == PageStart(c)
           n == Rank(k) + 1
           N == Len(core.segments)
           Hit(q) == phdrs[q].vaddr <= a /\ a < phdrs[q].vaddr + phdrs[q].filesz
<1>1. /\ phase = "done" /\ disk = pos /\ P!WriterInv /\ core.segments = Segments
      /\ LiveInv /\ TypeOK /\ DataOnPages
  <2>1. ConvertInv /\ LiveInv
    BY DEF ConvertLiveInv, AugmentLiveInv
  <2>2. phase = "done" /\ disk = pos
    BY <2>1 DEF ConvertInv, Opened
  <2> QED
    BY <2>1, <2>2 DEF ConvertInv, Written, PagedTable
<1>2. /\ k \in Keys(mappings) /\ k \in Nat /\ mappings[k].start = k
      /\ Contains(mappings[k], a) /\ ByteOf(mappings[k], a) = <<c.src, i>>
      /\ a - k \in 0..(DataLen(mappings[k].data) - 1)
  BY <1>1, BlobByte
<1>3. a \in Nat
  <2>1. c \in Captures
    BY <1>1 DEF TypeOK
  <2> QED
    BY <2>1, TableAssumption, PageArithAssumption, SMT DEF Capture, Addr
<1>4. /\ N = Len(SegmentKeys) /\ N \in Nat
      /\ Rank(k) \in 1..N /\ SegmentKeys[Rank(k)] = k
      /\ \A j \in 1..N : SegmentKeys[j] \in Keys(mappings) /\ Rank(SegmentKeys[j]) = j
  <2>1. Len(Segments) = Len(SegmentKeys)
    BY <1>1, SegmentsPaged
  <2> QED
    BY <1>1, <1>2, <2>1, SegmentKeysFacts
<1>5. ASSUME NEW j \in 1..N
      PROVE  /\ core.segments[j].start = SegmentKeys[j]
             /\ mappings[SegmentKeys[j]].start = SegmentKeys[j]
             /\ core.segments[j].filesz = DataLen(mappings[SegmentKeys[j]].data)
             /\ SegmentKeys[j] \in Nat /\ mappings[SegmentKeys[j]].end \in Nat
             /\ core.segments[j].filesz \in Nat
             /\ SegmentKeys[j] + core.segments[j].filesz <= mappings[SegmentKeys[j]].end
  <2> DEFINE l == SegmentKeys[j]
  <2>1. l \in Keys(mappings)
    BY <1>4
  <2>2. /\ mappings[l].start = l /\ l \in Nat /\ mappings[l].end \in Nat /\ mappings[l] \in Mapping
        /\ DataLen(mappings[l].data) <= mappings[l].end - mappings[l].start
    BY <1>1, <2>1, EntryFacts, LiveDataFits DEF SegmentFits
  <2>3. DataLen(mappings[l].data) \in Nat
    BY <2>2, DataLenNat DEF Mapping
  <2>4. core.segments[j] = [start |-> mappings[l].start, end |-> mappings[l].end,
                            filesz |-> DataLen(mappings[l].data)]
    BY <1>1, <1>4, SegmentKeysFacts DEF Segments
  <2> HIDE DEF l
  <2>5. l + DataLen(mappings[l].data) <= mappings[l].end
    BY <2>2, <2>3, SMT
  <2> QED
    BY <2>2, <2>3, <2>4, <2>5 DEF l
<1>6. ASSUME NEW j \in 1..N
      PROVE  /\ Len(phdrs) = N + 1
             /\ phdrs[j + 1].vaddr = core.segments[j].start
             /\ phdrs[j + 1].filesz = core.segments[j].filesz
             /\ placed[j + 1] \in Nat
             /\ core.segments[j].filesz > 0 => phdrs[j + 1].offset = placed[j + 1]
             /\ \A l \in 1..N : j < l =>
                   placed[l + 1] \in Nat
                   /\ placed[j + 1] + core.segments[j].filesz <= placed[l + 1]
  BY <1>1, <1>6, P!DataPlaces, WriterTakes DEF P!Count

<1> DEFINE r == Rank(k)
           fs == core.segments[r].filesz
<1>7. /\ r \in 1..N /\ r \in Nat /\ core.segments[r].start = k /\ fs = DataLen(mappings[k].data)
      /\ phdrs[r + 1].vaddr = k /\ phdrs[r + 1].filesz = fs /\ Len(phdrs) = N + 1
      /\ placed[r + 1] \in Nat /\ fs \in Nat /\ fs > 0 /\ phdrs[r + 1].offset = placed[r + 1]
      /\ a - k \in 0..(fs - 1)
  <2>1. r \in 1..N /\ r \in Nat /\ SegmentKeys[r] = k
    BY <1>4, SMT
  <2>2. /\ core.segments[r].start = k /\ fs = DataLen(mappings[k].data) /\ fs \in Nat
        /\ Len(phdrs) = N + 1 /\ phdrs[r + 1].vaddr = core.segments[r].start
        /\ phdrs[r + 1].filesz = fs /\ placed[r + 1] \in Nat
        /\ fs > 0 => phdrs[r + 1].offset = placed[r + 1]
    BY <1>5, <1>6, <2>1
  <2>3. a - k \in 0..(fs - 1) /\ a - k \in Int
    BY <1>2, <1>3, <2>2, SMT
  <2> HIDE DEF fs, r, k, a, N
  <2>4. fs > 0
    BY <2>2, <2>3, SMT
  <2> QED
    BY <2>1, <2>2, <2>3, <2>4
<1>8. Hit(r + 1) /\ r + 1 \in 2..Len(phdrs)
  <2> HIDE DEF fs, r, k, a, N
  <2> QED
    BY <1>2, <1>3, <1>4, <1>7, SMT
\* Two segments do not both reach a.
<1>9. ASSUME NEW q \in 2..Len(phdrs), Hit(q)
      PROVE  q = r + 1
  <2> DEFINE j == q - 1
             l == SegmentKeys[j]
  <2>1. j \in 1..N /\ j + 1 = q
    <3> HIDE DEF fs, r, k, a, N
    <3> QED
      BY <1>4, <1>7, SMT
  <2>2. /\ phdrs[q].vaddr = l /\ phdrs[q].filesz = core.segments[j].filesz
        /\ l \in Keys(mappings) /\ Rank(l) = j
        /\ mappings[l].start = l /\ l \in Nat /\ mappings[l].end \in Nat
        /\ core.segments[j].filesz \in Nat
        /\ l + core.segments[j].filesz <= mappings[l].end
    BY <1>4, <1>5, <1>6, <2>1
  <2>3. l <= a /\ a < mappings[l].end
    <3> HIDE DEF fs, r, k, a, N, j, l
    <3> QED
      BY <1>3, <1>9, <2>2, SMT
  <2>4. l # k => Apart(mappings[l], mappings[k])
    BY <1>1, <1>2, <2>2, EntryFacts
  <2>5. mappings[k].end \in Nat
    BY <1>1, <1>2, EntryFacts
  <2>6. l = k
    <3> HIDE DEF fs, r, k, a, N, j, l
    <3> QED
      BY <1>2, <1>3, <2>2, <2>3, <2>4, <2>5, SMT DEF Apart, Contains
  <2> QED
    BY <2>1, <2>2, <2>6
<1> DEFINE p == placed[r + 1] + (a - k)
           js == {j \in 1..N : placed[j + 1] <= p /\ p < placed[j + 1] + core.segments[j].filesz}
<1>10. p \in Nat /\ placed[r + 1] <= p /\ p < placed[r + 1] + fs /\ k + (p - placed[r + 1]) = a
  <2> HIDE DEF fs, r, k, a, N
  <2> QED
    BY <1>2, <1>3, <1>7, SMT
<1>11. p < disk
  <2>1. phdrs[r + 1].offset + phdrs[r + 1].filesz <= pos
    <3>1. r + 1 \in 1..Len(phdrs) /\ phdrs[r + 1].filesz > 0
      <4> HIDE DEF fs, r, k, a, N
      <4> QED
        BY <1>4, <1>7, SMT
    <3> HIDE DEF fs, r, k, a, N
    <3> QED
      BY <1>1, <3>1, P!HeadersReach, WriterTakes
  <2>2. pos \in Nat
    BY <1>1 DEF P!WriterInv, P!TypeOK
  <2> HIDE DEF fs, r, k, a, N, p
  <2> QED
    BY <1>1, <1>7, <1>10, <2>1, <2>2, SMT
\* Nor do two segments share a byte of the file.
<1>12. js = {r}
  <2>1. r \in js
    BY <1>7, <1>10
  <2>2. ASSUME NEW j \in js
        PROVE  j = r
    <3>1. /\ j \in 1..N /\ placed[j + 1] <= p /\ p < placed[j + 1] + core.segments[j].filesz
          /\ placed[j + 1] \in Nat /\ core.segments[j].filesz \in Nat
      BY <1>5, <1>6
    <3>2. j < r => placed[j + 1] + core.segments[j].filesz <= placed[r + 1]
      BY <1>6, <1>7, <3>1
    <3>3. r < j => placed[r + 1] + fs <= placed[j + 1]
      BY <1>6, <1>7, <3>1
    <3> HIDE DEF fs, r, k, a, N, p, js
    <3>4. /\ placed[r + 1] \in Nat /\ fs \in Nat /\ p \in Nat
          /\ placed[r + 1] <= p /\ p < placed[r + 1] + fs
      BY <1>7, <1>10
    <3>5. /\ placed[j + 1] + core.segments[j].filesz \in Nat /\ placed[r + 1] + fs \in Nat
      BY <3>1, <3>4, SMT
    <3>6. ~ (j < r)
      BY <3>1, <3>2, <3>4, <3>5, SMT
    <3>7. ~ (r < j)
      BY <3>1, <3>3, <3>4, <3>5, SMT
    <3>8. r \in Nat /\ j \in Int
      BY <1>7, <3>1
    <3> QED
      BY <3>6, <3>7, <3>8, SMT
  <2> HIDE DEF js
  <2> QED
    BY <2>1, <2>2
<1>13. CoreByte(p) = <<c.src, i>>
  <2>1. js # {} /\ (CHOOSE j \in js : TRUE) = r
    <3> HIDE DEF js, r
    <3> QED
      BY <1>12
  <2>2. SegmentKeys[r] = k
    BY <1>4
  <2>3. CoreByte(p) = ByteOf(mappings[k], mappings[k].start + (p - placed[r + 1]))
    <3> HIDE DEF p, r, k
    <3> QED
      BY <2>1, <2>2 DEF CoreByte
  <2>4. mappings[k].start + (p - placed[r + 1]) = a
    BY <1>2, <1>10
  <2> HIDE DEF p, r, k, a
  <2> QED
    BY <1>2, <2>3, <2>4
<1>14. phdrs[r + 1].offset + (a - phdrs[r + 1].vaddr) = p
  BY <1>7
<1> HIDE DEF p, js, r, fs, k, a, N
<1> QED
  BY <1>8, <1>9, <1>11, <1>13, <1>14 DEF a

\* What the program is for.  Whatever the dump of a live process, its splits and the
\* paddings and offsets of the writer, a successful run leaves a core in which the
\* program headers lead to every captured byte, and to that byte only.
THEOREM ConvertCore == ConvertSpec /\ LiveDump(dump) => []CapturedBytesInCore
<1>1. ConvertInit /\ LiveDump(dump) => ConvertLiveInv
  BY ConvertStarts, AugmentLiveInit DEF ConvertInit, ConvertLiveInv
<1>2. ConvertLiveInv /\ [ConvertNext]_convertVars => ConvertLiveInv'
  BY ConvertLiveStep
<1>3. ConvertLiveInv => CapturedBytesInCore
  BY ByteInCore DEF CapturedBytesInCore
<1> QED
  BY <1>1, <1>2, <1>3, PTL DEF ConvertSpec

=============================================================================
