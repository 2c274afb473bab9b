------------------------------- MODULE Augment -------------------------------
(***************************************************************************)
(* augment_process (src/src/augment.rs) on the table the readers built:    *)
(* every thread's stack is injected, then the rebuilt link map at the      *)
(* fixed LINK_MAP_ADDR, then the dynamic section of the executable, whose  *)
(* DT_DEBUG entry is made to point at that link map.  A debugger follows   *)
(* the same path backwards: dynamic section, DT_DEBUG, r_debug, link map.  *)
(***************************************************************************)
EXTENDS MappingTable, Sequences

CONSTANTS
    Dumps,          \* what the readers collected from a minidump
    LinkMapAddr,    \* LINK_MAP_ADDR, 4096
    EntrySize,      \* bytes of one dynamic entry
    StackOf(_),     \* the source of thread t's stack bytes
    LinkMapBlob,    \* the source of the bytes of build_link_map_blob
    DynamicBlob,    \* the source of the bytes of the patched dynamic section
    TooWide         \* build_link_map_blob fails: a word exceeds 32 bits

VARIABLES
    dump,           \* the process the readers collected
    stage,          \* the part of the pipeline that runs
    turn,           \* the position in the loop of that part
    patched         \* the dynamic entry patch_dt_debug rewrote, 0 if none

augmentVars == <<vars, dump, stage, turn, patched>>
tableVars   == <<mappings, status, imported, captured>>

\* dso.tags are the tags of the whole entries in dynamic_data, dso.rest the bytes
\* behind them; dso.blobLen is the length of what build_link_map_blob returns.
Dso == [version : Nat, links : Nat, blobLen : Nat \cup {TooWide},
        dynamic : Addr, tags : Seq({"DT_DEBUG", "DT_NULL", "DT_OTHER"}),
        rest : 0..(EntrySize - 1)]
Stack == [addr : Addr, len : Nat]
Dump == [maps : Seq(Imports), modules : Seq(Imports), stacks : Seq(Stack), dso : Dso]

-----------------------------------------------------------------------------
\* There is debug data to rebuild a link map from, and a dynamic section to inject.
DynamicLen(d) == EntrySize * Len(d.dso.tags) + d.dso.rest
DsoKnown(d)   == d.dso.version # 0 \/ d.dso.links # 0 \/ DynamicLen(d) # 0
HasDynamic(d) == DynamicLen(d) # 0 /\ d.dso.dynamic # 0

StackBlob(d, t) == [src |-> StackOf(t), addr |-> d.stacks[t].addr, len |-> d.stacks[t].len]
LinkMap(d)      == [src |-> LinkMapBlob, addr |-> LinkMapAddr, len |-> d.dso.blobLen]
DynamicData(d)  == [src |-> DynamicBlob, addr |-> d.dso.dynamic, len |-> DynamicLen(d)]

\* The blobs that dump d asks to inject.
StackBlobs(d) ==
    {StackBlob(d, t) : t \in {u \in 1..Len(d.stacks) : d.stacks[u].len > 0}}
Blobs(d) ==
    StackBlobs(d) \cup
    (IF DsoKnown(d) /\ d.dso.blobLen # TooWide
     THEN {LinkMap(d)} \cup (IF HasDynamic(d) THEN {DynamicData(d)} ELSE {})
     ELSE {})

\* The name of a source tells its bytes from those of every other.
ASSUME AugmentAssumption ==
    /\ Dumps \subseteq Dump
    /\ LinkMapAddr \in Addr /\ LinkMapAddr % PageSize = 0
    /\ EntrySize \in Nat \ {0}
    /\ LinkMapBlob # DynamicBlob
    /\ \A d \in Dumps :
          /\ Blobs(d) \subseteq Captures
          /\ \A t \in 1..Len(d.stacks) :
                /\ StackOf(t) \notin {LinkMapBlob, DynamicBlob}
                /\ \A u \in 1..Len(d.stacks) : StackOf(t) = StackOf(u) => t = u

dso == dump.dso

\* patch_dt_debug: the first DT_DEBUG, unless a DT_NULL ends the section before it.
EntryToPatchAny ==
    LET hits == {i \in 1..Len(dso.tags) : dso.tags[i] = "DT_DEBUG"}
    IN  IF hits = {} THEN 0 ELSE CHOOSE i \in hits : \A j \in hits : j <= i
EntryToPatchNext ==
    LET stops == {i \in 1..Len(dso.tags) : dso.tags[i] \in {"DT_DEBUG", "DT_NULL"}}
        first == CHOOSE i \in stops : \A j \in stops : i <= j
    IN  IF stops # {} /\ dso.tags[first] = "DT_DEBUG" THEN first + 1 ELSE 0
EntryToPatch ==
    LET stops == {i \in 1..Len(dso.tags) : dso.tags[i] \in {"DT_DEBUG", "DT_NULL"}}
        first == CHOOSE i \in stops : \A j \in stops : i <= j
    IN  IF stops # {} /\ dso.tags[first] = "DT_DEBUG" THEN first ELSE 0

-----------------------------------------------------------------------------
AugmentInit ==
    /\ Init
    /\ dump \in Dumps
    /\ stage = "maps" /\ turn = 1 /\ patched = 0

\* The loop of stage s is over, and stage s2 begins.
GoTo(s2) == stage' = s2 /\ turn' = 1 /\ UNCHANGED <<dump, patched>>

\* The loops over the maps streams and the module list, for those lines and
\* modules that make a mapping.
ReadMaps ==
    /\ stage = "maps"
    /\ \/ /\ turn <= Len(dump.maps)
          /\ InsertMapping(dump.maps[turn])
          /\ turn' = turn + 1
          /\ UNCHANGED <<dump, stage, patched>>
       \/ turn > Len(dump.maps) /\ GoTo("modules") /\ UNCHANGED tableVars

ReadModules ==
    /\ stage = "modules"
    /\ \/ /\ turn <= Len(dump.modules)
          /\ InsertMappingIfAbsent(dump.modules[turn])
          /\ turn' = turn + 1
          /\ UNCHANGED <<dump, stage, patched>>
       \/ turn > Len(dump.modules) /\ GoTo("stacks") /\ UNCHANGED tableVars

\* add_data_to_mapping(..)?: an error or a panic ends the augmentation.
Continue(s) == stage' = IF status' = "ok" THEN s ELSE "failed"

InjectStackEmpty ==
    /\ stage = "stacks" /\ turn <= Len(dump.stacks)
    /\ AddDataToMapping(StackBlob(dump, turn))
    /\ Continue("stacks")
    /\ turn' = turn + 1
    /\ UNCHANGED <<dump, patched>>
InjectStack ==
    /\ stage = "stacks" /\ turn <= Len(dump.stacks)
    /\ \/ /\ dump.stacks[turn].len > 0
          /\ AddDataToMapping(StackBlob(dump, turn))
          /\ Continue("stacks")
       \/ /\ dump.stacks[turn].len = 0
          /\ UNCHANGED tableVars /\ UNCHANGED stage
    /\ turn' = turn + 1
    /\ UNCHANGED <<dump, patched>>

StacksDoneEarly ==
    /\ stage = "stacks" /\ turn >= Len(dump.stacks)
    /\ GoTo(IF DsoKnown(dump) THEN "link_map" ELSE "done")
    /\ UNCHANGED tableVars
StacksDone ==
    /\ stage = "stacks" /\ turn > Len(dump.stacks)
    /\ GoTo(IF DsoKnown(dump) THEN "link_map" ELSE "done")
    /\ UNCHANGED tableVars

InjectLinkMap ==
    /\ stage = "link_map"
    /\ \/ /\ dso.blobLen # TooWide
          /\ AddDataToMapping(LinkMap(dump))
          /\ Continue(IF HasDynamic(dump) THEN "dynamic" ELSE "done")
       \/ /\ dso.blobLen = TooWide
          /\ stage' = "failed"
          /\ UNCHANGED tableVars
    /\ UNCHANGED <<dump, turn, patched>>

InjectDynamic ==
    /\ stage = "dynamic"
    /\ patched' = EntryToPatch
    /\ AddDataToMapping(DynamicData(dump))
    /\ Continue("done")
    /\ UNCHANGED <<dump, turn>>

AugmentNext ==
    ReadMaps \/ ReadModules \/ InjectStack \/ StacksDone \/ InjectLinkMap \/ InjectDynamic

AugmentSpec == AugmentInit /\ [][AugmentNext]_augmentVars

-----------------------------------------------------------------------------
AugmentTypeOK ==
    /\ TypeOK
    /\ dump \in Dumps
    /\ stage \in {"maps", "modules", "stacks", "link_map", "dynamic", "done", "failed"}
    /\ turn \in Nat \ {0}
    /\ patched \in 0..Len(dso.tags)

\* Byte i of blob c is what the segments hold at its address.
Readable(c) ==
    \A i \in 0..(c.len - 1) :
        \E k \in Keys(mappings) :
            /\ Contains(mappings[k], c.addr + i)
            /\ ByteOf(mappings[k], c.addr + i) = <<c.src, i>>

\* "Inject each thread's stack bytes into the mapping table" (augment.rs:78):
\* in the core, every byte of every stack is at its address.
StacksInjected ==
    stage = "done" =>
        \A t \in 1..Len(dump.stacks) : Readable(StackBlob(dump, t))

\* The way of a debugger to the libraries holds: if the dump knows of any, the
\* rebuilt link map is readable at LINK_MAP_ADDR; and if it has the dynamic
\* section too, then so is that, and its first DT_DEBUG, if the section has one
\* before its end, is the entry that points to the link map.
DebuggerFindsLinkMap ==
    stage = "done" /\ (dso.links # 0 \/ DynamicLen(dump) # 0) =>
        /\ Readable(LinkMap(dump))
        /\ HasDynamic(dump) =>
              /\ Readable(DynamicData(dump))
              /\ \A i \in 1..Len(dso.tags) :
                    (/\ dso.tags[i] = "DT_DEBUG"
                     /\ \A j \in 1..(i - 1) : dso.tags[j] = "DT_OTHER")
                    <=> patched = i

-----------------------------------------------------------------------------
\* A module that starts where a line of the maps streams does adds nothing.
Listed(d, i) == \E j \in 1..Len(d.maps) : d.maps[j].start = d.modules[i].start
Regions(d) ==
    {d.maps[i] : i \in 1..Len(d.maps)}
    \cup {d.modules[i] : i \in {j \in 1..Len(d.modules) : ~Listed(d, j)}}

\* The dump of a live process: whole and disjoint regions, and blobs that share no
\* page and were each read from one region or lie outside them all.
LiveDump(d) ==
    /\ \A r \in Regions(d) :
          /\ r.start % PageSize = 0 /\ r.end % PageSize = 0
          /\ r.filename # NoFile => r.offset + (r.end - r.start) <= MaxAddr
          /\ \A q \in Regions(d) : Apart(r, q) \/ SameRange(r, q)
    /\ \A c \in Blobs(d) :
          /\ c.len > 0 /\ PageEnd(c) <= MaxAddr
          /\ \A b \in Blobs(d) : b # c => ApartPages(c, b)
          /\ \/ \E r \in Regions(d) : Within(c, r)
             \/ \A r \in Regions(d) : Outside(c, r)

\* The pipeline on the dump of a live process keeps to the assumptions under
\* which the mapping table is proved correct.
UsesTableAsLive == Spec

=============================================================================
