------------------------------ MODULE LinkMap ------------------------------
(***************************************************************************)
(* build_link_map_blob (src/src/augment.rs): the r_debug header, then one  *)
(* link_map record per shared object, each followed by its name, a NUL and *)
(* padding, laid out for address Base.  A debugger starts at r_debug.r_map *)
(* and follows l_next, l_prev and l_name: pointers into the blob that are  *)
(* computed while it grows.  A name is its length, which is all that the   *)
(* layout depends on.                                                      *)
(***************************************************************************)
EXTENDS Integers, Sequences

CONSTANTS
    Base,       \* LINK_MAP_ADDR
    Max32,      \* u32::MAX
    Inputs      \* the DsoDebug values to rebuild

VARIABLES
    dso,        \* the input: word size, header values, entries, signatures
    phase,      \* "r_debug", "link_map", "done" or "failed"
    dataLen,    \* data.len()
    rMap,       \* the r_map word of the header
    records     \* the link_map records written, with the address each begins at

vars == <<dso, phase, dataLen, rMap, records>>

\* One shared object: l_addr, l_ld and the length of its name.
Entry == [addr : Nat, ld : Nat, name : Nat]

\* signatures holds the lengths of the -i / --mangle-sonames names by l_addr.
Input == [word : {4, 8}, version : Nat, brk : Nat, ldbase : Nat,
          linkMap : Seq(Entry), signatures : SUBSET (Nat \X Nat)]

ASSUME LinkMapAssumption ==
    /\ Base \in Nat \ {0} /\ Base % 8 = 0
    /\ Max32 \in Nat
    /\ Inputs \subseteq Input
    /\ \A d \in Inputs : \A s, t \in d.signatures : s[1] = t[1] => s = t

Record == [at : Nat, addr : Nat, name : Nat, nameLen : Nat, ld : Nat,
           next : Nat, prev : Nat]

-----------------------------------------------------------------------------
RDebugSize == 5 * dso.word
LinkMapSize == 5 * dso.word

\* The bytes a name takes with its NUL, in whole groups of eight.
PaddedSizeRounded(n) == n + ((8 - (n % 8)) % 8)
PaddedSizeNulOnly(n) == n + 1
PaddedSize(n) == n + (8 - (n % 8))

\* name_for: the substituted name when the object's address has one.
NameFor(e) ==
    IF \E s \in dso.signatures : s[1] = e.addr
    THEN (CHOOSE s \in dso.signatures : s[1] = e.addr)[2]
    ELSE e.name

\* push_word accepts the words of one struct only if a 32-bit target holds them.
WordsFit(words) == dso.word = 8 \/ \A w \in words : w <= Max32

Count == Len(dso.linkMap)
BlobEnd  == Base + dataLen

\* link_map_record_addr: the record in front of the tail of the data, found
\* from the size of the name block between the two.
PrevAddrOwnName(i) ==
    IF i = 1 THEN 0 ELSE BlobEnd - PaddedSize(NameFor(dso.linkMap[i])) - LinkMapSize
PrevAddrOriginalName(i) ==
    IF i = 1 THEN 0 ELSE BlobEnd - PaddedSize(dso.linkMap[i - 1].name) - LinkMapSize
PrevAddr(i) ==
    IF i = 1 THEN 0
    ELSE BlobEnd - PaddedSize(NameFor(dso.linkMap[i - 1])) - LinkMapSize

NextAddrAlways(i) == BlobEnd + LinkMapSize + PaddedSize(NameFor(dso.linkMap[i]))
NextAddr(i) ==
    IF i = Count THEN 0
    ELSE BlobEnd + LinkMapSize + PaddedSize(NameFor(dso.linkMap[i]))

LinkMapRecord(i) ==
    LET e == dso.linkMap[i] IN
    [at |-> BlobEnd, addr |-> e.addr, name |-> BlobEnd + LinkMapSize,
     nameLen |-> NameFor(e), ld |-> e.ld, next |-> NextAddr(i), prev |-> PrevAddr(i)]

-----------------------------------------------------------------------------
Init ==
    /\ dso \in Inputs
    /\ phase = "r_debug"
    /\ dataLen = 0
    /\ rMap = 0
    /\ records = <<>>

\* The five words of r_debug.
WriteRDebug ==
    /\ phase = "r_debug"
    /\ LET map == IF Count = 0 THEN 0 ELSE Base + RDebugSize IN
       IF WordsFit({dso.version, map, dso.brk, dso.ldbase})
       THEN /\ rMap' = map
            /\ dataLen' = RDebugSize
            /\ phase' = "link_map"
       ELSE phase' = "failed" /\ UNCHANGED <<rMap, dataLen>>
    /\ UNCHANGED <<dso, records>>

\* One turn of the loop: a record, its name, the NUL and the padding.
WriteLinkMap ==
    /\ phase = "link_map" /\ Len(records) < Count
    /\ LET i == Len(records) + 1
           r == LinkMapRecord(i)
       IN  IF WordsFit({r.addr, r.name, r.ld, r.next, r.prev})
           THEN /\ records' = Append(records, r)
                /\ dataLen' = dataLen + LinkMapSize + PaddedSize(r.nameLen)
                /\ UNCHANGED phase
           ELSE phase' = "failed" /\ UNCHANGED <<records, dataLen>>
    /\ UNCHANGED <<dso, rMap>>

Finish ==
    /\ phase = "link_map" /\ Len(records) = Count
    /\ phase' = "done"
    /\ UNCHANGED <<dso, dataLen, rMap, records>>

Next == WriteRDebug \/ WriteLinkMap \/ Finish

Spec == Init /\ [][Next]_vars

-----------------------------------------------------------------------------
TypeOK ==
    /\ dso \in Inputs
    /\ phase \in {"r_debug", "link_map", "done", "failed"}
    /\ dataLen \in Nat
    /\ rMap \in Nat
    /\ records \in Seq(Record)

\* A debugger that starts at r_map and follows l_next meets every shared object
\* once, in the order of the link map, and then the null pointer.
WalkForward ==
    phase = "done" =>
        /\ Len(records) = Count
        /\ rMap = IF Count = 0 THEN 0 ELSE records[1].at
        /\ \A i \in 1..Count :
              /\ records[i].addr = dso.linkMap[i].addr
              /\ records[i].next = IF i = Count THEN 0 ELSE records[i + 1].at

\* l_prev leads back the same way: it is computed from the size of the previous
\* name, which must be the substituted one, not the one in the minidump.
WalkBackward ==
    \A i \in 1..Len(records) :
        records[i].prev = IF i = 1 THEN 0 ELSE records[i - 1].at

\* A name ends, with its NUL, before the next record or the end of the blob, and
\* no record is cut by another or by a name ...
NamesTerminated ==
    \A i \in 1..Len(records) :
        LET end == IF i = Len(records) THEN BlobEnd ELSE records[i + 1].at IN
        /\ records[i].name = records[i].at + LinkMapSize
        /\ records[i].name + records[i].nameLen < end

\* ... though the padding between them also has to leave the records aligned for
\* the target's word, as a live linker's are.
RecordsAligned == \A i \in 1..Len(records) : records[i].at % dso.word = 0

\* Both at once: the gap behind a name is never too short for the NUL and never
\* of a size that moves the next record off its alignment.
RecordsLaidOut == NamesTerminated /\ RecordsAligned

=============================================================================
