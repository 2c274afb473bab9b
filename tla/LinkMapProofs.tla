---------------------------- MODULE LinkMapProofs ----------------------------
(***************************************************************************)
(* The rebuilt link map can be walked in both directions, for every number *)
(* of shared objects, every length of name and every substitution.         *)
(***************************************************************************)
EXTENDS LinkMap, TLAPS

\* Where the record behind r begins.
After(r) == r.at + LinkMapSize + PaddedSize(r.nameLen)

\* What the loop keeps true of record i.
RecordOK(i) ==
    LET r == records[i] IN
    /\ r.at % dso.word = 0
    /\ r.addr = dso.linkMap[i].addr
    /\ r.nameLen = NameFor(dso.linkMap[i])
    /\ r.name = r.at + LinkMapSize
    /\ r.prev = IF i = 1 THEN 0 ELSE records[i - 1].at
    /\ r.next = IF i = Count THEN 0 ELSE After(r)
    /\ i < Len(records) => records[i + 1].at = After(r)

\* The loop invariant: the records stand one behind the other, and the next
\* one will begin at the end of the data.
LoopInv ==
    /\ TypeOK
    /\ Len(records) <= Count
    /\ phase = "done" => Len(records) = Count
    /\ phase = "r_debug" => Len(records) = 0 /\ dataLen = 0
    /\ phase \in {"link_map", "done"} =>
          rMap = IF Count = 0 THEN 0 ELSE Base + RDebugSize
    /\ phase = "link_map" =>
          /\ BlobEnd % dso.word = 0
          /\ Len(records) = 0 => BlobEnd = Base + RDebugSize
    /\ Len(records) > 0 => /\ records[1].at = Base + RDebugSize
                         /\ BlobEnd = After(records[Len(records)])
    /\ \A i \in 1..Len(records) : RecordOK(i)

\* The name of an object has a length, and padding makes it a positive multiple
\* of eight that leaves room for the NUL.
LEMMA InputFacts ==
    ASSUME dso \in Inputs
    PROVE  /\ dso.word \in {4, 8} /\ dso.linkMap \in Seq(Entry) /\ Count \in Nat
           /\ dso.version \in Nat /\ dso.brk \in Nat /\ dso.ldbase \in Nat
           /\ RDebugSize \in Nat /\ LinkMapSize \in Nat
           /\ \A i \in 1..Count : /\ dso.linkMap[i] \in Entry
                                  /\ NameFor(dso.linkMap[i]) \in Nat
<1>1. /\ dso.word \in {4, 8} /\ dso.linkMap \in Seq(Entry)
      /\ dso.version \in Nat /\ dso.brk \in Nat /\ dso.ldbase \in Nat
      /\ dso.signatures \subseteq Nat \X Nat
  BY LinkMapAssumption DEF Input
<1>2. Count \in Nat /\ RDebugSize \in Nat /\ LinkMapSize \in Nat
  BY <1>1, SMT DEF Count, RDebugSize, LinkMapSize
<1>3. ASSUME NEW e \in Entry
      PROVE  NameFor(e) \in Nat
  <2>1. CASE \E s \in dso.signatures : s[1] = e.addr
    <3> DEFINE s == CHOOSE t \in dso.signatures : t[1] = e.addr
    <3>1. s \in Nat \X Nat
      BY <1>1, <2>1
    <3>2. s[2] \in Nat
      BY <3>1
    <3> QED
      BY <2>1, <3>2 DEF NameFor
  <2>2. CASE ~ \E s \in dso.signatures : s[1] = e.addr
    <3>1. e.name \in Nat
      BY DEF Entry
    <3>2. NameFor(e) = e.name
      BY <2>2 DEF NameFor
    <3> QED
      BY <3>1, <3>2
  <2> QED
    BY <2>1, <2>2
<1>4. \A i \in 1..Count : dso.linkMap[i] \in Entry
  BY <1>1, SMT DEF Count
<1> QED
  BY <1>1, <1>2, <1>3, <1>4

LEMMA PaddingFacts ==
    ASSUME NEW n \in Nat
    PROVE  /\ PaddedSize(n) \in Nat
           /\ n < PaddedSize(n)
           /\ PaddedSize(n) % 8 = 0 /\ PaddedSize(n) % 4 = 0
BY SMT DEF PaddedSize

\* Nothing in the layout breaks the alignment of the target's word.
LEMMA AlignedStep ==
    ASSUME dso \in Inputs, NEW a \in Nat, a % dso.word = 0, NEW n \in Nat
    PROVE  /\ (a + RDebugSize) % dso.word = 0
           /\ (a + LinkMapSize + PaddedSize(n)) % dso.word = 0
<1>1. dso.word \in {4, 8}
  BY InputFacts
<1>2. PaddedSize(n) \in Nat /\ PaddedSize(n) % 8 = 0 /\ PaddedSize(n) % 4 = 0
  BY PaddingFacts
<1>3. CASE dso.word = 4
  <2>1. /\ RDebugSize = 20 /\ LinkMapSize = 20 /\ a % 4 = 0
    BY <1>3, SMT DEF RDebugSize, LinkMapSize
  <2>2. /\ (a + 20) % 4 = 0 /\ (a + 20 + PaddedSize(n)) % 4 = 0
    BY <1>2, <2>1, SMT
  <2> QED
    BY <1>3, <2>1, <2>2
<1>4. CASE dso.word = 8
  <2>1. /\ RDebugSize = 40 /\ LinkMapSize = 40 /\ a % 8 = 0
    BY <1>4, SMT DEF RDebugSize, LinkMapSize
  <2>2. /\ (a + 40) % 8 = 0 /\ (a + 40 + PaddedSize(n)) % 8 = 0
    BY <1>2, <2>1, SMT
  <2> QED
    BY <1>4, <2>1, <2>2
<1> QED
  BY <1>1, <1>3, <1>4

-----------------------------------------------------------------------------
LEMMA LoopInit == Init => LoopInv
<1> SUFFICES ASSUME Init
             PROVE  LoopInv
  OBVIOUS
<1>1. dso \in Inputs /\ Count \in Nat
  BY InputFacts DEF Init
<1> QED
  BY <1>1, SMT DEF Init, LoopInv, TypeOK, Record

LEMMA RDebugStep == LoopInv /\ WriteRDebug => LoopInv'
<1> SUFFICES ASSUME LoopInv, WriteRDebug
             PROVE  LoopInv'
  OBVIOUS
<1>1. /\ dso \in Inputs /\ dso' = dso /\ records' = records /\ Len(records) = 0
      /\ RDebugSize \in Nat /\ Count \in Nat /\ Base \in Nat /\ dso.word \in {4, 8}
  BY InputFacts, LinkMapAssumption DEF LoopInv, TypeOK, WriteRDebug
<1>2. /\ RDebugSize' = RDebugSize /\ Count' = Count
  BY <1>1 DEF RDebugSize, Count
<1>3. CASE phase' = "failed" /\ UNCHANGED <<rMap, dataLen>>
  BY <1>1, <1>2, <1>3 DEF LoopInv, TypeOK
<1>4. CASE /\ rMap' = IF Count = 0 THEN 0 ELSE Base + RDebugSize
           /\ dataLen' = RDebugSize /\ phase' = "link_map"
  <2>1. BlobEnd' = Base + RDebugSize
    BY <1>4 DEF BlobEnd
  <2>2. Base % dso.word = 0
    BY <1>1, LinkMapAssumption, SMT
  <2>3. BlobEnd' % dso.word = 0
    BY <1>1, <2>1, <2>2, AlignedStep
  <2>4. rMap' \in Nat /\ dataLen' \in Nat
    BY <1>1, <1>4, SMT
  <2> QED
    BY <1>1, <1>2, <1>4, <2>1, <2>3, <2>4 DEF LoopInv, TypeOK
<1> QED
  BY <1>3, <1>4 DEF WriteRDebug

LEMMA LinkMapStep == LoopInv /\ WriteLinkMap => LoopInv'
<1> SUFFICES ASSUME LoopInv, WriteLinkMap
             PROVE  LoopInv'
  OBVIOUS
<1>0. PICK n \in Nat : n = Len(records)
  BY DEF LoopInv, TypeOK
<1> DEFINE i == n + 1
<1>1. /\ dso \in Inputs /\ dso' = dso /\ rMap' = rMap /\ rMap \in Nat
      /\ Count \in Nat /\ LinkMapSize \in Nat /\ RDebugSize \in Nat /\ Base \in Nat
      /\ records \in Seq(Record) /\ n = Len(records) /\ n < Count /\ dataLen \in Nat
      /\ BlobEnd \in Nat /\ i \in 1..Count /\ phase = "link_map"
  <2>1. /\ dso \in Inputs /\ dso' = dso /\ rMap' = rMap /\ rMap \in Nat
        /\ records \in Seq(Record) /\ n = Len(records) /\ n < Count /\ dataLen \in Nat
        /\ phase = "link_map"
    BY <1>0 DEF LoopInv, TypeOK, WriteLinkMap
  <2>2. Count \in Nat /\ LinkMapSize \in Nat /\ RDebugSize \in Nat /\ Base \in Nat
    BY <2>1, InputFacts, LinkMapAssumption
  <2>3. i \in 1..Count
    BY <2>1, <2>2, SMT
  <2>4. BlobEnd \in Nat
    BY <2>1, <2>2, SMT DEF BlobEnd
  <2> QED
    BY <2>1, <2>2, <2>3, <2>4
<1>2. /\ RDebugSize' = RDebugSize /\ Count' = Count /\ LinkMapSize' = LinkMapSize
      /\ \A e : NameFor(e)' = NameFor(e)
  BY <1>1 DEF RDebugSize, Count, LinkMapSize, NameFor
<1>3. CASE phase' = "failed" /\ UNCHANGED <<records, dataLen>>
  <2>1. BlobEnd' = BlobEnd /\ \A e : After(e)' = After(e)
    BY <1>2, <1>3 DEF BlobEnd, After
  <2>2. \A j \in 1..n : RecordOK(j)'
    BY <1>1, <1>2, <1>3, <2>1 DEF LoopInv, RecordOK
  <2> QED
    BY <1>1, <1>2, <1>3, <2>1, <2>2 DEF LoopInv, TypeOK
<1>4. CASE /\ records' = Append(records, LinkMapRecord(i)) /\ phase' = phase
           /\ dataLen' = dataLen + LinkMapSize + PaddedSize(LinkMapRecord(i).nameLen)
  <2>0. PICK r : r = LinkMapRecord(i)
    OBVIOUS
  <2>1. /\ dso.linkMap[i] \in Entry /\ NameFor(dso.linkMap[i]) \in Nat
        /\ dso.linkMap[i].addr \in Nat /\ dso.linkMap[i].ld \in Nat
    BY <1>1, InputFacts DEF Entry
  <2>2. /\ r.at = BlobEnd /\ r.addr = dso.linkMap[i].addr
        /\ r.nameLen = NameFor(dso.linkMap[i]) /\ r.name = BlobEnd + LinkMapSize
        /\ r.ld = dso.linkMap[i].ld /\ r.next = NextAddr(i) /\ r.prev = PrevAddr(i)
        /\ r = [at |-> r.at, addr |-> r.addr, name |-> r.name, nameLen |-> r.nameLen,
                ld |-> r.ld, next |-> r.next, prev |-> r.prev]
    BY <2>0 DEF LinkMapRecord
  <2> DEFINE pad == PaddedSize(r.nameLen)
  <2>3. pad \in Nat /\ r.nameLen \in Nat /\ r.nameLen < pad
    BY <2>1, <2>2, PaddingFacts
  <2>4. r.next = IF i = Count THEN 0 ELSE BlobEnd + LinkMapSize + pad
    BY <2>2 DEF NextAddr
  <2>5. r.prev = IF i = 1 THEN 0 ELSE records[n].at
    <3>1. CASE i = 1
      BY <2>2, <3>1 DEF PrevAddr
    <3>2. CASE i # 1
      <4>1. n \in 1..n /\ Len(records) > 0 /\ i - 1 = n
        BY <1>1, <3>2, SMT
      <4>2. /\ BlobEnd = After(records[n]) /\ RecordOK(n) /\ records[n] \in Record
        BY <1>1, <4>1, SMT DEF LoopInv
      <4>3. /\ records[n].nameLen = NameFor(dso.linkMap[n])
            /\ records[n].at \in Nat /\ records[n].nameLen \in Nat
        BY <4>2 DEF RecordOK, Record
      <4>4. PaddedSize(records[n].nameLen) \in Nat
        BY <4>3, PaddingFacts
      <4>5. PrevAddr(i) = BlobEnd - PaddedSize(records[n].nameLen) - LinkMapSize
        BY <3>2, <4>1, <4>3 DEF PrevAddr
      <4>6. BlobEnd = records[n].at + LinkMapSize + PaddedSize(records[n].nameLen)
        BY <4>2 DEF After
      <4> DEFINE at == records[n].at
                 pads == PaddedSize(records[n].nameLen)
      <4>7. at \in Nat /\ pads \in Nat /\ BlobEnd = at + LinkMapSize + pads
        BY <4>3, <4>4, <4>6
      <4> HIDE DEF at, pads
      <4>8. BlobEnd - pads - LinkMapSize = at
        BY <1>1, <4>7, SMT
      <4>9. PrevAddr(i) = at
        BY <4>5, <4>8 DEF pads
      <4> QED
        BY <2>2, <3>2, <4>9 DEF at
    <3> QED
      BY <3>1, <3>2
  <2>6. r \in Record
    <3>1. r.next \in Nat
      BY <1>1, <2>3, <2>4, SMT
    <3>2. r.prev \in Nat
      <4>1. i # 1 => records[n] \in Record
        BY <1>1, SMT
      <4> QED
        BY <2>5, <4>1 DEF Record
    <3>3. r.name \in Nat
      BY <1>1, <2>2, SMT
    <3> QED
      BY <1>1, <2>1, <2>2, <2>3, <3>1, <3>2, <3>3 DEF Record
  <2>7. /\ records' \in Seq(Record) /\ Len(records') = i
        /\ records'[i] = r /\ \A j \in 1..n : records'[j] = records[j]
    BY <1>1, <1>4, <2>0, <2>6, SMT
  <2>8. BlobEnd' = BlobEnd + LinkMapSize + pad /\ dataLen' \in Nat
    BY <1>1, <1>4, <2>0, <2>3, SMT DEF BlobEnd
  <2>9. BlobEnd' = After(r)' /\ After(r)' = After(r)
    BY <1>2, <2>2, <2>8 DEF After
  <2>10. /\ BlobEnd % dso.word = 0 /\ BlobEnd' % dso.word = 0
    <3>1. BlobEnd % dso.word = 0
      BY <1>1 DEF LoopInv
    <3>2. (BlobEnd + LinkMapSize + PaddedSize(r.nameLen)) % dso.word = 0
      BY <1>1, <2>3, <3>1, AlignedStep
    <3> QED
      BY <2>8, <3>1, <3>2
  <2>11. RecordOK(i)'
    <3>1. i = 1 \/ (n \in 1..n /\ i - 1 = n /\ records'[n] = records[n])
      BY <1>1, <2>7, SMT
    <3>2. r.prev = IF i = 1 THEN 0 ELSE records'[i - 1].at
      BY <2>5, <3>1
    <3>3. r.next = IF i = Count THEN 0 ELSE After(r)'
      BY <2>2, <2>4, <2>9 DEF After
    <3>4. ~(i < Len(records'))
      BY <1>1, <2>7, SMT
    <3> QED
      BY <1>1, <1>2, <2>2, <2>7, <2>10, <3>2, <3>3, <3>4 DEF RecordOK
  <2>12. ASSUME NEW j \in 1..n
         PROVE  RecordOK(j)'
    <3>1. RecordOK(j) /\ records'[j] = records[j] /\ j \in Nat
      BY <1>1, <2>7 DEF LoopInv
    <3>2. After(records[j])' = After(records'[j]) /\ After(records'[j]) = After(records[j])
      BY <1>2, <3>1 DEF After
    <3>3. j # 1 => records'[j - 1] = records[j - 1]
      BY <1>1, <2>7, SMT
    <3>4. records'[j + 1].at = After(records[j])
      <4>1. CASE j < n
        <5>1. records'[j + 1] = records[j + 1]
          BY <1>1, <2>7, <4>1, SMT
        <5> QED
          BY <1>1, <3>1, <4>1, <5>1 DEF RecordOK
      <4>2. CASE j = n
        <5>1. Len(records) > 0
          BY <1>1, SMT
        <5> QED
          BY <1>1, <2>2, <2>7, <4>2, <5>1 DEF LoopInv
      <4> QED
        BY <1>1, <4>1, <4>2, SMT
    <3> QED
      BY <1>1, <1>2, <3>1, <3>2, <3>3, <3>4 DEF RecordOK
  <2>13. records'[1].at = Base + RDebugSize
    <3>1. CASE n = 0
      <4>1. Len(records) = 0 /\ i = 1
        BY <1>1, <3>1, SMT
      <4> QED
        BY <1>1, <2>2, <2>7, <4>1 DEF LoopInv
    <3>2. CASE n > 0
      <4>1. Len(records) > 0 /\ 1 \in 1..n
        BY <1>1, <3>2, SMT
      <4> QED
        BY <2>7, <4>1 DEF LoopInv
    <3> QED
      BY <1>1, <3>1, <3>2, SMT
  <2>14. \A j \in 1..Len(records') : RecordOK(j)'
    <3>1. \A j \in 1..Len(records') : j = i \/ j \in 1..n
      BY <1>1, <2>7, SMT
    <3> QED
      BY <2>11, <2>12, <3>1
  <2>15. Len(records') <= Count' /\ Len(records') > 0
    BY <1>1, <1>2, <2>7, SMT
  <2>16. TypeOK'
    BY <1>1, <1>4, <2>7, <2>8 DEF TypeOK
  <2>17. BlobEnd' = After(records[Len(records)])'
    BY <1>2, <2>7, <2>9 DEF After
  <2> QED
    BY <1>1, <1>2, <1>4, <2>10, <2>13, <2>14, <2>15, <2>16, <2>17 DEF LoopInv
<1> QED
  BY <1>1, <1>3, <1>4 DEF WriteLinkMap

LEMMA LoopStep == LoopInv /\ [Next]_vars => LoopInv'
<1> SUFFICES ASSUME LoopInv, [Next]_vars
             PROVE  LoopInv'
  OBVIOUS
<1>1. CASE WriteRDebug
  BY <1>1, RDebugStep
<1>2. CASE WriteLinkMap
  BY <1>2, LinkMapStep
<1>3. CASE Finish \/ UNCHANGED vars
  <2>1. /\ dso' = dso /\ dataLen' = dataLen /\ rMap' = rMap /\ records' = records
        /\ phase' = phase \/ (phase = "link_map" /\ phase' = "done" /\ Len(records) = Count)
    BY <1>3 DEF Finish, vars
  <2>2. /\ RDebugSize' = RDebugSize /\ Count' = Count /\ LinkMapSize' = LinkMapSize
        /\ BlobEnd' = BlobEnd /\ \A e : NameFor(e)' = NameFor(e)
    BY <2>1 DEF RDebugSize, Count, LinkMapSize, BlobEnd, NameFor
  <2>4. \A i \in 1..Len(records) : RecordOK(i)'
    BY <2>1, <2>2 DEF LoopInv, RecordOK, After
  <2> QED
    BY <2>1, <2>2, <2>4 DEF LoopInv, TypeOK, After
<1> QED
  BY <1>1, <1>2, <1>3 DEF Next

THEOREM LinkMapLoop == Spec => []LoopInv
<1>1. Init => LoopInv
  BY LoopInit
<1>2. LoopInv /\ [Next]_vars => LoopInv'
  BY LoopStep
<1> QED
  BY <1>1, <1>2, PTL DEF Spec

\* From r_map, l_next leads through every shared object in order, and ends.
THEOREM LinkMapForward == Spec => []WalkForward
<1>1. ASSUME LoopInv
      PROVE  WalkForward
  <2> SUFFICES ASSUME phase = "done"
               PROVE  /\ Len(records) = Count
                      /\ rMap = IF Count = 0 THEN 0 ELSE records[1].at
                      /\ \A i \in 1..Count :
                            /\ records[i].addr = dso.linkMap[i].addr
                            /\ records[i].next = IF i = Count THEN 0 ELSE records[i + 1].at
    BY DEF WalkForward
  <2>1. Len(records) = Count /\ Count \in Nat
    BY <1>1, InputFacts DEF LoopInv, TypeOK
  <2>2. rMap = IF Count = 0 THEN 0 ELSE records[1].at
    <3>1. Count # 0 => Len(records) > 0
      BY <2>1, SMT
    <3> QED
      BY <1>1, <3>1 DEF LoopInv
  <2>3. ASSUME NEW i \in 1..Count
        PROVE  /\ records[i].addr = dso.linkMap[i].addr
               /\ records[i].next = IF i = Count THEN 0 ELSE records[i + 1].at
    <3>1. RecordOK(i)
      BY <1>1, <2>1 DEF LoopInv
    <3>2. i # Count => i < Len(records)
      BY <2>1, SMT
    <3> QED
      BY <3>1, <3>2 DEF RecordOK
  <2> QED
    BY <2>1, <2>2, <2>3
<1> QED
  BY <1>1, LinkMapLoop, PTL

\* l_prev leads back through the same records.
THEOREM LinkMapBackward == Spec => []WalkBackward
<1>1. LoopInv => WalkBackward
  BY DEF LoopInv, RecordOK, WalkBackward
<1> QED
  BY <1>1, LinkMapLoop, PTL

\* Every name is terminated inside the space between its record and the next.
THEOREM LinkMapNames == Spec => []NamesTerminated
<1>1. ASSUME LoopInv
      PROVE  NamesTerminated
  <2> SUFFICES ASSUME NEW i \in 1..Len(records)
               PROVE  LET end == IF i = Len(records) THEN BlobEnd ELSE records[i + 1].at IN
                      /\ records[i].name = records[i].at + LinkMapSize
                      /\ records[i].name + records[i].nameLen < end
    BY DEF NamesTerminated
  <2>1. /\ records \in Seq(Record) /\ Len(records) \in Nat /\ Len(records) > 0
        /\ RecordOK(i) /\ records[i] \in Record /\ LinkMapSize \in Nat
    BY <1>1, InputFacts, SMT DEF LoopInv, TypeOK
  <2>2. records[i].at \in Nat /\ records[i].nameLen \in Nat
    BY <2>1 DEF Record
  <2> DEFINE end == IF i = Len(records) THEN BlobEnd ELSE records[i + 1].at
  <2>3. end = After(records[i])
    <3>1. CASE i = Len(records)
      BY <1>1, <2>1, <3>1 DEF LoopInv
    <3>2. CASE i # Len(records)
      <4>1. i < Len(records)
        BY <2>1, <3>2, SMT
      <4> QED
        BY <2>1, <3>2, <4>1 DEF RecordOK
    <3> QED
      BY <3>1, <3>2
  <2>4. records[i].name = records[i].at + LinkMapSize
    BY <2>1 DEF RecordOK
  <2> DEFINE pad == PaddedSize(records[i].nameLen)
  <2>5. pad \in Nat /\ records[i].nameLen < pad
    BY <2>2, PaddingFacts
  <2>6. end = records[i].at + LinkMapSize + pad
    BY <2>3 DEF After
  <2> HIDE DEF pad, end
  <2>7. records[i].name + records[i].nameLen < end
    BY <2>1, <2>2, <2>4, <2>5, <2>6, SMT
  <2> QED
    BY <2>4, <2>7 DEF end
<1> QED
  BY <1>1, LinkMapLoop, PTL

\* Every record is aligned for the target's word.
THEOREM LinkMapAligned == Spec => []RecordsAligned
<1>1. LoopInv => RecordsAligned
  BY DEF LoopInv, RecordOK, RecordsAligned
<1> QED
  BY <1>1, LinkMapLoop, PTL

\* Names and records are laid out for a debugger: terminated, apart and aligned.
THEOREM LinkMapLaidOut == Spec => []RecordsLaidOut
<1>1. NamesTerminated /\ RecordsAligned => RecordsLaidOut
  BY DEF RecordsLaidOut
<1> QED
  BY <1>1, LinkMapNames, LinkMapAligned, PTL

\* The words of the blob keep their types, with overflows or without.
THEOREM LinkMapTypeOK == Spec => []TypeOK
<1>1. LoopInv => TypeOK
  BY DEF LoopInv
<1> QED
  BY <1>1, LinkMapLoop, PTL

=============================================================================
