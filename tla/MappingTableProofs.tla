------------------------- MODULE MappingTableProofs -------------------------
(***************************************************************************)
(* Theorems about the mapping table, for every page size, address space,   *)
(* set of imports and set of captured blobs.                               *)
(***************************************************************************)
EXTENDS MappingTable, PageArithProofs

-----------------------------------------------------------------------------
(* Facts about one blob and one mapping.                                   *)

\* The pages of a blob enclose it, and its padded data fills them exactly.
LEMMA BlobFacts ==
    ASSUME NEW c \in Captures
    PROVE  /\ c.src \in Sources /\ c.addr \in Addr /\ c.len \in Addr
           /\ PageStart(c) \in Addr /\ PageStart(c) % PageSize = 0
           /\ PageStart(c) <= c.addr
           /\ PageEnd(c) \in Nat /\ PageEnd(c) % PageSize = 0
           /\ c.addr + c.len <= PageEnd(c)
           /\ Blob(c) \in Data
           /\ DataLen(Blob(c)) = PageEnd(c) - PageStart(c)
<1>1. c.src \in Sources /\ c.addr \in Addr /\ c.len \in Addr
  BY TableAssumption DEF Capture
<1>2. c.addr \in Nat /\ c.len \in Nat /\ c.addr + c.len \in Nat
  BY <1>1, PageArithAssumption, SMT DEF Addr
<1>3. /\ PageStart(c) \in Nat /\ PageStart(c) <= c.addr
      /\ PageStart(c) % PageSize = 0
      /\ c.addr - PageStart(c) = c.addr % PageSize
  BY <1>2, AlignDownFacts DEF PageStart
<1>4. PageStart(c) \in Addr
  BY <1>1, <1>3, PageArithAssumption, SMT DEF Addr
<1>5. /\ PageEnd(c) \in Nat /\ PageEnd(c) % PageSize = 0
      /\ c.addr + c.len <= PageEnd(c)
  BY <1>2, AlignUpFacts DEF PageEnd
<1>6. c.addr % PageSize \in 0..(PageSize - 1)
  BY <1>2, ModRange
<1>7. Blob(c) \in Data
  BY <1>1, <1>3, <1>6 DEF Blob, Data
<1>8. DataLen(Blob(c)) = PageEnd(c) - PageStart(c)
  BY <1>2, <1>3, PaddedLenIsPageSpan DEF Blob, DataLen, PageEnd, PageStart
<1> QED
  BY <1>1, <1>3, <1>4, <1>5, <1>7, <1>8

LEMMA WrapSubAbove ==
    ASSUME NEW a \in Addr, NEW b \in Addr, b <= a
    PROVE  WrapSub(a, b) = a - b
BY PageArithAssumption, SMT DEF WrapSub, Addr

\* An offset that passes the overflow check is an offset.
LEMMA OffsetBehindNat ==
    ASSUME NEW m \in Mapping, NEW k \in Addr, NEW b \in Addr
    PROVE  OffsetBehind(m, k, b) \in Nat
<1>1. m.offset \in Addr
  BY DEF Mapping
<1>2. WrapSub(b, k) \in Nat
  BY PageArithAssumption, SMT DEF WrapSub, Addr
<1> QED
  BY <1>1, <1>2, PageArithAssumption, SMT DEF OffsetBehind, Addr

LEMMA EmptyData ==
    /\ NoData \in Data
    /\ DataLen(NoData) = 0
<1>1. 0 % PageSize = 0 /\ (PageSize - 0) % PageSize = 0
  BY PageArithAssumption, SMT
<1>2. PaddedLen(0) = 0
  BY <1>1, PageArithAssumption, SMT DEF PaddedLen
<1>3. NoData \in Data
  BY PageArithAssumption, SMT DEF NoData, Data, Addr
<1> QED
  BY <1>2, <1>3, SMT DEF NoData, DataLen

\* The pieces that a split and a synthesis write are mappings.
LEMMA PieceTypes ==
    ASSUME NEW c \in Captures, NEW m \in Mapping, NEW k \in Addr
    PROVE  /\ FrontPart(m, PageStart(c)) \in Mapping
           /\ OffsetBehind(m, k, PageStart(c)) <= MaxAddr =>
                 BackPart(m, k, PageStart(c), c) \in Mapping
           /\ [m EXCEPT !.start = k, !.data = Blob(c)] \in Mapping
           /\ SyntheticFits(c) => Synthetic(c) \in Mapping
<1>1. PageStart(c) \in Addr /\ Blob(c) \in Data /\ PageEnd(c) \in Nat
  BY BlobFacts
<1>2. FrontPart(m, PageStart(c)) \in Mapping
  BY <1>1 DEF FrontPart, Mapping
<1>3. ASSUME OffsetBehind(m, k, PageStart(c)) <= MaxAddr
      PROVE  BackPart(m, k, PageStart(c), c) \in Mapping
  <2>1. OffsetBehind(m, k, PageStart(c)) \in Addr
    BY <1>1, <1>3, OffsetBehindNat, PageArithAssumption, SMT DEF Addr
  <2> QED
    BY <1>1, <2>1 DEF BackPart, Mapping
<1>4. [m EXCEPT !.start = k, !.data = Blob(c)] \in Mapping
  BY <1>1 DEF Mapping
<1>5. ASSUME SyntheticFits(c)
      PROVE  Synthetic(c) \in Mapping
  <2>1. PageEnd(c) \in Addr /\ 0 \in Addr
    BY <1>1, <1>5, PageArithAssumption, SMT DEF SyntheticFits, Addr
  <2> QED
    BY <1>1, <2>1, TableAssumption DEF Synthetic, Mapping
<1> QED
  BY <1>2, <1>3, <1>4, <1>5

-----------------------------------------------------------------------------
(* The invariants of every sequence of calls.                              *)

LEMMA TypeInit == Init => TypeOK
BY DEF Init, TypeOK

\* Every operation of LibraryNext preserves the types.
LEMMA TypeStep == TypeOK /\ [LibraryNext]_vars => TypeOK'
<1> SUFFICES ASSUME TypeOK, [LibraryNext]_vars
             PROVE  TypeOK'
  OBVIOUS
<1>1. ASSUME NEW m \in Imports, InsertMapping(m)
      PROVE  TypeOK'
  BY <1>1, TableAssumption DEF TypeOK, InsertMapping, Put, Mapping
<1>2. ASSUME NEW m \in Imports, InsertMappingIfAbsent(m)
      PROVE  TypeOK'
  BY <1>2, TableAssumption DEF TypeOK, InsertMappingIfAbsent, Put, Mapping
<1>3. ASSUME NEW c \in Captures, AddDataToMapping(c)
      PROVE  TypeOK'
  <2>1. ASSUME NEW s \in {"ok", "error", "panic"}, Return(s, c)
        PROVE  /\ status' \in {"ok", "error", "panic"}
               /\ captured' \subseteq Captures
               /\ imported' = imported
    BY <2>1 DEF Return, TypeOK
  <2>2. ASSUME NEW k \in Addr, FirstContaining(k, c.addr)
        PROVE  mappings[k] \in Mapping
    BY <2>2 DEF FirstContaining, Keys, TypeOK
  <2>3. ASSUME NEW k \in Addr, FirstContaining(k, c.addr), SplitMapping(c, k)
        PROVE  TypeOK'
    <3> DEFINE m == mappings[k]
               base == PageStart(c)
               cut == Put(k, FrontPart(m, base))
    <3>1. m \in Mapping /\ base \in Addr
      BY <2>2, <2>3, BlobFacts
    <3>2. cut \in [Addr -> Mapping \cup {Absent}]
      BY <3>1, PieceTypes DEF Put, TypeOK
    <3>3. ASSUME OffsetBehind(m, k, base) <= MaxAddr
          PROVE  [cut EXCEPT ![base] = BackPart(m, k, base, c)]
                    \in [Addr -> Mapping \cup {Absent}]
      <4>1. BackPart(m, k, base, c) \in Mapping
        BY <3>1, <3>3, PieceTypes
      <4> QED
        BY <3>1, <3>2, <4>1
    <3> QED
      BY <2>1, <2>3, <3>2, <3>3 DEF SplitMapping, TypeOK
  <2>4. ASSUME NEW k \in Addr, FirstContaining(k, c.addr), RefillMapping(c, k)
        PROVE  TypeOK'
    <3>1. [mappings[k] EXCEPT !.start = k, !.data = Blob(c)] \in Mapping
      BY <2>2, <2>4, PieceTypes
    <3> QED
      BY <2>1, <2>4, <3>1 DEF RefillMapping, TypeOK
  <2>5. ASSUME SynthesizeMapping(c)
        PROVE  TypeOK'
    <3>1. CASE SyntheticFits(c) /\ mappings' = Put(PageStart(c), Synthetic(c))
                                /\ Return("ok", c)
      <4>1. Synthetic(c) \in Mapping
        <5>1. SyntheticFits(c)
          BY <3>1
        <5>2. PageEnd(c) \in Addr /\ 0 \in Addr
          BY <5>1, BlobFacts, PageArithAssumption, SMT DEF SyntheticFits, Addr
        <5> QED
          BY <5>2, BlobFacts, TableAssumption DEF Synthetic, Mapping
      <4> QED
        BY <2>1, <3>1, <4>1, BlobFacts DEF Put, TypeOK
    <3>2. CASE UNCHANGED mappings /\ Return("error", c)
      BY <2>1, <3>2 DEF TypeOK
    <3> QED
      BY <2>5, <3>1, <3>2 DEF SynthesizeMapping
  <2> QED
    BY <1>3, <2>3, <2>4, <2>5 DEF AddDataToMapping
<1>4. CASE UNCHANGED vars
  BY <1>4 DEF vars, TypeOK
<1> QED
  BY <1>1, <1>2, <1>3, <1>4 DEF LibraryNext

\* Whatever is called, in whatever order, with whatever addresses and lengths,
\* the table holds well-formed mappings and the call returned a status.
THEOREM LibraryTypeOK == LibrarySpec => []TypeOK
<1>1. Init => TypeOK
  BY TypeInit
<1>2. TypeOK /\ [LibraryNext]_vars => TypeOK'
  BY TypeStep
<1> QED
  BY <1>1, <1>2, PTL DEF LibrarySpec

\* What a mapping written by one of the operations owes to DataOnPages.
OnPage(m, k) == /\ m.start = k
                /\ DataLen(m.data) > 0 =>
                      m.start % PageSize = 0 /\ DataLen(m.data) % PageSize = 0

LEMMA BlobOnPage ==
    ASSUME NEW c \in Captures, NEW m \in Mapping,
           m.start = PageStart(c), m.data = Blob(c)
    PROVE  OnPage(m, PageStart(c))
<1>1. (PageEnd(c) - PageStart(c)) % PageSize = PageEnd(c) % PageSize
  BY BlobFacts, ModShift DEF Addr
<1> QED
  BY <1>1, BlobFacts DEF OnPage

\* Every operation files what it writes under its start address; captured
\* bytes only ever come with a page-aligned start.
LEMMA DataOnPagesStep == TypeOK /\ DataOnPages /\ [LibraryNext]_vars => DataOnPages'
<1> SUFFICES ASSUME TypeOK, DataOnPages, [LibraryNext]_vars
             PROVE  DataOnPages'
  OBVIOUS
<1>1. \A k \in Keys(mappings) : mappings[k] \in Mapping /\ OnPage(mappings[k], k)
  BY DEF DataOnPages, OnPage, Keys, TypeOK
<1>2. SUFFICES \A k \in Keys(mappings') : OnPage(mappings'[k], k)
  BY DEF DataOnPages, OnPage
<1>3. ASSUME NEW m \in Imports
      PROVE  m \in Mapping /\ m.start \in Addr /\ OnPage(m, m.start)
  BY TableAssumption, EmptyData, SMT DEF OnPage, Mapping
<1>4. ASSUME NEW j \in Addr, NEW m, OnPage(m, j), mappings' = [mappings EXCEPT ![j] = m]
      PROVE  \A k \in Keys(mappings') : OnPage(mappings'[k], k)
  BY <1>1, <1>4 DEF Keys, TypeOK
<1>5. ASSUME NEW m \in Imports, InsertMapping(m)
      PROVE  \A k \in Keys(mappings') : OnPage(mappings'[k], k)
  BY <1>3, <1>4, <1>5 DEF InsertMapping, Put
<1>6. ASSUME NEW m \in Imports, InsertMappingIfAbsent(m)
      PROVE  \A k \in Keys(mappings') : OnPage(mappings'[k], k)
  BY <1>1, <1>3, <1>4, <1>6 DEF InsertMappingIfAbsent, Put
<1>7. ASSUME NEW c \in Captures, NEW k \in Addr,
             FirstContaining(k, c.addr), SplitMapping(c, k)
      PROVE  \A j \in Keys(mappings') : OnPage(mappings'[j], j)
  <2> DEFINE m == mappings[k]
             base == PageStart(c)
             head == FrontPart(m, base)
             tail == BackPart(m, k, base, c)
  <2>1. k \in Keys(mappings) /\ m \in Mapping /\ OnPage(m, k) /\ base \in Addr
    BY <1>1, <1>7, BlobFacts DEF FirstContaining
  <2>2. head.start = m.start /\ head.data = m.data
    BY <2>1 DEF FrontPart, Mapping
  <2>3. OnPage(head, k)
    BY <2>1, <2>2 DEF OnPage
  <2>4. tail.start = base /\ tail.data = Blob(c)
    BY <2>1 DEF BackPart, Mapping
  <2>5. OffsetBehind(m, k, base) <= MaxAddr => OnPage(tail, base)
    BY <2>1, <2>4, PieceTypes, BlobOnPage
  <2>6. CASE mappings' = [mappings EXCEPT ![k] = head]
    BY <1>4, <2>1, <2>3, <2>6
  <2>7. CASE /\ OffsetBehind(m, k, base) <= MaxAddr
             /\ mappings' = [[mappings EXCEPT ![k] = head] EXCEPT ![base] = tail]
    BY <1>1, <2>1, <2>3, <2>5, <2>7 DEF Keys, TypeOK
  <2> QED
    BY <1>7, <2>6, <2>7 DEF SplitMapping, Put
<1>8. ASSUME NEW c \in Captures, NEW k \in Addr,
             FirstContaining(k, c.addr), RefillMapping(c, k)
      PROVE  \A j \in Keys(mappings') : OnPage(mappings'[j], j)
  <2> DEFINE m == [mappings[k] EXCEPT !.start = k, !.data = Blob(c)]
  <2>1. mappings[k] \in Mapping
    BY <1>1, <1>8 DEF FirstContaining
  <2>2. m \in Mapping /\ m.start = k /\ m.data = Blob(c)
    BY <2>1, PieceTypes DEF Mapping
  <2>3. OnPage(m, k)
    BY <1>8, <2>2, BlobOnPage DEF RefillMapping
  <2> QED
    BY <1>4, <1>8, <2>3 DEF RefillMapping
<1>9. ASSUME NEW c \in Captures, SynthesizeMapping(c)
      PROVE  \A j \in Keys(mappings') : OnPage(mappings'[j], j)
  <2>1. CASE SyntheticFits(c) /\ mappings' = [mappings EXCEPT ![PageStart(c)] = Synthetic(c)]
    <3>1. Synthetic(c) \in Mapping
      <4>1. PageEnd(c) \in Addr /\ 0 \in Addr
        BY <2>1, BlobFacts, PageArithAssumption, SMT DEF SyntheticFits, Addr
      <4> QED
        BY <4>1, BlobFacts, TableAssumption DEF Synthetic, Mapping
    <3>2. OnPage(Synthetic(c), PageStart(c))
      BY <3>1, BlobOnPage DEF Synthetic
    <3> QED
      BY <1>4, <2>1, <3>2, BlobFacts
  <2>2. CASE UNCHANGED mappings
    BY <1>1, <2>2
  <2> QED
    BY <1>9, <2>1, <2>2 DEF SynthesizeMapping, Put
<1>10. CASE UNCHANGED vars
  BY <1>1, <1>10 DEF vars
<1> QED
  BY <1>5, <1>6, <1>7, <1>8, <1>9, <1>10 DEF LibraryNext, AddDataToMapping

\* A mapping with captured bytes always starts on a page and holds whole pages,
\* filed under its own start: nothing the callers do can change that.
THEOREM LibraryDataOnPages == LibrarySpec => []DataOnPages
<1>1. Init => TypeOK /\ DataOnPages
  BY TypeInit DEF Init, DataOnPages, Keys
<1>2. TypeOK /\ DataOnPages /\ [LibraryNext]_vars => (TypeOK /\ DataOnPages)'
  BY TypeStep, DataOnPagesStep
<1> QED
  BY <1>1, <1>2, PTL DEF LibrarySpec

-----------------------------------------------------------------------------
(* Inverted ranges come only from mappings that begin off a page.          *)

Upright(m, k) == k % PageSize = 0 => m.start < m.end

\* The page of a blob that lies in a mapping begins no earlier than the mapping, if
\* that begins on a page, and in any case before the mapping ends.
LEMMA PageInside ==
    ASSUME NEW c \in Captures, NEW m \in Mapping, Contains(m, c.addr)
    PROVE  /\ PageStart(c) < m.end
           /\ m.start % PageSize = 0 => m.start <= PageStart(c)
<1>1. /\ m.start \in Nat /\ m.end \in Nat /\ c.addr \in Nat /\ PageStart(c) \in Nat
      /\ PageStart(c) <= c.addr
  BY BlobFacts, SMT DEF Mapping, Addr
<1>2. m.start <= c.addr /\ c.addr < m.end
  BY DEF Contains
<1>3. m.start % PageSize = 0 => m.start <= PageStart(c)
  BY <1>1, <1>2, AlignDownLargest DEF PageStart
<1> QED
  BY <1>1, <1>2, <1>3, SMT

\* A split shortens an upright mapping to the page of the blob, which is above its
\* start unless the start is off a page; all that is inserted is upright.
LEMMA InvertedStep ==
    TypeOK /\ DataOnPages /\ InvertedOffPage /\ [LibraryNext]_vars => InvertedOffPage'
<1> SUFFICES ASSUME TypeOK, DataOnPages, InvertedOffPage, [LibraryNext]_vars
             PROVE  InvertedOffPage'
  OBVIOUS
<1>1. \A k \in Keys(mappings) :
         mappings[k] \in Mapping /\ mappings[k].start = k /\ Upright(mappings[k], k)
  BY DEF DataOnPages, InvertedOffPage, Upright, Keys, TypeOK
<1>2. SUFFICES \A k \in Keys(mappings') : Upright(mappings'[k], k)
  BY DEF InvertedOffPage, Upright
<1>3. ASSUME NEW m \in Imports
      PROVE  m.start \in Addr /\ Upright(m, m.start)
  BY TableAssumption DEF Upright, Mapping
<1>4. ASSUME NEW j \in Addr, NEW m, Upright(m, j), mappings' = [mappings EXCEPT ![j] = m]
      PROVE  \A k \in Keys(mappings') : Upright(mappings'[k], k)
  BY <1>1, <1>4 DEF Keys, TypeOK
<1>5. ASSUME NEW m \in Imports, InsertMapping(m)
      PROVE  \A k \in Keys(mappings') : Upright(mappings'[k], k)
  BY <1>3, <1>4, <1>5 DEF InsertMapping, Put
<1>6. ASSUME NEW m \in Imports, InsertMappingIfAbsent(m)
      PROVE  \A k \in Keys(mappings') : Upright(mappings'[k], k)
  BY <1>1, <1>3, <1>4, <1>6 DEF InsertMappingIfAbsent, Put
<1>7. ASSUME NEW c \in Captures, NEW k \in Addr,
             FirstContaining(k, c.addr), SplitMapping(c, k)
      PROVE  \A j \in Keys(mappings') : Upright(mappings'[j], j)
  <2> DEFINE m == mappings[k]
             base == PageStart(c)
             head == FrontPart(m, base)
             tail == BackPart(m, k, base, c)
  <2>1. /\ k \in Keys(mappings) /\ m \in Mapping /\ m.start = k /\ base \in Addr
        /\ Contains(m, c.addr) /\ base # k
    BY <1>1, <1>7, BlobFacts DEF FirstContaining, SplitMapping
  <2>2. base < m.end /\ (k % PageSize = 0 => k <= base)
    BY <2>1, PageInside
  <2>3. head.start = k /\ head.end = base /\ tail.start = base /\ tail.end = m.end
    BY <2>1 DEF FrontPart, BackPart, Mapping
  <2>4. k \in Nat /\ base \in Nat
    BY <2>1, SMT DEF Addr
  <2>5. Upright(head, k) /\ Upright(tail, base)
    <3>1. k % PageSize = 0 => k < base
      BY <2>1, <2>2, <2>4, SMT
    <3> QED
      BY <2>2, <2>3, <3>1 DEF Upright
  <2>6. CASE mappings' = [mappings EXCEPT ![k] = head]
    BY <1>4, <2>5, <2>6
  <2>7. CASE mappings' = [[mappings EXCEPT ![k] = head] EXCEPT ![base] = tail]
    <3> HIDE DEF head, tail, base, m
    <3> QED
      BY <1>1, <2>1, <2>5, <2>7 DEF Keys, TypeOK
  <2> QED
    BY <1>7, <2>6, <2>7 DEF SplitMapping, Put
<1>8. ASSUME NEW c \in Captures, NEW k \in Addr,
             FirstContaining(k, c.addr), RefillMapping(c, k)
      PROVE  \A j \in Keys(mappings') : Upright(mappings'[j], j)
  <2> DEFINE m == [mappings[k] EXCEPT !.start = k, !.data = Blob(c)]
  <2>1. mappings[k] \in Mapping /\ mappings[k].start = k /\ Upright(mappings[k], k)
    BY <1>1, <1>8 DEF FirstContaining
  <2>2. Upright(m, k)
    BY <2>1 DEF Upright, Mapping
  <2> QED
    BY <1>4, <1>8, <2>2 DEF RefillMapping
<1>9. ASSUME NEW c \in Captures, SynthesizeMapping(c)
      PROVE  \A j \in Keys(mappings') : Upright(mappings'[j], j)
  <2>1. CASE SyntheticFits(c) /\ mappings' = [mappings EXCEPT ![PageStart(c)] = Synthetic(c)]
    <3>1. Upright(Synthetic(c), PageStart(c)) /\ PageStart(c) \in Addr
      BY <2>1, BlobFacts DEF SyntheticFits, Synthetic, Upright
    <3> QED
      BY <1>4, <2>1, <3>1
  <2>2. CASE UNCHANGED mappings
    BY <1>1, <2>2
  <2> QED
    BY <1>9, <2>1, <2>2 DEF SynthesizeMapping, Put
<1>10. CASE UNCHANGED vars
  BY <1>1, <1>10 DEF vars
<1> QED
  BY <1>5, <1>6, <1>7, <1>8, <1>9, <1>10 DEF LibraryNext, AddDataToMapping

\* Whatever is called in whatever order, half splits and panics included, a mapping
\* that begins on a page is never inverted.
THEOREM LibraryInvertedOffPage == LibrarySpec => []InvertedOffPage
<1>1. Init => TypeOK /\ DataOnPages /\ InvertedOffPage
  BY TypeInit DEF Init, DataOnPages, InvertedOffPage, Keys
<1>2. TypeOK /\ DataOnPages /\ InvertedOffPage /\ [LibraryNext]_vars
         => (TypeOK /\ DataOnPages /\ InvertedOffPage)'
  BY TypeStep, DataOnPagesStep, InvertedStep
<1> QED
  BY <1>1, <1>2, PTL DEF LibrarySpec

-----------------------------------------------------------------------------
(***************************************************************************)
(* Injection into the mappings of a live process: LiveInv is inductive,    *)
(* and implies that segments are disjoint, that no segment carries more    *)
(* bytes than it spans, that no captured byte is lost and that no file     *)
(* mapping is moved.                                                       *)
(***************************************************************************)

\* The page of a non-empty blob begins at or before its address and ends
\* behind it.
LEMMA BlobOrder ==
    ASSUME NEW c \in Captures, c.len > 0
    PROVE  /\ c.addr \in Nat /\ c.len \in Nat
           /\ PageStart(c) \in Nat /\ PageEnd(c) \in Nat
           /\ PageStart(c) <= c.addr /\ c.addr + c.len <= PageEnd(c)
           /\ c.addr < PageEnd(c) /\ PageStart(c) < PageEnd(c)
BY BlobFacts, SMT DEF Addr

\* A region that contains a blob contains its pages, for it is made of pages.
LEMMA WithinPages ==
    ASSUME NEW c \in Captures, NEW lo \in Nat, NEW hi \in Nat,
           lo % PageSize = 0, hi % PageSize = 0,
           lo <= c.addr, c.addr + c.len <= hi
    PROVE  lo <= PageStart(c) /\ PageEnd(c) <= hi
<1>1. c.addr \in Nat /\ c.addr + c.len \in Nat
  BY BlobFacts, SMT DEF Addr
<1> QED
  BY <1>1, AlignDownLargest, AlignUpSmallest DEF PageStart, PageEnd

-----------------------------------------------------------------------------
(* Reading: until the first injection the table is what was imported.      *)

LEMMA FreshLive ==
    ASSUME TypeOK', status' = "ok", captured' = {}, mappings' = imported', RegionsOK'
    PROVE  LiveInv'
<1>1. ASSUME NEW k \in Keys(mappings')
      PROVE  /\ PieceOf(mappings[k], imported[k])'
             /\ mappings'[k].data = NoData /\ mappings'[k].start = k
             /\ mappings'[k].start < mappings'[k].end
             /\ \A j \in Keys(mappings') : j # k => Apart(mappings'[j], mappings'[k])
             /\ k \in Keys(imported')
  <2>1. k \in Keys(imported') /\ mappings'[k] = imported'[k] /\ imported'[k] \in Mapping
    BY <1>1 DEF Keys, TypeOK
  <2>2. /\ imported'[k].start = k /\ imported'[k].start < imported'[k].end
        /\ imported'[k].start % PageSize = 0 /\ imported'[k].data = NoData
        /\ \A j \in Keys(imported') : j # k => Apart(imported'[j], imported'[k])
    BY <2>1 DEF RegionsOK
  <2>3. /\ imported'[k].start \in Nat /\ imported'[k].end \in Nat
        /\ imported'[k].offset \in Nat
    BY <2>1, PageArithAssumption, SMT DEF Mapping, Addr
  <2>4. PieceOf(mappings[k], imported[k])'
    BY <2>1, <2>2, <2>3, SMT DEF PieceOf
  <2> QED
    BY <2>1, <2>2, <2>4
<1>2. EntriesOK'
  BY <1>1 DEF EntriesOK
<1>3. DisjointMappings'
  BY <1>1 DEF DisjointMappings
<1>4. RegionsCovered' /\ BlobsHeld' /\ BlobsOK'
  BY DEF RegionsCovered, BlobsHeld, BlobsOK, Keys
<1> QED
  BY <1>2, <1>3, <1>4 DEF LiveInv

\* Replacing or adding a live region keeps the regions well formed.
LEMMA PutRegion ==
    ASSUME LiveInv, captured = {}, NEW m \in Imports, LiveImport(m),
           mappings' = Put(m.start, m), imported' = mappings', TypeOK'
    PROVE  RegionsOK'
<1>1. mappings = imported /\ m \in Mapping /\ m.start < m.end /\ m.data = NoData
  BY TableAssumption DEF LiveInv
<1>2. m.start \in Addr
  BY <1>1 DEF Mapping
<1> DEFINE t == [mappings EXCEPT ![m.start] = m]
<1>3. imported' = t /\ t \in [Addr -> Mapping \cup {Absent}]
  BY DEF Put, TypeOK
<1>4. ASSUME NEW k \in Addr, t[k] # Absent, k # m.start
      PROVE  /\ k \in Keys(mappings) /\ t[k] = mappings[k] /\ mappings[k] \in Mapping
             /\ mappings[k].start = k
             /\ Apart(m, mappings[k]) /\ Apart(mappings[k], m)
  <2>1. k \in Keys(mappings) /\ t[k] = mappings[k] /\ mappings[k] \in Mapping
    BY <1>4 DEF Keys, LiveInv, TypeOK
  <2>2. mappings[k].start = k
    BY <1>1, <2>1 DEF LiveInv, RegionsOK
  <2>3. Apart(m, mappings[k])
    BY <1>4, <2>1, <2>2 DEF LiveImport, SameRange
  <2> QED
    BY <2>1, <2>2, <2>3 DEF Apart
<1>5. t[m.start] = m
  BY <1>2 DEF LiveInv, TypeOK
<1>6. ASSUME NEW k \in Addr, t[k] # Absent
      PROVE  /\ t[k].start = k /\ t[k].start < t[k].end /\ t[k].data = NoData
             /\ t[k].start % PageSize = 0 /\ t[k].end % PageSize = 0
             /\ t[k].filename # NoFile => t[k].offset + (t[k].end - t[k].start) <= MaxAddr
             /\ \A j \in Addr : t[j] # Absent /\ j # k => Apart(t[j], t[k])
  <2>1. CASE k = m.start
    BY <1>1, <1>4, <1>5, <2>1 DEF LiveImport
  <2>2. CASE k # m.start
    <3>1. /\ k \in Keys(imported) /\ t[k] = imported[k]
          /\ Apart(m, t[k])
      BY <1>1, <1>4, <1>6, <2>2
    <3>2. ASSUME NEW j \in Addr, t[j] # Absent, j # k
          PROVE  Apart(t[j], t[k])
      <4>1. CASE j = m.start
        BY <1>5, <3>1, <4>1
      <4>2. CASE j # m.start
        BY <1>1, <1>4, <3>1, <3>2, <4>2 DEF LiveInv, RegionsOK
      <4> QED
        BY <4>1, <4>2
    <3> QED
      BY <3>1, <3>2 DEF LiveInv, RegionsOK
  <2> QED
    BY <2>1, <2>2
<1> QED
  BY <1>3, <1>6 DEF RegionsOK, Keys

\* A maps line or a module keeps the invariant.
LEMMA ReadStep ==
    ASSUME LiveInv, TypeOK', ReadMapsLine \/ ReadModule
    PROVE  LiveInv'
<1>1. ASSUME NEW m \in Imports, captured = {}, LiveImport(m),
             mappings' = Put(m.start, m), imported' = mappings',
             status' = "ok", captured' = captured
      PROVE  LiveInv'
  BY <1>1, PutRegion, FreshLive
<1>2. CASE ReadMapsLine
  BY <1>1, <1>2 DEF ReadMapsLine, InsertMapping
<1>3. CASE ReadModule
  <2>1. PICK m \in Imports : /\ captured = {}
                             /\ m.start \in Keys(mappings) \/ LiveImport(m)
                             /\ InsertMappingIfAbsent(m)
    BY <1>3 DEF ReadModule
  <2>2. CASE mappings[m.start] = Absent
    BY <1>1, <2>1, <2>2 DEF InsertMappingIfAbsent, Keys
  <2>3. CASE mappings[m.start] # Absent
    <3>1. mappings' = imported' /\ imported' = imported /\ status' = "ok" /\ captured' = {}
      BY <2>1, <2>3 DEF InsertMappingIfAbsent, LiveInv
    <3>2. RegionsOK'
      BY <3>1 DEF LiveInv, RegionsOK
    <3> QED
      BY <3>1, <3>2, FreshLive
  <2> QED
    BY <2>2, <2>3
<1> QED
  BY <1>2, <1>3

-----------------------------------------------------------------------------
(* Injection.                                                              *)

\* What LiveInv says of one entry.
LEMMA EntryFacts ==
    ASSUME LiveInv, NEW k \in Keys(mappings)
    PROVE  /\ k \in Addr /\ mappings[k] \in Mapping /\ mappings[k].start = k
           /\ k \in Nat /\ mappings[k].end \in Nat /\ k < mappings[k].end
           /\ mappings[k].end <= MaxAddr /\ mappings[k].offset \in Nat
           /\ k % PageSize = 0
           /\ \A j \in Keys(mappings) : j # k => Apart(mappings[j], mappings[k])
<1>1. k \in Addr /\ mappings[k] \in Mapping /\ mappings[k].start = k
  BY DEF LiveInv, EntriesOK, Keys, TypeOK
<1>2. /\ k \in Nat /\ mappings[k].end \in Nat /\ mappings[k].end <= MaxAddr
      /\ mappings[k].offset \in Nat
  BY <1>1, PageArithAssumption, SMT DEF Mapping, Addr
<1>3. k < mappings[k].end
  BY <1>1 DEF LiveInv, DisjointMappings
<1>4. k % PageSize = 0
  <2>1. CASE \E j \in Keys(imported) : PieceOf(mappings[k], imported[j])
    BY <1>1, <2>1 DEF PieceOf
  <2>2. CASE \E c \in captured : HomeOf(mappings[k], c)
    BY <1>1, <2>2, BlobFacts DEF HomeOf, Synthetic, LiveInv, TypeOK
  <2> QED
    BY <2>1, <2>2 DEF LiveInv, EntriesOK
<1> QED
  BY <1>1, <1>2, <1>3, <1>4 DEF LiveInv, DisjointMappings

LEMMA RegionFacts ==
    ASSUME LiveInv, NEW j \in Keys(imported)
    PROVE  /\ imported[j] \in Mapping
           /\ imported[j].start \in Nat /\ imported[j].end \in Nat
           /\ imported[j].offset \in Nat
           /\ imported[j].start < imported[j].end /\ imported[j].end <= MaxAddr
           /\ imported[j].start % PageSize = 0 /\ imported[j].end % PageSize = 0
<1>1. imported[j] \in Mapping
  BY DEF LiveInv, TypeOK, Keys
<1>2. /\ imported[j].start \in Nat /\ imported[j].end \in Nat
      /\ imported[j].offset \in Nat /\ imported[j].end <= MaxAddr
  BY <1>1, PageArithAssumption, SMT DEF Mapping, Addr
<1> QED
  BY <1>1, <1>2 DEF LiveInv, RegionsOK

\* A new blob has a home of its own: the entry that contains its address is a
\* piece of the region it was read from, and its pages fit into that piece.
LEMMA BlobFitsPiece ==
    ASSUME LiveInv, NEW c \in Captures, LiveCapture(c),
           NEW k \in Keys(mappings), Contains(mappings[k], c.addr)
    PROVE  /\ k <= PageStart(c) /\ PageEnd(c) <= mappings[k].end
           /\ \E j \in Keys(imported) :
                 PieceOf(mappings[k], imported[j]) /\ Within(c, imported[j])
<1> DEFINE m == mappings[k]
<1>1. /\ m.start = k /\ k \in Nat /\ m.end \in Nat /\ k % PageSize = 0
      /\ k <= c.addr /\ c.addr < m.end
  BY EntryFacts DEF Contains
<1>2. /\ c.addr \in Nat /\ c.len \in Nat /\ c.len > 0
      /\ PageStart(c) \in Nat /\ PageEnd(c) \in Nat
      /\ PageStart(c) <= c.addr /\ c.addr + c.len <= PageEnd(c) /\ c.addr < PageEnd(c)
  BY BlobOrder DEF LiveCapture
<1>3. k <= PageStart(c)
  BY <1>1, <1>2, AlignDownLargest DEF PageStart
<1>4. ASSUME NEW d \in captured
      PROVE  /\ ApartPages(c, d)
             /\ PageStart(d) \in Nat /\ PageEnd(d) \in Nat /\ PageStart(d) < PageEnd(d)
  BY <1>4, BlobOrder DEF LiveCapture, LiveInv, BlobsOK, TypeOK
<1>5. ASSUME NEW d \in captured, HomeOf(m, d)
      PROVE  FALSE
  <2>1. m.start = PageStart(d) /\ m.end = PageEnd(d)
    BY <1>5 DEF HomeOf, Synthetic
  <2> QED
    BY <1>1, <1>2, <1>4, <2>1, SMT DEF ApartPages
<1>6. PICK j \in Keys(imported) : PieceOf(m, imported[j])
  BY <1>5 DEF LiveInv, EntriesOK
<1>7. /\ imported[j].start \in Nat /\ imported[j].end \in Nat
      /\ imported[j].start <= c.addr /\ c.addr < imported[j].end
      /\ imported[j].end % PageSize = 0 /\ imported[j].start % PageSize = 0
  BY <1>1, <1>2, <1>6, RegionFacts, SMT DEF PieceOf
<1>8. Within(c, imported[j])
  <2>1. ASSUME OutsideRegions(c)
        PROVE  FALSE
    BY <1>2, <1>7, <2>1, SMT DEF OutsideRegions, Outside
  <2>2. PICK i \in Keys(imported) : Within(c, imported[i])
    BY <2>1 DEF LiveCapture, OutsideRegions
  <2>3. imported[i].start \in Nat /\ imported[i].end \in Nat
    BY RegionFacts
  <2>4. CASE i # j
    <3>1. Apart(imported[i], imported[j])
      BY <2>4 DEF LiveInv, RegionsOK
    <3> QED
      BY <1>2, <1>7, <2>2, <2>3, <3>1, SMT DEF Apart, Within
  <2> QED
    BY <2>2, <2>4
<1>9. PageEnd(c) <= m.end
  <2>1. CASE m.end = imported[j].end
    BY <1>7, <1>8, <2>1, WithinPages DEF Within
  <2>2. ASSUME NEW d \in captured, m.end = PageStart(d)
        PROVE  PageEnd(c) <= m.end
    BY <1>1, <1>2, <1>4, <2>2, SMT DEF ApartPages
  <2> QED
    BY <1>6, <2>1, <2>2 DEF PieceOf
<1> QED
  BY <1>3, <1>6, <1>8, <1>9

\* A blob in no entry lies outside every region and every entry.
LEMMA BlobOutside ==
    ASSUME LiveInv, NEW c \in Captures, LiveCapture(c), NoneContaining(c.addr)
    PROVE  /\ OutsideRegions(c)
           /\ \A k \in Keys(mappings) :
                 mappings[k].end <= PageStart(c) \/ PageEnd(c) <= mappings[k].start
<1>1. /\ c.addr \in Nat /\ c.len \in Nat /\ c.len > 0 /\ c.addr \in Addr
      /\ PageStart(c) \in Nat /\ PageEnd(c) \in Nat
      /\ PageStart(c) <= c.addr /\ c.addr + c.len <= PageEnd(c) /\ c.addr < PageEnd(c)
  BY BlobOrder, BlobFacts DEF LiveCapture
<1>2. ASSUME NEW j \in Keys(imported), Within(c, imported[j])
      PROVE  FALSE
  <2>1. Contains(imported[j], c.addr)
    BY <1>1, <1>2, RegionFacts, SMT DEF Contains, Within
  <2> QED
    BY <1>1, <2>1 DEF LiveInv, RegionsCovered, NoneContaining
<1>3. OutsideRegions(c)
  BY <1>2 DEF LiveCapture, OutsideRegions
<1>4. ASSUME NEW k \in Keys(mappings)
      PROVE  mappings[k].end <= PageStart(c) \/ PageEnd(c) <= mappings[k].start
  <2>1. mappings[k].start \in Nat /\ mappings[k].end \in Nat
    BY EntryFacts
  <2>2. ASSUME NEW j \in Keys(imported), PieceOf(mappings[k], imported[j])
        PROVE  mappings[k].end <= PageStart(c) \/ PageEnd(c) <= mappings[k].start
    <3>1. Outside(c, imported[j])
      BY <1>3 DEF OutsideRegions
    <3> QED
      BY <1>1, <2>1, <2>2, <3>1, RegionFacts, SMT DEF Outside, PieceOf
  <2>3. ASSUME NEW d \in captured, HomeOf(mappings[k], d)
        PROVE  mappings[k].end <= PageStart(c) \/ PageEnd(c) <= mappings[k].start
    <3>1. mappings[k].start = PageStart(d) /\ mappings[k].end = PageEnd(d)
      BY <2>3 DEF HomeOf, Synthetic
    <3> QED
      BY <3>1 DEF LiveCapture, ApartPages
  <2> QED
    BY <2>2, <2>3 DEF LiveInv, EntriesOK
<1> QED
  BY <1>3, <1>4

\* The new blob joins the others: BlobsOK and RegionsOK speak of no entry.
LEMMA BlobsGrow ==
    ASSUME LiveInv, NEW c \in Captures, LiveCapture(c),
           captured' = captured \cup {c}, imported' = imported
    PROVE  /\ BlobsOK' /\ RegionsOK'
           /\ \A d \in captured : d \in Captures /\ d # c /\ ApartPages(c, d)
<1>1. ASSUME NEW d \in captured
      PROVE  d \in Captures /\ d # c /\ ApartPages(c, d) /\ ApartPages(d, c)
  <2>1. d \in Captures /\ ApartPages(c, d) /\ ApartPages(d, c)
    BY <1>1 DEF LiveCapture, LiveInv, TypeOK, ApartPages
  <2>2. c # d
    BY <2>1, BlobOrder, SMT DEF ApartPages, LiveCapture
  <2> QED
    BY <2>1, <2>2
<1>2. BlobsOK'
  BY <1>1 DEF BlobsOK, LiveInv, LiveCapture, OutsideRegions
<1>3. RegionsOK'
  BY DEF RegionsOK, LiveInv
<1> QED
  BY <1>1, <1>2, <1>3

\* An entry that the injection leaves alone stays accounted for.
LEMMA OldEntry ==
    ASSUME LiveInv, NEW c \in Captures,
           captured' = captured \cup {c}, imported' = imported,
           NEW k \in Keys(mappings), mappings'[k] = mappings[k]
    PROVE  /\ mappings'[k].start = k
           /\ \/ \E j \in Keys(imported') : PieceOf(mappings[k], imported[j])'
              \/ \E d \in captured' : HomeOf(mappings[k], d)'
           /\ mappings'[k].data = NoData \/ \E d \in captured' : HoldsBlob(mappings[k], d)'
<1>1. mappings'[k].start = k
  BY DEF LiveInv, EntriesOK
<1>2. ASSUME NEW j \in Keys(imported), PieceOf(mappings[k], imported[j])
      PROVE  \E i \in Keys(imported') : PieceOf(mappings[k], imported[i])'
  BY <1>2 DEF PieceOf
<1>3. ASSUME NEW d \in captured, HomeOf(mappings[k], d)
      PROVE  \E e \in captured' : HomeOf(mappings[k], e)'
  BY <1>3 DEF HomeOf, OutsideRegions
<1>4. ASSUME NEW d \in captured, HoldsBlob(mappings[k], d)
      PROVE  \E e \in captured' : HoldsBlob(mappings[k], e)'
  BY <1>4 DEF HoldsBlob
<1> QED
  BY <1>1, <1>2, <1>3, <1>4 DEF LiveInv, EntriesOK

\* Cutting a live mapping in two keeps the invariant, and neither fails.
LEMMA SplitStep ==
    ASSUME LiveInv, TypeOK', NEW c \in Captures, LiveCapture(c),
           NEW k \in Keys(mappings), Contains(mappings[k], c.addr), SplitMapping(c, k)
    PROVE  LiveInv'
<1> DEFINE m    == mappings[k]
           base == PageStart(c)
           head == FrontPart(m, base)
           tail == BackPart(m, k, base, c)
           top  == PageEnd(c)
<1>1. /\ k \in Addr /\ m \in Mapping /\ m.start = k /\ k \in Nat
      /\ m.end \in Nat /\ m.end <= MaxAddr /\ m.offset \in Nat /\ k % PageSize = 0
  BY EntryFacts
<1>2. PICK j \in Keys(imported) : PieceOf(m, imported[j]) /\ Within(c, imported[j])
  BY BlobFitsPiece
<1>3. /\ base \in Nat /\ base \in Addr /\ top \in Nat /\ base % PageSize = 0
      /\ k < base /\ base < top /\ top <= m.end
  <2>1. base \in Addr /\ base % PageSize = 0
    BY BlobFacts
  <2>2. base \in Nat /\ top \in Nat /\ base < top
    BY BlobOrder DEF LiveCapture
  <2>3. k <= base /\ top <= m.end
    BY BlobFitsPiece
  <2>4. base # k
    BY DEF SplitMapping
  <2> QED
    BY <1>1, <2>1, <2>2, <2>3, <2>4, SMT
<1>4. /\ imported[j].start \in Nat /\ imported[j].end \in Nat /\ imported[j].offset \in Nat
      /\ imported[j].start <= k /\ m.end <= imported[j].end
      /\ m.filename = imported[j].filename
      /\ m.filename # NoFile =>
            /\ imported[j].offset + (imported[j].end - imported[j].start) <= MaxAddr
            /\ m.offset = imported[j].offset + (k - imported[j].start)
      /\ m.filename = NoFile => m.offset = imported[j].offset
  BY <1>1, <1>2, RegionFacts DEF PieceOf, LiveInv, RegionsOK
<1>5. /\ OffsetBehind(m, k, base) <= MaxAddr
      /\ OffsetBehind(m, k, base) = IF imported[j].filename = NoFile THEN imported[j].offset
                                    ELSE imported[j].offset + (base - imported[j].start)
  <2>1. WrapSub(base, k) = base - k
    BY <1>1, <1>3, WrapSubAbove
  <2>2. CASE m.filename = NoFile
    <3>1. m.offset <= MaxAddr
      BY <1>1, PageArithAssumption, SMT DEF Mapping, Addr
    <3> QED
      BY <1>4, <2>2, <3>1 DEF OffsetBehind
  <2>3. CASE m.filename # NoFile
    <3>1. OffsetBehind(m, k, base) = m.offset + (base - k)
      BY <2>1, <2>3 DEF OffsetBehind
    <3>2. OffsetBehind(m, k, base) = imported[j].offset + (base - imported[j].start)
      BY <1>1, <1>3, <1>4, <2>3, <3>1, SMT
    <3>3. imported[j].offset + (base - imported[j].start) <= MaxAddr
      BY <1>1, <1>3, <1>4, <2>3, PageArithAssumption, SMT
    <3> QED
      BY <1>4, <2>3, <3>2, <3>3
  <2> QED
    BY <2>2, <2>3
<1>6. /\ mappings' = [Put(k, head) EXCEPT ![base] = tail]
      /\ status' = "ok" /\ captured' = captured \cup {c} /\ imported' = imported
  <2>1. ~(OffsetBehind(m, k, base) > MaxAddr) /\ ~(base < k)
    <3> DEFINE x == OffsetBehind(m, k, base)
    <3>1. x \in Nat /\ x <= MaxAddr
      BY <1>1, <1>3, <1>5, OffsetBehindNat
    <3>2. ~(base < k)
      BY <1>1, <1>3, SMT
    <3> HIDE DEF x
    <3>3. ~(x > MaxAddr)
      BY <3>1, PageArithAssumption, SMT
    <3> QED
      BY <3>2, <3>3 DEF x
  <2>2. mappings' = [Put(k, head) EXCEPT ![base] = tail] /\ Return("ok", c)
    BY <2>1 DEF SplitMapping
  <2> QED
    BY <2>2 DEF Return
<1>7. base \notin Keys(mappings)
  <2>1. ASSUME base \in Keys(mappings)
        PROVE  FALSE
    <3>1. Apart(mappings[base], m) /\ mappings[base].start = base
          /\ mappings[base].end \in Nat /\ base < mappings[base].end
      BY <1>3, <2>1, EntryFacts
    <3> QED
      BY <1>1, <1>3, <3>1, SMT DEF Apart
  <2> QED
    BY <2>1
<1>8. /\ mappings'[k] = head /\ mappings'[base] = tail
      /\ \A i \in Addr : i # k /\ i # base => mappings'[i] = mappings[i]
  BY <1>1, <1>3, <1>6 DEF Put, LiveInv, TypeOK
<1>9. head \in Mapping /\ tail \in Mapping /\ Keys(mappings') = Keys(mappings) \cup {base}
  <2>1. head \in Mapping /\ tail \in Mapping
    BY <1>1, <1>5, PieceTypes
  <2> QED
    BY <1>1, <1>3, <1>8, <2>1, TableAssumption DEF Keys
<1>10. /\ head.start = k /\ head.end = base /\ head.data = m.data
       /\ head.offset = m.offset /\ head.filename = m.filename
       /\ head.permissions = m.permissions
       /\ tail.start = base /\ tail.end = m.end /\ tail.data = Blob(c)
       /\ tail.offset = OffsetBehind(m, k, base) /\ tail.filename = m.filename
       /\ tail.permissions = m.permissions
  BY <1>1 DEF FrontPart, BackPart, Mapping
<1> HIDE DEF head, tail
<1>11. /\ BlobsOK' /\ RegionsOK'
       /\ \A d \in captured : d \in Captures /\ d # c /\ ApartPages(c, d)
  BY <1>6, BlobsGrow
<1>12. PieceOf(mappings[k], imported[j])' /\ PieceOf(mappings[base], imported[j])'
  <2>1. PieceOf(mappings[k], imported[j])'
    BY <1>1, <1>2, <1>3, <1>4, <1>6, <1>8, <1>10, SMT DEF PieceOf
  <2>2. \/ m.end = imported[j].end
        \/ \E d \in captured : m.end = PageStart(d)
    BY <1>2 DEF PieceOf
  <2>3. m.permissions = imported[j].permissions
    BY <1>2 DEF PieceOf
  <2>4. /\ imported'[j] = imported[j] /\ mappings'[base] = tail
        /\ tail.end = imported[j].end \/ \E d \in captured' : tail.end = PageStart(d)
    BY <1>6, <1>8, <1>10, <2>2
  <2>5. /\ imported[j].start <= tail.start /\ tail.start < tail.end
        /\ tail.end <= imported[j].end /\ tail.start % PageSize = 0
    BY <1>1, <1>3, <1>4, <1>10, SMT
  <2>6. PieceOf(mappings[base], imported[j])'
    BY <1>4, <1>5, <1>10, <2>3, <2>4, <2>5 DEF PieceOf
  <2> QED
    BY <2>1, <2>6
<1>13. HoldsBlob(mappings[base], c)'
  BY <1>3, <1>8, <1>10 DEF HoldsBlob
<1>14. ASSUME NEW d \in captured, HoldsBlob(m, d)
       PROVE  HoldsBlob(mappings[k], d)'
  <2>1. /\ PageStart(d) = k /\ PageEnd(d) \in Nat /\ m.data = Blob(d) /\ ApartPages(c, d)
    BY <1>1, <1>11, <1>14, BlobFacts DEF HoldsBlob
  <2>2. PageEnd(d) <= base
    BY <1>1, <1>3, <2>1, SMT DEF ApartPages
  <2> QED
    BY <1>8, <1>10, <2>1, <2>2 DEF HoldsBlob
<1>15. EntriesOK'
  <2>1. ASSUME NEW i \in Keys(mappings')
        PROVE  /\ mappings'[i].start = i
               /\ \/ \E r \in Keys(imported') : PieceOf(mappings[i], imported[r])'
                  \/ \E d \in captured' : HomeOf(mappings[i], d)'
               /\ \/ mappings'[i].data = NoData
                  \/ \E d \in captured' : HoldsBlob(mappings[i], d)'
    <3>1. CASE i = base
      BY <1>6, <1>8, <1>10, <1>12, <1>13, <3>1
    <3>2. CASE i = k
      <4>1. m.data = NoData \/ \E d \in captured : HoldsBlob(m, d)
        BY DEF LiveInv, EntriesOK
      <4> QED
        BY <1>6, <1>8, <1>10, <1>12, <1>14, <3>2, <4>1
    <3>3. CASE i # base /\ i # k
      <4>1. i \in Keys(mappings) /\ mappings'[i] = mappings[i]
        BY <1>8, <1>9, <3>3 DEF Keys
      <4> QED
        BY <1>6, <4>1, OldEntry
    <3> QED
      BY <3>1, <3>2, <3>3
  <2> QED
    BY <2>1 DEF EntriesOK
<1>16. DisjointMappings'
  <2>1. ASSUME NEW i \in Keys(mappings), i # k
        PROVE  /\ i # base /\ mappings'[i] = mappings[i]
               /\ mappings[i].start \in Nat /\ mappings[i].end \in Nat
               /\ mappings[i].start < mappings[i].end
               /\ Apart(mappings[i], head) /\ Apart(mappings[i], tail)
               /\ Apart(head, mappings[i]) /\ Apart(tail, mappings[i])
    <3>1. i # base /\ mappings'[i] = mappings[i]
      BY <1>7, <1>8, <2>1 DEF Keys
    <3>2. /\ mappings[i].start \in Nat /\ mappings[i].end \in Nat
          /\ mappings[i].start < mappings[i].end
          /\ Apart(mappings[i], m)
      BY <2>1, EntryFacts
    <3> QED
      BY <1>1, <1>3, <1>10, <3>1, <3>2, SMT DEF Apart
  <2>2. head.start < head.end /\ tail.start < tail.end
        /\ Apart(head, tail) /\ Apart(tail, head)
    BY <1>1, <1>3, <1>10, SMT DEF Apart
  <2>3. ASSUME NEW i \in Keys(mappings'), NEW n \in Keys(mappings'), n # i
        PROVE  mappings'[i].start < mappings'[i].end /\ Apart(mappings'[n], mappings'[i])
    <3>1. /\ i = base \/ i = k \/ (i \in Keys(mappings) /\ i # k)
          /\ n = base \/ n = k \/ (n \in Keys(mappings) /\ n # k)
      BY <1>9
    <3>2. ASSUME i \in Keys(mappings), i # k, n \in Keys(mappings), n # k
          PROVE  Apart(mappings[n], mappings[i])
      BY <2>3, <3>2, EntryFacts
    <3> QED
      BY <1>8, <2>1, <2>2, <2>3, <3>1, <3>2
  <2>4. \A i \in Keys(mappings') : mappings'[i].start < mappings'[i].end
    BY <1>8, <1>9, <2>1, <2>2
  <2> QED
    BY <2>3, <2>4 DEF DisjointMappings
<1>17. RegionsCovered'
  <2>1. ASSUME NEW i \in Keys(mappings), NEW a \in Addr, Contains(mappings[i], a)
        PROVE  \E n \in Keys(mappings') : Contains(mappings'[n], a)
    <3>1. CASE i # k
      BY <1>7, <1>8, <1>9, <2>1, <3>1 DEF Keys
    <3>2. CASE i = k
      <4>1. Contains(head, a) \/ Contains(tail, a)
        BY <1>1, <1>3, <1>10, <2>1, <3>2, PageArithAssumption, SMT DEF Contains, Addr
      <4> QED
        BY <1>8, <1>9, <4>1
    <3> QED
      BY <3>1, <3>2
  <2> QED
    BY <1>6, <2>1 DEF RegionsCovered, LiveInv
<1>18. BlobsHeld'
  <2>1. ASSUME NEW d \in captured
        PROVE  PageStart(d) \in Keys(mappings') /\ HoldsBlob(mappings[PageStart(d)], d)'
    <3>1. PageStart(d) \in Keys(mappings) /\ HoldsBlob(mappings[PageStart(d)], d)
      BY <2>1 DEF LiveInv, BlobsHeld
    <3>2. CASE PageStart(d) = k
      BY <1>9, <1>14, <3>1, <3>2
    <3>3. CASE PageStart(d) # k
      BY <1>7, <1>8, <1>9, <3>1, <3>3 DEF Keys, HoldsBlob
    <3> QED
      BY <3>2, <3>3
  <2> QED
    BY <1>6, <1>9, <1>13, <2>1 DEF BlobsHeld
<1> QED
  BY <1>6, <1>11, <1>15, <1>16, <1>17, <1>18 DEF LiveInv

\* Refilling a live mapping overwrites no earlier blob.
LEMMA RefillStep ==
    ASSUME LiveInv, TypeOK', NEW c \in Captures, LiveCapture(c),
           NEW k \in Keys(mappings), Contains(mappings[k], c.addr), RefillMapping(c, k)
    PROVE  LiveInv'
<1> DEFINE m   == mappings[k]
           new == [m EXCEPT !.start = k, !.data = Blob(c)]
<1>1. k \in Addr /\ m \in Mapping /\ m.start = k
  BY EntryFacts
<1>2. PICK j \in Keys(imported) : PieceOf(m, imported[j])
  BY BlobFitsPiece
<1>3. PageEnd(c) <= m.end
  BY BlobFitsPiece
<1>4. /\ mappings' = [mappings EXCEPT ![k] = new] /\ PageStart(c) = k
      /\ status' = "ok" /\ captured' = captured \cup {c} /\ imported' = imported
  BY DEF RefillMapping, Return
<1>5. /\ new \in Mapping /\ new.start = k /\ new.data = Blob(c) /\ new.end = m.end
      /\ new.offset = m.offset /\ new.filename = m.filename
      /\ new.permissions = m.permissions
  BY <1>1, PieceTypes DEF Mapping
<1> HIDE DEF new
<1>6. /\ mappings'[k] = new /\ Keys(mappings') = Keys(mappings)
      /\ \A i \in Addr : i # k => mappings'[i] = mappings[i]
  BY <1>1, <1>4, <1>5, TableAssumption DEF Keys, LiveInv, TypeOK
<1>7. /\ BlobsOK' /\ RegionsOK'
      /\ \A d \in captured : d \in Captures /\ d # c /\ ApartPages(c, d)
  BY <1>4, BlobsGrow
<1>8. HoldsBlob(mappings[k], c)'
  BY <1>3, <1>4, <1>5, <1>6 DEF HoldsBlob
<1>9. PieceOf(mappings[k], imported[j])'
  BY <1>1, <1>2, <1>4, <1>5, <1>6 DEF PieceOf
<1>10. EntriesOK'
  <2>1. ASSUME NEW i \in Keys(mappings')
        PROVE  /\ mappings'[i].start = i
               /\ \/ \E r \in Keys(imported') : PieceOf(mappings[i], imported[r])'
                  \/ \E d \in captured' : HomeOf(mappings[i], d)'
               /\ \/ mappings'[i].data = NoData
                  \/ \E d \in captured' : HoldsBlob(mappings[i], d)'
    <3>1. CASE i = k
      BY <1>4, <1>5, <1>6, <1>8, <1>9, <3>1
    <3>2. CASE i # k
      <4>1. i \in Keys(mappings) /\ mappings'[i] = mappings[i]
        BY <1>6, <3>2 DEF Keys
      <4> QED
        BY <1>4, <4>1, OldEntry
    <3> QED
      BY <3>1, <3>2
  <2> QED
    BY <2>1 DEF EntriesOK
<1>11. ASSUME NEW i \in Keys(mappings)
       PROVE  mappings'[i].start = mappings[i].start /\ mappings'[i].end = mappings[i].end
  BY <1>1, <1>5, <1>6 DEF Keys
<1>12. DisjointMappings'
  BY <1>6, <1>11 DEF DisjointMappings, Apart, LiveInv
<1>13. RegionsCovered'
  BY <1>4, <1>6, <1>11 DEF RegionsCovered, Contains, LiveInv
<1>14. BlobsHeld'
  <2>1. ASSUME NEW d \in captured
        PROVE  PageStart(d) \in Keys(mappings') /\ HoldsBlob(mappings[PageStart(d)], d)'
    <3>1. PageStart(d) \in Keys(mappings) /\ HoldsBlob(mappings[PageStart(d)], d)
      BY <2>1 DEF LiveInv, BlobsHeld
    <3>2. PageStart(d) # k
      <4>1. /\ d.len > 0 /\ c.len > 0 /\ ApartPages(c, d) /\ d \in Captures
        BY <1>7, <2>1 DEF LiveInv, BlobsOK, LiveCapture
      <4> QED
        BY <1>4, <4>1, BlobOrder, SMT DEF ApartPages
    <3> QED
      BY <1>6, <3>1, <3>2 DEF Keys, HoldsBlob
  <2> QED
    BY <1>1, <1>4, <1>6, <1>8, <2>1 DEF BlobsHeld
<1> QED
  BY <1>4, <1>7, <1>10, <1>12, <1>13, <1>14 DEF LiveInv

\* A mapping made for a blob outside every entry overlaps none of them.
LEMMA SynthesizeStep ==
    ASSUME LiveInv, TypeOK', NEW c \in Captures, LiveCapture(c), SynthesizeMapping(c)
    PROVE  LiveInv'
<1> DEFINE base == PageStart(c)
           new  == Synthetic(c)
<1>1. /\ base \in Nat /\ base \in Addr /\ PageEnd(c) \in Nat /\ base < PageEnd(c)
      /\ PageEnd(c) <= MaxAddr
  BY BlobFacts, BlobOrder DEF LiveCapture
<1>2. /\ OutsideRegions(c)
      /\ \A k \in Keys(mappings) :
            mappings[k].end <= base \/ PageEnd(c) <= mappings[k].start
  BY BlobOutside DEF SynthesizeMapping
<1>3. SyntheticFits(c)
  BY <1>1 DEF SyntheticFits
<1>4. /\ mappings' = [mappings EXCEPT ![base] = new]
      /\ status' = "ok" /\ captured' = captured \cup {c} /\ imported' = imported
  BY <1>3 DEF SynthesizeMapping, Return, Put
<1>5. /\ new.start = base /\ new.end = PageEnd(c) /\ new.data = Blob(c)
  BY DEF Synthetic
<1>6. mappings'[base] = new /\ new \in Mapping
  <2>1. PageEnd(c) \in Addr /\ 0 \in Addr
    BY <1>1, PageArithAssumption, SMT DEF Addr
  <2>2. new \in Mapping
    BY <1>1, <2>1, BlobFacts, TableAssumption DEF Synthetic, Mapping
  <2> QED
    BY <1>1, <1>4, <2>2 DEF LiveInv, TypeOK
<1> HIDE DEF new
<1>7. base \notin Keys(mappings)
  <2>1. ASSUME base \in Keys(mappings)
        PROVE  FALSE
    <3>1. /\ mappings[base].start = base /\ mappings[base].end \in Nat
          /\ base < mappings[base].end
      BY <2>1, EntryFacts
    <3> QED
      BY <1>1, <1>2, <2>1, <3>1, SMT
  <2> QED
    BY <2>1
<1>8. /\ Keys(mappings') = Keys(mappings) \cup {base}
      /\ \A i \in Addr : i # base => mappings'[i] = mappings[i]
  BY <1>1, <1>4, <1>6, TableAssumption DEF Keys, LiveInv, TypeOK
<1>9. /\ BlobsOK' /\ RegionsOK'
  BY <1>4, BlobsGrow
<1>10. HomeOf(mappings[base], c)' /\ HoldsBlob(mappings[base], c)'
  BY <1>1, <1>2, <1>4, <1>5, <1>6 DEF HomeOf, HoldsBlob, OutsideRegions, new
<1>11. EntriesOK'
  <2>1. ASSUME NEW i \in Keys(mappings')
        PROVE  /\ mappings'[i].start = i
               /\ \/ \E r \in Keys(imported') : PieceOf(mappings[i], imported[r])'
                  \/ \E d \in captured' : HomeOf(mappings[i], d)'
               /\ \/ mappings'[i].data = NoData
                  \/ \E d \in captured' : HoldsBlob(mappings[i], d)'
    <3>1. CASE i = base
      BY <1>4, <1>5, <1>6, <1>10, <3>1
    <3>2. CASE i # base
      <4>1. i \in Keys(mappings) /\ mappings'[i] = mappings[i]
        BY <1>8, <3>2 DEF Keys
      <4> QED
        BY <1>4, <4>1, OldEntry
    <3> QED
      BY <3>1, <3>2
  <2> QED
    BY <2>1 DEF EntriesOK
<1>12. DisjointMappings'
  <2>1. ASSUME NEW i \in Keys(mappings)
        PROVE  /\ mappings'[i] = mappings[i]
               /\ mappings[i].start < mappings[i].end
               /\ Apart(mappings[i], new) /\ Apart(new, mappings[i])
               /\ \A n \in Keys(mappings) : n # i => Apart(mappings[n], mappings[i])
    <3>1. mappings'[i] = mappings[i] /\ i # base
      BY <1>7, <1>8, <2>1 DEF Keys
    <3> QED
      BY <1>2, <1>5, <3>1, EntryFacts DEF Apart
  <2> QED
    BY <1>1, <1>5, <1>6, <1>8, <2>1 DEF DisjointMappings
<1>13. RegionsCovered'
  BY <1>4, <1>7, <1>8 DEF RegionsCovered, LiveInv, Keys
<1>14. BlobsHeld'
  <2>1. ASSUME NEW d \in captured
        PROVE  PageStart(d) \in Keys(mappings') /\ HoldsBlob(mappings[PageStart(d)], d)'
    <3>1. PageStart(d) \in Keys(mappings) /\ HoldsBlob(mappings[PageStart(d)], d)
      BY <2>1 DEF LiveInv, BlobsHeld
    <3> QED
      BY <1>7, <1>8, <3>1 DEF Keys, HoldsBlob
  <2> QED
    BY <1>4, <1>8, <1>10, <2>1 DEF BlobsHeld
<1> QED
  BY <1>4, <1>9, <1>11, <1>12, <1>13, <1>14 DEF LiveInv

-----------------------------------------------------------------------------
(* The invariant and what follows from it.                                 *)

LEMMA LiveInit == Init => LiveInv
BY TypeInit DEF Init, LiveInv, RegionsOK, BlobsOK, EntriesOK, DisjointMappings,
                RegionsCovered, BlobsHeld, Keys

LEMMA LiveIsLibrary == LiveInv /\ [Next]_vars => [LibraryNext]_vars
BY DEF LiveInv, Next, LibraryNext, ReadMapsLine, ReadModule, Inject

LEMMA LiveStep == LiveInv /\ [Next]_vars => LiveInv'
<1> SUFFICES ASSUME LiveInv, [Next]_vars
             PROVE  LiveInv'
  OBVIOUS
<1>1. TypeOK'
  BY LiveIsLibrary, TypeStep DEF LiveInv
<1>2. CASE ReadMapsLine \/ ReadModule
  BY <1>1, <1>2, ReadStep
<1>3. CASE Inject
  <2>1. PICK c \in Captures : LiveCapture(c) /\ AddDataToMapping(c)
    BY <1>3 DEF Inject
  <2>2. ASSUME NEW k \in Addr, FirstContaining(k, c.addr)
        PROVE  k \in Keys(mappings) /\ Contains(mappings[k], c.addr)
    BY <2>2 DEF FirstContaining
  <2> QED
    BY <1>1, <2>1, <2>2, SplitStep, RefillStep, SynthesizeStep DEF AddDataToMapping
<1>4. CASE UNCHANGED vars
  BY <1>1, <1>4 DEF vars, LiveInv, RegionsOK, BlobsOK, EntriesOK, DisjointMappings,
        RegionsCovered, BlobsHeld, Keys, PieceOf, HomeOf, HoldsBlob, OutsideRegions
<1> QED
  BY <1>2, <1>3, <1>4 DEF Next

\* LiveInv holds throughout every conversion of a live process's dump.
THEOREM LiveInvariant == Spec => []LiveInv
<1>1. Init => LiveInv
  BY LiveInit
<1>2. LiveInv /\ [Next]_vars => LiveInv'
  BY LiveStep
<1> QED
  BY <1>1, <1>2, PTL DEF Spec

\* No two segments of the core claim the same address, and none is inverted.
THEOREM LiveDisjointMappings == Spec => []DisjointMappings
<1>1. LiveInv => DisjointMappings
  BY DEF LiveInv
<1> QED
  BY <1>1, LiveInvariant, PTL

\* The overflow and range checks of add_data_to_mapping never fire.
THEOREM LiveAccepted == Spec => []LiveDumpAccepted
<1>1. LiveInv => LiveDumpAccepted
  BY DEF LiveInv, LiveDumpAccepted
<1> QED
  BY <1>1, LiveInvariant, PTL

\* An entry that holds the data of a blob reaches to the end of its pages.
LEMMA LiveDataFits ==
    ASSUME LiveInv
    PROVE  SegmentFits
<1>1. ASSUME NEW k \in Keys(mappings)
      PROVE  DataLen(mappings[k].data) <= mappings[k].end - mappings[k].start
  <2>1. /\ mappings[k].start \in Nat /\ mappings[k].end \in Nat
        /\ mappings[k].start < mappings[k].end
    BY EntryFacts
  <2>2. CASE mappings[k].data = NoData
    BY <2>1, <2>2, EmptyData, SMT
  <2>3. ASSUME NEW c \in captured, HoldsBlob(mappings[k], c)
        PROVE  DataLen(mappings[k].data) <= mappings[k].end - mappings[k].start
    <3>1. c \in Captures
      BY DEF LiveInv, TypeOK
    <3>2. /\ PageStart(c) \in Nat /\ PageEnd(c) \in Nat
          /\ DataLen(Blob(c)) = PageEnd(c) - PageStart(c)
      BY <3>1, BlobFacts, SMT DEF Addr
    <3> QED
      BY <2>1, <2>3, <3>2, SMT DEF HoldsBlob
  <2> QED
    BY <2>2, <2>3 DEF LiveInv, EntriesOK
<1> QED
  BY <1>1 DEF SegmentFits

\* p_filesz never exceeds p_memsz: cutting a mapping that holds data cuts it
\* behind the data.
THEOREM LiveSegmentFits == Spec => []SegmentFits
<1>1. LiveInv => SegmentFits
  BY LiveDataFits
<1> QED
  BY <1>1, LiveInvariant, PTL

\* The data of the entry at the page of a blob has the bytes of the blob.
LEMMA BlobByte ==
    ASSUME LiveInv, NEW c \in captured, NEW i \in 0..(c.len - 1)
    PROVE  LET k == PageStart(c)
               m == mappings[k]
           IN  /\ k \in Keys(mappings) /\ k \in Nat /\ m.start = k
               /\ Contains(m, c.addr + i)
               /\ ByteOf(m, c.addr + i) = <<c.src, i>>
               /\ (c.addr + i) - k \in 0..(DataLen(m.data) - 1)
<1> DEFINE k == PageStart(c)
           m == mappings[k]
<1>1. c \in Captures /\ c.len > 0
  BY DEF LiveInv, TypeOK, BlobsOK
<1>2. k \in Keys(mappings) /\ HoldsBlob(m, c)
  BY DEF LiveInv, BlobsHeld
<1>3. /\ c.addr \in Nat /\ c.len \in Nat /\ k \in Nat /\ PageEnd(c) \in Nat
      /\ k <= c.addr /\ c.addr + c.len <= PageEnd(c)
  BY <1>1, BlobOrder
<1>4. m.start = k /\ m.end \in Nat /\ PageEnd(c) <= m.end
  BY <1>2, EntryFacts DEF HoldsBlob
<1>5. Contains(m, c.addr + i)
  BY <1>3, <1>4, SMT DEF Contains
<1>6. m.data.prefix = c.addr - k /\ m.data.len = c.len /\ m.data.src = c.src
  BY <1>2 DEF HoldsBlob, Blob
<1>7. (c.addr + i) - m.start - m.data.prefix = i
  BY <1>3, <1>4, <1>6, SMT
<1>8. ByteOf(m, c.addr + i) = <<c.src, i>>
  BY <1>6, <1>7 DEF ByteOf
<1>9. DataLen(m.data) = PageEnd(c) - k
  BY <1>1, <1>2, BlobFacts DEF HoldsBlob
<1>10. (c.addr + i) - k \in 0..(DataLen(m.data) - 1)
  <2> HIDE DEF m, k
  <2> QED
    BY <1>3, <1>9, SMT
<1> QED
  BY <1>2, <1>3, <1>4, <1>5, <1>8, <1>10

LEMMA LiveBytesKept ==
    ASSUME LiveInv
    PROVE  CapturesKept
BY BlobByte DEF CapturesKept

\* Every captured byte stays readable at the address it was captured from.
THEOREM LiveCapturesKept == Spec => []CapturesKept
<1>1. LiveInv => CapturesKept
  BY LiveBytesKept
<1> QED
  BY <1>1, LiveInvariant, PTL

\* An address the readers mapped is shown as they mapped it.
LEMMA BackingFromRegion ==
    ASSUME LiveInv
    PROVE  BackingKept
<1>1. ASSUME NEW k \in Keys(imported),
             NEW a \in imported[k].start..(imported[k].end - 1)
      PROVE  \E j \in Keys(mappings) :
                /\ Contains(mappings[j], a)
                /\ Backing(mappings[j], a) = Backing(imported[k], a)
  <2> DEFINE r == imported[k]
  <2>1. /\ r.start \in Nat /\ r.end \in Nat /\ r.offset \in Nat /\ r.end <= MaxAddr
    BY RegionFacts
  <2>2. a \in Nat /\ a \in Addr /\ r.start <= a /\ a < r.end
    BY <2>1, PageArithAssumption, SMT DEF Addr
  <2>3. PICK j \in Keys(mappings) : Contains(mappings[j], a)
    BY <2>2 DEF Contains, LiveInv, RegionsCovered
  <2> DEFINE m == mappings[j]
  <2>4. m.start \in Nat /\ m.end \in Nat /\ m.start <= a /\ a < m.end /\ m.offset \in Nat
    BY <2>3, EntryFacts DEF Contains
  <2>5. ASSUME NEW c \in captured, HomeOf(m, c)
        PROVE  FALSE
    <3>1. /\ m.start = PageStart(c) /\ m.end = PageEnd(c) /\ Outside(c, r)
      BY <2>5 DEF HomeOf, Synthetic, OutsideRegions
    <3> QED
      BY <2>1, <2>2, <2>4, <3>1, SMT DEF Outside
  <2>6. PICK i \in Keys(imported) : PieceOf(m, imported[i])
    BY <2>5 DEF LiveInv, EntriesOK
  <2>7. i = k
    <3>1. /\ imported[i].start \in Nat /\ imported[i].end \in Nat
          /\ imported[i].start <= a /\ a < imported[i].end
      BY <2>2, <2>4, <2>6, RegionFacts, SMT DEF PieceOf
    <3>2. i # k => Apart(imported[i], r)
      BY DEF LiveInv, RegionsOK
    <3> QED
      BY <2>1, <2>2, <3>1, <3>2, SMT DEF Apart
  <2>8. /\ m.filename = r.filename /\ m.permissions = r.permissions
        /\ m.offset = IF r.filename = NoFile THEN r.offset
                      ELSE r.offset + (m.start - r.start)
    BY <2>6, <2>7 DEF PieceOf
  <2>9. m.filename # NoFile => m.offset + (a - m.start) = r.offset + (a - r.start)
    <3>1. ASSUME m.filename # NoFile
          PROVE  m.offset = r.offset + (m.start - r.start)
      BY <2>8, <3>1
    <3> QED
      BY <2>1, <2>2, <2>4, <3>1, SMT
  <2>10. Backing(m, a) = Backing(r, a)
    BY <2>8, <2>9 DEF Backing
  <2> QED
    BY <2>3, <2>10
<1> QED
  BY <1>1 DEF BackingKept

\* NT_FILE keeps telling the truth: cutting moves no address to another
\* position of its file, and leaves none unmapped.
THEOREM LiveBackingKept == Spec => []BackingKept
<1>1. LiveInv => BackingKept
  BY BackingFromRegion
<1> QED
  BY <1>1, LiveInvariant, PTL

\* NT_FILE sends a debugger to the file position that the readers found, for every
\* address of a region that begins at a whole page of its file.
THEOREM LiveFileNoteKept == Spec => []FileNoteKept
<1>1. ASSUME LiveInv
      PROVE  FileNoteKept
  <2> USE <1>1
  <2>1. ASSUME NEW k \in Keys(imported),
               imported[k].filename # NoFile, imported[k].offset % PageSize = 0,
               NEW a \in imported[k].start..(imported[k].end - 1)
        PROVE  /\ \E e \in FileNote : e.start <= a /\ a < e.end
               /\ \A e \in FileNote :
                     e.start <= a /\ a < e.end =>
                        /\ e.file = imported[k].filename
                        /\ e.pageOffset * PageSize + (a - e.start)
                              = imported[k].offset + (a - imported[k].start)
    <3> DEFINE r == imported[k]
    <3>1. /\ r.start \in Nat /\ r.end \in Nat /\ r.offset \in Nat /\ r.end <= MaxAddr
          /\ r.start % PageSize = 0
      BY RegionFacts DEF LiveInv, RegionsOK
    <3>2. a \in Nat /\ a \in Addr /\ r.start <= a /\ a < r.end
      BY <3>1, PageArithAssumption, SMT DEF Addr
    <3>3. ASSUME NEW j \in Keys(mappings), Contains(mappings[j], a)
          PROVE  /\ mappings[j].filename = r.filename
                 /\ PageOffset(mappings[j]) * PageSize + (a - mappings[j].start)
                       = r.offset + (a - r.start)
      <4> DEFINE m == mappings[j]
      <4>1. m.start \in Nat /\ m.end \in Nat /\ m.start <= a /\ a < m.end /\ m.offset \in Nat
        BY <3>3, EntryFacts DEF Contains
      <4>2. ASSUME NEW c \in captured, HomeOf(m, c)
            PROVE  FALSE
        <5>1. m.start = PageStart(c) /\ m.end = PageEnd(c) /\ Outside(c, r)
          BY <4>2 DEF HomeOf, Synthetic, OutsideRegions
        <5> QED
          BY <3>1, <3>2, <4>1, <5>1, SMT DEF Outside
      <4>3. PICK i \in Keys(imported) : PieceOf(m, imported[i])
        BY <4>2 DEF LiveInv, EntriesOK
      <4>4. i = k
        <5>1. /\ imported[i].start \in Nat /\ imported[i].end \in Nat
              /\ imported[i].start <= a /\ a < imported[i].end
          BY <3>2, <4>1, <4>3, RegionFacts, SMT DEF PieceOf
        <5>2. i # k => Apart(imported[i], r)
          BY DEF LiveInv, RegionsOK
        <5> QED
          BY <3>1, <3>2, <5>1, <5>2, SMT DEF Apart
      <4>5. /\ m.filename = r.filename /\ m.start % PageSize = 0
            /\ m.offset = r.offset + (m.start - r.start)
        BY <2>1, <4>3, <4>4 DEF PieceOf
      <4>6. m.offset % PageSize = 0
        <5> DEFINE d == m.start - r.start
        <5>1. m.start \in Int /\ r.start \in Int /\ r.offset \in Int /\ d \in Int
          BY <3>1, <4>1, SMT
        <5>2. d % PageSize = 0
          BY <3>1, <4>5, <5>1, ModShift
        <5> HIDE DEF d
        <5>3. (r.offset + d) % PageSize = 0
          BY <2>1, <5>1, <5>2, ModShift
        <5> QED
          BY <4>5, <5>3 DEF d
      <4>7. m.offset = PageSize * (m.offset \div PageSize) /\ m.offset \div PageSize \in Int
        BY <4>1, <4>6, ModDecomp, PageArithAssumption, SMT
      <4>8. PageOffset(m) * PageSize = m.offset
        BY <4>7, PageArithAssumption, SMT DEF PageOffset
      <4>9. PageOffset(m) * PageSize + (a - m.start) = r.offset + (a - r.start)
        BY <3>1, <3>2, <4>1, <4>5, <4>8, SMT
      <4> QED
        BY <4>5, <4>9
    <3>4. PICK j \in Keys(mappings) : Contains(mappings[j], a)
      BY <3>2 DEF Contains, LiveInv, RegionsCovered
    <3> DEFINE Entry(n) ==
          [file |-> mappings[n].filename, start |-> mappings[n].start,
           end |-> mappings[n].end, pageOffset |-> PageOffset(mappings[n])]
    <3>5. Entry(j) \in FileNote
      BY <2>1, <3>3, <3>4 DEF FileNote
    <3>6. Entry(j).start <= a /\ a < Entry(j).end
      BY <3>4 DEF Contains
    <3>7. ASSUME NEW e \in FileNote, e.start <= a, a < e.end
          PROVE  /\ e.file = r.filename
                 /\ e.pageOffset * PageSize + (a - e.start) = r.offset + (a - r.start)
      <4>1. PICK n \in Keys(mappings) : e = Entry(n)
        BY DEF FileNote
      <4>2. Contains(mappings[n], a)
        BY <3>7, <4>1 DEF Contains
      <4> QED
        BY <3>3, <4>1, <4>2
    <3> QED
      BY <3>5, <3>6, <3>7
  <2> QED
    BY <2>1 DEF FileNoteKept
<1> QED
  BY <1>1, LiveInvariant, PTL

-----------------------------------------------------------------------------
(* The flat memory of MemoryImage.  Under LiveInv what the table shows at  *)
(* an address follows from the regions and the blobs alone; so a step of   *)
(* the table, whatever it splits, is a step of the flat memory.            *)

OnPagesOf(c, a) == PageStart(c) <= a /\ a < PageEnd(c)
PageByte(c, a)  == IF a - c.addr \in 0..(c.len - 1) THEN <<c.src, a - c.addr>> ELSE <<"zero">>

ImageOK ==
    \A a \in Addr :
        /\ \A j \in Keys(imported) :
              Contains(imported[j], a) => BackingAt(a) = Backing(imported[j], a)
        /\ (\A j \in Keys(imported) : ~Contains(imported[j], a)) =>
              BackingAt(a) = IF \E c \in captured : OnPagesOf(c, a)
                             THEN <<NoFile, ReadWrite, 0>> ELSE <<>>
        /\ \A c \in captured : OnPagesOf(c, a) => ByteAt(a) = PageByte(c, a)
        /\ (\A c \in captured : ~OnPagesOf(c, a)) => ByteAt(a) = <<>>

\* One entry contains an address, or none does.
LEMMA EntryOfAddress ==
    ASSUME LiveInv, NEW a \in Addr, NEW k \in Keys(mappings), Contains(mappings[k], a)
    PROVE  /\ BackingAt(a) = Backing(mappings[k], a) /\ ByteAt(a) = ByteOf(mappings[k], a)
<1>1. a \in Nat
  BY PageArithAssumption, SMT DEF Addr
<1>2. ASSUME NEW j \in Keys(mappings), Contains(mappings[j], a)
      PROVE  j = k
  <2>1. /\ mappings[j].start \in Nat /\ mappings[j].end \in Nat
        /\ mappings[k].start \in Nat /\ mappings[k].end \in Nat
    BY EntryFacts
  <2>2. j # k => Apart(mappings[j], mappings[k])
    BY EntryFacts
  <2> QED
    BY <1>1, <1>2, <2>1, <2>2, SMT DEF Apart, Contains
<1>3. k <= k
  BY EntryFacts, SMT
<1>4. FirstContaining(k, a) /\ \A j \in Keys(mappings) : FirstContaining(j, a) => j = k
  BY <1>2, <1>3 DEF FirstContaining
<1>5. (CHOOSE j \in Keys(mappings) : FirstContaining(j, a)) = k
  BY <1>4
<1>6. EntryAt(a) = mappings[k] /\ ~ NoneContaining(a)
  BY <1>5 DEF EntryAt, NoneContaining
<1> QED
  BY <1>6 DEF BackingAt, ByteAt

\* What the entry at an address shows of the regions.
LEMMA BackingOfEntry ==
    ASSUME LiveInv, NEW a \in Addr, NEW k \in Keys(mappings), Contains(mappings[k], a)
    PROVE  \/ \E j \in Keys(imported) : Contains(imported[j], a)
           \/ /\ \E c \in captured : OnPagesOf(c, a)
              /\ Backing(mappings[k], a) = <<NoFile, ReadWrite, 0>>
<1> DEFINE m == mappings[k]
<1>1. a \in Nat /\ m.start \in Nat /\ m.end \in Nat /\ m.start <= a /\ a < m.end
  BY EntryFacts, PageArithAssumption, SMT DEF Contains, Addr
<1>2. ASSUME NEW j \in Keys(imported), PieceOf(m, imported[j])
      PROVE  Contains(imported[j], a)
  BY <1>1, <1>2, RegionFacts, SMT DEF PieceOf, Contains
<1>3. ASSUME NEW c \in captured, HomeOf(m, c)
      PROVE  OnPagesOf(c, a) /\ Backing(m, a) = <<NoFile, ReadWrite, 0>>
  BY <1>1, <1>3 DEF HomeOf, Synthetic, OnPagesOf, Backing
<1> QED
  BY <1>2, <1>3 DEF LiveInv, EntriesOK

\* The data of an entry shows on the pages of its blob, and nowhere else.
LEMMA BytesOfEntry ==
    ASSUME LiveInv, NEW a \in Addr, NEW k \in Keys(mappings), Contains(mappings[k], a)
    PROVE  /\ mappings[k].data = NoData => ByteOf(mappings[k], a) = <<>>
           /\ \A c \in captured : HoldsBlob(mappings[k], c) =>
                 ByteOf(mappings[k], a) = IF OnPagesOf(c, a) THEN PageByte(c, a) ELSE <<>>
<1> DEFINE m == mappings[k]
<1>1. a \in Nat /\ m.start \in Nat /\ m.start <= a
  BY EntryFacts, PageArithAssumption, SMT DEF Contains, Addr
<1>2. ASSUME m.data = NoData
      PROVE  ByteOf(m, a) = <<>>
  <2>1. m.data.prefix = 0 /\ m.data.len = 0 /\ DataLen(m.data) = 0
    BY <1>2, EmptyData DEF NoData
  <2>2. 0..(0 - 1) = {} /\ ~ (a - m.start < 0)
    BY <1>1, SMT
  <2> QED
    BY <2>1, <2>2 DEF ByteOf
<1>3. ASSUME NEW c \in captured, HoldsBlob(m, c)
      PROVE  ByteOf(m, a) = IF OnPagesOf(c, a) THEN PageByte(c, a) ELSE <<>>
  <2>1. c \in Captures /\ c.len > 0
    BY DEF LiveInv, TypeOK, BlobsOK
  <2>2. /\ c.addr \in Nat /\ c.len \in Nat /\ PageStart(c) \in Nat /\ PageEnd(c) \in Nat
        /\ PageStart(c) <= c.addr /\ c.addr + c.len <= PageEnd(c)
        /\ DataLen(Blob(c)) = PageEnd(c) - PageStart(c)
    BY <2>1, BlobOrder, BlobFacts
  <2>3. /\ m.data = Blob(c) /\ m.start = PageStart(c)
        /\ m.data.prefix = c.addr - PageStart(c) /\ m.data.len = c.len /\ m.data.src = c.src
    BY <1>3 DEF HoldsBlob, Blob
  <2>4. /\ a - m.start - m.data.prefix = a - c.addr
        /\ a - m.start < DataLen(m.data) <=> a < PageEnd(c)
    BY <1>1, <2>2, <2>3, SMT
  <2>5. ~ (a < PageEnd(c)) => a - c.addr \notin 0..(c.len - 1)
    BY <1>1, <2>2, SMT
  <2>6. PageStart(c) <= a
    BY <1>1, <2>3
  <2> QED
    BY <2>3, <2>4, <2>5, <2>6 DEF ByteOf, PageByte, OnPagesOf
<1> QED
  BY <1>2, <1>3

LEMMA LiveImageOK == LiveInv => ImageOK
<1> SUFFICES ASSUME LiveInv, NEW a \in Addr
             PROVE  /\ \A j \in Keys(imported) :
                          Contains(imported[j], a) => BackingAt(a) = Backing(imported[j], a)
                    /\ (\A j \in Keys(imported) : ~Contains(imported[j], a)) =>
                          BackingAt(a) = IF \E c \in captured : OnPagesOf(c, a)
                                         THEN <<NoFile, ReadWrite, 0>> ELSE <<>>
                    /\ \A c \in captured : OnPagesOf(c, a) => ByteAt(a) = PageByte(c, a)
                    /\ (\A c \in captured : ~OnPagesOf(c, a)) => ByteAt(a) = <<>>
  BY DEF ImageOK
<1>1. a \in Nat
  BY PageArithAssumption, SMT DEF Addr
<1>2. ASSUME NEW j \in Keys(imported), Contains(imported[j], a)
      PROVE  BackingAt(a) = Backing(imported[j], a)
  <2>1. a \in imported[j].start..(imported[j].end - 1)
    BY <1>1, <1>2, RegionFacts, SMT DEF Contains
  <2>2. PICK k \in Keys(mappings) :
            Contains(mappings[k], a) /\ Backing(mappings[k], a) = Backing(imported[j], a)
    BY <2>1, BackingFromRegion DEF BackingKept
  <2> QED
    BY <2>2, EntryOfAddress
<1>3. ASSUME NEW c \in captured, OnPagesOf(c, a)
      PROVE  \E k \in Keys(mappings) : Contains(mappings[k], a) /\ HoldsBlob(mappings[k], c)
  <2> DEFINE k == PageStart(c)
  <2>1. k \in Keys(mappings) /\ HoldsBlob(mappings[k], c)
    BY DEF LiveInv, BlobsHeld
  <2>2. c \in Captures /\ c.len > 0
    BY DEF LiveInv, TypeOK, BlobsOK
  <2>3. PageEnd(c) \in Nat /\ mappings[k].start = k /\ mappings[k].end \in Nat
    BY <2>1, <2>2, BlobFacts, EntryFacts
  <2>4. Contains(mappings[k], a)
    BY <1>1, <1>3, <2>1, <2>3, SMT DEF OnPagesOf, Contains, HoldsBlob
  <2> QED
    BY <2>1, <2>4
<1>4. ASSUME \A j \in Keys(imported) : ~Contains(imported[j], a)
      PROVE  BackingAt(a) = IF \E c \in captured : OnPagesOf(c, a)
                            THEN <<NoFile, ReadWrite, 0>> ELSE <<>>
  <2>1. CASE \E k \in Keys(mappings) : Contains(mappings[k], a)
    <3>1. PICK k \in Keys(mappings) : Contains(mappings[k], a)
      BY <2>1
    <3> QED
      BY <1>4, <3>1, EntryOfAddress, BackingOfEntry
  <2>2. CASE \A k \in Keys(mappings) : ~Contains(mappings[k], a)
    <3>1. ~ \E c \in captured : OnPagesOf(c, a)
      BY <1>3, <2>2
    <3> QED
      BY <2>2, <3>1 DEF BackingAt, NoneContaining
  <2> QED
    BY <2>1, <2>2
<1>5. ASSUME NEW c \in captured, OnPagesOf(c, a)
      PROVE  ByteAt(a) = PageByte(c, a)
  <2>1. PICK k \in Keys(mappings) : Contains(mappings[k], a) /\ HoldsBlob(mappings[k], c)
    BY <1>3, <1>5
  <2> QED
    BY <1>5, <2>1, EntryOfAddress, BytesOfEntry
<1>6. ASSUME \A c \in captured : ~OnPagesOf(c, a)
      PROVE  ByteAt(a) = <<>>
  <2>1. CASE \E k \in Keys(mappings) : Contains(mappings[k], a)
    <3>1. PICK k \in Keys(mappings) : Contains(mappings[k], a)
      BY <2>1
    <3>2. mappings[k].data = NoData \/ \E c \in captured : HoldsBlob(mappings[k], c)
      BY DEF LiveInv, EntriesOK
    <3> QED
      BY <1>6, <3>1, <3>2, EntryOfAddress, BytesOfEntry
  <2>2. CASE \A k \in Keys(mappings) : ~Contains(mappings[k], a)
    BY <2>2 DEF ByteAt, NoneContaining
  <2> QED
    BY <2>1, <2>2
<1> QED
  BY <1>2, <1>4, <1>5, <1>6

LEMMA LiveImageNext == LiveInv' => ImageOK'
BY LiveImageOK, PTL

LEMMA ImageInit == Init => Image!Init
<1> SUFFICES ASSUME Init
             PROVE  Image!Init
  OBVIOUS
<1>1. \A a \in Addr : BackingAt(a) = <<>> /\ ByteAt(a) = <<>>
  BY DEF Init, Keys, BackingAt, ByteAt, NoneContaining
<1> QED
  BY <1>1 DEF Image!Init, Image!Addr, Addr, Image!Unmapped, Image!NotDumped

\* A line of maps or a module that adds or replaces a region maps that region.
LEMMA ImageMaps ==
    ASSUME LiveInv, LiveInv', captured = {}, captured' = {},
           NEW m \in Imports, LiveImport(m), mappings' = Put(m.start, m), imported' = mappings'
    PROVE  Image!MapRegion(m)
<1>1. ImageOK /\ ImageOK'
  BY LiveImageOK, LiveImageNext
<1>2. m \in Mapping /\ m.start \in Addr /\ m.start \in Nat /\ m.end \in Nat
  BY TableAssumption, PageArithAssumption, SMT DEF Mapping, Addr
<1>3. mappings = imported /\ mappings \in [Addr -> Mapping \cup {Absent}] /\ m # Absent
  BY <1>2, TableAssumption DEF LiveInv, TypeOK
<1>4. /\ imported'[m.start] = m /\ m.start \in Keys(imported')
      /\ \A j : j # m.start =>
            /\ j \in Keys(imported') <=> j \in Keys(imported)
            /\ j \in Keys(imported) => imported'[j] = imported[j]
  BY <1>2, <1>3 DEF Put, Keys
<1>5. \A a \in Addr : ByteAt(a) = <<>> /\ ByteAt(a)' = <<>>
  BY <1>1 DEF ImageOK
<1>6. ASSUME NEW a \in Addr, Contains(m, a)
      PROVE  BackingAt(a)' = Backing(m, a)
  BY <1>1, <1>4, <1>6 DEF ImageOK
<1>7. ASSUME NEW a \in Addr, ~Contains(m, a)
      PROVE  BackingAt(a)' = BackingAt(a)
  <2>1. CASE \E j \in Keys(imported) : Contains(imported[j], a)
    <3>1. PICK j \in Keys(imported) : Contains(imported[j], a)
      BY <2>1
    <3>2. j # m.start
      <4>1. ASSUME j = m.start
            PROVE  Contains(m, a)
        <5>1. /\ imported[j].start = j /\ imported[j].end \in Nat
              /\ imported[j].start < imported[j].end
          BY RegionFacts DEF LiveInv, RegionsOK
        <5>2. Apart(m, imported[j]) \/ SameRange(m, imported[j])
          BY <1>3 DEF LiveImport
        <5>3. ~ Apart(m, imported[j])
          <6>1. m.start < m.end
            BY TableAssumption
          <6> QED
            BY <1>2, <4>1, <5>1, <6>1, SMT DEF Apart
        <5> QED
          BY <3>1, <5>2, <5>3 DEF SameRange, Contains
      <4> QED
        BY <1>7, <4>1
    <3>3. j \in Keys(imported') /\ imported'[j] = imported[j]
      BY <1>4, <3>2
    <3>4. BackingAt(a)' = Backing(imported[j], a)
      <4>1. \A i \in Keys(imported') : Contains(imported'[i], a)
                => BackingAt(a)' = Backing(imported'[i], a)
        BY <1>1 DEF ImageOK
      <4> QED
        BY <3>1, <3>3, <4>1
    <3>5. BackingAt(a) = Backing(imported[j], a)
      BY <1>1, <3>1 DEF ImageOK
    <3> QED
      BY <3>4, <3>5
  <2>2. CASE \A j \in Keys(imported) : ~Contains(imported[j], a)
    <3>1. \A j \in Keys(imported') : ~Contains(imported'[j], a)
      BY <1>4, <1>7, <2>2
    <3>2. BackingAt(a)' = <<>>
      BY <1>1, <3>1 DEF ImageOK
    <3>3. BackingAt(a) = <<>>
      BY <1>1, <2>2 DEF ImageOK
    <3> QED
      BY <3>2, <3>3
  <2> QED
    BY <2>1, <2>2
<1>8. \A a \in Addr : a \in m.start..(m.end - 1) <=> Contains(m, a)
  BY <1>2, PageArithAssumption, SMT DEF Contains, Addr
<1>9. \A a \in Addr : Image!BackedBy(m, a) = Backing(m, a)
  BY DEF Image!BackedBy, Backing
<1> QED
  BY <1>5, <1>6, <1>7, <1>8, <1>9
  DEF Image!MapRegion, Image!Addr, Addr, Image!NotDumped

\* An injection dumps the pages of its blob, whatever it does to the entries.
LEMMA ImageDumps ==
    ASSUME LiveInv, LiveInv', NEW c \in Captures, LiveCapture(c),
           imported' = imported, captured' = captured \cup {c}
    PROVE  Image!Dump(c)
<1>1. ImageOK /\ ImageOK'
  BY LiveImageOK, LiveImageNext
<1>2. /\ c.addr \in Nat /\ c.len \in Nat /\ PageStart(c) \in Nat /\ PageEnd(c) \in Nat
      /\ PageEnd(c) <= MaxAddr
  BY BlobOrder DEF LiveCapture
<1>3. \A a \in Addr : a \in Image!Pages(c) <=> OnPagesOf(c, a)
  BY <1>2, PageArithAssumption, SMT
  DEF Image!Pages, Image!AlignDown, Image!AlignUp, OnPagesOf, PageStart, PageEnd, AlignDown,
      AlignUp, Addr
<1>4. ASSUME NEW a \in Addr, OnPagesOf(c, a), NEW d \in captured
      PROVE  ~ OnPagesOf(d, a)
  <2>1. PageEnd(c) <= PageStart(d) \/ PageEnd(d) <= PageStart(c)
    BY DEF LiveCapture, ApartPages
  <2>2. d \in Captures
    BY DEF LiveInv, TypeOK
  <2>3. a \in Nat /\ PageStart(d) \in Nat /\ PageEnd(d) \in Nat
    BY <2>2, BlobFacts, PageArithAssumption, SMT DEF Addr
  <2> QED
    BY <1>2, <1>4, <2>1, <2>3, SMT DEF OnPagesOf
<1>5. ASSUME NEW a \in Addr
      PROVE  /\ OnPagesOf(c, a) => ByteAt(a) = <<>> /\ ByteAt(a)' = PageByte(c, a)
             /\ ~OnPagesOf(c, a) => ByteAt(a)' = ByteAt(a)
  <2>1. OnPagesOf(c, a) => ByteAt(a) = <<>>
    BY <1>1, <1>4 DEF ImageOK
  <2>2. \A d \in captured' : OnPagesOf(d, a) => ByteAt(a)' = PageByte(d, a)
    <3>1. ASSUME NEW d \in captured'
          PROVE  OnPagesOf(d, a)' = OnPagesOf(d, a) /\ PageByte(d, a)' = PageByte(d, a)
      BY DEF OnPagesOf, PageByte
    <3> QED
      BY <1>1, <3>1 DEF ImageOK
  <2>3. (\A d \in captured' : ~OnPagesOf(d, a)) => ByteAt(a)' = <<>>
    BY <1>1 DEF ImageOK, OnPagesOf
  <2>4. ASSUME ~OnPagesOf(c, a)
        PROVE  ByteAt(a)' = ByteAt(a)
    <3>1. CASE \E d \in captured : OnPagesOf(d, a)
      <4>1. PICK d \in captured : OnPagesOf(d, a)
        BY <3>1
      <4>2. ByteAt(a) = PageByte(d, a)
        BY <1>1, <4>1 DEF ImageOK
      <4> QED
        BY <2>2, <4>1, <4>2
    <3>2. CASE \A d \in captured : ~OnPagesOf(d, a)
      <4>1. ByteAt(a) = <<>>
        BY <1>1, <3>2 DEF ImageOK
      <4>2. ByteAt(a)' = <<>>
        BY <2>3, <2>4, <3>2
      <4> QED
        BY <4>1, <4>2
    <3> QED
      BY <3>1, <3>2
  <2> QED
    BY <2>1, <2>2, <2>4
<1>6. ASSUME NEW a \in Addr
      PROVE  BackingAt(a)' = IF OnPagesOf(c, a) /\ BackingAt(a) = <<>>
                             THEN <<NoFile, ReadWrite, 0>> ELSE BackingAt(a)
  <2>1. CASE \E j \in Keys(imported) : Contains(imported[j], a)
    <3>1. PICK j \in Keys(imported) : Contains(imported[j], a)
      BY <2>1
    <3>2. BackingAt(a) = Backing(imported[j], a)
      BY <1>1, <3>1 DEF ImageOK
    <3>3. BackingAt(a)' = Backing(imported[j], a)
      <4>1. \A i \in Keys(imported') : Contains(imported'[i], a)
                => BackingAt(a)' = Backing(imported'[i], a)
        BY <1>1 DEF ImageOK
      <4> QED
        BY <3>1, <4>1
    <3>4. Backing(imported[j], a) # <<>>
      BY SMT DEF Backing
    <3> QED
      BY <3>2, <3>3, <3>4
  <2>2. CASE \A j \in Keys(imported) : ~Contains(imported[j], a)
    <3>1. BackingAt(a) = IF \E d \in captured : OnPagesOf(d, a)
                         THEN <<NoFile, ReadWrite, 0>> ELSE <<>>
      BY <1>1, <2>2 DEF ImageOK
    <3>2. BackingAt(a)' = IF \E d \in captured' : OnPagesOf(d, a)
                          THEN <<NoFile, ReadWrite, 0>> ELSE <<>>
      BY <1>1, <2>2 DEF ImageOK, OnPagesOf
    <3>3. <<NoFile, ReadWrite, 0>> # <<>>
      BY SMT
    <3> QED
      BY <3>1, <3>2, <3>3
  <2> QED
    BY <2>1, <2>2
<1>7. \A a \in Addr : PageByte(c, a) = IF a - c.addr \in 0..(c.len - 1)
                                       THEN <<c.src, a - c.addr>> ELSE Image!Zero
  BY DEF PageByte, Image!Zero
<1>8. Image!Addr = Addr /\ Image!Pages(c) \subseteq Addr
  BY <1>2, PageArithAssumption, SMT
  DEF Image!Addr, Addr, Image!Pages, Image!AlignDown, Image!AlignUp, PageStart, PageEnd, AlignDown,
      AlignUp
<1> DEFINE bytes   == [a \in Addr |-> ByteAt(a)]
           backing == [a \in Addr |-> BackingAt(a)]
<1>9. \A a \in Image!Pages(c) : bytes[a] = Image!NotDumped
  BY <1>3, <1>5, <1>8 DEF Image!NotDumped
<1>10. bytes' = [a \in Image!Addr |->
          IF a \notin Image!Pages(c) THEN bytes[a]
          ELSE IF a - c.addr \in 0..(c.len - 1) THEN <<c.src, a - c.addr>> ELSE Image!Zero]
  <2>1. Addr' = Addr /\ \A a \in Addr : bytes[a] = ByteAt(a)
    BY DEF Addr
  <2>2. \A a \in Addr : ByteAt(a)' =
          IF a \notin Image!Pages(c) THEN bytes[a]
          ELSE IF a - c.addr \in 0..(c.len - 1) THEN <<c.src, a - c.addr>> ELSE Image!Zero
    BY <1>3, <1>5, <1>7, <2>1
  <2> QED
    BY <1>8, <2>1, <2>2
<1>11. backing' = [a \in Image!Addr |->
          IF a \in Image!Pages(c) /\ backing[a] = Image!Unmapped THEN Image!Anonymous
                                                                ELSE backing[a]]
  <2>1. Addr' = Addr /\ \A a \in Addr : backing[a] = BackingAt(a)
    BY DEF Addr
  <2>2. \A a \in Addr : BackingAt(a)' =
          IF a \in Image!Pages(c) /\ backing[a] = Image!Unmapped THEN Image!Anonymous
                                                                ELSE backing[a]
    BY <1>3, <1>6, <2>1 DEF Image!Unmapped, Image!Anonymous
  <2> QED
    BY <1>8, <2>1, <2>2
<1> QED
  BY <1>9, <1>10, <1>11 DEF Image!Dump

LEMMA ImageStep == LiveInv /\ LiveInv' /\ [Next]_vars =>
                      [Image!Next]_<<[a \in Addr |-> BackingAt(a)], [a \in Addr |-> ByteAt(a)]>>
<1> SUFFICES ASSUME LiveInv, LiveInv', [Next]_vars
             PROVE  Image!Next \/ UNCHANGED <<[a \in Addr |-> BackingAt(a)],
                                              [a \in Addr |-> ByteAt(a)]>>
  OBVIOUS
<1>1. ASSUME mappings' = mappings
      PROVE  UNCHANGED <<[a \in Addr |-> BackingAt(a)], [a \in Addr |-> ByteAt(a)]>>
  BY <1>1 DEF BackingAt, ByteAt, NoneContaining, EntryAt, FirstContaining, Keys
<1>2. CASE ReadMapsLine
  <2>1. PICK m \in Imports : captured = {} /\ LiveImport(m) /\ InsertMapping(m)
    BY <1>2 DEF ReadMapsLine
  <2>2. Image!MapRegion(m)
    BY <2>1, ImageMaps DEF InsertMapping
  <2> QED
    BY <2>2 DEF Image!Next
<1>3. CASE ReadModule
  <2>1. PICK m \in Imports : /\ captured = {}
                             /\ m.start \in Keys(mappings) \/ LiveImport(m)
                             /\ InsertMappingIfAbsent(m)
    BY <1>3 DEF ReadModule
  <2>2. CASE mappings[m.start] = Absent
    <3>1. Image!MapRegion(m)
      BY <2>1, <2>2, ImageMaps DEF InsertMappingIfAbsent, Keys
    <3> QED
      BY <3>1 DEF Image!Next
  <2>3. CASE mappings[m.start] # Absent
    BY <1>1, <2>1, <2>3 DEF InsertMappingIfAbsent
  <2> QED
    BY <2>2, <2>3
<1>4. CASE Inject
  <2>1. PICK c \in Captures : LiveCapture(c) /\ AddDataToMapping(c)
    BY <1>4 DEF Inject
  <2>2. status' = "ok"
    BY DEF LiveInv
  <2>3. imported' = imported /\ captured' = captured \cup {c}
    BY <2>1, <2>2 DEF AddDataToMapping, SplitMapping, RefillMapping, SynthesizeMapping, Return
  <2>4. Image!Dump(c)
    BY <2>1, <2>3, ImageDumps
  <2> QED
    BY <2>4 DEF Image!Next
<1>5. CASE UNCHANGED vars
  BY <1>1, <1>5 DEF vars
<1> QED
  BY <1>2, <1>3, <1>4, <1>5 DEF Next

\* The table implements the flat memory: seen through the segments, a line or a module
\* maps one region, and add_data_to_mapping, whatever it splits, refills or creates,
\* dumps the pages of its blob and changes no other address.
THEOREM LiveMemoryImage == Spec => ImplementsMemoryImage
<1>1. LiveInv /\ [Next]_vars => LiveInv'
  BY LiveStep
<1> QED
  BY <1>1, ImageInit, ImageStep, LiveInvariant, PTL DEF Spec, ImplementsMemoryImage, Image!Spec

=============================================================================
