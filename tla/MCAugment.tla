------------------------------ MODULE MCAugment ------------------------------
(***************************************************************************)
(* Small dumps: pages of two bytes, LINK_MAP_ADDR on the second, the text  *)
(* and data regions of one file above it, and a module that spans both.    *)
(***************************************************************************)
EXTENDS Augment

CONSTANTS libc, link_map, dynamic, too_wide

StackSource(t) == <<"stack", t>>
MCFiles == {libc}
MCSources == {StackSource(1), StackSource(2), link_map, dynamic}
MCPermissions == {"r", "rw"}

Map(lo, hi, off, p, f) ==
    [start |-> lo, end |-> hi, offset |-> off, permissions |-> p,
     filename |-> f, data |-> NoData]

Text   == Map(6, 12, 2, "r", libc)
Bss    == Map(12, 16, 8, "rw", libc)
Module == Map(6, 16, 0, "r", libc)
\* A region around LINK_MAP_ADDR, as a process may have that maps low addresses.
Low    == Map(0, 6, 0, "r", libc)
MCImports == {Low, Text, Bss, Module}

Stk(a, n) == [addr |-> a, len |-> n]
MCDso ==
    { [version |-> v, links |-> l, blobLen |-> b, dynamic |-> d, tags |-> g, rest |-> r] :
        v \in {0, 1}, l \in {0, 2}, b \in {3, too_wide}, d \in {0, 6, 7},
        g \in {<<>>, <<"DT_DEBUG">>, <<"DT_OTHER", "DT_DEBUG">>, <<"DT_NULL", "DT_DEBUG">>,
               <<"DT_DEBUG", "DT_DEBUG">>},
        r \in 0..1 }

\* The captures that the dumps can ask for.
MCCaptures ==
    { [src |-> StackSource(t), addr |-> a, len |-> n] : t \in 1..2, a \in 12..16, n \in 1..3 }
    \cup {[src |-> link_map, addr |-> LinkMapAddr, len |-> 3]}
    \cup {[src |-> dynamic, addr |-> a, len |-> n] : a \in {6, 7}, n \in 1..5}

DumpsWith(stacks) ==
    { [maps |-> m, modules |-> o, stacks |-> s, dso |-> d] :
        m \in {<<>>, <<Bss, Text, Bss>>, <<Low, Text>>}, o \in {<<>>, <<Module>>},
        s \in stacks, d \in MCDso }

\* Stacks in, at the end of and outside the regions, and one that was not captured.
LiveDumps ==
    DumpsWith({<<>>, <<Stk(12, 1), Stk(14, 2)>>, <<Stk(15, 1), Stk(12, 2)>>,
               <<Stk(12, 0), Stk(13, 3)>>})

ASSUME LiveDumpsAreLive == \A d \in LiveDumps : LiveDump(d)

\* Two threads whose stacks lie on one page.
SharedPageDumps == DumpsWith({<<Stk(12, 1), Stk(13, 1)>>})
=============================================================================
