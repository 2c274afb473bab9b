----------------------------- MODULE MCConvert -----------------------------
(***************************************************************************)
(* Small conversions: the regions of MCAugment, stacks in and outside      *)
(* them, with and without a link map and a dynamic section.                *)
(***************************************************************************)
EXTENDS Convert

CONSTANTS libc, link_map, dynamic, too_wide

StackSource(t) == <<"stack", t>>
MCFiles == {libc}
MCSources == {StackSource(1), StackSource(2), link_map, dynamic}
MCPermissions == {"r", "rw"}

Map(lo, hi, off, p, f) ==
    [start |-> lo, end |-> hi, offset |-> off, permissions |-> p,
     filename |-> f, data |-> NoData]

Text   == Map(6, 12, 2, "r", libc)
Bss    == Map(12, 16, 8, "rw", libc)
MCImports == {Text, Bss}

Stk(a, n) == [addr |-> a, len |-> n]
Linked(v, b, d) ==
    [version |-> v, links |-> v, blobLen |-> b, dynamic |-> d, tags |-> <<"DT_DEBUG">>, rest |-> 0]
Unlinked ==
    [version |-> 0, links |-> 0, blobLen |-> 3, dynamic |-> 0, tags |-> <<>>, rest |-> 0]

MCCaptures ==
    { [src |-> StackSource(t), addr |-> a, len |-> n] : t \in 1..2, a \in 12..17, n \in 1..3 }
    \cup {[src |-> link_map, addr |-> LinkMapAddr, len |-> 3]}
    \cup {[src |-> dynamic, addr |-> 8, len |-> 2]}

\* One to five segments; the last stack is a segment of its own.
MCDumps ==
    { [maps |-> m, modules |-> <<Text>>, stacks |-> s, dso |-> d] :
        m \in {<<>>, <<Text, Bss>>},
        s \in {<<>>, <<Stk(15, 1), Stk(12, 2)>>, <<Stk(13, 1), Stk(16, 3)>>},
        d \in {Unlinked, Linked(1, 3, 8), Linked(0, 3, 0), Linked(1, too_wide, 8)} }

\* All of them are dumps of a live process.
ASSUME DumpsAreLive == \A d \in Dumps : LiveDump(d)
=============================================================================
