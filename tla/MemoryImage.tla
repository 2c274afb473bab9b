----------------------------- MODULE MemoryImage -----------------------------
(***************************************************************************)
(* What the mapping table promises, without the table: the memory of a     *)
(* dead process as an array over its addresses.  Each address is backed by *)
(* nothing, by anonymous memory or by a position of a file, and may hold a *)
(* captured byte.  Regions are mapped first; then each capture writes its  *)
(* pages, zero around the blob, and touches no other address.  There are   *)
(* no keys, no splits and no failures.                                     *)
(***************************************************************************)
EXTENDS PageArith

CONSTANTS Regions, Blobs, NoFile, ReadWrite

VARIABLES
    backing,        \* what lies behind each address
    bytes           \* the captured byte at each address

Unmapped   == <<>>
NotDumped  == <<>>
Zero       == <<"zero">>
Anonymous  == <<NoFile, ReadWrite, 0>>

Pages(c) == AlignDown(c.addr)..(AlignUp(c.addr + c.len) - 1)

BackedBy(m, a) ==
    <<m.filename, m.permissions,
      IF m.filename = NoFile THEN m.offset ELSE m.offset + (a - m.start)>>

Init ==
    /\ backing = [a \in Addr |-> Unmapped]
    /\ bytes = [a \in Addr |-> NotDumped]

\* A region is mapped; a region listed twice takes the later description.
MapRegion(m) ==
    /\ \A a \in Addr : bytes[a] = NotDumped
    /\ backing' = [a \in Addr |-> IF a \in m.start..(m.end - 1) THEN BackedBy(m, a)
                                                               ELSE backing[a]]
    /\ UNCHANGED bytes

Dump(c) ==
    /\ \A a \in Pages(c) : bytes[a] = NotDumped
    /\ bytes' = [a \in Addr |->
          IF a \notin Pages(c) THEN bytes[a]
          ELSE IF a - c.addr \in 0..(c.len - 1) THEN <<c.src, a - c.addr>> ELSE Zero]
    /\ backing' = [a \in Addr |->
          IF a \in Pages(c) /\ backing[a] = Unmapped THEN Anonymous ELSE backing[a]]

Next == \/ \E m \in Regions : MapRegion(m)
        \/ \E c \in Blobs : Dump(c)

Spec == Init /\ [][Next]_<<backing, bytes>>

=============================================================================
