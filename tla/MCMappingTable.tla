---------------------------- MODULE MCMappingTable ----------------------------
(***************************************************************************)
(* Small instances of MappingTable: six pages of two bytes.                *)
(***************************************************************************)
EXTENDS MappingTable

CONSTANTS libc, stack, dso

MCFiles == {libc}
MCSources == {stack, dso}
MCPermissions == {"r", "rw"}

Map(lo, hi, off, p, f) ==
    [start |-> lo, end |-> hi, offset |-> off, permissions |-> p,
     filename |-> f, data |-> NoData]
Blk(s, a, n) == [src |-> s, addr |-> a, len |-> n]

\* Two neighbouring regions of a file (the readers keep no others), the second
\* ending at the last page boundary a file can have, a module that spans both, and
\* a region that a second maps line repeats.
LiveImports ==
    { Map(2, 4, 2, "rw", libc), Map(4, 10, 4, "r", libc),
      Map(2, 10, 0, "r", libc), Map(2, 8, 0, "rw", libc),
      Map(2, 8, 0, "r", libc) }

\* Blobs that begin on and off a page, fill a page in part, exactly or with the
\* start of the next, below the regions, in each of them and behind them.
LiveCaptures ==
    { Blk(stack, a, n) : a \in {0, 3, 4, 6, 7, 9}, n \in {1, 3} } \cup
    { Blk(dso, a, n) : a \in {0, 2, 5, 8}, n \in 1..2 }

\* Beside those, mappings that start or end off a page, one whose file offset
\* overflows when it is cut, and blobs that are empty or run off the top.
LibraryImports ==
    { Map(3, 8, 0, "r", libc), Map(2, 7, 10, "r", libc),
      Map(2, 10, 0, "rw", NoFile), Map(6, 10, 2, "r", libc) }

LibraryCaptures ==
    { Blk(stack, 3, 1), Blk(stack, 4, 3), Blk(dso, 0, 2),
      Blk(stack, 8, 0), Blk(dso, 11, 3) }

=============================================================================
