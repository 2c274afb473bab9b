----------------------------- MODULE DsoStream -----------------------------
(***************************************************************************)
(* parse_dso_debug (src/src/rust_minidump.rs): the MD_LINUX_DSO_DEBUG      *)
(* stream is a header, the bytes of the dynamic section behind it, and the *)
(* position and the count of link map records elsewhere in the minidump.   *)
(* Neither needs to be true of the file: the sentinel MDRVA means that     *)
(* there are none, and reading ends where the file does.  But memory for   *)
(* as many records as the header claims is reserved before any is looked   *)
(* for, and a claim that the allocator does not grant ends the program.    *)
(*                                                                         *)
(* `records` is what lies at the position, record by record, up to the end *)
(* of the file, which may cut the last one.  A name is the string that its *)
(* own position leads to, or NoName when that is not in the file.          *)
(***************************************************************************)
EXTENDS PageArith, Sequences

CONSTANTS
    Libraries,      \* names in link map records
    NoName,         \* the empty name of unwrap_or_default
    Max32,          \* u32::MAX
    Reservable      \* records for which the allocator is sure to find memory

RawRecord == [addr : Addr, ld : Addr, name : Libraries \cup {NoName}, whole : BOOLEAN]

\* data: there are bytes behind the header; count is dso_count.
DsoStream ==
    [short : BOOLEAN, ldbase : Addr, dynamic : Addr, data : BOOLEAN,
     sentinel : BOOLEAN, count : 0..Max32, records : Seq(RawRecord)]

-----------------------------------------------------------------------------
\* Vec::with_capacity(dso_count) may be refused: an abort, or a panic where the
\* capacity overflows usize.
ReserveFails(s) == ~s.short /\ ~s.sentinel /\ s.count > Reservable

\* The loop of read_link_map_64 and _32 stops at the first record that does not
\* fit the file ...
FitsFileByStart(s, i) == i <= Len(s.records)
FitsFile(s, i) == i <= Len(s.records) /\ s.records[i].whole
RecordsRead(s) ==
    IF s.sentinel THEN {} ELSE {i \in 1..s.count : \A j \in 1..i : FitsFile(s, j)}

\* ... because reading one that does not is an error (pread_with).
ReadFails(s) == ~s.short /\ \E i \in RecordsRead(s) : ~s.records[i].whole

LinkMapOf(s) ==
    [i \in RecordsRead(s) |->
        [addr |-> s.records[i].addr, ld |-> s.records[i].ld, name |-> s.records[i].name]]

=============================================================================
