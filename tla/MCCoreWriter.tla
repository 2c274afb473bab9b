---------------------------- MODULE MCCoreWriter ----------------------------
(***************************************************************************)
(* Small instances of CoreWriter: files of 64-byte pages with up to three  *)
(* segments (four exceed the header), an inverted one and one above the    *)
(* ELF32 limit among them, and notes that end before, on and behind a page *)
(* boundary.                                                               *)
(***************************************************************************)
EXTENDS CoreWriter

Seg(lo, hi, n) == [start |-> lo, end |-> hi, filesz |-> n]

Shapes == { Seg(64, 192, 0), Seg(64, 192, 64), Seg(128, 256, 128), Seg(70, 80, 0),
            Seg(640, 704, 64), Seg(200, 128, 0) }

MCInputs ==
    { [class |-> k, noteLen |-> n, segments |-> s] :
        k \in {1, 2}, n \in {12, 72, 76, 404}, s \in UNION {[1..m -> Shapes] : m \in 0..3} }
    \cup { [class |-> 2, noteLen |-> 12, segments |-> [i \in 1..4 |-> Seg(64, 192, 0)]] }

=============================================================================
