----------------------------- MODULE MCLinkMap -----------------------------
(***************************************************************************)
(* Small instances of LinkMap: up to three shared objects, names around    *)
(* the padding boundary, substituted names of another length, and a 32-bit *)
(* limit that long blobs and high addresses exceed.                        *)
(***************************************************************************)
EXTENDS LinkMap

Objects == { [addr |-> a, ld |-> a + 1, name |-> n] : a \in {0, 256, 300}, n \in {0, 7, 8, 120} }

MCInputs ==
    { [word |-> w, version |-> 1, brk |-> b, ldbase |-> 2, linkMap |-> m, signatures |-> s] :
        w \in {4, 8}, b \in {3, 256},
        m \in UNION {[1..n -> Objects] : n \in 0..2} \cup
              {<<a, b, a>> : a, b \in {o \in Objects : o.name \in {7, 8}}},
        s \in {{}, {<<256, 15>>}, {<<0, 3>>, <<300, 16>>}} }

=============================================================================
