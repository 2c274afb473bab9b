------------------------------- MODULE Filter -------------------------------
(***************************************************************************)
(* A loop that pushes some elements of a list to another: the threads      *)
(* behind the crashing one (src/src/core_writer.rs), the lines of maps     *)
(* text that name a file (src/src/rust_minidump.rs, linux_maps.rs).        *)
(***************************************************************************)
EXTENDS Integers, Sequences

\* What has been pushed after n turns of the loop over s, which keeps what is in K.
KeptUpTo(s, K) ==
    LET upto[n \in 0..Len(s)] ==
            IF n = 0 THEN <<>>
            ELSE IF s[n] \in K THEN Append(upto[n - 1], s[n]) ELSE upto[n - 1]
    IN  upto

Kept(s, K) == KeptUpTo(s, K)[Len(s)]

=============================================================================
