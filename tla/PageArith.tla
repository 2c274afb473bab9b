----------------------------- MODULE PageArith -----------------------------
(***************************************************************************)
(* Address and page arithmetic of the converter (src/src/model.rs).        *)
(*                                                                         *)
(* u64 is modelled by Addr == 0..MaxAddr: MaxAddr stands for u64::MAX and  *)
(* MaxAddr + 1 is a whole number of pages, as 2^64 is.  An operation that  *)
(* the code checks (checked_add) is written without wrap-around and its    *)
(* caller compares the result with MaxAddr; the one subtraction the code   *)
(* leaves unchecked is WrapSub in a release build.                         *)
(***************************************************************************)
EXTENDS Integers

CONSTANTS
    PageSize,   \* DEFAULT_PAGE_SIZE
    MaxAddr     \* u64::MAX

ASSUME PageArithAssumption ==
    /\ PageSize \in Nat \ {0}
    /\ MaxAddr \in Nat
    /\ (MaxAddr + 1) % PageSize = 0

Addr == 0..MaxAddr

\* align_down: the first byte of the page that holds a.
AlignDown(a) == a - (a % PageSize)

\* align_up before its overflow check: a caller rejects a result > MaxAddr.
AlignUp(a) == IF a % PageSize = 0 THEN a ELSE a + (PageSize - (a % PageSize))

\* padded_vec: the length of n bytes padded with zeros to whole pages.
PaddedLen(n) == n + ((PageSize - (n % PageSize)) % PageSize)

\* a - b in a build without overflow checks.
WrapSub(a, b) == (a - b) % (MaxAddr + 1)

=============================================================================
