------------------------------ MODULE ElfScan ------------------------------
(***************************************************************************)
(* The three scans of an ELF file in src/src/rust_minidump.rs.  Each walks *)
(* the program headers of a file on this disk, on which no two dumps need  *)
(* agree, and gives up without a word when a header cannot be read:        *)
(*                                                                         *)
(*   elf_dynamic_runtime_addr   l_ld of a shared object in the link map    *)
(*   read_executable_dynamic    _DYNAMIC of the executable and its bytes   *)
(*   build_synthetic_auxv       AT_PHDR and AT_ENTRY of the executable     *)
(*                                                                         *)
(* A file is the headers it has and how far each of them can be read.      *)
(***************************************************************************)
EXTENDS PageArith, Sequences, FiniteSetsExt

CONSTANTS
    Max32,          \* u32::MAX
    None            \* Option::None

ASSUME ElfScanAssumption ==
    /\ Max32 \in 0..MaxAddr
    /\ None \notin 0..MaxAddr

\* `read` is how far the file reaches into the header: all of it, through p_vaddr
\* but not p_filesz, or not even that; `data` that the bytes the header describes
\* lie in the file.
ProgramHeader ==
    [type : {"PT_LOAD", "PT_DYNAMIC", "PT_PHDR", "other"}, vaddr : Addr,
     read : {"all", "vaddr", "none"}, data : BOOLEAN]

\* class is 0 for a file that cannot be read, has no ELF magic or ends before
\* e_phnum.
ElfFile ==
    [class : {0, 32, 64}, entry : Addr, phoff : Addr, phdrs : Seq(ProgramHeader)]

-----------------------------------------------------------------------------
\* Every header is readable as far as the scan reads it.
Scanned(f, class, parts) ==
    /\ f.class = class
    /\ \A i \in 1..Len(f.phdrs) : f.phdrs[i].read \in parts

HeadersOf(f, type) == {i \in 1..Len(f.phdrs) : f.phdrs[i].type = type}

\* The index of the first PT_LOAD (get_or_insert) ...
FirstLoad(f) ==
    IF HeadersOf(f, "PT_LOAD") = {} THEN 0 ELSE Min(HeadersOf(f, "PT_LOAD"))

\* ... and of the last header of any other type; 0 if there is none.
LastOf(f, type) == IF HeadersOf(f, type) = {} THEN 0 ELSE Max(HeadersOf(f, type))

\* load_bias: an image loaded below its first p_vaddr has none (checked_sub).
HasBias(f, base) == FirstLoad(f) # 0 /\ f.phdrs[FirstLoad(f)].vaddr <= base
Bias(f, base) == base - f.phdrs[FirstLoad(f)].vaddr

\* elf_dynamic_runtime_addr once the file is found.
RuntimeDynamicFromBase(class, f, base) ==
    LET d == LastOf(f, "PT_DYNAMIC") IN
    IF /\ Scanned(f, class, {"all", "vaddr"}) /\ d # 0
       /\ base + f.phdrs[d].vaddr <= MaxAddr
    THEN base + f.phdrs[d].vaddr ELSE None
RuntimeDynamic(class, f, base) ==
    LET d == LastOf(f, "PT_DYNAMIC") IN
    IF /\ Scanned(f, class, {"all", "vaddr"}) /\ d # 0 /\ HasBias(f, base)
       /\ Bias(f, base) + f.phdrs[d].vaddr <= MaxAddr
    THEN Bias(f, base) + f.phdrs[d].vaddr ELSE None

\* read_executable_dynamic: it also needs p_offset and p_filesz, and the bytes.
ExecutableDynamic(class, f, base) ==
    LET d == LastOf(f, "PT_DYNAMIC") IN
    IF /\ Scanned(f, class, {"all"}) /\ d # 0 /\ HasBias(f, base)
       /\ Bias(f, base) + f.phdrs[d].vaddr <= MaxAddr
       /\ f.phdrs[d].data
    THEN [dynamic |-> Bias(f, base) + f.phdrs[d].vaddr, bias |-> Bias(f, base)]
    ELSE None

\* build_synthetic_auxv: without PT_PHDR, the place of the headers in the file
\* stands in for their address.
PhdrVaddr(f) ==
    IF LastOf(f, "PT_PHDR") = 0 THEN f.phoff ELSE f.phdrs[LastOf(f, "PT_PHDR")].vaddr

AuxvFits(class, a) == a <= (IF class = 32 THEN Max32 ELSE MaxAddr)

AuxvOf(class, f, base) ==
    IF /\ Scanned(f, class, {"all", "vaddr"}) /\ HasBias(f, base)
       /\ \A a \in {PhdrVaddr(f), f.entry} : AuxvFits(class, Bias(f, base) + a)
    THEN [phdr |-> Bias(f, base) + PhdrVaddr(f), entry |-> Bias(f, base) + f.entry]
    ELSE None

=============================================================================
