------------------------------ MODULE MCIngest ------------------------------
(***************************************************************************)
(* Small minidumps: families each of which varies the streams and files    *)
(* that one question is about, over one plain minidump.                    *)
(***************************************************************************)
EXTENDS Ingest

CONSTANTS app, tool, libc, missing, unreadable, malformed, none

MCNames == {app, tool, libc}
MCFiles == {"none", "sobasedir", "mangle"} \X MCNames
MCPermissions == {"r", "rw"}

Ln(lo, hi, off, p, f) ==
    [start |-> lo, end |-> hi, offset |-> off, permissions |-> p, filename |-> f]
Mod(b, n, f) == [base |-> b, size |-> n, name |-> f, lib |-> f = libc, guid |-> f = libc]

App  == Ln(2, 4, 0, "r", <<"none", app>>)
Bss  == Ln(4, 6, 2, "rw", <<"none", app>>)
Anon == Ln(6, 8, 0, "rw", NoFile)
Late == Ln(2, 6, 1, "rw", <<"none", app>>)
Inverted     == Ln(6, 6, 0, "r", <<"none", libc>>)
AnonInverted == Ln(6, 4, 0, "r", NoFile)

\* The typed maps stream comes sorted by address; maps text is as it was captured.
Texts      == {<<>>, <<App, Bss, Anon>>, <<Late>>, <<App, Inverted>>}
AuxvTexts  == {<<>>, <<App, Anon, Bss>>, <<Late, App>>, <<AnonInverted, Bss>>,
               <<Inverted, App>>, <<App, malformed>>}

AppModule == Mod(2, 4, app)
Library   == Mod(8, 2, libc)
Oversized == Mod(10, 2, libc)
Empty     == Mod(6, 0, libc)
Elsewhere == Mod(6, 2, tool)

\* Files: position-independent or not, with and without PT_PHDR and PT_DYNAMIC, with
\* the headers of one type in disorder, cut short, or made for another CPU.
Header(t, v) == [type |-> t, vaddr |-> v, read |-> "all", data |-> TRUE]
CutAt(h, r)  == [h EXCEPT !.read = r]
NoData4(h)   == [h EXCEPT !.data = FALSE]
Elf(c, e, hs) == [class |-> c, entry |-> e, phoff |-> 1, phdrs |-> hs]

NotElf == Elf(0, 0, <<>>)
Pie    == Elf(64, 1, <<Header("PT_PHDR", 1), Header("PT_LOAD", 0), Header("PT_DYNAMIC", 1)>>)
Fixed  == Elf(64, 3, <<Header("PT_PHDR", 3), Header("PT_LOAD", 2), Header("PT_LOAD", 4),
                       Header("PT_DYNAMIC", 5)>>)
Static == Elf(64, 3, <<Header("PT_LOAD", 2), Header("PT_LOAD", 4)>>)
Bare   == Elf(64, 1, <<Header("other", 7), Header("PT_LOAD", 0), Header("PT_DYNAMIC", 1),
                       Header("PT_DYNAMIC", 2), Header("PT_LOAD", 2)>>)
Narrow == Elf(32, 6, <<Header("PT_LOAD", 0), Header("PT_DYNAMIC", 3)>>)
High   == Elf(64, 8, <<Header("PT_LOAD", 7), Header("PT_DYNAMIC", 8)>>)
Far    == Elf(64, 11, <<Header("PT_LOAD", 0), Header("PT_DYNAMIC", 11)>>)
Cut(f, r) == [f EXCEPT !.phdrs = Append(@, CutAt(Header("other", 0), r))]
Hollow == Elf(64, 3, <<Header("PT_LOAD", 2), NoData4(Header("PT_DYNAMIC", 5))>>)

ElfFiles == {NotElf, Pie, Fixed, Static, Bare, Narrow, High, Far, Hollow,
             Cut(Fixed, "vaddr"), Cut(Fixed, "none")}

At(dir, n, f) == [path |-> <<dir, n>>, file |-> f]
AppFile(f) == {At("none", app, f)}

Plain ==
    [rewrite |-> "none", system |-> "supported", class |-> 64, disk |-> AppFile(Pie),
     maps |-> missing, auxv |-> missing, cmdline |-> missing, threads |-> <<1, 2>>,
     modules |-> missing, exception |-> missing, dsoDebug |-> missing]

\* Mappings: two maps texts and the module list.
MapDumps ==
    { [Plain EXCEPT !.rewrite = r, !.maps = m, !.auxv = a, !.modules = o] :
        r \in {"none", "sobasedir", "mangle"}, m \in Texts \cup {missing},
        a \in AuxvTexts \cup {missing, unreadable, Vector},
        o \in { missing, <<Library, AppModule>>,
                <<Mod(4, 4, app), Mod(4, 2, libc), Oversized, Empty>> } }

\* The executable: which module is taken for it, and for what.
Raw(l, w) == [addr |-> 2, ld |-> 3, name |-> l, whole |-> w]
Dso(short, sentinel, n, rs) ==
    [short |-> short, ldbase |-> 0, dynamic |-> 3, data |-> TRUE, sentinel |-> sentinel,
     count |-> n, records |-> rs]
FullDso == Dso(FALSE, FALSE, 1, <<Raw(libc, TRUE), Raw(app, FALSE)>>)

ExecutableDumps ==
    { [Plain EXCEPT !.auxv = a, !.cmdline = c, !.modules = <<e, f>>, !.disk = d, !.dsoDebug = s] :
        a \in {missing, Vector, <<App>>},
        c \in {missing, unreadable, "unterminated", "unnamed", "named"},
        e, f \in {AppModule, Elsewhere, Library},
        d \in {{}, AppFile(NotElf), AppFile(Static), AppFile(Pie)},
        s \in {missing, FullDso} }

\* The file of the executable, and the one that a debugger will find for it.
ElfDumps ==
    { [Plain EXCEPT !.class = c, !.rewrite = r, !.modules = <<Library, Mod(b, 4, app)>>,
                    !.disk = AppFile(f) \cup extra] :
        c \in {32, 64}, r \in {"none", "sobasedir", "mangle"}, b \in {2, 6},
        f \in ElfFiles,
        extra \in { {}, {At("sobasedir", app, Pie), At("mangle", libc, Pie)},
                    {At("system", app, Fixed), At("system", libc, Pie)} } }

\* The captured r_debug: short, without a link map, cut short in it, and with a count
\* above Reservable.
DsoDumps ==
    { [Plain EXCEPT !.dsoDebug = d] :
        d \in {unreadable} \cup
              { Dso(s, n, k, rs) :
                  s, n \in BOOLEAN, k \in 0..3,
                  rs \in { <<>>, <<Raw(app, TRUE)>>, <<Raw(app, FALSE)>>,
                           <<Raw(app, TRUE), Raw(none, TRUE)>>,
                           <<Raw(app, TRUE), Raw(libc, FALSE)>> } } }

\* Threads and the exception.
ThreadDumps ==
    { [Plain EXCEPT !.system = s, !.threads = t, !.exception = x] :
        s \in {missing, "supported", "unsupported"},
        t \in {missing, <<>>, <<1>>, <<2, 1>>}, x \in {missing, 1, 2, 3} }

MCMinidumps == MapDumps \cup ExecutableDumps \cup ElfDumps \cup DsoDumps \cup ThreadDumps

\* An executable that is not on this disk, in front of another that is.
AbsentExecutableFirst ==
    { [Plain EXCEPT !.modules = <<Elsewhere, AppModule>>, !.disk = AppFile(f)] : f \in {Pie, Static} }

\* Executables with the layout of linked ones, at the address they ask for or not.
LinkedExecutables ==
    { [Plain EXCEPT !.modules = <<Mod(2, 4, app)>>, !.disk = AppFile(f)] : f \in {Pie, Fixed, Static} }
=============================================================================
