------------------------------ MODULE MCNotes ------------------------------
(* Up to three threads, two of which may share an id, on a CPU of each kind. *)
EXTENDS Notes

MCTids == {"t1", "t2", "t3"}
MCSignals == {0, 11, 40}

\* A context of the right CPU, of a wrong one, or none.
ThreadLists(right) ==
    UNION {[1..n -> [tid : {"t1", "t2"}, context : {right, "mips", NoContext}]] : n \in 0..3}

ProcessesOn(arch, right) ==
    [arch : {arch}, crashing : {"t1", "t2", "t3"}, exception : {right, NoContext},
     signal : {11, 40}, threads : ThreadLists(right),
     auxvLen : {0}, fileCount : {0}, fileNamesLen : {0}, largestFileWord : {100}]
    \cup
    [arch : {arch}, crashing : {NoTid}, exception : {NoContext},
     signal : {0}, threads : ThreadLists(right),
     auxvLen : {2, 40}, fileCount : {1}, fileNamesLen : {4, 7}, largestFileWord : {100, 101}]

MCProcesses ==
    ProcessesOn("x86", "x86") \cup ProcessesOn("x86_64", "amd64")
    \cup ProcessesOn("aarch64", "arm64_old")
=============================================================================
