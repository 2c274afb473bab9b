----------------------------- MODULE NotesProofs -----------------------------
(***************************************************************************)
(* The notes of a core, for every list of threads and every architecture:  *)
(* which thread is selected, and which registers are read as whose.        *)
(***************************************************************************)
EXTENDS Notes, FilterProofs

\* The list of threads is empty until it is made, and then stays.
Order == CrashingThread \o OtherThreads
OrderOK ==
    /\ phase \in {"process", "file", "order"} => ordered = <<>>
    /\ phase \in {"threads", "done"} => ordered = Order
    /\ ordered \in {<<>>, Order}

\* Each status was made by a turn of the loop, in the order of the turns, and each
\* turn with a context made one.
IsStatus(s, i) ==
    /\ notes[s].thread = ordered[i] /\ notes[s].signal = SignalAt(i)
    /\ notes[s].context = ContextAt(i)

StatusesOK ==
    /\ \A s \in StatusNotes : \E i \in 1..(index - 1) : IsStatus(s, i)
    /\ \A s, u \in StatusNotes : \A i, j \in 1..(index - 1) :
          s < u /\ IsStatus(s, i) /\ IsStatus(u, j) => i < j
    /\ \A i \in 1..(index - 1) :
          ContextAt(i) # NoContext => \E s \in StatusNotes : IsStatus(s, i)

NotesInv ==
    /\ TypeOK /\ OrderOK /\ StatusesOK /\ RegistersBelong
    /\ phase = "done" => index = Len(ordered) + 1


-----------------------------------------------------------------------------
LEMMA ProcessFacts ==
    ASSUME process \in Processes
    PROVE  /\ process.arch \in Architectures /\ Threads \in Seq(Thread) /\ Len(Threads) \in Nat
           /\ process.exception \in Context /\ process.signal \in Signals
           /\ \A t \in 1..Len(Threads) :
                 /\ Threads[t] \in Thread
                 /\ Threads[t].tid \in Tids /\ Threads[t].context \in Context
<1>1. /\ process.arch \in Architectures /\ process.threads \in Seq(Thread)
      /\ process.exception \in Context /\ process.signal \in Signals
  BY NotesAssumption DEF Process
<1>2. Len(Threads) \in Nat
  BY <1>1, LenProperties DEF Threads
<1>3. ASSUME NEW t \in 1..Len(Threads)
      PROVE  Threads[t] \in Thread
  BY <1>1, ElementOfSeq DEF Threads
<1> QED
  BY <1>1, <1>2, <1>3 DEF Threads, Thread

LEMMA CrashingFacts ==
    ASSUME process \in Processes
    PROVE  \/ /\ CrashingThread = <<>>
              /\ \A t \in 1..Len(Threads) : Threads[t].tid # process.crashing
           \/ \E c \in 1..Len(Threads) :
                 CrashingThread = <<c>> /\ Threads[c].tid = process.crashing
<1> DEFINE hits == {t \in 1..Len(Threads) : Threads[t].tid = process.crashing}
<1>1. CASE hits = {}
  BY <1>1 DEF CrashingThread
<1>2. CASE hits # {}
  <2>1. hits \in SUBSET Nat
    BY SMT
  <2>2. \E t \in hits : \A u \in hits : t <= u
    <3> HIDE DEF hits
    <3> QED
      BY <1>2, <2>1, LeastNat
  <2> DEFINE c == CHOOSE t \in hits : \A u \in hits : t <= u
  <2>3. c \in hits
    <3> HIDE DEF hits
    <3> QED
      BY <2>2
  <2>4. CrashingThread = <<c>>
    BY <1>2 DEF CrashingThread
  <2> QED
    BY <2>3, <2>4
<1> QED
  BY <1>1, <1>2

LEMMA OtherFacts ==
    ASSUME process \in Processes
    PROVE  /\ OtherThreads \in Seq(1..Len(Threads))
           /\ \A i \in 1..Len(OtherThreads) :
                 Threads[OtherThreads[i]].tid # process.crashing
           /\ \A i, j \in 1..Len(OtherThreads) :
                 OtherThreads[i] = OtherThreads[j] => i = j
           /\ \A t \in 1..Len(Threads) :
                 Threads[t].tid # process.crashing
                    => \E i \in 1..Len(OtherThreads) : OtherThreads[i] = t
<1> DEFINE all == [t \in 1..Len(Threads) |-> t]
           K   == {t \in 1..Len(Threads) : Threads[t].tid # process.crashing}
<1>1. Len(Threads) \in Nat
  BY ProcessFacts
<1>2. /\ all \in Seq(1..Len(Threads)) /\ Len(all) = Len(Threads)
      /\ \A t \in 1..Len(Threads) : all[t] = t
  BY <1>1, SMT
<1>3. OtherThreads = Kept(all, K)
  BY DEF OtherThreads
<1> HIDE DEF all, K
<1>4. OtherThreads \in Seq(1..Len(Threads))
  BY <1>2, <1>3, KeptPlaces
<1>5. PICK at : Places(all, K, at)
  BY <1>2, KeptPlaces
<1>6. /\ at \in Seq(1..Len(Threads)) /\ Len(at) = Len(OtherThreads)
      /\ \A i \in 1..Len(at) : OtherThreads[i] = all[at[i]] /\ all[at[i]] \in K
      /\ \A i, j \in 1..Len(at) : i < j => at[i] < at[j]
      /\ \A m \in 1..Len(Threads) : all[m] \in K => \E i \in 1..Len(at) : at[i] = m
  BY <1>2, <1>3, <1>5 DEF Places
<1>7. ASSUME NEW i \in 1..Len(at)
      PROVE  at[i] \in 1..Len(Threads) /\ at[i] \in Nat /\ OtherThreads[i] = at[i] /\ at[i] \in K
  <2>1. at[i] \in 1..Len(Threads)
    BY <1>6, <1>7, ElementOfSeq
  <2>2. at[i] \in Nat
    BY <2>1, SMT
  <2> QED
    BY <1>2, <1>6, <2>1, <2>2
<1>8. ASSUME NEW i \in 1..Len(at), NEW j \in 1..Len(at), at[i] = at[j]
      PROVE  i = j
  <2>1. ~ (i < j) /\ ~ (j < i)
    <3>1. ~ (at[i] < at[j]) /\ ~ (at[j] < at[i])
      BY <1>7, <1>8, SMT
    <3> QED
      BY <1>6, <3>1
  <2> QED
    BY <2>1, SMT
<1>9. \A i \in 1..Len(OtherThreads) : Threads[OtherThreads[i]].tid # process.crashing
  BY <1>6, <1>7 DEF K
<1>10. \A t \in 1..Len(Threads) :
           Threads[t].tid # process.crashing
              => \E i \in 1..Len(OtherThreads) : OtherThreads[i] = t
  <2>1. ASSUME NEW t \in 1..Len(Threads), Threads[t].tid # process.crashing
        PROVE  \E i \in 1..Len(OtherThreads) : OtherThreads[i] = t
    <3>1. all[t] \in K
      BY <1>2, <2>1 DEF K
    <3> QED
      BY <1>2, <1>6, <1>7, <3>1
  <2> QED
    BY <2>1
<1>11. \A i, j \in 1..Len(OtherThreads) : OtherThreads[i] = OtherThreads[j] => i = j
  BY <1>6, <1>7, <1>8
<1> QED
  BY <1>4, <1>9, <1>10, <1>11

\* Moving the crashing thread to the front repeats no thread, and loses only the
\* later namesakes of the crashing one.
LEMMA OrderFacts ==
    ASSUME process \in Processes
    PROVE  /\ Order \in Seq(1..Len(Threads))
           /\ \A i, j \in 1..Len(Order) : Order[i] = Order[j] => i = j
           /\ \A t \in 1..Len(Threads) :
                 ~ Namesake(t) => \E i \in 1..Len(Order) : Order[i] = t
           /\ \A i \in 1..Len(Order) : ~ Namesake(Order[i])
           /\ CrashingThread # <<>> =>
                 Len(Order) >= 1 /\ Order[1] = CrashingThread[1]
<1> DEFINE o == OtherThreads
           T == 1..Len(Threads)
<1>1. /\ o \in Seq(T)
      /\ \A i \in 1..Len(o) : Threads[o[i]].tid # process.crashing
      /\ \A i, j \in 1..Len(o) : o[i] = o[j] => i = j
      /\ \A t \in T : Threads[t].tid # process.crashing => \E i \in 1..Len(o) : o[i] = t
  BY OtherFacts
<1>2. Len(o) \in Nat /\ \A i \in 1..Len(o) : o[i] \in T
  BY <1>1, LenProperties, ElementOfSeq
<1>3. CASE /\ CrashingThread = <<>>
           /\ \A t \in T : Threads[t].tid # process.crashing
  <2>1. Order = o
    BY <1>1, <1>3, ConcatEmptySeq DEF Order
  <2> QED
    BY <1>1, <1>2, <1>3, <2>1 DEF Namesake
<1>4. ASSUME NEW c \in T, CrashingThread = <<c>>, Threads[c].tid = process.crashing
      PROVE  /\ Order \in Seq(T)
             /\ \A i, j \in 1..Len(Order) : Order[i] = Order[j] => i = j
             /\ \A t \in T : ~ Namesake(t) => \E i \in 1..Len(Order) : Order[i] = t
             /\ \A i \in 1..Len(Order) : ~ Namesake(Order[i])
             /\ Len(Order) >= 1 /\ Order[1] = CrashingThread[1]
  <2>1. CrashingThread \in Seq(T) /\ Len(CrashingThread) = 1 /\ CrashingThread[1] = c
    BY <1>4, SMT
  <2>2. /\ Order \in Seq(T) /\ Len(Order) = 1 + Len(o)
        /\ \A i \in 1..Len(Order) :
              Order[i] = IF i <= 1 THEN CrashingThread[i] ELSE o[i - 1]
    <3>1. /\ Order \in Seq(T) /\ Len(Order) = Len(CrashingThread) + Len(o)
          /\ \A i \in 1..(Len(CrashingThread) + Len(o)) :
                Order[i] = IF i <= Len(CrashingThread) THEN CrashingThread[i]
                           ELSE o[i - Len(CrashingThread)]
      <4>1. CrashingThread \in Seq(T) /\ o \in Seq(T) /\ Order = CrashingThread \o o
        BY <1>1, <2>1 DEF Order
      <4> HIDE DEF o, T
      <4> QED
        BY <4>1, ConcatProperties
    <3> QED
      BY <2>1, <3>1
  <2>3. 1 \in 1..Len(Order) /\ Order[1] = c
    <3>1. 1 \in 1..Len(Order) /\ 1 <= 1
      BY <1>2, <2>2, SMT
    <3> QED
      BY <2>1, <2>2, <3>1
  <2>4. ASSUME NEW i \in 1..Len(Order), i # 1
        PROVE  i - 1 \in 1..Len(o) /\ Order[i] = o[i - 1] /\ o[i - 1] \in T /\ i \in Nat
    <3>1. i - 1 \in 1..Len(o) /\ ~ (i <= 1) /\ i \in Nat
      BY <1>2, <2>2, <2>4, SMT
    <3> QED
      BY <1>2, <2>2, <3>1
  <2>5. ASSUME NEW i \in 1..Len(Order), NEW j \in 1..Len(Order), Order[i] = Order[j]
        PROVE  i = j
    <3>1. CASE i # 1 /\ j # 1
      <4>1. /\ i - 1 \in 1..Len(o) /\ j - 1 \in 1..Len(o) /\ o[i - 1] = o[j - 1]
            /\ i \in Nat /\ j \in Nat
        BY <2>4, <2>5, <3>1
      <4>2. i - 1 = j - 1
        BY <1>1, <4>1
      <4> QED
        BY <4>1, <4>2, SMT
    <3>2. ASSUME NEW k \in 1..Len(Order), k # 1
          PROVE  Order[k] # Order[1]
      <4>1. k - 1 \in 1..Len(o) /\ Order[k] = o[k - 1]
        BY <2>4, <3>2
      <4>2. Threads[o[k - 1]].tid # process.crashing
        BY <1>1, <4>1
      <4> QED
        BY <1>4, <2>3, <4>1, <4>2
    <3> QED
      BY <2>5, <3>1, <3>2
  <2>6. ASSUME NEW t \in T, ~ Namesake(t)
        PROVE  \E i \in 1..Len(Order) : Order[i] = t
    <3>1. CASE t = c
      BY <2>3, <3>1
    <3>2. CASE t # c
      <4>1. Threads[t].tid # process.crashing
        BY <2>1, <2>6, <3>2 DEF Namesake
      <4>2. PICK i \in 1..Len(o) : o[i] = t
        BY <1>1, <4>1
      <4>3. i + 1 \in 1..Len(Order) /\ i + 1 # 1 /\ (i + 1) - 1 = i
        BY <1>2, <2>2, <4>2, SMT
      <4> QED
        BY <2>2, <2>4, <4>2, <4>3
    <3> QED
      BY <3>1, <3>2
  <2>7. ASSUME NEW i \in 1..Len(Order)
        PROVE  ~ Namesake(Order[i])
    <3>1. CASE i = 1
      BY <2>1, <2>3, <3>1 DEF Namesake
    <3>2. CASE i # 1
      <4>1. i - 1 \in 1..Len(o) /\ Order[i] = o[i - 1]
        BY <2>4, <3>2
      <4>2. Threads[o[i - 1]].tid # process.crashing
        BY <1>1, <4>1
      <4> QED
        BY <4>1, <4>2 DEF Namesake
    <3> QED
      BY <3>1, <3>2
  <2>8. Len(Order) >= 1
    BY <1>2, <2>2, SMT
  <2> QED
    BY <2>1, <2>2, <2>3, <2>5, <2>6, <2>7, <2>8
<1> QED
  BY <1>3, <1>4, CrashingFacts

-----------------------------------------------------------------------------
(* One turn of the loop appends a status and the register notes behind it.  *)

TurnOK(b, i) ==
    /\ b \in Seq(Note) /\ Len(b) \in 1..3 /\ b[1] = StatusOf(i)
    /\ \A k \in 2..Len(b) :
          b[k].type \in {"NT_FPREGSET", "NT_PRXFPREG"} /\ b[k].thread = ordered[i]
    /\ HasFpregset(process.arch) <=> \E k \in 2..Len(b) : b[k].type = "NT_FPREGSET"

LEMMA SignalFacts ==
    ASSUME process \in Processes, NEW i
    PROVE  SignalAt(i) \in Signals /\ CurSig(SignalAt(i)) \in Int
<1>1. SignalAt(i) \in Signals
  BY ProcessFacts, NotesAssumption DEF SignalAt
<1>2. MaxI16 \in Nat /\ SignalAt(i) \in Int
  BY <1>1, NotesAssumption, Zenon
<1>3. CurSig(SignalAt(i)) \in {SignalAt(i), MaxI16}
  BY DEF CurSig
<1>4. MaxI16 \in Int
  BY <1>2, SMT
<1> QED
  BY <1>1, <1>2, <1>3, <1>4

\* Lists of up to three elements, written as concatenations.
LEMMA ShortLists ==
    ASSUME NEW S, NEW x \in S, NEW y \in S, NEW z \in S
    PROVE  /\ <<x>> \o <<>> = <<x>> /\ <<x>> \o <<y>> = <<x, y>>
           /\ <<x, y>> \o <<>> = <<x, y>> /\ <<x, y>> \o <<z>> = <<x, y, z>>
<1>1. <<x>> \in Seq(S) /\ <<x, y>> \in Seq(S)
  BY SMT
<1>2. <<x>> \o <<y>> = Append(<<x>>, y) /\ <<x, y>> \o <<z>> = Append(<<x, y>>, z)
  BY <1>1, AppendIsConcat
<1>3. Append(<<x>>, y) = <<x, y>> /\ Append(<<x, y>>, z) = <<x, y, z>>
  <2>1. /\ Len(<<x>>) = 1 /\ <<x>>[1] = x /\ 1..1 = {1}
        /\ <<x, y>> \in Seq(S) /\ Len(<<x, y>>) = 2 /\ <<x, y>>[1] = x /\ <<x, y>>[2] = y
        /\ <<x, y, z>> \in Seq(S) /\ Len(<<x, y, z>>) = 3
        /\ <<x, y, z>>[1] = x /\ <<x, y, z>>[2] = y /\ <<x, y, z>>[3] = z
        /\ 1..2 = {1, 2} /\ 1..3 = {1, 2, 3} /\ 1 + 1 = 2 /\ 2 + 1 = 3
    BY SMT
  <2>2. /\ Append(<<x>>, y) \in Seq(S) /\ Len(Append(<<x>>, y)) = 2
        /\ Append(<<x>>, y)[1] = x /\ Append(<<x>>, y)[2] = y
    BY <1>1, <2>1, AppendProperties
  <2>3. /\ Append(<<x, y>>, z) \in Seq(S) /\ Len(Append(<<x, y>>, z)) = 3
        /\ Append(<<x, y>>, z)[1] = x /\ Append(<<x, y>>, z)[2] = y
        /\ Append(<<x, y>>, z)[3] = z
    BY <1>1, <2>1, AppendProperties
  <2>4. Append(<<x>>, y) = <<x, y>>
    <3>1. \A k \in 1..2 : Append(<<x>>, y)[k] = <<x, y>>[k]
      BY <2>1, <2>2
    <3> QED
      BY <2>1, <2>2, <3>1, SeqEqual
  <2>5. Append(<<x, y>>, z) = <<x, y, z>>
    <3>1. \A k \in 1..3 : Append(<<x, y>>, z)[k] = <<x, y, z>>[k]
      BY <2>1, <2>3
    <3> QED
      BY <2>1, <2>3, <3>1, SeqEqual
  <2> QED
    BY <2>4, <2>5
<1>4. <<x>> \o <<>> = <<x>> /\ <<x, y>> \o <<>> = <<x, y>>
  BY <1>1, ConcatEmptySeq
<1> QED
  BY <1>2, <1>3, <1>4

LEMMA PlainNoteType ==
    ASSUME NEW type \in Types, NEW t \in Nat, NEW tid \in Tids \cup {NoTid}
    PROVE  /\ PlainNote(type, t, tid) \in Note
           /\ PlainNote(type, t, tid).type = type /\ PlainNote(type, t, tid).thread = t
<1>1. 0 \in Signals /\ 0 \in Int /\ NoContext \in Context
  BY NotesAssumption DEF Context
<1> QED
  BY <1>1 DEF PlainNote, Note

LEMMA TurnFacts ==
    ASSUME TypeOK, NEW i \in 1..Len(ordered), ContextAt(i) \in Context
    PROVE  TurnOK(ThreadNotes(i), i)
<1> DEFINE b == ThreadNotes(i)
           t == ordered[i]
           fp == RegisterNote("NT_FPREGSET", t)
           px == RegisterNote("NT_PRXFPREG", t)
<1>1. t \in 1..Len(Threads) /\ Threads[t].tid \in Tids /\ t \in Nat
  BY ProcessFacts, ElementOfSeq, SMT DEF TypeOK
<1>2. StatusOf(i) \in Note /\ StatusOf(i).thread = t /\ StatusOf(i).type = "NT_PRSTATUS"
  <2>1. SignalAt(i) \in Signals /\ CurSig(SignalAt(i)) \in Int
    BY SignalFacts DEF TypeOK
  <2>2. HasFpregset(process.arch) \in BOOLEAN
    BY DEF HasFpregset
  <2> QED
    BY <1>1, <2>1, <2>2 DEF StatusOf, Note, Types
<1>3. /\ fp \in Note /\ px \in Note
      /\ fp.type = "NT_FPREGSET" /\ fp.thread = t
      /\ px.type = "NT_PRXFPREG" /\ px.thread = t
  <2>1. "NT_FPREGSET" \in Types /\ "NT_PRXFPREG" \in Types
    BY DEF Types
  <2> HIDE DEF t
  <2> QED
    BY <1>1, <2>1, PlainNoteType DEF RegisterNote
<1> DEFINE x == StatusOf(i)
<1>4. /\ <<x>> \o <<>> = <<x>> /\ <<x>> \o <<fp>> = <<x, fp>>
      /\ <<x, fp>> \o <<>> = <<x, fp>> /\ <<x, fp>> \o <<px>> = <<x, fp, px>>
  <2> HIDE DEF x, fp, px
  <2> QED
    BY <1>2, <1>3, ShortLists DEF x
<1>5. b = (<<x>> \o (IF HasFpregset(process.arch) THEN <<fp>> ELSE <<>>))
          \o (IF HasPrxfpreg(process.arch) THEN <<px>> ELSE <<>>)
  BY DEF ThreadNotes
<1> HIDE DEF b, fp, px, x, t
<1>6. CASE process.arch = "x86"
  <2>1. b = <<x, fp, px>>
    BY <1>4, <1>5, <1>6 DEF HasFpregset, HasPrxfpreg
  <2> QED
    BY <1>2, <1>3, <1>6, <2>1, SMT DEF TurnOK, HasFpregset, b, t, x
<1>7. CASE process.arch = "x86_64"
  <2>1. b = <<x, fp>>
    BY <1>4, <1>5, <1>7 DEF HasFpregset, HasPrxfpreg
  <2> QED
    BY <1>2, <1>3, <1>7, <2>1, SMT DEF TurnOK, HasFpregset, b, t, x
<1>8. CASE process.arch \notin {"x86", "x86_64"}
  <2>1. b = <<x>>
    BY <1>4, <1>5, <1>8 DEF HasFpregset, HasPrxfpreg
  <2> QED
    BY <1>2, <1>3, <1>8, <2>1, SMT DEF TurnOK, HasFpregset, b, t, x
<1> QED
  BY <1>6, <1>7, <1>8 DEF b

-----------------------------------------------------------------------------
(* What appending does to the notes before.                                *)

LEMMA Longer ==
    ASSUME notes \in Seq(Note), NEW b \in Seq(Note), notes' = notes \o b
    PROVE  /\ notes' \in Seq(Note) /\ Len(notes) \in Nat /\ Len(b) \in Nat
           /\ Len(notes') = Len(notes) + Len(b)
           /\ \A n \in 1..Len(notes) : notes'[n] = notes[n] /\ n \in 1..Len(notes')
           /\ \A k \in 1..Len(b) :
                 /\ notes'[Len(notes) + k] = b[k]
                 /\ Len(notes) + k \in 1..Len(notes') /\ Len(notes) + k \notin 1..Len(notes)
           /\ \A n \in 1..Len(notes') :
                 n \in 1..Len(notes) \/ \E k \in 1..Len(b) : n = Len(notes) + k
<1>1. /\ notes' \in Seq(Note) /\ Len(notes') = Len(notes) + Len(b)
      /\ \A n \in 1..(Len(notes) + Len(b)) :
            notes'[n] = IF n <= Len(notes) THEN notes[n] ELSE b[n - Len(notes)]
  BY ConcatProperties
<1>2. Len(notes) \in Nat /\ Len(b) \in Nat
  BY LenProperties
<1>3. ASSUME NEW n \in 1..Len(notes)
      PROVE  notes'[n] = notes[n] /\ n \in 1..Len(notes')
  <2>1. n \in 1..(Len(notes) + Len(b)) /\ n <= Len(notes)
    BY <1>2, SMT
  <2> QED
    BY <1>1, <2>1
<1>4. ASSUME NEW k \in 1..Len(b)
      PROVE  /\ notes'[Len(notes) + k] = b[k]
             /\ Len(notes) + k \in 1..Len(notes') /\ Len(notes) + k \notin 1..Len(notes)
  <2>1. /\ Len(notes) + k \in 1..(Len(notes) + Len(b)) /\ ~ (Len(notes) + k <= Len(notes))
        /\ (Len(notes) + k) - Len(notes) = k
    BY <1>2, SMT
  <2> QED
    BY <1>1, <2>1
<1>5. ASSUME NEW n \in 1..Len(notes'), n \notin 1..Len(notes)
      PROVE  \E k \in 1..Len(b) : n = Len(notes) + k
  <2>1. n - Len(notes) \in 1..Len(b) /\ n = Len(notes) + (n - Len(notes))
    BY <1>1, <1>2, <1>5, SMT
  <2> QED
    BY <2>1
<1> QED
  BY <1>1, <1>2, <1>3, <1>4, <1>5

\* What a turn does depends on the process and the list alone.
LEMMA SameTurns ==
    ASSUME process' = process, ordered' = ordered
    PROVE  /\ \A i : SignalAt(i)' = SignalAt(i) /\ ContextAt(i)' = ContextAt(i)
           /\ Threads' = Threads /\ Order' = Order
BY DEF SignalAt, ContextAt, Threads, Order, CrashingThread, OtherThreads

\* The owner of a note is sought among the notes up to it.
LEMMA SameOwner ==
    ASSUME notes \in Seq(Note), NEW b \in Seq(Note), notes' = notes \o b,
           NEW n \in 1..Len(notes)
    PROVE  OwnerOf(n)' = OwnerOf(n)
<1>1. ASSUME NEW s, s <= n
      PROVE  s \in StatusNotes' <=> s \in StatusNotes
  <2>1. CASE s \in 1..Len(notes)
    BY <2>1, Longer DEF StatusNotes
  <2>2. CASE s \notin 1..Len(notes)
    <3>1. s \notin StatusNotes
      BY <2>2 DEF StatusNotes
    <3>2. s \notin 1..Len(notes')
      <4>1. ASSUME s \in 1..Len(notes')
            PROVE  s \in 1..Len(notes)
        BY <1>1, <4>1, Longer, SMT
      <4> QED
        BY <2>2, <4>1
    <3> QED
      BY <3>1, <3>2 DEF StatusNotes
  <2> QED
    BY <2>1, <2>2
<1>2. ASSUME NEW s
      PROVE  s \in OwnerOf(n)' <=> s \in OwnerOf(n)
  BY <1>1 DEF OwnerOf
<1> QED
  BY <1>2 DEF OwnerOf

\* Notes of the process change no owner: there is no status among them.
LEMMA PlainAppended ==
    ASSUME notes \in Seq(Note), NEW b \in Seq(Note), notes' = notes \o b,
           StatusNotes = {}, RegistersBelong,
           \A k \in 1..Len(b) : b[k].type \notin {"NT_PRSTATUS", "NT_FPREGSET", "NT_PRXFPREG"}
    PROVE  StatusNotes' = {} /\ RegistersBelong'
<1>1. \A n \in 1..Len(notes) : notes[n].type \notin {"NT_PRSTATUS", "NT_FPREGSET", "NT_PRXFPREG"}
  BY Zenon DEF StatusNotes, RegistersBelong, OwnerOf
<1>2. ASSUME NEW n \in 1..Len(notes')
      PROVE  notes'[n].type \notin {"NT_PRSTATUS", "NT_FPREGSET", "NT_PRXFPREG"}
  <2>1. CASE n \in 1..Len(notes)
    BY <1>1, <2>1, Longer
  <2>2. CASE n \notin 1..Len(notes)
    <3>1. PICK k \in 1..Len(b) : n = Len(notes) + k
      BY <2>2, Longer
    <3>2. notes'[n] = b[k]
      BY <3>1, Longer
    <3> QED
      BY <3>2
  <2> QED
    BY <2>1, <2>2
<1> QED
  BY <1>2, Zenon DEF StatusNotes, RegistersBelong

\* The notes of a turn are owned by the status at its head.
LEMMA TurnAppended ==
    ASSUME notes \in Seq(Note), NEW i, NEW b, TurnOK(b, i), notes' = notes \o b
    PROVE  LET h == Len(notes) + 1 IN
           /\ StatusNotes' = StatusNotes \cup {h} /\ notes'[h] = StatusOf(i)
           /\ \A s \in StatusNotes : s \in 1..Len(notes) /\ s < h /\ notes'[s] = notes[s]
           /\ \A k \in 1..Len(b) : \A n : n = Len(notes) + k => OwnerOf(n)' = {h}
<1> DEFINE h == Len(notes) + 1
<1>1. /\ b \in Seq(Note) /\ Len(b) \in 1..3 /\ b[1] = StatusOf(i)
      /\ \A k \in 2..Len(b) : b[k].type # "NT_PRSTATUS"
  BY DEF TurnOK
<1>2. b[1].type = "NT_PRSTATUS"
  BY <1>1 DEF StatusOf
<1>3. /\ Len(notes) \in Nat /\ 1 \in 1..Len(b)
      /\ \A k \in 1..Len(b) : k \in Nat /\ (k = 1 \/ k \in 2..Len(b))
  BY <1>1, Longer, SMT
<1>4. notes'[h] = StatusOf(i) /\ h \in 1..Len(notes') /\ h \notin 1..Len(notes)
  BY <1>1, <1>3, Longer
<1>5. ASSUME NEW s \in StatusNotes
      PROVE  s \in 1..Len(notes) /\ s < h /\ notes'[s] = notes[s] /\ s \in StatusNotes'
  <2>1. s \in 1..Len(notes) /\ notes[s].type = "NT_PRSTATUS"
    BY DEF StatusNotes
  <2>2. s < h
    BY <1>3, <2>1, SMT
  <2>3. notes'[s] = notes[s] /\ s \in 1..Len(notes')
    BY <1>1, <2>1, Longer
  <2> QED
    BY <2>1, <2>2, <2>3 DEF StatusNotes
<1>6. ASSUME NEW s \in StatusNotes', s \notin StatusNotes
      PROVE  s = h
  <2>1. s \in 1..Len(notes') /\ notes'[s].type = "NT_PRSTATUS"
    BY DEF StatusNotes
  <2>2. s \notin 1..Len(notes)
    BY <1>1, <1>6, <2>1, Longer DEF StatusNotes
  <2>3. PICK k \in 1..Len(b) : s = Len(notes) + k
    BY <1>1, <2>1, <2>2, Longer
  <2>4. b[k].type = "NT_PRSTATUS"
    BY <1>1, <2>1, <2>3, Longer
  <2>5. k = 1
    BY <1>1, <1>3, <2>4
  <2> QED
    BY <2>3, <2>5
<1>7. StatusNotes' = StatusNotes \cup {h}
  <2>1. h \in StatusNotes'
    BY <1>1, <1>2, <1>4 DEF StatusNotes
  <2> QED
    BY <1>5, <1>6, <2>1
<1>8. ASSUME NEW k \in 1..Len(b), NEW n, n = Len(notes) + k
      PROVE  OwnerOf(n)' = {h}
  <2>1. h <= n /\ \A s \in StatusNotes : s <= h /\ ~ (h <= s)
    <3>1. k >= 1 /\ k \in Nat
      BY <1>3, SMT
    <3>2. \A s \in StatusNotes : s \in Nat
      BY <1>5, SMT
    <3> QED
      BY <1>3, <1>5, <1>8, <3>1, <3>2, SMT
  <2>2. OwnerOf(n)' = {s \in StatusNotes' : s <= n /\ \A u \in StatusNotes' : u <= n => u <= s}
    BY DEF OwnerOf
  <2>3. h <= h
    BY <1>3, SMT
  <2> HIDE DEF h
  <2> QED
    BY <1>7, <2>1, <2>2, <2>3
<1> QED
  BY <1>4, <1>5, <1>7, <1>8

LEMMA BelongStep ==
    ASSUME notes \in Seq(Note), NEW i, NEW b, TurnOK(b, i), notes' = notes \o b,
           process' = process, ordered' = ordered, RegistersBelong
    PROVE  RegistersBelong'
<1> DEFINE h == Len(notes) + 1
<1>1. /\ StatusNotes' = StatusNotes \cup {h} /\ notes'[h] = StatusOf(i)
      /\ \A s \in StatusNotes : s \in 1..Len(notes) /\ s < h /\ notes'[s] = notes[s]
      /\ \A k \in 1..Len(b) : \A n : n = Len(notes) + k => OwnerOf(n)' = {h}
  BY TurnAppended
<1>2. /\ b \in Seq(Note) /\ b[1] = StatusOf(i) /\ 1 \in 1..Len(b)
      /\ \A k \in 1..Len(b) : k = 1 \/ k \in 2..Len(b)
      /\ \A k \in 2..Len(b) : k \in 1..Len(b) /\ b[k].thread = ordered[i]
  BY SMT DEF TurnOK
<1>3. /\ StatusOf(i).thread = ordered[i] /\ StatusOf(i).type = "NT_PRSTATUS"
      /\ StatusOf(i).fpvalid = HasFpregset(process.arch)
  BY DEF StatusOf
<1>4. /\ \A n \in 1..Len(notes) : OwnerOf(n)' = OwnerOf(n) /\ notes'[n] = notes[n]
                                  /\ n \in 1..Len(notes') /\ OwnerOf(n) \subseteq StatusNotes
      /\ h \notin StatusNotes
  <2>1. h \notin StatusNotes
    <3>1. h \notin 1..Len(notes)
      BY <1>2, Longer
    <3> QED
      BY <3>1 DEF StatusNotes
  <2> QED
    BY <1>2, <2>1, Longer, SameOwner DEF OwnerOf
<1>5. ASSUME NEW k \in 1..Len(b), NEW n, n = Len(notes) + k
      PROVE  OwnerOf(n)' = {h} /\ notes'[n] = b[k] /\ n \in 1..Len(notes')
  BY <1>1, <1>2, <1>5, Longer
<1>6. ASSUME NEW n \in 1..Len(notes')
      PROVE  n \in 1..Len(notes) \/ \E k \in 1..Len(b) : n = Len(notes) + k
  BY <1>2, Longer
<1> HIDE DEF h
<1>7. ASSUME NEW n \in 1..Len(notes'), notes'[n].type \in {"NT_FPREGSET", "NT_PRXFPREG"}
      PROVE  \E s \in OwnerOf(n)' : notes'[s].thread = notes'[n].thread
  <2>1. CASE n \in 1..Len(notes)
    <3>1. PICK s \in OwnerOf(n) : notes[s].thread = notes[n].thread
      BY <1>4, <1>7, <2>1 DEF RegistersBelong
    <3> QED
      BY <1>1, <1>4, <2>1, <3>1
  <2>2. ASSUME NEW k \in 1..Len(b), n = Len(notes) + k
        PROVE  \E s \in OwnerOf(n)' : notes'[s].thread = notes'[n].thread
    <3>1. k \in 2..Len(b)
      BY <1>2, <1>3, <1>5, <1>7, <2>2
    <3>2. OwnerOf(n)' = {h} /\ notes'[n] = b[k]
      BY <1>5, <2>2
    <3>3. h \in OwnerOf(n)' /\ notes'[n].thread = ordered[i]
      BY <1>2, <3>1, <3>2
    <3>4. notes'[h].thread = ordered[i]
      BY <1>1, <1>3
    <3> QED
      BY <3>3, <3>4
  <2> QED
    BY <1>6, <2>1, <2>2
<1>8. ASSUME NEW s \in StatusNotes'
      PROVE  notes'[s].fpvalid <=>
                \E n \in 1..Len(notes') : notes'[n].type = "NT_FPREGSET" /\ s \in OwnerOf(n)'
  <2>1. CASE s \in StatusNotes
    <3>1. s # h /\ notes'[s] = notes[s]
      BY <1>1, <1>4, <2>1
    <3>2. ASSUME NEW n \in 1..Len(notes'), s \in OwnerOf(n)'
          PROVE  n \in 1..Len(notes) /\ s \in OwnerOf(n) /\ notes'[n] = notes[n]
      BY <1>4, <1>5, <1>6, <3>1, <3>2
    <3>3. notes[s].fpvalid <=>
             \E n \in 1..Len(notes) : notes[n].type = "NT_FPREGSET" /\ s \in OwnerOf(n)
      BY <2>1 DEF RegistersBelong
    <3> QED
      BY <1>4, <3>1, <3>2, <3>3
  <2>2. CASE s = h
    <3>1. ASSUME NEW n \in 1..Len(notes'), s \in OwnerOf(n)'
          PROVE  \E k \in 1..Len(b) : n = Len(notes) + k
      BY <1>4, <1>6, <2>2, <3>1
    <3>2. HasFpregset(process.arch) <=> \E k \in 2..Len(b) : b[k].type = "NT_FPREGSET"
      BY DEF TurnOK
    <3>3. ASSUME NEW k \in 2..Len(b), b[k].type = "NT_FPREGSET"
          PROVE  \E n \in 1..Len(notes') : notes'[n].type = "NT_FPREGSET" /\ s \in OwnerOf(n)'
      <4>1. PICK n : n = Len(notes) + k
        OBVIOUS
      <4>2. k \in 1..Len(b)
        BY <1>2
      <4>3. OwnerOf(n)' = {h} /\ notes'[n] = b[k] /\ n \in 1..Len(notes')
        BY <1>5, <4>1, <4>2
      <4> QED
        BY <2>2, <3>3, <4>3
    <3>4. ASSUME NEW n \in 1..Len(notes'), notes'[n].type = "NT_FPREGSET", s \in OwnerOf(n)'
          PROVE  \E k \in 2..Len(b) : b[k].type = "NT_FPREGSET"
      <4>1. PICK k \in 1..Len(b) : n = Len(notes) + k
        BY <3>1, <3>4
      <4>2. b[k].type = "NT_FPREGSET"
        BY <1>5, <3>4, <4>1
      <4> QED
        BY <1>2, <1>3, <4>2
    <3> QED
      BY <1>1, <1>3, <2>2, <3>2, <3>3, <3>4
  <2> QED
    BY <1>1, <2>1, <2>2
<1> QED
  BY <1>7, <1>8, Zenon DEF RegistersBelong

\* A list in order names no thread twice.
LEMMA TurnOfThread ==
    ASSUME TypeOK, OrderOK, NEW s, NEW t, NEW i \in 1..Len(ordered), NEW j \in 1..Len(ordered),
           IsStatus(s, i), IsStatus(t, j), notes[s].thread = notes[t].thread
    PROVE  i = j
<1>1. ordered[i] = ordered[j]
  BY DEF IsStatus
<1>2. CASE ordered = <<>>
  BY <1>2, SMT
<1>3. CASE ordered = Order
  BY <1>1, <1>3, OrderFacts DEF TypeOK
<1> QED
  BY <1>2, <1>3 DEF OrderOK

LEMMA StatusesStep ==
    ASSUME TypeOK, OrderOK, StatusesOK, index \in 1..Len(ordered), NEW b, TurnOK(b, index),
           notes' = notes \o b, index' = index + 1, process' = process, ordered' = ordered
    PROVE  StatusesOK'
<1> PICK h, c : h = Len(notes) + 1 /\ c = index
  OBVIOUS
<1>1. /\ StatusNotes' = StatusNotes \cup {h} /\ notes'[h] = StatusOf(index)
      /\ \A s \in StatusNotes : s \in 1..Len(notes) /\ s < h /\ notes'[s] = notes[s]
  <2>1. notes \in Seq(Note)
    BY DEF TypeOK
  <2> QED
    BY <2>1, TurnAppended
<1>2. \A i : SignalAt(i)' = SignalAt(i) /\ ContextAt(i)' = ContextAt(i)
  BY SameTurns
<1>3. \A s \in StatusNotes : \A i : IsStatus(s, i)' <=> IsStatus(s, i)
  BY <1>1, <1>2 DEF IsStatus
<1>4. IsStatus(h, c)' /\ \A i : IsStatus(h, i)' => ordered[i] = ordered[c]
  BY <1>1, <1>2 DEF IsStatus, StatusOf
<1>5. /\ 1..(index' - 1) = 1..(index - 1) \cup {c} /\ c \in 1..Len(ordered)
      /\ \A i \in 1..(index - 1) : i \in 1..Len(ordered) /\ i < c
      /\ h \in Nat /\ \A s \in StatusNotes : s \in Nat /\ ~ (h < s) /\ ~ (h < h)
  <2>1. Len(notes) \in Nat /\ Len(ordered) \in Nat
    BY LenProperties DEF TypeOK
  <2>2. \A s \in StatusNotes : s \in Nat
    BY DEF StatusNotes
  <2>3. h \in Nat /\ \A s \in StatusNotes : s \in Nat /\ ~ (h < s) /\ ~ (h < h)
    BY <1>1, <2>1, <2>2, SMT
  <2>4. 1..(index' - 1) = 1..(index - 1) \cup {c} /\ c \in 1..Len(ordered)
    BY <2>1, SMT
  <2>5. \A i \in 1..(index - 1) : i \in 1..Len(ordered) /\ i < c
    BY <2>1, SMT
  <2> QED
    BY <2>3, <2>4, <2>5
<1>6. \A i, j \in 1..Len(ordered) : ordered[i] = ordered[j] => i = j
  <2>1. CASE ordered = <<>>
    BY <2>1, SMT
  <2>2. CASE ordered = Order
    BY <2>2, OrderFacts DEF TypeOK
  <2> QED
    BY <2>1, <2>2 DEF OrderOK
<1>7. ASSUME NEW s \in StatusNotes, NEW i \in 1..Len(ordered), IsStatus(s, i)'
      PROVE  i \in 1..(index - 1)
  <2>1. PICK j \in 1..(index - 1) : IsStatus(s, j)
    BY DEF StatusesOK
  <2>2. IsStatus(s, i)
    BY <1>3, <1>7
  <2>3. ordered[i] = ordered[j]
    BY <2>1, <2>2 DEF IsStatus
  <2> QED
    BY <1>5, <1>6, <2>1, <2>3
<1>8. ASSUME NEW s \in StatusNotes'
      PROVE  \E i \in 1..(index' - 1) : IsStatus(s, i)'
  <2>1. CASE s \in StatusNotes
    <3>1. PICK i \in 1..(index - 1) : IsStatus(s, i)
      BY <2>1 DEF StatusesOK
    <3> QED
      BY <1>3, <1>5, <2>1, <3>1
  <2>2. CASE s = h
    BY <1>4, <1>5, <2>2
  <2> QED
    BY <1>1, <2>1, <2>2
<1>9. ASSUME NEW s \in StatusNotes', NEW u \in StatusNotes', NEW i \in 1..(index' - 1),
             NEW j \in 1..(index' - 1), s < u, IsStatus(s, i)', IsStatus(u, j)'
      PROVE  i < j
  <2>1. s \in StatusNotes /\ i \in 1..(index - 1)
    <3>1. s # h
      BY <1>1, <1>5, <1>9
    <3> QED
      BY <1>1, <1>5, <1>7, <1>9, <3>1
  <2>2. CASE u = h
    <3>1. j = c
      BY <1>4, <1>5, <1>6, <1>9, <2>2
    <3> QED
      BY <1>5, <2>1, <3>1
  <2>3. CASE u \in StatusNotes
    <3>1. j \in 1..(index - 1) /\ IsStatus(s, i) /\ IsStatus(u, j)
      BY <1>3, <1>5, <1>7, <1>9, <2>1, <2>3
    <3> QED
      BY <1>9, <2>1, <2>3, <3>1 DEF StatusesOK
  <2> QED
    BY <1>1, <2>2, <2>3
<1>10. ASSUME NEW i \in 1..(index' - 1), ContextAt(i) # NoContext
       PROVE  \E s \in StatusNotes' : IsStatus(s, i)'
  <2>1. CASE i = c
    BY <1>1, <1>4, <2>1
  <2>2. CASE i \in 1..(index - 1)
    <3>1. PICK s \in StatusNotes : IsStatus(s, i)
      BY <1>10, <2>2 DEF StatusesOK
    <3> QED
      BY <1>1, <1>3, <3>1
  <2> QED
    BY <1>5, <2>1, <2>2
<1>11. \A i \in 1..(index' - 1) : ContextAt(i)' # NoContext => \E s \in StatusNotes' : IsStatus(s, i)'
  BY <1>2, <1>10
<1> QED
  BY <1>8, <1>9, <1>11, Zenon DEF StatusesOK

\* A turn that writes nothing, for a thread without context.
LEMMA StatusesSkip ==
    ASSUME TypeOK, OrderOK, StatusesOK, index \in 1..Len(ordered),
           ContextAt(index) = NoContext,
           notes' = notes, index' = index + 1, process' = process, ordered' = ordered
    PROVE  StatusesOK'
<1> PICK c : c = index
  OBVIOUS
<1>1. /\ 1..(index' - 1) = 1..(index - 1) \cup {c}
      /\ c \in 1..Len(ordered) /\ c \notin 1..(index - 1)
      /\ \A i \in 1..(index - 1) : i \in 1..Len(ordered)
  <2>1. Len(ordered) \in Nat
    BY LenProperties DEF TypeOK
  <2> QED
    BY <2>1, SMT
<1>2. /\ \A s, i : IsStatus(s, i)' <=> IsStatus(s, i)
      /\ \A i : ContextAt(i)' = ContextAt(i)
      /\ StatusNotes' = StatusNotes
  BY SameTurns DEF IsStatus, StatusNotes
<1>3. ASSUME NEW s \in StatusNotes
      PROVE  ~ IsStatus(s, c)
  <2>1. PICK j \in 1..(index - 1) : IsStatus(s, j)
    BY DEF StatusesOK
  <2>2. IsStatus(s, c) => j = c
    BY <1>1, <2>1, TurnOfThread
  <2> QED
    BY <1>1, <2>1, <2>2
<1>4. ContextAt(c) = NoContext
  OBVIOUS
<1>5. \A s \in StatusNotes : \E i \in 1..(index' - 1) : IsStatus(s, i)
  BY <1>1 DEF StatusesOK
<1>6. \A s, u \in StatusNotes : \A i, j \in 1..(index' - 1) :
          s < u /\ IsStatus(s, i) /\ IsStatus(u, j) => i < j
  BY <1>1, <1>3 DEF StatusesOK
<1>7. \A i \in 1..(index' - 1) :
          ContextAt(i) # NoContext => \E s \in StatusNotes : IsStatus(s, i)
  BY <1>1, <1>4 DEF StatusesOK
<1>8. \A s \in StatusNotes' : \E i \in 1..(index' - 1) : IsStatus(s, i)'
  BY <1>2, <1>5
<1>9. \A s, u \in StatusNotes' : \A i, j \in 1..(index' - 1) :
          s < u /\ IsStatus(s, i)' /\ IsStatus(u, j)' => i < j
  BY <1>2, <1>6
<1>10. \A i \in 1..(index' - 1) :
           ContextAt(i)' # NoContext => \E s \in StatusNotes' : IsStatus(s, i)'
  BY <1>2, <1>7
<1> QED
  BY <1>8, <1>9, <1>10, Zenon DEF StatusesOK

-----------------------------------------------------------------------------
(* The invariant, action by action.                                        *)

\* Before the loop there is no status.
LEMMA NoStatusYet ==
    ASSUME NotesInv, phase \in {"process", "file", "order"}
    PROVE  ordered = <<>> /\ index = 1 /\ 1..(index - 1) = {} /\ StatusNotes = {}
<1>1. ordered = <<>>
  BY DEF NotesInv, OrderOK
<1>2. index = 1 /\ 1..(index - 1) = {}
  BY <1>1, SMT DEF NotesInv, TypeOK
<1> QED
  BY <1>1, <1>2 DEF NotesInv, StatusesOK

LEMMA PlainStep ==
    ASSUME NotesInv, phase \in {"process", "file", "order"},
           NEW b \in Seq(Note), notes' = notes \o b,
           \A k \in 1..Len(b) : b[k].type \notin {"NT_PRSTATUS", "NT_FPREGSET", "NT_PRXFPREG"},
           UNCHANGED <<process, ordered, index>>, phase' \in {"file", "order", "failed"}
    PROVE  NotesInv'
<1>1. ordered = <<>> /\ index = 1 /\ 1..(index - 1) = {} /\ StatusNotes = {}
  BY NoStatusYet
<1>2. StatusNotes' = {} /\ RegistersBelong' /\ notes' \in Seq(Note)
  BY <1>1, PlainAppended, Longer DEF NotesInv, TypeOK
<1>3. TypeOK'
  BY <1>2 DEF NotesInv, TypeOK, Threads
<1>4. OrderOK'
  BY <1>1 DEF OrderOK
<1>5. StatusesOK'
  BY <1>1, <1>2 DEF StatusesOK
<1> QED
  BY <1>2, <1>3, <1>4, <1>5 DEF NotesInv

LEMMA NotesInit == Init => NotesInv
<1> SUFFICES ASSUME Init
             PROVE  NotesInv
  OBVIOUS
<1> USE DEF Init
<1>1. ordered = <<>> /\ index = 1 /\ notes = <<>> /\ Len(<<>>) = 0 /\ 1..0 = {} /\ 1 - 1 = 0
  BY SMT
<1>2. StatusNotes = {} /\ 1..Len(notes) = {} /\ 1..(index - 1) = {}
  BY <1>1 DEF StatusNotes
<1>3. TypeOK
  <2>1. <<>> \in Seq(1..Len(Threads)) /\ <<>> \in Seq(Note) /\ 1 \in 1..(0 + 1)
    BY SMT
  <2> QED
    BY <1>1, <2>1 DEF TypeOK
<1>4. OrderOK
  BY DEF OrderOK
<1>5. StatusesOK /\ RegistersBelong
  BY <1>2 DEF StatusesOK, RegistersBelong
<1> QED
  BY <1>3, <1>4, <1>5 DEF NotesInv

LEMMA ProcessNotesStep == NotesInv /\ WriteProcessNotes => NotesInv'
<1> SUFFICES ASSUME NotesInv, WriteProcessNotes
             PROVE  NotesInv'
  OBVIOUS
<1> DEFINE x == ProcessNote("NT_PRPSINFO")
           y == ProcessNote("NT_AUXV")
<1>1. x \in Note /\ y \in Note /\ x.type = "NT_PRPSINFO" /\ y.type = "NT_AUXV"
  BY PlainNoteType, SMT DEF ProcessNote, Types
<1> HIDE DEF x, y
<1>2. <<x, y>> \in Seq(Note) /\ \A k \in 1..Len(<<x, y>>) : <<x, y>>[k] \in {x, y}
  BY <1>1, SMT
<1>3. \A k \in 1..Len(<<x, y>>) :
          <<x, y>>[k].type \notin {"NT_PRSTATUS", "NT_FPREGSET", "NT_PRXFPREG"}
  BY <1>1, <1>2
<1>4. /\ phase = "process" /\ notes' = notes \o <<x, y>> /\ phase' = "file"
      /\ UNCHANGED <<process, ordered, index>>
  BY DEF WriteProcessNotes, x, y
<1> QED
  BY <1>2, <1>3, <1>4, PlainStep

LEMMA FileNoteStep == NotesInv /\ WriteFileNote => NotesInv'
<1> SUFFICES ASSUME NotesInv, WriteFileNote
             PROVE  NotesInv'
  OBVIOUS
<1> DEFINE x == ProcessNote("NT_FILE")
<1>1. x \in Note /\ x.type = "NT_FILE"
  BY PlainNoteType, SMT DEF ProcessNote, Types
<1> HIDE DEF x
<1>2. notes \in Seq(Note)
  BY DEF NotesInv, TypeOK
<1>3. phase = "file" /\ UNCHANGED <<process, ordered, index>>
  BY DEF WriteFileNote
<1>4. CASE notes' = Append(notes, x) /\ phase' = "order"
  <2>1. /\ <<x>> \in Seq(Note) /\ notes' = notes \o <<x>>
        /\ \A k \in 1..Len(<<x>>) : <<x>>[k] = x
    BY <1>1, <1>2, <1>4, AppendIsConcat, SMT
  <2> QED
    BY <1>1, <1>3, <1>4, <2>1, PlainStep
<1>5. CASE phase' = "failed" /\ notes' = notes
  <2>1. /\ <<>> \in Seq(Note) /\ notes' = notes \o <<>>
        /\ 1..Len(<<>>) = {}
    BY <1>2, <1>5, ConcatEmptySeq, SMT
  <2> QED
    BY <1>3, <1>5, <2>1, PlainStep
<1> QED
  BY <1>4, <1>5 DEF WriteFileNote, x

LEMMA OrderStep == NotesInv /\ OrderThreads => NotesInv'
<1> SUFFICES ASSUME NotesInv, OrderThreads
             PROVE  NotesInv'
  OBVIOUS
<1> USE DEF OrderThreads
<1>1. ordered = <<>> /\ index = 1 /\ 1..(index - 1) = {} /\ StatusNotes = {}
  BY NoStatusYet
<1>2. ordered' = Order /\ Threads' = Threads /\ Order' = Order
  BY DEF Order, Threads, CrashingThread, OtherThreads
<1>3. StatusNotes' = StatusNotes /\ RegistersBelong'
  <2>1. notes' = notes /\ RegistersBelong
    BY DEF NotesInv
  <2> QED
    BY <2>1 DEF RegistersBelong, StatusNotes, OwnerOf
<1>4. TypeOK'
  <2>1. Order \in Seq(1..Len(Threads)) /\ Len(Order) \in Nat
    BY OrderFacts, LenProperties DEF NotesInv, TypeOK
  <2>2. index' \in 1..(Len(Order) + 1)
    BY <1>1, <2>1, SMT
  <2> QED
    BY <1>2, <2>1, <2>2 DEF NotesInv, TypeOK
<1>5. OrderOK'
  BY <1>2 DEF OrderOK
<1>6. StatusesOK'
  BY <1>1, <1>3 DEF StatusesOK
<1> QED
  BY <1>3, <1>4, <1>5, <1>6 DEF NotesInv

LEMMA ThreadNotesStep == NotesInv /\ WriteThreadNotes => NotesInv'
<1> SUFFICES ASSUME NotesInv, WriteThreadNotes
             PROVE  NotesInv'
  OBVIOUS
<1>1. /\ TypeOK /\ OrderOK /\ StatusesOK /\ RegistersBelong
      /\ process \in Processes /\ notes \in Seq(Note) /\ Len(ordered) \in Nat
      /\ phase = "threads" /\ process' = process /\ ordered' = ordered
  BY LenProperties DEF NotesInv, TypeOK, WriteThreadNotes
<1>2. index \in 1..Len(ordered) /\ index + 1 \in 1..(Len(ordered) + 1)
  BY <1>1, SMT DEF TypeOK, WriteThreadNotes
<1>3. Threads' = Threads /\ Order' = Order
  BY <1>1, SameTurns
<1>5. CASE ContextAt(index) = NoContext /\ index' = index + 1 /\ UNCHANGED <<phase, notes>>
  <2>1. TypeOK' /\ OrderOK'
    BY <1>1, <1>2, <1>3, <1>5 DEF TypeOK, OrderOK
  <2>2. StatusesOK'
    BY <1>1, <1>2, <1>5, StatusesSkip
  <2>3. RegistersBelong'
    BY <1>1, <1>5 DEF RegistersBelong, StatusNotes, OwnerOf
  <2> QED
    BY <1>1, <1>5, <2>1, <2>2, <2>3 DEF NotesInv
<1>6. CASE phase' = "failed" /\ UNCHANGED <<index, notes>>
  <2>1. TypeOK' /\ OrderOK'
    BY <1>1, <1>3, <1>6 DEF TypeOK, OrderOK
  <2>2. StatusesOK'
    BY <1>1, <1>6, SameTurns DEF StatusesOK, StatusNotes, IsStatus
  <2>3. RegistersBelong'
    BY <1>1, <1>6 DEF RegistersBelong, StatusNotes, OwnerOf
  <2> QED
    BY <1>1, <1>6, <2>1, <2>2, <2>3 DEF NotesInv
<1>7. CASE /\ ContextAt(index) \in ContextsOf(process.arch)
           /\ notes' = notes \o ThreadNotes(index) /\ index' = index + 1 /\ UNCHANGED phase
  <2>1. ContextAt(index) \in Context
    <3>1. process.arch \in Architectures
      BY <1>1, ProcessFacts
    <3>2. ContextsOf(process.arch) \subseteq Cpus
      BY <3>1 DEF ContextsOf, Cpus, Architectures
    <3> QED
      BY <1>7, <3>2 DEF Context
  <2>2. TurnOK(ThreadNotes(index), index)
    BY <1>1, <1>2, <2>1, TurnFacts
  <2>3. notes' \in Seq(Note)
    <3>1. ThreadNotes(index) \in Seq(Note)
      BY <2>2 DEF TurnOK
    <3> QED
      BY <1>1, <1>7, <3>1, ConcatProperties
  <2>4. TypeOK' /\ OrderOK'
    BY <1>1, <1>2, <1>3, <1>7, <2>3 DEF TypeOK, OrderOK
  <2>5. StatusesOK'
    BY <1>1, <1>2, <1>7, <2>2, StatusesStep
  <2>6. RegistersBelong'
    BY <1>1, <1>7, <2>2, BelongStep
  <2> QED
    BY <1>1, <1>7, <2>4, <2>5, <2>6 DEF NotesInv
<1> QED
  BY <1>5, <1>6, <1>7 DEF WriteThreadNotes

LEMMA FinishStep == NotesInv /\ Finish => NotesInv'
<1> SUFFICES ASSUME NotesInv, Finish
             PROVE  NotesInv'
  OBVIOUS
<1> USE DEF Finish
<1>1. Threads' = Threads /\ Order' = Order
  BY SameTurns
<1>2. index = Len(ordered) + 1
  <2>1. Len(ordered) \in Nat /\ index \in 1..(Len(ordered) + 1)
    BY LenProperties DEF NotesInv, TypeOK
  <2> QED
    BY <2>1, SMT
<1>3. TypeOK' /\ OrderOK'
  BY <1>1 DEF NotesInv, TypeOK, OrderOK
<1>4. StatusesOK'
  BY SameTurns DEF NotesInv, StatusesOK, StatusNotes, IsStatus
<1>5. RegistersBelong'
  BY DEF NotesInv, RegistersBelong, StatusNotes, OwnerOf
<1> QED
  BY <1>2, <1>3, <1>4, <1>5 DEF NotesInv

LEMMA NotesStutter == NotesInv /\ UNCHANGED vars => NotesInv'
<1> SUFFICES ASSUME NotesInv, UNCHANGED vars
             PROVE  NotesInv'
  OBVIOUS
<1> USE DEF vars
<1>1. Threads' = Threads /\ Order' = Order
  BY SameTurns
<1>2. TypeOK' /\ OrderOK'
  BY <1>1 DEF NotesInv, TypeOK, OrderOK
<1>3. StatusesOK'
  BY SameTurns DEF NotesInv, StatusesOK, StatusNotes, IsStatus
<1>4. RegistersBelong'
  BY DEF NotesInv, RegistersBelong, StatusNotes, OwnerOf
<1> QED
  BY <1>2, <1>3, <1>4 DEF NotesInv

\* Every reachable state satisfies the inductive invariant.
THEOREM NotesInvariant == Spec => []NotesInv
<1>1. NotesInv /\ [Next]_vars => NotesInv'
  BY ProcessNotesStep, FileNoteStep, OrderStep, ThreadNotesStep, FinishStep, NotesStutter
  DEF Next
<1> QED
  BY <1>1, NotesInit, PTL DEF Spec

\* The types of the state of build_note_segment.
THEOREM NotesTypeOK == Spec => []TypeOK
<1>1. NotesInv => TypeOK
  BY DEF NotesInv
<1> QED
  BY <1>1, NotesInvariant, PTL

\* A debugger that reads the notes in one pass takes the registers of no thread for
\* those of another, and finds the floating-point registers that pr_fpvalid
\* announces: write_thread_notes puts the status first and nothing between.
THEOREM NotesRegistersBelong == Spec => []RegistersBelong
<1>1. NotesInv => RegistersBelong
  BY DEF NotesInv
<1> QED
  BY <1>1, NotesInvariant, PTL

\* Moving the crashing thread to the front (core_writer.rs:160-177) neither repeats
\* nor loses a thread, but for later namesakes of the crashing one.
THEOREM NotesEachThreadOnce == Spec => []EachThreadOnce
<1>1. ASSUME NotesInv, phase = "done"
      PROVE  EachThreadOnce
  <2>1. /\ TypeOK /\ OrderOK /\ StatusesOK /\ ordered = Order /\ process \in Processes
        /\ index - 1 = Len(ordered) /\ 1..(index - 1) = 1..Len(Order)
    <3>1. index = Len(ordered) + 1 /\ Len(ordered) \in Nat
      BY <1>1, LenProperties DEF NotesInv, TypeOK
    <3>2. index - 1 = Len(ordered)
      BY <3>1, SMT
    <3> QED
      BY <1>1, <3>2 DEF NotesInv, OrderOK, TypeOK
  <2>2. \A s \in StatusNotes : \E i \in 1..Len(Order) : IsStatus(s, i)
    BY <2>1 DEF StatusesOK
  <2>3. ASSUME NEW s \in StatusNotes, NEW u \in StatusNotes, s # u
        PROVE  notes[s].thread # notes[u].thread
    <3>1. PICK i \in 1..Len(Order), j \in 1..Len(Order) : IsStatus(s, i) /\ IsStatus(u, j)
      BY <2>2
    <3>2. s < u \/ u < s
      <4>1. s \in Nat /\ u \in Nat
        BY SMT DEF StatusNotes
      <4> QED
        BY <2>3, <4>1, SMT
    <3>3. i < j \/ j < i
      BY <2>1, <3>1, <3>2 DEF StatusesOK
    <3>4. i # j
      BY <3>3, SMT
    <3> QED
      BY <2>1, <3>1, <3>4, TurnOfThread
  <2>4. ASSUME NEW t \in 1..Len(Threads), Threads[t].context # NoContext, ~ Namesake(t)
        PROVE  \E s \in StatusNotes : notes[s].thread = t
    <3>1. PICK i \in 1..Len(Order) : Order[i] = t
      BY <2>1, <2>4, OrderFacts
    <3>2. ContextAt(i) # NoContext
      BY <2>1, <2>4, <3>1 DEF ContextAt
    <3>3. PICK s \in StatusNotes : IsStatus(s, i)
      BY <2>1, <3>2 DEF StatusesOK
    <3> QED
      BY <2>1, <3>1, <3>3 DEF IsStatus
  <2>5. ASSUME NEW t \in 1..Len(Threads), Namesake(t), NEW s \in StatusNotes
        PROVE  notes[s].thread # t
    <3>1. PICK i \in 1..Len(Order) : IsStatus(s, i)
      BY <2>2
    <3> QED
      BY <2>1, <2>5, <3>1, OrderFacts DEF IsStatus
  <2> QED
    BY <2>3, <2>4, <2>5 DEF EachThreadOnce
<1>2. NotesInv => EachThreadOnce
  BY <1>1 DEF EachThreadOnce
<1> QED
  BY <1>2, NotesInvariant, PTL

\* When the crashing thread is listed, no other thread gets the fatal signal or the
\* registers of the exception record, and the status a debugger selects is its own.
THEOREM NotesCrashOnItsThread == Spec => []CrashOnItsThread
<1>1. ASSUME NotesInv, CrashingThread # <<>>
      PROVE  CrashOnItsThread
  <2> DEFINE c == CrashingThread[1]
  <2>1. /\ TypeOK /\ OrderOK /\ StatusesOK /\ process \in Processes
        /\ Len(Order) >= 1 /\ Order[1] = c
    BY <1>1, OrderFacts DEF NotesInv, TypeOK
  <2>2. ASSUME NEW s \in StatusNotes, NEW i \in 1..(index - 1), IsStatus(s, i)
        PROVE  ordered = Order /\ i \in 1..Len(Order)
    <3>1. Len(ordered) \in Nat /\ index \in 1..(Len(ordered) + 1)
      BY <2>1, LenProperties DEF TypeOK
    <3>2. i \in 1..Len(ordered)
      BY <3>1, SMT
    <3>3. ordered # <<>>
      BY <3>2, SMT
    <3> QED
      BY <2>1, <3>2, <3>3 DEF OrderOK
  <2>3. \A s \in StatusNotes : \E i \in 1..(index - 1) : IsStatus(s, i)
    BY <2>1 DEF StatusesOK
  <2>4. ASSUME NEW s \in StatusNotes, notes[s].signal # 0
        PROVE  notes[s].thread = c
    <3>1. PICK i \in 1..(index - 1) : IsStatus(s, i)
      BY <2>3
    <3>2. i = 1
      BY <2>4, <3>1 DEF IsStatus, SignalAt
    <3> QED
      BY <2>1, <2>2, <3>1, <3>2 DEF IsStatus
  <2>5. ASSUME NEW s \in StatusNotes, notes[s].thread # c
        PROVE  notes[s].context = Threads[notes[s].thread].context
    <3>1. PICK i \in 1..(index - 1) : IsStatus(s, i)
      BY <2>3
    <3>2. i # 1
      BY <2>1, <2>2, <2>5, <3>1 DEF IsStatus
    <3> QED
      BY <3>1, <3>2 DEF IsStatus, ContextAt
  <2>6. ASSUME phase = "done", {process.exception, Threads[c].context} # {NoContext},
               NEW s \in StatusNotes, \A u \in StatusNotes : s <= u
        PROVE  notes[s].thread = c
    <3>1. ordered = Order /\ 1 \in 1..(index - 1) /\ index \in Nat
      <4>1. index = Len(ordered) + 1 /\ ordered = Order /\ Len(ordered) \in Nat
        BY <1>1, <2>6, LenProperties DEF NotesInv, OrderOK, TypeOK
      <4> QED
        BY <2>1, <4>1, SMT
    <3>2. ContextAt(1) # NoContext
      BY <2>1, <2>6, <3>1 DEF ContextAt
    <3>3. PICK u \in StatusNotes : IsStatus(u, 1)
      BY <2>1, <3>1, <3>2 DEF StatusesOK
    <3>4. PICK i \in 1..(index - 1) : IsStatus(s, i)
      BY <2>3
    <3>5. ~ (s < u)
      <4>1. ~ (i < 1)
        BY <3>1, SMT
      <4> QED
        BY <2>1, <3>1, <3>3, <3>4, <4>1 DEF StatusesOK
    <3>6. s = u
      <4>1. s <= u /\ s \in Nat /\ u \in Nat
        BY <2>6, SMT DEF StatusNotes
      <4> QED
        BY <3>5, <4>1, SMT
    <3> QED
      BY <2>1, <3>1, <3>3, <3>6 DEF IsStatus
  <2> HIDE DEF c
  <2> QED
    BY <2>4, <2>5, <2>6 DEF CrashOnItsThread, c
<1>2. NotesInv => CrashOnItsThread
  BY <1>1 DEF CrashOnItsThread
<1> QED
  BY <1>2, NotesInvariant, PTL

-----------------------------------------------------------------------------
(* A reader's steps from note to note.                                     *)

\* Padding what has been built so far is padding each part.
LEMMA PadParts ==
    ASSUME NEW m \in {5, 6}, NEW d \in Nat
    PROVE  /\ PadTo(PadTo(12 + m, 4) + d, 4) = 12 + (((m + 3) \div 4) * 4) + (((d + 3) \div 4) * 4)
           /\ PadTo(PadTo(12 + m, 4) + d, 4) \in Nat
           /\ ((m + 3) \div 4) * 4 \in Nat /\ ((d + 3) \div 4) * 4 \in Nat
<1>1. PadTo(12 + m, 4) = 20 /\ ((m + 3) \div 4) * 4 = 8
  BY SMT DEF PadTo
<1>2. PadTo(20 + d, 4) = 20 + ((d + 3) \div 4) * 4 /\ ((d + 3) \div 4) * 4 \in Nat
  BY SMT DEF PadTo
<1> QED
  BY <1>1, <1>2, SMT

LEMMA DescLenType ==
    ASSUME process \in Processes, NEW type \in Types
    PROVE  DescLen(type) \in Nat
<1>1. /\ process.arch \in Architectures /\ process.auxvLen \in Nat
      /\ process.fileCount \in Nat /\ process.fileNamesLen \in Nat
  BY NotesAssumption DEF Process
<1>2. LongSize \in {4, 8}
  BY DEF LongSize
<1>3. FileLen \in Nat
  BY <1>1, <1>2, SMT DEF FileLen
<1>4. PrpsinfoLen \in Nat
  BY <1>2, SMT DEF PrpsinfoLen, PadTo
<1>5. PrstatusLen \in Nat
  <2>1. RegLen \in Nat
    BY <1>1, <1>2, SMT DEF RegLen, Architectures
  <2> QED
    BY <1>2, <2>1, SMT DEF PrstatusLen, PadTo
<1>6. FpregsetLen \in Nat /\ PrxfpregLen \in Nat
  BY DEF FpregsetLen, PrxfpregLen
<1> QED
  BY <1>1, <1>3, <1>4, <1>5, <1>6 DEF DescLen, Types

\* A function on 0..N whose values stay natural numbers.
LEMMA StaysNat ==
    ASSUME NEW N \in Nat, NEW f,
           f[0] = 0, \A n \in 1..N : f[n - 1] \in Nat => f[n] \in Nat
    PROVE  \A n \in 0..N : f[n] \in Nat
<1> DEFINE T == {n \in Nat : n <= N => f[n] \in Nat}
<1>1. 0 \in T
  BY SMT
<1>2. ASSUME NEW n \in Nat, n \in T
      PROVE  n + 1 \in T
  <2>1. ASSUME n + 1 <= N
        PROVE  f[n + 1] \in Nat
    <3>1. n + 1 \in 1..N /\ (n + 1) - 1 = n /\ n <= N
      BY <2>1, SMT
    <3>2. f[n] \in Nat
      BY <1>2, <3>1
    <3> QED
      BY <3>1, <3>2
  <2> QED
    BY <2>1
<1>3. \A n \in Nat : n \in T
  <2> HIDE DEF T
  <2> QED
    BY <1>1, <1>2, InductionInSet
<1>4. \A n \in 0..N : n \in Nat /\ n <= N
  BY SMT
<1> QED
  BY <1>3, <1>4

\* A reader of PT_NOTE that knows of a note the two lengths in its header, and rounds
\* each up, comes to every note where Note::build put it.
THEOREM NotesReachedInvariant == Spec => []NotesReached
<1> DEFINE Up(n) == ((n + 3) \div 4) * 4
           type(n) == notes[n].type
           Read(f) == [n \in 0..Len(notes) |->
              IF n = 0 THEN 0 ELSE f[n - 1] + 12 + Up(NameLen(type(n))) + Up(DescLen(type(n)))]
           Put(f)  == [n \in 0..Len(notes) |->
              IF n = 0 THEN 0 ELSE f[n - 1] + NoteLen(type(n))]
<1>1. ASSUME TypeOK
      PROVE  NotesReached
  <2>1. Len(notes) \in Nat /\ process \in Processes
    BY <1>1, LenProperties DEF TypeOK
  <2>2. ASSUME NEW n \in 1..Len(notes)
        PROVE  /\ NoteLen(type(n)) = 12 + Up(NameLen(type(n))) + Up(DescLen(type(n)))
               /\ NoteLen(type(n)) \in Nat
               /\ Up(NameLen(type(n))) \in Nat /\ Up(DescLen(type(n))) \in Nat
    <3>1. type(n) \in Types
      <4>1. notes[n] \in Note
        BY <1>1, ElementOfSeq DEF TypeOK
      <4> QED
        BY <4>1 DEF Note
    <3>2. DescLen(type(n)) \in Nat
      BY <2>1, <3>1, DescLenType
    <3>3. NameLen(type(n)) \in {5, 6}
      BY DEF NameLen
    <3>4. NoteLen(type(n)) = PadTo(PadTo(12 + NameLen(type(n)), 4) + DescLen(type(n)), 4)
      BY DEF NoteLen
    <3> HIDE DEF type
    <3> QED
      BY <3>2, <3>3, <3>4, PadParts
  <2>3. \A n \in 1..Len(notes) : n \in 0..Len(notes) /\ n # 0 /\ n - 1 \in 0..Len(notes)
    BY <2>1, SMT
  <2>4. 0 \in 0..Len(notes) /\ \A n \in 0..Len(notes) : n = 0 \/ n \in 1..Len(notes)
    BY <2>1, SMT
  <2> HIDE DEF Up, type
  <2>5. ASSUME NEW f, \A n \in 0..Len(notes) : f[n] \in Nat
        PROVE  Read(f) = Put(f)
    <3>1. ASSUME NEW n \in 0..Len(notes)
          PROVE  Read(f)[n] = Put(f)[n]
      <4>1. CASE n = 0
        BY <4>1
      <4>2. CASE n \in 1..Len(notes)
        <5>1. f[n - 1] \in Nat /\ n # 0
          BY <2>3, <2>5, <4>2
        <5>2. f[n - 1] + 12 + Up(NameLen(type(n))) + Up(DescLen(type(n)))
                 = f[n - 1] + NoteLen(type(n))
          BY <2>2, <4>2, <5>1, SMT
        <5> QED
          BY <5>1, <5>2
      <4> QED
        BY <2>4, <4>1, <4>2
    <3> QED
      BY <3>1
  <2>6. ASSUME NEW f, f = Put(f)
        PROVE  f = Read(f)
    <3>1. \A n \in 0..Len(notes) : f[n] = Put(f)[n]
      BY <2>6, Zenon
    <3>2. f[0] = 0 /\ \A n \in 1..Len(notes) : f[n] = f[n - 1] + NoteLen(type(n))
      BY <2>3, <2>4, <3>1
    <3>3. \A n \in 0..Len(notes) : f[n] \in Nat
      <4>1. ASSUME NEW n \in 1..Len(notes), f[n - 1] \in Nat
            PROVE  f[n] \in Nat
        <5>1. NoteLen(type(n)) \in Nat /\ f[n] = f[n - 1] + NoteLen(type(n))
          BY <2>2, <3>2
        <5> QED
          BY <4>1, <5>1, SMT
      <4> QED
        BY <2>1, <3>2, <4>1, StaysNat
    <3>4. Read(f) = Put(f)
      <4> HIDE DEF Read, Put
      <4> QED
        BY <2>5, <3>3
    <3> HIDE DEF Read, Put
    <3> QED
      BY <2>6, <3>4
  <2>7. ASSUME NEW f, f = Read(f)
        PROVE  f = Put(f)
    <3>1. \A n \in 0..Len(notes) : f[n] = Read(f)[n]
      BY <2>7, Zenon
    <3>2. ASSUME NEW n \in 1..Len(notes)
          PROVE  f[n] = f[n - 1] + 12 + Up(NameLen(type(n))) + Up(DescLen(type(n)))
      BY <2>3, <3>1
    <3>3. f[0] = 0
      BY <2>4, <3>1
    <3>4. \A n \in 0..Len(notes) : f[n] \in Nat
      <4>1. ASSUME NEW n \in 1..Len(notes), f[n - 1] \in Nat
            PROVE  f[n] \in Nat
        <5>1. /\ Up(NameLen(type(n))) \in Nat /\ Up(DescLen(type(n))) \in Nat
              /\ f[n] = f[n - 1] + 12 + Up(NameLen(type(n))) + Up(DescLen(type(n)))
          BY <2>2, <3>2
        <5> QED
          BY <4>1, <5>1, SMT
      <4> QED
        BY <2>1, <3>3, <4>1, StaysNat
    <3>5. Read(f) = Put(f)
      <4> HIDE DEF Read, Put
      <4> QED
        BY <2>5, <3>4
    <3> HIDE DEF Read, Put
    <3> QED
      BY <2>7, <3>5
  <2>8. Reached = (CHOOSE f : f = Read(f)) /\ Written = (CHOOSE f : f = Put(f))
    BY DEF Reached, Written, Up, type
  <2>9. \A f : f = Read(f) <=> f = Put(f)
    <3> HIDE DEF Read, Put
    <3> QED
      BY <2>6, <2>7
  <2>10. (CHOOSE f : f = Read(f)) = (CHOOSE f : f = Put(f))
    <3> HIDE DEF Read, Put
    <3> QED
      BY <2>9, Zenon
  <2> QED
    BY <2>8, <2>10 DEF NotesReached
<1> QED
  BY <1>1, NotesTypeOK, PTL

=============================================================================
