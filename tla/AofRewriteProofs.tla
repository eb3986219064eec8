-------------------------- MODULE AofRewriteProofs --------------------------
(***************************************************************************)
(* Proofs about AofRewrite for an AOF that stays on: rewrites, rotations,  *)
(* failing opens, renames, forks, children and manifest writes, and a crash*)
(* between any two system calls, for every value of the bounds.            *)
(***************************************************************************)
EXTENDS AofRewrite, SequenceTheorems, WellFoundedInduction, TLAPS

\* The AOF is not turned on or off, and neither a write(2) of the log nor the
\* fsync of its directory fails.
AlwaysOn ==
  /\ "toggle" \notin Events
  /\ Faults \subseteq {"open", "rename", "manifest", "fork", "child"}

\* Names of the files the server creates while its AOF stays on.
AofNames == {Base(k) : k \in Nat} \cup {Incr(k) : k \in Nat}

Content == {c \in [from : Nat, to : Nat, state : {"whole", "torn"}] : c.from <= c.to}
Manifest == [base : Nat, incr : Seq(Nat), hist : SUBSET AofNames, incr_seq : Nat]

\* A manifest of an empty directory.
Fresh(am) == am.base = 0 /\ am.incr = <<>> /\ am.hist = {} /\ am.incr_seq = 0

\* The number of the last INCR file that a rewrite has made history.
Past(am) == am.incr_seq - Len(am.incr)

\* A manifest in use: a BASE file and INCR files with consecutive numbers, and
\* a history whose names will not be given again.
Full(am) ==
  /\ am.base >= 1 /\ Len(am.incr) >= 1 /\ Len(am.incr) <= am.incr_seq
  /\ \A i \in 1..Len(am.incr) : am.incr[i] = Past(am) + i
  /\ \A f \in am.hist : \/ \E k \in Nat : k < am.base /\ f = Base(k)
                        \/ \E k \in Nat : k <= Past(am) /\ f = Incr(k)

\* The file ls[i] is there and goes on where those before it end; only the
\* last file may have an incomplete command at its end.
Joined(ls, fs, i) ==
  /\ ls[i] \in DOMAIN fs /\ fs[ls[i]] \in Content
  /\ i < Len(ls) => fs[ls[i]].state = "whole"
  /\ IsEmpty(fs[ls[i]]) \/ fs[ls[i]].from = LoadedTo(ls, fs)[i - 1]

Chain(ls, fs) == \A i \in 1..Len(ls) : Joined(ls, fs, i)

\* Where loading the files ls ends.
Top(ls, fs) == LoadedTo(ls, fs)[Len(ls)]

\* The files that the manifest does not list and the next rewrite, or the next
\* start in an empty directory, overwrites.
Spare(am) == {Base(am.base + 1), Incr(am.incr_seq + 1)}

Listed(am) == {LiveFiles(am)[i] : i \in 1..Len(LiveFiles(am))}

\* What is true of the disk, whether or not the server runs.
DiskInv ==
  /\ manifest_file \in Manifest
  /\ Fresh(manifest_file) \/ Full(manifest_file)
  /\ \A f \in DOMAIN files : files[f] \in Content
  /\ Fresh(manifest_file) => \A f \in DOMAIN files : files[f] = Interval(0, 0)
  /\ Chain(LiveFiles(manifest_file), files)
  /\ n \in Nat /\ logged \in Nat
  /\ logged <= Top(LiveFiles(manifest_file), files)
  /\ Top(LiveFiles(manifest_file), files) <= n
  /\ DOMAIN files \subseteq Listed(manifest_file) \cup Spare(manifest_file) \cup
                              (IF pc = "down" THEN manifest_file.hist ELSE aof_manifest.hist)

StartPcs == {"start_base", "start_open", "start_persist"}
RunPcs == {"gc", "gc_persist", "loop", "rw_flush", "rw_open", "rw_persist", "rw_fork",
           "done_persist"}

\* What is true of the memory of a running server.
UpInv ==
  /\ aof_state = "on" /\ starting = 0 /\ snapshot \in Nat
  /\ logged = Top(LiveFiles(manifest_file), files)
  /\ aof_buf = Interval(logged, n)
  /\ \A i \in 1..Len(LiveFiles(manifest_file)) :
       files[LiveFiles(manifest_file)[i]].state = "whole"
  /\ aof_manifest \in Manifest

\* The start of the server, in an empty directory or not.
StartInv ==
  /\ n = logged /\ child_type = "none"
  /\ pc = "start_base" => aof_manifest = manifest_file
  /\ pc # "start_base" /\ Full(manifest_file) => aof_manifest = manifest_file
  /\ pc = "start_open" /\ Fresh(manifest_file) =>
       /\ aof_manifest = [base |-> 1, incr |-> <<>>, hist |-> {}, incr_seq |-> 0]
       /\ Base(1) \in DOMAIN files
  /\ pc = "start_persist" => aof_fd = LastIncr(aof_manifest)
  /\ pc = "start_persist" /\ Fresh(manifest_file) =>
       /\ aof_manifest = [base |-> 1, incr |-> <<1>>, hist |-> {}, incr_seq |-> 1]
       /\ Base(1) \in DOMAIN files /\ Incr(1) \in DOMAIN files

\* Where loading ends if the INCR file being written is left out.
BeforeLast == LoadedTo(LiveFiles(manifest_file), files)[Len(manifest_file.incr)]

\* The event loop and its handlers.
RunInv ==
  /\ Full(manifest_file)
  /\ aof_manifest = [manifest_file EXCEPT !.hist = aof_manifest.hist]
  /\ aof_manifest.hist \subseteq manifest_file.hist
  /\ pc # "gc" => aof_manifest.hist = {}
  /\ aof_fd = LastIncr(manifest_file)
  /\ pc \notin {"loop", "done_persist"} => child_type # "aof"
  /\ child_type = "aof" => BeforeLast = snapshot
  /\ pc \in {"rw_open", "rw_persist", "rw_fork"} => n = logged
  /\ pc = "rw_persist" =>
       /\ temp_am = getNewIncrAofName(aof_manifest)
       /\ Incr(manifest_file.incr_seq + 1) \in DOMAIN files
       /\ files[Incr(manifest_file.incr_seq + 1)] = Interval(n, n)
  /\ pc = "rw_fork" => IsEmpty(files[LastIncr(manifest_file)])
  /\ pc = "done_persist" =>
       /\ child_type = "aof"
       /\ temp_am = getNewBaseFileNameAndMarkPreAsHistory(aof_manifest)
       /\ Base(manifest_file.base + 1) \in DOMAIN files
       /\ files[Base(manifest_file.base + 1)] = Interval(0, snapshot)

RewriteInv ==
  /\ pc \in {"down"} \cup StartPcs \cup RunPcs
  /\ DiskInv
  /\ pc # "down" => UpInv
  /\ pc \in StartPcs => StartInv
  /\ pc \in RunPcs => RunInv

-----------------------------------------------------------------------------
(* Files, names and positions.                                             *)

\* Names of different kinds or with different numbers are different: the
\* temporary, BASE and INCR names never collide.
LEMMA NameFacts ==
  ASSUME NEW j, NEW k
  PROVE  /\ Base(j) # Incr(k) /\ Base(j) # NoFile /\ Incr(j) # NoFile
         /\ Base(j) = Base(k) => j = k
         /\ Incr(j) = Incr(k) => j = k
  BY Zenon DEF Base, Incr, NoFile

\* A set of numbers up to k that is not empty has a greatest element.
LEMMA MaxFacts ==
  ASSUME NEW k \in Nat, NEW S \in SUBSET (1..k), S # {}
  PROVE  Max(S) \in S /\ \A y \in S : Max(S) >= y
<1> DEFINE T == {m \in Nat : k - m \in S}
           R == OpToRel(<, Nat)
<1>1. PICK x : x \in S
  BY Zenon
<1>2. k - x \in T
  BY <1>1
<1>3. PICK m \in T : \A y \in T : ~(<<y, m>> \in R)
  <2>1. IsWellFoundedOn(R, Nat)
    BY NatLessThanWellFounded, Zenon
  <2>2. T \subseteq Nat /\ T # {}
    BY <1>2, Zenon
  <2> HIDE DEF R, T
  <2> QED
    BY <2>1, <2>2, WFMin, Zenon
<1>4. \A y \in T : m <= y
  <2>1. \A x1, y1 \in Nat : x1 < y1 => <<x1, y1>> \in R
    BY SMT DEF OpToRel
  <2> HIDE DEF R
  <2> TAKE y \in T
  <2>2. ~(<<y, m>> \in R) /\ y \in Nat /\ m \in Nat
    BY <1>3, Zenon
  <2> QED
    BY <2>1, <2>2
<1> HIDE DEF R
<1>5. k - m \in S /\ \A y \in S : k - m >= y
  <2>1. \A y \in S : k - y \in T
    OBVIOUS
  <2>2. k - m \in S
    BY <1>3, Zenon
  <2>3. \A y \in S : m <= k - y /\ y \in Int /\ m \in Int
    <3>1. m \in Int
      BY <1>3
    <3>2. \A y \in S : y \in Int
      OBVIOUS
    <3> HIDE DEF T
    <3> QED
      BY <1>4, <2>1, <3>1, <3>2, Zenon
  <2> QED
    BY <2>2, <2>3
<1> QED
  BY <1>5, Zenon DEF Max

\* The positions are those of loading the files one after the other.
LEMMA LoadedFacts ==
  ASSUME NEW ls, NEW fs, Len(ls) \in Nat
  PROVE  /\ LoadedTo(ls, fs)[0] = 0
         /\ \A i \in 1..Len(ls) : LoadedTo(ls, fs)[i] =
              IF IsEmpty(fs[ls[i]]) THEN LoadedTo(ls, fs)[i - 1] ELSE fs[ls[i]].to
<1> DEFINE full(i) == {j \in 1..i : ~IsEmpty(fs[ls[j]])}
<1>1. \A i \in 0..Len(ls) : LoadedTo(ls, fs)[i] =
        IF full(i) = {} THEN 0 ELSE fs[ls[Max(full(i))]].to
  BY Zenon DEF LoadedTo
<1>2. full(0) = {}
  OBVIOUS
<1>3. LoadedTo(ls, fs)[0] = 0
  <2> HIDE DEF full
  <2> QED
    BY <1>1, <1>2
<1>4. ASSUME NEW i \in 1..Len(ls)
      PROVE  LoadedTo(ls, fs)[i] =
               IF IsEmpty(fs[ls[i]]) THEN LoadedTo(ls, fs)[i - 1] ELSE fs[ls[i]].to
  <2>1. i \in 0..Len(ls) /\ i - 1 \in 0..Len(ls)
    OBVIOUS
  <2>2. CASE IsEmpty(fs[ls[i]])
    <3>1. \A j \in 1..i : ~IsEmpty(fs[ls[j]]) => j \in 1..(i - 1)
      BY <2>2
    <3>2. full(i) = full(i - 1)
      BY <3>1
    <3> HIDE DEF full
    <3> QED
      BY <1>1, <2>1, <2>2, <3>2, Zenon
  <2>3. CASE ~IsEmpty(fs[ls[i]])
    <3>1. i \in full(i) /\ full(i) \in SUBSET (1..i)
      BY <2>3
    <3> HIDE DEF full
    <3>2. Max(full(i)) \in 1..i /\ Max(full(i)) >= i
      <4>1. PICK S : S = full(i)
        BY Zenon
      <4>2. S \in SUBSET (1..i) /\ i \in S /\ i \in Nat
        BY <3>1, <4>1
      <4> QED
        BY <4>1, <4>2, MaxFacts, Zenon
    <3>3. Max(full(i)) = i
      BY <3>2
    <3> QED
      BY <1>1, <2>1, <2>3, <3>1, <3>3, Zenon
  <2> QED
    BY <2>2, <2>3, Zenon
<1> QED
  BY <1>3, <1>4, Zenon

\* Loading depends only on the files loaded so far.
LEMMA LoadedPrefix ==
  ASSUME NEW ls, NEW fs, NEW ms, NEW gs, Len(ls) \in Nat, Len(ms) \in Nat,
         NEW k \in Nat, k <= Len(ls), k <= Len(ms),
         \A i \in 1..k : gs[ms[i]] = fs[ls[i]]
  PROVE  \A i \in 0..k : LoadedTo(ms, gs)[i] = LoadedTo(ls, fs)[i]
<1> SUFFICES ASSUME NEW i \in 0..k
             PROVE  LoadedTo(ms, gs)[i] = LoadedTo(ls, fs)[i]
  BY Zenon
<1> DEFINE full == {j \in 1..i : ~IsEmpty(fs[ls[j]])}
           gull == {j \in 1..i : ~IsEmpty(gs[ms[j]])}
<1>1. full = gull
  OBVIOUS
<1>2. LoadedTo(ls, fs)[i] = IF full = {} THEN 0 ELSE fs[ls[Max(full)]].to
  BY DEF LoadedTo
<1>3. LoadedTo(ms, gs)[i] = IF gull = {} THEN 0 ELSE gs[ms[Max(gull)]].to
  BY DEF LoadedTo
<1>4. full \in SUBSET (1..i) /\ i \in Nat /\ \A j \in full : j \in 1..k
  OBVIOUS
<1> HIDE DEF full, gull
<1>5. full # {} => gs[ms[Max(full)]] = fs[ls[Max(full)]]
  <2> SUFFICES ASSUME full # {} PROVE gs[ms[Max(full)]] = fs[ls[Max(full)]]
    BY Zenon
  <2>1. Max(full) \in full
    BY <1>4, MaxFacts, Zenon
  <2>2. Max(full) \in 1..k
    BY <1>4, <2>1, Zenon
  <2> QED
    BY <2>2, Zenon
<1> QED
  BY <1>1, <1>2, <1>3, <1>5, Zenon

\* Every position is a number of commands.
LEMMA LoadedType ==
  ASSUME NEW ls, NEW fs, Len(ls) \in Nat, Chain(ls, fs), NEW i \in 0..Len(ls)
  PROVE  LoadedTo(ls, fs)[i] \in Nat
<1> DEFINE full == {j \in 1..i : ~IsEmpty(fs[ls[j]])}
<1>1. LoadedTo(ls, fs)[i] = IF full = {} THEN 0 ELSE fs[ls[Max(full)]].to
  BY Zenon DEF LoadedTo
<1>2. full \in SUBSET (1..i) /\ i \in Nat /\ \A j \in full : j \in 1..Len(ls)
  OBVIOUS
<1> HIDE DEF full
<1>3. CASE full # {}
  <2>1. Max(full) \in 1..Len(ls)
    BY <1>2, <1>3, MaxFacts, Zenon
  <2>2. fs[ls[Max(full)]] \in Content
    BY <2>1, Zenon DEF Chain, Joined
  <2> QED
    BY <1>1, <1>3, <2>2, Zenon DEF Content
<1> QED
  BY <1>1, <1>3

\* The files of a list are the same in two directories.
SameFiles(ls, fs, gs) == \A i \in 1..Len(ls) : ls[i] \in DOMAIN gs /\ gs[ls[i]] = fs[ls[i]]

\* Changing other files does not change what loading gives.
LEMMA ChainSame ==
  ASSUME NEW ls, NEW fs, NEW gs, Len(ls) \in Nat, Chain(ls, fs), SameFiles(ls, fs, gs)
  PROVE  /\ Chain(ls, gs)
         /\ \A i \in 0..Len(ls) : LoadedTo(ls, gs)[i] = LoadedTo(ls, fs)[i]
<1> USE DEF SameFiles
<1>1. \A i \in 0..Len(ls) : LoadedTo(ls, gs)[i] = LoadedTo(ls, fs)[i]
  BY LoadedPrefix
<1>2. ASSUME NEW i \in 1..Len(ls) PROVE Joined(ls, gs, i)
  <2>1. Joined(ls, fs, i) /\ i - 1 \in 0..Len(ls)
    BY DEF Chain
  <2> QED
    BY <1>1, <2>1, Zenon DEF Joined
<1> QED
  BY <1>1, <1>2, Zenon DEF Chain

\* Changing the last file to one that goes on where the others end moves the
\* end of the log, and nothing else.
LEMMA ChainLast ==
  ASSUME NEW ls, NEW fs, NEW gs, NEW L \in Nat, L = Len(ls), L >= 1, Chain(ls, fs),
         \A i \in 1..(L - 1) : ls[i] \in DOMAIN gs /\ gs[ls[i]] = fs[ls[i]],
         ls[L] \in DOMAIN gs, gs[ls[L]] \in Content,
         IsEmpty(gs[ls[L]]) \/ gs[ls[L]].from = LoadedTo(ls, fs)[L - 1]
  PROVE  /\ Chain(ls, gs)
         /\ \A i \in 0..(L - 1) : LoadedTo(ls, gs)[i] = LoadedTo(ls, fs)[i]
         /\ Top(ls, gs) = IF IsEmpty(gs[ls[L]]) THEN LoadedTo(ls, fs)[L - 1]
                                                ELSE gs[ls[L]].to
<1>1. \A i \in 0..(L - 1) : LoadedTo(ls, gs)[i] = LoadedTo(ls, fs)[i]
  <2>1. PICK k \in Nat : k = L - 1
    OBVIOUS
  <2>2. /\ k <= Len(ls) /\ Len(ls) \in Nat
        /\ \A i \in 1..k : gs[ls[i]] = fs[ls[i]]
    BY <2>1
  <2>3. \A i \in 0..k : LoadedTo(ls, gs)[i] = LoadedTo(ls, fs)[i]
    BY <2>2, LoadedPrefix, SMTT(20)
  <2> QED
    BY <2>1, <2>3, Zenon
<1>2. ASSUME NEW i \in 1..L PROVE Joined(ls, gs, i)
  <2>1. Joined(ls, fs, i) /\ i - 1 \in 0..(L - 1)
    BY DEF Chain
  <2>2. LoadedTo(ls, gs)[i - 1] = LoadedTo(ls, fs)[i - 1]
    BY <1>1, <2>1, Zenon
  <2>3. CASE i = L
    BY <2>2, <2>3 DEF Joined
  <2>4. CASE i # L
    <3>1. i \in 1..(L - 1)
      BY <2>4
    <3> QED
      BY <2>1, <2>2, <3>1, Zenon DEF Joined
  <2> QED
    BY <2>3, <2>4, Zenon
<1>3. Top(ls, gs) = IF IsEmpty(gs[ls[L]]) THEN LoadedTo(ls, gs)[L - 1] ELSE gs[ls[L]].to
  <2>1. L \in 1..Len(ls) /\ Len(ls) \in Nat
    OBVIOUS
  <2> QED
    BY <2>1, LoadedFacts DEF Top
<1> QED
  BY <1>1, <1>2, <1>3 DEF Chain

\* A new, empty file at the end of a log without a torn file.
LEMMA ChainExtend ==
  ASSUME NEW ls, NEW ms, NEW fs, NEW L \in Nat, L = Len(ls), Len(ms) = L + 1, Chain(ls, fs),
         \A i \in 1..L : ms[i] = ls[i] /\ fs[ls[i]].state = "whole",
         ms[L + 1] \in DOMAIN fs, fs[ms[L + 1]] \in Content, IsEmpty(fs[ms[L + 1]])
  PROVE  /\ Chain(ms, fs) /\ Top(ms, fs) = Top(ls, fs)
         /\ LoadedTo(ms, fs)[L] = Top(ls, fs)
<1>1. \A i \in 0..L : LoadedTo(ms, fs)[i] = LoadedTo(ls, fs)[i]
  BY LoadedPrefix
<1>2. ASSUME NEW i \in 1..L PROVE Joined(ms, fs, i)
  <2>1. Joined(ls, fs, i) /\ i - 1 \in 0..L
    BY DEF Chain
  <2> QED
    BY <1>1, <2>1, Zenon DEF Joined
<1>3. Joined(ms, fs, L + 1)
  BY DEF Joined
<1>4. Top(ms, fs) = LoadedTo(ms, fs)[L]
  <2>1. L + 1 \in 1..Len(ms) /\ Len(ms) \in Nat /\ (L + 1) - 1 = L
    OBVIOUS
  <2> QED
    BY <2>1, LoadedFacts DEF Top
<1>5. LoadedTo(ms, fs)[L] = Top(ls, fs)
  BY <1>1 DEF Top
<1>6. \A i \in 1..Len(ms) : i \in 1..L \/ i = L + 1
  OBVIOUS
<1> QED
  BY <1>2, <1>3, <1>4, <1>5, <1>6, Zenon DEF Chain

\* A snapshot in place of all files but the last.
LEMMA ChainRewritten ==
  ASSUME NEW ls, NEW ms, NEW fs, NEW L \in Nat, L = Len(ls), L >= 2, Len(ms) = 2, Chain(ls, fs),
         ms[2] = ls[L], ms[1] \in DOMAIN fs,
         fs[ms[1]] = Interval(0, LoadedTo(ls, fs)[L - 1])
  PROVE  /\ Chain(ms, fs) /\ Top(ms, fs) = Top(ls, fs)
         /\ LoadedTo(ms, fs)[1] = LoadedTo(ls, fs)[L - 1]
<1> DEFINE s == LoadedTo(ls, fs)[L - 1]
<1>1. s \in Nat
  <2>1. L - 1 \in 0..Len(ls)
    OBVIOUS
  <2> QED
    BY <2>1, LoadedType, Zenon
<1>2. /\ LoadedTo(ms, fs)[0] = 0
      /\ LoadedTo(ms, fs)[1] = IF IsEmpty(fs[ms[1]]) THEN 0 ELSE fs[ms[1]].to
      /\ Top(ms, fs) = IF IsEmpty(fs[ms[2]]) THEN LoadedTo(ms, fs)[1] ELSE fs[ms[2]].to
  <2>1. 1 \in 1..Len(ms) /\ 2 \in 1..Len(ms) /\ 1 - 1 = 0 /\ 2 - 1 = 1 /\ Len(ms) \in Nat
    OBVIOUS
  <2> QED
    BY <2>1, LoadedFacts DEF Top
<1>3. Top(ls, fs) = IF IsEmpty(fs[ls[L]]) THEN s ELSE fs[ls[L]].to
  <2>1. L \in 1..Len(ls) /\ Len(ls) \in Nat
    OBVIOUS
  <2> QED
    BY <2>1, LoadedFacts, Zenon DEF Top
<1> HIDE DEF s
<1>4. fs[ms[1]] = Interval(0, s)
  BY Zenon DEF s
<1>5. LoadedTo(ms, fs)[1] = s
  BY <1>1, <1>2, <1>4 DEF IsEmpty, Interval
<1>6. Joined(ms, fs, 1)
  BY <1>1, <1>2, <1>4 DEF Joined, Interval, Content
<1>7. Joined(ms, fs, 2)
  <2>1. Joined(ls, fs, L)
    BY DEF Chain
  <2> QED
    BY <1>5, <2>1 DEF Joined, s
<1> QED
  BY <1>2, <1>3, <1>5, <1>6, <1>7 DEF Chain, s

\* The files a manifest in use lists: its BASE file, then its INCR files.
LEMMA LiveFull ==
  ASSUME NEW am \in Manifest, Full(am)
  PROVE  /\ Len(LiveFiles(am)) = Len(am.incr) + 1
         /\ LiveFiles(am)[1] = Base(am.base)
         /\ \A i \in 1..Len(am.incr) : LiveFiles(am)[i + 1] = Incr(Past(am) + i)
<1> DEFINE s == [i \in 1..Len(am.incr) |-> Incr(am.incr[i])]
           b == <<Base(am.base)>>
<1>1. Len(am.incr) \in Nat /\ am.base # 0 /\ am.base \in Nat /\ am.incr \in Seq(Nat)
  BY DEF Manifest, Full
<1>2. LiveFiles(am) = b \o s
  BY <1>1, Zenon DEF LiveFiles
<1>3. s \in Seq(AofNames) /\ Len(s) = Len(am.incr)
  <2>1. \A i \in 1..Len(am.incr) : Incr(am.incr[i]) \in AofNames
    BY <1>1 DEF AofNames
  <2> QED
    BY <1>1, <2>1
<1>4. b \in Seq(AofNames) /\ Len(b) = 1 /\ b[1] = Base(am.base)
  BY <1>1 DEF AofNames
<1>5. \A i \in 1..Len(am.incr) : s[i] = Incr(Past(am) + i)
  BY Zenon DEF Full
<1> HIDE DEF s, b
<1>6. /\ Len(b \o s) = Len(am.incr) + 1 /\ (b \o s)[1] = b[1]
      /\ \A i \in 1..Len(am.incr) : (b \o s)[i + 1] = s[i]
  <2>1. Len(b \o s) = Len(b) + Len(s)
    BY <1>3, <1>4, ConcatProperties, Zenon
  <2>2. \A i \in 1..(Len(b) + Len(s)) : (b \o s)[i] = IF i <= Len(b) THEN b[i] ELSE s[i - Len(b)]
    BY <1>3, <1>4, ConcatProperties
  <2>3. 1 \in 1..(Len(b) + Len(s)) /\ 1 <= Len(b)
    BY <1>1, <1>3, <1>4
  <2>4. ASSUME NEW i \in 1..Len(am.incr) PROVE (b \o s)[i + 1] = s[i]
    <3>1. i + 1 \in 1..(Len(b) + Len(s)) /\ ~(i + 1 <= Len(b)) /\ (i + 1) - Len(b) = i
      BY <1>1, <1>3, <1>4
    <3> QED
      BY <2>2, <3>1, Zenon
  <2> QED
    BY <1>1, <1>3, <1>4, <2>1, <2>2, <2>3, <2>4
<1> QED
  BY <1>2, <1>4, <1>5, <1>6, Zenon

\* An empty manifest lists nothing.
LEMMA LiveFresh == ASSUME NEW am, Fresh(am) PROVE Len(LiveFiles(am)) = 0
  BY DEF Fresh, LiveFiles

\* A manifest in use is read back as it was written.
LEMMA ReadBack ==
  ASSUME manifest_file \in Manifest, Fresh(manifest_file) \/ Full(manifest_file)
  PROVE  aofLoadManifestFromDisk = manifest_file
<1>1. CASE Fresh(manifest_file)
  BY <1>1, Zenon DEF Fresh, aofLoadManifestFromDisk, Manifest
<1>2. CASE Full(manifest_file)
  <2>1. manifest_file.incr # <<>> /\ Len(manifest_file.incr) \in Nat
    BY <1>2 DEF Full, Manifest
  <2>2. manifest_file.incr[Len(manifest_file.incr)] = manifest_file.incr_seq
    <3>1. PICK L \in Nat : L = Len(manifest_file.incr)
      BY <2>1, Zenon
    <3>2. L \in 1..L /\ manifest_file.incr_seq \in Nat
      BY <1>2, <3>1 DEF Full, Manifest
    <3>3. manifest_file.incr[L] = Past(manifest_file) + L
      BY <1>2, <3>1, <3>2, Zenon DEF Full
    <3> QED
      BY <3>1, <3>2, <3>3 DEF Past
  <2> QED
    <3>1. aofLoadManifestFromDisk = [manifest_file EXCEPT !.incr_seq = manifest_file.incr_seq]
      BY <2>1, <2>2, Zenon DEF aofLoadManifestFromDisk
    <3> QED
      BY <3>1, Zenon DEF Manifest
<1> QED
  BY <1>1, <1>2, Zenon

\* The names a manifest in use lists are different from each other, from the
\* names to be given next and from those of its history.
LEMMA LiveNames ==
  ASSUME NEW am \in Manifest, Full(am)
  PROVE  /\ LastIncr(am) = Incr(am.incr_seq) /\ LastIncr(am) # NoFile
         /\ LiveFiles(am)[Len(am.incr) + 1] = LastIncr(am)
         /\ \A i \in 1..Len(am.incr) : LiveFiles(am)[i] # LastIncr(am)
         /\ \A i \in 1..(Len(am.incr) + 1) : LiveFiles(am)[i] \notin Spare(am) \cup am.hist
<1>1. PICK L \in Nat : L = Len(am.incr) /\ L >= 1
  BY DEF Full, Manifest
<1>2. PICK p \in Nat : p = Past(am) /\ am.incr_seq = p + L
  BY <1>1, SMTT(30) DEF Full, Past, Manifest
<1>3. LastIncr(am) = Incr(am.incr_seq)
  BY <1>1, <1>2 DEF LastIncr, Full
<1>4. /\ LiveFiles(am)[1] = Base(am.base)
      /\ \A i \in 1..L : LiveFiles(am)[i + 1] = Incr(p + i)
  BY <1>1, <1>2, LiveFull, Zenon
<1>5. \A i \in 1..(L + 1) : \/ i = 1 /\ LiveFiles(am)[i] = Base(am.base)
                            \/ \E k \in 1..L : i = k + 1 /\ LiveFiles(am)[i] = Incr(p + k)
  <2> TAKE i \in 1..(L + 1)
  <2>1. CASE i = 1
    BY <1>4, <2>1, Zenon
  <2>2. CASE i # 1
    <3>1. i - 1 \in 1..L /\ i = (i - 1) + 1
      BY <2>2
    <3> QED
      BY <1>4, <3>1, Zenon
  <2> QED
    BY <2>1, <2>2, Zenon
<1>6. LiveFiles(am)[L + 1] = LastIncr(am)
  BY <1>1, <1>2, <1>3, <1>4
<1>7. ASSUME NEW i \in 1..L PROVE LiveFiles(am)[i] # LastIncr(am)
  <2>1. i \in 1..(L + 1)
    OBVIOUS
  <2>2. CASE i = 1
    BY <1>3, <1>4, <2>2, NameFacts, Zenon
  <2>3. ASSUME NEW k \in 1..L, i = k + 1, LiveFiles(am)[i] = Incr(p + k)
        PROVE  LiveFiles(am)[i] # LastIncr(am)
    <3>1. p + k # am.incr_seq
      BY <1>2, <2>3
    <3> QED
      BY <1>3, <2>3, <3>1, NameFacts, Zenon
  <2> QED
    BY <1>5, <2>1, <2>2, <2>3, Zenon
<1>8. ASSUME NEW f, f \in Spare(am) \cup am.hist
      PROVE  \/ \E k \in Nat : k # am.base /\ f = Base(k)
             \/ \E k \in Nat : k \notin (p + 1)..(p + L) /\ f = Incr(k)
  <2>1. CASE f = Base(am.base + 1)
    BY <2>1 DEF Manifest
  <2>2. CASE f = Incr(am.incr_seq + 1)
    BY <1>2, <2>2 DEF Manifest
  <2>3. CASE f \in am.hist
    <3>1. CASE \E k \in Nat : k < am.base /\ f = Base(k)
      BY <3>1 DEF Manifest
    <3>2. CASE \E k \in Nat : k <= p /\ f = Incr(k)
      BY <3>2
    <3> QED
      BY <1>2, <2>3, <3>1, <3>2, Zenon DEF Full
  <2> QED
    BY <1>8, <2>1, <2>2, <2>3, Zenon DEF Spare
<1>9. ASSUME NEW i \in 1..(L + 1), LiveFiles(am)[i] \in Spare(am) \cup am.hist PROVE FALSE
  <2>1. CASE LiveFiles(am)[i] = Base(am.base)
    BY <1>8, <1>9, <2>1, NameFacts
  <2>2. ASSUME NEW k \in 1..L, LiveFiles(am)[i] = Incr(p + k) PROVE FALSE
    <3>1. p + k \in (p + 1)..(p + L)
      OBVIOUS
    <3> QED
      BY <1>8, <1>9, <2>2, <3>1, NameFacts, Zenon
  <2> QED
    BY <1>5, <2>1, <2>2, Zenon
<1> QED
  BY <1>1, <1>3, <1>6, <1>7, <1>9, NameFacts, Zenon

-----------------------------------------------------------------------------
(* The steps.                                                              *)

\* What a running server's invariant says of the log it appends to.
LEMMA RunFacts ==
  ASSUME RewriteInv, pc \in RunPcs
  PROVE  LET L  == Len(manifest_file.incr)
             ls == LiveFiles(manifest_file)
             f  == LastIncr(manifest_file)
         IN  /\ manifest_file \in Manifest /\ Full(manifest_file)
             /\ L \in Nat /\ L >= 1 /\ Len(ls) = L + 1
             /\ Chain(ls, files) /\ ls[L + 1] = f /\ f # NoFile /\ aof_fd = f
             /\ \A i \in 1..L : ls[i] # f /\ ls[i] \in DOMAIN files
             /\ f \in DOMAIN files /\ files[f] \in Content /\ files[f].state = "whole"
             /\ BeforeLast \in Nat /\ logged \in Nat /\ n \in Nat /\ logged <= n
             /\ logged = IF IsEmpty(files[f]) THEN BeforeLast ELSE files[f].to
             /\ IsEmpty(files[f]) \/ files[f].from = BeforeLast
             /\ aof_buf = Interval(logged, n) /\ aof_state = "on"
<1> DEFINE ls == LiveFiles(manifest_file)
           f  == LastIncr(manifest_file)
<1>1. /\ manifest_file \in Manifest /\ Full(manifest_file) /\ aof_fd = f
      /\ Chain(ls, files) /\ logged \in Nat /\ n \in Nat /\ aof_state = "on"
      /\ logged <= Top(ls, files) /\ Top(ls, files) <= n /\ logged = Top(ls, files)
      /\ aof_buf = Interval(logged, n)
      /\ \A i \in 1..Len(ls) : files[ls[i]].state = "whole"
  BY Zenon DEF RewriteInv, DiskInv, UpInv, RunInv, RunPcs
<1>2. PICK L \in Nat : L = Len(manifest_file.incr) /\ L >= 1
  BY <1>1 DEF Full, Manifest
<1>3. Len(ls) = L + 1
  BY <1>1, <1>2, LiveFull, Zenon
<1>4. ls[L + 1] = f /\ f # NoFile /\ \A i \in 1..L : ls[i] # f
  BY <1>1, <1>2, LiveNames, Zenon
<1> HIDE DEF ls, f
<1>5. \A i \in 1..(L + 1) : Joined(ls, files, i)
  BY <1>1, <1>3, Zenon DEF Chain
<1>6. L + 1 \in 1..(L + 1) /\ L \in 0..(L + 1) /\ \A i \in 1..L : i \in 1..(L + 1)
  BY <1>2
<1>7. \A i \in 1..L : ls[i] \in DOMAIN files
  BY <1>5, <1>6, Zenon DEF Joined
<1>8. f \in DOMAIN files /\ files[f] \in Content /\ files[f].state = "whole"
  BY <1>1, <1>3, <1>4, <1>5, <1>6, Zenon DEF Joined
<1>9. BeforeLast = LoadedTo(ls, files)[L]
  BY <1>2, Zenon DEF BeforeLast, ls
<1>10. BeforeLast \in Nat
  BY <1>1, <1>3, <1>6, <1>9, LoadedType
<1>11. IsEmpty(files[f]) \/ files[f].from = BeforeLast
  <2>1. Joined(ls, files, L + 1) /\ (L + 1) - 1 = L
    BY <1>2, <1>5, <1>6
  <2> QED
    BY <1>4, <1>9, <2>1, Zenon DEF Joined
<1>12. logged = IF IsEmpty(files[f]) THEN BeforeLast ELSE files[f].to
  <2>1. L + 1 \in 1..Len(ls) /\ Len(ls) \in Nat /\ (L + 1) - 1 = L
    BY <1>2, <1>3
  <2>2. LoadedTo(ls, files)[L + 1] = IF IsEmpty(files[ls[L + 1]]) THEN LoadedTo(ls, files)[(L + 1) - 1]
                                                                  ELSE files[ls[L + 1]].to
    BY <2>1, LoadedFacts, Zenon
  <2> QED
    BY <1>1, <1>3, <1>4, <1>9, <2>1, <2>2, Zenon DEF Top
<1> QED
  BY <1>1, <1>2, <1>3, <1>4, <1>7, <1>8, <1>10, <1>11, <1>12, Zenon DEF ls, f

\* Steps that touch neither the disk nor the dataset.
LEMMA QuietStep ==
  ASSUME RewriteInv, AlwaysOn,
         \/ bgrewriteaofCommand \/ RewriteOnGrowth \/ serverCron
         \/ OpenNewIncrFails \/ OtherChild \/ OtherChildExits \/ ChildFails
  PROVE  RewriteInv'
<1>1. /\ pc \in {"loop", "rw_open"} /\ pc' \in {"loop", "rw_flush"}
      /\ UNCHANGED <<n, aof_state, aof_fd, aof_buf, amVars, snapshot, diskVars, logged>>
      /\ starting' = 0
      /\ child_type' = child_type \/ child_type' # "aof"
      /\ pc' = "rw_flush" => child_type' # "aof"
  BY SMTT(30) DEF bgrewriteaofCommand, RewriteOnGrowth, serverCron, OpenNewIncrFails, RewriteError,
         OtherChild, OtherChildExits, ChildFails, Cleanup, RunPcs, memVars, childVars, diskVars,
         RewriteInv, UpInv, RunInv
<1>2. DiskInv'
  BY <1>1, Zenon DEF RewriteInv, DiskInv, RunPcs, diskVars, amVars
<1>3. UpInv'
  BY <1>1, Zenon DEF RewriteInv, UpInv, RunPcs, diskVars, amVars
<1>4. RunInv'
  <2>1. RunInv /\ BeforeLast' = BeforeLast
    BY <1>1, Zenon DEF RewriteInv, RunPcs, diskVars, BeforeLast
  <2> QED
    BY <1>1, <2>1, Zenon DEF RunInv, diskVars, amVars
<1> QED
  BY <1>1, <1>2, <1>3, <1>4, Zenon DEF RewriteInv, RunPcs, StartPcs

\* A command goes to the buffer, and the log still ends where the buffer begins.
LEMMA WriteCommandStep == ASSUME RewriteInv, WriteCommand PROVE RewriteInv'
<1>1. /\ pc = "loop" /\ n' = n + 1
      /\ UNCHANGED <<pc, aof_state, aof_fd, aof_manifest, child_type, snapshot, starting, files,
                     manifest_file, logged>>
  BY Zenon DEF WriteCommand, amVars, childVars, diskVars
<1>2. /\ n \in Nat /\ logged \in Nat /\ logged <= n /\ aof_buf = Interval(logged, n)
      /\ aof_state = "on"
  BY <1>1, RunFacts, Zenon DEF RunPcs
<1>3. aof_buf' = Interval(logged, n + 1)
  <2>1. aof_buf' = Appended(Interval(logged, n), Interval(n, n + 1))
    BY <1>2, Zenon DEF WriteCommand, feedAppendOnlyFile
  <2> QED
    BY <1>2, <2>1, Zenon DEF Appended, Interval
<1>4. DiskInv'
  <2>1. Top(LiveFiles(manifest_file), files) \in Nat
    BY <1>1, Zenon DEF RewriteInv, UpInv, DiskInv
  <2> QED
    BY <1>1, <1>2, <2>1 DEF RewriteInv, DiskInv
<1>5. UpInv'
  BY <1>1, <1>3, Zenon DEF RewriteInv, UpInv
<1>6. RunInv'
  <2>1. RunInv /\ BeforeLast' = BeforeLast
    BY <1>1, Zenon DEF RewriteInv, RunPcs, BeforeLast
  <2> QED
    BY <1>1, <2>1, Zenon DEF RunInv
<1> QED
  BY <1>1, <1>4, <1>5, <1>6, Zenon DEF RewriteInv, RunPcs, StartPcs

\* Changing the content of the file being written, to one that goes on where
\* the log before it ends.
LEMMA LastFileStep ==
  ASSUME RewriteInv, pc \in RunPcs, UNCHANGED manifest_file, NEW c \in Content,
         files' = [files EXCEPT ![LastIncr(manifest_file)] = c],
         IsEmpty(c) \/ c.from = BeforeLast
  PROVE  /\ DOMAIN files' = DOMAIN files
         /\ files'[LastIncr(manifest_file)] = c
         /\ \A f \in DOMAIN files : f # LastIncr(manifest_file) => files'[f] = files[f]
         /\ \A f \in DOMAIN files' : files'[f] \in Content
         /\ Chain(LiveFiles(manifest_file), files')
         /\ BeforeLast' = BeforeLast
         /\ Top(LiveFiles(manifest_file), files') = IF IsEmpty(c) THEN BeforeLast ELSE c.to
         /\ \A i \in 1..Len(manifest_file.incr) :
              files'[LiveFiles(manifest_file)[i]].state = "whole"
<1> DEFINE ls == LiveFiles(manifest_file)
           g  == LastIncr(manifest_file)
<1>1. PICK L \in Nat : L = Len(manifest_file.incr) /\ L >= 1 /\ Len(ls) = L + 1
  BY RunFacts, Zenon
<1>2. /\ Chain(ls, files) /\ ls[L + 1] = g /\ g \in DOMAIN files
      /\ \A i \in 1..L : ls[i] # g /\ ls[i] \in DOMAIN files
  BY <1>1, RunFacts, Zenon
<1>3. BeforeLast = LoadedTo(ls, files)[L] /\ BeforeLast' = LoadedTo(ls, files')[L]
  BY <1>1, Zenon DEF BeforeLast
<1>4. /\ \A i \in 1..Len(ls) : files[ls[i]].state = "whole"
      /\ \A f \in DOMAIN files : files[f] \in Content
  BY Zenon DEF RewriteInv, UpInv, DiskInv, RunPcs
<1> HIDE DEF ls, g
<1>5. /\ DOMAIN files' = DOMAIN files /\ files'[g] = c
      /\ \A f \in DOMAIN files : f # g => files'[f] = files[f]
  BY <1>2, Zenon DEF g
<1>6. PICK K \in Nat : K = L + 1 /\ K = Len(ls) /\ K >= 1 /\ K - 1 = L
  BY <1>1
<1>7. /\ \A i \in 1..(K - 1) : ls[i] \in DOMAIN files' /\ files'[ls[i]] = files[ls[i]]
      /\ ls[K] \in DOMAIN files' /\ files'[ls[K]] = c
  BY <1>2, <1>5, <1>6, Zenon
<1>8. IsEmpty(c) \/ c.from = LoadedTo(ls, files)[K - 1]
  BY <1>3, <1>6, Zenon
<1>9. /\ Chain(ls, files')
      /\ \A i \in 0..(K - 1) : LoadedTo(ls, files')[i] = LoadedTo(ls, files)[i]
      /\ Top(ls, files') = IF IsEmpty(c) THEN LoadedTo(ls, files)[K - 1] ELSE c.to
  <2>1. PICK fs, gs : fs = files /\ gs = files'
    BY Zenon
  <2>2. /\ Chain(ls, fs) /\ gs[ls[K]] = c /\ gs[ls[K]] \in Content
        /\ \A i \in 1..(K - 1) : ls[i] \in DOMAIN gs /\ gs[ls[i]] = fs[ls[i]]
        /\ ls[K] \in DOMAIN gs
        /\ IsEmpty(gs[ls[K]]) \/ gs[ls[K]].from = LoadedTo(ls, fs)[K - 1]
    BY <1>2, <1>7, <1>8, <2>1, Zenon
  <2>3. /\ Chain(ls, gs)
        /\ \A i \in 0..(K - 1) : LoadedTo(ls, gs)[i] = LoadedTo(ls, fs)[i]
        /\ Top(ls, gs) = IF IsEmpty(gs[ls[K]]) THEN LoadedTo(ls, fs)[K - 1] ELSE gs[ls[K]].to
    BY <1>6, <2>2, ChainLast
  <2> QED
    BY <2>1, <2>2, <2>3, Zenon
<1>10. BeforeLast' = BeforeLast
  <2>1. K - 1 \in 0..(K - 1)
    BY <1>6
  <2> QED
    BY <1>3, <1>6, <1>9, <2>1, Zenon
<1>11. \A f \in DOMAIN files' : files'[f] \in Content
  BY <1>4, <1>5, Zenon
<1>12. \A i \in 1..L : files'[ls[i]].state = "whole"
  BY <1>1, <1>4, <1>6, <1>7
<1> QED
  BY <1>1, <1>3, <1>5, <1>6, <1>9, <1>10, <1>11, <1>12, Zenon DEF ls, g

\* Appending commands that follow the log to its last file.
LEMMA AppendedFacts ==
  ASSUME NEW old \in Content, old.state = "whole", NEW b \in Nat, NEW t \in Nat, NEW k \in Nat,
         t <= k, IsEmpty(old) \/ old.from = b, t = IF IsEmpty(old) THEN b ELSE old.to
  PROVE  LET c == Appended(old, Interval(t, k))
         IN  /\ c \in Content /\ c.state = "whole"
             /\ IsEmpty(c) \/ c.from = b
             /\ ~IsEmpty(c) => c.to = k
             /\ IsEmpty(c) => k = b /\ k = t
<1> DEFINE c == Appended(old, Interval(t, k))
<1>1. /\ old \in [from : Nat, to : Nat, state : {"whole", "torn"}] /\ old.from <= old.to
      /\ old.from \in Nat /\ old.to \in Nat
  BY Zenon DEF Content
<1>2. CASE IsEmpty(old)
  <2>1. c = [old EXCEPT !.from = t, !.to = k]
    BY <1>2, Zenon DEF Appended, Interval, IsEmpty
  <2>2. c.from = t /\ c.to = k /\ c.state = "whole" /\ c \in Content
    BY <1>1, <2>1, Zenon DEF Content
  <2> QED
    BY <1>2, <2>2, Zenon DEF IsEmpty
<1>3. CASE ~IsEmpty(old)
  <2>1. c = [old EXCEPT !.to = k, !.state = "whole"]
    BY <1>1, <1>3, Zenon DEF Appended, Interval, IsEmpty
  <2>2. old.from < old.to /\ old.to = t /\ old.from = b
    BY <1>1, <1>3 DEF IsEmpty
  <2> HIDE DEF c
  <2>3. c = [from |-> old.from, to |-> k, state |-> "whole"]
    BY <1>1, <2>1, Zenon
  <2>4. b < k
    BY <1>1, <2>2
  <2>5. c \in Content
    BY <1>1, <2>2, <2>3, <2>4 DEF Content
  <2> QED
    BY <2>2, <2>3, <2>4, <2>5 DEF IsEmpty, c
<1> QED
  BY <1>2, <1>3, Zenon

\* flushAppendOnlyFile moves the buffer to the log: the log then ends at n.
LEMMA FlushFacts ==
  ASSUME RewriteInv, AlwaysOn, pc \in {"loop", "rw_flush"}, flushAppendOnlyFile,
         UNCHANGED <<n, manifest_file>>
  PROVE  /\ DOMAIN files' = DOMAIN files /\ \A f \in DOMAIN files' : files'[f] \in Content
         /\ Chain(LiveFiles(manifest_file), files')
         /\ \A i \in 1..Len(LiveFiles(manifest_file)) :
              files'[LiveFiles(manifest_file)[i]].state = "whole"
         /\ logged' = n /\ Top(LiveFiles(manifest_file), files') = n
         /\ aof_buf' = Interval(n, n) /\ BeforeLast' = BeforeLast
<1>1. CASE IsEmpty(aof_buf)
  <2>1. logged = n /\ UNCHANGED <<files, logged, aof_buf>> /\ aof_buf = Interval(n, n)
    BY <1>1, RunFacts DEF flushAppendOnlyFile, IsEmpty, Interval, RunPcs
  <2> QED
    BY <2>1, Zenon DEF RewriteInv, DiskInv, UpInv, BeforeLast
<1>2. CASE ~IsEmpty(aof_buf)
  <2> DEFINE g == LastIncr(manifest_file)
  <2>1. /\ aof_fd = g /\ g # NoFile /\ g \in DOMAIN files /\ files[g] \in Content
        /\ files[g].state = "whole" /\ aof_buf = Interval(logged, n) /\ aof_state = "on"
        /\ logged \in Nat /\ n \in Nat /\ logged <= n /\ BeforeLast \in Nat
        /\ IsEmpty(files[g]) \/ files[g].from = BeforeLast
        /\ logged = IF IsEmpty(files[g]) THEN BeforeLast ELSE files[g].to
    BY RunFacts, Zenon DEF RunPcs
  <2>2. ~Fault("write")
    BY Zenon DEF AlwaysOn, Fault
  <2>3. FlushOk
    BY <1>2, <2>1, <2>2, Zenon DEF flushAppendOnlyFile, FlushFails
  <2>4. /\ files' = [files EXCEPT ![g] = Appended(files[g], Interval(logged, n))]
        /\ logged' = n /\ aof_buf' = Interval(n, n)
    BY <2>1, <2>3, Zenon DEF FlushOk, Interval
  <2>5. PICK c : c = Appended(files[g], Interval(logged, n))
    BY Zenon
  <2> HIDE DEF g
  <2>6. /\ c \in Content /\ c.state = "whole"
        /\ IsEmpty(c) \/ c.from = BeforeLast
        /\ ~IsEmpty(c) => c.to = n
        /\ IsEmpty(c) => n = BeforeLast /\ n = logged
    BY <2>1, <2>5, AppendedFacts
  <2>7. files' = [files EXCEPT ![LastIncr(manifest_file)] = c] /\ pc \in RunPcs
    BY <2>4, <2>5, Zenon DEF g, RunPcs
  <2>8. /\ DOMAIN files' = DOMAIN files
        /\ files'[LastIncr(manifest_file)] = c
        /\ \A f \in DOMAIN files' : files'[f] \in Content
        /\ Chain(LiveFiles(manifest_file), files')
        /\ BeforeLast' = BeforeLast
        /\ Top(LiveFiles(manifest_file), files') = IF IsEmpty(c) THEN BeforeLast ELSE c.to
        /\ \A i \in 1..Len(manifest_file.incr) :
              files'[LiveFiles(manifest_file)[i]].state = "whole"
    BY <2>6, <2>7, LastFileStep, Zenon
  <2>9. /\ Len(LiveFiles(manifest_file)) = Len(manifest_file.incr) + 1
        /\ LiveFiles(manifest_file)[Len(manifest_file.incr) + 1] = LastIncr(manifest_file)
        /\ Len(manifest_file.incr) \in Nat
    BY <2>7, RunFacts, Zenon
  <2>10. \A i \in 1..Len(LiveFiles(manifest_file)) :
           files'[LiveFiles(manifest_file)[i]].state = "whole"
    BY <2>6, <2>8, <2>9
  <2> QED
    BY <2>4, <2>6, <2>8, <2>10, Zenon
<1> QED
  BY <1>1, <1>2, Zenon

\* The flush before the loop sleeps, and the one a rewrite begins with.
LEMMA FlushStep ==
  ASSUME RewriteInv, AlwaysOn, Flush \/ RewriteFlush
  PROVE  RewriteInv'
<1>1. /\ \/ pc = "loop" /\ pc' = "loop"
         \/ pc = "rw_flush" /\ pc' = "rw_open"
      /\ UNCHANGED <<n, aof_state, aof_fd, amVars, childVars, manifest_file>>
      /\ flushAppendOnlyFile
  BY Zenon DEF Flush, RewriteFlush
<1>2. /\ DOMAIN files' = DOMAIN files /\ \A f \in DOMAIN files' : files'[f] \in Content
      /\ Chain(LiveFiles(manifest_file), files')
      /\ \A i \in 1..Len(LiveFiles(manifest_file)) :
           files'[LiveFiles(manifest_file)[i]].state = "whole"
      /\ logged' = n /\ Top(LiveFiles(manifest_file), files') = n
      /\ aof_buf' = Interval(n, n) /\ BeforeLast' = BeforeLast
  BY <1>1, FlushFacts, Zenon
<1>3. DiskInv /\ UpInv /\ RunInv
  BY <1>1, Zenon DEF RewriteInv, RunPcs
<1>4. DiskInv'
  <2>1. manifest_file.base # 0
    BY <1>3 DEF RunInv, Full, DiskInv, Manifest
  <2> QED
    BY <1>1, <1>2, <1>3, <2>1, SMTT(30) DEF DiskInv, amVars, Fresh
<1>5. UpInv'
  BY <1>1, <1>2, <1>3, Zenon DEF UpInv, amVars, childVars
<1>6. RunInv'
  BY <1>1, <1>2, <1>3, Zenon DEF RunInv, amVars, childVars
<1> QED
  BY <1>1, <1>4, <1>5, <1>6, Zenon DEF RewriteInv, RunPcs, StartPcs

\* What adding a file to the directory, or taking one away, leaves alone.
LEMMA DirectoryFacts ==
  ASSUME NEW fs, NEW gs, NEW f,
         \/ gs = fs
         \/ gs = Without(fs, {f})
         \/ \E c \in Content : gs = With(fs, f, c),
         \A g \in DOMAIN fs : fs[g] \in Content
  PROVE  /\ \A g \in DOMAIN fs : g # f => g \in DOMAIN gs /\ gs[g] = fs[g]
         /\ \A g \in DOMAIN gs : gs[g] \in Content
         /\ DOMAIN gs \subseteq DOMAIN fs \cup {f}
<1>1. CASE gs = fs
  BY <1>1, Zenon
<1>2. CASE gs = Without(fs, {f})
  BY <1>2, Zenon DEF Without
<1>3. ASSUME NEW c \in Content, gs = With(fs, f, c)
      PROVE  /\ \A g \in DOMAIN fs : g # f => g \in DOMAIN gs /\ gs[g] = fs[g]
             /\ \A g \in DOMAIN gs : gs[g] \in Content
             /\ DOMAIN gs \subseteq DOMAIN fs \cup {f}
  BY <1>3, Zenon DEF With
<1> QED
  BY <1>1, <1>2, <1>3, Zenon

\* An interval of commands is a possible content of a file.
LEMMA IntervalType ==
  ASSUME NEW a \in Nat, NEW b \in Nat, a <= b
  PROVE  /\ Interval(a, b) \in Content /\ Interval(a, b).from = a /\ Interval(a, b).to = b
         /\ Interval(a, b).state = "whole"
  BY Zenon DEF Interval, Content

\* A step of the running server that leaves the files of the log alone: only
\* names to be given next, or of the history, may come or go.
LEMMA OtherFileStep ==
  ASSUME RewriteInv, pc \in RunPcs, UNCHANGED manifest_file,
         NEW f \in Spare(manifest_file) \cup manifest_file.hist,
         \/ UNCHANGED files
         \/ files' = Without(files, {f})
         \/ \E c \in Content : files' = With(files, f, c)
  PROVE  /\ Chain(LiveFiles(manifest_file), files')
         /\ Top(LiveFiles(manifest_file), files') = Top(LiveFiles(manifest_file), files)
         /\ BeforeLast' = BeforeLast
         /\ \A i \in 1..Len(LiveFiles(manifest_file)) :
              files'[LiveFiles(manifest_file)[i]] = files[LiveFiles(manifest_file)[i]]
         /\ files'[LastIncr(manifest_file)] = files[LastIncr(manifest_file)]
         /\ \A g \in DOMAIN files' : files'[g] \in Content
         /\ DOMAIN files' \subseteq DOMAIN files \cup {f}
<1> DEFINE ls == LiveFiles(manifest_file)
<1>1. PICK L \in Nat : L = Len(manifest_file.incr) /\ L >= 1 /\ Len(ls) = L + 1
  BY RunFacts, Zenon
<1>2. /\ manifest_file \in Manifest /\ Full(manifest_file) /\ Chain(ls, files)
      /\ ls[L + 1] = LastIncr(manifest_file) /\ LastIncr(manifest_file) \in DOMAIN files
      /\ \A i \in 1..L : ls[i] \in DOMAIN files
  BY <1>1, RunFacts, Zenon
<1>3. \A i \in 1..(L + 1) : ls[i] # f
  BY <1>1, <1>2, LiveNames, Zenon
<1>4. \A g \in DOMAIN files : files[g] \in Content
  BY Zenon DEF RewriteInv, DiskInv
<1>5. BeforeLast = LoadedTo(ls, files)[L] /\ BeforeLast' = LoadedTo(ls, files')[L]
  BY <1>1, Zenon DEF BeforeLast
<1> HIDE DEF ls
<1>6. /\ \A g \in DOMAIN files : g # f => g \in DOMAIN files' /\ files'[g] = files[g]
      /\ \A g \in DOMAIN files' : files'[g] \in Content
      /\ DOMAIN files' \subseteq DOMAIN files \cup {f}
  BY <1>4, DirectoryFacts, Zenon
<1>7. \A i \in 1..(L + 1) : ls[i] \in DOMAIN files
  <2> TAKE i \in 1..(L + 1)
  <2>1. i \in 1..L \/ i = L + 1
    OBVIOUS
  <2> QED
    BY <1>2, <2>1, Zenon
<1>8. \A i \in 1..Len(ls) : ls[i] \in DOMAIN files' /\ files'[ls[i]] = files[ls[i]]
  BY <1>1, <1>3, <1>6, <1>7, Zenon
<1>9. Chain(ls, files') /\ \A i \in 0..Len(ls) : LoadedTo(ls, files')[i] = LoadedTo(ls, files)[i]
  <2>1. Len(ls) \in Nat /\ Chain(ls, files)
    BY <1>1, <1>2
  <2>2. SameFiles(ls, files, files')
    BY <1>8, Zenon DEF SameFiles
  <2> QED
    BY <2>1, <2>2, ChainSame, SMTT(30)
<1>10. BeforeLast' = BeforeLast /\ Top(ls, files') = Top(ls, files)
  <2>1. L \in 0..Len(ls) /\ Len(ls) \in 0..Len(ls)
    BY <1>1
  <2> QED
    BY <1>5, <1>9, <2>1, Zenon DEF Top
<1>11. L + 1 \in 1..Len(ls)
  BY <1>1
<1> QED
  BY <1>2, <1>6, <1>8, <1>9, <1>10, <1>11, Zenon DEF ls

\* The next INCR file is created, empty; the manifest does not list it yet.
LEMMA OpenNewIncrStep == ASSUME RewriteInv, OpenNewIncr PROVE RewriteInv'
<1>1. pc = "rw_open" /\ aof_state = "on" /\ DiskInv /\ UpInv /\ RunInv
  BY Zenon DEF OpenNewIncr, RewriteInv, UpInv, RunPcs
<1>2. /\ pc' = "rw_persist" /\ temp_am' = getNewIncrAofName(aof_manifest)
      /\ files' = With(files, LastIncr(temp_am'), Interval(n, n))
      /\ UNCHANGED <<n, aof_state, aof_fd, aof_buf, aof_manifest, childVars, manifest_file, logged>>
  BY <1>1, Zenon DEF OpenNewIncr, Empty
<1>3. LastIncr(temp_am') = Incr(manifest_file.incr_seq + 1)
  <2>1. /\ aof_manifest \in Manifest /\ aof_manifest.incr_seq = manifest_file.incr_seq
        /\ aof_manifest.incr \in Seq(Nat) /\ aof_manifest.incr_seq + 1 \in Nat
    BY <1>1 DEF RunInv, UpInv, Manifest, DiskInv
  <2>2. temp_am'.incr = Append(aof_manifest.incr, aof_manifest.incr_seq + 1)
    BY <1>2, <2>1, Zenon DEF getNewIncrAofName, Manifest
  <2>3. temp_am'.incr[Len(temp_am'.incr)] = aof_manifest.incr_seq + 1
    BY <2>1, <2>2
  <2> QED
    BY <2>1, <2>3, Zenon DEF LastIncr
<1>4. PICK f : f = Incr(manifest_file.incr_seq + 1) /\ f \in Spare(manifest_file)
  BY Zenon DEF Spare
<1>5. PICK c \in Content : c = Interval(n, n)
  <2>1. Interval(n, n) \in Content
    BY <1>1, IntervalType DEF DiskInv
  <2> QED
    BY <2>1, Zenon
<1>6. files' = With(files, f, c) /\ f \in Spare(manifest_file) \cup manifest_file.hist /\ pc \in RunPcs
  BY <1>1, <1>2, <1>3, <1>4, <1>5, Zenon DEF RunPcs
<1>7. /\ Chain(LiveFiles(manifest_file), files')
      /\ Top(LiveFiles(manifest_file), files') = Top(LiveFiles(manifest_file), files)
      /\ BeforeLast' = BeforeLast
      /\ \A i \in 1..Len(LiveFiles(manifest_file)) :
           files'[LiveFiles(manifest_file)[i]] = files[LiveFiles(manifest_file)[i]]
      /\ \A g \in DOMAIN files' : files'[g] \in Content
      /\ DOMAIN files' \subseteq DOMAIN files \cup {f}
  BY <1>2, <1>6, OtherFileStep, Zenon
<1>8. f \in DOMAIN files' /\ files'[f] = Interval(n, n)
  <2>1. DOMAIN With(files, f, c) = DOMAIN files \cup {f} /\ With(files, f, c)[f] = c
    BY Zenon DEF With
  <2> QED
    BY <1>5, <1>6, <2>1, Zenon
<1>9. DiskInv'
  <2>1. ~Fresh(manifest_file)
    BY <1>1 DEF RunInv, Full, DiskInv, Manifest, Fresh
  <2> QED
    BY <1>1, <1>2, <1>4, <1>7, <2>1, Zenon DEF DiskInv
<1>10. UpInv'
  BY <1>1, <1>2, <1>7, Zenon DEF UpInv, childVars
<1>11. RunInv'
  BY <1>1, <1>2, <1>4, <1>7, <1>8, Zenon DEF RunInv, childVars
<1> QED
  BY <1>2, <1>9, <1>10, <1>11, Zenon DEF RewriteInv, RunPcs, StartPcs

\* The manifest in memory lists the files of the one on disk.
LEMMA MemoryManifest ==
  ASSUME RewriteInv, pc \in RunPcs
  PROVE  /\ aof_manifest \in Manifest /\ Full(aof_manifest)
         /\ aof_manifest.base = manifest_file.base /\ aof_manifest.incr = manifest_file.incr
         /\ aof_manifest.incr_seq = manifest_file.incr_seq
         /\ LiveFiles(aof_manifest) = LiveFiles(manifest_file)
<1>1. /\ manifest_file \in Manifest /\ Full(manifest_file) /\ aof_manifest \in Manifest
      /\ aof_manifest = [manifest_file EXCEPT !.hist = aof_manifest.hist]
      /\ aof_manifest.hist \subseteq manifest_file.hist
  BY Zenon DEF RewriteInv, DiskInv, UpInv, RunInv, RunPcs
<1>2. /\ aof_manifest.base = manifest_file.base /\ aof_manifest.incr = manifest_file.incr
      /\ aof_manifest.incr_seq = manifest_file.incr_seq
  BY <1>1, Zenon DEF Manifest
<1>3. Past(aof_manifest) = Past(manifest_file)
  BY <1>2, Zenon DEF Past
<1>4. Full(aof_manifest)
  BY <1>1, <1>2, <1>3, Zenon DEF Full
<1> QED
  BY <1>1, <1>2, <1>4, Zenon DEF LiveFiles

\* getNewIncrAofName adds one file at the end of the log.
LEMMA NewIncrFacts ==
  ASSUME NEW am \in Manifest, Full(am), NEW L \in Nat, L = Len(am.incr),
         NEW N, N = getNewIncrAofName(am)
  PROVE  /\ N \in Manifest /\ Full(N)
         /\ N.base = am.base /\ N.hist = am.hist /\ N.incr_seq = am.incr_seq + 1
         /\ Len(N.incr) = L + 1
         /\ Len(LiveFiles(am)) = L + 1 /\ Len(LiveFiles(N)) = L + 2
         /\ \A i \in 1..(L + 1) : LiveFiles(N)[i] = LiveFiles(am)[i]
         /\ LiveFiles(N)[L + 2] = Incr(am.incr_seq + 1)
         /\ LastIncr(N) = Incr(am.incr_seq + 1)
<1>1. /\ am.incr \in Seq(Nat) /\ am.incr_seq \in Nat /\ am.incr_seq + 1 \in Nat
      /\ am.hist \in SUBSET AofNames /\ am.base \in Nat
  BY DEF Manifest
<1>2. N = [base |-> am.base, incr |-> Append(am.incr, am.incr_seq + 1), hist |-> am.hist,
           incr_seq |-> am.incr_seq + 1]
  <2>1. PICK q : q = Append(am.incr, am.incr_seq + 1)
    BY Zenon
  <2>2. N = [am EXCEPT !.incr_seq = am.incr_seq + 1, !.incr = q]
    BY <2>1, Zenon DEF getNewIncrAofName
  <2>3. N = [base |-> am.base, incr |-> q, hist |-> am.hist, incr_seq |-> am.incr_seq + 1]
    BY <2>2, Zenon DEF Manifest
  <2> QED
    BY <2>1, <2>3, Zenon
<1>3. /\ Append(am.incr, am.incr_seq + 1) \in Seq(Nat)
      /\ Len(Append(am.incr, am.incr_seq + 1)) = L + 1
      /\ \A i \in 1..L : Append(am.incr, am.incr_seq + 1)[i] = am.incr[i]
      /\ Append(am.incr, am.incr_seq + 1)[L + 1] = am.incr_seq + 1
  BY <1>1
<1>4. N \in Manifest
  BY <1>1, <1>2, <1>3 DEF Manifest
<1>5. Past(N) = Past(am) /\ Past(am) + L = am.incr_seq
  <2>1. N.incr_seq = am.incr_seq + 1 /\ Len(N.incr) = L + 1
    BY <1>2, <1>3
  <2>2. PICK s \in Nat : s = am.incr_seq
    BY <1>1, Zenon
  <2>3. Past(N) = (s + 1) - (L + 1) /\ Past(am) = s - L
    BY <2>1, <2>2, Zenon DEF Past
  <2> QED
    BY <2>2, <2>3
<1>6. am.base >= 1 /\ L >= 1 /\ L <= am.incr_seq /\ \A i \in 1..L : am.incr[i] = Past(am) + i
  BY Zenon DEF Full
<1>7. Past(am) \in Nat
  BY <1>1, <1>6 DEF Past
<1>8. \A i \in 1..(L + 1) : N.incr[i] = Past(N) + i
  <2> TAKE i \in 1..(L + 1)
  <2>1. CASE i \in 1..L
    BY <1>2, <1>3, <1>5, <1>6, <2>1
  <2>2. CASE i = L + 1
    BY <1>1, <1>2, <1>3, <1>5, <1>7, <2>2
  <2> QED
    BY <2>1, <2>2
<1>9. Full(N)
  <2>1. N.incr_seq = am.incr_seq + 1 /\ Len(N.incr) = L + 1 /\ N.base = am.base /\ N.hist = am.hist
    BY <1>2, <1>3
  <2>2. \A f \in N.hist : \/ \E k \in Nat : k < N.base /\ f = Base(k)
                          \/ \E k \in Nat : k <= Past(N) /\ f = Incr(k)
    BY <1>5, <2>1, Zenon DEF Full
  <2>3. N.base >= 1 /\ Len(N.incr) >= 1 /\ Len(N.incr) <= N.incr_seq
    BY <1>1, <1>6, <2>1
  <2> QED
    BY <1>8, <2>1, <2>2, <2>3, Zenon DEF Full
<1>10. /\ Len(LiveFiles(am)) = L + 1 /\ LiveFiles(am)[1] = Base(am.base)
       /\ \A i \in 1..L : LiveFiles(am)[i + 1] = Incr(Past(am) + i)
  BY LiveFull, Zenon
<1>11. /\ Len(LiveFiles(N)) = (L + 1) + 1 /\ LiveFiles(N)[1] = Base(N.base)
       /\ \A i \in 1..(L + 1) : LiveFiles(N)[i + 1] = Incr(Past(N) + i)
  <2>1. Len(N.incr) = L + 1
    BY <1>2, <1>3
  <2>2. /\ Len(LiveFiles(N)) = Len(N.incr) + 1 /\ LiveFiles(N)[1] = Base(N.base)
        /\ \A i \in 1..Len(N.incr) : LiveFiles(N)[i + 1] = Incr(Past(N) + i)
    BY <1>4, <1>9, LiveFull, Zenon
  <2> QED
    BY <2>1, <2>2, Zenon
<1>12. ASSUME NEW i \in 1..(L + 1) PROVE LiveFiles(N)[i] = LiveFiles(am)[i]
  <2>1. CASE i = 1
    BY <1>2, <1>10, <1>11, <2>1
  <2>2. CASE i # 1
    <3>1. PICK k \in 1..L : i = k + 1
      <4>1. i - 1 \in 1..L /\ i = (i - 1) + 1
        BY <2>2
      <4> QED
        BY <4>1, Zenon
    <3>2. k \in 1..(L + 1)
      OBVIOUS
    <3> QED
      BY <1>5, <1>10, <1>11, <3>1, <3>2, Zenon
  <2> QED
    BY <2>1, <2>2, Zenon
<1>13. LiveFiles(N)[L + 2] = Incr(am.incr_seq + 1)
  <2>1. L + 1 \in 1..(L + 1) /\ (L + 1) + 1 = L + 2 /\ Past(N) + (L + 1) = am.incr_seq + 1
    BY <1>1, <1>5, <1>7
  <2> QED
    BY <1>11, <2>1, Zenon
<1>14. LastIncr(N) = Incr(am.incr_seq + 1)
  BY <1>2, <1>3 DEF LastIncr
<1>15. /\ N.base = am.base /\ N.hist = am.hist /\ N.incr_seq = am.incr_seq + 1
       /\ Len(N.incr) = L + 1 /\ (L + 1) + 1 = L + 2
  BY <1>2, <1>3
<1> QED
  BY <1>4, <1>9, <1>10, <1>11, <1>12, <1>13, <1>14, <1>15, Zenon

\* The rotation is on disk, or nothing has changed.
LEMMA PersistNewIncrStep == ASSUME RewriteInv, AlwaysOn, PersistNewIncr PROVE RewriteInv'
<1>1. pc = "rw_persist" /\ pc \in RunPcs /\ DiskInv /\ UpInv /\ RunInv
  BY Zenon DEF PersistNewIncr, RewriteInv, RunPcs
<1>2. UNCHANGED <<n, aof_buf, child_type, snapshot, files, logged>>
  BY Zenon DEF PersistNewIncr
<1>3. CASE PersistFails(temp_am) /\ RewriteError /\ UNCHANGED <<aof_manifest, aof_fd>>
  <2>1. UNCHANGED manifest_file
    BY <1>3, Zenon DEF PersistFails, Fault, AlwaysOn
  <2>2. pc' = "loop" /\ aof_state' = aof_state /\ starting' = 0
    BY <1>1, <1>3 DEF RewriteError, UpInv
  <2>3. DiskInv'
    BY <1>1, <1>2, <1>3, <2>1, <2>2, Zenon DEF DiskInv
  <2>4. UpInv'
    BY <1>1, <1>2, <1>3, <2>1, <2>2, Zenon DEF UpInv
  <2>5. RunInv'
    <3>1. BeforeLast' = BeforeLast
      BY <1>2, <2>1, Zenon DEF BeforeLast
    <3> QED
      BY <1>1, <1>2, <1>3, <2>1, <2>2, <3>1, Zenon DEF RunInv
  <2> QED
    BY <2>2, <2>3, <2>4, <2>5, Zenon DEF RewriteInv, RunPcs, StartPcs
<1>4. CASE /\ Persisted(temp_am) /\ aof_manifest' = temp_am /\ aof_fd' = LastIncr(temp_am)
           /\ pc' = "rw_fork" /\ UNCHANGED <<aof_state, starting>>
  <2> DEFINE ls == LiveFiles(manifest_file)
             ms == LiveFiles(temp_am)
             f  == Incr(manifest_file.incr_seq + 1)
  <2>1. PICK L \in Nat : L = Len(manifest_file.incr)
    BY <1>1 DEF DiskInv, Manifest
  <2>2. /\ aof_manifest \in Manifest /\ Full(aof_manifest)
        /\ aof_manifest.base = manifest_file.base /\ L = Len(aof_manifest.incr)
        /\ aof_manifest.incr_seq = manifest_file.incr_seq /\ LiveFiles(aof_manifest) = ls
        /\ aof_manifest.hist = {} /\ temp_am = getNewIncrAofName(aof_manifest)
    BY <1>1, <2>1, MemoryManifest, Zenon DEF RunInv
  <2>3. /\ temp_am \in Manifest /\ Full(temp_am) /\ temp_am.base = manifest_file.base
        /\ temp_am.hist = {} /\ temp_am.incr_seq = manifest_file.incr_seq + 1
        /\ Len(temp_am.incr) = L + 1 /\ Len(ls) = L + 1 /\ Len(ms) = L + 2
        /\ \A i \in 1..(L + 1) : ms[i] = ls[i]
        /\ ms[L + 2] = f /\ LastIncr(temp_am) = f
    <3>1. PICK am, N : am = aof_manifest /\ N = temp_am
      BY Zenon
    <3>2. am \in Manifest /\ Full(am) /\ L = Len(am.incr) /\ N = getNewIncrAofName(am)
      BY <2>2, <3>1, Zenon
    <3>3. /\ N \in Manifest /\ Full(N)
          /\ N.base = am.base /\ N.hist = am.hist /\ N.incr_seq = am.incr_seq + 1
          /\ Len(N.incr) = L + 1
          /\ Len(LiveFiles(am)) = L + 1 /\ Len(LiveFiles(N)) = L + 2
          /\ \A i \in 1..(L + 1) : LiveFiles(N)[i] = LiveFiles(am)[i]
          /\ LiveFiles(N)[L + 2] = Incr(am.incr_seq + 1)
          /\ LastIncr(N) = Incr(am.incr_seq + 1)
      BY <3>2, NewIncrFacts
    <3> QED
      BY <2>2, <3>1, <3>3, Zenon
  <2>4. /\ Chain(ls, files) /\ f \in DOMAIN files /\ files[f] = Interval(n, n)
        /\ \A i \in 1..(L + 1) : files[ls[i]].state = "whole"
        /\ n = logged /\ n \in Nat /\ logged = Top(ls, files)
    BY <1>1, <2>3, Zenon DEF DiskInv, UpInv, RunInv
  <2>5. files[f] \in Content /\ IsEmpty(files[f]) /\ files[f].state = "whole"
    BY <2>4, IntervalType DEF IsEmpty
  <2> HIDE DEF ls, ms, f
  <2>6. Chain(ms, files) /\ Top(ms, files) = n /\ LoadedTo(ms, files)[L + 1] = n
    <3>1. PICK K \in Nat : K = L + 1 /\ K = Len(ls) /\ Len(ms) = K + 1 /\ K + 1 = L + 2
      BY <2>3
    <3> QED
      <4>1. PICK fs : fs = files
        BY Zenon
      <4>2. /\ Chain(ls, fs) /\ \A i \in 1..K : ms[i] = ls[i] /\ fs[ls[i]].state = "whole"
            /\ ms[K + 1] \in DOMAIN fs /\ fs[ms[K + 1]] \in Content /\ IsEmpty(fs[ms[K + 1]])
        BY <2>3, <2>4, <2>5, <3>1, <4>1, Zenon
      <4>3. Chain(ms, fs) /\ Top(ms, fs) = Top(ls, fs) /\ LoadedTo(ms, fs)[K] = Top(ls, fs)
        BY <3>1, <4>2, ChainExtend, SMTT(30)
      <4> QED
        BY <2>4, <3>1, <4>1, <4>3, Zenon
  <2>7. \A i \in 1..Len(ms) : files[ms[i]].state = "whole"
    <3> TAKE i \in 1..Len(ms)
    <3>1. i \in 1..(L + 1) \/ i = L + 2
      BY <2>3
    <3> QED
      BY <2>3, <2>4, <2>5, <3>1, Zenon
  <2>8. /\ manifest_file' = temp_am /\ aof_manifest' = temp_am /\ aof_fd' = LastIncr(temp_am)
        /\ pc' = "rw_fork" /\ UNCHANGED <<aof_state, starting>>
        /\ LiveFiles(manifest_file') = ms
    BY <1>4, Zenon DEF Persisted, ms
  <2>9. DOMAIN files \subseteq Listed(temp_am) \cup Spare(temp_am) \cup {}
    <3> SUFFICES ASSUME NEW g \in DOMAIN files PROVE g \in Listed(temp_am) \cup Spare(temp_am)
      BY Zenon
    <3>1. g \in Listed(manifest_file) \cup Spare(manifest_file)
      BY <1>1, <2>2, Zenon DEF DiskInv
    <3>2. CASE g \in Listed(manifest_file)
      <4>1. PICK i \in 1..(L + 1) : g = ls[i]
        BY <2>3, <3>2, Zenon DEF Listed, ls
      <4>2. i \in 1..Len(ms) /\ g = ms[i]
        BY <2>3, <4>1
      <4> QED
        BY <4>2, Zenon DEF Listed, ms
    <3>3. CASE g = Base(manifest_file.base + 1)
      BY <2>3, <3>3, Zenon DEF Spare
    <3>4. CASE g = Incr(manifest_file.incr_seq + 1)
      <4>1. L + 2 \in 1..Len(ms) /\ g = ms[L + 2]
        BY <2>3, <3>4 DEF f
      <4> QED
        BY <4>1, Zenon DEF Listed, ms
    <3> QED
      BY <3>1, <3>2, <3>3, <3>4, Zenon DEF Spare
  <2>10. DiskInv'
    <3>1. ~Fresh(temp_am)
      BY <2>3, SMTT(30) DEF Full, Fresh, Manifest
    <3> QED
      BY <1>1, <1>2, <2>3, <2>4, <2>6, <2>8, <2>9, <3>1, SMTT(90) DEF DiskInv
  <2>11. UpInv'
    BY <1>1, <1>2, <2>3, <2>4, <2>6, <2>7, <2>8, Zenon DEF UpInv
  <2>12. RunInv'
    <3>1. temp_am = [temp_am EXCEPT !.hist = temp_am.hist]
      BY <2>3, Zenon DEF Manifest
    <3> QED
      BY <1>1, <1>2, <2>3, <2>4, <2>5, <2>8, <3>1, Zenon DEF RunInv
  <2> QED
    BY <2>8, <2>10, <2>11, <2>12, Zenon DEF RewriteInv, RunPcs, StartPcs
<1> QED
  BY <1>3, <1>4, Zenon DEF PersistNewIncr

\* The child sees the dataset the log before the new INCR file holds.
LEMMA RewriteForkStep == ASSUME RewriteInv, RewriteFork PROVE RewriteInv'
<1>1. /\ pc = "rw_fork" /\ pc \in RunPcs /\ pc' = "loop" /\ DiskInv /\ UpInv /\ RunInv
      /\ UNCHANGED <<n, aof_fd, aof_buf, amVars, diskVars, logged>>
      /\ aof_state' = aof_state /\ starting' = 0
  BY DEF RewriteFork, RewriteError, RewriteInv, UpInv, RunPcs
<1>2. BeforeLast' = BeforeLast /\ BeforeLast = n /\ n \in Nat
  BY <1>1, RunFacts, Zenon DEF RunInv, BeforeLast, diskVars
<1>3. \/ child_type' = "aof" /\ snapshot' = n
      \/ child_type' = child_type /\ snapshot' = snapshot /\ child_type # "aof"
  BY <1>1, Zenon DEF RewriteFork, RunInv
<1>4. DiskInv'
  BY <1>1, Zenon DEF DiskInv, diskVars, amVars
<1>5. UpInv'
  BY <1>1, <1>2, <1>3, Zenon DEF UpInv, diskVars, amVars
<1>6. RunInv'
  BY <1>1, <1>2, <1>3, Zenon DEF RunInv, diskVars, amVars
<1> QED
  BY <1>1, <1>4, <1>5, <1>6, Zenon DEF RewriteInv, RunPcs, StartPcs

\* The snapshot gets the next BASE name, which no manifest lists yet.
LEMMA RenameBaseStep == ASSUME RewriteInv, RenameBase PROVE RewriteInv'
<1>1. /\ pc = "loop" /\ pc \in RunPcs /\ child_type = "aof" /\ DiskInv /\ UpInv /\ RunInv
      /\ temp_am' = getNewBaseFileNameAndMarkPreAsHistory(aof_manifest)
      /\ UNCHANGED <<n, aof_state, aof_fd, aof_manifest, snapshot, starting, manifest_file, logged>>
  BY Zenon DEF RenameBase, RewriteInv, RunPcs
<1>2. CASE Fault("rename") /\ Cleanup(files)
  <2>1. UNCHANGED <<files, aof_buf>> /\ pc' = "loop" /\ child_type' = "none"
    BY <1>1, <1>2, Zenon DEF Cleanup, UpInv
  <2>2. DiskInv'
    BY <1>1, <2>1, Zenon DEF DiskInv
  <2>3. UpInv'
    BY <1>1, <2>1, Zenon DEF UpInv
  <2>4. RunInv'
    BY <1>1, <2>1, Zenon DEF RunInv, BeforeLast
  <2> QED
    BY <2>1, <2>2, <2>3, <2>4, Zenon DEF RewriteInv, RunPcs, StartPcs
<1>3. CASE ~(Fault("rename") /\ Cleanup(files))
  <2>1. /\ files' = With(files, Base(temp_am'.base), Interval(0, snapshot))
        /\ pc' = "done_persist" /\ UNCHANGED <<child_type, aof_buf>>
    BY <1>1, <1>3, Zenon DEF RenameBase, UpInv
  <2>2. temp_am'.base = manifest_file.base + 1
    BY <1>1, MemoryManifest, Zenon DEF getNewBaseFileNameAndMarkPreAsHistory, Manifest
  <2>3. PICK f : f = Base(manifest_file.base + 1) /\ f \in Spare(manifest_file)
    BY Zenon DEF Spare
  <2>4. PICK c \in Content : c = Interval(0, snapshot)
    <3>1. 0 \in Nat /\ snapshot \in Nat /\ 0 <= snapshot
      BY <1>1 DEF UpInv
    <3>2. Interval(0, snapshot) \in Content
      BY <3>1, IntervalType, Zenon
    <3> QED
      BY <3>2, Zenon
  <2>5. files' = With(files, f, c) /\ f \in Spare(manifest_file) \cup manifest_file.hist
    BY <2>1, <2>2, <2>3, <2>4, Zenon
  <2>6. /\ Chain(LiveFiles(manifest_file), files')
        /\ Top(LiveFiles(manifest_file), files') = Top(LiveFiles(manifest_file), files)
        /\ BeforeLast' = BeforeLast
        /\ \A i \in 1..Len(LiveFiles(manifest_file)) :
             files'[LiveFiles(manifest_file)[i]] = files[LiveFiles(manifest_file)[i]]
        /\ \A g \in DOMAIN files' : files'[g] \in Content
        /\ DOMAIN files' \subseteq DOMAIN files \cup {f}
    BY <1>1, <2>5, OtherFileStep, Zenon
  <2>7. f \in DOMAIN files' /\ files'[f] = Interval(0, snapshot)
    <3>1. DOMAIN With(files, f, c) = DOMAIN files \cup {f} /\ With(files, f, c)[f] = c
      BY Zenon DEF With
    <3> QED
      BY <2>4, <2>5, <3>1, Zenon
  <2>8. DiskInv'
    <3>1. ~Fresh(manifest_file)
      BY <1>1 DEF RunInv, Full, DiskInv, Manifest, Fresh
    <3> QED
      BY <1>1, <2>1, <2>3, <2>6, <3>1, Zenon DEF DiskInv
  <2>9. UpInv'
    BY <1>1, <2>1, <2>6, Zenon DEF UpInv
  <2>10. RunInv'
    BY <1>1, <2>1, <2>3, <2>6, <2>7, Zenon DEF RunInv
  <2> QED
    BY <2>1, <2>8, <2>9, <2>10, Zenon DEF RewriteInv, RunPcs, StartPcs
<1> QED
  BY <1>2, <1>3, Zenon

\* The manifest of a finished rewrite: the new BASE file and the INCR file
\* being written; all other files of the log become history.
LEMMA RewrittenFacts ==
  ASSUME NEW am \in Manifest, Full(am), am.hist = {}, aof_fd # NoFile,
         NEW L \in Nat, L = Len(am.incr),
         NEW N, N = markRewrittenIncrAofAsHistory(getNewBaseFileNameAndMarkPreAsHistory(am))
  PROVE  /\ N \in Manifest /\ Full(N) /\ N.base = am.base + 1 /\ N.incr_seq = am.incr_seq
         /\ Len(N.incr) = 1 /\ Len(LiveFiles(N)) = 2
         /\ LiveFiles(N)[1] = Base(am.base + 1) /\ LiveFiles(N)[2] = Incr(am.incr_seq)
         /\ LastIncr(N) = Incr(am.incr_seq)
         /\ \A i \in 1..L : LiveFiles(am)[i] \in N.hist
<1>1. PICK s \in Nat, b \in Nat : s = am.incr_seq /\ b = am.base /\ b >= 1 /\ L >= 1 /\ L <= s
  BY Zenon DEF Manifest, Full
<1>2. PICK p \in Nat : p = Past(am) /\ p = s - L
  BY <1>1 DEF Past
<1>3. am.incr \in Seq(Nat) /\ \A i \in 1..L : am.incr[i] = p + i
  BY <1>2, Zenon DEF Manifest, Full
<1>4. PICK h : h = {Base(b)} \cup {Incr(am.incr[i]) : i \in 1..(L - 1)}
  BY Zenon
<1>5. PICK q : q = SubSeq(am.incr, (L - 1) + 1, L)
  BY Zenon
<1>6. N = [base |-> b + 1, incr |-> q, hist |-> h, incr_seq |-> s]
  <2>1. PICK t : t = getNewBaseFileNameAndMarkPreAsHistory(am)
    BY Zenon
  <2>2. t = [am EXCEPT !.base = b + 1, !.hist = {Base(b)}]
    <3>1. ~(am.base = 0) /\ am.base + 1 = b + 1 /\ am.hist \cup {Base(am.base)} = {Base(b)}
      BY <1>1
    <3> QED
      BY <2>1, <3>1, Zenon DEF getNewBaseFileNameAndMarkPreAsHistory
  <2>3. t = [base |-> b + 1, incr |-> am.incr, hist |-> {Base(b)}, incr_seq |-> s]
    BY <1>1, <2>2, Zenon DEF Manifest
  <2>4. t.incr = am.incr /\ t.incr # <<>> /\ t.hist = {Base(b)}
    BY <1>1, <1>3, <2>3
  <2>5. N = [t EXCEPT !.incr = q, !.hist = h]
    BY <1>4, <1>5, <2>1, <2>4 DEF markRewrittenIncrAofAsHistory
  <2> QED
    BY <2>3, <2>5, Zenon
<1>7. Len(q) = 1 /\ q[1] = s /\ q \in Seq(Nat)
  <2>1. L \in 1..L /\ (L - 1) + 1 = L /\ p + L = s
    BY <1>1, <1>2
  <2>2. am.incr[L] = s
    BY <1>3, <2>1, Zenon
  <2>3. q = SubSeq(am.incr, L, L)
    BY <1>5, <2>1, Zenon
  <2> QED
    BY <1>1, <1>3, <2>2, <2>3
<1>7a. Len(q) = 1 /\ q[1] = s
  BY <1>7, Zenon
<1>8. \A f \in h : \/ \E k \in Nat : k < b + 1 /\ f = Base(k)
                   \/ \E k \in Nat : k <= s - 1 /\ f = Incr(k)
  <2> TAKE f \in h
  <2>1. CASE f = Base(b)
    BY <1>1, <2>1
  <2>2. ASSUME NEW i \in 1..(L - 1), f = Incr(am.incr[i])
        PROVE  \E k \in Nat : k <= s - 1 /\ f = Incr(k)
    <3>1. i \in 1..L /\ p + i \in Nat /\ p + i <= s - 1
      BY <1>1, <1>2
    <3> QED
      BY <1>3, <2>2, <3>1, Zenon
  <2> QED
    BY <1>4, <2>1, <2>2, Zenon
<1>9. h \in SUBSET AofNames
  BY <1>8, Zenon DEF AofNames
<1>10. N \in Manifest
  BY <1>1, <1>6, <1>7, <1>9 DEF Manifest
<1>11. /\ N.base = b + 1 /\ N.incr = q /\ N.hist = h /\ N.incr_seq = s
       /\ Past(N) = s - 1
  <2>1. N.base = b + 1 /\ N.incr = q /\ N.hist = h /\ N.incr_seq = s
    BY <1>6
  <2> QED
    BY <1>7a, <2>1, Zenon DEF Past
<1>12. Full(N)
  <2>1. \A i \in 1..Len(N.incr) : N.incr[i] = Past(N) + i
    <3>1. Past(N) + 1 = s
      BY <1>1, <1>11
    <3>2. \A i \in 1..Len(N.incr) : i = 1
      BY <1>11, <1>7a
    <3> QED
      BY <1>11, <1>7a, <3>1, <3>2, Zenon
  <2>2. N.base >= 1 /\ Len(N.incr) >= 1 /\ Len(N.incr) <= N.incr_seq
    BY <1>1, <1>11, <1>7a
  <2> QED
    BY <1>8, <1>11, <2>1, <2>2, Zenon DEF Full
<1>13. Len(LiveFiles(N)) = 2 /\ LiveFiles(N)[1] = Base(b + 1) /\ LiveFiles(N)[2] = Incr(s)
  <2>1. /\ Len(LiveFiles(N)) = Len(N.incr) + 1 /\ LiveFiles(N)[1] = Base(N.base)
        /\ \A i \in 1..Len(N.incr) : LiveFiles(N)[i + 1] = Incr(Past(N) + i)
    BY <1>10, <1>12, LiveFull, Zenon
  <2>2. 1 \in 1..Len(N.incr) /\ 1 + 1 = 2 /\ Past(N) + 1 = s /\ Len(N.incr) = 1
    BY <1>1, <1>11, <1>7a
  <2>3. LiveFiles(N)[1 + 1] = Incr(Past(N) + 1)
    BY <2>1, <2>2, Zenon
  <2> QED
    BY <1>11, <2>1, <2>2, <2>3, Zenon
<1>14. LastIncr(N) = Incr(s)
  BY <1>11, <1>7a, Zenon DEF LastIncr
<1>15. ASSUME NEW i \in 1..L PROVE LiveFiles(am)[i] \in N.hist
  <2>1. /\ LiveFiles(am)[1] = Base(b)
        /\ \A k \in 1..L : LiveFiles(am)[k + 1] = Incr(p + k)
    BY <1>1, <1>2, LiveFull, Zenon
  <2>2. CASE i = 1
    BY <1>4, <1>11, <2>1, <2>2, Zenon
  <2>3. CASE i # 1
    <3>1. PICK k \in 1..(L - 1) : i = k + 1
      <4>1. i - 1 \in 1..(L - 1) /\ i = (i - 1) + 1
        BY <2>3
      <4> QED
        BY <4>1, Zenon
    <3>2. k \in 1..L
      OBVIOUS
    <3>3. LiveFiles(am)[i] = Incr(am.incr[k])
      BY <1>3, <2>1, <3>1, <3>2, Zenon
    <3> QED
      BY <1>4, <1>11, <3>1, <3>3, Zenon
  <2> QED
    BY <2>2, <2>3, Zenon
<1> QED
  BY <1>1, <1>10, <1>11, <1>12, <1>13, <1>14, <1>15, <1>7a, Zenon

\* The manifest with the snapshot is on disk, or the snapshot is removed.
LEMMA PersistRewriteStep == ASSUME RewriteInv, AlwaysOn, PersistRewrite PROVE RewriteInv'
<1> DEFINE N == markRewrittenIncrAofAsHistory(temp_am)
<1>1. /\ pc = "done_persist" /\ pc \in RunPcs /\ DiskInv /\ UpInv /\ RunInv
      /\ aof_state = "on"
      /\ UNCHANGED <<n, aof_fd, snapshot, starting>>
  BY Zenon DEF PersistRewrite, RewriteInv, UpInv, RunPcs
<1>2. PICK L \in Nat : L = Len(manifest_file.incr)
  BY <1>1 DEF DiskInv, Manifest
<1>3. /\ aof_manifest \in Manifest /\ Full(aof_manifest) /\ aof_manifest.hist = {}
      /\ aof_manifest.base = manifest_file.base /\ L = Len(aof_manifest.incr)
      /\ aof_manifest.incr_seq = manifest_file.incr_seq
      /\ LiveFiles(aof_manifest) = LiveFiles(manifest_file)
      /\ temp_am = getNewBaseFileNameAndMarkPreAsHistory(aof_manifest)
      /\ aof_fd = LastIncr(manifest_file) /\ aof_fd # NoFile
      /\ LastIncr(manifest_file) = Incr(manifest_file.incr_seq)
  <2>1. aof_fd # NoFile
    BY <1>1, RunFacts, Zenon
  <2>2. manifest_file \in Manifest /\ Full(manifest_file)
    BY <1>1, Zenon DEF DiskInv, RunInv
  <2>3. LastIncr(manifest_file) = Incr(manifest_file.incr_seq)
    BY <2>2, LiveNames, Zenon
  <2> QED
    BY <1>1, <1>2, <2>1, <2>3, MemoryManifest, Zenon DEF RunInv
<1>4. /\ N \in Manifest /\ Full(N) /\ N.base = manifest_file.base + 1
      /\ N.incr_seq = manifest_file.incr_seq /\ Len(N.incr) = 1 /\ Len(LiveFiles(N)) = 2
      /\ LiveFiles(N)[1] = Base(manifest_file.base + 1)
      /\ LiveFiles(N)[2] = Incr(manifest_file.incr_seq)
      /\ LastIncr(N) = Incr(manifest_file.incr_seq)
      /\ \A i \in 1..L : LiveFiles(manifest_file)[i] \in N.hist
  <2>1. PICK am, M : am = aof_manifest /\ M = N
    BY Zenon
  <2>2. /\ am \in Manifest /\ Full(am) /\ am.hist = {} /\ L = Len(am.incr)
        /\ M = markRewrittenIncrAofAsHistory(getNewBaseFileNameAndMarkPreAsHistory(am))
    BY <1>3, <2>1, Zenon
  <2>3. /\ M \in Manifest /\ Full(M) /\ M.base = am.base + 1 /\ M.incr_seq = am.incr_seq
        /\ Len(M.incr) = 1 /\ Len(LiveFiles(M)) = 2
        /\ LiveFiles(M)[1] = Base(am.base + 1) /\ LiveFiles(M)[2] = Incr(am.incr_seq)
        /\ LastIncr(M) = Incr(am.incr_seq)
        /\ \A i \in 1..L : LiveFiles(am)[i] \in M.hist
    BY <1>3, <2>2, RewrittenFacts, SMTT(30)
  <2> HIDE DEF N
  <2> QED
    BY <1>3, <2>1, <2>3, Zenon
<1> HIDE DEF N
<1>5. CASE PersistFails(N) /\ Cleanup(Without(files, {Base(N.base)}))
           /\ UNCHANGED <<aof_manifest, aof_state, logged>>
  <2>1. PICK f : f = Base(manifest_file.base + 1) /\ f \in Spare(manifest_file)
    BY Zenon DEF Spare
  <2>2. /\ UNCHANGED <<manifest_file, aof_manifest, aof_state, logged, aof_buf>>
        /\ files' = Without(files, {f})
        /\ pc' = "loop" /\ child_type' = "none"
    BY <1>1, <1>4, <1>5, <2>1, Zenon DEF PersistFails, Fault, AlwaysOn, Cleanup
  <2>3. f \in Spare(manifest_file) \cup manifest_file.hist
    BY <2>1, Zenon
  <2>4. /\ Chain(LiveFiles(manifest_file), files')
        /\ Top(LiveFiles(manifest_file), files') = Top(LiveFiles(manifest_file), files)
        /\ \A i \in 1..Len(LiveFiles(manifest_file)) :
             files'[LiveFiles(manifest_file)[i]] = files[LiveFiles(manifest_file)[i]]
        /\ \A g \in DOMAIN files' : files'[g] \in Content
        /\ DOMAIN files' \subseteq DOMAIN files \cup {f}
    BY <1>1, <2>2, <2>3, OtherFileStep, Zenon
  <2>5. DiskInv'
    <3>1. ~Fresh(manifest_file)
      BY <1>1 DEF RunInv, Full, DiskInv, Manifest, Fresh
    <3> QED
      BY <1>1, <2>1, <2>2, <2>4, <3>1, Zenon DEF DiskInv
  <2>6. UpInv'
    BY <1>1, <2>2, <2>4, Zenon DEF UpInv
  <2>7. RunInv'
    BY <1>1, <2>2, Zenon DEF RunInv
  <2> QED
    BY <2>2, <2>5, <2>6, <2>7, Zenon DEF RewriteInv, RunPcs, StartPcs
<1>6. CASE /\ manifest_file' = N /\ aof_manifest' = N /\ pc' = "gc" /\ child_type' = "none"
           /\ UNCHANGED <<aof_state, logged, files, aof_buf>>
  <2> DEFINE ls == LiveFiles(manifest_file)
             ms == LiveFiles(N)
  <2>1. /\ Chain(ls, files) /\ logged = Top(ls, files) /\ Top(ls, files) <= n
        /\ logged \in Nat /\ n \in Nat
        /\ ms[1] \in DOMAIN files /\ files[ms[1]] = Interval(0, snapshot)
        /\ BeforeLast = snapshot /\ BeforeLast = LoadedTo(ls, files)[L]
        /\ \A i \in 1..Len(ls) : files[ls[i]].state = "whole"
    BY <1>1, <1>2, <1>4, Zenon DEF DiskInv, UpInv, RunInv, BeforeLast
  <2>2. L >= 1 /\ Len(ls) = L + 1 /\ ls[L + 1] = LastIncr(manifest_file)
    BY <1>1, <1>2, RunFacts, Zenon
  <2>3. ms[2] = ls[L + 1] /\ Len(ms) = 2
    BY <1>3, <1>4, <2>2, Zenon
  <2>4. manifest_file'.base = manifest_file.base + 1 /\ LiveFiles(manifest_file') = ms
    BY <1>4, <1>6, Zenon
  <2> HIDE DEF ls, ms
  <2>5. Chain(ms, files) /\ Top(ms, files) = Top(ls, files)
    <3>1. PICK K, fs : K \in Nat /\ K = L + 1 /\ K - 1 = L /\ fs = files
      OBVIOUS
    <3>2. /\ K = Len(ls) /\ K >= 2 /\ Len(ms) = 2 /\ Chain(ls, fs) /\ ms[2] = ls[K]
          /\ ms[1] \in DOMAIN fs /\ fs[ms[1]] = Interval(0, LoadedTo(ls, fs)[K - 1])
      BY <2>1, <2>2, <2>3, <3>1
    <3>3. Chain(ms, fs) /\ Top(ms, fs) = Top(ls, fs)
      BY <3>1, <3>2, ChainRewritten, SMTT(30)
    <3> QED
      BY <3>1, <3>3, Zenon
  <2>6. \A i \in 1..Len(ms) : files[ms[i]].state = "whole"
    <3>1. files[ms[1]].state = "whole"
      BY <2>1 DEF Interval
    <3>2. files[ms[2]].state = "whole"
      <4>1. L + 1 \in 1..Len(ls)
        BY <2>2
      <4> QED
        BY <2>1, <2>3, <4>1, Zenon
    <3>3. \A i \in 1..Len(ms) : i = 1 \/ i = 2
      BY <2>3
    <3> QED
      BY <3>1, <3>2, <3>3, Zenon
  <2>7. DOMAIN files \subseteq Listed(N) \cup Spare(N) \cup N.hist
    <3> SUFFICES ASSUME NEW g \in DOMAIN files PROVE g \in Listed(N) \cup Spare(N) \cup N.hist
      BY Zenon
    <3>1. g \in Listed(manifest_file) \cup Spare(manifest_file)
      BY <1>1, <1>3, Zenon DEF DiskInv
    <3>2. 1 \in 1..Len(ms) /\ 2 \in 1..Len(ms)
      BY <2>3
    <3>3. CASE g \in Listed(manifest_file)
      <4>1. PICK i \in 1..(L + 1) : g = ls[i]
        BY <2>2, <3>3, Zenon DEF Listed, ls
      <4>2. CASE i \in 1..L
        BY <1>4, <4>1, <4>2, Zenon DEF ls
      <4>3. CASE i = L + 1
        BY <2>3, <3>2, <4>1, <4>3, Zenon DEF Listed, ms
      <4> QED
        BY <4>2, <4>3
    <3>4. CASE g = Base(manifest_file.base + 1)
      <4>1. g = ms[1]
        BY <1>4, <3>4, Zenon DEF ms
      <4> QED
        BY <3>2, <4>1, Zenon DEF Listed, ms
    <3>5. CASE g = Incr(manifest_file.incr_seq + 1)
      BY <1>4, <3>5, Zenon DEF Spare
    <3> QED
      BY <3>1, <3>3, <3>4, <3>5, Zenon DEF Spare
  <2>8. DiskInv'
    <3>1. ~Fresh(N)
      BY <1>4, SMTT(30) DEF Full, Fresh, Manifest
    <3> QED
      <4>1. /\ \A f \in DOMAIN files : files[f] \in Content
            /\ logged <= Top(ms, files) /\ Top(ms, files) <= n
        BY <1>1, <2>1, <2>5, SMTT(30) DEF DiskInv
      <4>2. n' = n /\ logged' = logged /\ files' = files /\ manifest_file' = N /\ aof_manifest' = N
        BY <1>1, <1>6, Zenon
      <4> QED
        BY <1>4, <1>6, <2>1, <2>4, <2>5, <2>7, <3>1, <4>1, <4>2, Zenon DEF DiskInv
  <2>9. UpInv'
    BY <1>1, <1>4, <1>6, <2>1, <2>4, <2>5, <2>6, Zenon DEF UpInv
  <2>10. RunInv'
    <3>1. N = [N EXCEPT !.hist = N.hist]
      BY <1>4, Zenon DEF Manifest
    <3>2. aof_fd' = LastIncr(N)
      BY <1>1, <1>3, <1>4, Zenon
    <3> QED
      BY <1>4, <1>6, <3>1, <3>2, Zenon DEF RunInv
  <2> QED
    BY <1>6, <2>8, <2>9, <2>10, Zenon DEF RewriteInv, RunPcs, StartPcs
<1> QED
  <2>1. {Base(N.base)} \cup {} = {Base(N.base)}
    BY Zenon
  <2> QED
    BY <1>1, <1>5, <1>6, <2>1, Zenon DEF PersistRewrite, Persisted, N

\* History files are removed one by one; none of them is part of the log.
LEMMA GcUnlinkStep == ASSUME RewriteInv, GcUnlink PROVE RewriteInv'
<1>1. /\ pc = "gc" /\ pc \in RunPcs /\ DiskInv /\ UpInv /\ RunInv
      /\ UNCHANGED <<n, aof_state, aof_fd, aof_buf, childVars, manifest_file, logged>>
  BY Zenon DEF GcUnlink, RewriteInv, RunPcs, memVars
<1>2. CASE aof_manifest.hist = {} /\ pc' = "loop" /\ UNCHANGED <<aof_manifest, files>>
  <2>1. BeforeLast' = BeforeLast
    BY <1>1, <1>2, Zenon DEF BeforeLast
  <2>2. DiskInv'
    BY <1>1, <1>2, Zenon DEF DiskInv
  <2>3. UpInv'
    BY <1>1, <1>2, Zenon DEF UpInv, childVars
  <2>4. RunInv'
    BY <1>1, <1>2, <2>1, Zenon DEF RunInv, childVars
  <2> QED
    BY <1>2, <2>2, <2>3, <2>4, Zenon DEF RewriteInv, RunPcs, StartPcs
<1>3. ASSUME NEW f \in aof_manifest.hist,
             /\ files' = Without(files, {f})
             /\ aof_manifest' = [aof_manifest EXCEPT !.hist = @ \ {f}]
             /\ pc' = IF aof_manifest.hist = {f} THEN "gc_persist" ELSE "gc"
      PROVE  RewriteInv'
  <2>1. f \in Spare(manifest_file) \cup manifest_file.hist
    BY <1>1, Zenon DEF RunInv
  <2>2. /\ Chain(LiveFiles(manifest_file), files')
        /\ Top(LiveFiles(manifest_file), files') = Top(LiveFiles(manifest_file), files)
        /\ \A i \in 1..Len(LiveFiles(manifest_file)) :
             files'[LiveFiles(manifest_file)[i]] = files[LiveFiles(manifest_file)[i]]
        /\ \A g \in DOMAIN files' : files'[g] \in Content
    BY <1>1, <1>3, <2>1, OtherFileStep, Zenon
  <2>3. DOMAIN files' = DOMAIN files \ {f}
    BY <1>3, Zenon DEF Without
  <2>4. PICK h : h = aof_manifest.hist \ {f}
    BY Zenon
  <2>5. /\ aof_manifest' = [aof_manifest EXCEPT !.hist = h]
        /\ h \subseteq manifest_file.hist /\ h \subseteq aof_manifest.hist
    BY <1>1, <1>3, <2>4, Zenon DEF RunInv
  <2>6. /\ aof_manifest' = [manifest_file EXCEPT !.hist = h] /\ aof_manifest'.hist = h
        /\ aof_manifest' \in Manifest
    <3>1. /\ manifest_file \in Manifest /\ aof_manifest = [manifest_file EXCEPT !.hist = aof_manifest.hist]
      BY <1>1, Zenon DEF DiskInv, RunInv
    <3>2. h \in SUBSET AofNames
      BY <2>5, <3>1, Zenon DEF Manifest
    <3>3. aof_manifest' = [manifest_file EXCEPT !.hist = h]
      BY <2>5, <3>1, Zenon DEF Manifest
    <3> QED
      BY <3>1, <3>2, <3>3, Zenon DEF Manifest
  <2>7. DiskInv'
    <3>1. ~Fresh(manifest_file)
      BY <1>1, Zenon DEF RunInv, Full, DiskInv, Manifest, Fresh
    <3>2. pc' # "down"
      BY <1>3, Zenon
    <3>3. DOMAIN files' \subseteq Listed(manifest_file) \cup Spare(manifest_file) \cup h
      BY <1>1, <2>3, <2>4, Zenon DEF DiskInv
    <3> QED
      BY <1>1, <2>2, <2>6, <3>1, <3>2, <3>3, Zenon DEF DiskInv
  <2>8. UpInv'
    BY <1>1, <2>2, <2>6, Zenon DEF UpInv, childVars
  <2>9. RunInv'
    <3>1. pc' # "gc" => h = {}
      BY <1>3, <2>4, Zenon
    <3>2. pc' \in {"gc", "gc_persist"}
      BY <1>3, Zenon
    <3>3. child_type' # "aof"
      BY <1>1, Zenon DEF RunInv, childVars
    <3> QED
      BY <1>1, <2>5, <2>6, <3>1, <3>2, <3>3, Zenon DEF RunInv
  <2> QED
    BY <1>3, <2>7, <2>8, <2>9, Zenon DEF RewriteInv, RunPcs, StartPcs
<1> QED
  BY <1>2, <1>3, Zenon DEF GcUnlink

\* The manifest without its history is on disk, or the history stays there
\* with names of files that are gone.
LEMMA GcPersistStep == ASSUME RewriteInv, AlwaysOn, GcPersist PROVE RewriteInv'
<1>1. /\ pc = "gc_persist" /\ pc \in RunPcs /\ pc' = "loop" /\ DiskInv /\ UpInv /\ RunInv
      /\ UNCHANGED <<n, aof_state, aof_fd, aof_buf, aof_manifest, childVars, files, logged>>
      /\ manifest_file' = manifest_file \/ manifest_file' = aof_manifest
  BY Zenon DEF GcPersist, Persisted, PersistFails, Fault, AlwaysOn, RewriteInv, RunPcs, memVars, amVars
<1>2. /\ aof_manifest \in Manifest /\ Full(aof_manifest) /\ aof_manifest.hist = {}
      /\ aof_manifest.base = manifest_file.base /\ aof_manifest.incr = manifest_file.incr
      /\ aof_manifest.incr_seq = manifest_file.incr_seq
      /\ LiveFiles(aof_manifest) = LiveFiles(manifest_file)
  BY <1>1, MemoryManifest, Zenon DEF RunInv
<1>3. /\ manifest_file' \in Manifest /\ Full(manifest_file') /\ ~Fresh(manifest_file')
      /\ LiveFiles(manifest_file') = LiveFiles(manifest_file)
      /\ manifest_file'.base = manifest_file.base /\ manifest_file'.incr = manifest_file.incr
      /\ manifest_file'.incr_seq = manifest_file.incr_seq
  BY <1>1, <1>2 DEF DiskInv, RunInv, Full, Fresh, Manifest
<1>4. /\ Listed(manifest_file') = Listed(manifest_file)
      /\ Spare(manifest_file') = Spare(manifest_file)
      /\ LastIncr(manifest_file') = LastIncr(manifest_file) /\ BeforeLast' = BeforeLast
  BY <1>1, <1>3, Zenon DEF Listed, Spare, LastIncr, BeforeLast
<1>5. DiskInv'
  BY <1>1, <1>3, <1>4, Zenon DEF DiskInv
<1>6. UpInv'
  BY <1>1, <1>3, Zenon DEF UpInv, childVars
<1>7. RunInv'
  <2>1. aof_manifest' = [manifest_file' EXCEPT !.hist = aof_manifest'.hist]
    <3>1. CASE manifest_file' = manifest_file
      BY <1>1, <3>1, Zenon DEF RunInv
    <3>2. CASE manifest_file' = aof_manifest
      BY <1>1, <1>2, <3>2, Zenon DEF Manifest
    <3> QED
      BY <1>1, <3>1, <3>2, Zenon
  <2>2. child_type' # "aof"
    BY <1>1, Zenon DEF RunInv, childVars
  <2> QED
    BY <1>1, <1>2, <1>3, <1>4, <2>1, <2>2, Zenon DEF RunInv
<1> QED
  BY <1>1, <1>5, <1>6, <1>7, Zenon DEF RewriteInv, RunPcs, StartPcs

\* The process dies, and the end of the log may be torn.
LEMMA CrashStep == ASSUME RewriteInv, Crash PROVE RewriteInv'
<1>1. /\ pc # "down" /\ pc' = "down" /\ DiskInv /\ UpInv
      /\ UNCHANGED <<n, aof_manifest, manifest_file, logged>>
  BY Zenon DEF Crash, RewriteInv, amVars
<1>2. aof_manifest.hist \subseteq manifest_file.hist
  <2>1. CASE pc \in RunPcs
    BY <2>1, Zenon DEF RewriteInv, RunInv
  <2>2. CASE pc \in StartPcs
    BY <1>1, <2>2, SMTT(90) DEF RewriteInv, StartInv, DiskInv, Fresh, StartPcs
  <2> QED
    BY <1>1, <2>1, <2>2, Zenon DEF RewriteInv
<1>3. SUFFICES DiskInv'
  BY <1>1, Zenon DEF RewriteInv, StartPcs, RunPcs
<1>4. CASE UNCHANGED files
  BY <1>1, <1>2, <1>4, Zenon DEF DiskInv
<1>5. ASSUME pc \in {"loop", "rw_flush"}, NEW k \in aof_buf.from..(aof_buf.to - 1),
             files' = [files EXCEPT ![aof_fd] =
                         [Appended(@, Interval(aof_buf.from, k)) EXCEPT !.state = "torn"]]
      PROVE  DiskInv'
  <2> DEFINE g == LastIncr(manifest_file)
  <2>1. /\ pc \in RunPcs /\ aof_fd = g /\ g \in DOMAIN files /\ files[g] \in Content
        /\ files[g].state = "whole" /\ aof_buf = Interval(logged, n)
        /\ logged \in Nat /\ n \in Nat /\ logged <= n /\ BeforeLast \in Nat
        /\ IsEmpty(files[g]) \/ files[g].from = BeforeLast
        /\ logged = IF IsEmpty(files[g]) THEN BeforeLast ELSE files[g].to
    BY <1>5, RunFacts, Zenon DEF RunPcs
  <2>2. aof_buf.from = logged /\ aof_buf.to = n /\ k \in Nat /\ logged <= k /\ k <= n
    BY <2>1, SMTT(90) DEF Interval
  <2> HIDE DEF g
  <2>3. PICK d : d = Appended(files[g], Interval(logged, k))
    BY Zenon
  <2>4. /\ d \in Content
        /\ IsEmpty(d) \/ d.from = BeforeLast
        /\ ~IsEmpty(d) => d.to = k
        /\ IsEmpty(d) => k = BeforeLast /\ k = logged
    BY <2>1, <2>2, <2>3, AppendedFacts, SMTT(90)
  <2>5. PICK c : c = [d EXCEPT !.state = "torn"]
    BY Zenon
  <2>6. c \in Content /\ c.from = d.from /\ c.to = d.to
    BY <2>4, <2>5, Zenon DEF Content
  <2>7. files' = [files EXCEPT ![LastIncr(manifest_file)] = c]
    BY <1>5, <2>1, <2>2, <2>3, <2>5, Zenon DEF g
  <2>8. IsEmpty(c) \/ c.from = BeforeLast
    BY <2>4, <2>6, Zenon DEF IsEmpty
  <2>9. /\ DOMAIN files' = DOMAIN files
        /\ \A f \in DOMAIN files' : files'[f] \in Content
        /\ Chain(LiveFiles(manifest_file), files')
        /\ Top(LiveFiles(manifest_file), files') = IF IsEmpty(c) THEN BeforeLast ELSE c.to
    BY <1>1, <2>1, <2>6, <2>7, <2>8, LastFileStep, Zenon
  <2>10. Top(LiveFiles(manifest_file), files') = k
    BY <2>4, <2>6, <2>9, Zenon DEF IsEmpty
  <2>11. ~Fresh(manifest_file)
    BY <2>1 DEF RewriteInv, RunInv, Full, DiskInv, Manifest, Fresh
  <2> QED
    BY <1>1, <1>2, <2>2, <2>9, <2>10, <2>11, Zenon DEF DiskInv
<1> QED
  BY <1>4, <1>5, Zenon DEF Crash

\* The server starts on the files it finds: it does not refuse them, and the
\* dataset is what they hold.
LEMMA LoadStep == ASSUME RewriteInv, loadAppendOnlyFiles PROVE RewriteInv'
<1> DEFINE ls == LiveFiles(manifest_file)
<1>1. pc = "down" /\ DiskInv
  BY Zenon DEF loadAppendOnlyFiles, RewriteInv
<1>2. aofLoadManifestFromDisk = manifest_file
  BY <1>1, ReadBack, Zenon DEF DiskInv
<1>3. PICK K \in Nat : K = Len(ls)
  <2>1. CASE Fresh(manifest_file)
    BY <2>1, LiveFresh, Zenon
  <2>2. CASE Full(manifest_file)
    <3>1. Len(manifest_file.incr) \in Nat /\ Len(ls) = Len(manifest_file.incr) + 1
      BY <1>1, <2>2, LiveFull, SMTT(30) DEF DiskInv, Manifest
    <3> QED
      BY <3>1
  <2> QED
    BY <1>1, <2>1, <2>2, Zenon DEF DiskInv
<1>4. /\ files' = IF \A i \in 1..Len(ls) : ls[i] \in DOMAIN files THEN Repaired(ls, files) ELSE files
      /\ UNCHANGED manifest_file
      /\ ~Refused(ls, files) =>
           /\ n' = LoadedTo(ls, files)[Len(ls)] /\ logged' = n'
           /\ aof_state' = "on" /\ aof_buf' = Interval(n', n')
           /\ aof_manifest' = manifest_file /\ child_type' = "none" /\ snapshot' = 0
           /\ starting' = 0 /\ pc' = "start_base"
  BY <1>2, Zenon DEF loadAppendOnlyFiles
<1>5. /\ Chain(ls, files) /\ manifest_file \in Manifest
      /\ \A f \in DOMAIN files : files[f] \in Content
      /\ Fresh(manifest_file) => \A f \in DOMAIN files : files[f] = Interval(0, 0)
      /\ DOMAIN files \subseteq Listed(manifest_file) \cup Spare(manifest_file) \cup manifest_file.hist
  BY <1>1, Zenon DEF DiskInv
<1>6. Fresh(manifest_file) \/ \A i \in 1..(K - 1) : ls[i] # ls[K]
  <2>1. SUFFICES ASSUME Full(manifest_file) PROVE \A i \in 1..(K - 1) : ls[i] # ls[K]
    BY <1>1, Zenon DEF DiskInv
  <2>2. PICK L \in Nat : L = Len(manifest_file.incr)
    BY <1>5 DEF Manifest
  <2>3. K = L + 1 /\ K - 1 = L
    BY <1>3, <1>5, <2>1, <2>2, LiveFull
  <2> QED
    BY <1>5, <2>1, <2>2, <2>3, LiveNames, Zenon
<1>7. Fresh(manifest_file) => K = 0
  BY <1>3, LiveFresh, Zenon
<1> HIDE DEF ls
<1>8. /\ \A i \in 1..K : ls[i] \in DOMAIN files /\ files[ls[i]] \in Content
      /\ \A i \in 1..(K - 1) : files[ls[i]].state = "whole"
      /\ \A i \in 1..K : IsEmpty(files[ls[i]]) \/ files[ls[i]].from = LoadedTo(ls, files)[i - 1]
  BY <1>3, <1>5, SMTT(90) DEF Chain, Joined
<1>9. ~Refused(ls, files)
  BY <1>3, <1>8, Zenon DEF Refused
<1>10. /\ Chain(ls, files') /\ Top(ls, files') = Top(ls, files) /\ DOMAIN files' = DOMAIN files
       /\ \A f \in DOMAIN files' : files'[f] \in Content
       /\ \A i \in 1..K : files'[ls[i]].state = "whole"
       /\ Fresh(manifest_file) => files' = files
  <2>1. files' = Repaired(ls, files)
    BY <1>3, <1>4, <1>8, Zenon
  <2>2. CASE \A i \in 1..K : files[ls[i]].state # "torn"
    <3>1. files' = files
      BY <1>3, <2>1, <2>2, Zenon DEF Repaired
    <3>2. \A i \in 1..K : files[ls[i]].state = "whole"
      BY <1>8, <2>2, Zenon DEF Content
    <3> QED
      BY <1>5, <3>1, <3>2, Zenon
  <2>3. ASSUME NEW j \in 1..K, files[ls[j]].state = "torn"
        PROVE  /\ Chain(ls, files') /\ Top(ls, files') = Top(ls, files)
               /\ DOMAIN files' = DOMAIN files
               /\ \A f \in DOMAIN files' : files'[f] \in Content
               /\ \A i \in 1..K : files'[ls[i]].state = "whole"
               /\ Fresh(manifest_file) => files' = files
    <3>1. j = K /\ K >= 1 /\ K \in 1..K
      BY <1>8, <2>3
    <3>2. {i \in 1..Len(ls) : files[ls[i]].state = "torn"} = {K}
      BY <1>3, <1>8, <2>3, <3>1, SMTT(30)
    <3>3. (CHOOSE i \in {K} : \A l \in {K} : i <= l) = K
      OBVIOUS
    <3>4. PICK c : c = [files[ls[K]] EXCEPT !.state = "whole"]
      BY Zenon
    <3>5. files' = [files EXCEPT ![ls[K]] = c]
      BY <2>1, <3>2, <3>3, <3>4, Zenon DEF Repaired
    <3>6. /\ c \in Content /\ c.from = files[ls[K]].from /\ c.to = files[ls[K]].to
          /\ c.state = "whole"
      BY <1>8, <3>1, <3>4, Zenon DEF Content
    <3>7. /\ DOMAIN files' = DOMAIN files /\ files'[ls[K]] = c
          /\ \A f \in DOMAIN files : f # ls[K] => files'[f] = files[f]
      BY <1>8, <3>1, <3>5, Zenon
    <3>8. \A i \in 1..(K - 1) : i \in 1..K /\ ls[i] # ls[K]
      BY <1>6, <1>7, <3>1
    <3>9. \A i \in 1..(K - 1) : ls[i] \in DOMAIN files' /\ files'[ls[i]] = files[ls[i]]
      BY <1>8, <3>7, <3>8, Zenon
    <3>10. IsEmpty(c) <=> IsEmpty(files[ls[K]])
      BY <3>6, Zenon DEF IsEmpty
    <3>11. IsEmpty(c) \/ c.from = LoadedTo(ls, files)[K - 1]
      BY <1>8, <3>1, <3>6, <3>10, Zenon
    <3>12. Chain(ls, files') /\ Top(ls, files') = IF IsEmpty(c) THEN LoadedTo(ls, files)[K - 1] ELSE c.to
      <4>1. PICK fs, gs : fs = files /\ gs = files'
        BY Zenon
      <4>2. /\ K = Len(ls) /\ K >= 1 /\ Chain(ls, fs)
            /\ \A i \in 1..(K - 1) : ls[i] \in DOMAIN gs /\ gs[ls[i]] = fs[ls[i]]
            /\ ls[K] \in DOMAIN gs /\ gs[ls[K]] \in Content /\ gs[ls[K]] = c
            /\ IsEmpty(gs[ls[K]]) \/ gs[ls[K]].from = LoadedTo(ls, fs)[K - 1]
        BY <1>3, <1>5, <1>8, <3>1, <3>6, <3>7, <3>9, <3>11, <4>1, Zenon
      <4>3. /\ Chain(ls, gs)
            /\ Top(ls, gs) = IF IsEmpty(gs[ls[K]]) THEN LoadedTo(ls, fs)[K - 1] ELSE gs[ls[K]].to
        <5>1. /\ Chain(ls, gs)
              /\ \A i \in 0..(K - 1) : LoadedTo(ls, gs)[i] = LoadedTo(ls, fs)[i]
              /\ Top(ls, gs) = IF IsEmpty(gs[ls[K]]) THEN LoadedTo(ls, fs)[K - 1]
                                                     ELSE gs[ls[K]].to
          BY <4>2, ChainLast, SMTT(90)
        <5> QED
          BY <5>1, Zenon
      <4> QED
        BY <4>1, <4>2, <4>3, Zenon
    <3>13. Top(ls, files) = IF IsEmpty(files[ls[K]]) THEN LoadedTo(ls, files)[K - 1]
                                                    ELSE files[ls[K]].to
      BY <1>3, <3>1, LoadedFacts, Zenon DEF Top
    <3>14. \A i \in 1..K : files'[ls[i]].state = "whole"
      <4> TAKE i \in 1..K
      <4>1. i = K \/ i \in 1..(K - 1)
        OBVIOUS
      <4> QED
        BY <1>8, <3>6, <3>7, <3>9, <4>1, Zenon
    <3>15. \A f \in DOMAIN files' : files'[f] \in Content
      BY <1>5, <3>6, <3>7, Zenon
    <3> QED
      BY <1>7, <3>1, <3>6, <3>7, <3>10, <3>12, <3>13, <3>14, <3>15, SMTT(90)
  <2> QED
    BY <2>2, <2>3, Zenon
<1>11. Top(ls, files) \in Nat
  <2>1. K \in 0..Len(ls) /\ Len(ls) \in Nat
    BY <1>3
  <2> QED
    BY <1>3, <1>5, <2>1, LoadedType, Zenon DEF Top
<1>12. /\ n' = Top(ls, files) /\ logged' = n' /\ n' \in Nat /\ aof_state' = "on"
       /\ aof_buf' = Interval(n', n') /\ aof_manifest' = manifest_file /\ child_type' = "none"
       /\ snapshot' = 0 /\ starting' = 0 /\ pc' = "start_base" /\ manifest_file' = manifest_file
  BY <1>4, <1>9, <1>11, Zenon DEF Top
<1>13. DiskInv'
  <2>1. n' <= n' /\ Top(LiveFiles(manifest_file), files') = n'
    BY <1>10, <1>12, SMTT(90) DEF ls
  <2> QED
    BY <1>1, <1>5, <1>10, <1>12, <2>1, Zenon DEF DiskInv, ls
<1>14. UpInv'
  BY <1>3, <1>5, <1>10, <1>12, Zenon DEF UpInv, ls
<1>15. StartInv'
  BY <1>12, Zenon DEF StartInv
<1> QED
  BY <1>12, <1>13, <1>14, <1>15, Zenon DEF RewriteInv, StartPcs, RunPcs

\* A BASE file for an empty directory; it is not listed yet.
LEMMA StartBaseStep == ASSUME RewriteInv, StartBase PROVE RewriteInv'
<1>1. /\ pc = "start_base" /\ pc' = "start_open" /\ DiskInv /\ UpInv /\ StartInv
      /\ aof_manifest = manifest_file
      /\ UNCHANGED <<n, aof_state, aof_buf, childVars, manifest_file, logged>>
  BY Zenon DEF StartBase, RewriteInv, StartInv, StartPcs, memVars
<1>2. CASE Full(manifest_file)
  <2>1. UNCHANGED <<aof_manifest, files>> /\ ~Fresh(manifest_file)
    BY <1>1, <1>2, SMTT(30) DEF StartBase, Full, Fresh, DiskInv, Manifest
  <2>2. DiskInv'
    BY <1>1, <2>1, Zenon DEF DiskInv
  <2>3. UpInv'
    BY <1>1, <2>1, Zenon DEF UpInv, childVars
  <2>4. StartInv'
    BY <1>1, <2>1, Zenon DEF StartInv, childVars
  <2> QED
    BY <1>1, <2>2, <2>3, <2>4, Zenon DEF RewriteInv, StartPcs, RunPcs
<1>3. CASE Fresh(manifest_file)
  <2>1. Len(LiveFiles(manifest_file)) = 0
    BY <1>3, LiveFresh, Zenon
  <2>2. n = 0 /\ logged = 0
    <3>1. LoadedTo(LiveFiles(manifest_file), files)[0] = 0
      BY <2>1, LoadedFacts
    <3> QED
      BY <1>1, <2>1, <3>1, Zenon DEF UpInv, StartInv, Top
  <2>3. aof_manifest' = [base |-> 1, incr |-> <<>>, hist |-> {}, incr_seq |-> 0]
    <3>1. /\ aof_manifest \in Manifest /\ aof_manifest.base = 0 /\ aof_manifest.incr = <<>>
          /\ aof_manifest.hist = {} /\ aof_manifest.incr_seq = 0
      BY <1>1, <1>3, Zenon DEF Fresh, DiskInv
    <3>2. aof_manifest' = getNewBaseFileNameAndMarkPreAsHistory(aof_manifest)
      BY <3>1, Zenon DEF StartBase
    <3>3. aof_manifest' = [aof_manifest EXCEPT !.base = aof_manifest.base + 1,
                                               !.hist = aof_manifest.hist]
      BY <3>1, <3>2, Zenon DEF getNewBaseFileNameAndMarkPreAsHistory
    <3>4. aof_manifest' = [base |-> aof_manifest.base + 1, incr |-> aof_manifest.incr,
                           hist |-> aof_manifest.hist, incr_seq |-> aof_manifest.incr_seq]
      BY <3>1, <3>3, Zenon DEF Manifest
    <3> QED
      BY <3>1, <3>4, SMTT(30)
  <2>4. files' = With(files, Base(1), Interval(0, 0))
    BY <1>1, <1>3, <2>2, <2>3, Zenon DEF StartBase, Fresh
  <2>5. /\ DOMAIN files' = DOMAIN files \cup {Base(1)}
        /\ \A f \in DOMAIN files' : files'[f] = Interval(0, 0)
    BY <1>1, <1>3, <2>4, Zenon DEF With, DiskInv
  <2>6. Interval(0, 0) \in Content
    BY IntervalType
  <2>7. Chain(LiveFiles(manifest_file), files') /\ Top(LiveFiles(manifest_file), files') = 0
    BY <2>1, LoadedFacts, SMTT(30) DEF Chain, Top
  <2>8. Base(1) \in Spare(manifest_file)
    BY <1>3 DEF Spare, Fresh
  <2>9. DiskInv'
    <3>1. /\ manifest_file' = manifest_file /\ n' = 0 /\ logged' = 0 /\ 0 <= 0 /\ 0 \in Nat
          /\ pc # "down" /\ pc' # "down" /\ aof_manifest.hist = {} /\ aof_manifest'.hist = {}
      BY <1>1, <1>3, <2>2, <2>3, SMTT(30) DEF Fresh
    <3>2. DOMAIN files \subseteq Listed(manifest_file) \cup Spare(manifest_file)
      BY <1>1, <3>1, Zenon DEF DiskInv
    <3>3. DOMAIN files' \subseteq Listed(manifest_file) \cup Spare(manifest_file)
      BY <2>5, <2>8, <3>2, Zenon
    <3>4. manifest_file \in Manifest
      BY <1>1, Zenon DEF DiskInv
    <3> QED
      BY <1>3, <2>5, <2>6, <2>7, <3>1, <3>3, <3>4, Zenon DEF DiskInv
  <2>10. UpInv'
    <3>1. aof_manifest' \in Manifest
      BY <2>3, SMTT(30) DEF Manifest
    <3> QED
      BY <1>1, <2>1, <2>2, <2>7, <3>1, SMTT(30) DEF UpInv, childVars
  <2>11. StartInv'
    <3>1. ~Full(manifest_file)
      BY <1>3 DEF Full, Fresh
    <3> QED
      BY <1>1, <2>3, <2>5, <3>1, Zenon DEF StartInv, childVars
  <2> QED
    BY <1>1, <2>9, <2>10, <2>11, Zenon DEF RewriteInv, StartPcs, RunPcs
<1> QED
  BY <1>1, <1>2, <1>3, Zenon DEF DiskInv

\* A manifest in use has INCR files, and is not that of an empty directory.
LEMMA FullFacts ==
  ASSUME NEW am \in Manifest, Full(am)
  PROVE  Len(am.incr) \in Nat /\ am.incr # <<>> /\ ~Fresh(am)
<1>1. am.base \in Nat /\ am.incr \in Seq(Nat) /\ Len(am.incr) >= 1 /\ am.base >= 1
  BY Zenon DEF Manifest, Full
<1>2. Len(am.incr) \in Nat /\ am.incr # <<>>
  BY <1>1, LenProperties
<1>3. am.base # 0
  BY <1>1
<1> QED
  BY <1>2, <1>3, Zenon DEF Fresh

\* The last INCR file is opened; in an empty directory it is created.
LEMMA StartOpenStep == ASSUME RewriteInv, StartOpen PROVE RewriteInv'
<1>1. /\ pc = "start_open" /\ pc' = "start_persist" /\ DiskInv /\ UpInv /\ StartInv
      /\ aof_manifest' = getLastIncrAofName(aof_manifest) /\ aof_fd' = LastIncr(aof_manifest')
      /\ files' = IF aof_fd' \in DOMAIN files THEN files ELSE With(files, aof_fd', Interval(n, n))
      /\ UNCHANGED <<n, aof_state, aof_buf, childVars, manifest_file, logged>>
  BY Zenon DEF StartOpen, RewriteInv, StartPcs, Empty
<1>2. CASE Full(manifest_file)
  <2>0. Len(manifest_file.incr) \in Nat /\ manifest_file.incr # <<>> /\ ~Fresh(manifest_file)
    BY <1>1, <1>2, FullFacts, Zenon DEF DiskInv
  <2>1. aof_manifest = manifest_file /\ aof_manifest.incr # <<>>
    <3>1. pc # "start_base"
      BY <1>1
    <3> QED
      BY <1>1, <1>2, <2>0, <3>1, Zenon DEF StartInv
  <2>2. aof_manifest' = aof_manifest
    BY <1>1, <2>1, Zenon DEF getLastIncrAofName
  <2>3. aof_fd' \in DOMAIN files
    <3>1. PICK L \in Nat : L = Len(manifest_file.incr)
      BY <2>0, Zenon
    <3>2. /\ Len(LiveFiles(manifest_file)) = L + 1
          /\ LiveFiles(manifest_file)[L + 1] = LastIncr(manifest_file)
      BY <1>1, <1>2, <3>1, LiveFull, LiveNames, Zenon DEF DiskInv
    <3>3. L + 1 \in 1..Len(LiveFiles(manifest_file))
      BY <3>2
    <3>4. Joined(LiveFiles(manifest_file), files, L + 1)
      BY <1>1, <3>3, Zenon DEF DiskInv, Chain
    <3> QED
      BY <1>1, <2>1, <2>2, <3>2, <3>4, Zenon DEF Joined
  <2>4. UNCHANGED <<aof_manifest, files>> /\ ~Fresh(manifest_file)
    BY <1>1, <2>0, <2>2, <2>3, Zenon
  <2>5. DiskInv'
    BY <1>1, <2>4, Zenon DEF DiskInv
  <2>6. UpInv'
    BY <1>1, <2>4, Zenon DEF UpInv, childVars
  <2>7. StartInv'
    BY <1>1, <2>1, <2>4, Zenon DEF StartInv, childVars
  <2> QED
    BY <1>1, <2>5, <2>6, <2>7, Zenon DEF RewriteInv, StartPcs, RunPcs
<1>3. CASE Fresh(manifest_file)
  <2>1. Len(LiveFiles(manifest_file)) = 0
    BY <1>3, LiveFresh, Zenon
  <2>2. n = 0 /\ logged = 0
    <3>1. LoadedTo(LiveFiles(manifest_file), files)[0] = 0
      BY <2>1, LoadedFacts
    <3> QED
      BY <1>1, <2>1, <3>1, Zenon DEF UpInv, StartInv, Top
  <2>3. /\ aof_manifest = [base |-> 1, incr |-> <<>>, hist |-> {}, incr_seq |-> 0]
        /\ Base(1) \in DOMAIN files
    BY <1>1, <1>3, Zenon DEF StartInv
  <2>4. aof_manifest' = [base |-> 1, incr |-> <<1>>, hist |-> {}, incr_seq |-> 1]
    <3>1. aof_manifest' = getNewIncrAofName(aof_manifest) /\ aof_manifest \in Manifest
      BY <1>1, <2>3, Zenon DEF getLastIncrAofName, UpInv
    <3>2. PICK q : q = Append(aof_manifest.incr, aof_manifest.incr_seq + 1)
      BY Zenon
    <3>3. q = <<1>>
      BY <2>3, <3>2
    <3>4. aof_manifest' = [aof_manifest EXCEPT !.incr_seq = aof_manifest.incr_seq + 1, !.incr = q]
      BY <3>1, <3>2, Zenon DEF getNewIncrAofName
    <3>5. aof_manifest' = [base |-> aof_manifest.base, incr |-> q, hist |-> aof_manifest.hist,
                           incr_seq |-> aof_manifest.incr_seq + 1]
      BY <3>1, <3>4, Zenon DEF Manifest
    <3> QED
      BY <2>3, <3>3, <3>5, SMTT(90)
  <2>5. aof_fd' = Incr(1)
    BY <1>1, <2>4, SMTT(30) DEF LastIncr
  <2>6. /\ DOMAIN files' = DOMAIN files \cup {Incr(1)}
        /\ \A f \in DOMAIN files' : files'[f] = Interval(0, 0)
    BY <1>1, <1>3, <2>2, <2>5, Zenon DEF With, DiskInv
  <2>7. Interval(0, 0) \in Content
    BY IntervalType
  <2>8. Chain(LiveFiles(manifest_file), files') /\ Top(LiveFiles(manifest_file), files') = 0
    BY <2>1, LoadedFacts, SMTT(30) DEF Chain, Top
  <2>9. Incr(1) \in Spare(manifest_file)
    BY <1>3 DEF Spare, Fresh
  <2>10. DiskInv'
    <3>1. /\ manifest_file' = manifest_file /\ n' = 0 /\ logged' = 0 /\ 0 <= 0 /\ 0 \in Nat
          /\ pc # "down" /\ pc' # "down" /\ aof_manifest.hist = {} /\ aof_manifest'.hist = {}
      BY <1>1, <2>2, <2>3, <2>4, SMTT(30)
    <3>2. DOMAIN files \subseteq Listed(manifest_file) \cup Spare(manifest_file)
      BY <1>1, <3>1, Zenon DEF DiskInv
    <3>3. DOMAIN files' \subseteq Listed(manifest_file) \cup Spare(manifest_file)
      BY <2>6, <2>9, <3>2, Zenon
    <3>4. manifest_file \in Manifest
      BY <1>1, Zenon DEF DiskInv
    <3> QED
      BY <1>3, <2>6, <2>7, <2>8, <3>1, <3>3, <3>4, Zenon DEF DiskInv
  <2>11. UpInv'
    <3>1. aof_manifest' \in Manifest
      BY <2>4, SMTT(90) DEF Manifest
    <3> QED
      BY <1>1, <2>1, <2>2, <2>8, <3>1, SMTT(90) DEF UpInv, childVars
  <2>12. StartInv'
    <3>1. ~Full(manifest_file)
      BY <1>3 DEF Full, Fresh
    <3> QED
      BY <1>1, <2>3, <2>4, <2>6, <3>1, Zenon DEF StartInv, childVars
  <2> QED
    BY <1>1, <2>10, <2>11, <2>12, Zenon DEF RewriteInv, StartPcs, RunPcs
<1> QED
  BY <1>1, <1>2, <1>3, Zenon DEF DiskInv

\* The first manifest of an empty directory is written.
LEMMA StartPersistStep == ASSUME RewriteInv, StartPersist PROVE RewriteInv'
<1>1. /\ pc = "start_persist" /\ pc' = "gc" /\ DiskInv /\ UpInv /\ StartInv
      /\ manifest_file' = IF LiveFiles(aof_manifest) = LiveFiles(manifest_file) THEN manifest_file
                                                                               ELSE aof_manifest
      /\ UNCHANGED <<n, aof_state, aof_fd, aof_buf, aof_manifest, childVars, files, logged>>
  BY Zenon DEF StartPersist, RewriteInv, StartPcs, memVars, amVars
<1>2. CASE Full(manifest_file)
  <2>1. aof_manifest = manifest_file /\ aof_fd = LastIncr(manifest_file) /\ child_type = "none"
    BY <1>1, <1>2, Zenon DEF StartInv
  <2>2. manifest_file' = manifest_file /\ manifest_file \in Manifest
    BY <1>1, <2>1, Zenon DEF DiskInv
  <2>3. DiskInv'
    BY <1>1, <2>2, Zenon DEF DiskInv
  <2>4. UpInv'
    BY <1>1, <2>2, Zenon DEF UpInv, childVars
  <2>5. RunInv'
    <3>1. manifest_file = [manifest_file EXCEPT !.hist = manifest_file.hist]
      BY <2>2, Zenon DEF Manifest
    <3> QED
      BY <1>1, <1>2, <2>1, <2>2, <3>1, Zenon DEF RunInv, childVars
  <2> QED
    BY <1>1, <2>3, <2>4, <2>5, Zenon DEF RewriteInv, StartPcs, RunPcs
<1>3. CASE Fresh(manifest_file)
  <2> DEFINE N == aof_manifest
             ms == LiveFiles(N)
  <2>1. /\ N = [base |-> 1, incr |-> <<1>>, hist |-> {}, incr_seq |-> 1]
        /\ Base(1) \in DOMAIN files /\ Incr(1) \in DOMAIN files
        /\ files[Base(1)] = Interval(0, 0) /\ files[Incr(1)] = Interval(0, 0)
        /\ child_type = "none" /\ aof_fd = LastIncr(N)
    BY <1>1, <1>3, Zenon DEF StartInv, DiskInv
  <2>2. N \in Manifest /\ Past(N) = 0 /\ Len(N.incr) = 1 /\ N.base = 1 /\ N.hist = {} /\ N.incr_seq = 1
    BY <2>1, SMTT(30) DEF Manifest, Past
  <2>3. Full(N)
    BY <2>1, <2>2, SMTT(30) DEF Full
  <2>4. Len(ms) = 2 /\ ms[1] = Base(1) /\ ms[2] = Incr(1)
    <3>1. /\ Len(ms) = Len(N.incr) + 1 /\ ms[1] = Base(N.base)
          /\ \A i \in 1..Len(N.incr) : ms[i + 1] = Incr(Past(N) + i)
      BY <2>2, <2>3, LiveFull, Zenon
    <3> HIDE DEF ms
    <3>2. ms[1 + 1] = Incr(Past(N) + 1)
      BY <2>2, <3>1
    <3> QED
      BY <2>2, <3>1, <3>2
  <2>5. Len(LiveFiles(manifest_file)) = 0
    BY <1>3, LiveFresh, Zenon
  <2>6. manifest_file' = N /\ LiveFiles(manifest_file') = ms
    BY <1>1, <2>4, <2>5
  <2>7. n = 0 /\ logged = 0
    <3>1. LoadedTo(LiveFiles(manifest_file), files)[0] = 0
      BY <2>5, LoadedFacts
    <3> QED
      BY <1>1, <2>5, <3>1, Zenon DEF UpInv, StartInv, Top
  <2>8. DOMAIN files \subseteq Listed(N) \cup Spare(N)
    <3>1. DOMAIN files \subseteq {Base(1), Incr(1)}
      BY <1>1, <1>3, <2>2, <2>5, SMTT(90) DEF DiskInv, Listed, Spare, Fresh
    <3>2. {Base(1), Incr(1)} \subseteq Listed(N)
      BY <2>4 DEF Listed
    <3> QED
      BY <3>1, <3>2, Zenon
  <2> HIDE DEF N, ms
  <2>9. \A i \in 1..Len(ms) : ms[i] \in DOMAIN files /\ files[ms[i]] = Interval(0, 0)
    <3>1. \A i \in 1..Len(ms) : i = 1 \/ i = 2
      BY <2>4
    <3> QED
      BY <2>1, <2>4, <3>1, Zenon
  <2>10. Interval(0, 0) \in Content /\ IsEmpty(Interval(0, 0)) /\ Interval(0, 0).state = "whole"
    BY IntervalType DEF IsEmpty
  <2>11. Chain(ms, files)
    BY <2>9, <2>10, Zenon DEF Chain, Joined
  <2>12. Top(ms, files) = 0
    <3>1. 1 \in 1..Len(ms) /\ 2 \in 1..Len(ms) /\ 1 - 1 = 0 /\ 2 - 1 = 1 /\ Len(ms) \in Nat
      BY <2>4
    <3>2. /\ LoadedTo(ms, files)[0] = 0
          /\ LoadedTo(ms, files)[1] = LoadedTo(ms, files)[0]
          /\ LoadedTo(ms, files)[2] = LoadedTo(ms, files)[1]
      BY <2>9, <2>10, <3>1, LoadedFacts, SMTT(30)
    <3> QED
      BY <2>4, <3>2, Zenon DEF Top
  <2>13. DiskInv'
    <3>1. ~Fresh(N)
      BY <2>2 DEF Fresh
    <3> QED
      BY <1>1, <2>2, <2>3, <2>6, <2>7, <2>8, <2>11, <2>12, <3>1, SMTT(90) DEF DiskInv, N
  <2>14. UpInv'
    BY <1>1, <2>2, <2>6, <2>7, <2>9, <2>10, <2>12, Zenon DEF UpInv, childVars
  <2>15. RunInv'
    <3>1. N = [N EXCEPT !.hist = N.hist] /\ aof_manifest' = N
      BY <1>1, <2>2, Zenon DEF Manifest, N
    <3> QED
      BY <1>1, <2>1, <2>2, <2>3, <2>6, <3>1, Zenon DEF RunInv, childVars
  <2> QED
    BY <1>1, <2>13, <2>14, <2>15, Zenon DEF RewriteInv, StartPcs, RunPcs
<1> QED
  BY <1>1, <1>2, <1>3, Zenon DEF DiskInv

-----------------------------------------------------------------------------
(* The invariant holds, and what it implies.                               *)

\* The initial state: an empty directory, no server.
LEMMA InitRewriteInv == ASSUME Init PROVE RewriteInv
<1>1. /\ manifest_file = [base |-> 0, incr |-> <<>>, hist |-> {}, incr_seq |-> 0]
      /\ pc = "down" /\ n = 0 /\ logged = 0 /\ DOMAIN files = {}
  BY SMTT(90) DEF Init, EmptyManifest
<1>2. manifest_file \in Manifest /\ Fresh(manifest_file)
  BY <1>1, SMTT(90) DEF Manifest, Fresh
<1>3. Len(LiveFiles(manifest_file)) = 0
  BY <1>2, LiveFresh, Zenon
<1>4. Chain(LiveFiles(manifest_file), files) /\ Top(LiveFiles(manifest_file), files) = 0
  BY <1>3, LoadedFacts, SMTT(30) DEF Chain, Top
<1>5. DiskInv
  BY <1>1, <1>2, <1>4, SMTT(30) DEF DiskInv
<1> QED
  BY <1>1, <1>5, Zenon DEF RewriteInv, StartPcs, RunPcs

\* Every step keeps the invariant; CONFIG SET appendonly is not among the steps.
LEMMA NextRewriteInv == ASSUME AlwaysOn, RewriteInv, [Next]_vars PROVE RewriteInv'
<1>1. CASE UNCHANGED vars
  <2>1. UNCHANGED <<pc, n, aof_state, aof_fd, aof_buf, aof_manifest, temp_am, child_type, snapshot,
                    starting, files, manifest_file, logged>>
    BY <1>1, Zenon DEF vars, memVars, amVars, childVars, diskVars
  <2>2. DiskInv' <=> DiskInv
    BY <2>1, Zenon DEF DiskInv
  <2>3. UpInv' <=> UpInv
    BY <2>1, Zenon DEF UpInv
  <2>4. StartInv' <=> StartInv
    BY <2>1, Zenon DEF StartInv
  <2>5. RunInv' <=> RunInv
    BY <2>1, Zenon DEF RunInv, BeforeLast
  <2> QED
    BY <2>1, <2>2, <2>3, <2>4, <2>5, Zenon DEF RewriteInv
<1>2. CASE Start
  BY <1>2, LoadStep, StartBaseStep, StartOpenStep, StartPersistStep, Zenon DEF Start
<1>3. CASE Rewrite
  BY <1>3, FlushStep, OpenNewIncrStep, QuietStep, PersistNewIncrStep, RewriteForkStep, Zenon DEF Rewrite
<1>4. CASE Done
  <2>1. ~RenameIncr
    BY Zenon DEF RewriteInv, StartPcs, RunPcs, RenameIncr
  <2> QED
    BY <1>4, <2>1, PersistRewriteStep, GcUnlinkStep, GcPersistStep, Zenon DEF Done
<1>5. CASE WriteCommand \/ Flush
  BY <1>5, WriteCommandStep, FlushStep, Zenon
<1>6. CASE bgrewriteaofCommand \/ RewriteOnGrowth \/ serverCron \/ ChildFails \/ OtherChild
             \/ OtherChildExits
  BY <1>6, QuietStep, Zenon
<1>7. CASE RenameBase
  BY <1>7, RenameBaseStep, Zenon
<1>8. CASE Crash
  BY <1>8, CrashStep, Zenon
<1>9. ~startAppendOnly /\ ~StopFlush /\ ~StopClose
  BY Zenon DEF AlwaysOn, RewriteInv, StartPcs, RunPcs, startAppendOnly, StopFlush, StopClose
<1> QED
  BY <1>1, <1>2, <1>3, <1>4, <1>5, <1>6, <1>7, <1>8, <1>9, Zenon DEF Next

\* The inductive invariant of the server whose AOF stays on.
LEMMA RewriteInvariant == ASSUME AlwaysOn PROVE Spec => []RewriteInv
<1>1. Init => RewriteInv
  BY InitRewriteInv, Zenon
<1>2. RewriteInv /\ [Next]_vars => RewriteInv'
  BY NextRewriteInv, Zenon
<1> QED
  BY <1>1, <1>2, PTL DEF Spec

\* The manifest is read back as it was written.
LEMMA LiveIsListed == ASSUME RewriteInv PROVE Live = LiveFiles(manifest_file)
  BY ReadBack, Zenon DEF RewriteInv, DiskInv, Live

LEMMA InvRestartSafe == ASSUME RewriteInv PROVE RestartSafe
<1>1. PICK ls : ls = LiveFiles(manifest_file) /\ Live = ls
  BY LiveIsListed, Zenon
<1>2. Chain(ls, files) /\ logged <= Top(ls, files) /\ Top(ls, files) <= n /\ pc # "refused"
  BY <1>1, Zenon DEF RewriteInv, DiskInv, StartPcs, RunPcs
<1>3. \A i \in 1..Len(ls) :
        /\ ls[i] \in DOMAIN files /\ files[ls[i]].state \in {"whole", "torn"}
        /\ i < Len(ls) => files[ls[i]].state = "whole"
        /\ IsEmpty(files[ls[i]]) \/ files[ls[i]].from = LoadedTo(ls, files)[i - 1]
  BY <1>2, Zenon DEF Chain, Joined, Content
<1>4. Len(ls) \in Nat
  BY <1>1, LiveFull, LiveFresh, SMTT(30) DEF RewriteInv, DiskInv, Manifest
<1>5. \A i \in 1..(Len(ls) - 1) : i \in 1..Len(ls) /\ i < Len(ls)
  BY <1>4
<1>6. ~Refused(ls, files)
  BY <1>3, <1>5, Zenon DEF Refused
<1>7. InSequence(ls, files)
  BY <1>3, Zenon DEF InSequence
<1> QED
  BY <1>1, <1>2, <1>6, <1>7, Zenon DEF RestartSafe, Top

LEMMA InvLogComplete == ASSUME RewriteInv PROVE LogComplete
<1> SUFFICES ASSUME pc = "loop"
             PROVE  /\ aof_manifest.incr # <<>> /\ aof_fd = LastIncr(aof_manifest)
                    /\ LoadedTo(Live, files)[Len(Live)] = aof_buf.from
                    /\ aof_buf.to = n /\ aof_buf.state = "whole"
  BY Zenon DEF LogComplete
<1>1. UpInv /\ RunInv /\ DiskInv
  BY Zenon DEF RewriteInv, RunPcs
<1>2. aof_manifest.incr = manifest_file.incr /\ Len(manifest_file.incr) >= 1
  BY <1>1, Zenon DEF RunInv, DiskInv, Manifest, Full
<1>3. LoadedTo(Live, files)[Len(Live)] = logged
  BY <1>1, LiveIsListed, Zenon DEF UpInv, Top
<1>4. aof_buf.from = logged /\ aof_buf.to = n /\ aof_buf.state = "whole"
  BY <1>1, Zenon DEF UpInv, Interval
<1> QED
  BY <1>1, <1>2, <1>3, <1>4 DEF RunInv, LastIncr

LEMMA InvManifestAgrees == ASSUME RewriteInv PROVE ManifestAgrees
<1> SUFFICES ASSUME pc = "loop" PROVE LiveFiles(aof_manifest) = Live
  BY Zenon DEF ManifestAgrees
<1>1. RunInv /\ manifest_file \in Manifest
  BY Zenon DEF RewriteInv, RunPcs, DiskInv
<1>2. aof_manifest.incr = manifest_file.incr /\ aof_manifest.base = manifest_file.base
  BY <1>1, Zenon DEF RunInv, Manifest
<1> QED
  BY <1>2, LiveIsListed, Zenon DEF LiveFiles

LEMMA InvNoGarbage == ASSUME RewriteInv PROVE NoGarbage
<1> SUFFICES ASSUME pc = "loop", NEW f \in DOMAIN files
             PROVE  \/ \E i \in 1..Len(Live) : Live[i] = f
                    \/ f \in {Base(aof_manifest.base + 1), Incr(aof_manifest.incr_seq + 1), Temp}
  BY Zenon DEF NoGarbage
<1>1. RunInv /\ DiskInv /\ manifest_file \in Manifest
  BY Zenon DEF RewriteInv, RunPcs, DiskInv
<1>2. /\ aof_manifest.hist = {}
      /\ aof_manifest.base = manifest_file.base /\ aof_manifest.incr_seq = manifest_file.incr_seq
  BY <1>1, Zenon DEF RunInv, Manifest
<1>3. f \in Listed(manifest_file) \cup Spare(manifest_file)
  BY <1>1, <1>2, Zenon DEF DiskInv
<1> QED
  BY <1>2, <1>3, LiveIsListed, Zenon DEF Listed, Spare

\* With the AOF on from the start, and however many crashes, failed opens,
\* renames, forks, children and manifest updates there are, the files on disk
\* load whenever the process dies, and no command written to the log is lost
\* (loadAppendOnlyFiles after any prefix of openNewIncrAofForAppend,
\* backgroundRewriteDoneHandler and aofDelHistoryFiles).
THEOREM RestartIsSafe == ASSUME AlwaysOn PROVE Spec => []RestartSafe
  BY RewriteInvariant, InvRestartSafe, PTL

\* With the AOF on from the start, the log on disk followed by aof_buf is the
\* dataset: rotating the INCR file and finishing a rewrite lose and repeat
\* nothing (feedAppendOnlyFile, flushAppendOnlyFile, backgroundRewriteDoneHandler).
THEOREM LogIsComplete == ASSUME AlwaysOn PROVE Spec => []LogComplete
  BY RewriteInvariant, InvLogComplete, PTL

\* With the AOF on from the start, the manifest in memory lists the files that
\* the manifest on disk lists whenever the event loop runs: the handlers
\* modify a copy and keep it only if persistAofManifest succeeded.
THEOREM ManifestsAgree == ASSUME AlwaysOn PROVE Spec => []ManifestAgrees
  BY RewriteInvariant, InvManifestAgrees, PTL

\* With the AOF on from the start, rewrites that fail or are cut short by a
\* crash leave at most one BASE and one INCR file that is not listed, and
\* those are the names that the next rewrite takes.
THEOREM DirectoryIsClean == ASSUME AlwaysOn PROVE Spec => []NoGarbage
  BY RewriteInvariant, InvNoGarbage, PTL
=============================================================================
