---------------------------- MODULE RecordsProofs ----------------------------
(* Theorems about the traces on disk: the store that keeps and selects them, *)
(* the package that is made of them and what is decoded from a package.      *)
EXTENDS TraceStore, TracePackage, TraceDecode,
        WellFoundedInduction, FiniteSetTheorems, SequenceTheorems, TLAPS

-----------------------------------------------------------------------------
(* Least and greatest numbers.                                               *)

NumbersBelow(n) == {m \in Nat : m < n}

\* A set of numbers that is not empty has a least one.
LEMMA NatMin == ASSUME NEW T, T \subseteq Nat, T # {} PROVE \E x \in T : \A y \in T : x <= y
<1> DEFINE U == {NumbersBelow(n) : n \in T}
<1>1. \A n \in Nat : NumbersBelow(n) \in FiniteSubsetsOf(Nat)
  <2> SUFFICES ASSUME NEW n \in Nat PROVE NumbersBelow(n) \in FiniteSubsetsOf(Nat)
    OBVIOUS
  <2>1. NumbersBelow(n) = 0..(n-1)
    BY DEF NumbersBelow
  <2>2. IsFiniteSet(0..(n-1))
    BY FS_Interval
  <2> QED
    BY <2>1, <2>2 DEF FiniteSubsetsOf
<1>2. U \subseteq FiniteSubsetsOf(Nat) /\ U # {}
  BY <1>1
<1>3. PICK s \in U : \A t \in U : ~ (<<t, s>> \in StrictSubsetOrdering(Nat))
  BY <1>2, FS_StrictSubsetOrderingWellFounded, WFMin
<1>4. PICK x \in T : s = NumbersBelow(x)
  BY <1>3
<1>5. ASSUME NEW y \in T, y < x PROVE FALSE
  <2>1. NumbersBelow(y) \in U /\ NumbersBelow(y) \subseteq NumbersBelow(x) /\ y \in NumbersBelow(x) /\ y \notin NumbersBelow(y)
    BY <1>5 DEF NumbersBelow
  <2>2. <<NumbersBelow(y), s>> \in StrictSubsetOrdering(Nat)
    BY <2>1, <1>4 DEF StrictSubsetOrdering, NumbersBelow
  <2> QED
    BY <2>1, <2>2, <1>3
<1> QED
  BY <1>4, <1>5

\* A set of numbers up to a bound has a greatest one.
LEMMA NatMax ==
    ASSUME NEW n \in Nat, NEW T, T \subseteq 0..n, T # {}
    PROVE  \E x \in T : \A y \in T : x >= y
<1> DEFINE U == {n - x : x \in T}
<1>1. U \subseteq Nat /\ U # {}
  <2>1. \A x \in T : n - x \in Nat
    OBVIOUS
  <2> QED
    BY <2>1
<1>2. PICK u \in U : \A v \in U : u <= v
  BY <1>1, NatMin
<1>3. PICK x \in T : u = n - x
  BY <1>2
<1>4. ASSUME NEW y \in T PROVE x >= y
  <2>1. n - y \in U
    OBVIOUS
  <2>2. n - x <= n - y
    BY <1>2, <1>3, <2>1
  <2>3. x \in Nat /\ y \in Nat
    OBVIOUS
  <2> HIDE DEF U
  <2> QED
    BY <2>2, <2>3
<1> QED
  BY <1>4

\* Min is what it is called.
LEMMA MinFacts ==
    ASSUME NEW T, T \subseteq Nat, T # {}
    PROVE  Min(T) \in T /\ \A y \in T : Min(T) <= y
BY NatMin DEF Min

\* Max is what it is called.
LEMMA MaxFacts ==
    ASSUME NEW n \in Nat, NEW T, T \subseteq 0..n, T # {}
    PROVE  Max(T) \in T /\ \A y \in T : Max(T) >= y
BY NatMax DEF Max

-----------------------------------------------------------------------------
(* TraceStore.                                                               *)

\* The parts of files, and how many they are, from the size of each.
PartsOf(w) == UNION {{n} \X (1..w[n]) : n \in DOMAIN w}
Weight(w) == Cardinality(PartsOf(w))

\* A part is of one file.
LEMMA PartIn ==
    ASSUME NEW w, NEW x
    PROVE  x \in PartsOf(w) <=> \E n \in DOMAIN w : \E i \in 1..w[n] : x = <<n, i>>
BY DEF PartsOf

\* The parts of one file are as many as its size.
LEMMA OneWeighs ==
    ASSUME NEW n, NEW s \in Nat
    PROVE  IsFiniteSet({n} \X (1..s)) /\ Cardinality({n} \X (1..s)) = s
<1>1. IsFiniteSet(1..s) /\ Cardinality(1..s) = s
  BY FS_Interval
<1>2. IsFiniteSet({n}) /\ Cardinality({n}) = 1
  BY FS_Singleton
<1>3. IsFiniteSet({n} \X (1..s)) /\ Cardinality({n} \X (1..s)) = Cardinality({n}) * Cardinality(1..s)
  BY <1>1, <1>2, FS_Product
<1> QED
  BY <1>1, <1>2, <1>3

\* The parts of finitely many files are finitely many.
LEMMA WeightType ==
    ASSUME NEW D, IsFiniteSet(D), NEW w \in [D -> Nat]
    PROVE  IsFiniteSet(PartsOf(w)) /\ Weight(w) \in Nat
<1> DEFINE of == [n \in D |-> {n} \X (1..w[n])]
           all == {{n} \X (1..w[n]) : n \in DOMAIN w}
<1>1. of \in Surjection(D, all)
  BY DEF Surjection
<1>2. IsFiniteSet(all)
  BY <1>1, FS_Surjection
<1>3. ASSUME NEW T \in all PROVE IsFiniteSet(T)
  <2>1. PICK n \in D : T = {n} \X (1..w[n])
    OBVIOUS
  <2>2. w[n] \in Nat
    OBVIOUS
  <2> QED
    BY <2>1, <2>2, OneWeighs
<1>4. IsFiniteSet(PartsOf(w))
  BY <1>2, <1>3, FS_UNION DEF PartsOf
<1> QED
  BY <1>4, FS_CardinalityType DEF Weight

\* One file apart, the parts are its own and those of the others.
LEMMA WeightSplits ==
    ASSUME NEW D, IsFiniteSet(D), NEW w \in [D -> Nat], NEW n \in D,
           NEW v \in [D \ {n} -> Nat], \A m \in D \ {n} : v[m] = w[m]
    PROVE  Weight(w) = Weight(v) + w[n]
<1> DEFINE own == {n} \X (1..w[n])
<1>1. IsFiniteSet(own) /\ Cardinality(own) = w[n]
  BY OneWeighs
<1>2. IsFiniteSet(D \ {n})
  BY FS_RemoveElement
<1>3. IsFiniteSet(PartsOf(v)) /\ Weight(v) \in Nat
  BY <1>2, WeightType
<1>4. PartsOf(w) = PartsOf(v) \cup own
  <2>1. ASSUME NEW x \in PartsOf(w) PROVE x \in PartsOf(v) \cup own
    <3>1. PICK m \in D : \E i \in 1..w[m] : x = <<m, i>>
      BY <2>1, PartIn
    <3>2. PICK i \in 1..w[m] : x = <<m, i>>
      BY <3>1
    <3>3. CASE m = n
      BY <3>2, <3>3
    <3>4. CASE m # n
      <4>1. m \in DOMAIN v /\ i \in 1..v[m]
        BY <3>2, <3>4
      <4> QED
        BY <3>2, <4>1, PartIn
    <3> QED
      BY <3>3, <3>4
  <2>2. ASSUME NEW x \in PartsOf(v) PROVE x \in PartsOf(w)
    <3>1. PICK m \in D \ {n} : \E i \in 1..v[m] : x = <<m, i>>
      BY <2>2, PartIn
    <3>2. m \in DOMAIN w /\ \E i \in 1..w[m] : x = <<m, i>>
      BY <3>1
    <3> QED
      BY <3>2, PartIn
  <2>3. ASSUME NEW x \in own PROVE x \in PartsOf(w)
    <3>1. \E i \in 1..w[n] : x = <<n, i>>
      BY <2>3
    <3>2. n \in DOMAIN w
      OBVIOUS
    <3> QED
      BY <3>1, <3>2, PartIn
  <2> QED
    BY <2>1, <2>2, <2>3
<1>5. PartsOf(v) \cap own = {}
  <2>1. ASSUME NEW x \in PartsOf(v) PROVE x \notin own
    <3>1. PICK m \in D \ {n} : \E i \in 1..v[m] : x = <<m, i>>
      BY <2>1, PartIn
    <3> QED
      BY <3>1
  <2> QED
    BY <2>1
<1>6. Cardinality(PartsOf(w)) = Cardinality(PartsOf(v)) + Cardinality(own) - Cardinality(PartsOf(v) \cap own)
  BY <1>1, <1>3, <1>4, FS_Union
<1>7. Cardinality(PartsOf(v) \cap own) = 0
  BY <1>5, FS_EmptySet
<1> HIDE DEF own
<1>8. Cardinality(PartsOf(w)) = Cardinality(PartsOf(v)) + w[n] - 0
  BY <1>1, <1>6, <1>7
<1>9. w[n] \in Nat /\ Cardinality(PartsOf(v)) \in Nat
  BY <1>3 DEF Weight
<1> QED
  BY <1>8, <1>9 DEF Weight

\* One file changes its size.
LEMMA WeightChanges ==
    ASSUME NEW D, IsFiniteSet(D), NEW w \in [D -> Nat], NEW v \in [D -> Nat], NEW n \in D,
           \A m \in D \ {n} : v[m] = w[m]
    PROVE  Weight(v) = Weight(w) - w[n] + v[n]
<1> DEFINE u == [m \in D \ {n} |-> w[m]]
<1>1. u \in [D \ {n} -> Nat]
  OBVIOUS
<1>2. \A m \in D \ {n} : u[m] = w[m]
  OBVIOUS
<1>3. \A m \in D \ {n} : u[m] = v[m]
  OBVIOUS
<1> HIDE DEF u
<1>7. Weight(w) = Weight(u) + w[n]
  BY <1>1, <1>2, WeightSplits
<1>8. Weight(v) = Weight(u) + v[n]
  BY <1>1, <1>3, WeightSplits
<1>4. IsFiniteSet(D \ {n})
  BY FS_RemoveElement
<1>5. Weight(u) \in Nat
  BY <1>1, <1>4, WeightType
<1>6. w[n] \in Nat /\ v[n] \in Nat
  OBVIOUS
<1> QED
  BY <1>5, <1>6, <1>7, <1>8

\* With one part more for some of the files, there are as many parts more as there are such files.
LEMMA WeightWith ==
    ASSUME NEW D, IsFiniteSet(D), NEW w \in [D -> Nat], NEW T, T \subseteq D,
           NEW v \in [D -> Nat], \A m \in D : v[m] = w[m] + (IF m \in T THEN 1 ELSE 0)
    PROVE  Weight(v) = Weight(w) + Cardinality(T)
<1> DEFINE more == {<<m, w[m] + 1>> : m \in T}
           one == [m \in T |-> <<m, w[m] + 1>>]
<1>1. IsFiniteSet(T)
  BY FS_Subset
<1>2. one \in Bijection(T, more)
  BY DEF Bijection, Injection, Surjection, IsInjective
<1>3. IsFiniteSet(more) /\ Cardinality(more) = Cardinality(T)
  BY <1>1, <1>2, FS_Bijection DEF ExistsBijection
<1>4. IsFiniteSet(PartsOf(w)) /\ Weight(w) \in Nat
  BY WeightType
<1>5. PartsOf(v) = PartsOf(w) \cup more
  <2>1. ASSUME NEW x \in PartsOf(v) PROVE x \in PartsOf(w) \cup more
    <3>1. PICK m \in D : \E i \in 1..v[m] : x = <<m, i>>
      BY <2>1, PartIn
    <3>2. PICK i \in 1..v[m] : x = <<m, i>>
      BY <3>1
    <3>3. w[m] \in Nat
      OBVIOUS
    <3>4. CASE i \in 1..w[m]
      <4>1. m \in DOMAIN w
        OBVIOUS
      <4> QED
        BY <3>2, <3>4, <4>1, PartIn
    <3>5. CASE i \notin 1..w[m]
      <4>1. m \in T /\ i = w[m] + 1
        BY <3>3, <3>5
      <4> QED
        BY <3>2, <4>1
    <3> QED
      BY <3>4, <3>5
  <2>2. ASSUME NEW x \in PartsOf(w) PROVE x \in PartsOf(v)
    <3>1. PICK m \in D : \E i \in 1..w[m] : x = <<m, i>>
      BY <2>2, PartIn
    <3>2. m \in DOMAIN v /\ \E i \in 1..v[m] : x = <<m, i>>
      BY <3>1
    <3> QED
      BY <3>2, PartIn
  <2>3. ASSUME NEW x \in more PROVE x \in PartsOf(v)
    <3>1. PICK m \in T : x = <<m, w[m] + 1>>
      BY <2>3
    <3>2. m \in DOMAIN v /\ w[m] + 1 \in 1..v[m]
      BY <3>1
    <3> QED
      BY <3>1, <3>2, PartIn
  <2> QED
    BY <2>1, <2>2, <2>3
<1>6. PartsOf(w) \cap more = {}
  <2>1. ASSUME NEW x \in PartsOf(w) PROVE x \notin more
    <3>1. PICK m \in D : \E i \in 1..w[m] : x = <<m, i>>
      BY <2>1, PartIn
    <3> QED
      BY <3>1
  <2> QED
    BY <2>1
<1> HIDE DEF more
<1>7. Cardinality(PartsOf(v)) = Cardinality(PartsOf(w)) + Cardinality(more) - Cardinality(PartsOf(w) \cap more)
  BY <1>3, <1>4, <1>5, FS_Union
<1>8. Cardinality(PartsOf(w) \cap more) = 0
  BY <1>6, FS_EmptySet
<1>9. Cardinality(T) \in Nat
  BY <1>1, FS_CardinalityType
<1> QED
  BY <1>3, <1>4, <1>7, <1>8, <1>9 DEF Weight
StoreNames == {name \in Nat : DayOf(name) \in 1..MaxTraceDays /\ name % 1000 \in 1..MaxTraceRows}
Tails == [line : LinesOf, whole : BOOLEAN, present : BOOLEAN]
StoreFiles == [inode : Nat, lines : Seq(LinesOf), tail : Tails]
StoreWriters == [at : {"down", "idle", "evict", "rest", "sweep"}, open : Nat, total : Int, line : LinesOf]
Measures == UNION {[D -> [inode : Nat, end : Nat]] : D \in SUBSET StoreNames}
Selections ==
    [at : {"idle", "measure", "verify", "read", "check", "done", "changed"}, names : SUBSET StoreNames, todo : SUBSET StoreNames,
     ends : Measures, read : {<<>>} \cup [lines : Seq(LinesOf), part : LinesOf],
     found : SUBSET LinesOf, had : SUBSET LinesOf, bound : SUBSET LinesOf]
StorePasts == [rows : 0..MaxTraceRows, files : Nat, opens : Nat, selections : Nat, purges : Nat, faults : Nat, left : Nat]

StoreTypes ==
    /\ segments = [name \in DOMAIN segments |-> segments[name]]
    /\ DOMAIN segments \subseteq StoreNames /\ IsFiniteSet(DOMAIN segments)
    /\ \A name \in DOMAIN segments : segments[name] \in StoreFiles
    /\ traceDay \in 2..MaxTraceDays /\ writerLock \in {"free", "writer", "purge", "janitor"}
    /\ storeWriter \in StoreWriters /\ storeWriter.open \in DOMAIN segments \cup {NoFile}
    /\ purging \subseteq DOMAIN segments
    /\ storePast \in StorePasts /\ storePast.files < storePast.rows
    /\ selection \in Selections

\* The lock of the directory is whose it says.
LocksHold ==
    /\ writerLock = "writer" <=> storeWriter.at # "down"
    /\ storeWriter.at = "down" => storeWriter.open = NoFile
    /\ purging # {} <=> writerLock \in {"purge", "janitor"}
    /\ writerLock = "janitor" => \A name \in purging : Expired(name)

\* A line that was written is counted, and is not the one that is still to be written.
Counted(line) == line.id \in 1..storePast.rows /\ (storeWriter.at = "evict" => line.id # storePast.rows)

\* What a segment holds is of its day.
FileHolds(name) ==
    LET file == segments[name]
    IN  /\ file.inode <= storePast.files /\ name % 1000 <= storePast.files
        /\ \A i \in 1..Len(file.lines) : Counted(file.lines[i]) /\ file.lines[i].day = DayOf(name)
        /\ file.tail.whole => file.tail.present
        /\ file.tail.present => Counted(file.tail.line) /\ file.tail.line.day = DayOf(name)

\* No two ends without a newline are of one line, and none is of a line that is whole.
TailsApart ==
    \A name \in DOMAIN segments : segments[name].tail.present =>
        \A other \in DOMAIN segments :
            /\ \A i \in 1..Len(segments[other].lines) : segments[other].lines[i] # segments[name].tail.line
            /\ other # name /\ segments[other].tail.present => segments[other].tail.line # segments[name].tail.line

\* The writer has a segment open for the line it writes, which ends with a newline until it does.
WriterHolds ==
    LET w == storeWriter
    IN  /\ w.at \in {"evict", "rest"} => w.open # NoFile
        /\ w.open # NoFile => (segments[w.open].tail.present <=> w.at = "rest")
        /\ w.at = "evict" => w.line.id = storePast.rows /\ w.line.day = DayOf(w.open)

\* What is in the directory, and what the writer counts of it.
TailsLeft == {name \in DOMAIN segments : segments[name].tail.present} \ (IF storeWriter.at = "rest" THEN {storeWriter.open} ELSE {})
RoundedSize(file) == SizeOf(file) + (IF file.tail.present THEN 1 ELSE 0)
Rounded(files) == Weight([name \in DOMAIN files |-> RoundedSize(files[name])])
PartsCounted ==
    /\ storeWriter.at \in {"idle", "evict", "sweep"} => Total(segments) = storeWriter.total + storePast.left
    /\ storeWriter.at = "rest" => Total(segments) = storeWriter.total + storePast.left + 1
    /\ storePast.left <= storePast.faults /\ Cardinality(TailsLeft) <= storePast.faults
    /\ Rounded(segments) <= MaxStoreParts + LineParts * storePast.faults

\* The segments that were measured and are still there.
Same(k) == {name \in DOMAIN k.ends \cap DOMAIN segments : segments[name].inode = k.ends[name].inode}
LinesTo(k, name) == k.ends[name].end \div LineParts

Selects(k) ==
    /\ k.todo \subseteq k.names /\ DOMAIN k.ends \subseteq k.names
    /\ \A line \in k.had : Counted(line)
    /\ \A name \in DOMAIN segments : segments[name].tail.present => segments[name].tail.line \notin k.had
    /\ \A name \in DOMAIN k.ends : k.ends[name].inode <= storePast.files
    /\ \A name \in Same(k) :
         /\ LinesTo(k, name) <= Len(segments[name].lines)
         /\ \A i \in 1..Len(segments[name].lines) : segments[name].lines[i] \in k.had => i <= LinesTo(k, name)

Verified(k) ==
    /\ DOMAIN k.ends = k.names /\ k.todo # {} /\ k.found \subseteq k.bound
    /\ \A name \in Same(k) \cap k.todo : \A i \in 1..LinesTo(k, name) : segments[name].lines[i] \in k.bound
    /\ \A line \in (k.had \cap k.bound) \ k.found : \E name \in k.todo :
         name \in Same(k) => \E i \in 1..LinesTo(k, name) : segments[name].lines[i] = line

SelectionHolds(k) ==
    /\ k.at \in {"measure", "verify", "read", "check"} => Selects(k)
    /\ k.at = "measure" => k.todo # {} /\ DOMAIN k.ends \cup k.todo = k.names
    /\ k.at = "verify" => DOMAIN k.ends = k.names
    /\ k.at \in {"measure", "verify"} => k.found = {}
    /\ k.at \in {"read", "check"} => Verified(k)
    /\ k.at = "done" => k.had \cap k.bound \subseteq k.found /\ k.found \subseteq k.bound

StoreInv ==
    /\ StoreTypes /\ LocksHold /\ TailsApart /\ WriterHolds /\ PartsCounted
    /\ \A name \in DOMAIN segments : FileHolds(name)
    /\ SelectionHolds(selection)
-----------------------------------------------------------------------------
\* A name is of a day, and has a number in it.
LEMMA NameFacts ==
    ASSUME NEW name \in StoreNames
    PROVE  name \in Nat /\ DayOf(name) \in 1..MaxTraceDays /\ name % 1000 \in 1..MaxTraceRows /\ name # NoFile
<1>1. name \in Nat /\ DayOf(name) \in 1..MaxTraceDays /\ name % 1000 \in 1..MaxTraceRows
  BY DEF StoreNames
<1>2. name # 0
  BY <1>1 DEF DayOf
<1> QED
  BY <1>1, <1>2 DEF NoFile

\* The name of a day and a number.
LEMMA NewName ==
    ASSUME NEW day \in 1..MaxTraceDays, NEW number \in 1..MaxTraceRows
    PROVE  NameOf(day, number) \in StoreNames /\ DayOf(NameOf(day, number)) = day /\ NameOf(day, number) % 1000 = number
<1>1. number \in 1..999 /\ day \in Nat
  BY StoreBounds
<1>2. NameOf(day, number) \in Nat
  BY <1>1 DEF NameOf
<1>3. DayOf(NameOf(day, number)) = day /\ NameOf(day, number) % 1000 = number
  BY <1>1 DEF DayOf, NameOf
<1> QED
  BY <1>2, <1>3 DEF StoreNames

\* The members of a line and of the end of a file.
LEMMA LineFields ==
    ASSUME NEW line \in LinesOf
    PROVE  line.id \in 0..MaxTraceRows /\ line.day \in 0..MaxTraceDays
BY DEF LinesOf

\* The fields of what a cut line left.
LEMMA TailFields ==
    ASSUME NEW t \in Tails
    PROVE  t.line \in LinesOf /\ t.whole \in BOOLEAN /\ t.present \in BOOLEAN
BY DEF Tails

\* What is in no file.
LEMMA NothingTyped == Garbled \in LinesOf /\ NoPart \in Tails /\ ~NoPart.present
<1>1. Garbled \in LinesOf
  BY StoreBounds DEF Garbled, LinesOf
<1> QED
  BY <1>1 DEF NoPart, Tails

\* The members of a file, and its size.
LEMMA SegmentFields ==
    ASSUME NEW f \in StoreFiles
    PROVE  /\ f.inode \in Nat /\ f.lines \in Seq(LinesOf) /\ Len(f.lines) \in Nat /\ f.tail \in Tails
           /\ \A i \in 1..Len(f.lines) : f.lines[i] \in LinesOf
           /\ f.tail.line \in LinesOf /\ f.tail.present \in BOOLEAN
           /\ SizeOf(f) = 2 * Len(f.lines) + (IF f.tail.present THEN 1 ELSE 0)
           /\ SizeOf(f) \in Nat /\ RoundedSize(f) \in Nat
           /\ RoundedSize(f) = 2 * Len(f.lines) + (IF f.tail.present THEN 2 ELSE 0)
<1>1. /\ f.inode \in Nat /\ f.lines \in Seq(LinesOf) /\ Len(f.lines) \in Nat /\ f.tail \in Tails
      /\ \A i \in 1..Len(f.lines) : f.lines[i] \in LinesOf
  BY DEF StoreFiles
<1>2. f.tail.line \in LinesOf /\ f.tail.present \in BOOLEAN
  BY <1>1, TailFields
<1>3. SizeOf(f) = 2 * Len(f.lines) + (IF f.tail.present THEN 1 ELSE 0)
  BY DEF SizeOf, LineParts
<1>4. SizeOf(f) \in Nat /\ RoundedSize(f) \in Nat /\ RoundedSize(f) = 2 * Len(f.lines) + (IF f.tail.present THEN 2 ELSE 0)
  <2>1. CASE f.tail.present
    BY <1>1, <1>3, <2>1 DEF RoundedSize
  <2>2. CASE ~f.tail.present
    BY <1>1, <1>3, <2>2 DEF RoundedSize
  <2> QED
    BY <2>1, <2>2
<1> QED
  BY <1>1, <1>2, <1>3, <1>4

\* The end of a file is replaced.
LEMMA TailReplaced ==
    ASSUME NEW f \in StoreFiles, NEW t \in Tails, NEW g, g = [f EXCEPT !.tail = t]
    PROVE  g \in StoreFiles /\ g.inode = f.inode /\ g.lines = f.lines /\ g.tail = t
BY DEF StoreFiles

\* The end of a file becomes a line of it.
LEMMA TailEnded ==
    ASSUME NEW f \in StoreFiles, NEW g \in StoreFiles, g.lines = Append(f.lines, f.tail.line)
    PROVE  /\ Len(g.lines) = Len(f.lines) + 1 /\ (\A i \in 1..Len(f.lines) : g.lines[i] = f.lines[i])
           /\ g.lines[Len(g.lines)] = f.tail.line
<1>1. f.lines \in Seq(LinesOf) /\ f.tail.line \in LinesOf
  BY SegmentFields
<1>2. /\ Len(Append(f.lines, f.tail.line)) = Len(f.lines) + 1
      /\ \A i \in 1..Len(f.lines) : Append(f.lines, f.tail.line)[i] = f.lines[i]
      /\ Append(f.lines, f.tail.line)[Len(f.lines) + 1] = f.tail.line
  BY <1>1
<1> QED
  BY <1>1, <1>2

\* A directory that can be counted.
FilesTyped(files) ==
    /\ files = [name \in DOMAIN files |-> files[name]] /\ IsFiniteSet(DOMAIN files)
    /\ \A name \in DOMAIN files : files[name] \in StoreFiles
SizesOf(files) == [name \in DOMAIN files |-> SizeOf(files[name])]
RoundedSizes(files) == [name \in DOMAIN files |-> RoundedSize(files[name])]

\* The parts of a directory are those of its files.
LEMMA TotalWeighs ==
    ASSUME NEW f, FilesTyped(f)
    PROVE  /\ SizesOf(f) \in [DOMAIN f -> Nat] /\ RoundedSizes(f) \in [DOMAIN f -> Nat]
           /\ Total(f) = Weight(SizesOf(f)) /\ Rounded(f) = Weight(RoundedSizes(f))
           /\ Total(f) \in Nat /\ Rounded(f) \in Nat
<1>1. \A name \in DOMAIN f : SizeOf(f[name]) \in Nat /\ RoundedSize(f[name]) \in Nat
  BY SegmentFields DEF FilesTyped
<1>2. SizesOf(f) \in [DOMAIN f -> Nat] /\ RoundedSizes(f) \in [DOMAIN f -> Nat]
  BY <1>1 DEF SizesOf, RoundedSizes
<1>3. Rounded(f) = Weight(RoundedSizes(f))
  BY DEF Rounded, RoundedSizes
<1>4. Total(f) = Weight(SizesOf(f))
  <2>1. DOMAIN SizesOf(f) = DOMAIN f /\ \A name \in DOMAIN f : SizesOf(f)[name] = SizeOf(f[name])
    BY DEF SizesOf
  <2>2. {{name} \X (1..SizeOf(f[name])) : name \in DOMAIN f} = {{name} \X (1..SizesOf(f)[name]) : name \in DOMAIN SizesOf(f)}
    BY <2>1
  <2> QED
    BY <2>2 DEF Total, Weight, PartsOf
<1>5. IsFiniteSet(DOMAIN f)
  BY DEF FilesTyped
<1> QED
  BY <1>2, <1>3, <1>4, <1>5, WeightType

\* One file changes.
LEMMA TotalChanges ==
    ASSUME NEW f, FilesTyped(f), NEW g, FilesTyped(g), DOMAIN g = DOMAIN f, NEW n \in DOMAIN f,
           \A m \in DOMAIN f \ {n} : g[m] = f[m]
    PROVE  /\ Total(g) = Total(f) - SizeOf(f[n]) + SizeOf(g[n])
           /\ Rounded(g) = Rounded(f) - RoundedSize(f[n]) + RoundedSize(g[n])
<1>1. IsFiniteSet(DOMAIN f)
  BY DEF FilesTyped
<1>2. SizesOf(f)[n] = SizeOf(f[n]) /\ SizesOf(g)[n] = SizeOf(g[n])
      /\ \A m \in DOMAIN f \ {n} : SizesOf(g)[m] = SizesOf(f)[m]
  BY DEF SizesOf
<1>3. RoundedSizes(f)[n] = RoundedSize(f[n]) /\ RoundedSizes(g)[n] = RoundedSize(g[n])
      /\ \A m \in DOMAIN f \ {n} : RoundedSizes(g)[m] = RoundedSizes(f)[m]
  BY DEF RoundedSizes
<1>4. /\ SizesOf(f) \in [DOMAIN f -> Nat] /\ SizesOf(g) \in [DOMAIN f -> Nat]
      /\ RoundedSizes(f) \in [DOMAIN f -> Nat] /\ RoundedSizes(g) \in [DOMAIN f -> Nat]
  BY TotalWeighs
<1>5. Weight(SizesOf(g)) = Weight(SizesOf(f)) - SizesOf(f)[n] + SizesOf(g)[n]
  BY <1>1, <1>2, <1>4, WeightChanges
<1>6. Weight(RoundedSizes(g)) = Weight(RoundedSizes(f)) - RoundedSizes(f)[n] + RoundedSizes(g)[n]
  BY <1>1, <1>3, <1>4, WeightChanges
<1> QED
  BY <1>2, <1>3, <1>5, <1>6, TotalWeighs

\* One file goes.
LEMMA TotalWithout ==
    ASSUME NEW f, FilesTyped(f), NEW n \in DOMAIN f, NEW g, FilesTyped(g), DOMAIN g = DOMAIN f \ {n},
           \A m \in DOMAIN f \ {n} : g[m] = f[m]
    PROVE  Total(f) = Total(g) + SizeOf(f[n]) /\ Rounded(f) = Rounded(g) + RoundedSize(f[n])
<1>1. IsFiniteSet(DOMAIN f)
  BY DEF FilesTyped
<1>2. SizesOf(f)[n] = SizeOf(f[n])
  BY DEF SizesOf
<1>7. \A m \in DOMAIN f \ {n} : SizesOf(g)[m] = SizesOf(f)[m]
  BY DEF SizesOf
<1>3. RoundedSizes(f)[n] = RoundedSize(f[n]) /\ \A m \in DOMAIN f \ {n} : RoundedSizes(g)[m] = RoundedSizes(f)[m]
  BY DEF RoundedSizes
<1>4. SizesOf(f) \in [DOMAIN f -> Nat] /\ SizesOf(g) \in [DOMAIN f \ {n} -> Nat]
  BY TotalWeighs
<1>8. RoundedSizes(f) \in [DOMAIN f -> Nat] /\ RoundedSizes(g) \in [DOMAIN f \ {n} -> Nat]
  BY TotalWeighs
<1>5. Weight(SizesOf(f)) = Weight(SizesOf(g)) + SizesOf(f)[n]
  BY <1>1, <1>4, <1>7, WeightSplits
<1>6. Weight(RoundedSizes(f)) = Weight(RoundedSizes(g)) + RoundedSizes(f)[n]
  BY <1>1, <1>3, <1>8, WeightSplits
<1> QED
  BY <1>2, <1>3, <1>5, <1>6, TotalWeighs

\* An empty file comes.
LEMMA TotalAdds ==
    ASSUME NEW f, FilesTyped(f), NEW n, n \notin DOMAIN f, NEW g, FilesTyped(g), DOMAIN g = DOMAIN f \cup {n},
           g[n].lines = <<>>, ~g[n].tail.present, \A m \in DOMAIN f : g[m] = f[m]
    PROVE  Total(g) = Total(f) /\ Rounded(g) = Rounded(f)
<1>1. DOMAIN f = DOMAIN g \ {n} /\ n \in DOMAIN g
  OBVIOUS
<1>2. Total(g) = Total(f) + SizeOf(g[n]) /\ Rounded(g) = Rounded(f) + RoundedSize(g[n])
  BY <1>1, TotalWithout
<1>3. SizeOf(g[n]) = 0 /\ RoundedSize(g[n]) = 0
  <2>1. g[n] \in StoreFiles /\ Len(g[n].lines) = 0
    BY <1>1 DEF FilesTyped
  <2>2. SizeOf(g[n]) = 2 * Len(g[n].lines) + 0 /\ RoundedSize(g[n]) = 2 * Len(g[n].lines) + 0
    BY <2>1, SegmentFields
  <2> QED
    BY <2>1, <2>2
<1> QED
  BY <1>2, <1>3, TotalWeighs

TailsOf(files) == {name \in DOMAIN files : files[name].tail.present}

\* The sizes that are rounded to lines are the parts and the ends that have none.
LEMMA RoundedUp ==
    ASSUME NEW f, FilesTyped(f)
    PROVE  Rounded(f) = Total(f) + Cardinality(TailsOf(f)) /\ Cardinality(TailsOf(f)) \in Nat /\ IsFiniteSet(TailsOf(f))
<1>1. IsFiniteSet(DOMAIN f) /\ TailsOf(f) \subseteq DOMAIN f
  BY DEF FilesTyped, TailsOf
<1>2. IsFiniteSet(TailsOf(f))
  BY <1>1, FS_Subset
<1>3. \A m \in DOMAIN f : RoundedSizes(f)[m] = SizesOf(f)[m] + (IF m \in TailsOf(f) THEN 1 ELSE 0)
  BY DEF RoundedSizes, SizesOf, RoundedSize, TailsOf
<1>4. SizesOf(f) \in [DOMAIN f -> Nat] /\ RoundedSizes(f) \in [DOMAIN f -> Nat]
  BY TotalWeighs
<1>5. Weight(RoundedSizes(f)) = Weight(SizesOf(f)) + Cardinality(TailsOf(f))
  BY <1>1, <1>3, <1>4, WeightWith
<1> QED
  BY <1>2, <1>5, TotalWeighs, FS_CardinalityType

-----------------------------------------------------------------------------
\* What was written stays so.
CountedThen(line) == line.id \in 1..storePast'.rows /\ (storeWriter'.at = "evict" => line.id # storePast'.rows)
CountsOn == \A line \in LinesOf : Counted(line) => CountedThen(line)

\* A file that is what it was, or has more at its end that a selection has not seen.
Carries(old, new, had) ==
    /\ new.inode = old.inode /\ Len(old.lines) <= Len(new.lines)
    /\ \A i \in 1..Len(old.lines) : new.lines[i] = old.lines[i]
    /\ \A i \in (Len(old.lines) + 1)..Len(new.lines) : new.lines[i] \notin had
    /\ new.tail.present => new.tail.line \notin had

Selecting == selection.at \in {"measure", "verify", "read", "check"}

\* What the invariant says of the files.
LEMMA FilesFacts ==
    ASSUME StoreTypes
    PROVE  /\ FilesTyped(segments) /\ DOMAIN segments \subseteq Nat
           /\ \A name \in DOMAIN segments : name \in StoreNames /\ segments[name] \in StoreFiles
BY NameFacts DEF StoreTypes, FilesTyped

\* The members of what a selection has done have their values.
LEMMA SelectionFields ==
    ASSUME NEW k \in Selections
    PROVE  /\ k.at \in {"idle", "measure", "verify", "read", "check", "done", "changed"}
           /\ k.names \in SUBSET StoreNames /\ k.todo \in SUBSET StoreNames /\ k.ends \in Measures
           /\ k.found \in SUBSET LinesOf /\ k.had \in SUBSET LinesOf /\ k.bound \in SUBSET LinesOf
BY DEF Selections

\* What was measured.
LEMMA MeasureFields ==
    ASSUME NEW ends \in Measures
    PROVE  /\ DOMAIN ends \subseteq StoreNames /\ ends = [name \in DOMAIN ends |-> ends[name]]
           /\ \A name \in DOMAIN ends : ends[name] \in [inode : Nat, end : Nat] /\ ends[name].inode \in Nat /\ ends[name].end \in Nat
                                        /\ ends[name].end \div LineParts \in Nat
<1>1. /\ DOMAIN ends \subseteq StoreNames /\ ends = [name \in DOMAIN ends |-> ends[name]]
      /\ \A name \in DOMAIN ends : ends[name] \in [inode : Nat, end : Nat] /\ ends[name].inode \in Nat /\ ends[name].end \in Nat
  BY DEF Measures
<1>2. \A n \in Nat : n \div LineParts \in Nat
  BY DEF LineParts
<1> QED
  BY <1>1, <1>2

\* A file that does not change is carried.
LEMMA SameCarried ==
    ASSUME StoreInv, Selecting, NEW name \in DOMAIN segments
    PROVE  Carries(segments[name], segments[name], selection.had)
<1>1. segments[name].tail.present => segments[name].tail.line \notin selection.had
  BY DEF StoreInv, SelectionHolds, Selecting, Selects
<1>2. Len(segments[name].lines) \in Nat
  BY FilesFacts, SegmentFields DEF StoreInv
<1> QED
  BY <1>1, <1>2 DEF Carries

\* Files are carried or new to a selection: what it has measured is still so.
LEMMA SelectionStays ==
    ASSUME StoreInv, StoreTypes', UNCHANGED selection, storePast.files <= storePast'.files, CountsOn,
           Selecting => \A name \in DOMAIN segments' :
               \/ name \in DOMAIN segments /\ Carries(segments[name], segments'[name], selection.had)
               \/ segments'[name].inode > storePast.files /\ ~segments'[name].tail.present
    PROVE  SelectionHolds(selection)'
<1> DEFINE k == selection
<1>1. k \in Selections /\ k' = k /\ SelectionHolds(k) /\ storePast.files \in Nat /\ storePast'.files \in Nat
  BY DEF StoreInv, StoreTypes, StorePasts
<1>2. k.ends \in Measures /\ k.had \subseteq LinesOf /\ k.ends \in Measures /\ k.todo \subseteq StoreNames
  BY <1>1, SelectionFields
<1>3. \A name \in DOMAIN k.ends : k.ends[name].inode \in Nat /\ LinesTo(k, name) \in Nat
  BY <1>2, MeasureFields DEF LinesTo
<1>4. \A name \in DOMAIN segments : Len(segments[name].lines) \in Nat
  BY FilesFacts, SegmentFields DEF StoreInv
<1>5. \A name \in DOMAIN segments' : Len(segments'[name].lines) \in Nat /\ segments'[name].inode \in Nat
  BY SegmentFields DEF StoreTypes
<1>6. ASSUME Selecting PROVE Selects(k)' /\ (Verified(k) => Verified(k)')
  <2>1. Selects(k)
    BY <1>1, <1>6 DEF SelectionHolds, Selecting
  <2>2. ASSUME NEW name \in Same(k)'
        PROVE  name \in Same(k) /\ Carries(segments[name], segments'[name], k.had)
    <3>1. name \in DOMAIN k.ends /\ name \in DOMAIN segments' /\ segments'[name].inode = k.ends[name].inode
      BY <1>1, <2>2 DEF Same
    <3>2. k.ends[name].inode <= storePast.files
      BY <2>1, <3>1 DEF Selects
    <3>3. ~(segments'[name].inode > storePast.files)
      BY <1>1, <1>3, <3>1, <3>2
    <3>4. name \in DOMAIN segments /\ Carries(segments[name], segments'[name], k.had)
      BY <1>6, <3>1, <3>3
    <3>5. segments[name].inode = k.ends[name].inode
      BY <3>1, <3>4 DEF Carries
    <3> QED
      BY <3>1, <3>4, <3>5 DEF Same
  <2>3. ASSUME NEW name \in Same(k)'
        PROVE  /\ LinesTo(k, name) <= Len(segments'[name].lines) /\ LinesTo(k, name) <= Len(segments[name].lines)
               /\ \A i \in 1..LinesTo(k, name) : segments'[name].lines[i] = segments[name].lines[i]
               /\ \A i \in 1..Len(segments'[name].lines) : segments'[name].lines[i] \in k.had => i <= LinesTo(k, name)
    <3> DEFINE old == segments[name].lines
               new == segments'[name].lines
               to  == LinesTo(k, name)
    <3>1. name \in Same(k) /\ Carries(segments[name], segments'[name], k.had) /\ name \in DOMAIN segments /\ name \in DOMAIN k.ends
          /\ name \in DOMAIN segments'
      <4>1. name \in DOMAIN segments'
        BY <1>1, <2>3 DEF Same
      <4> QED
        BY <2>2, <2>3, <4>1 DEF Same
    <3>2. to <= Len(old) /\ \A i \in 1..Len(old) : old[i] \in k.had => i <= to
      BY <2>1, <3>1 DEF Selects
    <3>3. /\ Len(old) <= Len(new) /\ (\A i \in 1..Len(old) : new[i] = old[i])
          /\ \A i \in (Len(old) + 1)..Len(new) : new[i] \notin k.had
      BY <3>1 DEF Carries
    <3>4. to \in Nat /\ Len(old) \in Nat /\ Len(new) \in Nat
      BY <1>3, <1>4, <1>5, <3>1
    <3> HIDE DEF old, new, to
    <3>5. to <= Len(new)
      BY <3>2, <3>3, <3>4
    <3>6. \A i \in 1..to : new[i] = old[i]
      BY <3>2, <3>3, <3>4
    <3>7. ASSUME NEW i \in 1..Len(new), new[i] \in k.had PROVE i <= to
      <4>1. i \in 1..Len(old)
        BY <3>3, <3>4, <3>7
      <4> QED
        BY <3>2, <3>3, <3>7, <4>1
    <3> QED
      BY <3>2, <3>5, <3>6, <3>7 DEF old, new, to
  <2>4. \A line \in k.had : Counted(line)'
    BY <1>2, <2>1 DEF Selects, CountsOn, Counted, CountedThen
  <2>5. \A name \in DOMAIN segments' : segments'[name].tail.present => segments'[name].tail.line \notin k.had
    BY <1>6 DEF Carries
  <2>6. \A name \in DOMAIN k.ends : k.ends[name].inode <= storePast'.files
    BY <1>1, <1>3, <2>1 DEF Selects
  <2>7. k.todo \subseteq k.names /\ DOMAIN k.ends \subseteq k.names
    BY <2>1 DEF Selects
  <2>8. Selects(k)'
    BY <1>1, <2>3, <2>4, <2>5, <2>6, <2>7 DEF Selects, LinesTo
  <2>9. ASSUME Verified(k) PROVE Verified(k)'
    <3>1. \A name \in Same(k)' \cap k.todo : \A i \in 1..LinesTo(k, name) : segments'[name].lines[i] \in k.bound
      BY <2>2, <2>3, <2>9 DEF Verified
    <3>2. ASSUME NEW line \in (k.had \cap k.bound) \ k.found
          PROVE  \E name \in k.todo : name \in Same(k)' => \E i \in 1..LinesTo(k, name) : segments'[name].lines[i] = line
      <4>1. PICK name \in k.todo : name \in Same(k) => \E i \in 1..LinesTo(k, name) : segments[name].lines[i] = line
        BY <2>9 DEF Verified
      <4> QED
        BY <2>2, <2>3, <4>1
    <3>3. DOMAIN k.ends = k.names /\ k.todo # {} /\ k.found \subseteq k.bound
      BY <2>9 DEF Verified
    <3> QED
      BY <1>1, <3>1, <3>2, <3>3 DEF Verified, LinesTo
  <2> QED
    BY <2>8, <2>9
<1>7. CASE Selecting
  BY <1>1, <1>6, <1>7 DEF SelectionHolds, Selecting
<1>8. CASE ~Selecting
  BY <1>1, <1>8 DEF SelectionHolds, Selecting
<1> QED
  BY <1>7, <1>8

\* What the files hold, and what is said of it.
ContentHolds == TailsApart /\ (\A name \in DOMAIN segments : FileHolds(name)) /\ SelectionHolds(selection)

\* Nothing moves that the contents are about.
LEMMA ContentStays ==
    ASSUME StoreInv, StoreTypes', UNCHANGED <<segments, selection>>, CountsOn, storePast.files <= storePast'.files
    PROVE  ContentHolds'
<1>1. SelectionHolds(selection)'
  BY SelectionStays, SameCarried
<1>2. TailsApart'
  BY DEF StoreInv, TailsApart
<1>3. ASSUME NEW name \in DOMAIN segments PROVE FileHolds(name)'
  <2>1. FileHolds(name) /\ segments[name] \in StoreFiles
    BY FilesFacts DEF StoreInv
  <2>2. \A i \in 1..Len(segments[name].lines) : segments[name].lines[i] \in LinesOf
    BY <2>1, SegmentFields
  <2>3. segments[name].tail.line \in LinesOf /\ segments[name].inode \in Nat
    BY <2>1, SegmentFields
  <2>4. storePast.files \in Nat /\ storePast'.files \in Nat /\ name % 1000 \in Nat
    BY FilesFacts, NameFacts DEF StoreInv, StoreTypes, StorePasts
  <2> QED
    BY <2>1, <2>2, <2>3, <2>4 DEF FileHolds, CountsOn, Counted, CountedThen
<1> QED
  BY <1>1, <1>2, <1>3 DEF ContentHolds

\* A file may change so: it keeps its lines and its end, or its end becomes a line or goes.
Settles(old, new) ==
    \/ new.lines = old.lines /\ new.tail.line = old.tail.line /\ (new.tail.present <=> old.tail.present)
    \/ /\ ~new.tail.present
       /\ \A i \in 1..Len(new.lines) :
            \/ i \in 1..Len(old.lines) /\ new.lines[i] = old.lines[i]
            \/ old.tail.present /\ new.lines[i] = old.tail.line

\* One file becomes another.
LEMMA FileBecomes ==
    ASSUME StoreInv, NEW n \in DOMAIN segments, NEW g \in StoreFiles, segments' = [segments EXCEPT ![n] = g]
    PROVE  /\ FilesTyped(segments') /\ DOMAIN segments' = DOMAIN segments /\ segments'[n] = g
           /\ \A m \in DOMAIN segments \ {n} : segments'[m] = segments[m]
           /\ Total(segments') = Total(segments) - SizeOf(segments[n]) + SizeOf(g)
           /\ Rounded(segments') = Rounded(segments) - RoundedSize(segments[n]) + RoundedSize(g)
<1>1. FilesTyped(segments)
  BY FilesFacts DEF StoreInv
<1>2. segments = [name \in DOMAIN segments |-> segments[name]]
  BY <1>1 DEF FilesTyped
<1>3. /\ segments' = [name \in DOMAIN segments' |-> segments'[name]] /\ DOMAIN segments' = DOMAIN segments /\ segments'[n] = g
      /\ \A m \in DOMAIN segments \ {n} : segments'[m] = segments[m]
  BY <1>2
<1>4. FilesTyped(segments')
  BY <1>1, <1>3 DEF FilesTyped
<1> QED
  BY <1>1, <1>3, <1>4, TotalChanges

\* What each file holds makes what is said of all.
LEMMA FileHoldsThen ==
    ASSUME StoreInv, NEW name \in DOMAIN segments, StoreTypes', storePast.files <= storePast'.files, CountsOn
    PROVE  LET file == segments[name]
           IN  /\ file.inode <= storePast'.files /\ name % 1000 <= storePast'.files
               /\ \A i \in 1..Len(file.lines) : CountedThen(file.lines[i]) /\ file.lines[i].day = DayOf(name)
               /\ file.tail.whole => file.tail.present
               /\ file.tail.present => CountedThen(file.tail.line) /\ file.tail.line.day = DayOf(name)
<1>1. FileHolds(name) /\ segments[name] \in StoreFiles
  BY FilesFacts DEF StoreInv
<1>2. \A i \in 1..Len(segments[name].lines) : segments[name].lines[i] \in LinesOf
  BY <1>1, SegmentFields
<1>3. segments[name].tail.line \in LinesOf /\ segments[name].inode \in Nat
  BY <1>1, SegmentFields
<1>4. storePast.files \in Nat /\ storePast'.files \in Nat /\ name % 1000 \in Nat
  BY FilesFacts, NameFacts DEF StoreInv, StoreTypes, StorePasts
<1> DEFINE file == segments[name]
<1>5. /\ file.inode <= storePast.files /\ name % 1000 <= storePast.files
      /\ \A i \in 1..Len(file.lines) : Counted(file.lines[i]) /\ file.lines[i].day = DayOf(name)
      /\ file.tail.whole => file.tail.present
      /\ file.tail.present => Counted(file.tail.line) /\ file.tail.line.day = DayOf(name)
  BY <1>1 DEF FileHolds
<1>6. file.inode <= storePast'.files /\ name % 1000 <= storePast'.files
  BY <1>3, <1>4, <1>5
<1>7. \A i \in 1..Len(file.lines) : CountedThen(file.lines[i]) /\ file.lines[i].day = DayOf(name)
  BY <1>2, <1>5 DEF CountsOn
<1>8. file.tail.present => CountedThen(file.tail.line)
  BY <1>3, <1>5 DEF CountsOn
<1> QED
  BY <1>5, <1>6, <1>7, <1>8

\* A file settles: what the files hold is still so.
LEMMA FileSettles ==
    ASSUME StoreInv, StoreTypes', NEW n \in DOMAIN segments, NEW g \in StoreFiles, segments' = [segments EXCEPT ![n] = g],
           UNCHANGED selection, CountsOn, storePast.files <= storePast'.files,
           Settles(segments[n], g), g.inode = segments[n].inode, g.tail.whole => g.tail.present,
           Selecting => Carries(segments[n], g, selection.had)
    PROVE  ContentHolds'
<1> DEFINE f == segments[n]
<1>1. /\ DOMAIN segments' = DOMAIN segments /\ segments'[n] = g
      /\ \A m \in DOMAIN segments \ {n} : segments'[m] = segments[m]
  BY FileBecomes
<1>2. SelectionHolds(selection)'
  <2>1. Selecting => \A name \in DOMAIN segments' : name \in DOMAIN segments /\ Carries(segments[name], segments'[name], selection.had)
    BY <1>1, SameCarried
  <2> QED
    BY <2>1, SelectionStays
<1>3. /\ \A i \in 1..Len(g.lines) : CountedThen(g.lines[i]) /\ g.lines[i].day = DayOf(n)
      /\ g.tail.present => CountedThen(g.tail.line) /\ g.tail.line.day = DayOf(n)
      /\ g.inode <= storePast'.files /\ n % 1000 <= storePast'.files
  <2>1. /\ f.inode <= storePast'.files /\ n % 1000 <= storePast'.files
        /\ \A i \in 1..Len(f.lines) : CountedThen(f.lines[i]) /\ f.lines[i].day = DayOf(n)
        /\ f.tail.present => CountedThen(f.tail.line) /\ f.tail.line.day = DayOf(n)
    BY FileHoldsThen
  <2> HIDE DEF f
  <2>2. Settles(f, g) /\ g.inode = f.inode
    BY DEF f
  <2>3. CASE g.lines = f.lines /\ g.tail.line = f.tail.line /\ (g.tail.present <=> f.tail.present)
    BY <2>1, <2>2, <2>3
  <2>4. CASE /\ ~g.tail.present
             /\ \A i \in 1..Len(g.lines) :
                  \/ i \in 1..Len(f.lines) /\ g.lines[i] = f.lines[i]
                  \/ f.tail.present /\ g.lines[i] = f.tail.line
    <3>1. ASSUME NEW i \in 1..Len(g.lines) PROVE CountedThen(g.lines[i]) /\ g.lines[i].day = DayOf(n)
      <4>1. CASE i \in 1..Len(f.lines) /\ g.lines[i] = f.lines[i]
        BY <2>1, <4>1
      <4>2. CASE f.tail.present /\ g.lines[i] = f.tail.line
        BY <2>1, <4>2
      <4> QED
        BY <2>4, <4>1, <4>2
    <3> QED
      BY <2>1, <2>2, <2>4, <3>1
  <2> QED
    BY <2>2, <2>3, <2>4 DEF Settles
<1>4. ASSUME NEW name \in DOMAIN segments' PROVE FileHolds(name)'
  <2>1. CASE name = n
    BY <1>1, <1>3, <2>1 DEF FileHolds, Counted, CountedThen
  <2>2. CASE name # n
    <3>1. name \in DOMAIN segments /\ segments'[name] = segments[name]
      BY <1>1, <2>2
    <3> QED
      BY <3>1, FileHoldsThen DEF FileHolds, Counted, CountedThen
  <2> QED
    BY <2>1, <2>2
<1>5. ASSUME NEW name \in DOMAIN segments', segments'[name].tail.present, NEW other \in DOMAIN segments'
      PROVE  /\ \A i \in 1..Len(segments'[other].lines) : segments'[other].lines[i] # segments'[name].tail.line
             /\ other # name /\ segments'[other].tail.present => segments'[other].tail.line # segments'[name].tail.line
  <2>1. segments[name].tail.present /\ segments'[name].tail.line = segments[name].tail.line
    BY <1>1, <1>5 DEF Settles
  <2>2. /\ \A i \in 1..Len(segments[other].lines) : segments[other].lines[i] # segments[name].tail.line
        /\ other # name /\ segments[other].tail.present => segments[other].tail.line # segments[name].tail.line
    BY <1>1, <2>1 DEF StoreInv, TailsApart
  <2>3. CASE other # n
    BY <1>1, <2>1, <2>2, <2>3
  <2>4. CASE other = n /\ name = n
    <3>1. g.lines = f.lines
      BY <1>1, <1>5, <2>4 DEF Settles
    <3> QED
      BY <1>1, <2>1, <2>2, <2>4, <3>1
  <2>5. CASE other = n /\ name # n
    <3>1. /\ \A i \in 1..Len(f.lines) : f.lines[i] # segments[name].tail.line
          /\ f.tail.present => f.tail.line # segments[name].tail.line
      BY <2>2, <2>5
    <3> HIDE DEF f
    <3>2. Settles(f, g)
      BY DEF f
    <3>3. (\A i \in 1..Len(g.lines) : g.lines[i] # segments[name].tail.line)
          /\ (g.tail.present => g.tail.line # segments[name].tail.line)
      BY <3>1, <3>2 DEF Settles
    <3> QED
      BY <1>1, <2>1, <2>5, <3>3
  <2> QED
    BY <2>3, <2>4, <2>5
<1>6. TailsApart'
  BY <1>5 DEF TailsApart
<1> QED
  BY <1>2, <1>4, <1>6 DEF ContentHolds

\* One file goes.
LEMMA FileGoes ==
    ASSUME StoreInv, NEW n \in DOMAIN segments, segments' = Without(n)
    PROVE  /\ FilesTyped(segments') /\ DOMAIN segments' = DOMAIN segments \ {n}
           /\ \A m \in DOMAIN segments' : segments'[m] = segments[m]
           /\ Total(segments) = Total(segments') + SizeOf(segments[n]) /\ Rounded(segments') <= Rounded(segments)
           /\ TailsOf(segments') \subseteq TailsOf(segments)
<1>1. FilesTyped(segments) /\ segments[n] \in StoreFiles
  BY FilesFacts DEF StoreInv
<1>2. /\ segments' = [name \in DOMAIN segments' |-> segments'[name]] /\ DOMAIN segments' = DOMAIN segments \ {n}
      /\ \A m \in DOMAIN segments' : segments'[m] = segments[m]
  BY DEF Without
<1>3. FilesTyped(segments')
  <2>1. IsFiniteSet(DOMAIN segments')
    BY <1>1, <1>2, FS_RemoveElement DEF FilesTyped
  <2> QED
    BY <1>1, <1>2, <2>1 DEF FilesTyped
<1>4. Total(segments) = Total(segments') + SizeOf(segments[n]) /\ Rounded(segments) = Rounded(segments') + RoundedSize(segments[n])
  BY <1>1, <1>2, <1>3, TotalWithout
<1>5. Rounded(segments') <= Rounded(segments)
  <2>1. Rounded(segments') \in Nat /\ RoundedSize(segments[n]) \in Nat
    BY <1>1, <1>3, TotalWeighs, SegmentFields
  <2> QED
    BY <1>4, <2>1
<1>6. TailsOf(segments') \subseteq TailsOf(segments)
  BY <1>2 DEF TailsOf
<1> QED
  BY <1>2, <1>3, <1>4, <1>5, <1>6

\* What the others hold is still so.
LEMMA FileGoesHolds ==
    ASSUME StoreInv, StoreTypes', NEW n \in DOMAIN segments, segments' = Without(n), UNCHANGED <<selection, storePast>>, CountsOn
    PROVE  ContentHolds'
<1>1. DOMAIN segments' = DOMAIN segments \ {n} /\ \A m \in DOMAIN segments' : segments'[m] = segments[m]
  BY FileGoes
<1>2. storePast.files <= storePast'.files
  BY DEF StoreInv, StoreTypes, StorePasts
<1>3. SelectionHolds(selection)'
  <2>1. Selecting => \A name \in DOMAIN segments' : name \in DOMAIN segments /\ Carries(segments[name], segments'[name], selection.had)
    BY <1>1, SameCarried
  <2> QED
    BY <1>2, <2>1, SelectionStays
<1>4. \A name \in DOMAIN segments' : FileHolds(name)'
  BY <1>1, <1>2, FileHoldsThen DEF FileHolds, Counted, CountedThen
<1>5. TailsApart'
  BY <1>1 DEF StoreInv, TailsApart
<1> QED
  BY <1>3, <1>4, <1>5 DEF ContentHolds

-----------------------------------------------------------------------------
\* The members of the writer, and of what is past.
LEMMA WriterFields ==
    ASSUME NEW w \in StoreWriters
    PROVE  w.at \in {"down", "idle", "evict", "rest", "sweep"} /\ w.open \in Nat /\ w.total \in Int /\ w.line \in LinesOf
BY DEF StoreWriters

\* The counts of what has happened to the store.
LEMMA PastFields ==
    ASSUME NEW p \in StorePasts
    PROVE  /\ p.rows \in 0..MaxTraceRows /\ p.files \in Nat /\ p.opens \in Nat /\ p.selections \in Nat /\ p.purges \in Nat
           /\ p.faults \in Nat /\ p.left \in Nat /\ p.rows \in Nat
<1>1. /\ p.rows \in 0..MaxTraceRows /\ p.files \in Nat /\ p.opens \in Nat /\ p.selections \in Nat /\ p.purges \in Nat
      /\ p.faults \in Nat /\ p.left \in Nat
  BY DEF StorePasts
<1> QED
  BY <1>1, StoreBounds

\* What the invariant says at once.
LEMMA StoreFacts ==
    ASSUME StoreInv
    PROVE  /\ StoreTypes /\ LocksHold /\ WriterHolds /\ PartsCounted /\ FilesTyped(segments) /\ DOMAIN segments \subseteq StoreNames
           /\ storeWriter \in StoreWriters /\ storePast \in StorePasts /\ selection \in Selections
           /\ storeWriter.open \in DOMAIN segments \cup {NoFile} /\ NoFile \notin DOMAIN segments
           /\ storePast.files \in Nat /\ storePast.files < storePast.rows /\ purging \subseteq DOMAIN segments
           /\ Total(segments) \in Nat /\ Rounded(segments) \in Nat
           /\ IsFiniteSet(TailsLeft) /\ Cardinality(TailsLeft) \in Nat /\ traceDay \in Nat /\ MaxTraceDays \in Nat /\ MaxStoreParts \in Nat
<1>1. /\ StoreTypes /\ LocksHold /\ WriterHolds /\ PartsCounted /\ FilesTyped(segments) /\ DOMAIN segments \subseteq StoreNames
      /\ storeWriter \in StoreWriters /\ storePast \in StorePasts /\ selection \in Selections
      /\ storeWriter.open \in DOMAIN segments \cup {NoFile}
      /\ storePast.files < storePast.rows /\ purging \subseteq DOMAIN segments
  BY FilesFacts DEF StoreInv, StoreTypes
<1>2. NoFile \notin DOMAIN segments
  BY <1>1, NameFacts
<1>3. Total(segments) \in Nat /\ Rounded(segments) \in Nat
  BY <1>1, TotalWeighs
<1>4. TailsLeft \subseteq TailsOf(segments) /\ IsFiniteSet(TailsOf(segments))
  BY <1>1, RoundedUp DEF TailsLeft, TailsOf
<1>5. IsFiniteSet(TailsLeft)
  BY <1>4, FS_Subset
<1>6. traceDay \in Nat /\ MaxTraceDays \in Nat /\ MaxStoreParts \in Nat
  BY <1>1, StoreBounds DEF StoreTypes
<1> QED
  BY <1>1, <1>2, <1>3, <1>5, <1>6, PastFields, FS_CardinalityType

\* The parts of the invariant.
LEMMA Assembled ==
    ASSUME StoreTypes', LocksHold', WriterHolds', PartsCounted', ContentHolds'
    PROVE  StoreInv'
BY DEF StoreInv, ContentHolds

\* No line is begun.
LEMMA CountsStay ==
    ASSUME storePast'.rows = storePast.rows, storeWriter'.at = "evict" => storeWriter.at = "evict"
    PROVE  CountsOn
BY DEF CountsOn, Counted, CountedThen

\* No more ends without a newline are left than were.
LEMMA TailsNoMore ==
    ASSUME StoreInv, TailsLeft' \subseteq TailsLeft
    PROVE  Cardinality(TailsLeft') \in Nat /\ Cardinality(TailsLeft') <= Cardinality(TailsLeft)
<1>1. IsFiniteSet(TailsLeft)
  BY StoreFacts
<1>2. IsFiniteSet(TailsLeft') /\ Cardinality(TailsLeft') <= Cardinality(TailsLeft)
  BY <1>1, FS_Subset
<1> QED
  BY <1>2, FS_CardinalityType

\* What is counted of a directory that stays as it is.
LEMMA PartsStay ==
    ASSUME StoreInv, UNCHANGED segments, storeWriter.at # "rest", storeWriter'.at # "rest",
           storeWriter'.at # "down" => storeWriter.at # "down" /\ storeWriter'.total = storeWriter.total,
           storePast'.left = storePast.left, storePast'.faults \in Nat, storePast.faults <= storePast'.faults
    PROVE  PartsCounted'
<1>1. /\ PartsCounted /\ storeWriter.at \in {"down", "idle", "evict", "sweep"} /\ Cardinality(TailsLeft) \in Nat
      /\ Rounded(segments) \in Nat /\ MaxStoreParts \in Nat /\ storePast.left \in Nat /\ storePast.faults \in Nat
  <2>1. storeWriter.at \in {"down", "idle", "evict", "rest", "sweep"}
    BY StoreFacts, WriterFields
  <2> QED
    BY <2>1, StoreFacts, PastFields
<1>2. TailsLeft' = TailsLeft
  BY DEF TailsLeft
<1>3. storeWriter'.at \in {"idle", "evict", "sweep"} => Total(segments') = storeWriter'.total + storePast'.left
  BY <1>1 DEF PartsCounted
<1>4. storePast'.left <= storePast'.faults /\ Cardinality(TailsLeft) <= storePast'.faults
      /\ Rounded(segments) <= MaxStoreParts + LineParts * storePast'.faults
  BY <1>1 DEF PartsCounted, LineParts
<1> QED
  BY <1>2, <1>3, <1>4 DEF PartsCounted

\* The ticker starts a sweep.
LEMMA StartSweepKeeps == StoreInv /\ StartSweep => StoreInv'
<1> SUFFICES ASSUME StoreInv, StartSweep PROVE StoreInv'
  OBVIOUS
<1>1. /\ storeWriter.at = "idle" /\ storeWriter' = [storeWriter EXCEPT !.at = "sweep"]
      /\ UNCHANGED <<segments, traceDay, writerLock, selection, purging, storePast>>
  BY DEF StartSweep
<1>2. storeWriter' \in StoreWriters /\ storeWriter'.at = "sweep" /\ storeWriter'.open = storeWriter.open
      /\ storeWriter'.total = storeWriter.total
  BY <1>1, StoreFacts DEF StoreWriters
<1>3. StoreTypes'
  BY <1>1, <1>2, StoreFacts DEF StoreTypes
<1>4. LocksHold' /\ WriterHolds'
  <2>1. LocksHold /\ WriterHolds
    BY StoreFacts
  <2> QED
    BY <1>1, <1>2, <2>1 DEF LocksHold, WriterHolds, Expired
<1>5. PartsCounted'
  <2>1. storePast'.left = storePast.left /\ storePast'.faults \in Nat /\ storePast.faults <= storePast'.faults
    BY <1>1, StoreFacts, PastFields
  <2> QED
    BY <1>1, <1>2, <2>1, PartsStay
<1>6. ContentHolds'
  BY <1>1, <1>2, <1>3, CountsStay, ContentStays, StoreFacts
<1> QED
  BY <1>3, <1>4, <1>5, <1>6, Assembled

\* The writer that is down.
LEMMA DownTyped ==
    /\ WriterDown \in StoreWriters /\ WriterDown.at = "down" /\ WriterDown.open = NoFile /\ WriterDown.total = 0 /\ WriterDown.line = Garbled
BY NothingTyped DEF WriterDown, StoreWriters, NoFile

\* The writer closes.
LEMMA CloseKeeps == StoreInv /\ CloseStore => StoreInv'
<1> SUFFICES ASSUME StoreInv, CloseStore PROVE StoreInv'
  OBVIOUS
<1>1. /\ storeWriter.at = "idle" /\ storeWriter' = WriterDown /\ writerLock' = "free"
      /\ UNCHANGED <<segments, traceDay, selection, purging, storePast>>
  BY DEF CloseStore
<1>2. storeWriter' \in StoreWriters /\ storeWriter'.at = "down" /\ storeWriter'.open = NoFile
  BY <1>1, DownTyped
<1>3. StoreTypes'
  BY <1>1, <1>2, StoreFacts DEF StoreTypes
<1>4. LocksHold' /\ WriterHolds'
  <2>1. LocksHold /\ WriterHolds
    BY StoreFacts
  <2> QED
    BY <1>1, <1>2, <2>1 DEF LocksHold, WriterHolds, Expired
<1>5. PartsCounted'
  <2>1. storePast'.left = storePast.left /\ storePast'.faults \in Nat /\ storePast.faults <= storePast'.faults
    BY <1>1, StoreFacts, PastFields
  <2>2. UNCHANGED segments /\ storeWriter.at # "rest" /\ storeWriter'.at # "rest" /\ storeWriter'.at = "down"
    BY <1>1, <1>2
  <2> QED
    BY <2>1, <2>2, PartsStay
<1>6. ContentHolds'
  BY <1>1, <1>2, <1>3, CountsStay, ContentStays, StoreFacts
<1> QED
  BY <1>3, <1>4, <1>5, <1>6, Assembled

\* A day ends.
LEMMA DayKeeps == StoreInv /\ DayEnds => StoreInv'
<1> SUFFICES ASSUME StoreInv, DayEnds PROVE StoreInv'
  OBVIOUS
<1>1. /\ traceDay < MaxTraceDays /\ traceDay' = traceDay + 1
      /\ UNCHANGED <<segments, writerLock, storeWriter, selection, purging, storePast>>
  BY DEF DayEnds
<1>2. traceDay' \in 2..MaxTraceDays
  BY <1>1, StoreFacts DEF StoreTypes
<1>3. StoreTypes'
  BY <1>1, <1>2, StoreFacts DEF StoreTypes
<1>4. LocksHold' /\ WriterHolds' /\ PartsCounted'
  <2>1. LocksHold /\ WriterHolds /\ PartsCounted /\ traceDay \in Nat /\ purging \subseteq StoreNames /\ RetentionDays \in Nat
    BY StoreFacts, StoreBounds
  <2>2. \A name \in purging : DayOf(name) \in Nat
    BY <2>1, NameFacts, StoreFacts
  <2>3. \A name \in purging : Expired(name) => Expired(name)'
    BY <1>1, <2>1, <2>2 DEF Expired
  <2>4. LocksHold'
    BY <1>1, <2>1, <2>3 DEF LocksHold
  <2>5. TailsLeft' = TailsLeft
    BY <1>1 DEF TailsLeft
  <2> QED
    BY <1>1, <2>1, <2>4, <2>5 DEF WriterHolds, PartsCounted
<1>6. ContentHolds'
  BY <1>1, <1>3, CountsStay, ContentStays, StoreFacts
<1> QED
  BY <1>3, <1>4, <1>6, Assembled

\* The end of the open segment is cut off: its sizes are what they were.
LEMMA CutFile ==
    ASSUME StoreInv, StoreTypes', storeWriter.at = "rest", NEW whole \in BOOLEAN,
           segments' = [segments EXCEPT ![storeWriter.open].tail.whole = whole],
           UNCHANGED selection, CountsOn, storePast.files <= storePast'.files
    PROVE  /\ ContentHolds' /\ DOMAIN segments' = DOMAIN segments /\ Total(segments') = Total(segments) /\ Rounded(segments') = Rounded(segments)
           /\ TailsOf(segments') = TailsOf(segments)
<1> DEFINE f == segments[storeWriter.open]
           t == [f.tail EXCEPT !.whole = whole]
           g == [f EXCEPT !.tail = t]
<1>1. storeWriter.open \in DOMAIN segments /\ f \in StoreFiles /\ f.tail.present
  BY StoreFacts, FilesFacts DEF WriterHolds
<1>2. f.tail \in Tails
  BY <1>1, SegmentFields
<1>3. t \in Tails /\ t.line = f.tail.line /\ t.present = f.tail.present
  BY <1>2 DEF Tails
<1>4. g \in StoreFiles /\ g.inode = f.inode /\ g.lines = f.lines /\ g.tail = t
  BY <1>1, <1>3, TailReplaced
<1>5. segments' = [segments EXCEPT ![storeWriter.open] = g]
  OBVIOUS
<1> HIDE DEF t, g
<1>6. Settles(f, g)
  BY <1>3, <1>4 DEF Settles
<1>7. Selecting => Carries(f, g, selection.had)
  <2>1. Selecting => Carries(f, f, selection.had)
    BY <1>1, SameCarried
  <2> QED
    BY <1>3, <1>4, <2>1 DEF Carries
<1>8. ContentHolds'
  BY <1>1, <1>3, <1>4, <1>5, <1>6, <1>7, FileSettles
<1>9. SizeOf(g) = SizeOf(f) /\ RoundedSize(g) = RoundedSize(f) /\ SizeOf(f) \in Nat /\ RoundedSize(f) \in Nat
  BY <1>1, <1>3, <1>4, SegmentFields
<1>10. /\ DOMAIN segments' = DOMAIN segments /\ segments'[storeWriter.open] = g
       /\ \A m \in DOMAIN segments \ {storeWriter.open} : segments'[m] = segments[m]
       /\ Total(segments') = Total(segments) - SizeOf(f) + SizeOf(g)
       /\ Rounded(segments') = Rounded(segments) - RoundedSize(f) + RoundedSize(g)
  BY <1>1, <1>4, <1>5, FileBecomes
<1>11. Total(segments') = Total(segments) /\ Rounded(segments') = Rounded(segments)
  BY <1>9, <1>10, StoreFacts
<1>12. TailsOf(segments') = TailsOf(segments)
  BY <1>3, <1>4, <1>10 DEF TailsOf
<1> QED
  BY <1>8, <1>10, <1>11, <1>12

\* The types, when one member of a file is replaced.
LEMMA CutTyped ==
    ASSUME StoreInv, storeWriter.at = "rest", NEW whole \in BOOLEAN,
           segments' = [segments EXCEPT ![storeWriter.open].tail.whole = whole]
    PROVE  FilesTyped(segments') /\ DOMAIN segments' = DOMAIN segments
<1> DEFINE f == segments[storeWriter.open]
           t == [f.tail EXCEPT !.whole = whole]
           g == [f EXCEPT !.tail = t]
<1>1. storeWriter.open \in DOMAIN segments /\ f \in StoreFiles
  BY StoreFacts, FilesFacts DEF WriterHolds
<1>2. f.tail \in Tails
  BY <1>1, SegmentFields
<1>3. t \in Tails
  BY <1>2 DEF Tails
<1>4. g \in StoreFiles
  BY <1>1, <1>3, TailReplaced
<1>5. segments' = [segments EXCEPT ![storeWriter.open] = g]
  OBVIOUS
<1> HIDE DEF g
<1> QED
  BY <1>1, <1>4, <1>5, FileBecomes

\* A fault is counted.
LEMMA FaultTypedStore ==
    ASSUME NEW p \in StorePasts, NEW q, q = [p EXCEPT !.faults = @ + 1]
    PROVE  q \in StorePasts /\ q.faults = p.faults + 1 /\ q.left = p.left /\ q.rows = p.rows /\ q.files = p.files
BY DEF StorePasts

\* A fault that leaves a part of a line behind is counted.
LEMMA LeftTyped ==
    ASSUME NEW p \in StorePasts, NEW q, q = [p EXCEPT !.faults = @ + 1, !.left = @ + 1]
    PROVE  q \in StorePasts /\ q.faults = p.faults + 1 /\ q.left = p.left + 1 /\ q.rows = p.rows /\ q.files = p.files
<1>1. p.faults + 1 \in Nat /\ p.left + 1 \in Nat
  BY PastFields
<1>2. q = [p EXCEPT !.faults = p.faults + 1, !.left = p.left + 1]
  OBVIOUS
<1> QED
  BY <1>1, <1>2 DEF StorePasts

\* One end more is left by a write that is cut off.
LEMMA TailsOneMore ==
    ASSUME StoreInv, storeWriter.at = "rest", TailsOf(segments') = TailsOf(segments), storeWriter'.at # "rest"
    PROVE  Cardinality(TailsLeft') <= Cardinality(TailsLeft) + 1
<1>1. TailsLeft = TailsOf(segments) \ {storeWriter.open}
  BY DEF TailsLeft, TailsOf
<1>2. TailsLeft' = TailsOf(segments)
  BY DEF TailsLeft, TailsOf
<1>3. storeWriter.open \in TailsOf(segments)
  BY StoreFacts DEF WriterHolds, TailsOf
<1>4. TailsLeft' = TailsLeft \cup {storeWriter.open} /\ storeWriter.open \notin TailsLeft
  BY <1>1, <1>2, <1>3
<1>5. IsFiniteSet(TailsLeft) /\ Cardinality(TailsLeft) \in Nat
  BY StoreFacts
<1>6. Cardinality(TailsLeft \cup {storeWriter.open}) = Cardinality(TailsLeft) + 1
  BY <1>4, <1>5, FS_AddElement
<1> QED
  BY <1>4, <1>5, <1>6

\* A write is cut off.
LEMMA CutKeeps == StoreInv /\ CutWrite => StoreInv'
<1> SUFFICES ASSUME StoreInv, CutWrite PROVE StoreInv'
  OBVIOUS
<1>1. /\ storeWriter.at = "rest" /\ storeWriter' = [storeWriter EXCEPT !.at = "idle", !.open = NoFile, !.line = Garbled]
      /\ storePast' = [storePast EXCEPT !.faults = @ + 1, !.left = @ + 1]
      /\ UNCHANGED <<traceDay, writerLock, selection, purging>>
  BY DEF CutWrite, FaultCounted
<1>2. PICK whole \in BOOLEAN : segments' = [segments EXCEPT ![storeWriter.open].tail.whole = whole]
  BY DEF CutWrite
<1>3. storeWriter' \in StoreWriters /\ storeWriter'.at = "idle" /\ storeWriter'.open = NoFile /\ storeWriter'.total = storeWriter.total
  BY <1>1, StoreFacts, NothingTyped DEF StoreWriters, NoFile
<1>4. /\ storePast' \in StorePasts /\ storePast'.faults = storePast.faults + 1 /\ storePast'.left = storePast.left + 1
      /\ storePast'.rows = storePast.rows /\ storePast'.files = storePast.files
  BY <1>1, StoreFacts, LeftTyped
<1>5. FilesTyped(segments') /\ DOMAIN segments' = DOMAIN segments
  BY <1>1, <1>2, CutTyped
<1>6. StoreTypes'
  BY <1>1, <1>3, <1>4, <1>5, StoreFacts DEF StoreTypes, FilesTyped
<1>7. CountsOn
  BY <1>1, <1>3, <1>4, CountsStay
<1>8. /\ ContentHolds' /\ Total(segments') = Total(segments) /\ Rounded(segments') = Rounded(segments)
      /\ TailsOf(segments') = TailsOf(segments)
  <2>1. storePast.files <= storePast'.files
    BY <1>4, StoreFacts
  <2> QED
    BY <1>1, <1>2, <1>6, <1>7, <2>1, CutFile
<1>9. LocksHold' /\ WriterHolds'
  <2>1. LocksHold /\ WriterHolds
    BY StoreFacts
  <2> QED
    BY <1>1, <1>3, <2>1 DEF LocksHold, WriterHolds, Expired
<1>10. PartsCounted'
  <2>1. /\ Total(segments) = storeWriter.total + storePast.left + 1 /\ storePast.left <= storePast.faults
        /\ Cardinality(TailsLeft) <= storePast.faults /\ Rounded(segments) <= MaxStoreParts + 2 * storePast.faults
    BY <1>1, StoreFacts DEF PartsCounted, LineParts
  <2>2. Cardinality(TailsLeft') <= Cardinality(TailsLeft) + 1
    BY <1>1, <1>3, <1>8, TailsOneMore
  <2>3. storeWriter.total \in Int /\ storePast.left \in Nat /\ storePast.faults \in Nat /\ Cardinality(TailsLeft) \in Nat
        /\ MaxStoreParts \in Nat /\ Rounded(segments) \in Nat
    BY StoreFacts, WriterFields, PastFields
  <2>4. Total(segments') = storeWriter'.total + storePast'.left
    BY <1>3, <1>4, <1>8, <2>1, <2>3
  <2>5. storePast'.left <= storePast'.faults
    BY <1>4, <2>1, <2>3
  <2>6. Rounded(segments') <= MaxStoreParts + LineParts * storePast'.faults
    BY <1>4, <1>8, <2>1, <2>3 DEF LineParts
  <2>7. Cardinality(TailsLeft') <= storePast'.faults
    <3>1. Cardinality(TailsLeft') \in Nat
      <4>1. TailsLeft' = TailsOf(segments)
        BY <1>3, <1>8 DEF TailsLeft, TailsOf
      <4> QED
        BY <4>1, StoreFacts, RoundedUp
    <3> QED
      BY <1>4, <2>1, <2>2, <2>3, <3>1
  <2> QED
    BY <1>3, <2>4, <2>5, <2>6, <2>7 DEF PartsCounted
<1> QED
  BY <1>6, <1>8, <1>9, <1>10, Assembled

\* The writer is killed.
LEMMA KillKeeps == StoreInv /\ KillWriter => StoreInv'
<1> SUFFICES ASSUME StoreInv, KillWriter PROVE StoreInv'
  OBVIOUS
<1>1. /\ storeWriter.at # "down" /\ storeWriter' = WriterDown /\ writerLock' = "free"
      /\ storePast' = [storePast EXCEPT !.faults = @ + 1] /\ UNCHANGED <<traceDay, selection, purging>>
  BY DEF KillWriter, FaultCounted
<1>2. storeWriter' \in StoreWriters /\ storeWriter'.at = "down" /\ storeWriter'.open = NoFile
  BY <1>1, DownTyped
<1>3. /\ storePast' \in StorePasts /\ storePast'.faults = storePast.faults + 1 /\ storePast'.left = storePast.left
      /\ storePast'.rows = storePast.rows /\ storePast'.files = storePast.files
  BY <1>1, StoreFacts, FaultTypedStore
<1>4. LocksHold' /\ WriterHolds'
  <2>1. LocksHold /\ WriterHolds
    BY StoreFacts
  <2> QED
    BY <1>1, <1>2, <2>1 DEF LocksHold, WriterHolds, Expired
<1>5. CountsOn /\ storePast.files <= storePast'.files
  BY <1>2, <1>3, CountsStay, StoreFacts
<1>6. storePast.faults \in Nat /\ storePast.left \in Nat
  BY StoreFacts, PastFields
<1>7. CASE storeWriter.at = "rest"
  <2>1. PICK whole \in BOOLEAN : segments' = [segments EXCEPT ![storeWriter.open].tail.whole = whole]
    BY <1>7 DEF KillWriter
  <2>2. FilesTyped(segments') /\ DOMAIN segments' = DOMAIN segments
    BY <1>7, <2>1, CutTyped
  <2>3. StoreTypes'
    BY <1>1, <1>2, <1>3, <2>2, StoreFacts DEF StoreTypes, FilesTyped
  <2>4. /\ ContentHolds' /\ Rounded(segments') = Rounded(segments) /\ TailsOf(segments') = TailsOf(segments)
    BY <1>1, <1>5, <1>7, <2>1, <2>3, CutFile
  <2>5. PartsCounted'
    <3>1. /\ storePast.left <= storePast.faults
          /\ Cardinality(TailsLeft) <= storePast.faults /\ Rounded(segments) <= MaxStoreParts + 2 * storePast.faults
      BY StoreFacts DEF PartsCounted, LineParts
    <3>2. Cardinality(TailsLeft') <= Cardinality(TailsLeft) + 1
      BY <1>2, <1>7, <2>4, TailsOneMore
    <3>3. Cardinality(TailsLeft) \in Nat /\ MaxStoreParts \in Nat /\ Rounded(segments) \in Nat
      BY StoreFacts
    <3>4. Cardinality(TailsLeft') \in Nat
      <4>1. TailsLeft' = TailsOf(segments)
        BY <1>2, <2>4 DEF TailsLeft, TailsOf
      <4> QED
        BY <4>1, StoreFacts, RoundedUp
    <3>5. Cardinality(TailsLeft') <= storePast'.faults
      BY <1>3, <1>6, <3>1, <3>2, <3>3, <3>4
    <3>6. storePast'.left <= storePast'.faults
      BY <1>3, <1>6, <3>1
    <3>7. Rounded(segments') <= MaxStoreParts + LineParts * storePast'.faults
      BY <1>3, <1>6, <2>4, <3>1, <3>3 DEF LineParts
    <3> QED
      BY <1>2, <3>5, <3>6, <3>7 DEF PartsCounted
  <2> QED
    BY <1>4, <2>3, <2>4, <2>5, Assembled
<1>8. CASE storeWriter.at # "rest"
  <2>1. UNCHANGED segments
    BY <1>8 DEF KillWriter
  <2>2. StoreTypes'
    BY <1>1, <1>2, <1>3, <2>1, StoreFacts DEF StoreTypes
  <2>3. ContentHolds'
    BY <1>1, <1>5, <2>1, <2>2, ContentStays
  <2>4. PartsCounted'
    <3>1. storePast'.faults \in Nat /\ storePast.faults <= storePast'.faults
      BY <1>3, <1>6
    <3>2. storeWriter'.at # "rest" /\ storeWriter'.at = "down" /\ storePast'.left = storePast.left
      BY <1>2, <1>3
    <3> QED
      BY <1>8, <2>1, <3>1, <3>2, PartsStay
  <2> QED
    BY <1>4, <2>2, <2>3, <2>4, Assembled
<1> QED
  BY <1>7, <1>8

\* The first part of a line is written.
LEMMA FirstKeeps == StoreInv /\ WriteFirstPart => StoreInv'
<1> SUFFICES ASSUME StoreInv, WriteFirstPart PROVE StoreInv'
  OBVIOUS
<1> DEFINE n == storeWriter.open
           f == segments[n]
           t == LinePart(storeWriter.line, FALSE)
           g == [f EXCEPT !.tail = t]
<1>1. /\ storeWriter.at = "evict" /\ Fits /\ storeWriter' = [storeWriter EXCEPT !.at = "rest"]
      /\ segments' = [segments EXCEPT ![n].tail = LinePart(IF @.present THEN Garbled ELSE storeWriter.line, FALSE)]
      /\ UNCHANGED <<traceDay, writerLock, selection, purging, storePast>>
  BY DEF WriteFirstPart
<1>2. n \in DOMAIN segments /\ f \in StoreFiles /\ ~f.tail.present /\ storeWriter.line.id = storePast.rows
      /\ storeWriter.line.day = DayOf(n) /\ storeWriter.line \in LinesOf
  BY <1>1, StoreFacts, FilesFacts, WriterFields DEF WriterHolds
<1>3. t \in Tails /\ t.line = storeWriter.line /\ t.present /\ ~t.whole
  BY <1>2 DEF Tails, LinePart
<1>4. g \in StoreFiles /\ g.inode = f.inode /\ g.lines = f.lines /\ g.tail = t
  BY <1>2, <1>3, TailReplaced
<1>5. segments' = [segments EXCEPT ![n] = g]
  BY <1>1, <1>2
<1>6. storeWriter' \in StoreWriters /\ storeWriter'.at = "rest" /\ storeWriter'.open = n /\ storeWriter'.total = storeWriter.total
  BY <1>1, StoreFacts DEF StoreWriters
<1> HIDE DEF t, g
<1>7. /\ FilesTyped(segments') /\ DOMAIN segments' = DOMAIN segments /\ segments'[n] = g
      /\ \A m \in DOMAIN segments \ {n} : segments'[m] = segments[m]
      /\ Total(segments') = Total(segments) - SizeOf(f) + SizeOf(g)
      /\ Rounded(segments') = Rounded(segments) - RoundedSize(f) + RoundedSize(g)
  BY <1>2, <1>4, <1>5, FileBecomes
<1>8. StoreTypes'
  BY <1>1, <1>6, <1>7, StoreFacts DEF StoreTypes, FilesTyped
<1>9. storePast.rows \in Nat /\ storePast.rows > 0 /\ storePast.files \in Nat /\ storePast'.rows = storePast.rows
      /\ storePast'.files = storePast.files
  BY <1>1, StoreFacts, PastFields
<1>10. CountsOn /\ CountedThen(t.line)
  <2>1. CountsOn
    BY <1>6, <1>9, CountsStay
  <2>2. CountedThen(t.line)
    BY <1>2, <1>3, <1>6, <1>9 DEF CountedThen
  <2> QED
    BY <2>1, <2>2
<1>11. \A line \in LinesOf : Counted(line) => line # t.line
  BY <1>1, <1>2, <1>3 DEF Counted
<1>12. SelectionHolds(selection)'
  <2>1. ASSUME Selecting PROVE Carries(f, g, selection.had)
    <3>1. t.line \notin selection.had
      <4>1. \A line \in selection.had : Counted(line) /\ line \in LinesOf
        BY <2>1, StoreFacts, SelectionFields DEF StoreInv, SelectionHolds, Selecting, Selects
      <4> QED
        BY <1>11, <4>1
    <3>2. Carries(f, f, selection.had)
      BY <1>2, <2>1, SameCarried
    <3> QED
      BY <1>4, <3>1, <3>2 DEF Carries
  <2>2. Selecting => \A name \in DOMAIN segments' : name \in DOMAIN segments /\ Carries(segments[name], segments'[name], selection.had)
    BY <1>7, <2>1, SameCarried
  <2>3. storePast.files <= storePast'.files /\ UNCHANGED selection
    BY <1>1, <1>9
  <2> QED
    BY <1>8, <1>10, <2>2, <2>3, SelectionStays
<1>13. \A name \in DOMAIN segments' : FileHolds(name)'
  <2>1. storePast.files <= storePast'.files
    BY <1>9
  <2>2. ASSUME NEW name \in DOMAIN segments' PROVE FileHolds(name)'
    <3>1. LET file == segments[name]
           IN  /\ file.inode <= storePast'.files /\ name % 1000 <= storePast'.files
               /\ \A i \in 1..Len(file.lines) : CountedThen(file.lines[i]) /\ file.lines[i].day = DayOf(name)
               /\ file.tail.whole => file.tail.present
               /\ file.tail.present => CountedThen(file.tail.line) /\ file.tail.line.day = DayOf(name)
      BY <1>7, <1>8, <1>10, <2>1, FileHoldsThen
    <3>2. CASE name = n
      BY <1>2, <1>3, <1>4, <1>7, <1>10, <3>1, <3>2 DEF FileHolds, Counted, CountedThen
    <3>3. CASE name # n
      BY <1>7, <3>1, <3>3 DEF FileHolds, Counted, CountedThen
    <3> QED
      BY <3>2, <3>3
  <2> QED
    BY <2>2
<1>14. TailsApart'
  <2>1. ASSUME NEW name \in DOMAIN segments PROVE /\ \A i \in 1..Len(segments[name].lines) : segments[name].lines[i] # t.line
                                                  /\ segments[name].tail.present => segments[name].tail.line # t.line
    <3>1. FileHolds(name) /\ segments[name] \in StoreFiles
      BY <2>1, FilesFacts DEF StoreInv
    <3>2. (\A i \in 1..Len(segments[name].lines) : segments[name].lines[i] \in LinesOf) /\ segments[name].tail.line \in LinesOf
      BY <3>1, SegmentFields
    <3> QED
      BY <1>11, <3>1, <3>2 DEF FileHolds
  <2>2. ASSUME NEW name \in DOMAIN segments', segments'[name].tail.present, NEW other \in DOMAIN segments'
        PROVE  /\ \A i \in 1..Len(segments'[other].lines) : segments'[other].lines[i] # segments'[name].tail.line
               /\ other # name /\ segments'[other].tail.present => segments'[other].tail.line # segments'[name].tail.line
    <3>1. segments'[other].lines = segments[other].lines
      BY <1>4, <1>7
    <3>2. CASE name = n
      BY <1>3, <1>4, <1>7, <2>1, <3>1, <3>2
    <3>3. CASE name # n
      <4>1. segments'[name] = segments[name] /\ name \in DOMAIN segments
        BY <1>7, <3>3
      <4>2. /\ \A i \in 1..Len(segments[other].lines) : segments[other].lines[i] # segments[name].tail.line
            /\ other # name /\ segments[other].tail.present => segments[other].tail.line # segments[name].tail.line
        BY <1>7, <2>2, <4>1 DEF StoreInv, TailsApart
      <4>3. CASE other = n
        BY <1>3, <1>4, <1>7, <2>1, <2>2, <3>1, <4>1, <4>2, <4>3
      <4>4. CASE other # n
        BY <1>7, <4>1, <4>2, <4>4
      <4> QED
        BY <4>3, <4>4
    <3> QED
      BY <3>2, <3>3
  <2> QED
    BY <2>2 DEF TailsApart
<1>15. LocksHold' /\ WriterHolds'
  <2>1. LocksHold /\ WriterHolds /\ NoFile \notin DOMAIN segments
    BY StoreFacts
  <2> QED
    BY <1>1, <1>2, <1>3, <1>4, <1>6, <1>7, <2>1 DEF LocksHold, WriterHolds, Expired
<1>16. PartsCounted'
  <2>1. /\ SizeOf(f) \in Nat /\ SizeOf(g) = SizeOf(f) + 1 /\ RoundedSize(f) \in Nat /\ RoundedSize(g) = RoundedSize(f) + 2
    <3>1. /\ Len(f.lines) \in Nat /\ SizeOf(f) = 2 * Len(f.lines) + 0 /\ RoundedSize(f) = 2 * Len(f.lines) + 0
      BY <1>2, SegmentFields
    <3>2. g.tail.present /\ SizeOf(g) = 2 * Len(g.lines) + 1 /\ RoundedSize(g) = 2 * Len(g.lines) + 2
      BY <1>3, <1>4, SegmentFields
    <3> QED
      BY <1>4, <3>1, <3>2
  <2>2. /\ Total(segments) = storeWriter.total + storePast.left
        /\ storePast.left <= storePast.faults /\ Cardinality(TailsLeft) <= storePast.faults
    BY <1>1, StoreFacts DEF PartsCounted
  <2>3. storeWriter.total + 2 <= MaxStoreParts
    BY <1>1 DEF Fits, LineParts
  <2>4. /\ storeWriter.total \in Int /\ storePast.left \in Nat /\ storePast.faults \in Nat /\ MaxStoreParts \in Nat
        /\ Total(segments) \in Nat /\ Rounded(segments) \in Nat /\ Cardinality(TailsLeft) \in Nat
    BY StoreFacts, WriterFields, PastFields
  <2>5. Total(segments') = storeWriter'.total + storePast'.left + 1
    BY <1>1, <1>6, <1>7, <2>1, <2>2, <2>4
  <2>6. TailsLeft' = TailsLeft
    BY <1>1, <1>2, <1>6, <1>7 DEF TailsLeft
  <2>7. TailsOf(segments) = TailsLeft
    BY <1>1 DEF TailsLeft, TailsOf
  <2>8. Rounded(segments) = Total(segments) + Cardinality(TailsLeft)
    BY <2>7, StoreFacts, RoundedUp
  <2>9. Rounded(segments') <= MaxStoreParts + 2 * storePast.faults
    BY <1>7, <2>1, <2>2, <2>3, <2>4, <2>8
  <2> QED
    BY <1>1, <1>6, <2>2, <2>5, <2>6, <2>9 DEF PartsCounted, LineParts
<1> QED
  BY <1>8, <1>12, <1>13, <1>14, <1>15, <1>16, Assembled DEF ContentHolds

\* The end of a file becomes a line: it settles, and no selection has seen the line.
LEMMA EndSettles ==
    ASSUME StoreInv, NEW n \in DOMAIN segments, segments[n].tail.present, NEW g \in StoreFiles,
           g.inode = segments[n].inode, g.tail = NoPart,
           Len(g.lines) = Len(segments[n].lines) + 1, \A i \in 1..Len(segments[n].lines) : g.lines[i] = segments[n].lines[i],
           g.lines[Len(g.lines)] = segments[n].tail.line
    PROVE  /\ Settles(segments[n], g) /\ (Selecting => Carries(segments[n], g, selection.had))
           /\ SizeOf(g) = SizeOf(segments[n]) + 1 /\ RoundedSize(g) = RoundedSize(segments[n])
<1> DEFINE f == segments[n]
<1>1. f \in StoreFiles /\ Len(f.lines) \in Nat /\ ~g.tail.present /\ SizeOf(f) \in Nat /\ RoundedSize(f) \in Nat
  BY FilesFacts, SegmentFields, NothingTyped DEF StoreInv
<1>2. Settles(f, g)
  <2>1. ASSUME NEW i \in 1..Len(g.lines)
        PROVE  \/ i \in 1..Len(f.lines) /\ g.lines[i] = f.lines[i]
               \/ f.tail.present /\ g.lines[i] = f.tail.line
    <3>1. CASE i \in 1..Len(f.lines)
      <4>1. g.lines[i] = f.lines[i]
        BY <3>1
      <4> QED
        BY <3>1, <4>1
    <3>2. CASE i \notin 1..Len(f.lines)
      <4>1. i = Len(g.lines)
        BY <1>1, <3>2
      <4> QED
        BY <4>1
    <3> QED
      BY <3>1, <3>2
  <2> QED
    BY <1>1, <2>1 DEF Settles
<1>3. ASSUME Selecting PROVE Carries(f, g, selection.had)
  <2>1. f.tail.line \notin selection.had
    BY <1>3 DEF StoreInv, SelectionHolds, Selecting, Selects
  <2>2. \A i \in (Len(f.lines) + 1)..Len(g.lines) : g.lines[i] = f.tail.line
    BY <1>1
  <2>3. Len(f.lines) <= Len(g.lines)
    BY <1>1
  <2> QED
    BY <1>1, <2>1, <2>2, <2>3 DEF Carries
<1>4. SizeOf(g) = 2 * Len(g.lines) + 0 /\ RoundedSize(g) = 2 * Len(g.lines) + 0
      /\ SizeOf(f) = 2 * Len(f.lines) + 1 /\ RoundedSize(f) = 2 * Len(f.lines) + 2
  BY <1>1, SegmentFields
<1> QED
  BY <1>1, <1>2, <1>3, <1>4

\* The rest of a line is written.
LEMMA RestKeeps == StoreInv /\ WriteRest => StoreInv'
<1> SUFFICES ASSUME StoreInv, WriteRest PROVE StoreInv'
  OBVIOUS
<1> DEFINE n == storeWriter.open
           f == segments[n]
           g == [f EXCEPT !.lines = Append(@, f.tail.line), !.tail = NoPart]
<1>1. /\ storeWriter.at = "rest" /\ storeWriter' = [storeWriter EXCEPT !.at = "idle", !.line = Garbled, !.total = @ + LineParts]
      /\ segments' = [segments EXCEPT ![n] = g]
      /\ UNCHANGED <<traceDay, writerLock, selection, purging, storePast>>
  BY DEF WriteRest
<1>2. n \in DOMAIN segments /\ f \in StoreFiles /\ f.tail.present
  BY <1>1, StoreFacts, FilesFacts DEF WriterHolds
<1>3. /\ g \in StoreFiles /\ g.inode = f.inode /\ g.tail = NoPart
      /\ Len(g.lines) = Len(f.lines) + 1 /\ (\A i \in 1..Len(f.lines) : g.lines[i] = f.lines[i])
      /\ g.lines[Len(g.lines)] = f.tail.line
  <2>1. Append(f.lines, f.tail.line) \in Seq(LinesOf)
    <3>1. f.lines \in Seq(LinesOf) /\ f.tail.line \in LinesOf
      BY <1>2, SegmentFields
    <3> QED
      BY <3>1
  <2>2. g \in StoreFiles /\ g.inode = f.inode /\ g.tail = NoPart /\ g.lines = Append(f.lines, f.tail.line)
    BY <1>2, <2>1, NothingTyped DEF StoreFiles
  <2> HIDE DEF f, g
  <2> QED
    BY <1>2, <2>2, TailEnded
<1> HIDE DEF g
<1>4. /\ storeWriter' \in StoreWriters /\ storeWriter'.at = "idle" /\ storeWriter'.open = n
      /\ storeWriter'.total = storeWriter.total + 2
  <2>1. storeWriter.total \in Int /\ storeWriter.total + 2 \in Int
    BY StoreFacts, WriterFields
  <2> QED
    BY <1>1, <2>1, StoreFacts, NothingTyped DEF StoreWriters, LineParts
<1>5. /\ FilesTyped(segments') /\ DOMAIN segments' = DOMAIN segments /\ segments'[n] = g
      /\ \A m \in DOMAIN segments \ {n} : segments'[m] = segments[m]
      /\ Total(segments') = Total(segments) - SizeOf(f) + SizeOf(g)
      /\ Rounded(segments') = Rounded(segments) - RoundedSize(f) + RoundedSize(g)
  BY <1>1, <1>2, <1>3, FileBecomes
<1>6. StoreTypes'
  BY <1>1, <1>4, <1>5, StoreFacts DEF StoreTypes, FilesTyped
<1>7. CountsOn /\ storePast.files <= storePast'.files
  BY <1>1, <1>4, CountsStay, StoreFacts
<1>8. /\ Settles(f, g) /\ (Selecting => Carries(f, g, selection.had))
      /\ SizeOf(g) = SizeOf(f) + 1 /\ RoundedSize(g) = RoundedSize(f)
  BY <1>2, <1>3, EndSettles
<1>9. ~g.tail.present /\ ~g.tail.whole
  BY <1>3 DEF NoPart
<1>10. ContentHolds'
  BY <1>1, <1>2, <1>3, <1>6, <1>7, <1>8, <1>9, FileSettles
<1>11. LocksHold' /\ WriterHolds'
  <2>1. LocksHold /\ WriterHolds /\ NoFile \notin DOMAIN segments
    BY StoreFacts
  <2> QED
    BY <1>1, <1>2, <1>4, <1>5, <1>9, <2>1 DEF LocksHold, WriterHolds, Expired
<1>12. PartsCounted'
  <2>1. SizeOf(f) \in Nat /\ RoundedSize(f) \in Nat
    BY <1>2, SegmentFields
  <2>2. /\ Total(segments) = storeWriter.total + storePast.left + 1
        /\ storePast.left <= storePast.faults /\ Cardinality(TailsLeft) <= storePast.faults
        /\ Rounded(segments) <= MaxStoreParts + LineParts * storePast.faults
    BY <1>1, StoreFacts DEF PartsCounted
  <2>3. /\ storeWriter.total \in Int /\ storePast.left \in Nat /\ Total(segments) \in Nat /\ Rounded(segments) \in Nat
    BY StoreFacts, WriterFields, PastFields
  <2>4. Total(segments') = storeWriter'.total + storePast'.left
    BY <1>1, <1>4, <1>5, <1>8, <2>1, <2>2, <2>3
  <2>5. Rounded(segments') = Rounded(segments)
    BY <1>5, <1>8, <2>1, <2>3
  <2>6. TailsLeft' = TailsLeft
    BY <1>1, <1>2, <1>4, <1>5, <1>9 DEF TailsLeft
  <2> QED
    BY <1>1, <1>4, <2>2, <2>4, <2>5, <2>6 DEF PartsCounted
<1> QED
  BY <1>6, <1>10, <1>11, <1>12, Assembled

\* What the writer holds, when a segment that it does not write to is gone.
LEMMA GoesHolds ==
    ASSUME StoreInv, StoreTypes', NEW n \in DOMAIN segments, segments' = Without(n), UNCHANGED <<selection, storePast>>,
           storeWriter.at # "rest", storeWriter'.at # "rest", storeWriter'.at = "evict" => storeWriter.at = "evict"
    PROVE  ContentHolds' /\ Rounded(segments') <= MaxStoreParts + LineParts * storePast.faults
           /\ Cardinality(TailsLeft') <= storePast.faults /\ storePast.left <= storePast.faults
           /\ Total(segments) = Total(segments') + SizeOf(segments[n]) /\ SizeOf(segments[n]) \in Nat /\ Total(segments') \in Int
<1>1. CountsOn
  BY CountsStay
<1>2. ContentHolds'
  BY <1>1, FileGoesHolds
<1>3. /\ FilesTyped(segments') /\ Total(segments) = Total(segments') + SizeOf(segments[n]) /\ Rounded(segments') <= Rounded(segments)
      /\ TailsOf(segments') \subseteq TailsOf(segments)
  BY FileGoes
<1>4. TailsLeft' \subseteq TailsLeft
  BY <1>3 DEF TailsLeft, TailsOf
<1>5. Cardinality(TailsLeft') \in Nat /\ Cardinality(TailsLeft') <= Cardinality(TailsLeft)
  BY <1>4, TailsNoMore
<1>6. Rounded(segments) <= MaxStoreParts + LineParts * storePast.faults /\ Cardinality(TailsLeft) <= storePast.faults
      /\ storePast.left <= storePast.faults
  BY StoreFacts DEF PartsCounted
<1>7. /\ Rounded(segments) \in Nat /\ Rounded(segments') \in Nat /\ Total(segments') \in Nat /\ MaxStoreParts \in Nat
      /\ storePast.faults \in Nat /\ Cardinality(TailsLeft) \in Nat /\ SizeOf(segments[n]) \in Nat
  BY <1>3, StoreFacts, PastFields, TotalWeighs, FilesFacts, SegmentFields
<1> QED
  BY <1>2, <1>3, <1>5, <1>6, <1>7 DEF LineParts

\* A segment that is not open goes, and the writer counts it off.
LEMMA RemovedKeeps ==
    ASSUME StoreInv, NEW n \in Closed, segments' = Without(n), storeWriter.at \in {"evict", "sweep"},
           storeWriter' = [storeWriter EXCEPT !.total = @ - SizeOf(segments[n])],
           UNCHANGED <<traceDay, writerLock, selection, purging, storePast>>
    PROVE  StoreInv'
<1>1. n \in DOMAIN segments /\ n # storeWriter.open
  BY DEF Closed
<1>2. /\ FilesTyped(segments') /\ DOMAIN segments' = DOMAIN segments \ {n}
      /\ \A m \in DOMAIN segments' : segments'[m] = segments[m]
  BY <1>1, FileGoes
<1>3. SizeOf(segments[n]) \in Nat /\ storeWriter.total \in Int
  BY <1>1, StoreFacts, FilesFacts, SegmentFields, WriterFields
<1>4. /\ storeWriter' \in StoreWriters /\ storeWriter'.at = storeWriter.at /\ storeWriter'.open = storeWriter.open
      /\ storeWriter'.line = storeWriter.line /\ storeWriter'.total = storeWriter.total - SizeOf(segments[n])
  <2>1. storeWriter.total - SizeOf(segments[n]) \in Int
    BY <1>3
  <2> QED
    BY <2>1, StoreFacts DEF StoreWriters
<1>5. purging = {}
  BY StoreFacts DEF LocksHold
<1>6. StoreTypes'
  BY <1>1, <1>2, <1>4, <1>5, StoreFacts DEF StoreTypes, FilesTyped
<1>7. /\ ContentHolds' /\ Rounded(segments') <= MaxStoreParts + LineParts * storePast.faults
      /\ Cardinality(TailsLeft') <= storePast.faults /\ storePast.left <= storePast.faults
      /\ Total(segments) = Total(segments') + SizeOf(segments[n]) /\ Total(segments') \in Int
  <2>1. storeWriter.at # "rest" /\ storeWriter'.at # "rest" /\ (storeWriter'.at = "evict" => storeWriter.at = "evict")
    BY <1>4
  <2> QED
    BY <1>1, <1>6, <2>1, GoesHolds
<1>8. LocksHold' /\ WriterHolds'
  <2>1. LocksHold /\ WriterHolds /\ storeWriter.open \in DOMAIN segments \cup {NoFile}
    BY StoreFacts
  <2> QED
    BY <1>1, <1>2, <1>4, <1>5, <2>1 DEF LocksHold, WriterHolds
<1>9. PartsCounted'
  <2>1. Total(segments) = storeWriter.total + storePast.left /\ storePast.left \in Nat
    BY StoreFacts, PastFields DEF PartsCounted
  <2>3. storePast'.left = storePast.left
    OBVIOUS
  <2>4. storeWriter'.total = storeWriter.total - SizeOf(segments[n]) /\ Total(segments) = Total(segments') + SizeOf(segments[n])
    BY <1>4, <1>7
  <2>2. Total(segments') = storeWriter'.total + storePast'.left
    BY <1>3, <1>7, <2>1, <2>3, <2>4
  <2> QED
    BY <1>4, <1>7, <2>2 DEF PartsCounted
<1> QED
  BY <1>6, <1>7, <1>8, <1>9, Assembled

\* The closed segments are files of the directory, and the oldest is one.
LEMMA ClosedFacts ==
    ASSUME StoreInv, NEW T, T \subseteq Closed, T # {}
    PROVE  Min(T) \in T /\ Min(T) \in Closed /\ \A other \in T : Min(T) <= other
<1>1. T \subseteq Nat
  BY FilesFacts, StoreFacts DEF Closed
<1> QED
  BY <1>1, MinFacts

\* The oldest closed segment makes room.
LEMMA EvictKeeps == StoreInv /\ EvictSegment => StoreInv'
<1> SUFFICES ASSUME StoreInv, EvictSegment PROVE StoreInv'
  OBVIOUS
<1>1. storeWriter.at = "evict" /\ UNCHANGED <<traceDay, writerLock, selection, purging, storePast>>
  BY DEF EvictSegment
<1>2. CASE Closed = {}
  <2>1. storeWriter' = [storeWriter EXCEPT !.at = "idle", !.line = Garbled] /\ UNCHANGED segments
    BY <1>2 DEF EvictSegment
  <2>2. /\ storeWriter' \in StoreWriters /\ storeWriter'.at = "idle" /\ storeWriter'.open = storeWriter.open
        /\ storeWriter'.total = storeWriter.total
    BY <2>1, StoreFacts, NothingTyped DEF StoreWriters
  <2>3. StoreTypes'
    BY <1>1, <2>1, <2>2, StoreFacts DEF StoreTypes
  <2>4. LocksHold' /\ WriterHolds'
    <3>1. LocksHold /\ WriterHolds
      BY StoreFacts
    <3> QED
      BY <1>1, <2>1, <2>2, <3>1 DEF LocksHold, WriterHolds, Expired
  <2>5. PartsCounted'
    <3>1. storePast'.left = storePast.left /\ storePast'.faults \in Nat /\ storePast.faults <= storePast'.faults
      BY <1>1, StoreFacts, PastFields
    <3> QED
      BY <1>1, <2>1, <2>2, <3>1, PartsStay
  <2>6. ContentHolds'
    <3>1. CountsOn /\ storePast.files <= storePast'.files
      BY <1>1, <2>2, CountsStay, StoreFacts
    <3> QED
      BY <1>1, <2>1, <2>3, <3>1, ContentStays
  <2> QED
    BY <2>3, <2>4, <2>5, <2>6, Assembled
<1>3. CASE Closed # {}
  <2>1. segments' = Without(Min(Closed)) /\ storeWriter' = [storeWriter EXCEPT !.total = @ - SizeOf(segments[Min(Closed)])]
    BY <1>3 DEF EvictSegment
  <2>2. Min(Closed) \in Closed
    BY <1>3, ClosedFacts
  <2> QED
    BY <1>1, <2>1, <2>2, RemovedKeeps
<1> QED
  BY <1>2, <1>3

\* A segment that has expired is swept.
LEMMA SweepKeeps == StoreInv /\ Sweep => StoreInv'
<1> SUFFICES ASSUME StoreInv, Sweep PROVE StoreInv'
  OBVIOUS
<1> DEFINE old == {name \in Closed : Expired(name)}
<1>1. storeWriter.at = "sweep" /\ UNCHANGED <<traceDay, writerLock, selection, purging, storePast>>
  BY DEF Sweep
<1>2. CASE old = {}
  <2>1. storeWriter' = [storeWriter EXCEPT !.at = "idle"] /\ UNCHANGED segments
    BY <1>2 DEF Sweep
  <2>2. /\ storeWriter' \in StoreWriters /\ storeWriter'.at = "idle" /\ storeWriter'.open = storeWriter.open
        /\ storeWriter'.total = storeWriter.total
    BY <2>1, StoreFacts DEF StoreWriters
  <2>3. StoreTypes'
    BY <1>1, <2>1, <2>2, StoreFacts DEF StoreTypes
  <2>4. LocksHold' /\ WriterHolds'
    <3>1. LocksHold /\ WriterHolds
      BY StoreFacts
    <3> QED
      BY <1>1, <2>1, <2>2, <3>1 DEF LocksHold, WriterHolds, Expired
  <2>5. PartsCounted'
    <3>1. storePast'.left = storePast.left /\ storePast'.faults \in Nat /\ storePast.faults <= storePast'.faults
      BY <1>1, StoreFacts, PastFields
    <3> QED
      BY <1>1, <2>1, <2>2, <3>1, PartsStay
  <2>6. ContentHolds'
    <3>1. CountsOn /\ storePast.files <= storePast'.files
      BY <1>1, <2>2, CountsStay, StoreFacts
    <3> QED
      BY <1>1, <2>1, <2>3, <3>1, ContentStays
  <2> QED
    BY <2>3, <2>4, <2>5, <2>6, Assembled
<1>3. CASE old # {}
  <2>1. segments' = Without(Min(old)) /\ storeWriter' = [storeWriter EXCEPT !.total = @ - SizeOf(segments[Min(old)])]
    BY <1>3 DEF Sweep
  <2> HIDE DEF old
  <2>2. old \subseteq Closed
    BY DEF old
  <2>3. Min(old) \in Closed
    BY <1>3, <2>2, ClosedFacts
  <2> QED
    BY <1>1, <2>1, <2>3, RemovedKeeps
<1> QED
  BY <1>2, <1>3

\* A purge, or the janitor, takes the lock.
LEMMA LockKeeps == StoreInv /\ (LockPurge \/ LockSweep) => StoreInv'
<1> SUFFICES ASSUME StoreInv, LockPurge \/ LockSweep PROVE StoreInv'
  OBVIOUS
<1>1. /\ writerLock = "free" /\ UNCHANGED <<segments, traceDay, storeWriter, selection>>
      /\ \/ writerLock' = "purge"
         \/ writerLock' = "janitor" /\ \A name \in purging' : Expired(name)
      /\ purging' # {} /\ purging' \subseteq DOMAIN segments
  BY DEF LockPurge, LockSweep
<1>2. /\ storePast' \in StorePasts /\ storePast'.rows = storePast.rows /\ storePast'.files = storePast.files
      /\ storePast'.left = storePast.left /\ storePast'.faults = storePast.faults
  <2>1. storePast \in StorePasts /\ storePast.purges + 1 \in Nat
    BY StoreFacts, PastFields
  <2>2. storePast' = storePast \/ storePast' = [storePast EXCEPT !.purges = storePast.purges + 1]
    BY DEF LockPurge, LockSweep
  <2> QED
    BY <2>1, <2>2 DEF StorePasts
<1>3. StoreTypes'
  BY <1>1, <1>2, StoreFacts DEF StoreTypes
<1>4. LocksHold' /\ WriterHolds'
  <2>1. LocksHold /\ WriterHolds
    BY StoreFacts
  <2> QED
    BY <1>1, <1>2, <2>1 DEF LocksHold, WriterHolds, Expired
<1>5. PartsCounted'
  <2>1. TailsLeft' = TailsLeft
    BY <1>1 DEF TailsLeft
  <2> QED
    BY <1>1, <1>2, <2>1, StoreFacts DEF PartsCounted
<1>6. ContentHolds'
  <2>1. CountsOn /\ storePast.files <= storePast'.files
    BY <1>1, <1>2, CountsStay, StoreFacts
  <2> QED
    BY <1>1, <1>3, <2>1, ContentStays
<1> QED
  BY <1>3, <1>4, <1>5, <1>6, Assembled

\* A purge, or the janitor, removes a segment.
LEMMA PurgeKeeps == StoreInv /\ PurgeSegment => StoreInv'
<1> SUFFICES ASSUME StoreInv, PurgeSegment PROVE StoreInv'
  OBVIOUS
<1> DEFINE n == Min(purging)
<1>1. /\ purging # {} /\ segments' = Without(n) /\ purging' = purging \ {n}
      /\ writerLock' = (IF purging' = {} THEN "free" ELSE writerLock)
      /\ UNCHANGED <<traceDay, storeWriter, selection, storePast>>
  BY DEF PurgeSegment
<1>2. n \in purging /\ n \in DOMAIN segments
  <2>1. purging \subseteq Nat /\ purging \subseteq DOMAIN segments
    BY FilesFacts, StoreFacts
  <2> QED
    BY <1>1, <2>1, MinFacts
<1> HIDE DEF n
<1>3. storeWriter.at = "down" /\ storeWriter.open = NoFile
  BY <1>1, StoreFacts DEF LocksHold
<1>4. /\ FilesTyped(segments') /\ DOMAIN segments' = DOMAIN segments \ {n}
      /\ \A m \in DOMAIN segments' : segments'[m] = segments[m]
  BY <1>1, <1>2, FileGoes
<1>5. StoreTypes'
  <2>1. writerLock' \in {"free", "writer", "purge", "janitor"}
    BY <1>1, StoreFacts DEF StoreTypes
  <2> QED
    BY <1>1, <1>2, <1>3, <1>4, <2>1, StoreFacts DEF StoreTypes, FilesTyped
<1>6. /\ ContentHolds' /\ Rounded(segments') <= MaxStoreParts + LineParts * storePast.faults
      /\ Cardinality(TailsLeft') <= storePast.faults /\ storePast.left <= storePast.faults
  <2>1. storeWriter.at # "rest" /\ storeWriter'.at # "rest" /\ storeWriter'.at # "evict" /\ UNCHANGED <<selection, storePast>>
    BY <1>1, <1>3
  <2> QED
    BY <1>1, <1>2, <1>5, <2>1, GoesHolds
<1>7. LocksHold' /\ WriterHolds'
  <2>1. LocksHold /\ WriterHolds
    BY StoreFacts
  <2> QED
    BY <1>1, <1>2, <1>3, <2>1 DEF LocksHold, WriterHolds, Expired
<1>8. PartsCounted'
  BY <1>1, <1>3, <1>6 DEF PartsCounted
<1> QED
  BY <1>5, <1>6, <1>7, <1>8, Assembled

\* A segment is started: it is empty, and its name and its inode are new.
LEMMA SegmentStarts ==
    ASSUME StoreInv, NEW day \in 1..MaxTraceDays, storePast.rows < MaxTraceRows
    PROVE  LET n == nextTraceSegment(day)
           IN  n \in StoreNames /\ n \notin DOMAIN segments /\ DayOf(n) = day /\ n % 1000 <= storePast.files + 1
<1> DEFINE same == {n \in DOMAIN segments : DayOf(n) = day}
           numbers == {name % 1000 : name \in same}
           number == IF numbers = {} THEN 1 ELSE Max(numbers) + 1
<1>1. /\ storePast.files \in Nat /\ storePast.files < storePast.rows /\ storePast.rows \in Nat /\ MaxTraceRows \in Nat
      /\ DOMAIN segments \subseteq StoreNames
  BY StoreFacts, PastFields, StoreBounds
<1>2. \A name \in DOMAIN segments : name % 1000 \in Nat /\ name % 1000 >= 1 /\ name % 1000 <= storePast.files
  <2>1. ASSUME NEW name \in DOMAIN segments PROVE name % 1000 \in Nat /\ name % 1000 >= 1 /\ name % 1000 <= storePast.files
    <3>1. name % 1000 \in 1..MaxTraceRows
      BY <1>1, NameFacts
    <3>2. name % 1000 <= storePast.files
      BY DEF StoreInv, FileHolds
    <3> QED
      BY <3>1, <3>2
  <2> QED
    BY <2>1
<1>3. numbers \subseteq 0..storePast.files
  BY <1>1, <1>2
<1>4. number \in 1..(storePast.files + 1) /\ \A m \in numbers : m < number
  <2>1. CASE numbers = {}
    BY <1>1, <2>1
  <2>2. CASE numbers # {}
    <3>1. Max(numbers) \in numbers /\ \A m \in numbers : Max(numbers) >= m
      BY <1>1, <1>3, <2>2, MaxFacts
    <3>2. \A m \in numbers : m \in Nat /\ m <= storePast.files
      BY <1>1, <1>3
    <3> HIDE DEF numbers
    <3>3. number = Max(numbers) + 1
      BY <2>2
    <3> HIDE DEF number
    <3> QED
      BY <1>1, <3>1, <3>2, <3>3
  <2> QED
    BY <2>1, <2>2
<1>5. nextTraceSegment(day) = NameOf(day, number)
  BY DEF nextTraceSegment
<1>6. number \in 1..MaxTraceRows
  BY <1>1, <1>4
<1> HIDE DEF number
<1>7. NameOf(day, number) \in StoreNames /\ DayOf(NameOf(day, number)) = day /\ NameOf(day, number) % 1000 = number
  BY <1>6, NewName
<1>8. NameOf(day, number) \notin DOMAIN segments
  <2>1. SUFFICES ASSUME NameOf(day, number) \in DOMAIN segments PROVE FALSE
    OBVIOUS
  <2>2. NameOf(day, number) \in same
    BY <1>7, <2>1
  <2>3. number \in numbers
    BY <1>7, <2>2
  <2>4. number < number
    BY <1>4, <2>3
  <2> QED
    BY <1>6, <2>4
<1> QED
  BY <1>1, <1>4, <1>5, <1>7, <1>8

\* A line is to be written, to the segment that is open or to one that is started.
LEMMA PrepareKeeps == ASSUME StoreInv, NEW day \in {traceDay - 1, traceDay}, PrepareAppend(day) PROVE StoreInv'
<1> DEFINE line == [id |-> storePast.rows + 1, day |-> day]
<1>1. storeWriter.at = "idle" /\ storePast.rows < MaxTraceRows /\ UNCHANGED <<traceDay, writerLock, selection, purging>>
  BY DEF PrepareAppend
<1>2. /\ storePast.rows \in Nat /\ storePast.files \in Nat /\ MaxTraceRows \in Nat /\ traceDay \in 2..MaxTraceDays
      /\ MaxTraceDays \in Nat /\ storePast \in StorePasts /\ storeWriter \in StoreWriters
      /\ storePast.files < storePast.rows /\ storePast.faults \in Nat /\ storePast.left \in Nat
  BY StoreFacts, PastFields, StoreBounds DEF StoreTypes
<1>3. day \in 1..MaxTraceDays /\ day \in 0..MaxTraceDays /\ storePast.rows + 1 \in 0..MaxTraceRows
  BY <1>1, <1>2
<1>4. line \in LinesOf /\ line.id = storePast.rows + 1 /\ line.day = day
  BY <1>3 DEF LinesOf
<1>5. LocksHold /\ WriterHolds /\ PartsCounted /\ NoFile \notin DOMAIN segments
      /\ storeWriter.open \in DOMAIN segments \cup {NoFile}
  BY StoreFacts
<1> HIDE DEF line
<1>6. storePast'.rows = storePast.rows + 1 => CountsOn
  BY <1>2 DEF CountsOn, Counted, CountedThen
<1>7. CASE Rotates(day)
  <2> DEFINE n == nextTraceSegment(day)
             new == [inode |-> storePast.files + 1, lines |-> <<>>, tail |-> NoPart]
  <2>1. /\ segments' = [name \in DOMAIN segments \cup {n} |-> IF name \in DOMAIN segments THEN segments[name] ELSE new]
        /\ storeWriter' = [storeWriter EXCEPT !.at = "evict", !.open = n, !.line = line]
        /\ storePast' = [storePast EXCEPT !.rows = storePast.rows + 1, !.files = storePast.files + 1]
    BY <1>7 DEF PrepareAppend, line
  <2>2. n \in StoreNames /\ n \notin DOMAIN segments /\ DayOf(n) = day /\ n % 1000 <= storePast.files + 1
    BY <1>1, <1>3, SegmentStarts
  <2>3. /\ new \in StoreFiles /\ new.inode = storePast.files + 1 /\ new.lines = <<>> /\ Len(new.lines) = 0
        /\ ~new.tail.present /\ ~new.tail.whole
    <3>1. storePast.files + 1 \in Nat /\ <<>> \in Seq(LinesOf)
      BY <1>2
    <3> QED
      BY <3>1, NothingTyped DEF StoreFiles, NoPart
  <2> HIDE DEF n, new
  <2>4. /\ segments' = [name \in DOMAIN segments' |-> segments'[name]] /\ DOMAIN segments' = DOMAIN segments \cup {n}
        /\ segments'[n] = new /\ \A m \in DOMAIN segments : segments'[m] = segments[m]
    BY <2>1, <2>2
  <2>5. FilesTyped(segments) /\ FilesTyped(segments')
    <3>1. FilesTyped(segments)
      BY StoreFacts
    <3>2. IsFiniteSet(DOMAIN segments')
      BY <2>4, <3>1, FS_AddElement DEF FilesTyped
    <3> QED
      BY <2>3, <2>4, <3>1, <3>2 DEF FilesTyped
  <2>6. Total(segments') = Total(segments) /\ Rounded(segments') = Rounded(segments)
    BY <2>2, <2>3, <2>4, <2>5, TotalAdds
  <2>7. n \in Nat /\ n # NoFile
    BY <2>2, NameFacts
  <2>8. /\ storeWriter' \in StoreWriters /\ storeWriter'.at = "evict" /\ storeWriter'.open = n /\ storeWriter'.line = line
        /\ storeWriter'.total = storeWriter.total
    BY <1>2, <1>4, <2>1, <2>7 DEF StoreWriters
  <2>9. /\ storePast' \in StorePasts /\ storePast'.rows = storePast.rows + 1 /\ storePast'.files = storePast.files + 1
        /\ storePast'.left = storePast.left /\ storePast'.faults = storePast.faults
    <3>1. storePast.files + 1 \in Nat
      BY <1>2
    <3> QED
      BY <1>2, <1>3, <2>1, <3>1 DEF StorePasts
  <2>10. StoreTypes'
    <3>1. storePast'.files < storePast'.rows
      BY <1>2, <2>9
    <3> QED
      BY <1>1, <2>2, <2>4, <2>5, <2>8, <2>9, <3>1, StoreFacts DEF StoreTypes, FilesTyped
  <2>11. CountsOn /\ storePast.files <= storePast'.files /\ new.inode > storePast.files
    BY <1>2, <1>6, <2>3, <2>9
  <2>12. SelectionHolds(selection)'
    <3>1. Selecting => \A name \in DOMAIN segments' :
               \/ name \in DOMAIN segments /\ Carries(segments[name], segments'[name], selection.had)
               \/ segments'[name].inode > storePast.files /\ ~segments'[name].tail.present
      BY <2>3, <2>4, <2>11, SameCarried
    <3>2. UNCHANGED selection
      BY <1>1
    <3> QED
      BY <2>10, <2>11, <3>1, <3>2, SelectionStays
  <2>13. \A name \in DOMAIN segments' : FileHolds(name)'
    <3>1. ASSUME NEW name \in DOMAIN segments' PROVE FileHolds(name)'
      <4>1. CASE name = n
        <5>1. segments'[name] = new /\ new.inode <= storePast'.files /\ name % 1000 <= storePast'.files
          BY <1>2, <2>2, <2>3, <2>4, <2>9, <4>1
        <5>2. \A i \in 1..Len(new.lines) : FALSE
          BY <2>3
        <5> QED
          BY <2>3, <5>1, <5>2 DEF FileHolds
      <4>2. CASE name # n
        <5>1. name \in DOMAIN segments /\ segments'[name] = segments[name]
          BY <2>4, <4>2
        <5>2. LET file == segments[name]
              IN  /\ file.inode <= storePast'.files /\ name % 1000 <= storePast'.files
                  /\ \A i \in 1..Len(file.lines) : CountedThen(file.lines[i]) /\ file.lines[i].day = DayOf(name)
                  /\ file.tail.whole => file.tail.present
                  /\ file.tail.present => CountedThen(file.tail.line) /\ file.tail.line.day = DayOf(name)
          BY <2>10, <2>11, <5>1, FileHoldsThen
        <5> QED
          BY <5>1, <5>2 DEF FileHolds, Counted, CountedThen
      <4> QED
        BY <4>1, <4>2
    <3> QED
      BY <3>1
  <2>14. TailsApart'
    <3>1. TailsApart
      BY DEF StoreInv
    <3> QED
      BY <2>3, <2>4, <3>1 DEF TailsApart
  <2>15. LocksHold' /\ WriterHolds'
    BY <1>1, <1>4, <1>5, <2>2, <2>3, <2>4, <2>7, <2>8, <2>9 DEF LocksHold, WriterHolds, Expired
  <2>16. PartsCounted'
    <3>1. TailsLeft' = TailsLeft
      BY <1>1, <2>3, <2>4, <2>8 DEF TailsLeft
    <3> QED
      BY <1>1, <1>5, <2>6, <2>8, <2>9, <3>1 DEF PartsCounted
  <2> QED
    BY <2>10, <2>12, <2>13, <2>14, <2>15, <2>16, Assembled DEF ContentHolds
<1>8. CASE ~Rotates(day)
  <2>1. /\ storeWriter' = [storeWriter EXCEPT !.at = "evict", !.line = line]
        /\ storePast' = [storePast EXCEPT !.rows = storePast.rows + 1] /\ UNCHANGED segments
    BY <1>8 DEF PrepareAppend, line
  <2>2. storeWriter.open # NoFile /\ DayOf(storeWriter.open) = day
    BY <1>8 DEF Rotates
  <2>3. /\ storeWriter' \in StoreWriters /\ storeWriter'.at = "evict" /\ storeWriter'.open = storeWriter.open /\ storeWriter'.line = line
        /\ storeWriter'.total = storeWriter.total
    BY <1>2, <1>4, <2>1 DEF StoreWriters
  <2>4. /\ storePast' \in StorePasts /\ storePast'.rows = storePast.rows + 1 /\ storePast'.files = storePast.files
        /\ storePast'.left = storePast.left /\ storePast'.faults = storePast.faults
    BY <1>2, <1>3, <2>1 DEF StorePasts
  <2>5. StoreTypes'
    <3>1. storePast'.files < storePast'.rows
      BY <1>2, <2>4
    <3> QED
      BY <1>1, <2>1, <2>3, <2>4, <3>1, StoreFacts DEF StoreTypes
  <2>6. ContentHolds'
    <3>1. CountsOn /\ storePast.files <= storePast'.files
      BY <1>2, <1>6, <2>4
    <3> QED
      BY <1>1, <2>1, <2>5, <3>1, ContentStays
  <2>7. LocksHold' /\ WriterHolds'
    BY <1>1, <1>4, <1>5, <2>1, <2>2, <2>3, <2>4 DEF LocksHold, WriterHolds, Expired
  <2>8. PartsCounted'
    <3>1. storePast'.left = storePast.left /\ storePast'.faults \in Nat /\ storePast.faults <= storePast'.faults
      BY <1>2, <2>4
    <3>2. storeWriter.at # "rest" /\ storeWriter'.at # "rest"
          /\ (storeWriter'.at # "down" => storeWriter.at # "down" /\ storeWriter'.total = storeWriter.total)
      BY <1>1, <2>3
    <3> QED
      BY <2>1, <3>1, <3>2, PartsStay
  <2> QED
    BY <2>5, <2>6, <2>7, <2>8, Assembled
<1> QED
  BY <1>7, <1>8

\* The last line of the latest segment is completed, or cut off.
LEMMA RecoverFile ==
    ASSUME StoreInv, NEW n \in DOMAIN segments, NEW g, g = recoverLastLine(segments[n])
    PROVE  /\ g \in StoreFiles /\ g.inode = segments[n].inode /\ g.tail = NoPart
           /\ Settles(segments[n], g) /\ (Selecting => Carries(segments[n], g, selection.had))
           /\ RoundedSize(g) <= RoundedSize(segments[n])
<1> DEFINE f == segments[n]
<1>1. f \in StoreFiles /\ (f.tail.whole => f.tail.present) /\ f.lines \in Seq(LinesOf) /\ f.tail.line \in LinesOf
      /\ Len(f.lines) \in Nat /\ RoundedSize(f) \in Nat
  <2>1. f \in StoreFiles /\ FileHolds(n)
    BY FilesFacts DEF StoreInv
  <2>2. f.tail.whole => f.tail.present
    BY <2>1 DEF FileHolds
  <2>3. f.lines \in Seq(LinesOf) /\ f.tail.line \in LinesOf /\ Len(f.lines) \in Nat /\ RoundedSize(f) \in Nat
    BY <2>1, SegmentFields
  <2> QED
    BY <2>1, <2>2, <2>3
<1>2. CASE f.tail.whole
  <2>1. Append(f.lines, f.tail.line) \in Seq(LinesOf)
    BY <1>1
  <2>2. g \in StoreFiles /\ g.inode = f.inode /\ g.tail = NoPart /\ g.lines = Append(f.lines, f.tail.line)
    BY <1>1, <1>2, <2>1, NothingTyped DEF StoreFiles, recoverLastLine
  <2>3. /\ Len(g.lines) = Len(f.lines) + 1 /\ (\A i \in 1..Len(f.lines) : g.lines[i] = f.lines[i])
        /\ g.lines[Len(g.lines)] = f.tail.line
    <3> HIDE DEF f
    <3> QED
      BY <1>1, <2>2, TailEnded
  <2>4. f.tail.present
    BY <1>1, <1>2
  <2>5. /\ Settles(f, g) /\ (Selecting => Carries(f, g, selection.had)) /\ RoundedSize(g) = RoundedSize(f)
    BY <2>2, <2>3, <2>4, EndSettles
  <2> QED
    BY <1>1, <2>2, <2>5
<1>3. CASE ~f.tail.whole
  <2>1. g \in StoreFiles /\ g.inode = f.inode /\ g.tail = NoPart /\ g.lines = f.lines
    BY <1>1, <1>3, NothingTyped DEF StoreFiles, recoverLastLine
  <2>2. ~g.tail.present
    BY <2>1, NothingTyped
  <2>3. Settles(f, g)
    BY <2>1, <2>2 DEF Settles
  <2>4. Selecting => Carries(f, g, selection.had)
    <3>1. Selecting => Carries(f, f, selection.had)
      BY SameCarried
    <3> QED
      BY <2>1, <2>2, <3>1 DEF Carries
  <2>5. RoundedSize(g) <= RoundedSize(f)
    <3>1. RoundedSize(g) = 2 * Len(f.lines) + 0
      BY <2>1, <2>2, SegmentFields
    <3>2. RoundedSize(f) = 2 * Len(f.lines) + (IF f.tail.present THEN 2 ELSE 0)
      BY <1>1, SegmentFields
    <3>3. RoundedSize(f) = 2 * Len(f.lines) + 2 \/ RoundedSize(f) = 2 * Len(f.lines) + 0
      BY <3>2
    <3> QED
      BY <1>1, <3>1, <3>3
  <2> QED
    BY <2>1, <2>3, <2>4, <2>5
<1> QED
  BY <1>2, <1>3

\* The writer opens the directory.
LEMMA OpenKeeps == StoreInv /\ OpenStore => StoreInv'
<1> SUFFICES ASSUME StoreInv, OpenStore PROVE StoreInv'
  OBVIOUS
<1> DEFINE n == IF DOMAIN segments = {} THEN NoFile ELSE Max(DOMAIN segments)
<1>1. /\ storeWriter.at = "down" /\ writerLock = "free" /\ writerLock' = "writer"
      /\ segments' = [name \in DOMAIN segments |-> IF name = n THEN recoverLastLine(segments[name]) ELSE segments[name]]
      /\ storeWriter' = [WriterDown EXCEPT !.at = "sweep", !.total = Total(segments'),
                                !.open = IF DayOf(n) = traceDay THEN n ELSE NoFile]
      /\ UNCHANGED <<traceDay, selection, purging>>
  BY DEF OpenStore
<1>2. storePast' = [storePast EXCEPT !.opens = @ + 1, !.left = 0]
  BY DEF OpenStore
<1>3. /\ storePast' \in StorePasts /\ storePast'.rows = storePast.rows /\ storePast'.files = storePast.files
      /\ storePast'.left = 0 /\ storePast'.faults = storePast.faults /\ storePast.faults \in Nat
  <2>1. storePast.opens + 1 \in Nat /\ storePast \in StorePasts /\ storePast.faults \in Nat
    BY StoreFacts, PastFields
  <2> QED
    BY <1>2, <2>1 DEF StorePasts
<1>4. \/ DOMAIN segments = {} /\ n = NoFile
      \/ n \in DOMAIN segments
  <2>1. CASE DOMAIN segments # {}
    <3>1. DOMAIN segments \subseteq Nat /\ IsFiniteSet(DOMAIN segments)
      BY FilesFacts, StoreFacts DEF FilesTyped
    <3>2. \E m \in Nat : DOMAIN segments \subseteq 0..m
      <4>1. MaxTraceDays \in Nat
        BY StoreFacts
      <4>2. \A name \in DOMAIN segments : name \in Nat /\ name \div 1000 <= MaxTraceDays
        <5>1. \A name \in DOMAIN segments : name \in Nat /\ DayOf(name) \in 1..MaxTraceDays
          BY StoreFacts, NameFacts
        <5> QED
          BY <4>1, <5>1 DEF DayOf
      <4>3. ASSUME NEW name \in DOMAIN segments PROVE name \in 0..(1000 * MaxTraceDays + 999)
        <5>1. name \in Nat /\ name \div 1000 <= MaxTraceDays
          BY <4>2
        <5> QED
          BY <4>1, <5>1
      <4>4. 1000 * MaxTraceDays + 999 \in Nat
        BY <4>1
      <4> QED
        BY <4>3, <4>4
    <3>3. Max(DOMAIN segments) \in DOMAIN segments
      BY <2>1, <3>2, MaxFacts
    <3> QED
      BY <2>1, <3>3
  <2> QED
    BY <2>1
<1> HIDE DEF n
<1>5. DayOf(n) = traceDay => n \in DOMAIN segments
  <2>1. traceDay \in 2..MaxTraceDays /\ DayOf(NoFile) = 0
    BY StoreFacts DEF StoreTypes, DayOf, NoFile
  <2> QED
    BY <1>4, <2>1, StoreFacts
<1>6. storeWriter'.at = "sweep" /\ storeWriter'.total = Total(segments')
      /\ storeWriter'.open = (IF DayOf(n) = traceDay THEN n ELSE NoFile) /\ storeWriter'.line = Garbled
  BY <1>1 DEF WriterDown
<1>7. Total(segments') \in Int => storeWriter' \in StoreWriters
  <2>1. (IF DayOf(n) = traceDay THEN n ELSE NoFile) \in Nat
    BY <1>5, FilesFacts, StoreFacts DEF NoFile
  <2> QED
    BY <1>1, <2>1, DownTyped DEF StoreWriters
<1>8. CountsOn /\ storePast.files <= storePast'.files
  BY <1>3, <1>6, CountsStay, StoreFacts
<1>9. LocksHold' /\ storePast'.left <= storePast'.faults
  <2>1. LocksHold
    BY StoreFacts
  <2> QED
    BY <1>1, <1>3, <1>6, <2>1 DEF LocksHold, Expired
<1>10. CASE DOMAIN segments = {} /\ n = NoFile
  <2>1. UNCHANGED segments
    <3>1. segments = [name \in DOMAIN segments |-> segments[name]]
      BY StoreFacts DEF FilesTyped
    <3> QED
      BY <1>1, <1>10, <3>1
  <2>2. storeWriter'.open = NoFile /\ storeWriter' \in StoreWriters
    BY <1>5, <1>6, <1>7, <1>10, <2>1, StoreFacts
  <2>3. StoreTypes'
    BY <1>1, <1>3, <2>1, <2>2, StoreFacts DEF StoreTypes
  <2>4. ContentHolds'
    BY <1>1, <1>8, <2>1, <2>3, ContentStays
  <2>5. WriterHolds'
    BY <1>6, <2>2 DEF WriterHolds
  <2>6. PartsCounted'
    <3>1. TailsLeft' = TailsLeft
      BY <1>1, <1>6, <2>1 DEF TailsLeft
    <3>2. Total(segments') = storeWriter'.total + storePast'.left
      BY <1>3, <1>6, <2>1, StoreFacts
    <3> QED
      BY <1>3, <1>6, <1>9, <2>1, <3>1, <3>2, StoreFacts DEF PartsCounted
  <2> QED
    BY <1>9, <2>3, <2>4, <2>5, <2>6, Assembled
<1>11. CASE n \in DOMAIN segments
  <2> DEFINE f == segments[n]
             g == recoverLastLine(f)
  <2>1. segments' = [segments EXCEPT ![n] = g]
    <3>1. segments = [name \in DOMAIN segments |-> segments[name]]
      BY StoreFacts DEF FilesTyped
    <3> HIDE DEF g
    <3>2. segments' = [name \in DOMAIN segments |-> IF name = n THEN g ELSE segments[name]]
      BY <1>1 DEF g
    <3> QED
      BY <3>1, <3>2
  <2>2. /\ g \in StoreFiles /\ g.inode = f.inode /\ g.tail = NoPart /\ Settles(f, g) /\ (Selecting => Carries(f, g, selection.had))
        /\ RoundedSize(g) <= RoundedSize(f)
    BY <1>11, RecoverFile
  <2>3. ~g.tail.present /\ ~g.tail.whole
    BY <2>2 DEF NoPart
  <2> HIDE DEF g
  <2>4. /\ FilesTyped(segments') /\ DOMAIN segments' = DOMAIN segments /\ segments'[n] = g
        /\ \A m \in DOMAIN segments \ {n} : segments'[m] = segments[m]
        /\ Rounded(segments') = Rounded(segments) - RoundedSize(f) + RoundedSize(g)
    BY <1>11, <2>1, <2>2, FileBecomes
  <2>5. Total(segments') \in Nat /\ Rounded(segments') \in Nat
    BY <2>4, TotalWeighs
  <2>6. storeWriter' \in StoreWriters /\ storeWriter'.open \in DOMAIN segments \cup {NoFile}
    BY <1>5, <1>6, <1>7, <2>5
  <2>7. StoreTypes'
    BY <1>1, <1>3, <2>4, <2>6, StoreFacts DEF StoreTypes, FilesTyped
  <2>8. ContentHolds'
    BY <1>1, <1>8, <1>11, <2>1, <2>2, <2>3, <2>7, FileSettles
  <2>9. WriterHolds'
    BY <1>6, <2>3, <2>4 DEF WriterHolds
  <2>10. PartsCounted'
    <3>1. TailsLeft' \subseteq TailsLeft
      BY <1>1, <1>6, <1>11, <2>3, <2>4 DEF TailsLeft
    <3>2. Cardinality(TailsLeft') \in Nat /\ Cardinality(TailsLeft') <= Cardinality(TailsLeft)
      BY <3>1, TailsNoMore
    <3>3. Total(segments') = storeWriter'.total + storePast'.left
      BY <1>3, <1>6, <2>5
    <3>4. RoundedSize(f) \in Nat /\ RoundedSize(g) \in Nat
      BY <1>11, <2>2, FilesFacts, StoreFacts, SegmentFields
    <3>5. Cardinality(TailsLeft) <= storePast.faults /\ Rounded(segments) <= MaxStoreParts + 2 * storePast.faults
          /\ Cardinality(TailsLeft) \in Nat /\ MaxStoreParts \in Nat /\ Rounded(segments) \in Nat
      BY StoreFacts DEF PartsCounted, LineParts
    <3>6. Rounded(segments') <= MaxStoreParts + 2 * storePast.faults
      BY <1>3, <2>2, <2>4, <2>5, <3>4, <3>5
    <3>7. Cardinality(TailsLeft') <= storePast'.faults
      BY <1>3, <3>2, <3>5
    <3> QED
      BY <1>3, <1>6, <1>9, <3>3, <3>6, <3>7 DEF PartsCounted, LineParts
  <2> QED
    BY <1>9, <2>7, <2>8, <2>9, <2>10, Assembled
<1> QED
  BY <1>4, <1>10, <1>11

-----------------------------------------------------------------------------
\* A step of a selection alone.
LEMMA SelectionStepKeeps ==
    ASSUME StoreInv, UNCHANGED <<segments, traceDay, writerLock, storeWriter, purging>>,
           storePast' \in StorePasts, storePast'.rows = storePast.rows, storePast'.files = storePast.files,
           storePast'.left = storePast.left, storePast'.faults = storePast.faults,
           selection' \in Selections, SelectionHolds(selection)'
    PROVE  StoreInv'
<1>1. StoreTypes'
  BY StoreFacts DEF StoreTypes
<1>2. LocksHold' /\ WriterHolds'
  BY StoreFacts DEF LocksHold, WriterHolds, Expired
<1>3. PartsCounted'
  <2>1. TailsLeft' = TailsLeft
    BY DEF TailsLeft
  <2> QED
    BY <2>1, StoreFacts DEF PartsCounted
<1>4. TailsApart'
  BY DEF StoreInv, TailsApart
<1>5. ASSUME NEW name \in DOMAIN segments' PROVE FileHolds(name)'
  <2>1. FileHolds(name)
    BY DEF StoreInv
  <2> QED
    BY <2>1 DEF FileHolds, Counted
<1> QED
  BY <1>1, <1>2, <1>3, <1>4, <1>5, Assembled DEF ContentHolds

\* Nothing past moves.
LEMMA SelectionOnlyKeeps ==
    ASSUME StoreInv, UNCHANGED <<segments, traceDay, writerLock, storeWriter, purging, storePast>>,
           selection' \in Selections, SelectionHolds(selection)'
    PROVE  StoreInv'
<1>1. storePast \in StorePasts /\ storePast' = storePast
  BY StoreFacts
<1>2. storePast' \in StorePasts /\ storePast'.rows = storePast.rows /\ storePast'.files = storePast.files
      /\ storePast'.left = storePast.left /\ storePast'.faults = storePast.faults
  BY <1>1
<1> QED
  BY <1>2, SelectionStepKeeps

\* A selection that begins anew.
LEMMA NoSelectionTyped ==
    /\ NoSelection \in Selections /\ NoSelection.ends = <<>> /\ DOMAIN NoSelection.ends = {} /\ NoSelection.found = {}
    /\ NoSelection.at = "idle"
<1>1. <<>> \in [{} -> [inode : Nat, end : Nat]] /\ DOMAIN <<>> = {}
  OBVIOUS
<1>2. <<>> \in Measures
  BY <1>1 DEF Measures
<1> QED
  BY <1>1, <1>2 DEF NoSelection, Selections

\* A selection that finds the directory changed.
LEMMA ChangedKeeps ==
    ASSUME StoreInv, UNCHANGED <<segments, traceDay, writerLock, storeWriter, purging, storePast>>, SelectionEnds("changed")
    PROVE  StoreInv'
<1>1. selection' \in Selections /\ selection'.at = "changed"
  BY NoSelectionTyped DEF SelectionEnds, Selections
<1>2. SelectionHolds(selection)'
  BY <1>1 DEF SelectionHolds
<1> QED
  BY <1>1, <1>2, SelectionOnlyKeeps

\* The complete lines of the files: each is in a place of a file.
LEMMA WholeLinesFacts ==
    ASSUME StoreInv
    PROVE  /\ WholeLines(segments) \subseteq LinesOf
           /\ \A line \in WholeLines(segments) : \E name \in DOMAIN segments : \E i \in 1..Len(segments[name].lines) : segments[name].lines[i] = line
           /\ \A name \in DOMAIN segments : \A i \in 1..Len(segments[name].lines) : segments[name].lines[i] \in WholeLines(segments)
<1>1. ASSUME NEW line \in WholeLines(segments)
      PROVE  \E name \in DOMAIN segments : \E i \in 1..Len(segments[name].lines) : segments[name].lines[i] = line
  <2>1. PICK name \in DOMAIN segments : line \in ToSet(segments[name].lines)
    BY <1>1 DEF WholeLines
  <2>2. Len(segments[name].lines) \in Nat /\ DOMAIN segments[name].lines = 1..Len(segments[name].lines)
    BY <2>1, StoreFacts, FilesFacts, SegmentFields
  <2> QED
    BY <2>1, <2>2 DEF ToSet
<1>2. ASSUME NEW name \in DOMAIN segments, NEW i \in 1..Len(segments[name].lines)
      PROVE  segments[name].lines[i] \in WholeLines(segments)
  <2>1. DOMAIN segments[name].lines = 1..Len(segments[name].lines)
    BY <1>2, StoreFacts, FilesFacts, SegmentFields
  <2>2. segments[name].lines[i] \in ToSet(segments[name].lines)
    BY <2>1 DEF ToSet
  <2> QED
    BY <2>2 DEF WholeLines
<1>3. \A name \in DOMAIN segments : \A i \in 1..Len(segments[name].lines) : segments[name].lines[i] \in LinesOf
  BY StoreFacts, FilesFacts, SegmentFields
<1> QED
  BY <1>1, <1>2, <1>3

\* traces package begins.
LEMMA BeginSelectionKeeps == StoreInv /\ BeginSelection => StoreInv'
<1> SUFFICES ASSUME StoreInv, BeginSelection PROVE StoreInv'
  OBVIOUS
<1> DEFINE k == [NoSelection EXCEPT !.at = IF DOMAIN segments = {} THEN "verify" ELSE "measure",
                        !.names = DOMAIN segments, !.todo = DOMAIN segments, !.had = WholeLines(segments)]
<1>1. /\ selection' = k /\ storePast' = [storePast EXCEPT !.selections = @ + 1]
      /\ UNCHANGED <<segments, traceDay, writerLock, storeWriter, purging>>
  BY DEF BeginSelection
<1>2. DOMAIN segments \in SUBSET StoreNames /\ WholeLines(segments) \in SUBSET LinesOf
  BY StoreFacts, WholeLinesFacts
<1>3. /\ k \in Selections /\ k.at = (IF DOMAIN segments = {} THEN "verify" ELSE "measure")
      /\ k.names = DOMAIN segments /\ k.todo = DOMAIN segments /\ k.had = WholeLines(segments) /\ k.found = {}
      /\ k.ends = <<>> /\ DOMAIN k.ends = {}
  <2>1. NoSelection \in Selections /\ NoSelection.ends = <<>> /\ DOMAIN NoSelection.ends = {} /\ NoSelection.found = {}
    BY NoSelectionTyped
  <2> QED
    BY <1>2, <2>1 DEF Selections
<1> HIDE DEF k
<1>4. /\ storePast' \in StorePasts /\ storePast'.rows = storePast.rows /\ storePast'.files = storePast.files
      /\ storePast'.left = storePast.left /\ storePast'.faults = storePast.faults
  <2>1. storePast.selections + 1 \in Nat /\ storePast \in StorePasts
    BY StoreFacts, PastFields
  <2> QED
    BY <1>1, <2>1 DEF StorePasts
<1>5. Selects(k)
  <2>1. ASSUME NEW line \in k.had PROVE Counted(line)
    <3>1. PICK name \in DOMAIN segments : \E i \in 1..Len(segments[name].lines) : segments[name].lines[i] = line
      BY <1>3, <2>1, WholeLinesFacts
    <3>2. FileHolds(name)
      BY DEF StoreInv
    <3> QED
      BY <3>1, <3>2 DEF FileHolds
  <2>2. ASSUME NEW name \in DOMAIN segments, segments[name].tail.present PROVE segments[name].tail.line \notin k.had
    <3>1. SUFFICES ASSUME segments[name].tail.line \in WholeLines(segments) PROVE FALSE
      BY <1>3
    <3>2. PICK other \in DOMAIN segments : \E i \in 1..Len(segments[other].lines) : segments[other].lines[i] = segments[name].tail.line
      BY <3>1, WholeLinesFacts
    <3> QED
      BY <2>2, <3>2 DEF StoreInv, TailsApart
  <2>3. Same(k) = {}
    BY <1>3 DEF Same
  <2> QED
    BY <1>3, <2>1, <2>2, <2>3 DEF Selects
<1>6. Selects(k)'
  <2>1. k' = k
    BY <1>1, <1>3 DEF k
  <2> QED
    BY <1>1, <1>4, <1>5, <2>1 DEF Selects, Same, Counted, LinesTo
<1>7. SelectionHolds(selection)'
  <2>1. k' = k
    BY <1>1, <1>3 DEF k
  <2>2. SelectionHolds(k)'
    BY <1>3, <1>6, <2>1 DEF SelectionHolds
  <2> QED
    BY <1>1, <2>1, <2>2
<1> QED
  BY <1>1, <1>3, <1>4, <1>7, SelectionStepKeeps

\* What the selection says of its files is not touched by its steps.
LEMMA HoldsThen ==
    ASSUME UNCHANGED <<segments, storeWriter, storePast>>, NEW k, SelectionHolds(k), selection' = k
    PROVE  SelectionHolds(selection)'
BY DEF SelectionHolds, Selects, Verified, Same, Counted, LinesTo

\* A file of so many lines, and perhaps a part of one.
LEMMA Halved ==
    ASSUME NEW lines \in Nat, NEW cut, NEW size, size = 2 * lines + (IF cut THEN 1 ELSE 0)
    PROVE  size \div 2 = lines
<1>1. CASE cut
  <2>1. size = 2 * lines + 1
    BY <1>1
  <2> QED
    BY <2>1
<1>2. CASE ~cut
  <2>1. size = 2 * lines + 0
    BY <1>2
  <2> QED
    BY <2>1
<1> QED
  BY <1>1, <1>2

\* A segment is measured.
LEMMA MeasureKeeps == StoreInv /\ MeasureSegment => StoreInv'
<1> SUFFICES ASSUME StoreInv, MeasureSegment PROVE StoreInv'
  OBVIOUS
<1> DEFINE k == selection
           name == Min(k.todo)
<1>1. k.at = "measure" /\ UNCHANGED <<segments, traceDay, writerLock, storeWriter, purging, storePast>>
  BY DEF MeasureSegment
<1>2. /\ k \in Selections /\ SelectionHolds(k) /\ Selects(k) /\ k.todo # {} /\ DOMAIN k.ends \cup k.todo = k.names
      /\ k.found = {} /\ k.names \in SUBSET StoreNames /\ k.todo \in SUBSET StoreNames /\ k.ends \in Measures
  BY <1>1, StoreFacts, SelectionFields DEF StoreInv, SelectionHolds
<1>3. name \in k.todo
  <2>1. k.todo \subseteq Nat
    BY <1>2, NameFacts
  <2> QED
    BY <1>2, <2>1, MinFacts
<1> HIDE DEF name
<1>4. CASE name \notin DOMAIN segments
  <2>1. SelectionEnds("changed")
    BY <1>4 DEF MeasureSegment, name
  <2> QED
    BY <1>1, <2>1, ChangedKeeps
<1>5. CASE name \in DOMAIN segments
  <2> DEFINE measured == [inode |-> segments[name].inode, end |-> SizeOf(segments[name])]
             ends == [n \in DOMAIN k.ends \cup {name} |-> IF n = name THEN measured ELSE k.ends[n]]
             at == IF k.todo = {name} THEN "verify" ELSE "measure"
             new == [k EXCEPT !.todo = k.todo \ {name}, !.ends = ends, !.at = at]
  <2>1. selection' = new
    BY <1>1, <1>5 DEF MeasureSegment, name
  <2>2. segments[name] \in StoreFiles /\ Len(segments[name].lines) \in Nat /\ segments[name].inode \in Nat /\ SizeOf(segments[name]) \in Nat
        /\ SizeOf(segments[name]) \div LineParts = Len(segments[name].lines)
    <3>1. segments[name] \in StoreFiles
      BY <1>5, StoreFacts, FilesFacts
    <3>2. /\ Len(segments[name].lines) \in Nat /\ segments[name].inode \in Nat /\ SizeOf(segments[name]) \in Nat
          /\ SizeOf(segments[name]) = 2 * Len(segments[name].lines) + (IF segments[name].tail.present THEN 1 ELSE 0)
      BY <3>1, SegmentFields
    <3>4. SizeOf(segments[name]) \div 2 = Len(segments[name].lines)
      BY <3>2, Halved
    <3> QED
      BY <3>1, <3>2, <3>4 DEF LineParts
  <2>3. ends \in Measures /\ DOMAIN ends = DOMAIN k.ends \cup {name}
    <3>1. name \in StoreNames /\ DOMAIN k.ends \subseteq StoreNames /\ \A n \in DOMAIN k.ends : k.ends[n] \in [inode : Nat, end : Nat]
      BY <1>2, <1>3, MeasureFields
    <3>2. ends \in [DOMAIN k.ends \cup {name} -> [inode : Nat, end : Nat]]
      BY <2>2, <3>1
    <3> QED
      BY <3>1, <3>2 DEF Measures
  <2>4. /\ ends[name].inode = segments[name].inode /\ ends[name].end = SizeOf(segments[name])
        /\ \A n \in DOMAIN k.ends : n # name => ends[n] = k.ends[n]
    OBVIOUS
  <2> HIDE DEF ends, at
  <2>5. /\ new \in Selections /\ new.todo = k.todo \ {name} /\ new.ends = ends /\ new.at = at /\ new.names = k.names
        /\ new.had = k.had /\ new.found = {}
    BY <1>2, <2>3 DEF Selections, at
  <2> HIDE DEF new
  <2>6. Selects(new)
    <3>1. ASSUME NEW n \in DOMAIN new.ends PROVE new.ends[n].inode <= storePast.files
      <4>1. CASE n = name
        <5>1. FileHolds(name)
          BY <1>5 DEF StoreInv
        <5> QED
          BY <2>4, <2>5, <4>1, <5>1 DEF FileHolds
      <4>2. CASE n # name
        BY <1>2, <2>3, <2>4, <2>5, <3>1, <4>2 DEF Selects
      <4> QED
        BY <4>1, <4>2
    <3>2. ASSUME NEW n \in Same(new)
          PROVE  /\ LinesTo(new, n) <= Len(segments[n].lines)
                 /\ \A i \in 1..Len(segments[n].lines) : segments[n].lines[i] \in new.had => i <= LinesTo(new, n)
      <4>1. CASE n = name
        <5>1. LinesTo(new, n) = Len(segments[n].lines)
          BY <2>2, <2>4, <2>5, <4>1 DEF LinesTo
        <5> QED
          BY <2>2, <4>1, <5>1
      <4>2. CASE n # name
        <5>1. n \in Same(k) /\ LinesTo(new, n) = LinesTo(k, n)
          BY <2>3, <2>4, <2>5, <3>2, <4>2 DEF Same, LinesTo
        <5> QED
          BY <1>2, <2>5, <5>1 DEF Selects
      <4> QED
        BY <4>1, <4>2
    <3> QED
      BY <1>2, <1>3, <2>3, <2>5, <3>1, <3>2 DEF Selects
  <2>7. SelectionHolds(new)
    <3>1. at = "verify" => DOMAIN ends = k.names
      BY <1>2, <1>3, <2>3 DEF at
    <3>2. at = "measure" => k.todo \ {name} # {} /\ DOMAIN ends \cup (k.todo \ {name}) = k.names
      BY <1>2, <1>3, <2>3 DEF at
    <3>3. at \in {"measure", "verify"}
      BY DEF at
    <3> QED
      BY <2>5, <2>6, <3>1, <3>2, <3>3 DEF SelectionHolds
  <2>8. SelectionHolds(selection)' /\ selection' \in Selections
    BY <1>1, <2>1, <2>5, <2>7, HoldsThen
  <2> QED
    BY <1>1, <2>8, SelectionOnlyKeeps
<1> QED
  BY <1>4, <1>5

\* The segments are verified.
LEMMA VerifySegmentsKeeps == StoreInv /\ VerifySegments => StoreInv'
<1> SUFFICES ASSUME StoreInv, VerifySegments PROVE StoreInv'
  OBVIOUS
<1> DEFINE k == selection
           at == IF k.names = {} THEN "done" ELSE "read"
           new == [k EXCEPT !.at = at, !.todo = k.names, !.bound = WholeLines(segments)]
<1>1. k.at = "verify" /\ UNCHANGED <<segments, traceDay, writerLock, storeWriter, purging, storePast>>
  BY DEF VerifySegments
<1>2. /\ k \in Selections /\ Selects(k) /\ DOMAIN k.ends = k.names
      /\ k.found = {} /\ k.names \in SUBSET StoreNames
  BY <1>1, StoreFacts, SelectionFields DEF StoreInv, SelectionHolds
<1>3. CASE SelectionEnds("changed")
  BY <1>1, <1>3, ChangedKeeps
<1>4. CASE ~SelectionEnds("changed")
  <2>1. selection' = new /\ DOMAIN segments = k.names /\ \A name \in DOMAIN segments : StillThere(name)
    BY <1>4 DEF VerifySegments
  <2>2. WholeLines(segments) \in SUBSET LinesOf
    BY WholeLinesFacts
  <2>3. /\ new \in Selections /\ new.at = at /\ new.todo = k.names /\ new.names = k.names /\ new.bound = WholeLines(segments)
        /\ new.ends = k.ends /\ new.had = k.had /\ new.found = {}
    BY <1>2, <2>2 DEF Selections
  <2> HIDE DEF new
  <2>4. \A name \in k.names : name \in Same(new) /\ name \in Same(k)
    BY <1>2, <2>1, <2>3 DEF Same, StillThere
  <2>5. Same(new) = Same(k)
    BY <2>3 DEF Same
  <2>6. Selects(new)
    BY <1>2, <2>3, <2>5 DEF Selects, LinesTo
  <2>7. ASSUME k.names # {} PROVE Verified(new)
    <3>1. ASSUME NEW name \in Same(new) \cap new.todo, NEW i \in 1..LinesTo(new, name) PROVE segments[name].lines[i] \in new.bound
      <4>1. name \in DOMAIN segments /\ LinesTo(new, name) <= Len(segments[name].lines)
        BY <2>6, <3>1 DEF Selects, Same
      <4>2. LinesTo(new, name) \in Nat /\ Len(segments[name].lines) \in Nat
        <5>1. name \in DOMAIN k.ends /\ k.ends \in Measures
          BY <1>2, <2>3, <3>1, SelectionFields
        <5>2. k.ends[name].end \div LineParts \in Nat
          BY <5>1, MeasureFields
        <5> QED
          BY <2>3, <4>1, <5>2, StoreFacts, FilesFacts, SegmentFields DEF LinesTo
      <4>3. i \in 1..Len(segments[name].lines)
        BY <4>1, <4>2
      <4> QED
        BY <2>3, <4>1, <4>3, WholeLinesFacts
    <3>2. ASSUME NEW line \in (new.had \cap new.bound) \ new.found
          PROVE  \E name \in new.todo : name \in Same(new) => \E i \in 1..LinesTo(new, name) : segments[name].lines[i] = line
      <4>1. PICK name \in DOMAIN segments : \E i \in 1..Len(segments[name].lines) : segments[name].lines[i] = line
        BY <2>3, <3>2, WholeLinesFacts
      <4>2. PICK i \in 1..Len(segments[name].lines) : segments[name].lines[i] = line
        BY <4>1
      <4>3. name \in Same(new) /\ name \in new.todo
        BY <2>1, <2>3, <2>4
      <4>4. i <= LinesTo(new, name)
        BY <2>6, <3>2, <4>2, <4>3 DEF Selects
      <4>5. LinesTo(new, name) \in Nat /\ Len(segments[name].lines) \in Nat
        <5>1. name \in DOMAIN k.ends /\ k.ends \in Measures
          BY <1>2, <2>3, <4>3, SelectionFields
        <5>2. k.ends[name].end \div LineParts \in Nat
          BY <5>1, MeasureFields
        <5> QED
          BY <2>3, <4>1, <5>2, StoreFacts, FilesFacts, SegmentFields DEF LinesTo
      <4>6. i \in 1..LinesTo(new, name)
        BY <4>4, <4>5
      <4> QED
        BY <4>2, <4>3, <4>6
    <3> QED
      BY <1>2, <2>3, <2>7, <3>1, <3>2 DEF Verified
  <2>8. ASSUME k.names = {} PROVE new.had \cap new.bound \subseteq new.found
    <3>1. new.bound = {}
      BY <2>1, <2>3, <2>8, WholeLinesFacts
    <3> QED
      BY <3>1
  <2>9. SelectionHolds(new)
    BY <2>3, <2>6, <2>7, <2>8 DEF SelectionHolds
  <2>10. SelectionHolds(selection)' /\ selection' \in Selections
    BY <1>1, <2>1, <2>3, <2>9, HoldsThen
  <2> QED
    BY <1>1, <2>10, SelectionOnlyKeeps
<1> QED
  BY <1>3, <1>4

\* What was measured of a segment, when it is still there.
LEMMA StillSame ==
    ASSUME StoreInv, selection.at \in {"read", "check"}, StillThere(Min(selection.todo))
    PROVE  LET name == Min(selection.todo)
           IN  /\ name \in selection.todo /\ name \in Same(selection) /\ name \in DOMAIN segments
               /\ LinesTo(selection, name) \in Nat /\ LinesTo(selection, name) <= Len(segments[name].lines)
               /\ Len(segments[name].lines) \in Nat
<1> DEFINE k == selection
           name == Min(k.todo)
<1>1. /\ k \in Selections /\ Selects(k) /\ Verified(k)
  BY StoreFacts DEF StoreInv, SelectionHolds
<1>2. k.todo # {} /\ k.todo \subseteq k.names /\ DOMAIN k.ends = k.names /\ k.todo \in SUBSET StoreNames /\ k.ends \in Measures
  BY <1>1, SelectionFields DEF Selects, Verified
<1>3. name \in k.todo
  <2>1. k.todo \subseteq Nat
    BY <1>2, NameFacts
  <2> QED
    BY <1>2, <2>1, MinFacts
<1>4. name \in Same(k) /\ name \in DOMAIN segments
  BY <1>2, <1>3 DEF Same, StillThere
<1>5. LinesTo(k, name) \in Nat
  BY <1>2, <1>3, MeasureFields DEF LinesTo
<1>6. LinesTo(k, name) <= Len(segments[name].lines)
  BY <1>1, <1>4 DEF Selects
<1> QED
  BY <1>3, <1>4, <1>5, <1>6, StoreFacts, FilesFacts, SegmentFields

\* The lines before an offset, and the one that it cuts.
LEMMA PrefixFacts ==
    ASSUME NEW f \in StoreFiles, NEW end \in Nat, end \div LineParts \in Nat, end \div LineParts <= Len(f.lines)
    PROVE  /\ Prefix(f, end) \in [lines : Seq(LinesOf), part : LinesOf]
           /\ ToSet(Prefix(f, end).lines) = {f.lines[i] : i \in 1..(end \div LineParts)}
<1> DEFINE count == end \div LineParts
<1>1. f.lines \in Seq(LinesOf) /\ Len(f.lines) \in Nat /\ f.tail.line \in LinesOf /\ \A i \in 1..Len(f.lines) : f.lines[i] \in LinesOf
  BY SegmentFields
<1>2. count \in Nat /\ count <= Len(f.lines)
  OBVIOUS
<1> HIDE DEF count
<1>3. SubSeq(f.lines, 1, count) \in Seq(LinesOf) /\ Len(SubSeq(f.lines, 1, count)) = count
      /\ \A i \in 1..count : SubSeq(f.lines, 1, count)[i] = f.lines[i]
  BY <1>1, <1>2
<1>4. ToSet(SubSeq(f.lines, 1, count)) = {f.lines[i] : i \in 1..count}
  <2>1. DOMAIN SubSeq(f.lines, 1, count) = 1..count
    BY <1>3
  <2> QED
    BY <1>3, <2>1 DEF ToSet
<1>5. (IF end % LineParts = 0 THEN Garbled
       ELSE IF Len(f.lines) > count THEN f.lines[count + 1] ELSE f.tail.line) \in LinesOf
  <2>1. Len(f.lines) > count => count + 1 \in 1..Len(f.lines)
    BY <1>1, <1>2
  <2> QED
    BY <1>1, <2>1, NothingTyped
<1>6. Prefix(f, end) = [lines |-> SubSeq(f.lines, 1, count),
         part |-> IF end % LineParts = 0 THEN Garbled ELSE IF Len(f.lines) > count THEN f.lines[count + 1] ELSE f.tail.line]
  BY DEF Prefix, count
<1>7. Prefix(f, end).lines = SubSeq(f.lines, 1, count) /\ Prefix(f, end) \in [lines : Seq(LinesOf), part : LinesOf]
  BY <1>3, <1>5, <1>6
<1> QED
  BY <1>4, <1>7 DEF count

\* A segment is read.
LEMMA ReadSegmentKeeps == StoreInv /\ ReadSegment => StoreInv'
<1> SUFFICES ASSUME StoreInv, ReadSegment PROVE StoreInv'
  OBVIOUS
<1> DEFINE k == selection
           name == Min(k.todo)
           read == Prefix(segments[name], k.ends[name].end)
           new == [k EXCEPT !.at = "check", !.read = read]
<1>1. k.at = "read" /\ UNCHANGED <<segments, traceDay, writerLock, storeWriter, purging, storePast>>
  BY DEF ReadSegment
<1>2. CASE ~StillThere(name)
  <2>1. SelectionEnds("changed")
    BY <1>2 DEF ReadSegment
  <2> QED
    BY <1>1, <2>1, ChangedKeeps
<1>3. CASE StillThere(name)
  <2>1. selection' = new
    BY <1>3 DEF ReadSegment
  <2>2. /\ name \in k.todo /\ name \in Same(k) /\ name \in DOMAIN segments
        /\ LinesTo(k, name) \in Nat /\ LinesTo(k, name) <= Len(segments[name].lines)
    BY <1>1, <1>3, StillSame
  <2> HIDE DEF name
  <2>3. k \in Selections /\ Selects(k) /\ Verified(k) /\ k.ends \in Measures
    BY <1>1, StoreFacts, SelectionFields DEF StoreInv, SelectionHolds
  <2>4. read \in [lines : Seq(LinesOf), part : LinesOf]
    <3>1. segments[name] \in StoreFiles /\ name \in DOMAIN k.ends
      BY <2>2, StoreFacts, FilesFacts DEF Same
    <3>2. k.ends[name].end \in Nat
      BY <2>3, <3>1, MeasureFields
    <3>3. k.ends[name].end \div LineParts \in Nat /\ k.ends[name].end \div LineParts <= Len(segments[name].lines)
      BY <2>2 DEF LinesTo
    <3> QED
      BY <3>1, <3>2, <3>3, PrefixFacts
  <2> HIDE DEF read
  <2>5. /\ new \in Selections /\ new.at = "check" /\ new.todo = k.todo /\ new.names = k.names /\ new.bound = k.bound
        /\ new.ends = k.ends /\ new.had = k.had /\ new.found = k.found
    BY <2>3, <2>4 DEF Selections
  <2> HIDE DEF new
  <2>6. Same(new) = Same(k) /\ \A n : LinesTo(new, n) = LinesTo(k, n)
    BY <2>5 DEF Same, LinesTo
  <2>7. SelectionHolds(new)
    BY <2>3, <2>5, <2>6 DEF SelectionHolds, Selects, Verified
  <2>8. SelectionHolds(selection)' /\ selection' \in Selections
    BY <1>1, <2>1, <2>5, <2>7, HoldsThen
  <2> QED
    BY <1>1, <2>8, SelectionOnlyKeeps
<1> QED
  BY <1>2, <1>3

\* What was read is found.
LEMMA CheckSegmentKeeps == StoreInv /\ CheckSegment => StoreInv'
<1> SUFFICES ASSUME StoreInv, CheckSegment PROVE StoreInv'
  OBVIOUS
<1> DEFINE k == selection
           name == Min(k.todo)
           rest == k.todo \ {name}
           more == ToSet(k.read.lines)
           at == IF rest = {} THEN "done" ELSE "read"
           new == [k EXCEPT !.at = at, !.todo = rest, !.read = <<>>, !.found = k.found \cup more]
<1>1. k.at = "check" /\ UNCHANGED <<segments, traceDay, writerLock, storeWriter, purging, storePast>>
  BY DEF CheckSegment
<1>2. CASE ~ReadsTheSame(name)
  <2>1. SelectionEnds("changed")
    BY <1>2 DEF CheckSegment
  <2> QED
    BY <1>1, <2>1, ChangedKeeps
<1>3. CASE ReadsTheSame(name)
  <2>1. selection' = new
    BY <1>3 DEF CheckSegment
  <2>2. /\ name \in k.todo /\ name \in Same(k) /\ name \in DOMAIN segments
        /\ LinesTo(k, name) \in Nat /\ LinesTo(k, name) <= Len(segments[name].lines) /\ Len(segments[name].lines) \in Nat
    BY <1>1, <1>3, StillSame DEF ReadsTheSame
  <2> HIDE DEF name
  <2>3. k \in Selections /\ Selects(k) /\ Verified(k) /\ k.ends \in Measures /\ k.todo \in SUBSET StoreNames
        /\ k.found \in SUBSET LinesOf
    BY <1>1, StoreFacts, SelectionFields DEF StoreInv, SelectionHolds
  <2>4. more = {segments[name].lines[i] : i \in 1..LinesTo(k, name)}
    <3>1. segments[name] \in StoreFiles /\ name \in DOMAIN k.ends
      BY <2>2, StoreFacts, FilesFacts DEF Same
    <3>2. k.ends[name].end \in Nat
      BY <2>3, <3>1, MeasureFields
    <3>3. k.ends[name].end \div LineParts \in Nat /\ k.ends[name].end \div LineParts <= Len(segments[name].lines)
      BY <2>2 DEF LinesTo
    <3>4. k.read = Prefix(segments[name], k.ends[name].end)
      BY <1>3 DEF ReadsTheSame
    <3> QED
      BY <3>1, <3>2, <3>3, <3>4, PrefixFacts DEF LinesTo
  <2> HIDE DEF more, rest
  <2>5. more \subseteq LinesOf
    <3>1. \A i \in 1..Len(segments[name].lines) : segments[name].lines[i] \in LinesOf
      BY <2>2, StoreFacts, FilesFacts, SegmentFields
    <3>2. \A i \in 1..LinesTo(k, name) : i \in 1..Len(segments[name].lines)
      BY <2>2
    <3> QED
      BY <2>4, <3>1, <3>2
  <2>6. rest \in SUBSET StoreNames /\ rest \subseteq k.todo
    BY <2>3 DEF rest
  <2>7. /\ new \in Selections /\ new.at = at /\ new.todo = rest /\ new.names = k.names /\ new.bound = k.bound
        /\ new.ends = k.ends /\ new.had = k.had /\ new.found = k.found \cup more
    BY <2>3, <2>5, <2>6 DEF Selections
  <2> HIDE DEF new
  <2>8. Same(new) = Same(k) /\ \A n : LinesTo(new, n) = LinesTo(k, n)
    BY <2>7 DEF Same, LinesTo
  <2>9. more \subseteq k.bound
    BY <2>2, <2>3, <2>4 DEF Verified
  <2>10. new.found \subseteq new.bound
    BY <2>3, <2>7, <2>9 DEF Verified
  <2>11. ASSUME NEW line \in (new.had \cap new.bound) \ new.found
         PROVE  \E n \in rest : n \in Same(k) => \E i \in 1..LinesTo(k, n) : segments[n].lines[i] = line
    <3>1. PICK n \in k.todo : n \in Same(k) => \E i \in 1..LinesTo(k, n) : segments[n].lines[i] = line
      BY <2>3, <2>7, <2>11 DEF Verified
    <3>2. n # name
      BY <2>2, <2>4, <2>7, <2>11, <3>1
    <3> QED
      BY <3>1, <3>2 DEF rest
  <2>12. Selects(new)
    BY <2>3, <2>6, <2>7, <2>8 DEF Selects
  <2>13. rest # {} => Verified(new)
    BY <2>3, <2>6, <2>7, <2>8, <2>10, <2>11 DEF Verified
  <2>14. rest = {} => new.had \cap new.bound \subseteq new.found
    BY <2>11
  <2>15. SelectionHolds(new)
    BY <2>7, <2>10, <2>12, <2>13, <2>14 DEF SelectionHolds
  <2>16. SelectionHolds(selection)' /\ selection' \in Selections
    BY <1>1, <2>1, <2>7, <2>15, HoldsThen
  <2> QED
    BY <1>1, <2>16, SelectionOnlyKeeps
<1> QED
  BY <1>2, <1>3

-----------------------------------------------------------------------------
\* The directory with its segment of two lines.
LEMMA StoreStarts == StoreInit => StoreInv
<1> SUFFICES ASSUME StoreInit PROVE StoreInv
  OBVIOUS
<1> DEFINE n == NameOf(1, 1)
           one == [id |-> 1, day |-> 1]
           two == [id |-> 2, day |-> 1]
           file == [inode |-> 1, tail |-> NoPart, lines |-> <<one, two>>]
<1>1. /\ segments = [name \in {n} |-> file] /\ traceDay = 2 /\ writerLock = "free"
      /\ storeWriter = WriterDown /\ selection = NoSelection /\ purging = {}
      /\ storePast = [rows |-> 2, files |-> 1, opens |-> 0, selections |-> 0, purges |-> 0, faults |-> 0, left |-> 0]
  BY DEF StoreInit
<1>2. MaxTraceRows \in 2..999 /\ MaxTraceDays \in Nat /\ MaxTraceDays >= 2 /\ MaxStoreParts \in Nat /\ MaxStoreParts >= 4
  BY StoreBounds DEF LineParts
<1>3. n \in StoreNames /\ DayOf(n) = 1 /\ n % 1000 = 1
  BY <1>2, NewName
<1>4. one \in LinesOf /\ two \in LinesOf
  BY <1>2 DEF LinesOf
<1>5. file \in StoreFiles /\ file.inode = 1 /\ file.tail = NoPart /\ file.lines = <<one, two>> /\ Len(file.lines) = 2
      /\ file.lines[1] = one /\ file.lines[2] = two
  BY <1>4, NothingTyped DEF StoreFiles
<1>6. ~file.tail.present /\ ~file.tail.whole
  BY <1>5 DEF NoPart
<1> HIDE DEF n, file
<1>7. DOMAIN segments = {n} /\ segments[n] = file /\ segments = [name \in DOMAIN segments |-> segments[name]]
  BY <1>1
<1>8. IsFiniteSet({n})
  BY FS_Singleton
<1>9. storePast \in StorePasts
  BY <1>1, <1>2 DEF StorePasts
<1>10. StoreTypes
  BY <1>1, <1>2, <1>3, <1>5, <1>7, <1>8, <1>9, DownTyped, NoSelectionTyped DEF StoreTypes
<1>11. LocksHold /\ WriterHolds
  BY <1>1, DownTyped DEF LocksHold, WriterHolds
<1>12. TailsApart
  BY <1>6, <1>7 DEF TailsApart
<1>13. FileHolds(n)
  <2>1. \A i \in 1..Len(file.lines) : i = 1 \/ i = 2
    BY <1>5
  <2>2. \A i \in 1..Len(file.lines) : file.lines[i].id \in 1..2 /\ file.lines[i].day = 1
    BY <1>5, <2>1
  <2>3. storeWriter.at = "down" /\ storePast.rows = 2 /\ storePast.files = 1
    BY <1>1, DownTyped
  <2> QED
    BY <1>3, <1>5, <1>6, <1>7, <2>2, <2>3 DEF FileHolds, Counted
<1>14. PartsCounted
  <2>1. TailsLeft = {}
    BY <1>6, <1>7 DEF TailsLeft
  <2>2. Cardinality(TailsLeft) = 0
    BY <2>1, FS_EmptySet
  <2>3. Rounded(segments) <= MaxStoreParts
    <3>1. FilesTyped(segments)
      BY <1>10, FilesFacts
    <3>2. RoundedSizes(segments) \in [{n} -> Nat] /\ RoundedSizes(segments)[n] = RoundedSize(file)
      BY <1>7, <3>1, TotalWeighs DEF RoundedSizes
    <3>3. RoundedSize(file) = 4
      <4>1. RoundedSize(file) = 2 * Len(file.lines) + 0
        BY <1>5, <1>6, SegmentFields
      <4> QED
        BY <1>5, <4>1
    <3>4. Rounded(segments) = Weight(RoundedSizes(segments))
      BY <3>1, TotalWeighs
    <3>5. DOMAIN RoundedSizes(segments) = {n}
      BY <1>7 DEF RoundedSizes
    <3>6. PartsOf(RoundedSizes(segments)) = {n} \X (1..4)
      BY <3>2, <3>3, <3>5 DEF PartsOf
    <3>7. Weight(RoundedSizes(segments)) = 4
      BY <3>6, OneWeighs DEF Weight
    <3> QED
      BY <1>2, <3>4, <3>7
  <2>4. storeWriter.at = "down" /\ storePast.left = 0 /\ storePast.faults = 0
    BY <1>1, DownTyped
  <2> QED
    BY <1>2, <2>2, <2>3, <2>4 DEF PartsCounted, LineParts
<1>15. SelectionHolds(selection)
  BY <1>1, NoSelectionTyped DEF SelectionHolds
<1> QED
  BY <1>7, <1>10, <1>11, <1>12, <1>13, <1>14, <1>15 DEF StoreInv

\* Every step keeps what holds of the directory.
LEMMA StoreKeeps == StoreInv /\ [StoreNext]_storeVars => StoreInv'
<1> SUFFICES ASSUME StoreInv, [StoreNext]_storeVars PROVE StoreInv'
  OBVIOUS
<1>1. CASE OpenStore
  BY <1>1, OpenKeeps
<1>2. CASE \E day \in {traceDay - 1, traceDay} : PrepareAppend(day)
  BY <1>2, PrepareKeeps
<1>3. CASE EvictSegment \/ WriteFirstPart \/ WriteRest \/ CutWrite
  BY <1>3, EvictKeeps, FirstKeeps, RestKeeps, CutKeeps
<1>4. CASE StartSweep \/ Sweep \/ CloseStore \/ KillWriter \/ DayEnds
  BY <1>4, StartSweepKeeps, SweepKeeps, CloseKeeps, KillKeeps, DayKeeps
<1>5. CASE BeginSelection \/ MeasureSegment \/ VerifySegments \/ ReadSegment \/ CheckSegment
  BY <1>5, BeginSelectionKeeps, MeasureKeeps, VerifySegmentsKeeps, ReadSegmentKeeps, CheckSegmentKeeps
<1>6. CASE LockPurge \/ LockSweep \/ PurgeSegment
  BY <1>6, LockKeeps, PurgeKeeps
<1>7. CASE UNCHANGED storeVars
  <2>1. UNCHANGED <<segments, traceDay, writerLock, storeWriter, purging, storePast>> /\ selection' = selection
    BY <1>7 DEF storeVars
  <2>2. selection \in Selections /\ SelectionHolds(selection)
    BY StoreFacts DEF StoreInv
  <2>3. SelectionHolds(selection)' /\ selection' \in Selections
    BY <2>1, <2>2, HoldsThen
  <2> QED
    BY <2>1, <2>3, SelectionOnlyKeeps
<1> QED
  BY <1>1, <1>2, <1>3, <1>4, <1>5, <1>6, <1>7 DEF StoreNext

\* What the invariant means.
LEMMA StoreInvMeans == StoreInv => StoreTypeOK /\ LinesWhole /\ StoreAccounted /\ SelectionComplete
<1> SUFFICES ASSUME StoreInv PROVE StoreTypeOK /\ LinesWhole /\ StoreAccounted /\ SelectionComplete
  OBVIOUS
<1>1. StoreTypeOK
  <2>1. \A name \in DOMAIN segments : DayOf(name) \in 1..MaxTraceDays /\ name % 1000 \in 1..MaxTraceRows
    BY StoreFacts, NameFacts
  <2>2. \A name \in DOMAIN segments :
         /\ segments[name].inode \in Nat /\ segments[name].lines \in Seq(LinesOf)
         /\ segments[name].tail \in [line : LinesOf, whole : BOOLEAN, present : BOOLEAN]
    BY StoreFacts, FilesFacts, SegmentFields DEF Tails
  <2>3. traceDay \in 1..MaxTraceDays /\ writerLock \in {"free", "writer", "purge", "janitor"}
    BY StoreFacts DEF StoreTypes
  <2>4. storeWriter.at \in {"down", "idle", "evict", "rest", "sweep"} /\ storeWriter.total \in Int
        /\ storeWriter.open \in DOMAIN segments \cup {NoFile}
    BY StoreFacts, WriterFields
  <2>5. selection.at \in {"idle", "measure", "verify", "read", "check", "done", "changed"}
    BY StoreFacts, SelectionFields
  <2> QED
    BY <2>1, <2>2, <2>3, <2>4, <2>5 DEF StoreTypeOK
<1>2. LinesWhole
  <2>1. ASSUME NEW name \in DOMAIN segments, NEW line \in ToSet(segments[name].lines) PROVE line.id # 0 /\ line.day = DayOf(name)
    <3>1. FileHolds(name) /\ Len(segments[name].lines) \in Nat /\ DOMAIN segments[name].lines = 1..Len(segments[name].lines)
      BY StoreFacts, FilesFacts, SegmentFields DEF StoreInv
    <3>2. PICK i \in 1..Len(segments[name].lines) : segments[name].lines[i] = line
      BY <2>1, <3>1 DEF ToSet
    <3>3. Counted(line) /\ line.day = DayOf(name)
      BY <3>1, <3>2 DEF FileHolds
    <3> QED
      BY <3>3 DEF Counted
  <2> QED
    BY <2>1 DEF LinesWhole
<1>3. StoreAccounted
  <2>1. storeWriter.at = "idle" => Total(segments) = storeWriter.total + storePast.left
    BY StoreFacts DEF PartsCounted
  <2>2. Rounded(segments) = Total(segments) + Cardinality(TailsOf(segments)) /\ Cardinality(TailsOf(segments)) \in Nat
    BY StoreFacts, RoundedUp
  <2>3. Rounded(segments) <= MaxStoreParts + LineParts * storePast.faults
    BY StoreFacts DEF PartsCounted
  <2>4. Total(segments) \in Nat /\ MaxStoreParts \in Nat /\ storePast.faults \in Nat
    BY StoreFacts, PastFields
  <2>5. Total(segments) <= MaxStoreParts + LineParts * storePast.faults
    BY <2>2, <2>3, <2>4 DEF LineParts
  <2> QED
    BY <2>1, <2>5 DEF StoreAccounted
<1>4. SelectionComplete
  BY DEF StoreInv, SelectionHolds, SelectionComplete
<1> QED
  BY <1>1, <1>2, <1>3, <1>4

\* The lines of a segment are of its day.
LEMMA LinesExpire ==
    ASSUME StoreInv, NEW name \in DOMAIN segments, Expired(name), NEW line \in ToSet(segments[name].lines)
    PROVE  line.day + RetentionDays < traceDay
<1>1. FileHolds(name) /\ Len(segments[name].lines) \in Nat /\ DOMAIN segments[name].lines = 1..Len(segments[name].lines)
  BY StoreFacts, FilesFacts, SegmentFields DEF StoreInv
<1>2. PICK i \in 1..Len(segments[name].lines) : segments[name].lines[i] = line
  BY <1>1 DEF ToSet
<1>3. line.day = DayOf(name) /\ DayOf(name) \in Nat
  <2>1. line.day = DayOf(name)
    BY <1>1, <1>2 DEF FileHolds
  <2>2. DayOf(name) \in 1..MaxTraceDays
    BY StoreFacts, NameFacts
  <2> QED
    BY <2>1, <2>2
<1>4. traceDay \in Nat /\ RetentionDays \in Nat /\ DayOf(name) + 1 + RetentionDays <= traceDay
  BY StoreFacts, StoreBounds DEF Expired
<1> QED
  BY <1>3, <1>4

\* A step removes what it may.
RemovesInOrder ==
    \A name \in DOMAIN segments \ DOMAIN segments' :
         /\ name # storeWriter.open
         /\ storeWriter.at = "evict" => \A other \in Closed : name <= other
         /\ storeWriter.at = "sweep" \/ writerLock = "janitor" => \A line \in ToSet(segments[name].lines) : line.day + RetentionDays < traceDay

\* What each step removes, it may.
LEMMA StoreSteps == StoreInv /\ [StoreNext]_storeVars => [RemovesInOrder]_storeVars
<1> SUFFICES ASSUME StoreInv, [StoreNext]_storeVars PROVE [RemovesInOrder]_storeVars
  OBVIOUS
<1>1. ASSUME DOMAIN segments \subseteq DOMAIN segments' PROVE RemovesInOrder
  BY <1>1 DEF RemovesInOrder
<1>2. ASSUME NEW n \in DOMAIN segments, segments' = Without(n), n # storeWriter.open,
             storeWriter.at = "evict" => \A other \in Closed : n <= other,
             storeWriter.at = "sweep" \/ writerLock = "janitor" => Expired(n)
      PROVE  RemovesInOrder
  <2>1. DOMAIN segments \ DOMAIN segments' \subseteq {n}
    BY <1>2 DEF Without
  <2>2. storeWriter.at = "sweep" \/ writerLock = "janitor" => \A line \in ToSet(segments[n].lines) : line.day + RetentionDays < traceDay
    BY <1>2, LinesExpire
  <2> QED
    BY <1>2, <2>1, <2>2 DEF RemovesInOrder
<1>3. CASE EvictSegment
  <2>1. CASE Closed = {}
    BY <1>1, <1>3, <2>1 DEF EvictSegment
  <2>2. CASE Closed # {}
    <3>1. /\ Min(Closed) \in Closed /\ \A other \in Closed : Min(Closed) <= other
      BY <2>2, ClosedFacts
    <3>2. segments' = Without(Min(Closed)) /\ storeWriter.at = "evict"
      BY <1>3, <2>2 DEF EvictSegment
    <3>3. writerLock = "writer"
      BY <3>2, StoreFacts DEF LocksHold
    <3>4. Min(Closed) \in DOMAIN segments /\ Min(Closed) # storeWriter.open
      BY <3>1 DEF Closed
    <3> QED
      BY <1>2, <3>1, <3>2, <3>3, <3>4
  <2> QED
    BY <2>1, <2>2
<1>4. CASE Sweep
  <2> DEFINE old == {name \in Closed : Expired(name)}
  <2>1. CASE old = {}
    BY <1>1, <1>4, <2>1 DEF Sweep
  <2>2. CASE old # {}
    <3>1. old \subseteq Closed
      OBVIOUS
    <3>2. segments' = Without(Min(old)) /\ storeWriter.at = "sweep"
      BY <1>4, <2>2 DEF Sweep
    <3>3. \A name \in old : Expired(name)
      OBVIOUS
    <3> HIDE DEF old
    <3>4. Min(old) \in old /\ Min(old) \in Closed
      BY <2>2, <3>1, ClosedFacts
    <3>5. Min(old) \in DOMAIN segments /\ Min(old) # storeWriter.open /\ Expired(Min(old))
      BY <3>3, <3>4 DEF Closed
    <3> QED
      BY <1>2, <3>2, <3>5
  <2> QED
    BY <2>1, <2>2
<1>5. CASE PurgeSegment
  <2>1. purging # {} /\ segments' = Without(Min(purging))
    BY <1>5 DEF PurgeSegment
  <2>2. Min(purging) \in purging /\ Min(purging) \in DOMAIN segments
    <3>1. purging \subseteq Nat /\ purging \subseteq DOMAIN segments
      BY FilesFacts, StoreFacts
    <3> QED
      BY <2>1, <3>1, MinFacts
  <2>3. storeWriter.at = "down" /\ storeWriter.open = NoFile /\ NoFile \notin DOMAIN segments
    BY <2>1, StoreFacts DEF LocksHold
  <2>4. writerLock = "janitor" => Expired(Min(purging))
    BY <2>2, StoreFacts DEF LocksHold
  <2> QED
    BY <1>2, <2>1, <2>2, <2>3, <2>4
<1>6. CASE OpenStore \/ (\E day \in {traceDay - 1, traceDay} : PrepareAppend(day))
  <2>1. DOMAIN segments \subseteq DOMAIN segments'
    BY <1>6 DEF OpenStore, PrepareAppend
  <2> QED
    BY <1>1, <2>1
<1>7. CASE WriteFirstPart \/ WriteRest \/ CutWrite
  <2>1. DOMAIN segments \subseteq DOMAIN segments'
    BY <1>7 DEF WriteFirstPart, WriteRest, CutWrite
  <2> QED
    BY <1>1, <2>1
<1>8. CASE KillWriter
  <2>1. DOMAIN segments \subseteq DOMAIN segments'
    BY <1>8 DEF KillWriter
  <2> QED
    BY <1>1, <2>1
<1>9. CASE \/ StartSweep \/ CloseStore \/ DayEnds
           \/ BeginSelection \/ MeasureSegment \/ VerifySegments \/ ReadSegment \/ CheckSegment
           \/ LockPurge \/ LockSweep \/ UNCHANGED storeVars
  <2>1. UNCHANGED segments
    BY <1>9 DEF StartSweep, CloseStore, DayEnds, BeginSelection, MeasureSegment, VerifySegments, ReadSegment, CheckSegment,
                LockPurge, LockSweep, storeVars
  <2> QED
    BY <1>1, <2>1
<1> QED
  BY <1>3, <1>4, <1>5, <1>6, <1>7, <1>8, <1>9 DEF StoreNext

\* The directory of traces holds what the invariant says, whatever its bounds (writer.go,
\* segments.go, selection.go, runtime.go).
THEOREM StoreInductive == StoreSpec => []StoreInv
<1>1. StoreInit => StoreInv
  BY StoreStarts
<1>2. StoreInv /\ [StoreNext]_storeVars => StoreInv'
  BY StoreKeeps
<1> QED
  BY <1>1, <1>2, PTL DEF StoreSpec

\* No line is glued to another or is in a segment of another day, the writer's count is what is on
\* disk but for what short writes left, and the quota is exceeded by no more than the lines that were
\* cut; a selection that succeeds is complete; and what is removed is removed in order.
THEOREM StoreSoundThm ==
    StoreSpec => [](StoreTypeOK /\ LinesWhole /\ StoreAccounted /\ SelectionComplete) /\ RemovedInOrder
<1>1. StoreSpec => []StoreInv
  BY StoreInductive
<1>2. StoreInv => StoreTypeOK /\ LinesWhole /\ StoreAccounted /\ SelectionComplete
  BY StoreInvMeans
<1>3. StoreInv /\ [StoreNext]_storeVars => [RemovesInOrder]_storeVars
  BY StoreSteps
<1>4. RemovedInOrder <=> [][RemovesInOrder]_storeVars
  BY DEF RemovesInOrder, RemovedInOrder
<1> QED
  BY <1>1, <1>2, <1>3, <1>4, PTL DEF StoreSpec

-----------------------------------------------------------------------------
(* TracePackage.                                                             *)

-----------------------------------------------------------------------------
LogNames == 1..MaxTelemetrySegments
LogRows == 1..MaxTelemetryRows
LogFiles == [rows : Seq(LogRows), tail : 0..MaxTelemetryRows]
Captures == UNION {[D -> [size : Nat, lines : Nat]] : D \in SUBSET LogNames}
Readings == UNION {[D -> Seq(LogRows)] : D \in SUBSET LogNames}
PackagerSteps == {"idle", "create", "traces", "discover", "capture", "verify", "read", "check", "gate",
                  "publish", "clean", "reserve", "move", "sync", "done", "killed"}
PackagerStates ==
    [at : PackagerSteps, destination : Destinations, device : {"same", "other"}, wanted : SUBSET LogRows, attempt : 1..2,
     todo : SUBSET LogNames, ends : Captures, read : Readings,
     join : [had : SUBSET LogRows, bound : SUBSET LogRows, rows : SUBSET LogRows],
     error : {"none", "exists", "telemetry", "blocked", "unsynced"}, named : {"nothing", "identifier", "directory"}]

PackageTypes ==
    /\ telemetryFiles = [name \in DOMAIN telemetryFiles |-> telemetryFiles[name]]
    /\ DOMAIN telemetryFiles \subseteq LogNames /\ DOMAIN telemetryFiles # {}
    /\ \A name \in DOMAIN telemetryFiles : telemetryFiles[name] \in LogFiles
    /\ packager \in [Packagers -> PackagerStates]
    /\ stages \in [Packagers -> {"none", "beside", "quarantine", "gone"}] /\ reservations \subseteq Packagers
    /\ exports \in [Destinations -> Packagers \cup {Vacant, Foreign}]
    /\ exportPurge \in [at : {"idle", "packages", "items"}, packages : SUBSET Destinations, items : SUBSET Packagers,
                        began : SUBSET Packagers]
    /\ packagePast \in [joins : Nat, rows : 0..MaxTelemetryRows, lost : Nat, faults : Nat, purges : Nat, cleanups : Nat]

\* The row that is being written is the last one begun; it is not whole, and no run took it for whole.
PendingRow == telemetryFiles[LastTelemetry].tail
RowsCounted ==
    /\ PendingRow # NoRow => PendingRow = packagePast.rows
    /\ \A name \in DOMAIN telemetryFiles : \A i \in 1..Len(telemetryFiles[name].rows) :
         telemetryFiles[name].rows[i] <= packagePast.rows /\ telemetryFiles[name].rows[i] # PendingRow
    /\ \A c \in Packagers : \A r \in packager[c].join.had : r <= packagePast.rows /\ r # PendingRow

\* What a run measured of a segment is still in it, and has every row that it had when the run began.
EndsHold(k) ==
    \A name \in DOMAIN k.ends \cap DOMAIN telemetryFiles :
        LET rows == telemetryFiles[name].rows
        IN  /\ k.ends[name].lines <= Len(rows)
            /\ \A i \in 1..Len(rows) : rows[i] \in k.join.had => \E j \in 1..k.ends[name].lines : rows[j] = rows[i]

\* Once its segments were verified, what it measured was whole by then; and what was whole by then is
\* still in the segments that it measured, unless one of them is gone.
BoundHolds(k) ==
    /\ \A name \in DOMAIN k.ends \cap DOMAIN telemetryFiles :
         \A i \in 1..k.ends[name].lines : telemetryFiles[name].rows[i] \in k.join.bound
    /\ DOMAIN k.ends \subseteq DOMAIN telemetryFiles =>
         \A r \in k.join.bound : \E name \in DOMAIN k.ends : \E i \in 1..Len(telemetryFiles[name].rows) :
            telemetryFiles[name].rows[i] = r
    /\ \A name \in DOMAIN k.read : ToSet(k.read[name]) \subseteq k.join.bound
    /\ DOMAIN k.read \cup k.todo = DOMAIN k.ends

JoinHolds(k) ==
    /\ k.join.had \cap k.join.bound \cap k.wanted \subseteq k.join.rows
    /\ k.join.rows \subseteq k.join.bound \cap k.wanted

JoinMeans(k) ==
    /\ k.at \in {"capture", "verify", "read", "check"} =>
         EndsHold(k) /\ \A name \in DOMAIN k.ends \cup k.todo : name <= LastTelemetry
    /\ k.at \in {"capture", "read"} => k.todo # {}
    /\ k.at = "check" => k.todo = {}
    /\ k.at \in {"read", "check"} => BoundHolds(k)
    /\ k.at = "gate" /\ k.wanted # {} => JoinHolds(k)

\* Where the staging directory of a run is.
StageMeans(k, c) ==
    /\ stages[c] = "quarantine" => c \in reservations
    /\ k.at \in {"idle", "create"} => stages[c] = "none" /\ c \notin reservations
    /\ k.at \in {"traces", "discover", "capture", "verify", "read", "check", "gate", "publish", "clean", "reserve"} =>
         stages[c] = "beside" /\ c \notin reservations
    /\ k.at = "move" => stages[c] = "beside"
    /\ k.at = "sync" => stages[c] = IF c \in reservations THEN "quarantine" ELSE "gone"
    /\ k.at = "done" => \/ stages[c] \in {"none", "gone"}
                        \/ stages[c] = "quarantine" /\ c \in reservations
                        \/ stages[c] = "beside" /\ k.named = "directory"

\* What was in quarantine when a purge began is gone, or the purge will still come to it.
PurgeMeans ==
    exportPurge.at \in {"packages", "items"} =>
        \A c \in exportPurge.began :
            \/ stages[c] = "gone"
            \/ stages[c] = "quarantine" /\ (exportPurge.at = "items" => c \in exportPurge.items)

PackageInv ==
    /\ PackageTypes /\ RowsCounted
    /\ \A c \in Packagers : JoinMeans(packager[c]) /\ StageMeans(packager[c], c)
    /\ PurgeMeans

-----------------------------------------------------------------------------
\* A segment has its rows and the one that is being written.
LEMMA FileFields ==
    ASSUME NEW f \in LogFiles
    PROVE  /\ f.rows \in Seq(LogRows) /\ f.tail \in 0..MaxTelemetryRows /\ Len(f.rows) \in Nat
           /\ \A i \in 1..Len(f.rows) : f.rows[i] \in LogRows
BY DEF LogFiles

\* The last of the segments that are there.
LEMMA LastOf ==
    ASSUME NEW T, T \subseteq LogNames, T # {}
    PROVE  Max(T) \in T /\ Max(T) \in Nat /\ \A name \in T : name <= Max(T) /\ name \in Nat
<1>1. MaxTelemetrySegments \in Nat /\ T \subseteq 0..MaxTelemetrySegments
  BY PackageBounds DEF LogNames
<1>2. Max(T) \in T /\ \A name \in T : Max(T) >= name
  BY <1>1, MaxFacts
<1>3. T \subseteq Nat
  BY <1>1
<1>4. ASSUME NEW name \in T PROVE name <= Max(T)
  <2>1. name \in Nat /\ Max(T) \in Nat /\ Max(T) >= name
    BY <1>2, <1>3
  <2> QED
    BY <2>1
<1> QED
  BY <1>2, <1>3, <1>4

\* What has a greatest element has it as its Max.
LEMMA MaxIs ==
    ASSUME NEW T, T \subseteq LogNames, NEW m \in T, \A y \in T : m >= y
    PROVE  Max(T) = m
<1>1. Max(T) \in T /\ Max(T) \in Nat /\ m <= Max(T) /\ m \in Nat
  BY LastOf
<1>2. m >= Max(T)
  BY <1>1
<1> QED
  BY <1>1, <1>2

\* The last segment is there, and is the last.
LEMMA LastSegmentFacts ==
    ASSUME PackageTypes
    PROVE  /\ LastTelemetry \in DOMAIN telemetryFiles /\ LastTelemetry \in Nat
           /\ \A name \in DOMAIN telemetryFiles : name <= LastTelemetry /\ name \in Nat
           /\ telemetryFiles[LastTelemetry] \in LogFiles /\ PendingRow \in 0..MaxTelemetryRows
<1>1. LastTelemetry \in DOMAIN telemetryFiles /\ LastTelemetry \in Nat
      /\ \A name \in DOMAIN telemetryFiles : name <= LastTelemetry /\ name \in Nat
  BY LastOf DEF LastTelemetry, PackageTypes
<1>2. telemetryFiles[LastTelemetry] \in LogFiles
  BY <1>1 DEF PackageTypes
<1> QED
  BY <1>1, <1>2, FileFields DEF PendingRow

\* The members of what a run has done have their values.
LEMMA PackagerFields ==
    ASSUME NEW k \in PackagerStates
    PROVE  /\ k.at \in PackagerSteps /\ k.destination \in Destinations /\ k.wanted \in SUBSET LogRows /\ k.attempt \in 1..2
           /\ k.todo \in SUBSET LogNames /\ k.ends \in Captures /\ k.read \in Readings /\ k.join.had \in SUBSET LogRows
           /\ k.join.bound \in SUBSET LogRows /\ k.join.rows \in SUBSET LogRows /\ k.device \in {"same", "other"}
           /\ k.error \in {"none", "exists", "telemetry", "blocked", "unsynced"}
           /\ k.named \in {"nothing", "identifier", "directory"}
BY DEF PackagerStates

\* What was measured of a segment.
LEMMA CaptureFields ==
    ASSUME NEW ends \in Captures
    PROVE  /\ DOMAIN ends \subseteq LogNames /\ ends = [name \in DOMAIN ends |-> ends[name]]
           /\ \A name \in DOMAIN ends : ends[name] \in [size : Nat, lines : Nat] /\ ends[name].lines \in Nat
BY DEF Captures

\* The log alone moves: rows are added at the end of what is there, and are new to every run.
LEMMA LogMovesKeep ==
    ASSUME PackageInv, UNCHANGED <<packager, stages, reservations, exports, exportPurge>>, PackageTypes', RowsCounted',
           \A name \in DOMAIN telemetryFiles \cap DOMAIN telemetryFiles' :
               LET rows == telemetryFiles[name].rows
                   now  == telemetryFiles'[name].rows
               IN  /\ Len(rows) <= Len(now) /\ \A i \in 1..Len(rows) : now[i] = rows[i]
                   /\ \A i \in 1..Len(now) : i <= Len(rows) \/ \A c \in Packagers : now[i] \notin packager[c].join.had,
           \A name \in DOMAIN telemetryFiles' : name \in DOMAIN telemetryFiles \/ name > LastTelemetry,
           LastTelemetry <= LastTelemetry', LastTelemetry' \in Nat
    PROVE  PackageInv'
<1>1. PackageTypes /\ LastTelemetry \in Nat
  BY LastSegmentFacts DEF PackageInv
<1>2. \A c \in Packagers : StageMeans(packager[c], c)'
  BY DEF PackageInv, StageMeans
<1>3. PurgeMeans'
  BY DEF PackageInv, PurgeMeans
<1>4. ASSUME NEW c \in Packagers PROVE JoinMeans(packager[c])'
  <2> DEFINE k == packager[c]
  <2>1. JoinMeans(k) /\ k \in PackagerStates /\ packager'[c] = k
    BY <1>1 DEF PackageInv, PackageTypes
  <2>2. k.ends \in Captures /\ k.todo \subseteq LogNames
    BY <2>1, PackagerFields
  <2>3. DOMAIN k.ends \cup k.todo \subseteq Nat
    BY <2>2, CaptureFields DEF LogNames
  <2>4. \A name \in DOMAIN k.ends : k.ends[name].lines \in Nat
    BY <2>2, CaptureFields
  <2> HIDE DEF k
  <2>5. CASE k.at \notin {"capture", "verify", "read", "check"}
    BY <2>1, <2>5 DEF JoinMeans, JoinHolds, k
  <2>6. CASE k.at \in {"capture", "verify", "read", "check"}
    <3>1. EndsHold(k) /\ \A name \in DOMAIN k.ends \cup k.todo : name <= LastTelemetry
      BY <2>1, <2>6 DEF JoinMeans
    <3>2. \A name \in DOMAIN k.ends \cup k.todo : name <= LastTelemetry'
      BY <1>1, <2>3, <3>1
    <3>3. \A name \in DOMAIN k.ends : name \in DOMAIN telemetryFiles' => name \in DOMAIN telemetryFiles
      BY <1>1, <2>3, <3>1
    <3>4. \A name \in DOMAIN telemetryFiles : Len(telemetryFiles[name].rows) \in Nat
      BY <1>1, FileFields DEF PackageTypes
    <3>5. \A name \in DOMAIN telemetryFiles' : Len(telemetryFiles'[name].rows) \in Nat
      BY FileFields DEF PackageTypes
    <3>6. ASSUME NEW name \in DOMAIN k.ends \cap DOMAIN telemetryFiles'
          PROVE  LET rows == telemetryFiles'[name].rows
                 IN  /\ k.ends[name].lines <= Len(rows)
                     /\ \A i \in 1..Len(rows) : rows[i] \in k.join.had => \E j \in 1..k.ends[name].lines : rows[j] = rows[i]
      <4> DEFINE rows == telemetryFiles[name].rows
                 now  == telemetryFiles'[name].rows
                 lines == k.ends[name].lines
      <4>1. /\ Len(rows) <= Len(now) /\ \A i \in 1..Len(rows) : now[i] = rows[i]
            /\ \A i \in 1..Len(now) : i <= Len(rows) \/ now[i] \notin k.join.had
        BY <3>3 DEF k
      <4>2. lines <= Len(rows) /\ \A i \in 1..Len(rows) : rows[i] \in k.join.had => \E j \in 1..lines : rows[j] = rows[i]
        BY <3>1, <3>3 DEF EndsHold
      <4>3. lines \in Nat /\ Len(rows) \in Nat /\ Len(now) \in Nat
        BY <2>4, <3>3, <3>4, <3>5
      <4> HIDE DEF rows, now, lines
      <4>4. lines <= Len(now)
        BY <4>1, <4>2, <4>3
      <4>5. ASSUME NEW i \in 1..Len(now), now[i] \in k.join.had PROVE \E j \in 1..lines : now[j] = now[i]
        <5>1. i \in 1..Len(rows) /\ now[i] = rows[i]
          BY <4>1, <4>3, <4>5
        <5>2. PICK j \in 1..lines : rows[j] = rows[i]
          BY <4>2, <4>5, <5>1
        <5>3. j \in 1..Len(rows) /\ now[j] = rows[j]
          BY <4>1, <4>2, <4>3
        <5> QED
          BY <5>1, <5>2, <5>3
      <4> QED
        BY <4>4, <4>5 DEF now, lines
    <3>7. ASSUME BoundHolds(k) PROVE BoundHolds(k)'
      <4>1. \A name \in DOMAIN k.ends \cap DOMAIN telemetryFiles' :
              \A i \in 1..k.ends[name].lines : telemetryFiles'[name].rows[i] \in k.join.bound
        <5> SUFFICES ASSUME NEW name \in DOMAIN k.ends \cap DOMAIN telemetryFiles', NEW i \in 1..k.ends[name].lines
                     PROVE  telemetryFiles'[name].rows[i] \in k.join.bound
          OBVIOUS
        <5>1. name \in DOMAIN telemetryFiles /\ k.ends[name].lines <= Len(telemetryFiles[name].rows)
          BY <3>1, <3>3 DEF EndsHold
        <5>2. i \in 1..Len(telemetryFiles[name].rows)
          BY <2>4, <3>4, <5>1
        <5> QED
          BY <3>7, <5>1, <5>2 DEF BoundHolds
      <4>2. ASSUME DOMAIN k.ends \subseteq DOMAIN telemetryFiles', NEW r \in k.join.bound
            PROVE  \E name \in DOMAIN k.ends : \E i \in 1..Len(telemetryFiles'[name].rows) : telemetryFiles'[name].rows[i] = r
        <5>1. DOMAIN k.ends \subseteq DOMAIN telemetryFiles
          BY <3>3, <4>2
        <5>2. PICK name \in DOMAIN k.ends : \E i \in 1..Len(telemetryFiles[name].rows) : telemetryFiles[name].rows[i] = r
          BY <3>7, <4>2, <5>1 DEF BoundHolds
        <5>3. PICK i \in 1..Len(telemetryFiles[name].rows) : telemetryFiles[name].rows[i] = r
          BY <5>2
        <5>4. i \in 1..Len(telemetryFiles'[name].rows) /\ telemetryFiles'[name].rows[i] = r
          BY <3>4, <3>5, <4>2, <5>1, <5>3
        <5> QED
          BY <5>4
      <4>3. k' = k
        BY DEF k
      <4> QED
        BY <3>7, <4>1, <4>2, <4>3 DEF BoundHolds
    <3>8. EndsHold(k)'
      <4>1. k' = k
        BY DEF k
      <4> QED
        BY <3>6, <4>1 DEF EndsHold
    <3>9. k' = k
      BY DEF k
    <3> QED
      BY <2>1, <2>6, <3>2, <3>7, <3>8, <3>9 DEF JoinMeans, k
  <2> QED
    BY <2>5, <2>6
<1> QED
  BY <1>2, <1>3, <1>4 DEF PackageInv

\* What the log's steps leave.
LEMMA LogStepFacts ==
    ASSUME PackageInv, TelemetryMoves
    PROVE  /\ UNCHANGED <<packager, stages, reservations, exports, exportPurge>> /\ PackageTypes /\ RowsCounted
           /\ LastTelemetry \in DOMAIN telemetryFiles /\ LastTelemetry \in Nat
           /\ \A name \in DOMAIN telemetryFiles : name <= LastTelemetry /\ name \in Nat
           /\ telemetryFiles[LastTelemetry] \in LogFiles
           /\ telemetryFiles[LastTelemetry].rows \in Seq(LogRows)
           /\ \A name \in DOMAIN telemetryFiles : Len(telemetryFiles[name].rows) \in Nat
                 /\ \A i \in 1..Len(telemetryFiles[name].rows) : telemetryFiles[name].rows[i] \in LogRows
           /\ \A c \in Packagers : packager[c].join.had \subseteq LogRows
<1>1. PackageTypes
  BY DEF PackageInv
<1>2. telemetryFiles[LastTelemetry].rows \in Seq(LogRows)
  BY <1>1, LastSegmentFacts, FileFields
<1>3. \A name \in DOMAIN telemetryFiles : Len(telemetryFiles[name].rows) \in Nat
                 /\ \A i \in 1..Len(telemetryFiles[name].rows) : telemetryFiles[name].rows[i] \in LogRows
  BY <1>1, FileFields DEF PackageTypes
<1>4. \A c \in Packagers : packager[c].join.had \subseteq LogRows
  BY <1>1, PackagerFields DEF PackageTypes
<1> QED
  BY <1>1, <1>2, <1>3, <1>4, LastSegmentFacts DEF PackageInv, TelemetryMoves

\* The last segment changes, and is still the last.
LEMMA LastChanged ==
    ASSUME PackageTypes, NEW file \in LogFiles, telemetryFiles' = [telemetryFiles EXCEPT ![LastTelemetry] = file]
    PROVE  /\ telemetryFiles' = [name \in DOMAIN telemetryFiles' |-> telemetryFiles'[name]]
           /\ DOMAIN telemetryFiles' = DOMAIN telemetryFiles /\ telemetryFiles'[LastTelemetry] = file
           /\ \A name \in DOMAIN telemetryFiles : name # LastTelemetry => telemetryFiles'[name] = telemetryFiles[name]
           /\ \A name \in DOMAIN telemetryFiles : telemetryFiles'[name] \in LogFiles
           /\ LastTelemetry' = LastTelemetry /\ PendingRow' = file.tail
<1>1. LastTelemetry \in DOMAIN telemetryFiles /\ telemetryFiles = [name \in DOMAIN telemetryFiles |-> telemetryFiles[name]]
  BY LastSegmentFacts DEF PackageTypes
<1>2. /\ telemetryFiles' = [name \in DOMAIN telemetryFiles' |-> telemetryFiles'[name]]
      /\ DOMAIN telemetryFiles' = DOMAIN telemetryFiles /\ telemetryFiles'[LastTelemetry] = file
      /\ \A name \in DOMAIN telemetryFiles : name # LastTelemetry => telemetryFiles'[name] = telemetryFiles[name]
  BY <1>1
<1>3. \A name \in DOMAIN telemetryFiles : telemetryFiles'[name] \in LogFiles
  BY <1>2 DEF PackageTypes
<1>4. LastTelemetry' = LastTelemetry
  BY <1>2 DEF LastTelemetry
<1> QED
  BY <1>2, <1>3, <1>4 DEF PendingRow

\* Its tail alone changes.
LEMMA TailChanged ==
    ASSUME PackageTypes, NEW tail \in 0..MaxTelemetryRows,
           telemetryFiles' = [telemetryFiles EXCEPT ![LastTelemetry].tail = tail]
    PROVE  /\ telemetryFiles' = [name \in DOMAIN telemetryFiles' |-> telemetryFiles'[name]]
           /\ DOMAIN telemetryFiles' = DOMAIN telemetryFiles
           /\ \A name \in DOMAIN telemetryFiles : telemetryFiles'[name] \in LogFiles
           /\ \A name \in DOMAIN telemetryFiles : telemetryFiles'[name].rows = telemetryFiles[name].rows
           /\ LastTelemetry' = LastTelemetry /\ PendingRow' = tail
<1> DEFINE file == [telemetryFiles[LastTelemetry] EXCEPT !.tail = tail]
<1>1. file \in LogFiles /\ file.tail = tail /\ file.rows = telemetryFiles[LastTelemetry].rows
  BY LastSegmentFacts DEF LogFiles
<1>2. telemetryFiles' = [telemetryFiles EXCEPT ![LastTelemetry] = file]
  OBVIOUS
<1> HIDE DEF file
<1> QED
  BY <1>1, <1>2, LastChanged

\* A row is begun.
LEMMA StartRowKeeps == PackageInv /\ StartRow => PackageInv'
<1> SUFFICES ASSUME PackageInv, StartRow PROVE PackageInv'
  OBVIOUS
<1> DEFINE row == packagePast.rows + 1
<1>1. TelemetryMoves /\ PendingRow = NoRow /\ packagePast.rows < MaxTelemetryRows
      /\ telemetryFiles' = [telemetryFiles EXCEPT ![LastTelemetry].tail = row]
      /\ packagePast' = [packagePast EXCEPT !.rows = @ + 1]
  BY DEF StartRow, PendingRow
<1>2. packagePast.rows \in 0..MaxTelemetryRows /\ MaxTelemetryRows \in Nat
  BY PackageBounds DEF PackageInv, PackageTypes
<1>3. row \in 0..MaxTelemetryRows /\ row > packagePast.rows /\ packagePast'.rows = row
      /\ packagePast' \in [joins : Nat, rows : 0..MaxTelemetryRows, lost : Nat, faults : Nat, purges : Nat, cleanups : Nat]
  <2>1. row \in 0..MaxTelemetryRows /\ row > packagePast.rows
    BY <1>1, <1>2
  <2> QED
    BY <1>1, <2>1 DEF PackageInv, PackageTypes
<1> HIDE DEF row
<1>4. PackageTypes'
  BY <1>1, <1>3, LogStepFacts, TailChanged DEF PackageTypes
<1>5. RowsCounted'
  <2>1. PendingRow' = row /\ DOMAIN telemetryFiles' = DOMAIN telemetryFiles
        /\ \A name \in DOMAIN telemetryFiles : telemetryFiles'[name].rows = telemetryFiles[name].rows
    BY <1>1, <1>3, LogStepFacts, TailChanged
  <2>2. \A r \in LogRows : r <= packagePast.rows => r <= row /\ r # row
    BY <1>2, <1>3 DEF LogRows
  <2> QED
    BY <1>1, <1>3, <2>1, <2>2, LogStepFacts DEF RowsCounted
<1>6. LastTelemetry' = LastTelemetry /\ DOMAIN telemetryFiles' = DOMAIN telemetryFiles
      /\ \A name \in DOMAIN telemetryFiles : telemetryFiles'[name].rows = telemetryFiles[name].rows
  BY <1>1, <1>3, LogStepFacts, TailChanged
<1> QED
  BY <1>1, <1>4, <1>5, <1>6, LogStepFacts, LogMovesKeep

\* The row that is being written is cut off.
LEMMA LoseRowKeeps == PackageInv /\ LoseRow => PackageInv'
<1> SUFFICES ASSUME PackageInv, LoseRow PROVE PackageInv'
  OBVIOUS
<1>1. TelemetryMoves /\ telemetryFiles' = [telemetryFiles EXCEPT ![LastTelemetry].tail = 0]
      /\ packagePast' = [packagePast EXCEPT !.lost = @ + 1]
  BY DEF LoseRow, NoRow
<1>2. packagePast'.rows = packagePast.rows /\ 0 \in 0..MaxTelemetryRows
      /\ packagePast' \in [joins : Nat, rows : 0..MaxTelemetryRows, lost : Nat, faults : Nat, purges : Nat, cleanups : Nat]
  BY <1>1, PackageBounds DEF PackageInv, PackageTypes
<1>3. LastTelemetry' = LastTelemetry /\ DOMAIN telemetryFiles' = DOMAIN telemetryFiles /\ PendingRow' = 0
      /\ \A name \in DOMAIN telemetryFiles : telemetryFiles'[name].rows = telemetryFiles[name].rows
  BY <1>1, <1>2, LogStepFacts, TailChanged
<1>4. PackageTypes'
  BY <1>1, <1>2, LogStepFacts, TailChanged DEF PackageTypes
<1>5. RowsCounted'
  <2>1. \A r \in LogRows : r # 0
    BY DEF LogRows
  <2> QED
    BY <1>1, <1>2, <1>3, <2>1, LogStepFacts DEF RowsCounted, NoRow
<1> QED
  BY <1>1, <1>3, <1>4, <1>5, LogStepFacts, LogMovesKeep

\* The row that is being written is whole.
LEMMA FinishRowKeeps == PackageInv /\ FinishRow => PackageInv'
<1> SUFFICES ASSUME PackageInv, FinishRow PROVE PackageInv'
  OBVIOUS
<1> DEFINE last == telemetryFiles[LastTelemetry]
           file == [rows |-> Append(last.rows, last.tail), tail |-> 0]
<1>1. TelemetryMoves /\ last.tail # 0 /\ telemetryFiles' = [telemetryFiles EXCEPT ![LastTelemetry] = file]
      /\ UNCHANGED packagePast
  BY DEF FinishRow, NoRow
<1>2. last \in LogFiles /\ last.rows \in Seq(LogRows) /\ last.tail \in LogRows
  <2>1. last \in LogFiles
    BY <1>1, LogStepFacts
  <2> QED
    BY <1>1, <2>1, FileFields, PackageBounds DEF LogRows
<1>3. file.rows = Append(last.rows, last.tail) /\ file.tail = 0 /\ file \in LogFiles
      /\ Len(file.rows) = Len(last.rows) + 1 /\ file.rows[Len(last.rows) + 1] = last.tail
      /\ \A i \in 1..Len(last.rows) : file.rows[i] = last.rows[i]
  <2>1. Append(last.rows, last.tail) \in Seq(LogRows)
    BY <1>2, AppendProperties
  <2> QED
    BY <1>2, <2>1, AppendProperties, PackageBounds DEF LogFiles
<1>4. last.tail = packagePast.rows /\ \A c \in Packagers : last.tail \notin packager[c].join.had
  BY <1>1, LogStepFacts DEF RowsCounted, PendingRow, NoRow
<1> HIDE DEF file
<1>5. LastTelemetry' = LastTelemetry /\ DOMAIN telemetryFiles' = DOMAIN telemetryFiles /\ PendingRow' = 0
      /\ telemetryFiles'[LastTelemetry] = file
      /\ \A name \in DOMAIN telemetryFiles : name # LastTelemetry => telemetryFiles'[name] = telemetryFiles[name]
  BY <1>1, <1>3, LogStepFacts, LastChanged
<1>6. PackageTypes'
  BY <1>1, <1>3, LogStepFacts, LastChanged DEF PackageTypes
<1>7. Len(last.rows) \in Nat /\ LastTelemetry \in DOMAIN telemetryFiles /\ last.tail # 0
  BY <1>1, <1>2, LogStepFacts
<1>8. \A i \in 1..Len(file.rows) : i \in 1..Len(last.rows) \/ (i = Len(last.rows) + 1 /\ file.rows[i] = last.tail)
  BY <1>3, <1>7
<1>9. RowsCounted'
  <2>1. \A r \in LogRows : r # 0
    BY DEF LogRows
  <2>2. PendingRow' # NoRow => PendingRow' = packagePast'.rows
    BY <1>5 DEF NoRow
  <2>3. ASSUME NEW name \in DOMAIN telemetryFiles', NEW i \in 1..Len(telemetryFiles'[name].rows)
        PROVE  telemetryFiles'[name].rows[i] <= packagePast'.rows /\ telemetryFiles'[name].rows[i] # PendingRow'
    <3>1. CASE name # LastTelemetry
      BY <1>1, <1>5, <2>1, <2>3, <3>1, LogStepFacts DEF RowsCounted
    <3>2. CASE name = LastTelemetry
      <4>1. telemetryFiles'[name] = file
        BY <1>5, <3>2
      <4>2. CASE i \in 1..Len(last.rows)
        BY <1>1, <1>3, <1>5, <1>7, <2>1, <4>1, <4>2, LogStepFacts DEF RowsCounted
      <4>3. CASE file.rows[i] = last.tail
        <5>1. packagePast.rows <= packagePast.rows
          BY DEF PackageInv, PackageTypes
        <5> QED
          BY <1>1, <1>4, <1>5, <1>7, <4>1, <4>3, <5>1
      <4> QED
        BY <1>8, <2>3, <4>1, <4>2, <4>3
    <3> QED
      BY <3>1, <3>2
  <2>4. \A c \in Packagers : \A r \in packager'[c].join.had : r <= packagePast'.rows /\ r # PendingRow'
    BY <1>1, <1>5, <2>1, LogStepFacts DEF RowsCounted
  <2> QED
    BY <2>2, <2>3, <2>4 DEF RowsCounted
<1>10. ASSUME NEW name \in DOMAIN telemetryFiles \cap DOMAIN telemetryFiles'
       PROVE  LET rows == telemetryFiles[name].rows
                  now  == telemetryFiles'[name].rows
              IN  /\ Len(rows) <= Len(now) /\ \A i \in 1..Len(rows) : now[i] = rows[i]
                  /\ \A i \in 1..Len(now) : i <= Len(rows) \/ \A c \in Packagers : now[i] \notin packager[c].join.had
  <2>1. CASE name # LastTelemetry
    <3>1. telemetryFiles'[name] = telemetryFiles[name] /\ Len(telemetryFiles[name].rows) \in Nat
      BY <1>1, <1>5, <2>1, LogStepFacts
    <3> QED
      BY <3>1
  <2>2. CASE name = LastTelemetry
    <3>1. telemetryFiles'[name].rows = file.rows /\ telemetryFiles[name].rows = last.rows
      BY <1>5, <2>2
    <3>2. Len(last.rows) <= Len(file.rows)
      BY <1>3, <1>7
    <3>3. ASSUME NEW i \in 1..Len(file.rows) PROVE i <= Len(last.rows) \/ \A c \in Packagers : file.rows[i] \notin packager[c].join.had
      <4>1. i \in 1..Len(last.rows) => i <= Len(last.rows)
        BY <1>7
      <4> QED
        BY <1>4, <1>8, <4>1
    <3> HIDE DEF last
    <3> QED
      BY <1>3, <3>1, <3>2, <3>3
  <2> QED
    BY <2>1, <2>2
<1> QED
  BY <1>1, <1>5, <1>6, <1>9, <1>10, LogStepFacts, LogMovesKeep

\* A new segment.
LEMMA RotateKeeps == PackageInv /\ RotateTelemetry => PackageInv'
<1> SUFFICES ASSUME PackageInv, RotateTelemetry PROVE PackageInv'
  OBVIOUS
<1> DEFINE file == [rows |-> <<>>, tail |-> 0]
           new  == LastTelemetry + 1
<1>1. TelemetryMoves /\ LastTelemetry < MaxTelemetrySegments /\ UNCHANGED packagePast
      /\ telemetryFiles' = [n \in DOMAIN telemetryFiles \cup {new} |-> IF n = new THEN file ELSE telemetryFiles[n]]
  BY DEF RotateTelemetry, NoRow, FileAdded
<1>2. file \in LogFiles /\ file.tail = 0 /\ file.rows = <<>>
  BY PackageBounds DEF LogFiles
<1>3. new \in LogNames /\ new > LastTelemetry /\ new \in Nat
  BY <1>1, LogStepFacts, PackageBounds DEF LogNames
<1>4. new \notin DOMAIN telemetryFiles /\ \A name \in DOMAIN telemetryFiles : new >= name
  BY <1>1, <1>3, LogStepFacts
<1> HIDE DEF file, new
<1>5. /\ telemetryFiles' = [name \in DOMAIN telemetryFiles' |-> telemetryFiles'[name]]
      /\ DOMAIN telemetryFiles' = DOMAIN telemetryFiles \cup {new} /\ telemetryFiles'[new] = file
      /\ \A name \in DOMAIN telemetryFiles : telemetryFiles'[name] = telemetryFiles[name]
  BY <1>1, <1>4
<1>6. DOMAIN telemetryFiles \subseteq LogNames /\ \A name \in DOMAIN telemetryFiles : telemetryFiles[name] \in LogFiles
  BY DEF PackageInv, PackageTypes
<1>7. LastTelemetry' = new
  <2>1. DOMAIN telemetryFiles' \subseteq LogNames /\ \A name \in DOMAIN telemetryFiles' : new >= name
    BY <1>3, <1>4, <1>5, <1>6
  <2> QED
    BY <1>5, <2>1, MaxIs DEF LastTelemetry
<1>8. PendingRow' = 0
  BY <1>2, <1>5, <1>7 DEF PendingRow
<1>9. PackageTypes'
  BY <1>1, <1>2, <1>3, <1>5, <1>6, LogStepFacts DEF PackageTypes
<1>10. RowsCounted'
  <2>1. \A r \in LogRows : r # 0
    BY DEF LogRows
  <2>2. Len(telemetryFiles'[new].rows) = 0
    BY <1>2, <1>5
  <2> QED
    BY <1>1, <1>5, <1>8, <2>1, <2>2, LogStepFacts DEF RowsCounted, NoRow
<1>11. ASSUME NEW name \in DOMAIN telemetryFiles
       PROVE  telemetryFiles'[name] = telemetryFiles[name] /\ Len(telemetryFiles[name].rows) \in Nat
  BY <1>1, <1>5, LogStepFacts
<1>12. LastTelemetry <= LastTelemetry' /\ LastTelemetry' \in Nat
  BY <1>1, <1>3, <1>7, LogStepFacts
<1>13. \A name \in DOMAIN telemetryFiles' : name \in DOMAIN telemetryFiles \/ name > LastTelemetry
  BY <1>3, <1>5
<1> QED
  BY <1>1, <1>9, <1>10, <1>11, <1>12, <1>13, LogStepFacts, LogMovesKeep

\* The oldest segment goes.
LEMMA RetireKeeps == PackageInv /\ RetireTelemetry => PackageInv'
<1> SUFFICES ASSUME PackageInv, RetireTelemetry PROVE PackageInv'
  OBVIOUS
<1> DEFINE old == Min(DOMAIN telemetryFiles)
<1>1. TelemetryMoves /\ Cardinality(DOMAIN telemetryFiles) > 1 /\ UNCHANGED packagePast
      /\ telemetryFiles' = [name \in DOMAIN telemetryFiles \ {old} |-> telemetryFiles[name]]
  BY DEF RetireTelemetry
<1>2. DOMAIN telemetryFiles \subseteq LogNames /\ DOMAIN telemetryFiles # {} /\ DOMAIN telemetryFiles \subseteq Nat
      /\ \A name \in DOMAIN telemetryFiles : telemetryFiles[name] \in LogFiles
  BY DEF PackageInv, PackageTypes, LogNames
<1>3. old \in DOMAIN telemetryFiles /\ \A name \in DOMAIN telemetryFiles : old <= name
  BY <1>2, MinFacts
<1>4. old # LastTelemetry
  <2> SUFFICES ASSUME old = LastTelemetry PROVE FALSE
    OBVIOUS
  <2>1. \A name \in DOMAIN telemetryFiles : name = old
    <3> SUFFICES ASSUME NEW name \in DOMAIN telemetryFiles PROVE name = old
      OBVIOUS
    <3>1. name <= LastTelemetry /\ name \in Nat /\ old <= name /\ old \in Nat
      BY <1>1, <1>2, <1>3, LogStepFacts
    <3> HIDE DEF old
    <3> QED
      BY <3>1
  <2>2. DOMAIN telemetryFiles = {old}
    BY <1>3, <2>1
  <2>3. Cardinality(DOMAIN telemetryFiles) = 1
    BY <2>2, FS_Singleton
  <2> QED
    BY <1>1, <2>3
<1> HIDE DEF old
<1>5. /\ telemetryFiles' = [name \in DOMAIN telemetryFiles' |-> telemetryFiles'[name]]
      /\ DOMAIN telemetryFiles' = DOMAIN telemetryFiles \ {old}
      /\ \A name \in DOMAIN telemetryFiles' : telemetryFiles'[name] = telemetryFiles[name]
  BY <1>1
<1>6. LastTelemetry \in DOMAIN telemetryFiles' /\ LastTelemetry' = LastTelemetry
  <2>1. LastTelemetry \in DOMAIN telemetryFiles'
    BY <1>1, <1>4, <1>5, LogStepFacts
  <2>2. \A name \in DOMAIN telemetryFiles' : LastTelemetry >= name
    BY <1>1, <1>5, LogStepFacts
  <2>3. DOMAIN telemetryFiles' \subseteq LogNames
    BY <1>2, <1>5
  <2> QED
    BY <2>1, <2>2, <2>3, MaxIs DEF LastTelemetry
<1>7. PendingRow' = PendingRow
  BY <1>5, <1>6 DEF PendingRow
<1>8. PackageTypes'
  BY <1>1, <1>2, <1>5, <1>6, LogStepFacts DEF PackageTypes
<1>9. RowsCounted'
  BY <1>1, <1>5, <1>7, LogStepFacts DEF RowsCounted
<1>10. \A name \in DOMAIN telemetryFiles' : name \in DOMAIN telemetryFiles
         /\ telemetryFiles'[name] = telemetryFiles[name] /\ Len(telemetryFiles[name].rows) \in Nat
  BY <1>1, <1>5, LogStepFacts
<1> QED
  BY <1>1, <1>6, <1>8, <1>9, <1>10, LogStepFacts, LogMovesKeep

-----------------------------------------------------------------------------
PastTypes == [joins : Nat, rows : 0..MaxTelemetryRows, lost : Nat, faults : Nat, purges : Nat, cleanups : Nat]

\* What a run took for whole when it began is counted, and was not being written.
HadCounted(k) == \A r \in k.join.had : r <= packagePast.rows /\ r # PendingRow

\* A run that has not begun, or has ended.
LEMMA IdleTyped ==
    /\ PackagerIdle \in PackagerStates /\ PackagerIdle.at = "idle" /\ PackagerIdle.join.had = {} /\ PackagerIdle.wanted = {}
    /\ NoJoin \in [had : SUBSET LogRows, bound : SUBSET LogRows, rows : SUBSET LogRows] /\ NoJoin.had = {}
    /\ <<>> \in Captures /\ <<>> \in Readings
<1>1. DOMAIN <<>> = {} /\ <<>> = [n \in {} |-> <<>>[n]]
  OBVIOUS
<1>2. <<>> \in [{} -> [size : Nat, lines : Nat]] /\ <<>> \in [{} -> Seq(LogRows)]
  BY <1>1
<1>3. <<>> \in Captures /\ <<>> \in Readings
  BY <1>2 DEF Captures, Readings
<1>4. NoJoin \in [had : SUBSET LogRows, bound : SUBSET LogRows, rows : SUBSET LogRows] /\ NoJoin.had = {}
  BY DEF NoJoin
<1> QED
  BY <1>3, <1>4 DEF PackagerIdle, PackagerStates, PackagerSteps, Destinations

\* The log has been measured by no run that does not read it.
LEMMA JoinsNot ==
    ASSUME NEW k, k.at \notin {"capture", "verify", "read", "check", "gate"} \/ (k.at = "gate" /\ k.wanted = {})
    PROVE  JoinMeans(k)
BY DEF JoinMeans

\* What the invariant says of a run.
LEMMA RunFacts ==
    ASSUME PackageInv, NEW c \in Packagers
    PROVE  /\ PackageTypes /\ packager[c] \in PackagerStates /\ JoinMeans(packager[c]) /\ StageMeans(packager[c], c)
           /\ HadCounted(packager[c]) /\ stages[c] \in {"none", "beside", "quarantine", "gone"} /\ packagePast \in PastTypes
BY DEF PackageInv, PackageTypes, RowsCounted, HadCounted, PastTypes

\* A run moves, and the log rests.
LEMMA RunKeeps ==
    ASSUME PackageInv, NEW c \in Packagers, NEW k \in PackagerStates, packager' = [packager EXCEPT ![c] = k],
           UNCHANGED <<telemetryFiles, exportPurge>>, packagePast' \in PastTypes, packagePast'.rows = packagePast.rows,
           stages' \in [Packagers -> {"none", "beside", "quarantine", "gone"}], reservations' \subseteq Packagers,
           exports' \in [Destinations -> Packagers \cup {Vacant, Foreign}],
           HadCounted(k), JoinMeans(k), StageMeans(k, c)',
           \A d \in Packagers \ {c} : stages'[d] = stages[d] /\ (d \in reservations' <=> d \in reservations),
           stages'[c] = stages[c] \/ stages[c] \notin {"quarantine", "gone"}
    PROVE  PackageInv'
<1>1. /\ packager' \in [Packagers -> PackagerStates] /\ packager'[c] = k
      /\ \A d \in Packagers \ {c} : packager'[d] = packager[d]
  BY DEF PackageInv, PackageTypes
<1>2. PackageTypes'
  BY <1>1 DEF PackageInv, PackageTypes, PastTypes
<1>3. LastTelemetry' = LastTelemetry /\ PendingRow' = PendingRow
  BY DEF LastTelemetry, PendingRow
<1>4. RowsCounted'
  BY <1>1, <1>3 DEF PackageInv, RowsCounted, HadCounted
<1>5. ASSUME NEW d \in Packagers PROVE JoinMeans(packager[d])'
  <2>1. JoinMeans(packager'[d])
    BY <1>1 DEF PackageInv
  <2> QED
    BY <1>3, <2>1 DEF JoinMeans, EndsHold, BoundHolds, JoinHolds
<1>6. ASSUME NEW d \in Packagers PROVE StageMeans(packager[d], d)'
  <2>1. CASE d = c
    BY <1>1, <2>1 DEF StageMeans
  <2>2. CASE d # c
    <3>1. StageMeans(packager[d], d)
      BY DEF PackageInv
    <3> QED
      BY <1>1, <2>2, <3>1 DEF StageMeans
  <2> QED
    BY <2>1, <2>2
<1>7. PurgeMeans'
  <2>1. exportPurge.began \subseteq Packagers
    BY DEF PackageInv, PackageTypes
  <2> QED
    BY <2>1 DEF PackageInv, PurgeMeans
<1> QED
  BY <1>2, <1>4, <1>5, <1>6, <1>7 DEF PackageInv

\* A run that reads.
LEMMA ReadsKeep ==
    ASSUME PackageInv, NEW c \in Packagers, NEW k \in PackagerStates, packager' = [packager EXCEPT ![c] = k], PackagerReads,
           HadCounted(k), JoinMeans(k), StageMeans(k, c)
    PROVE  PackageInv'
<1>1. UNCHANGED <<telemetryFiles, exportPurge, stages, reservations, exports, packagePast>>
  BY DEF PackagerReads, PackagerMoves
<1>2. /\ stages \in [Packagers -> {"none", "beside", "quarantine", "gone"}] /\ reservations \subseteq Packagers
      /\ exports \in [Destinations -> Packagers \cup {Vacant, Foreign}] /\ packagePast \in PastTypes
  BY DEF PackageInv, PackageTypes, PastTypes
<1>3. StageMeans(k, c)'
  BY <1>1 DEF StageMeans
<1> QED
  BY <1>1, <1>2, <1>3, RunKeeps

\* A run whose step alone changes.
LEMMA AtFacts ==
    ASSUME PackageTypes, NEW c \in Packagers, NEW at \in PackagerSteps, PackagerAt(c, at)
    PROVE  \E k \in PackagerStates : /\ packager' = [packager EXCEPT ![c] = k] /\ k.at = at /\ k.join = packager[c].join
                                     /\ k.wanted = packager[c].wanted /\ k.named = packager[c].named
<1>1. packager[c] \in PackagerStates
  BY DEF PackageTypes
<1>2. PICK k : k = [packager[c] EXCEPT !.at = at]
  OBVIOUS
<1>3. packager' = [packager EXCEPT ![c] = k]
  BY <1>2 DEF PackagerAt
<1>4. k \in PackagerStates /\ k.at = at /\ k.join = packager[c].join /\ k.wanted = packager[c].wanted /\ k.named = packager[c].named
  BY <1>1, <1>2 DEF PackagerStates
<1> QED
  BY <1>3, <1>4

\* A run that fails.
LEMMA FailsAre ==
    ASSUME PackageTypes, NEW c \in Packagers, NEW error \in {"none", "exists", "telemetry", "blocked", "unsynced"},
           FailsWith(c, error)
    PROVE  \E k \in PackagerStates : packager' = [packager EXCEPT ![c] = k] /\ k.at = "clean" /\ k.join.had = {}
<1>1. packager[c].device \in {"same", "other"}
  BY PackagerFields DEF PackageTypes
<1>2. PICK k : k = [PackagerIdle EXCEPT !.at = "clean", !.error = error, !.device = packager[c].device]
  OBVIOUS
<1>3. packager' = [packager EXCEPT ![c] = k]
  BY <1>2 DEF FailsWith
<1>4. k \in PackagerStates /\ k.at = "clean" /\ k.join = PackagerIdle.join
  BY <1>1, <1>2, IdleTyped DEF PackagerStates, PackagerSteps
<1> QED
  BY <1>3, <1>4, IdleTyped

\* A run that ends.
LEMMA EndsAre ==
    ASSUME PackageTypes, NEW c \in Packagers, NEW named \in {"nothing", "identifier", "directory"}, PackagerEnds(c, named)
    PROVE  \E k \in PackagerStates : packager' = [packager EXCEPT ![c] = k] /\ k.at = "done" /\ k.join.had = {} /\ k.named = named
<1>1. packager[c].error \in {"none", "exists", "telemetry", "blocked", "unsynced"}
  BY PackagerFields DEF PackageTypes
<1>2. PICK k : k = [PackagerIdle EXCEPT !.at = "done", !.named = named, !.error = packager[c].error]
  OBVIOUS
<1>3. packager' = [packager EXCEPT ![c] = k]
  BY <1>2 DEF PackagerEnds
<1>4. k \in PackagerStates /\ k.at = "done" /\ k.join = PackagerIdle.join /\ k.named = named
  BY <1>1, <1>2, IdleTyped DEF PackagerStates, PackagerSteps
<1> QED
  BY <1>3, <1>4, IdleTyped

\* The types of what a step leaves.
LEMMA RestTypes ==
    ASSUME PackageTypes
    PROVE  /\ stages \in [Packagers -> {"none", "beside", "quarantine", "gone"}] /\ reservations \subseteq Packagers
           /\ exports \in [Destinations -> Packagers \cup {Vacant, Foreign}] /\ packagePast \in PastTypes
BY DEF PackageTypes, PastTypes

\* A fault is counted.
LEMMA FaultTyped == ASSUME packagePast \in PastTypes, PackageFaultCounted
                    PROVE  packagePast' \in PastTypes /\ packagePast'.rows = packagePast.rows
BY DEF PastTypes, PackageFaultCounted

\* The operator confirms, and the staging directory is made.
LEMMA BeginKeeps ==
    ASSUME PackageInv, NEW c \in Packagers, ConfirmPackage(c) \/ CreateStage(c)
    PROVE  PackageInv'
<1>0. PackageTypes /\ packager[c] \in PackagerStates /\ HadCounted(packager[c]) /\ StageMeans(packager[c], c) /\ packagePast \in PastTypes
  BY RunFacts
<1>1. CASE ConfirmPackage(c)
  <2>1. PICK destination \in Destinations, device \in {"same", "other"}, want \in WantedEvents :
           /\ packager' = [packager EXCEPT ![c].at = "create", ![c].destination = destination,
                                           ![c].device = device, ![c].wanted = want]
           /\ packagePast' = [packagePast EXCEPT !.joins = IF want = {} THEN 0 ELSE 1]
    BY <1>1 DEF ConfirmPackage
  <2>2. want \in SUBSET LogRows
    BY PackageBounds DEF LogRows
  <2>3. PICK k : k = [packager[c] EXCEPT !.at = "create", !.destination = destination, !.device = device, !.wanted = want]
    OBVIOUS
  <2>4. packager' = [packager EXCEPT ![c] = k]
    BY <2>1, <2>3
  <2>5. k \in PackagerStates /\ k.at = "create" /\ k.join = packager[c].join
    BY <1>0, <2>2, <2>3 DEF PackagerStates, PackagerSteps
  <2>6. packagePast' \in PastTypes /\ packagePast'.rows = packagePast.rows
    BY <1>0, <2>1 DEF PastTypes
  <2>7. UNCHANGED <<telemetryFiles, exportPurge, stages, reservations, exports>> /\ packager[c].at = "idle"
    BY <1>1 DEF ConfirmPackage, PackagerMoves
  <2>8. HadCounted(k) /\ JoinMeans(k)
    BY <1>0, <2>5, JoinsNot DEF HadCounted
  <2>9. StageMeans(k, c)'
    BY <1>0, <2>5, <2>7 DEF StageMeans
  <2> QED
    BY <1>0, <2>4, <2>5, <2>6, <2>7, <2>8, <2>9, RestTypes, RunKeeps
<1>2. CASE CreateStage(c)
  <2>1. UNCHANGED <<telemetryFiles, exportPurge, reservations, exports, packagePast>> /\ packager[c].at = "create"
    BY <1>2 DEF CreateStage, PackagerMoves
  <2>2. CASE DestinationFree(packager[c].destination)
    <3>1. PackagerAt(c, "traces") /\ stages' = [stages EXCEPT ![c] = "beside"]
      BY <1>2, <2>2 DEF CreateStage
    <3>2. PICK k \in PackagerStates : packager' = [packager EXCEPT ![c] = k] /\ k.at = "traces" /\ k.join = packager[c].join
      BY <1>0, <3>1, AtFacts DEF PackagerSteps
    <3>3. stages' \in [Packagers -> {"none", "beside", "quarantine", "gone"}] /\ stages'[c] = "beside" /\ stages[c] = "none"
          /\ c \notin reservations /\ \A d \in Packagers \ {c} : stages'[d] = stages[d]
      BY <1>0, <2>1, <3>1, RestTypes DEF StageMeans
    <3>4. HadCounted(k) /\ JoinMeans(k)
      BY <1>0, <3>2, JoinsNot DEF HadCounted
    <3>5. StageMeans(k, c)'
      BY <2>1, <3>2, <3>3 DEF StageMeans
    <3> QED
      BY <1>0, <2>1, <3>2, <3>3, <3>4, <3>5, RestTypes, RunKeeps
  <2>3. CASE ~DestinationFree(packager[c].destination)
    <3>1. packager' = [packager EXCEPT ![c] = [PackagerIdle EXCEPT !.at = "done", !.error = "exists"]] /\ UNCHANGED stages
      BY <1>2, <2>3 DEF CreateStage
    <3>2. PICK k : k = [PackagerIdle EXCEPT !.at = "done", !.error = "exists"]
      OBVIOUS
    <3>3. k \in PackagerStates /\ k.at = "done" /\ k.join = PackagerIdle.join /\ packager' = [packager EXCEPT ![c] = k]
      BY <3>1, <3>2, IdleTyped DEF PackagerStates, PackagerSteps
    <3>4. HadCounted(k) /\ JoinMeans(k)
      BY <3>3, JoinsNot, IdleTyped DEF HadCounted
    <3>5. StageMeans(k, c)'
      BY <1>0, <2>1, <3>1, <3>3 DEF StageMeans
    <3> QED
      BY <1>0, <2>1, <3>1, <3>3, <3>4, <3>5, RestTypes, RunKeeps
  <2> QED
    BY <2>2, <2>3
<1> QED
  BY <1>1, <1>2

\* The gate, and the end of a run, up to its quarantine.
LEMMA EndKeeps ==
    ASSUME PackageInv, NEW c \in Packagers,
           GatePackage(c) \/ PublishPackage(c) \/ RemoveStage(c) \/ Reserve(c) \/ MoveStage(c) \/ SyncQuarantine(c) \/ KillPackager(c)
    PROVE  PackageInv'
<1>0. PackageTypes /\ packager[c] \in PackagerStates /\ HadCounted(packager[c]) /\ StageMeans(packager[c], c) /\ packagePast \in PastTypes
  BY RunFacts
<1>1. CASE GatePackage(c)
  <2>1. PackagerReads /\ packager[c].at = "gate"
    BY <1>1 DEF GatePackage
  <2>2. CASE FailsWith(c, "blocked")
    <3>1. PICK k \in PackagerStates : packager' = [packager EXCEPT ![c] = k] /\ k.at = "clean" /\ k.join.had = {}
      BY <1>0, <2>2, FailsAre
    <3>2. HadCounted(k) /\ JoinMeans(k) /\ StageMeans(k, c)
      BY <1>0, <2>1, <3>1, JoinsNot DEF HadCounted, StageMeans
    <3> QED
      BY <2>1, <3>1, <3>2, ReadsKeep
  <2>3. CASE ~FailsWith(c, "blocked")
    <3>1. PICK k : k = [packager[c] EXCEPT !.at = "publish", !.wanted = {}, !.join = NoJoin]
      OBVIOUS
    <3>2. packager' = [packager EXCEPT ![c] = k]
      BY <1>1, <2>3, <3>1 DEF GatePackage
    <3>3. k \in PackagerStates /\ k.at = "publish" /\ k.join = NoJoin
      BY <1>0, <3>1, IdleTyped DEF PackagerStates, PackagerSteps
    <3>4. HadCounted(k) /\ JoinMeans(k) /\ StageMeans(k, c)
      BY <1>0, <2>1, <3>3, IdleTyped, JoinsNot DEF HadCounted, StageMeans
    <3> QED
      BY <2>1, <3>2, <3>3, <3>4, ReadsKeep
  <2> QED
    BY <2>2, <2>3
<1>2. CASE PublishPackage(c)
  <2>1. UNCHANGED <<telemetryFiles, exportPurge, reservations, stages>> /\ packager[c].at = "publish"
    BY <1>2 DEF PublishPackage, PackagerMoves, Linked
  <2>2. exports' \in [Destinations -> Packagers \cup {Vacant, Foreign}]
    BY <1>0, <1>2, RestTypes DEF PublishPackage, Linked
  <2>3. packagePast' \in PastTypes /\ packagePast'.rows = packagePast.rows
    BY <1>0, <1>2, FaultTyped DEF PublishPackage
  <2>4. PackagerAt(c, "clean") \/ FailsWith(c, "unsynced") \/ FailsWith(c, "exists")
    BY <1>2 DEF PublishPackage
  <2>5. PICK k \in PackagerStates : packager' = [packager EXCEPT ![c] = k] /\ k.at = "clean"
                                    /\ (k.join.had = {} \/ k.join = packager[c].join)
    <3>1. CASE PackagerAt(c, "clean")
      BY <1>0, <3>1, AtFacts DEF PackagerSteps
    <3>2. CASE FailsWith(c, "unsynced") \/ FailsWith(c, "exists")
      BY <1>0, <3>2, FailsAre
    <3> QED
      BY <2>4, <3>1, <3>2
  <2>6. HadCounted(k) /\ JoinMeans(k)
    BY <1>0, <2>5, JoinsNot DEF HadCounted
  <2>7. StageMeans(k, c)'
    BY <1>0, <2>1, <2>5 DEF StageMeans
  <2> QED
    BY <1>0, <2>1, <2>2, <2>3, <2>5, <2>6, <2>7, RestTypes, RunKeeps
<1>3. CASE RemoveStage(c)
  <2>1. UNCHANGED <<telemetryFiles, exportPurge, reservations, exports>> /\ packager[c].at = "clean"
    BY <1>3 DEF RemoveStage, PackagerMoves
  <2>2. packagePast' \in PastTypes /\ packagePast'.rows = packagePast.rows
    BY <1>0, <1>3, FaultTyped DEF RemoveStage
  <2>3. CASE PackagerEnds(c, "nothing") /\ stages' = [stages EXCEPT ![c] = "gone"]
    <3>1. PICK k \in PackagerStates : packager' = [packager EXCEPT ![c] = k] /\ k.at = "done" /\ k.join.had = {}
      BY <1>0, <2>3, EndsAre
    <3>2. stages' \in [Packagers -> {"none", "beside", "quarantine", "gone"}] /\ stages'[c] = "gone" /\ stages[c] = "beside"
          /\ \A d \in Packagers \ {c} : stages'[d] = stages[d]
      BY <1>0, <2>1, <2>3, RestTypes DEF StageMeans
    <3>3. HadCounted(k) /\ JoinMeans(k) /\ StageMeans(k, c)'
      BY <3>1, <3>2, JoinsNot DEF HadCounted, StageMeans
    <3> QED
      BY <1>0, <2>1, <2>2, <3>1, <3>2, <3>3, RestTypes, RunKeeps
  <2>4. CASE PackagerAt(c, "reserve") /\ UNCHANGED stages
    <3>1. PICK k \in PackagerStates : packager' = [packager EXCEPT ![c] = k] /\ k.at = "reserve" /\ k.join = packager[c].join
      BY <1>0, <2>4, AtFacts DEF PackagerSteps
    <3>2. HadCounted(k) /\ JoinMeans(k) /\ StageMeans(k, c)'
      BY <1>0, <2>1, <2>4, <3>1, JoinsNot DEF HadCounted, StageMeans
    <3> QED
      BY <1>0, <2>1, <2>2, <2>4, <3>1, <3>2, RestTypes, RunKeeps
  <2> QED
    BY <1>3, <2>3, <2>4 DEF RemoveStage
<1>4. CASE Reserve(c)
  <2>1. UNCHANGED <<telemetryFiles, exportPurge, stages, exports>> /\ packager[c].at = "reserve"
    BY <1>4 DEF Reserve, PackagerMoves
  <2>2. packagePast' \in PastTypes /\ packagePast'.rows = packagePast.rows
    BY <1>0, <1>4, FaultTyped DEF Reserve
  <2>3. reservations' \subseteq Packagers /\ \A d \in Packagers \ {c} : d \in reservations' <=> d \in reservations
    BY <1>0, <1>4, RestTypes DEF Reserve
  <2>4. \E k \in PackagerStates : /\ packager' = [packager EXCEPT ![c] = k] /\ (k.join.had = {} \/ k.join = packager[c].join)
                                  /\ k.at = "move" \/ (k.at = "done" /\ k.named = "directory")
    <3>1. CASE PackagerAt(c, "move")
      BY <1>0, <3>1, AtFacts DEF PackagerSteps
    <3>2. CASE PackagerEnds(c, "directory")
      BY <1>0, <3>2, EndsAre
    <3> QED
      BY <1>4, <3>1, <3>2 DEF Reserve
  <2>5. PICK k \in PackagerStates : /\ packager' = [packager EXCEPT ![c] = k] /\ (k.join.had = {} \/ k.join = packager[c].join)
                                    /\ k.at = "move" \/ (k.at = "done" /\ k.named = "directory")
    BY <2>4
  <2>6. HadCounted(k) /\ JoinMeans(k) /\ StageMeans(k, c)'
    BY <1>0, <2>1, <2>5, JoinsNot DEF HadCounted, StageMeans
  <2> QED
    BY <1>0, <2>1, <2>2, <2>3, <2>5, <2>6, RestTypes, RunKeeps
<1>5. CASE MoveStage(c)
  <2>1. UNCHANGED <<telemetryFiles, exportPurge, exports, packagePast>> /\ packager[c].at = "move" /\ stages[c] = "beside"
    BY <1>0, <1>5 DEF MoveStage, PackagerMoves, StageMeans
  <2>2. CASE PackagerAt(c, "sync") /\ stages' = [stages EXCEPT ![c] = "quarantine"] /\ UNCHANGED reservations /\ c \in reservations
    <3>1. PICK k \in PackagerStates : packager' = [packager EXCEPT ![c] = k] /\ k.at = "sync" /\ k.join = packager[c].join
      BY <1>0, <2>2, AtFacts DEF PackagerSteps
    <3>2. stages' \in [Packagers -> {"none", "beside", "quarantine", "gone"}] /\ stages'[c] = "quarantine"
          /\ \A d \in Packagers \ {c} : stages'[d] = stages[d]
      BY <1>0, <2>2, RestTypes
    <3>3. HadCounted(k) /\ JoinMeans(k) /\ StageMeans(k, c)'
      BY <1>0, <2>2, <3>1, <3>2, JoinsNot DEF HadCounted, StageMeans
    <3> QED
      BY <1>0, <2>1, <2>2, <3>1, <3>2, <3>3, RestTypes, RunKeeps
  <2>3. CASE PackagerEnds(c, "directory") /\ reservations' = reservations \ {c} /\ UNCHANGED stages
    <3>1. PICK k \in PackagerStates : packager' = [packager EXCEPT ![c] = k] /\ k.at = "done" /\ k.join.had = {} /\ k.named = "directory"
      BY <1>0, <2>3, EndsAre
    <3>2. HadCounted(k) /\ JoinMeans(k) /\ StageMeans(k, c)'
      BY <2>1, <2>3, <3>1, JoinsNot DEF HadCounted, StageMeans
    <3> QED
      BY <1>0, <2>1, <2>3, <3>1, <3>2, RestTypes, RunKeeps
  <2> QED
    BY <1>5, <2>2, <2>3 DEF MoveStage
<1>6. CASE SyncQuarantine(c)
  <2>1. UNCHANGED <<telemetryFiles, exportPurge, exports, stages, reservations>> /\ packager[c].at = "sync"
    BY <1>6 DEF SyncQuarantine, PackagerMoves
  <2>2. packagePast' \in PastTypes /\ packagePast'.rows = packagePast.rows
    BY <1>0, <1>6, FaultTyped DEF SyncQuarantine
  <2>3. PICK k \in PackagerStates : packager' = [packager EXCEPT ![c] = k] /\ k.at = "done" /\ k.join.had = {}
    BY <1>0, <1>6, EndsAre DEF SyncQuarantine
  <2>4. HadCounted(k) /\ JoinMeans(k) /\ StageMeans(k, c)'
    BY <1>0, <2>1, <2>3, JoinsNot DEF HadCounted, StageMeans
  <2> QED
    BY <1>0, <2>1, <2>2, <2>3, <2>4, RestTypes, RunKeeps
<1>7. CASE KillPackager(c)
  <2>1. UNCHANGED <<telemetryFiles, exportPurge, exports, stages, reservations>>
        /\ packager' = [packager EXCEPT ![c] = [PackagerIdle EXCEPT !.at = "killed"]]
    BY <1>7 DEF KillPackager, PackagerMoves
  <2>2. packagePast' \in PastTypes /\ packagePast'.rows = packagePast.rows
    BY <1>0, <1>7, FaultTyped DEF KillPackager
  <2>3. PICK k : k = [PackagerIdle EXCEPT !.at = "killed"]
    OBVIOUS
  <2>4. k \in PackagerStates /\ k.at = "killed" /\ k.join = PackagerIdle.join /\ packager' = [packager EXCEPT ![c] = k]
    BY <2>1, <2>3, IdleTyped DEF PackagerStates, PackagerSteps
  <2>5. HadCounted(k) /\ JoinMeans(k) /\ StageMeans(k, c)'
    BY <1>0, <2>1, <2>4, JoinsNot, IdleTyped DEF HadCounted, StageMeans
  <2> QED
    BY <1>0, <2>1, <2>2, <2>4, <2>5, RestTypes, RunKeeps
<1> QED
  BY <1>1, <1>2, <1>3, <1>4, <1>5, <1>6, <1>7

\* The rows of a segment up to where its last complete line ended.
LEMMA BoundedFacts ==
    ASSUME NEW file \in LogFiles, NEW end, end.lines \in Nat, end.lines <= Len(file.rows)
    PROVE  /\ Bounded(file, end) \in Seq(LogRows)
           /\ \A r : r \in ToSet(Bounded(file, end)) <=> \E i \in 1..end.lines : file.rows[i] = r
<1>1. file.rows \in Seq(LogRows) /\ Len(file.rows) \in Nat /\ \A i \in 1..Len(file.rows) : file.rows[i] \in LogRows
  BY FileFields
<1> DEFINE n == end.lines
           piece == SubSeq(file.rows, 1, n)
<1>2. \A i \in 1..n : i \in 1..Len(file.rows)
  BY <1>1
<1>3. piece \in Seq(LogRows) /\ Len(piece) = n /\ \A i \in 1..n : piece[i] = file.rows[i]
  BY <1>1, <1>2, SubSeqProperties
<1> HIDE DEF piece
<1>4. DOMAIN piece = 1..n
  BY <1>3
<1>5. \A r : r \in ToSet(piece) <=> \E i \in 1..n : file.rows[i] = r
  BY <1>3, <1>4 DEF ToSet
<1> QED
  BY <1>3, <1>5 DEF Bounded, piece

\* What a segment is added to has it, and what it had.
LEMMA AddedFacts ==
    ASSUME NEW segs, NEW name, NEW file
    PROVE  /\ DOMAIN FileAdded(segs, name, file) = DOMAIN segs \cup {name} /\ FileAdded(segs, name, file)[name] = file
           /\ \A n \in DOMAIN segs : n # name => FileAdded(segs, name, file)[n] = segs[n]
BY DEF FileAdded

\* What is measured of a segment is added to what was measured.
LEMMA CaptureAdded ==
    ASSUME NEW ends \in Captures, NEW name \in LogNames, NEW file \in [size : Nat, lines : Nat]
    PROVE  FileAdded(ends, name, file) \in Captures
<1>1. DOMAIN ends \subseteq LogNames /\ \A n \in DOMAIN ends : ends[n] \in [size : Nat, lines : Nat]
  BY CaptureFields
<1>2. DOMAIN ends \cup {name} \in SUBSET LogNames
  BY <1>1
<1>3. FileAdded(ends, name, file) \in [DOMAIN ends \cup {name} -> [size : Nat, lines : Nat]]
  BY <1>1 DEF FileAdded
<1> QED
  BY <1>2, <1>3 DEF Captures

\* What is read of a segment is added to what was read.
LEMMA ReadingAdded ==
    ASSUME NEW read \in Readings, NEW name \in LogNames, NEW file \in Seq(LogRows)
    PROVE  FileAdded(read, name, file) \in Readings
<1>1. DOMAIN read \subseteq LogNames /\ \A n \in DOMAIN read : read[n] \in Seq(LogRows)
  BY DEF Readings
<1>2. DOMAIN read \cup {name} \in SUBSET LogNames
  BY <1>1
<1>3. FileAdded(read, name, file) \in [DOMAIN read \cup {name} -> Seq(LogRows)]
  BY <1>1 DEF FileAdded
<1> QED
  BY <1>2, <1>3 DEF Readings

\* The rows that are whole.
LEMMA WholeFacts ==
    ASSUME PackageTypes
    PROVE  /\ \A r : r \in WholeRows <=> \E name \in DOMAIN telemetryFiles : \E i \in 1..Len(telemetryFiles[name].rows) :
                                            telemetryFiles[name].rows[i] = r
           /\ WholeRows \in SUBSET LogRows
<1>1. \A name \in DOMAIN telemetryFiles : telemetryFiles[name] \in LogFiles
  BY DEF PackageTypes
<1>2. \A name \in DOMAIN telemetryFiles : DOMAIN telemetryFiles[name].rows = 1..Len(telemetryFiles[name].rows)
  BY <1>1, FileFields
<1>3. \A r : r \in WholeRows <=> \E name \in DOMAIN telemetryFiles : \E i \in 1..Len(telemetryFiles[name].rows) :
                                            telemetryFiles[name].rows[i] = r
  BY <1>2 DEF WholeRows, ToSet
<1>4. \A r \in WholeRows : r \in LogRows
  BY <1>1, <1>3, FileFields
<1> QED
  BY <1>3, <1>4

\* What is measured of a segment.
LEMMA MeasuredTyped ==
    ASSUME NEW file \in LogFiles
    PROVE  Measured(file) \in [size : Nat, lines : Nat] /\ Measured(file).lines = Len(file.rows)
<1>1. Len(file.rows) \in Nat
  BY FileFields
<1>2. SegmentSize(file) \in Nat
  <2>1. 2 * Len(file.rows) \in Nat /\ 2 * Len(file.rows) + 0 \in Nat /\ 2 * Len(file.rows) + 1 \in Nat
    BY <1>1
  <2> QED
    BY <2>1 DEF SegmentSize
<1> QED
  BY <1>1, <1>2 DEF Measured

\* A run that fails while it reads.
LEMMA ReadFails ==
    ASSUME PackageInv, NEW c \in Packagers, PackagerReads, FailsWith(c, "telemetry"),
           packager[c].at \in {"capture", "verify", "read", "check"}
    PROVE  PackageInv'
<1>1. PackageTypes /\ StageMeans(packager[c], c)
  BY RunFacts
<1>2. PICK k \in PackagerStates : packager' = [packager EXCEPT ![c] = k] /\ k.at = "clean" /\ k.join.had = {}
  BY <1>1, FailsAre
<1>3. HadCounted(k) /\ JoinMeans(k) /\ StageMeans(k, c)
  BY <1>1, <1>2, JoinsNot DEF HadCounted, StageMeans
<1> QED
  BY <1>2, <1>3, ReadsKeep

\* The traces are staged, and the segments discovered.
LEMMA DiscoverKeeps ==
    ASSUME PackageInv, NEW c \in Packagers, StageTraces(c) \/ Discover(c)
    PROVE  PackageInv'
<1>0. PackageTypes /\ packager[c] \in PackagerStates /\ HadCounted(packager[c]) /\ StageMeans(packager[c], c) /\ packagePast \in PastTypes
  BY RunFacts
<1>1. CASE StageTraces(c)
  <2>1. PackagerReads /\ packager[c].at = "traces" /\ PackagerAt(c, IF packager[c].wanted = {} THEN "gate" ELSE "discover")
    BY <1>1 DEF StageTraces
  <2>2. \E k \in PackagerStates : /\ packager' = [packager EXCEPT ![c] = k] /\ k.join = packager[c].join
                                  /\ (k.at = "gate" /\ k.wanted = {}) \/ k.at = "discover"
    <3>1. CASE packager[c].wanted = {}
      BY <1>0, <2>1, <3>1, AtFacts DEF PackagerSteps
    <3>2. CASE packager[c].wanted # {}
      BY <1>0, <2>1, <3>2, AtFacts DEF PackagerSteps
    <3> QED
      BY <3>1, <3>2
  <2>3. PICK k \in PackagerStates : /\ packager' = [packager EXCEPT ![c] = k] /\ k.join = packager[c].join
                                    /\ (k.at = "gate" /\ k.wanted = {}) \/ k.at = "discover"
    BY <2>2
  <2>4. HadCounted(k) /\ JoinMeans(k) /\ StageMeans(k, c)
    BY <1>0, <2>1, <2>3, JoinsNot DEF HadCounted, StageMeans
  <2> QED
    BY <2>1, <2>3, <2>4, ReadsKeep
<1>2. CASE Discover(c)
  <2>1. PackagerReads /\ packager[c].at = "discover"
    BY <1>2 DEF Discover
  <2>2. PICK join : join = [packager[c].join EXCEPT !.had = WholeRows]
    OBVIOUS
  <2>3. PICK k : k = [packager[c] EXCEPT !.at = "capture", !.todo = DOMAIN telemetryFiles, !.ends = <<>>, !.join = join]
    OBVIOUS
  <2>4. packager' = [packager EXCEPT ![c] = k]
    <3>1. packager[c].join \in [had : SUBSET LogRows, bound : SUBSET LogRows, rows : SUBSET LogRows]
      BY <1>0 DEF PackagerStates
    <3>2. packager' = [packager EXCEPT ![c].at = "capture", ![c].todo = DOMAIN telemetryFiles,
                                       ![c].ends = <<>>, ![c].join.had = WholeRows]
      BY <1>2 DEF Discover
    <3>3. packager \in [Packagers -> PackagerStates]
      BY <1>0 DEF PackageTypes
    <3> QED
      BY <1>0, <2>2, <2>3, <3>1, <3>2, <3>3 DEF PackagerStates
  <2>5. WholeRows \in SUBSET LogRows /\ DOMAIN telemetryFiles \in SUBSET LogNames /\ DOMAIN telemetryFiles # {}
    BY <1>0, WholeFacts DEF PackageTypes
  <2>6. join \in [had : SUBSET LogRows, bound : SUBSET LogRows, rows : SUBSET LogRows] /\ join.had = WholeRows
    <3>1. packager[c].join \in [had : SUBSET LogRows, bound : SUBSET LogRows, rows : SUBSET LogRows]
      BY <1>0 DEF PackagerStates
    <3> QED
      BY <2>2, <2>5, <3>1
  <2>7. k \in PackagerStates /\ k.at = "capture" /\ k.join = join /\ k.todo = DOMAIN telemetryFiles /\ k.ends = <<>>
    BY <1>0, <2>3, <2>5, <2>6, IdleTyped DEF PackagerStates, PackagerSteps
  <2>8. HadCounted(k)
    BY <1>0, <2>6, <2>7, WholeFacts DEF HadCounted, PackageInv, RowsCounted
  <2>9. JoinMeans(k)
    <3>1. DOMAIN k.ends = {}
      BY <2>7
    <3>2. EndsHold(k)
      BY <3>1 DEF EndsHold
    <3>3. \A name \in DOMAIN k.ends \cup k.todo : name <= LastTelemetry
      BY <1>0, <2>7, <3>1, LastSegmentFacts
    <3> QED
      BY <2>5, <2>7, <3>2, <3>3 DEF JoinMeans
  <2>10. StageMeans(k, c)
    BY <1>0, <2>1, <2>7 DEF StageMeans
  <2> QED
    BY <2>1, <2>4, <2>7, <2>8, <2>9, <2>10, ReadsKeep
<1> QED
  BY <1>1, <1>2

\* A segment is measured.
LEMMA CaptureKeeps == ASSUME PackageInv, NEW c \in Packagers, CaptureSegment(c) PROVE PackageInv'
<1>0. /\ PackageTypes /\ packager[c] \in PackagerStates /\ HadCounted(packager[c]) /\ StageMeans(packager[c], c)
      /\ JoinMeans(packager[c]) /\ PackagerReads /\ packager[c].at = "capture"
  BY RunFacts DEF CaptureSegment
<1>1. PICK todo : todo = packager[c].todo
  OBVIOUS
<1>2. PICK ends : ends = packager[c].ends
  OBVIOUS
<1>3. todo # {} /\ todo \in SUBSET LogNames /\ ends \in Captures
  BY <1>0, <1>1, <1>2, PackagerFields DEF JoinMeans
<1>4. PICK name : name = Min(todo)
  OBVIOUS
<1>5. name \in todo /\ name \in LogNames
  <2>1. todo \subseteq Nat
    BY <1>3 DEF LogNames
  <2> QED
    BY <1>3, <1>4, <2>1, MinFacts
<1>6. CASE name \notin DOMAIN telemetryFiles
  <2>1. FailsWith(c, "telemetry")
    BY <1>1, <1>4, <1>6 DEF CaptureSegment
  <2> QED
    BY <1>0, <2>1, ReadFails
<1>7. CASE name \in DOMAIN telemetryFiles
  <2>1. PICK file : file = telemetryFiles[name]
    OBVIOUS
  <2>2. PICK new : new = FileAdded(ends, name, Measured(file))
    OBVIOUS
  <2>3. PICK at : at = IF todo = {name} THEN "verify" ELSE "capture"
    OBVIOUS
  <2>4. PICK k : k = [packager[c] EXCEPT !.todo = todo \ {name}, !.ends = new, !.at = at]
    OBVIOUS
  <2>5. packager' = [packager EXCEPT ![c] = k]
    <3>1. packager' = [packager EXCEPT
              ![c].todo = @ \ {name}, ![c].ends = FileAdded(@, name, Measured(telemetryFiles[name])),
              ![c].at = IF packager[c].todo = {name} THEN "verify" ELSE @]
      BY <1>1, <1>4, <1>7 DEF CaptureSegment
    <3>2. packager \in [Packagers -> PackagerStates]
      BY <1>0 DEF PackageTypes
    <3> QED
      BY <1>0, <1>1, <1>2, <2>1, <2>2, <2>3, <2>4, <3>1, <3>2 DEF PackagerStates
  <2>6. file \in LogFiles
    BY <1>0, <1>7, <2>1 DEF PackageTypes
  <2>7. new \in Captures
    BY <1>3, <1>5, <2>2, <2>6, CaptureAdded, MeasuredTyped
  <2>8. at \in PackagerSteps
    BY <2>3 DEF PackagerSteps
  <2>9. /\ k \in PackagerStates /\ k.at = at /\ k.join = packager[c].join /\ k.todo = todo \ {name} /\ k.ends = new
        /\ k.wanted = packager[c].wanted
    BY <1>0, <1>3, <2>4, <2>7, <2>8 DEF PackagerStates
  <2>10. HadCounted(k) /\ StageMeans(k, c)
    BY <1>0, <2>3, <2>9 DEF HadCounted, StageMeans
  <2>11. DOMAIN new = DOMAIN ends \cup {name} /\ new[name] = Measured(file) /\ \A n \in DOMAIN ends : n # name => new[n] = ends[n]
    <3>1. /\ DOMAIN FileAdded(ends, name, Measured(file)) = DOMAIN ends \cup {name}
          /\ FileAdded(ends, name, Measured(file))[name] = Measured(file)
          /\ \A n \in DOMAIN ends : n # name => FileAdded(ends, name, Measured(file))[n] = ends[n]
      BY DEF FileAdded
    <3> QED
      BY <2>2, <3>1
  <2>12. EndsHold(packager[c]) /\ \A n \in DOMAIN ends \cup todo : n <= LastTelemetry
    BY <1>0, <1>1, <1>2 DEF JoinMeans
  <2>13. EndsHold(k)
    <3> SUFFICES ASSUME NEW n \in DOMAIN new \cap DOMAIN telemetryFiles
                 PROVE  LET rows == telemetryFiles[n].rows
                        IN  /\ new[n].lines <= Len(rows)
                            /\ \A i \in 1..Len(rows) : rows[i] \in k.join.had => \E j \in 1..new[n].lines : rows[j] = rows[i]
      BY <2>9 DEF EndsHold
    <3>1. CASE n = name
      <4>1. new[n].lines = Len(telemetryFiles[n].rows) /\ Len(telemetryFiles[n].rows) \in Nat
        BY <2>1, <2>6, <2>11, <3>1, MeasuredTyped, FileFields
      <4> QED
        BY <4>1
    <3>2. CASE n # name
      BY <1>2, <2>9, <2>11, <2>12, <3>2 DEF EndsHold
    <3> QED
      BY <3>1, <3>2
  <2>14. \A n \in DOMAIN k.ends \cup k.todo : n <= LastTelemetry
    BY <1>5, <2>9, <2>11, <2>12
  <2>15. at = "capture" => todo \ {name} # {}
    BY <1>5, <2>3
  <2>16. JoinMeans(k)
    BY <2>3, <2>9, <2>13, <2>14, <2>15 DEF JoinMeans
  <2> QED
    BY <1>0, <2>5, <2>9, <2>10, <2>16, ReadsKeep
<1> QED
  BY <1>6, <1>7

\* The segments are verified.
LEMMA CapturedKeeps == ASSUME PackageInv, NEW c \in Packagers, VerifyCapture(c) PROVE PackageInv'
<1>0. /\ PackageTypes /\ packager[c] \in PackagerStates /\ HadCounted(packager[c]) /\ StageMeans(packager[c], c)
      /\ JoinMeans(packager[c]) /\ PackagerReads /\ packager[c].at = "verify"
  BY RunFacts DEF VerifyCapture
<1>1. CASE SameSegments(packager[c].ends)
  <2>1. PICK ends : ends = packager[c].ends
    OBVIOUS
  <2>2. PICK join : join = [packager[c].join EXCEPT !.bound = WholeRows]
    OBVIOUS
  <2>3. PICK k : k = [packager[c] EXCEPT !.at = "read", !.todo = DOMAIN ends, !.read = <<>>, !.join = join]
    OBVIOUS
  <2>4. packager' = [packager EXCEPT ![c] = k]
    <3>1. packager[c].join \in [had : SUBSET LogRows, bound : SUBSET LogRows, rows : SUBSET LogRows]
      BY <1>0 DEF PackagerStates
    <3>2. packager' = [packager EXCEPT ![c].at = "read", ![c].todo = DOMAIN packager[c].ends,
                                       ![c].read = <<>>, ![c].join.bound = WholeRows]
      BY <1>1 DEF VerifyCapture
    <3>3. packager \in [Packagers -> PackagerStates]
      BY <1>0 DEF PackageTypes
    <3> QED
      BY <1>0, <2>1, <2>2, <2>3, <3>1, <3>2, <3>3 DEF PackagerStates
  <2>5. ends \in Captures /\ DOMAIN ends \in SUBSET LogNames /\ DOMAIN ends = DOMAIN telemetryFiles /\ DOMAIN ends # {}
        /\ \A name \in DOMAIN ends : ends[name].lines \in Nat
    BY <1>0, <1>1, <2>1, PackagerFields, CaptureFields DEF SameSegments, PackageTypes
  <2>6. join \in [had : SUBSET LogRows, bound : SUBSET LogRows, rows : SUBSET LogRows] /\ join.had = packager[c].join.had
        /\ join.bound = WholeRows
    <3>1. packager[c].join \in [had : SUBSET LogRows, bound : SUBSET LogRows, rows : SUBSET LogRows]
      BY <1>0 DEF PackagerStates
    <3> QED
      BY <1>0, <2>2, <3>1, WholeFacts
  <2>7. k \in PackagerStates /\ k.at = "read" /\ k.join = join /\ k.todo = DOMAIN ends /\ k.ends = ends /\ k.read = <<>>
    BY <1>0, <2>1, <2>3, <2>5, <2>6, IdleTyped DEF PackagerStates, PackagerSteps
  <2>8. HadCounted(k) /\ StageMeans(k, c)
    BY <1>0, <2>6, <2>7 DEF HadCounted, StageMeans
  <2>9. EndsHold(packager[c]) /\ \A n \in DOMAIN ends : n <= LastTelemetry
    BY <1>0, <2>1 DEF JoinMeans
  <2>10. EndsHold(k) /\ \A n \in DOMAIN k.ends \cup k.todo : n <= LastTelemetry
    BY <2>1, <2>6, <2>7, <2>9 DEF EndsHold
  <2>11. BoundHolds(k)
    <3>1. ASSUME NEW name \in DOMAIN ends, NEW i \in 1..ends[name].lines PROVE telemetryFiles[name].rows[i] \in WholeRows
      <4>1. ends[name].lines <= Len(telemetryFiles[name].rows) /\ telemetryFiles[name] \in LogFiles
        BY <1>0, <2>1, <2>5, <2>9 DEF EndsHold, PackageTypes
      <4>2. i \in 1..Len(telemetryFiles[name].rows)
        BY <2>5, <4>1, FileFields
      <4> QED
        BY <1>0, <2>5, <4>2, WholeFacts
    <3>2. \A r \in WholeRows : \E name \in DOMAIN ends : \E i \in 1..Len(telemetryFiles[name].rows) : telemetryFiles[name].rows[i] = r
      BY <1>0, <2>5, WholeFacts
    <3>3. DOMAIN k.read = {}
      BY <2>7
    <3> QED
      BY <2>6, <2>7, <3>1, <3>2, <3>3 DEF BoundHolds
  <2>12. JoinMeans(k)
    BY <2>5, <2>7, <2>10, <2>11 DEF JoinMeans
  <2> QED
    BY <1>0, <2>4, <2>7, <2>8, <2>12, ReadsKeep
<1>2. CASE ~SameSegments(packager[c].ends) /\ packager[c].attempt = 1
  <2>1. PICK k : k = [packager[c] EXCEPT !.at = "discover", !.attempt = 2]
    OBVIOUS
  <2>2. packager' = [packager EXCEPT ![c] = k]
    BY <1>2, <2>1 DEF VerifyCapture
  <2>3. k \in PackagerStates /\ k.at = "discover" /\ k.join = packager[c].join
    <3>1. 2 \in 1..2
      OBVIOUS
    <3> QED
      BY <1>0, <2>1, <3>1 DEF PackagerStates, PackagerSteps
  <2>4. HadCounted(k) /\ JoinMeans(k) /\ StageMeans(k, c)
    BY <1>0, <2>3, JoinsNot DEF HadCounted, StageMeans
  <2> QED
    BY <1>0, <2>2, <2>3, <2>4, ReadsKeep
<1>3. CASE ~SameSegments(packager[c].ends) /\ packager[c].attempt # 1
  <2>1. FailsWith(c, "telemetry")
    BY <1>3 DEF VerifyCapture
  <2> QED
    BY <1>0, <2>1, ReadFails
<1> QED
  BY <1>1, <1>2, <1>3

\* A segment is read up to where it was measured.
LEMMA ReadKeeps == ASSUME PackageInv, NEW c \in Packagers, ReadCaptured(c) PROVE PackageInv'
<1>0. /\ PackageTypes /\ packager[c] \in PackagerStates /\ HadCounted(packager[c]) /\ StageMeans(packager[c], c)
      /\ JoinMeans(packager[c]) /\ PackagerReads /\ packager[c].at = "read"
  BY RunFacts DEF ReadCaptured
<1>1. PICK todo : todo = packager[c].todo
  OBVIOUS
<1>2. PICK ends : ends = packager[c].ends
  OBVIOUS
<1>3. PICK read : read = packager[c].read
  OBVIOUS
<1>4. /\ todo # {} /\ todo \in SUBSET LogNames /\ ends \in Captures /\ read \in Readings
      /\ EndsHold(packager[c]) /\ BoundHolds(packager[c]) /\ \A n \in DOMAIN ends \cup todo : n <= LastTelemetry
      /\ DOMAIN read \cup todo = DOMAIN ends
  BY <1>0, <1>1, <1>2, <1>3, PackagerFields DEF JoinMeans, BoundHolds
<1>5. PICK name : name = Min(todo)
  OBVIOUS
<1>6. name \in todo /\ name \in LogNames /\ name \in DOMAIN ends
  <2>1. todo \subseteq Nat
    BY <1>4 DEF LogNames
  <2> QED
    BY <1>4, <1>5, <2>1, MinFacts
<1>7. CASE name \notin DOMAIN telemetryFiles \/ SegmentSize(telemetryFiles[name]) < ends[name].size
  <2>1. FailsWith(c, "telemetry")
    BY <1>1, <1>2, <1>5, <1>7 DEF ReadCaptured
  <2> QED
    BY <1>0, <2>1, ReadFails
<1>8. CASE ~(name \notin DOMAIN telemetryFiles \/ SegmentSize(telemetryFiles[name]) < ends[name].size)
  <2>0. name \in DOMAIN telemetryFiles
    BY <1>8
  <2>1. PICK piece : piece = Bounded(telemetryFiles[name], ends[name])
    OBVIOUS
  <2>2. PICK new : new = FileAdded(read, name, piece)
    OBVIOUS
  <2>3. PICK at : at = IF todo = {name} THEN "check" ELSE "read"
    OBVIOUS
  <2>4. PICK k : k = [packager[c] EXCEPT !.todo = todo \ {name}, !.read = new, !.at = at]
    OBVIOUS
  <2>5. packager' = [packager EXCEPT ![c] = k]
    <3>1. packager' = [packager EXCEPT
                  ![c].todo = @ \ {name}, ![c].read = FileAdded(@, name, Bounded(telemetryFiles[name], ends[name])),
                  ![c].at = IF packager[c].todo = {name} THEN "check" ELSE @]
      BY <1>1, <1>2, <1>5, <1>8 DEF ReadCaptured
    <3>2. packager \in [Packagers -> PackagerStates]
      BY <1>0 DEF PackageTypes
    <3> QED
      BY <1>0, <1>1, <1>2, <1>3, <2>1, <2>2, <2>3, <2>4, <3>1, <3>2 DEF PackagerStates
  <2>6. /\ telemetryFiles[name] \in LogFiles /\ ends[name].lines \in Nat
        /\ ends[name].lines <= Len(telemetryFiles[name].rows)
        /\ \A i \in 1..ends[name].lines : telemetryFiles[name].rows[i] \in packager[c].join.bound
    BY <1>0, <1>2, <1>4, <1>6, <2>0, CaptureFields DEF PackageTypes, EndsHold, BoundHolds
  <2>7. piece \in Seq(LogRows) /\ \A r : r \in ToSet(piece) <=> \E i \in 1..ends[name].lines : telemetryFiles[name].rows[i] = r
    BY <2>1, <2>6, BoundedFacts
  <2>8. new \in Readings
    BY <1>4, <1>6, <2>2, <2>7, ReadingAdded
  <2>9. at \in PackagerSteps
    BY <2>3 DEF PackagerSteps
  <2>10. /\ k \in PackagerStates /\ k.at = at /\ k.join = packager[c].join /\ k.todo = todo \ {name} /\ k.ends = ends
         /\ k.wanted = packager[c].wanted /\ k.read = new
    BY <1>0, <1>2, <1>4, <2>4, <2>8, <2>9 DEF PackagerStates
  <2>11. HadCounted(k) /\ StageMeans(k, c)
    BY <1>0, <2>3, <2>10 DEF HadCounted, StageMeans
  <2>12. DOMAIN new = DOMAIN read \cup {name} /\ new[name] = piece /\ \A n \in DOMAIN read : n # name => new[n] = read[n]
    BY <2>2 DEF FileAdded
  <2>13. EndsHold(k) /\ \A n \in DOMAIN k.ends \cup k.todo : n <= LastTelemetry
    BY <1>2, <1>4, <2>10 DEF EndsHold
  <2>14. BoundHolds(k)
    <3>1. \A n \in DOMAIN new : ToSet(new[n]) \subseteq packager[c].join.bound
      <4> SUFFICES ASSUME NEW n \in DOMAIN new PROVE ToSet(new[n]) \subseteq packager[c].join.bound
        OBVIOUS
      <4>1. CASE n = name
        BY <2>6, <2>7, <2>12, <4>1
      <4>2. CASE n # name
        BY <1>3, <1>4, <2>12, <4>2 DEF BoundHolds
      <4> QED
        BY <4>1, <4>2
    <3>2. DOMAIN new \cup k.todo = DOMAIN ends
      BY <1>4, <1>6, <2>10, <2>12
    <3> QED
      BY <1>2, <1>4, <2>10, <3>1, <3>2 DEF BoundHolds
  <2>15. (at = "read" => todo \ {name} # {}) /\ (at = "check" => todo \ {name} = {}) /\ at \in {"read", "check"}
    BY <1>6, <2>3
  <2>16. JoinMeans(k)
    BY <2>10, <2>13, <2>14, <2>15 DEF JoinMeans
  <2> QED
    BY <1>0, <2>5, <2>10, <2>11, <2>16, ReadsKeep
<1> QED
  BY <1>7, <1>8

\* The segments are read once more, and the rows of the selected traces are kept.
LEMMA StageKeeps == ASSUME PackageInv, NEW c \in Packagers, StageTelemetry(c) PROVE PackageInv'
<1>0. /\ PackageTypes /\ packager[c] \in PackagerStates /\ HadCounted(packager[c]) /\ StageMeans(packager[c], c)
      /\ JoinMeans(packager[c]) /\ PackagerReads /\ packager[c].at = "check"
  BY RunFacts DEF StageTelemetry
<1>1. CASE ~ReadsAgain(c)
  <2>1. FailsWith(c, "telemetry")
    BY <1>1 DEF StageTelemetry
  <2> QED
    BY <1>0, <2>1, ReadFails
<1>2. CASE ReadsAgain(c)
  <2>1. PICK ends : ends = packager[c].ends
    OBVIOUS
  <2>2. PICK read : read = packager[c].read
    OBVIOUS
  <2>3. PICK rows : rows = Joined(c)
    OBVIOUS
  <2>4. PICK old : old = packager[c].join
    OBVIOUS
  <2>5. PICK join : join = [old EXCEPT !.rows = rows]
    OBVIOUS
  <2>6. PICK want : want = packager[c].wanted
    OBVIOUS
  <2>7. PICK k : k = [packager[c] EXCEPT !.at = "gate", !.join = join, !.ends = <<>>, !.read = <<>>]
    OBVIOUS
  <2>8. old \in [had : SUBSET LogRows, bound : SUBSET LogRows, rows : SUBSET LogRows] /\ want \in SUBSET LogRows
    BY <1>0, <2>4, <2>6 DEF PackagerStates
  <2>9. packager' = [packager EXCEPT ![c] = k]
    <3>1. packager' = [packager EXCEPT ![c].at = "gate", ![c].join.rows = rows, ![c].ends = <<>>, ![c].read = <<>>]
      BY <1>2, <2>3 DEF StageTelemetry
    <3>2. packager \in [Packagers -> PackagerStates]
      BY <1>0 DEF PackageTypes
    <3> QED
      BY <1>0, <2>4, <2>5, <2>7, <2>8, <3>1, <3>2 DEF PackagerStates
  <2>10. /\ EndsHold(packager[c]) /\ BoundHolds(packager[c]) /\ DOMAIN ends = DOMAIN telemetryFiles /\ DOMAIN read = DOMAIN ends
         /\ \A n \in DOMAIN ends : read[n] = Bounded(telemetryFiles[n], ends[n])
         /\ ends \in Captures /\ \A n \in DOMAIN ends : ends[n].lines \in Nat
    BY <1>0, <1>2, <2>1, <2>2, PackagerFields, CaptureFields DEF JoinMeans, BoundHolds, ReadsAgain, SameSegments
  <2>11. \A r : r \in rows <=> r \in want /\ \E n \in DOMAIN read : r \in ToSet(read[n])
    <3>1. rows = want \cap UNION {ToSet(read[n]) : n \in DOMAIN read}
      BY <2>2, <2>3, <2>6 DEF Joined
    <3> QED
      BY <3>1
  <2>12. rows \subseteq old.bound \cap want
    BY <2>2, <2>4, <2>10, <2>11 DEF BoundHolds
  <2>13. old.had \cap old.bound \cap want \subseteq rows
    <3> SUFFICES ASSUME NEW r \in old.had \cap old.bound \cap want PROVE r \in rows
      OBVIOUS
    <3>1. PICK n \in DOMAIN ends : \E i \in 1..Len(telemetryFiles[n].rows) : telemetryFiles[n].rows[i] = r
      BY <2>1, <2>4, <2>10 DEF BoundHolds
    <3>2. PICK i \in 1..Len(telemetryFiles[n].rows) : telemetryFiles[n].rows[i] = r
      BY <3>1
    <3>3. PICK j \in 1..ends[n].lines : telemetryFiles[n].rows[j] = r
      BY <2>1, <2>4, <2>10, <3>2 DEF EndsHold
    <3>4. telemetryFiles[n] \in LogFiles /\ ends[n].lines <= Len(telemetryFiles[n].rows) /\ ends[n].lines \in Nat
      BY <1>0, <2>1, <2>10 DEF PackageTypes, EndsHold
    <3>5. r \in ToSet(Bounded(telemetryFiles[n], ends[n]))
      BY <3>3, <3>4, BoundedFacts
    <3> QED
      BY <2>10, <2>11, <3>5
  <2>14. join \in [had : SUBSET LogRows, bound : SUBSET LogRows, rows : SUBSET LogRows] /\ join.had = old.had
         /\ join.bound = old.bound /\ join.rows = rows
    <3>1. rows \in SUBSET LogRows
      BY <2>8, <2>12
    <3> QED
      BY <2>5, <2>8, <3>1
  <2>15. k \in PackagerStates /\ k.at = "gate" /\ k.join = join /\ k.wanted = want
    BY <1>0, <2>6, <2>7, <2>14, IdleTyped DEF PackagerStates, PackagerSteps
  <2>16. HadCounted(k) /\ StageMeans(k, c)
    BY <1>0, <2>4, <2>14, <2>15 DEF HadCounted, StageMeans
  <2>17. JoinMeans(k)
    BY <2>12, <2>13, <2>14, <2>15 DEF JoinMeans, JoinHolds
  <2> QED
    BY <1>0, <2>9, <2>15, <2>16, <2>17, ReadsKeep
<1> QED
  BY <1>1, <1>2

-----------------------------------------------------------------------------
\* traces purge --packages, traces cleanup and the user: the log and the runs rest.
LEMMA OthersKeep ==
    ASSUME PackageInv, Others, PackageTypes',
           \A c \in Packagers : StageMeans(packager[c], c)', PurgeMeans', packagePast'.rows = packagePast.rows
    PROVE  PackageInv'
<1>1. LastTelemetry' = LastTelemetry /\ PendingRow' = PendingRow /\ UNCHANGED <<telemetryFiles, packager>>
  BY DEF LastTelemetry, PendingRow, Others
<1>2. RowsCounted'
  BY <1>1 DEF PackageInv, RowsCounted
<1>3. \A c \in Packagers : JoinMeans(packager[c])'
  BY <1>1 DEF PackageInv, JoinMeans, EndsHold, BoundHolds, JoinHolds
<1> QED
  BY <1>2, <1>3 DEF PackageInv

\* An item of quarantine/ is removed.
LEMMA WithoutFacts ==
    ASSUME PackageInv, NEW c \in Packagers, WithoutItem(c), UNCHANGED packager,
           c \in reservations, packager[c].at \in {"move", "sync", "done", "killed"}
    PROVE  /\ reservations' = reservations \ {c} /\ reservations' \subseteq Packagers
           /\ stages' \in [Packagers -> {"none", "beside", "quarantine", "gone"}]
           /\ stages'[c] = IF stages[c] = "quarantine" THEN "gone" ELSE stages[c]
           /\ \A d \in Packagers \ {c} : stages'[d] = stages[d]
           /\ \A d \in Packagers : StageMeans(packager[d], d)'
<1>1. stages \in [Packagers -> {"none", "beside", "quarantine", "gone"}] /\ reservations \subseteq Packagers
  BY DEF PackageInv, PackageTypes
<1>2. /\ reservations' = reservations \ {c} /\ reservations' \subseteq Packagers
      /\ stages' \in [Packagers -> {"none", "beside", "quarantine", "gone"}]
      /\ stages'[c] = IF stages[c] = "quarantine" THEN "gone" ELSE stages[c]
      /\ \A d \in Packagers \ {c} : stages'[d] = stages[d]
  BY <1>1 DEF WithoutItem
<1>3. ASSUME NEW d \in Packagers PROVE StageMeans(packager[d], d)'
  <2>1. StageMeans(packager[d], d)
    BY DEF PackageInv
  <2>2. CASE d # c
    BY <1>2, <2>1, <2>2 DEF StageMeans
  <2>3. CASE d = c
    BY <1>2, <2>1, <2>3 DEF StageMeans
  <2> QED
    BY <2>2, <2>3
<1> QED
  BY <1>2, <1>3

\* What is in quarantine/ is of a run that got to its quarantine.
LEMMA ReservedSteps ==
    ASSUME PackageInv, NEW c \in reservations
    PROVE  c \in Packagers /\ packager[c].at \in {"move", "sync", "done", "killed"}
<1>1. c \in Packagers
  BY DEF PackageInv, PackageTypes
<1>2. packager[c].at \in PackagerSteps /\ StageMeans(packager[c], c)
  BY <1>1, RunFacts, PackagerFields
<1> QED
  BY <1>1, <1>2 DEF StageMeans, PackagerSteps

\* traces cleanup removes one item.
LEMMA CleanupKeeps == ASSUME PackageInv, NEW c \in Packagers, CleanupExportQuarantine(c) PROVE PackageInv'
<1>1. WithoutItem(c) /\ UNCHANGED <<telemetryFiles, packager, exports, exportPurge>> /\ c \in reservations
      /\ packagePast' = [packagePast EXCEPT !.cleanups = @ + 1]
  BY DEF CleanupExportQuarantine, Others
<1>2. packagePast' \in PastTypes /\ packagePast'.rows = packagePast.rows
  BY <1>1, RunFacts DEF PastTypes
<1>3. /\ reservations' = reservations \ {c} /\ reservations' \subseteq Packagers
      /\ stages' \in [Packagers -> {"none", "beside", "quarantine", "gone"}]
      /\ stages'[c] = IF stages[c] = "quarantine" THEN "gone" ELSE stages[c]
      /\ \A d \in Packagers \ {c} : stages'[d] = stages[d]
      /\ \A d \in Packagers : StageMeans(packager[d], d)'
  BY <1>1, ReservedSteps, WithoutFacts
<1>4. PackageTypes'
  BY <1>1, <1>2, <1>3 DEF PackageInv, PackageTypes, PastTypes
<1>5. PurgeMeans'
  <2>1. exportPurge.began \subseteq Packagers
    BY DEF PackageInv, PackageTypes
  <2> QED
    BY <1>1, <1>3, <2>1 DEF PackageInv, PurgeMeans
<1> QED
  BY <1>1, <1>2, <1>3, <1>4, <1>5, OthersKeep DEF Others

\* traces purge --packages begins, and removes the packages of the default names.
LEMMA PurgeBeginKeeps == PackageInv /\ (BeginExportPurge \/ PurgePackages) => PackageInv'
<1> SUFFICES ASSUME PackageInv, BeginExportPurge \/ PurgePackages PROVE PackageInv'
  OBVIOUS
<1>0. /\ exportPurge \in [at : {"idle", "packages", "items"}, packages : SUBSET Destinations, items : SUBSET Packagers,
                          began : SUBSET Packagers]
      /\ exports \in [Destinations -> Packagers \cup {Vacant, Foreign}] /\ packagePast \in PastTypes
      /\ stages \in [Packagers -> {"none", "beside", "quarantine", "gone"}] /\ reservations \subseteq Packagers
  BY DEF PackageInv, PackageTypes, PastTypes
<1>1. CASE BeginExportPurge
  <2>1. PICK packages : packages = {d \in {"second"} : exports[d] # Vacant}
    OBVIOUS
  <2>2. /\ Others /\ UNCHANGED <<stages, reservations, exports>> /\ packagePast' = [packagePast EXCEPT !.purges = @ + 1]
        /\ exportPurge' = [PurgeIdle EXCEPT !.at = "packages", !.packages = packages, !.began = Quarantined]
    BY <1>1, <2>1 DEF BeginExportPurge
  <2>3. packages \subseteq Destinations /\ Quarantined \subseteq Packagers
    BY <1>0, <2>1 DEF Destinations, Quarantined
  <2>4. exportPurge' \in [at : {"idle", "packages", "items"}, packages : SUBSET Destinations, items : SUBSET Packagers,
                          began : SUBSET Packagers] /\ exportPurge'.at = "packages" /\ exportPurge'.began = Quarantined
    BY <2>2, <2>3 DEF PurgeIdle
  <2>5. packagePast' \in PastTypes /\ packagePast'.rows = packagePast.rows
    BY <1>0, <2>2 DEF PastTypes
  <2>6. PackageTypes'
    BY <2>2, <2>4, <2>5 DEF PackageInv, PackageTypes, PastTypes, Others
  <2>7. \A c \in Packagers : StageMeans(packager[c], c)'
    BY <2>2 DEF PackageInv, StageMeans, Others
  <2>8. PurgeMeans'
    BY <2>2, <2>4 DEF PurgeMeans, Quarantined
  <2> QED
    BY <2>2, <2>5, <2>6, <2>7, <2>8, OthersKeep
<1>2. CASE PurgePackages
  <2>1. /\ Others /\ UNCHANGED <<stages, reservations, packagePast>> /\ exportPurge.at = "packages"
        /\ exports' = [d \in Destinations |-> IF d \in exportPurge.packages THEN Vacant ELSE exports[d]]
        /\ exportPurge' = [exportPurge EXCEPT !.at = "items", !.items = reservations]
    BY <1>2 DEF PurgePackages
  <2>2. exports' \in [Destinations -> Packagers \cup {Vacant, Foreign}]
    BY <1>0, <2>1
  <2>3. exportPurge' \in [at : {"idle", "packages", "items"}, packages : SUBSET Destinations, items : SUBSET Packagers,
                          began : SUBSET Packagers] /\ exportPurge'.at = "items" /\ exportPurge'.began = exportPurge.began
        /\ exportPurge'.items = reservations
    BY <1>0, <2>1
  <2>4. PackageTypes'
    BY <2>1, <2>2, <2>3 DEF PackageInv, PackageTypes, Others
  <2>5. \A c \in Packagers : StageMeans(packager[c], c) /\ StageMeans(packager[c], c)'
    BY <2>1 DEF PackageInv, StageMeans, Others
  <2>6. PurgeMeans'
    BY <1>0, <2>1, <2>3, <2>5 DEF PackageInv, PurgeMeans, StageMeans
  <2> QED
    BY <2>1, <2>4, <2>5, <2>6, OthersKeep
<1> QED
  BY <1>1, <1>2

\* It removes what is in quarantine/, one after the other, and ends; the user moves a file.
LEMMA PurgeEndKeeps == PackageInv /\ (PurgeItem \/ EndExportPurge \/ UserMovesFile) => PackageInv'
<1> SUFFICES ASSUME PackageInv, PurgeItem \/ EndExportPurge \/ UserMovesFile PROVE PackageInv'
  OBVIOUS
<1> DEFINE Purges == [at : {"idle", "packages", "items"}, packages : SUBSET Destinations, items : SUBSET Packagers,
                      began : SUBSET Packagers]
<1>0. /\ exportPurge \in Purges
      /\ exports \in [Destinations -> Packagers \cup {Vacant, Foreign}]
      /\ stages \in [Packagers -> {"none", "beside", "quarantine", "gone"}] /\ reservations \subseteq Packagers
  BY DEF PackageInv, PackageTypes
<1>1. PurgeIdle \in Purges /\ PurgeIdle.at = "idle"
  BY DEF PurgeIdle
<1>2. CASE exportPurge' = PurgeIdle /\ Others /\ UNCHANGED <<stages, reservations, exports, packagePast>>
  <2>1. PackageTypes'
    BY <1>1, <1>2 DEF PackageInv, PackageTypes, Others
  <2>2. \A c \in Packagers : StageMeans(packager[c], c)'
    BY <1>2 DEF PackageInv, StageMeans, Others
  <2>3. PurgeMeans'
    BY <1>1, <1>2 DEF PurgeMeans
  <2> QED
    BY <1>2, <2>1, <2>2, <2>3, OthersKeep
<1>3. CASE UserMovesFile
  <2>1. Others /\ UNCHANGED <<stages, reservations, exportPurge, packagePast>>
        /\ exports' \in [Destinations -> Packagers \cup {Vacant, Foreign}]
    BY <1>0, <1>3 DEF UserMovesFile
  <2>2. PackageTypes'
    BY <2>1 DEF PackageInv, PackageTypes, Others
  <2>3. \A c \in Packagers : StageMeans(packager[c], c)'
    BY <2>1 DEF PackageInv, StageMeans, Others
  <2>4. PurgeMeans'
    BY <2>1 DEF PackageInv, PurgeMeans
  <2> QED
    BY <2>1, <2>2, <2>3, <2>4, OthersKeep
<1>4. CASE PurgeItem /\ \E c \in exportPurge.items :
             c \in reservations /\ WithoutItem(c) /\ exportPurge' = [exportPurge EXCEPT !.items = @ \ {c}]
  <2>1. PICK c \in exportPurge.items :
           c \in reservations /\ WithoutItem(c) /\ exportPurge' = [exportPurge EXCEPT !.items = @ \ {c}]
    BY <1>4
  <2>2. Others /\ UNCHANGED <<exports, packagePast>> /\ exportPurge.at = "items"
    BY <1>4 DEF PurgeItem
  <2>3. /\ reservations' = reservations \ {c} /\ reservations' \subseteq Packagers
        /\ stages' \in [Packagers -> {"none", "beside", "quarantine", "gone"}]
        /\ stages'[c] = IF stages[c] = "quarantine" THEN "gone" ELSE stages[c]
        /\ \A d \in Packagers \ {c} : stages'[d] = stages[d]
        /\ \A d \in Packagers : StageMeans(packager[d], d)'
    BY <2>1, <2>2, ReservedSteps, WithoutFacts DEF Others
  <2>4. exportPurge' \in Purges /\ exportPurge'.at = "items" /\ exportPurge'.items = exportPurge.items \ {c}
        /\ exportPurge'.began = exportPurge.began /\ exportPurge.began \subseteq Packagers
    BY <1>0, <2>1, <2>2
  <2>5. PackageTypes'
    BY <2>2, <2>3, <2>4 DEF PackageInv, PackageTypes, Others
  <2>6. PurgeMeans'
    BY <1>0, <2>2, <2>3, <2>4 DEF PackageInv, PurgeMeans
  <2> QED
    BY <2>2, <2>3, <2>5, <2>6, OthersKeep
<1> QED
  BY <1>2, <1>3, <1>4 DEF EndExportPurge, PurgeItem

-----------------------------------------------------------------------------
\* What the log and the runs begin with.
LEMMA PackageStarts == PackageInit => PackageInv
<1> SUFFICES ASSUME PackageInit PROVE PackageInv
  OBVIOUS
<1>0. telemetryFiles = [name \in {1, 2} |-> [rows |-> <<name>>, tail |-> 0]] /\ packagePast.rows = 2
      /\ packager = [c \in Packagers |-> PackagerIdle] /\ exportPurge = PurgeIdle
      /\ stages = [c \in Packagers |-> "none"] /\ reservations = {}
  BY DEF PackageInit, NoRow
<1>1. DOMAIN telemetryFiles = {1, 2} /\ telemetryFiles = [name \in DOMAIN telemetryFiles |-> telemetryFiles[name]]
      /\ \A name \in {1, 2} : telemetryFiles[name].rows = <<name>> /\ telemetryFiles[name].tail = 0
  BY <1>0
<1>2. 1 \in LogNames /\ 2 \in LogNames /\ 1 \in LogRows /\ 2 \in LogRows /\ 0 \in 0..MaxTelemetryRows /\ 2 \in 0..MaxTelemetryRows
  BY PackageBounds DEF LogNames, LogRows
<1>3. \A name \in {1, 2} : telemetryFiles[name] \in LogFiles
  BY <1>0, <1>2 DEF LogFiles
<1>4. packagePast \in PastTypes
  BY <1>2 DEF PackageInit, PastTypes
<1>5. exports \in [Destinations -> Packagers \cup {Vacant, Foreign}]
  BY DEF PackageInit
<1>6. exportPurge \in [at : {"idle", "packages", "items"}, packages : SUBSET Destinations, items : SUBSET Packagers,
                          began : SUBSET Packagers] /\ exportPurge.at = "idle"
  BY <1>0 DEF PurgeIdle
<1>7. packager \in [Packagers -> PackagerStates] /\ stages \in [Packagers -> {"none", "beside", "quarantine", "gone"}]
      /\ reservations \subseteq Packagers
  BY <1>0, IdleTyped
<1>8. PackageTypes
  BY <1>1, <1>2, <1>3, <1>4, <1>5, <1>6, <1>7 DEF PackageTypes, PastTypes
<1>9. PendingRow = 0
  BY <1>1, <1>8, LastSegmentFacts DEF PendingRow
<1>10. RowsCounted
  <2>1. \A name \in {1, 2} : \A i \in 1..Len(telemetryFiles[name].rows) : telemetryFiles[name].rows[i] = name
    BY <1>1
  <2>2. \A c \in Packagers : packager[c].join.had = {}
    BY <1>0, IdleTyped
  <2> QED
    BY <1>0, <1>1, <1>9, <2>1, <2>2 DEF RowsCounted, NoRow
<1>11. \A c \in Packagers : JoinMeans(packager[c]) /\ StageMeans(packager[c], c)
  BY <1>0, IdleTyped, JoinsNot DEF StageMeans
<1>12. PurgeMeans
  BY <1>6 DEF PurgeMeans
<1> QED
  BY <1>8, <1>10, <1>11, <1>12 DEF PackageInv

\* A step of the router, of a run, of a purge or of the user keeps the invariant.
LEMMA PackageKeeps == PackageInv /\ [PackageNext]_packageVars => PackageInv'
<1> SUFFICES ASSUME PackageInv, [PackageNext]_packageVars PROVE PackageInv'
  OBVIOUS
<1>1. CASE StartRow \/ FinishRow \/ LoseRow \/ RotateTelemetry \/ RetireTelemetry
  BY <1>1, StartRowKeeps, FinishRowKeeps, LoseRowKeeps, RotateKeeps, RetireKeeps
<1>2. CASE \E c \in Packagers : PackagerActs(c)
  <2>1. PICK c \in Packagers : PackagerActs(c)
    BY <1>2
  <2>2. CASE ConfirmPackage(c) \/ CreateStage(c)
    BY <2>2, BeginKeeps
  <2>3. CASE StageTraces(c) \/ Discover(c)
    BY <2>3, DiscoverKeeps
  <2>4. CASE CaptureSegment(c) \/ VerifyCapture(c) \/ ReadCaptured(c) \/ StageTelemetry(c)
    BY <2>4, CaptureKeeps, CapturedKeeps, ReadKeeps, StageKeeps
  <2>5. CASE GatePackage(c) \/ PublishPackage(c) \/ RemoveStage(c) \/ Reserve(c) \/ MoveStage(c) \/ SyncQuarantine(c) \/ KillPackager(c)
    BY <2>5, EndKeeps
  <2>6. CASE CleanupExportQuarantine(c)
    BY <2>6, CleanupKeeps
  <2> QED
    BY <2>1, <2>2, <2>3, <2>4, <2>5, <2>6 DEF PackagerActs
<1>3. CASE BeginExportPurge \/ PurgePackages
  BY <1>3, PurgeBeginKeeps
<1>4. CASE PurgeItem \/ EndExportPurge \/ UserMovesFile
  BY <1>4, PurgeEndKeeps
<1>5. CASE UNCHANGED packageVars
  BY <1>5 DEF packageVars, PackageInv, PackageTypes, RowsCounted, JoinMeans, EndsHold, BoundHolds, JoinHolds, StageMeans, PurgeMeans,
              PendingRow, LastTelemetry
<1> QED
  BY <1>1, <1>2, <1>3, <1>4, <1>5 DEF PackageNext

\* What the invariant says to a user.
LEMMA PackageInvMeans == PackageInv => PackageTypeOK /\ JoinSound /\ StagingAccounted
<1> SUFFICES ASSUME PackageInv PROVE PackageTypeOK /\ JoinSound /\ StagingAccounted
  OBVIOUS
<1>1. PackageTypeOK
  <2>1. ASSUME NEW name \in DOMAIN telemetryFiles
        PROVE  ToSet(telemetryFiles[name].rows) \subseteq LogRows /\ telemetryFiles[name].tail \in 0..MaxTelemetryRows
    <3>1. telemetryFiles[name] \in LogFiles
      BY DEF PackageInv, PackageTypes
    <3>2. DOMAIN telemetryFiles[name].rows = 1..Len(telemetryFiles[name].rows)
      BY <3>1, FileFields
    <3> QED
      BY <3>1, <3>2, FileFields DEF ToSet
  <2>2. \A c \in Packagers : packager[c] \in PackagerStates
    BY DEF PackageInv, PackageTypes
  <2>3. /\ exportPurge.at \in {"idle", "packages", "items"} /\ DOMAIN telemetryFiles \subseteq LogNames /\ DOMAIN telemetryFiles # {}
        /\ stages \in [Packagers -> {"none", "beside", "quarantine", "gone"}] /\ reservations \subseteq Packagers
        /\ \A d \in Destinations : exports[d] \in Packagers \cup {Vacant, Foreign}
    BY DEF PackageInv, PackageTypes
  <2> QED
    BY <2>1, <2>2, <2>3, PackagerFields DEF PackageTypeOK, LogNames, LogRows, PackagerSteps
<1>2. JoinSound
  BY DEF PackageInv, JoinMeans, JoinHolds, JoinSound
<1>3. StagingAccounted
  BY DEF PackageInv, StageMeans, StagingAccounted
<1> QED
  BY <1>1, <1>2, <1>3

\* What no step does to a destination, or to what a purge began with.
LEMMA PackageSteps ==
    ASSUME PackageInv, [PackageNext]_packageVars
    PROVE  /\ \A d \in Destinations : exports[d] # Vacant /\ exports'[d] # exports[d] =>
                 exports'[d] = Vacant /\ (d = "second" => exportPurge.at = "packages")
           /\ exportPurge.at = "items" /\ exportPurge.items = {} /\ exportPurge'.at = "idle" =>
                 \A c \in exportPurge.began : stages[c] = "gone"
<1>1. exports \in [Destinations -> Packagers \cup {Vacant, Foreign}]
  BY DEF PackageInv, PackageTypes
<1>2. exportPurge.at = "items" /\ exportPurge.items = {} => \A c \in exportPurge.began : stages[c] = "gone"
  BY DEF PackageInv, PurgeMeans
<1>3. CASE UNCHANGED exports
  BY <1>2, <1>3
<1>4. CASE \E c \in Packagers : PublishPackage(c)
  <2>1. PICK c \in Packagers : PublishPackage(c)
    BY <1>4
  <2>2. packager[c].destination \in Destinations
    BY RunFacts, PackagerFields
  <2>3. UNCHANGED exports \/ (exports[packager[c].destination] = Vacant /\ exports' = [exports EXCEPT ![packager[c].destination] = c])
    BY <2>1 DEF PublishPackage, DestinationFree, Linked
  <2> QED
    BY <1>1, <1>2, <2>2, <2>3
<1>5. CASE PurgePackages
  BY <1>1, <1>2, <1>5 DEF PurgePackages
<1>6. CASE UserMovesFile
  <2>1. exports' = [exports EXCEPT !["custom"] = Vacant] /\ "custom" # "second"
    BY <1>6 DEF UserMovesFile
  <2> QED
    BY <1>1, <1>2, <2>1 DEF Destinations
<1>7. UNCHANGED exports \/ (\E c \in Packagers : PublishPackage(c)) \/ PurgePackages \/ UserMovesFile
  <2>1. ASSUME NEW c \in Packagers, PackagerActs(c), ~PublishPackage(c) PROVE UNCHANGED exports
    <3>1. CASE ConfirmPackage(c) \/ CreateStage(c) \/ StageTraces(c) \/ Discover(c) \/ CaptureSegment(c) \/ VerifyCapture(c)
      BY <3>1 DEF ConfirmPackage, CreateStage, StageTraces, Discover, CaptureSegment, VerifyCapture, PackagerReads
    <3>2. CASE ReadCaptured(c) \/ StageTelemetry(c) \/ GatePackage(c) \/ RemoveStage(c) \/ Reserve(c)
      BY <3>2 DEF ReadCaptured, StageTelemetry, GatePackage, RemoveStage, Reserve, PackagerReads
    <3>3. CASE MoveStage(c) \/ SyncQuarantine(c) \/ KillPackager(c) \/ CleanupExportQuarantine(c)
      BY <3>3 DEF MoveStage, SyncQuarantine, KillPackager, CleanupExportQuarantine
    <3> QED
      BY <2>1, <3>1, <3>2, <3>3 DEF PackagerActs
  <2>2. StartRow \/ FinishRow \/ LoseRow \/ RotateTelemetry \/ RetireTelemetry => UNCHANGED exports
    BY DEF StartRow, FinishRow, LoseRow, RotateTelemetry, RetireTelemetry, TelemetryMoves
  <2>3. BeginExportPurge \/ PurgeItem \/ EndExportPurge \/ UNCHANGED packageVars => UNCHANGED exports
    BY DEF BeginExportPurge, PurgeItem, EndExportPurge, packageVars
  <2> QED
    BY <2>1, <2>2, <2>3 DEF PackageNext
<1> QED
  BY <1>3, <1>4, <1>5, <1>6, <1>7

\* The inductive invariant of the packages: what a run has measured of a log that goes on being
\* written, where its staging is, and what a purge has still to come to.
THEOREM PackageInductive == PackageSpec => []PackageInv
<1>1. PackageInit => PackageInv
  BY PackageStarts
<1>2. PackageInv /\ [PackageNext]_packageVars => PackageInv'
  BY PackageKeeps
<1> QED
  BY <1>1, <1>2, PTL DEF PackageSpec

\* A package has every row of a selected trace that was whole and none that was not, its staging is
\* accounted for, nothing is replaced, and a purge leaves nothing of what it began with.
THEOREM PackageSoundThm ==
    PackageSpec => [](PackageTypeOK /\ JoinSound /\ StagingAccounted) /\ NothingReplaced /\ PurgeThorough
<1>1. PackageInv => PackageTypeOK /\ JoinSound /\ StagingAccounted
  BY PackageInvMeans
<1>2. PackageInv /\ [PackageNext]_packageVars =>
        [\A d \in Destinations : exports[d] # Vacant /\ exports'[d] # exports[d] =>
           /\ exports'[d] = Vacant
           /\ d = "second" => exportPurge.at = "packages"]_packageVars
  BY PackageSteps
<1>3. PackageInv /\ [PackageNext]_packageVars =>
        [exportPurge.at = "items" /\ exportPurge.items = {} /\ exportPurge'.at = "idle" =>
           \A c \in exportPurge.began : stages[c] = "gone"]_packageVars
  BY PackageSteps
<1> QED
  BY <1>1, <1>2, <1>3, PackageInductive, PTL DEF PackageSpec, NothingReplaced, PurgeThorough

-----------------------------------------------------------------------------
(* TraceDecode.                                                              *)

Packages == {"first", "second"}
InodeStates == [holds : {"torn"} \cup Packages, stamp : Nat]
Plans == [identity : Nat \X Nat, hash : {"none", "torn"} \cup Packages, archive : {"none"} \cup Packages]
DecoderSteps == {"idle", "open", "reopen", "hash", "manifest", "workspace", "read", "bodies", "unchanged", "reinspect",
                 "confirm", "publish", "clean", "done", "killed"}
Decoders ==
    [at : DecoderSteps,
     pass : {"inspect", "materialize"}, inode : Nat, identity : Nat \X Nat, hash : {"none", "torn"} \cup Packages,
     archive : {"none"} \cup Packages, plan : Plans, error : BOOLEAN, clean : BOOLEAN]

DecodeTypes ==
    /\ material \in Materials
    /\ archive = NoPackage \/ (archive = PackageOf(material) /\ ~CreateRefuses(material))
    /\ inodes \in Seq(InodeStates) /\ packagePath \in 0..Len(inodes) /\ decodeStage \in BOOLEAN
    /\ outputDir \in {"absent", "user"} \cup Packages
    /\ decoder \in Decoders

\* The file that the decoder has open is there, and what it read of its manifest is a package.
OpenRead ==
    /\ decoder.at \in {"hash", "manifest", "workspace", "read", "bodies", "unchanged"} => decoder.inode \in DOMAIN inodes
    /\ decoder.at \in {"workspace", "read", "bodies", "unchanged", "reinspect", "publish"} => decoder.archive \in Packages

\* What is about to be written, and what is written, is what was confirmed.
ConfirmedWritten ==
    /\ decoder.at = "publish" => decoder.pass = "materialize" /\ decoder.archive = decoder.plan.archive
    /\ outputDir \in Packages =>
         /\ outputDir = decoder.plan.archive
         /\ decoder.at \in {"done", "killed"} \/ (decoder.at = "clean" /\ decoder.pass = "materialize")

\* There is no workspace before one is made, nor after it was removed.
StageKept ==
    /\ decoder.at \in {"idle", "open", "confirm"} => ~decodeStage
    /\ decoder.at = "done" /\ decoder.clean => ~decodeStage

DecodeInv == DecodeTypes /\ OpenRead /\ ConfirmedWritten /\ StageKept

-----------------------------------------------------------------------------
\* What a package is made from.
LEMMA MaterialFacts ==
    ASSUME NEW m \in Materials
    PROVE  /\ \A e \in DOMAIN m.bodies : m.bodies[e] \in Bodies
           /\ \A turn \in m.turns : /\ turn.id \in {"t1", "t2"} /\ turn.client \in {"claude-code", "codex"}
                                    /\ turn.status \in Statuses
<1>1. PICK body \in Bodies : m.bodies = [e1 |-> body, e2 |-> "plain"]
  BY DEF Materials
<1>2. \A e \in DOMAIN m.bodies : m.bodies[e] \in Bodies
  BY <1>1 DEF Bodies
<1>3. \A turn \in m.turns : /\ turn.id \in {"t1", "t2"} /\ turn.client \in {"claude-code", "codex"}
                            /\ turn.status \in Statuses
  BY DEF Materials, Turn, Statuses
<1> QED
  BY <1>2, <1>3

\* What a row says of its turn.
LEMMA RowFacts ==
    ASSUME NEW m \in Materials, NEW row \in NativeRows(m)
    PROVE  /\ row.turn \in {"t1", "t2"} /\ row.client \in {turn.client : turn \in m.turns}
           /\ row.mode \in MatchModes(row.client) /\ ((row.mode = "explicit_session") = (row.events = {}))
<1>1. PICK turn \in Collected(m) : row = NativeRow(turn)
  BY DEF NativeRows
<1>2. turn \in m.turns /\ turn.id \in {"t1", "t2"} /\ turn.client \in {"claude-code", "codex"}
  BY <1>1, MaterialFacts DEF Collected
<1>3. row.turn = turn.id /\ row.client = turn.client /\ row.events = turn.events /\ row.mode = MatchMode(turn)
  BY <1>1 DEF NativeRow
<1> QED
  BY <1>2, <1>3 DEF MatchMode, MatchModes

\* The members of the package that is made.
LEMMA PackageFields ==
    ASSUME NEW m
    PROVE  /\ PackageOf(m).rows = NativeRows(m) /\ PackageOf(m).collectors = Collectors(m)
           /\ PackageOf(m).scanner = Scanner(m) /\ PackageOf(m).telemetry = DOMAIN m.bodies
           /\ PackageOf(m).operatorSelected = OperatorSelected(NativeRows(m))
           /\ DOMAIN PackageOf(m).traces = DOMAIN m.bodies
           /\ \A e \in DOMAIN m.bodies :
                /\ PackageOf(m).traces[e].body = m.bodies[e]
                /\ PackageOf(m).traces[e].link =
                     IF e \in DOMAIN NativeLinks(NativeRows(m)) THEN NativeLinks(NativeRows(m))[e] ELSE "none"
BY DEF PackageOf

\* The links that the decoder reads from the traces are those that the collectors made.
LEMMA SameLinks ==
    ASSUME NEW m \in Materials, ~CreateRefuses(m)
    PROVE  TraceLinks(PackageOf(m)) = NativeLinks(NativeRows(m))
<1> DEFINE rows == NativeRows(m)
           links == NativeLinks(rows)
<1>1. DOMAIN links = LinkedEvents(rows) /\ LinkedEvents(rows) \subseteq DOMAIN m.bodies
  BY DEF NativeLinks, CreateRefuses
<1>2. \A e \in LinkedEvents(rows) : links[e] # "none"
  <2> SUFFICES ASSUME NEW e \in LinkedEvents(rows) PROVE links[e] # "none"
    OBVIOUS
  <2>1. \E row \in rows : e \in row.events
    BY DEF LinkedEvents
  <2>2. (CHOOSE row \in rows : e \in row.events) \in rows
    BY <2>1
  <2>3. links[e] = (CHOOSE row \in rows : e \in row.events).turn
    BY DEF NativeLinks
  <2> QED
    BY <2>2, <2>3, RowFacts
<1>3. DOMAIN TraceLinks(PackageOf(m)) = LinkedEvents(rows)
  BY <1>1, <1>2, PackageFields DEF TraceLinks
<1>4. \A e \in LinkedEvents(rows) : TraceLinks(PackageOf(m))[e] = links[e]
  BY <1>1, <1>2, <1>3, PackageFields DEF TraceLinks
<1>5. links = [e \in LinkedEvents(rows) |-> links[e]]
  BY DEF NativeLinks
<1>6. TraceLinks(PackageOf(m)) = [e \in LinkedEvents(rows) |-> TraceLinks(PackageOf(m))[e]]
  BY <1>3 DEF TraceLinks
<1> QED
  BY <1>4, <1>5, <1>6

\* The manifest of a package that is made is one that the decoder accepts.
LEMMA MadeManifest ==
    ASSUME NEW m \in Materials, ~CreateRefuses(m)
    PROVE  ManifestHolds(PackageOf(m))
<1> DEFINE p == PackageOf(m)
           rows == NativeRows(m)
<1>1. /\ (p.scanner.unscanned > 0) = p.scanner.allowUnscannedUsed
      /\ (p.scanner.detected > 0) = p.scanner.allowDetectedUsed
  <2>1. ~Blocked(Scanner(m))
    BY DEF CreateRefuses
  <2>2. /\ Scanner(m).allowUnscannedUsed = (Scanner(m).unscanned > 0 /\ m.allowUnscanned)
        /\ Scanner(m).allowDetectedUsed = (Scanner(m).detected > 0 /\ m.allowDetected)
    BY DEF Scanner
  <2>3. m.allowUnscanned \in BOOLEAN /\ m.allowDetected \in BOOLEAN
    BY DEF Materials
  <2> QED
    BY <2>1, <2>2, <2>3, PackageFields DEF Blocked
<1>2. ASSUME NEW kind \in DOMAIN p.collectors
      PROVE  LET c == p.collectors[kind]
                 turns == IF c.member THEN Cardinality(RowsOf(p.rows, kind)) ELSE 0
             IN  c.status = CollectionStatus(c.drift, turns)
  <2> DEFINE mine == RowsOf(rows, kind)
  <2>1. kind \in {turn.client : turn \in m.turns}
    BY <1>2, PackageFields DEF Collectors
  <2>2. Collectors(m)[kind] = [member |-> mine # {}, drift |-> Drift(m, kind),
                                 status |-> CollectionStatus(Drift(m, kind), Cardinality(mine))]
    BY <2>1 DEF Collectors
  <2>6. p.collectors = Collectors(m)
    BY PackageFields
  <2>3. mine = {} => Cardinality(mine) = 0
    BY FS_EmptySet
  <2>4. p.rows = rows
    BY PackageFields
  <2> HIDE DEF p, mine
  <2>5. p.collectors[kind].member = (mine # {}) /\ p.collectors[kind].drift = Drift(m, kind)
        /\ p.collectors[kind].status = CollectionStatus(Drift(m, kind), Cardinality(mine))
    BY <2>2, <2>6
  <2> QED
    BY <2>3, <2>4, <2>5 DEF mine
<1>3. ASSUME NEW row \in p.rows
      PROVE  row.client \in DOMAIN p.collectors /\ p.collectors[row.client].member
  <2>1. row \in rows /\ row.client \in {turn.client : turn \in m.turns}
    BY <1>3, PackageFields, RowFacts
  <2>2. row \in RowsOf(rows, row.client)
    BY <2>1 DEF RowsOf
  <2>3. row.client \in DOMAIN Collectors(m) /\ Collectors(m)[row.client].member = (RowsOf(rows, row.client) # {})
    BY <2>1 DEF Collectors
  <2> QED
    BY <2>2, <2>3, PackageFields
<1> QED
  BY <1>1, <1>2, <1>3 DEF ManifestHolds

\* The members of a package that is made agree but where a turn did not complete.
LEMMA MadeMembers ==
    ASSUME NEW m \in Materials, ~CreateRefuses(m)
    PROVE  MembersHold(PackageOf(m)) <=> \A row \in NativeRows(m) : row.status = "completed"
<1>1. TelemetryHolds(PackageOf(m))
  BY PackageFields DEF TelemetryHolds
<1>2. DecodedLinkageHolds(PackageOf(m))
  BY SameLinks, PackageFields DEF DecodedLinkageHolds, CreateRefuses
<1>3. \A row \in NativeRows(m) : RowHolds(row) <=> row.status = "completed"
  BY RowFacts DEF RowHolds
<1> QED
  BY <1>1, <1>2, <1>3, PackageFields DEF MembersHold

\* What the decoder accepts of the packages that are made.
LEMMA MadeDecodes ==
    ASSUME NEW m \in Materials, ~CreateRefuses(m)
    PROVE  Decodable(PackageOf(m)) <=> /\ \A row \in PackageOf(m).rows : row.status = "completed"
                                       /\ \A e \in DOMAIN m.bodies : m.bodies[e] \notin {"members", "br"}
<1>1. BodiesHold(PackageOf(m)) <=> \A e \in DOMAIN m.bodies : m.bodies[e] \notin {"members", "br"}
  <2>1. \A e \in DOMAIN m.bodies : DecodesBody(m.bodies[e]) <=> m.bodies[e] \notin {"members", "br"}
    BY MaterialFacts DEF DecodesBody, Bodies
  <2> QED
    BY <2>1, PackageFields DEF BodiesHold
<1> QED
  BY <1>1, MadeManifest, MadeMembers, PackageFields DEF Decodable

-----------------------------------------------------------------------------
\* The members of the decoder have their values.
LEMMA DecoderFields ==
    ASSUME NEW d \in Decoders
    PROVE  /\ d.at \in DecoderSteps
           /\ d.pass \in {"inspect", "materialize"} /\ d.inode \in Nat /\ d.identity \in Nat \X Nat
           /\ d.hash \in {"none", "torn"} \cup Packages /\ d.archive \in {"none"} \cup Packages
           /\ d.plan \in Plans /\ d.error \in BOOLEAN /\ d.clean \in BOOLEAN
           /\ d.plan.archive \in {"none"} \cup Packages /\ d.plan.identity \in Nat \X Nat
BY DEF Decoders, Plans

\* What a step keeps of the decoder.
Keeps(d, n, at) == n \in Decoders /\ n.at = at /\ n.plan = d.plan /\ n.clean = d.clean

\* The ways in which a step changes the decoder.
LEMMA GoesFacts ==
    ASSUME decoder \in Decoders, NEW at \in DecoderSteps, DecoderGoes(at)
    PROVE  /\ Keeps(decoder, decoder', at) /\ decoder'.inode = decoder.inode /\ decoder'.archive = decoder.archive
           /\ decoder'.pass = decoder.pass
BY DEF Decoders, Keeps, DecoderGoes

\* A failure leads to the cleanup.
LEMMA FailsFacts ==
    ASSUME decoder \in Decoders, DecodeFails
    PROVE  Keeps(decoder, decoder', "clean") /\ decoder'.pass = decoder.pass
BY DEF Decoders, DecoderSteps, Keeps, DecodeFails

\* A decoder that has not begun.
LEMMA DecoderIdleFacts ==
    /\ DecoderIdle \in Decoders /\ DecoderIdle.at = "idle" /\ DecoderIdle.pass = "inspect" /\ DecoderIdle.clean
    /\ ~DecoderIdle.error /\ NoPlan \in Plans /\ DecoderIdle.plan = NoPlan
<1>1. NoInode \in Nat /\ <<NoInode, 0>> \in Nat \X Nat
  BY DEF NoInode
<1>2. NoPlan \in Plans
  BY <1>1 DEF NoPlan, Plans
<1> QED
  BY <1>1, <1>2 DEF DecoderIdle, Decoders, DecoderSteps

\* A package at its path, no decoder yet.
LEMMA DecodeStarts == DecodeInit => DecodeInv
<1> SUFFICES ASSUME DecodeInit PROVE DecodeInv
  OBVIOUS
<1>1. [holds |-> "first", stamp |-> 0] \in InodeStates
  BY DEF InodeStates, Packages
<1>2. inodes \in Seq(InodeStates) /\ Len(inodes) = 1 /\ packagePath \in 0..Len(inodes)
  BY <1>1 DEF DecodeInit
<1>3. DecodeTypes
  BY <1>2, DecoderIdleFacts DEF DecodeInit, DecodeTypes
<1> QED
  BY <1>3, DecoderIdleFacts DEF DecodeInit, DecodeInv, OpenRead, ConfirmedWritten, StageKept, Packages

\* A step of the decoder that goes on, fails or ends, and writes nothing.
LEMMA ReadingKeeps ==
    ASSUME DecodeInv, FilesRest, UNCHANGED outputDir, decodeStage' \in BOOLEAN,
           decoder.at \notin {"publish", "clean", "done", "killed"},
           NEW at \in DecoderSteps, Keeps(decoder, decoder', at),
           at \in {"hash", "manifest", "workspace", "read", "bodies", "unchanged"} => decoder'.inode \in DOMAIN inodes,
           at \in {"workspace", "read", "bodies", "unchanged", "reinspect", "publish"} => decoder'.archive \in Packages,
           at = "publish" => decoder'.pass = "materialize" /\ decoder'.archive = decoder'.plan.archive,
           at \in {"idle", "open", "confirm", "done"} => ~decodeStage'
    PROVE  DecodeInv'
<1>1. DecodeTypes'
  BY DEF DecodeInv, DecodeTypes, FilesRest, Keeps
<1>2. outputDir \notin Packages
  BY DEF DecodeInv, ConfirmedWritten
<1> QED
  BY <1>1, <1>2 DEF DecodeInv, OpenRead, ConfirmedWritten, StageKept, Keeps, FilesRest

\* What an inode holds.
LEMMA InodeFacts ==
    ASSUME DecodeTypes, NEW inode \in DOMAIN inodes
    PROVE  /\ inode \in Nat /\ inodes[inode].holds \in {"torn"} \cup Packages /\ Identity(inode) \in Nat \X Nat
<1>1. inode \in 1..Len(inodes) /\ inodes[inode] \in InodeStates /\ Len(inodes) \in Nat
  BY DEF DecodeTypes
<1> QED
  BY <1>1 DEF InodeStates, Identity

\* The path leads to an inode or to nothing.
LEMMA PathFacts == DecodeTypes /\ packagePath # NoInode => packagePath \in DOMAIN inodes
BY DEF DecodeTypes, NoInode

\* The steps of the decoder up to the workspace.
LEMMA OpeningKeeps ==
    ASSUME DecodeInv, ValidateOutput \/ IdentifyPackage \/ OpenPackage \/ HashPackage \/ ReadManifest
    PROVE  DecodeInv'
<1>0. decoder \in Decoders /\ DecodeTypes
  BY DEF DecodeInv, DecodeTypes
<1>1. CASE ValidateOutput
  <2>1. UNCHANGED <<decodeStage, outputDir>> /\ FilesRest /\ decoder.at = "idle" /\ ~decodeStage
    BY <1>1 DEF ValidateOutput, FilesRead, DecodeInv, StageKept
  <2>2. Keeps(decoder, decoder', "open") \/ Keeps(decoder, decoder', "done")
    BY <1>0, <1>1 DEF ValidateOutput, DecoderSteps, Decoders, Keeps
  <2> QED
    BY <1>0, <2>1, <2>2, ReadingKeeps DEF DecoderSteps, DecodeTypes
<1>2. CASE IdentifyPackage
  <2>1. UNCHANGED outputDir /\ FilesRest /\ decoder.at = "open" /\ ~decodeStage
    BY <1>2 DEF IdentifyPackage, DecodeInv, StageKept
  <2>2. CASE packagePath = NoInode
    <3>0. decoder' = [decoder EXCEPT !.at = "done", !.error = TRUE] /\ UNCHANGED decodeStage
      BY <1>2, <2>2 DEF IdentifyPackage
    <3>1. Keeps(decoder, decoder', "done") /\ UNCHANGED decodeStage
      BY <1>0, <3>0 DEF DecoderSteps, Decoders, Keeps
    <3> QED
      BY <1>0, <2>1, <3>1, ReadingKeeps DEF DecoderSteps, DecodeTypes
  <2>3. CASE packagePath # NoInode
    <3>1. Identity(packagePath) \in Nat \X Nat
      BY <1>0, <2>3, InodeFacts, PathFacts
    <3>0. PICK identity \in Nat \X Nat : decoder' = [decoder EXCEPT !.at = "reopen", !.identity = identity] /\ decodeStage'
      BY <1>2, <2>3, <3>1 DEF IdentifyPackage
    <3>2. Keeps(decoder, decoder', "reopen") /\ decodeStage'
      BY <1>0, <3>0 DEF DecoderSteps, Decoders, Keeps
    <3>3. decodeStage' \in BOOLEAN
      BY <1>2, <2>3 DEF IdentifyPackage
    <3> QED
      BY <1>0, <2>1, <3>2, <3>3, ReadingKeeps DEF DecoderSteps
  <2> QED
    BY <2>2, <2>3
<1>3. CASE OpenPackage
  <2>1. UNCHANGED <<decodeStage, outputDir>> /\ FilesRest /\ decoder.at \in {"reopen", "open"}
    BY <1>3 DEF OpenPackage, FilesRead
  <2>2. \/ DecodeFails
        \/ /\ packagePath # NoInode
           /\ \E expected \in {decoder.identity, decoder.plan.identity} :
                decoder' = [decoder EXCEPT !.at = "hash", !.inode = packagePath, !.identity = expected]
    BY <1>3 DEF OpenPackage
  <2>3. {decoder.identity, decoder.plan.identity} \subseteq Nat \X Nat
    BY <1>0, DecoderFields
  <2>4. CASE DecodeFails
    <3>1. Keeps(decoder, decoder', "clean")
      BY <1>0, <2>4, FailsFacts
    <3> QED
      BY <1>0, <2>1, <3>1, ReadingKeeps DEF DecoderSteps, DecodeTypes
  <2>5. CASE ~DecodeFails
    <3>1. packagePath \in DOMAIN inodes /\ packagePath \in Nat
      BY <1>0, <2>2, <2>5, PathFacts, InodeFacts
    <3>0. PICK expected \in Nat \X Nat :
             decoder' = [decoder EXCEPT !.at = "hash", !.inode = packagePath, !.identity = expected]
      BY <2>2, <2>3, <2>5
    <3>2. Keeps(decoder, decoder', "hash") /\ decoder'.inode = packagePath
      BY <1>0, <3>0, <3>1 DEF DecoderSteps, Decoders, Keeps
    <3> QED
      BY <1>0, <2>1, <3>1, <3>2, ReadingKeeps DEF DecoderSteps, DecodeTypes
  <2> QED
    BY <2>4, <2>5
<1>4. CASE HashPackage
  <2>1. UNCHANGED <<decodeStage, outputDir>> /\ FilesRest /\ decoder.at = "hash" /\ decoder.inode \in DOMAIN inodes
    BY <1>4 DEF HashPackage, FilesRead, DecodeInv, OpenRead
  <2>2. Keeps(decoder, decoder', "manifest") /\ decoder'.inode = decoder.inode
    <3>1. PICK hash \in {"torn"} \cup Packages : decoder' = [decoder EXCEPT !.at = "manifest", !.hash = hash]
      BY <1>0, <1>4, <2>1, InodeFacts DEF HashPackage
    <3> QED
      BY <1>0, <3>1 DEF DecoderSteps, Decoders, Keeps
  <2> QED
    BY <1>0, <2>1, <2>2, ReadingKeeps DEF DecoderSteps, DecodeTypes
<1>5. CASE ReadManifest
  <2>1. UNCHANGED <<decodeStage, outputDir>> /\ FilesRest /\ decoder.at = "manifest" /\ decoder.inode \in DOMAIN inodes
    BY <1>5 DEF ReadManifest, FilesRead, DecodeInv, OpenRead
  <2>2. \/ DecodeFails
        \/ \E holds \in Packages : decoder' = [decoder EXCEPT !.at = "workspace", !.archive = holds]
    BY <1>5 DEF ReadManifest, Passes, Packages
  <2>3. \/ Keeps(decoder, decoder', "clean")
        \/ Keeps(decoder, decoder', "workspace") /\ decoder'.inode = decoder.inode /\ decoder'.archive \in Packages
    <3>1. CASE DecodeFails
      BY <1>0, <3>1, FailsFacts
    <3>2. CASE ~DecodeFails
      <4>1. PICK holds \in Packages : decoder' = [decoder EXCEPT !.at = "workspace", !.archive = holds]
        BY <2>2, <3>2
      <4> QED
        BY <1>0, <4>1 DEF DecoderSteps, Decoders, Keeps
    <3> QED
      BY <3>1, <3>2
  <2> QED
    BY <1>0, <2>1, <2>3, ReadingKeeps DEF DecoderSteps, DecodeTypes
<1> QED
  BY <1>1, <1>2, <1>3, <1>4, <1>5

\* The steps from the workspace to the question.
LEMMA DecodingKeeps ==
    ASSUME DecodeInv, CreateWorkspace \/ ReadMembers \/ DecodeBodies \/ VerifyUnchanged \/ Reinspect \/ Confirm
    PROVE  DecodeInv'
<1>0. decoder \in Decoders /\ DecodeTypes /\ decodeStage \in BOOLEAN
  BY DEF DecodeInv, DecodeTypes
<1>1. CASE CreateWorkspace
  <2>1. UNCHANGED outputDir /\ FilesRest /\ decoder.at = "workspace" /\ decoder.inode \in DOMAIN inodes /\ decoder.archive \in Packages
    BY <1>1 DEF CreateWorkspace, DecodeInv, OpenRead
  <2>2. decodeStage' \in BOOLEAN /\ (DecodeFails \/ DecoderGoes("read"))
    BY <1>0, <1>1 DEF CreateWorkspace
  <2>3. \/ Keeps(decoder, decoder', "clean")
        \/ Keeps(decoder, decoder', "read") /\ decoder'.inode = decoder.inode /\ decoder'.archive = decoder.archive
    BY <1>0, <2>2, FailsFacts, GoesFacts DEF DecoderSteps
  <2> QED
    BY <1>0, <2>1, <2>2, <2>3, ReadingKeeps DEF DecoderSteps
<1>2. CASE ReadMembers \/ DecodeBodies
  <2>1. UNCHANGED <<decodeStage, outputDir>> /\ FilesRest /\ decoder.at \in {"read", "bodies"} /\ decoder.inode \in DOMAIN inodes
        /\ decoder.archive \in Packages
    BY <1>2 DEF ReadMembers, DecodeBodies, FilesRead, DecodeInv, OpenRead
  <2>2. DecodeFails \/ DecoderGoes("bodies") \/ DecoderGoes("unchanged")
    BY <1>2 DEF ReadMembers, DecodeBodies
  <2>3. \/ Keeps(decoder, decoder', "clean")
        \/ /\ Keeps(decoder, decoder', "bodies") \/ Keeps(decoder, decoder', "unchanged")
           /\ decoder'.inode = decoder.inode /\ decoder'.archive = decoder.archive
    BY <1>0, <2>2, FailsFacts, GoesFacts DEF DecoderSteps
  <2> QED
    BY <1>0, <2>1, <2>3, ReadingKeeps DEF DecoderSteps
<1>3. CASE VerifyUnchanged
  <2>1. UNCHANGED <<decodeStage, outputDir>> /\ FilesRest /\ decoder.at = "unchanged" /\ decoder.archive \in Packages
    BY <1>3 DEF VerifyUnchanged, FilesRead, DecodeInv, OpenRead
  <2>2. \/ DecodeFails
        \/ DecoderGoes("reinspect")
        \/ DecoderGoes("publish") /\ decoder.pass = "materialize" /\ decoder.archive = decoder.plan.archive
    BY <1>0, <1>3, DecoderFields DEF VerifyUnchanged, SamePreflight
  <2>3. \/ Keeps(decoder, decoder', "clean")
        \/ Keeps(decoder, decoder', "reinspect") /\ decoder'.archive = decoder.archive
        \/ /\ Keeps(decoder, decoder', "publish") /\ decoder'.archive = decoder.archive /\ decoder'.pass = decoder.pass
           /\ decoder.pass = "materialize" /\ decoder.archive = decoder.plan.archive
    BY <1>0, <2>2, FailsFacts, GoesFacts DEF DecoderSteps
  <2>4. Keeps(decoder, decoder', "publish") => decoder'.plan = decoder.plan
    BY DEF Keeps
  <2> QED
    BY <1>0, <2>1, <2>3, <2>4, ReadingKeeps DEF DecoderSteps
<1>4. CASE Reinspect
  <2>1. UNCHANGED <<decodeStage, outputDir>> /\ FilesRest /\ decoder.at = "reinspect" /\ decoder.archive \in Packages
        /\ outputDir \notin Packages
    BY <1>4 DEF Reinspect, FilesRead, DecodeInv, OpenRead, ConfirmedWritten
  <2>2. CASE DecodeFails
    <3>1. Keeps(decoder, decoder', "clean")
      BY <1>0, <2>2, FailsFacts
    <3> QED
      BY <1>0, <2>1, <3>1, ReadingKeeps DEF DecoderSteps
  <2>3. CASE ~DecodeFails
    <3> DEFINE plan == [identity |-> decoder.identity, hash |-> decoder.hash, archive |-> decoder.archive]
    <3>1. decoder' = [DecoderIdle EXCEPT !.at = "clean", !.plan = plan]
      BY <1>4, <2>3 DEF Reinspect
    <3>2. plan \in Plans
      BY <1>0, DecoderFields DEF Plans
    <3> HIDE DEF plan
    <3>3. decoder' \in Decoders /\ decoder'.at = "clean"
      BY <3>1, <3>2, DecoderIdleFacts DEF Decoders, DecoderSteps
    <3>4. DecodeTypes'
      BY <1>0, <2>1, <3>3 DEF DecodeTypes, FilesRest
    <3> QED
      BY <2>1, <3>3, <3>4 DEF DecodeInv, OpenRead, ConfirmedWritten, StageKept
  <2> QED
    BY <2>2, <2>3
<1>5. CASE Confirm
  <2>1. UNCHANGED <<decodeStage, outputDir>> /\ FilesRest /\ decoder.at = "confirm" /\ ~decodeStage
    BY <1>5 DEF Confirm, FilesRead, DecodeInv, StageKept
  <2>2. Keeps(decoder, decoder', "open") \/ Keeps(decoder, decoder', "done")
    <3>1. CASE DecoderGoes("done")
      BY <1>0, <3>1, GoesFacts DEF DecoderSteps
    <3>2. CASE decoder' = [decoder EXCEPT !.at = "open", !.pass = "materialize"]
      BY <1>0, <3>2 DEF DecoderSteps, Decoders, Keeps
    <3> QED
      BY <1>5, <3>1, <3>2 DEF Confirm
  <2> QED
    BY <1>0, <2>1, <2>2, ReadingKeeps DEF DecoderSteps
<1> QED
  BY <1>1, <1>2, <1>3, <1>4, <1>5

\* The output, the cleanup, and the death of the decoder.
LEMMA WritingKeeps ==
    ASSUME DecodeInv, PublishDecoded \/ CleanWorkspace \/ KillDecoder
    PROVE  DecodeInv'
<1>0. decoder \in Decoders /\ DecodeTypes /\ decodeStage \in BOOLEAN
  BY DEF DecodeInv, DecodeTypes
<1>1. CASE PublishDecoded
  <2>1. /\ FilesRest /\ decoder.archive \in Packages /\ decoder.pass = "materialize" /\ decoder.archive = decoder.plan.archive
        /\ decoder.at = "publish" /\ outputDir \notin Packages
    BY <1>1 DEF PublishDecoded, DecodeInv, OpenRead, ConfirmedWritten
  <2>2. DecoderGoes("clean") \/ DecodeFails
    BY <1>1 DEF PublishDecoded
  <2>3. Keeps(decoder, decoder', "clean") /\ decoder'.pass = decoder.pass
    BY <1>0, <2>2, FailsFacts, GoesFacts DEF DecoderSteps
  <2>4. decodeStage' \in BOOLEAN /\ (outputDir' = decoder.archive \/ outputDir' = outputDir)
    BY <1>0, <1>1 DEF PublishDecoded, Written
  <2>5. DecodeTypes'
    BY <1>0, <2>1, <2>3, <2>4 DEF DecodeTypes, FilesRest, Keeps
  <2> QED
    BY <2>1, <2>3, <2>4, <2>5 DEF DecodeInv, OpenRead, ConfirmedWritten, StageKept, Keeps
<1>2. CASE CleanWorkspace
  <2> DEFINE asks == decoder.pass = "inspect" /\ ~decoder.error
             at == IF asks THEN "confirm" ELSE "done"
             end == [DecoderIdle EXCEPT !.at = at, !.plan = decoder.plan, !.error = decoder.error]
  <2>1. UNCHANGED outputDir /\ FilesRest /\ decoder.at = "clean"
    BY <1>2 DEF CleanWorkspace
  <2>2. \/ decoder' = end /\ ~decodeStage' /\ decodeStage' \in BOOLEAN
        \/ decoder' = [end EXCEPT !.at = "done", !.error = TRUE, !.clean = FALSE] /\ decodeStage' \in BOOLEAN
    BY <1>0, <1>2 DEF CleanWorkspace
  <2>3. outputDir \in Packages => at = "done" /\ outputDir = decoder.plan.archive
    BY <2>1 DEF DecodeInv, ConfirmedWritten
  <2>4. at \in {"confirm", "done"}
    OBVIOUS
  <2> HIDE DEF at
  <2>5. end \in Decoders /\ end.at = at /\ end.plan = decoder.plan
    BY <1>0, <2>4, DecoderFields, DecoderIdleFacts DEF Decoders, DecoderSteps
  <2> HIDE DEF end
  <2>6. LET n == [end EXCEPT !.at = "done", !.error = TRUE, !.clean = FALSE]
        IN  n \in Decoders /\ n.at = "done" /\ n.plan = decoder.plan /\ ~n.clean
    BY <2>5 DEF Decoders, DecoderSteps
  <2>7. /\ decoder' \in Decoders /\ decoder'.plan = decoder.plan /\ decodeStage' \in BOOLEAN
        /\ \/ decoder'.at = at /\ ~decodeStage'
           \/ decoder'.at = "done" /\ ~decoder'.clean
    BY <2>2, <2>5, <2>6
  <2>8. DecodeTypes'
    BY <1>0, <2>1, <2>7 DEF DecodeTypes, FilesRest
  <2> QED
    BY <2>1, <2>3, <2>4, <2>7, <2>8 DEF DecodeInv, OpenRead, ConfirmedWritten, StageKept
<1>3. CASE KillDecoder
  <2>1. UNCHANGED <<outputDir, decodeStage>> /\ FilesRest
        /\ decoder' = [DecoderIdle EXCEPT !.at = "killed", !.plan = decoder.plan]
    BY <1>3 DEF KillDecoder
  <2>2. decoder' \in Decoders /\ decoder'.at = "killed" /\ decoder'.plan = decoder.plan
    BY <1>0, <2>1, DecoderFields, DecoderIdleFacts DEF Decoders, DecoderSteps
  <2>3. DecodeTypes'
    BY <1>0, <2>1, <2>2 DEF DecodeTypes, FilesRest
  <2> QED
    BY <2>1, <2>2, <2>3 DEF DecodeInv, OpenRead, ConfirmedWritten, StageKept
<1> QED
  BY <1>1, <1>2, <1>3

\* The packager, the package's file, and the user.
LEMMA OthersKeepDecoder ==
    ASSUME DecodeInv, MakePackage \/ RewritePackage \/ ReplacePackage \/ RemovePackage \/ UserTakesOutput
    PROVE  DecodeInv'
<1>0. DecodeTypes /\ UNCHANGED <<decoder, decodeStage, material>> /\ NoInode = 0
  BY DEF DecodeInv, MakePackage, RewritePackage, ReplacePackage, RemovePackage, UserTakesOutput, NobodyElse, NoInode
<1>1. CASE MakePackage
  BY <1>0, <1>1 DEF MakePackage, DecodeInv, DecodeTypes, OpenRead, ConfirmedWritten, StageKept
<1>2. CASE RewritePackage
  <2>1. packagePath \in DOMAIN inodes /\ UNCHANGED <<archive, packagePath, outputDir>>
    BY <1>0, <1>2, PathFacts DEF RewritePackage, NobodyElse
  <2>2. PICK holds \in {"torn", "first", "second"}, kept \in BOOLEAN :
          inodes' = [inodes EXCEPT ![packagePath] =
                       [holds |-> holds, stamp |-> IF kept THEN inodes[packagePath].stamp ELSE inodes[packagePath].stamp + 1]]
    BY <1>0, <1>2, <2>1 DEF RewritePackage, DecodeTypes
  <2>3. inodes[packagePath] \in InodeStates
    BY <1>0, <2>1 DEF DecodeTypes
  <2> DEFINE state == [holds |-> holds, stamp |-> IF kept THEN inodes[packagePath].stamp ELSE inodes[packagePath].stamp + 1]
  <2>4. state \in InodeStates
    BY <2>3 DEF InodeStates, Packages
  <2>5. inodes' = [inodes EXCEPT ![packagePath] = state]
    BY <2>2
  <2> HIDE DEF state
  <2>6. inodes' \in Seq(InodeStates) /\ Len(inodes') = Len(inodes) /\ DOMAIN inodes' = DOMAIN inodes
    BY <1>0, <2>1, <2>4, <2>5 DEF DecodeTypes
  <2>7. DecodeTypes'
    BY <1>0, <2>1, <2>6 DEF DecodeTypes
  <2> QED
    BY <1>0, <2>1, <2>6, <2>7 DEF DecodeInv, OpenRead, ConfirmedWritten, StageKept
<1>3. CASE ReplacePackage
  <2>1. PICK holds \in Packages : inodes' = Append(inodes, [holds |-> holds, stamp |-> 0])
    BY <1>3 DEF ReplacePackage, Packages
  <2>2. [holds |-> holds, stamp |-> 0] \in InodeStates
    BY DEF InodeStates
  <2>3. inodes' \in Seq(InodeStates) /\ Len(inodes') = Len(inodes) + 1 /\ DOMAIN inodes \subseteq DOMAIN inodes'
        /\ Len(inodes) \in Nat
    BY <1>0, <2>1, <2>2 DEF DecodeTypes
  <2>4. UNCHANGED <<archive, outputDir>> /\ packagePath' = Len(inodes) + 1
    BY <1>3 DEF ReplacePackage, NobodyElse
  <2>5. DecodeTypes'
    BY <1>0, <2>3, <2>4 DEF DecodeTypes
  <2> QED
    BY <1>0, <2>3, <2>4, <2>5 DEF DecodeInv, OpenRead, ConfirmedWritten, StageKept
<1>4. CASE RemovePackage
  <2>1. UNCHANGED <<archive, outputDir, inodes>> /\ packagePath' = 0
    BY <1>0, <1>4 DEF RemovePackage, NobodyElse
  <2>2. DecodeTypes'
    BY <1>0, <2>1 DEF DecodeTypes
  <2> QED
    BY <1>0, <2>1, <2>2 DEF DecodeInv, OpenRead, ConfirmedWritten, StageKept
<1>5. CASE UserTakesOutput
  <2>1. UNCHANGED <<archive, packagePath, inodes>> /\ outputDir' = "user"
    BY <1>5 DEF UserTakesOutput, NobodyElse
  <2>2. DecodeTypes'
    BY <1>0, <2>1 DEF DecodeTypes
  <2> QED
    BY <1>0, <2>1, <2>2 DEF DecodeInv, OpenRead, ConfirmedWritten, StageKept, Packages
<1> QED
  BY <1>1, <1>2, <1>3, <1>4, <1>5

\* Every step keeps the invariant.
LEMMA DecodeKeeps == DecodeInv /\ [DecodeNext]_decodeVars => DecodeInv'
<1> SUFFICES ASSUME DecodeInv, [DecodeNext]_decodeVars PROVE DecodeInv'
  OBVIOUS
<1>1. CASE UNCHANGED decodeVars
  BY <1>1 DEF DecodeInv, DecodeTypes, OpenRead, ConfirmedWritten, StageKept, decodeVars
<1> QED
  BY <1>1, OpeningKeeps, DecodingKeeps, WritingKeeps, OthersKeepDecoder DEF DecodeNext

\* The invariant has the types, and the three results on what is decoded.
LEMMA DecodeInvMeans == DecodeInv => DecodeTypeOK /\ PackageDecodes /\ WritesWhatWasConfirmed /\ WorkspaceLeaves
<1> SUFFICES ASSUME DecodeInv PROVE DecodeTypeOK /\ PackageDecodes /\ WritesWhatWasConfirmed /\ WorkspaceLeaves
  OBVIOUS
<1>1. DecodeTypeOK
  <2>1. \A inode \in DOMAIN inodes : inodes[inode] \in InodeStates
    BY DEF DecodeInv, DecodeTypes
  <2>2. \A inode \in DOMAIN inodes : inodes[inode].holds \in {"torn", "first", "second"} /\ inodes[inode].stamp \in Nat
    BY <2>1 DEF InodeStates, Packages
  <2> QED
    BY <2>2, DecoderFields DEF DecodeInv, DecodeTypes, DecodeTypeOK, Packages, DecoderSteps
<1>2. PackageDecodes
  BY MadeDecodes DEF DecodeInv, DecodeTypes, PackageDecodes
<1>3. WritesWhatWasConfirmed
  BY DEF DecodeInv, ConfirmedWritten, WritesWhatWasConfirmed, Packages
<1>4. WorkspaceLeaves
  BY DEF DecodeInv, StageKept, WorkspaceLeaves
<1> QED
  BY <1>1, <1>2, <1>3, <1>4

\* No step writes over what is at the output.
LEMMA OutputStays == [DecodeNext]_decodeVars => [outputDir # "absent" => outputDir' = outputDir]_decodeVars
BY DEF DecodeNext, decodeVars, MakePackage, ValidateOutput, IdentifyPackage, OpenPackage, HashPackage, ReadManifest, CreateWorkspace,
       ReadMembers, DecodeBodies, VerifyUnchanged, Reinspect, Confirm, PublishDecoded, CleanWorkspace, KillDecoder, RewritePackage,
       ReplacePackage, RemovePackage, UserTakesOutput, FilesRead

\* The inductive invariant of the decoder: what it has open is there, what it publishes is what was
\* confirmed, and its workspace is where its steps leave it.
THEOREM DecodeInductive == DecodeSpec => []DecodeInv
<1>1. DecodeInit => DecodeInv
  BY DecodeStarts
<1>2. DecodeInv /\ [DecodeNext]_decodeVars => DecodeInv'
  BY DecodeKeeps
<1> QED
  BY <1>1, <1>2, PTL DEF DecodeSpec

\* The decoder accepts every package that is made but for two kinds, writes what was confirmed and
\* nothing else, leaves no workspace when it says so, and replaces nothing.
THEOREM DecodeSoundThm ==
    DecodeSpec => [](DecodeTypeOK /\ PackageDecodes /\ WritesWhatWasConfirmed /\ WorkspaceLeaves) /\ OutputKept
<1>1. DecodeInv => DecodeTypeOK /\ PackageDecodes /\ WritesWhatWasConfirmed /\ WorkspaceLeaves
  BY DecodeInvMeans
<1>2. [DecodeNext]_decodeVars => [outputDir # "absent" => outputDir' = outputDir]_decodeVars
  BY OutputStays
<1> QED
  BY <1>1, <1>2, DecodeInductive, PTL DEF DecodeSpec, OutputKept
=============================================================================
