--------------------------- MODULE Startup_proofs ---------------------------
(***************************************************************************)
(* The startup for files, storages and environments of any size: cfg and   *)
(* the daemons are functions of the inputs, and those functions do what    *)
(* the properties of Startup say.                                          *)
(***************************************************************************)
EXTENDS Startup, TLAPS, FiniteSetTheorems, FunctionTheorems,
        SequenceTheorems

-----------------------------------------------------------------------------
(* Induction over data, in the form that the provers take: over a set, and *)
(* a function that is defined step by step exists.                         *)

\* A set of natural numbers that is not empty has a least element.
LEMMA LeastNatural ==
  ASSUME NEW T, T \subseteq Nat, T # {}
  PROVE  \E x \in T : \A y \in T : x <= y
<1>1. \E x \in T : \A y \in T : ~(<<y, x>> \in OpToRel(<, Nat))
  BY NatLessThanWellFounded, WFMin
<1>2. PICK x \in T : \A y \in T : ~(y < x)
  BY <1>1, Zenon DEF OpToRel
<1> QED BY <1>2

\* A set that has 0, and with each number the next, has them all.
LEMMA SetInduction ==
  ASSUME NEW S, 0 \in S, \A n \in Nat : n \in S => n + 1 \in S
  PROVE  Nat \subseteq S
<1> DEFINE T == Nat \ S
<1>1. SUFFICES ASSUME T # {} PROVE FALSE
  OBVIOUS
<1>2. PICK x \in T : \A y \in T : x <= y
  BY <1>1, LeastNatural
<1>3. x \in Nat /\ x # 0 /\ x - 1 \in Nat /\ ~(x <= x - 1)
  OBVIOUS
<1>4. x - 1 \in S
  BY <1>2, <1>3
<1>5. x - 1 + 1 = x
  BY <1>3
<1> QED BY <1>3, <1>4, <1>5

\* ... and the same up to a bound.
LEMMA InductionUpTo ==
  ASSUME NEW n \in Nat, NEW S, 0 \in S,
         \A i \in 1..n : i - 1 \in S => i \in S
  PROVE  0..n \subseteq S
<1> DEFINE T == {i \in Nat : i <= n => i \in S}
<1>1. \A i \in Nat : i \in T => i + 1 \in T
  <2>1. ASSUME NEW i \in Nat, i \in T, i + 1 <= n PROVE i + 1 \in S
    <3>1. i + 1 \in 1..n /\ i + 1 - 1 = i /\ i \in S
      BY <2>1
    <3> QED BY <3>1
  <2> QED BY <2>1
<1>2. Nat \subseteq T
  <2> HIDE DEF T
  <2>1. 0 \in T
    BY DEF T
  <2> QED BY <1>1, <2>1, SetInduction
<1> QED BY <1>2

\* The functions that start with base and go on as step says.
Courses(X, base, n, step) ==
  {f \in [0..n -> X] :
     f[0] = base /\ \A i \in 1..n : f[i] = step[i][f[i - 1]]}

\* There is such a function.
LEMMA StepByStep ==
  ASSUME NEW X, NEW base \in X, NEW n \in Nat, NEW step \in [1..n -> [X -> X]]
  PROVE  Courses(X, base, n, step) # {}
<1> DEFINE Good(f, m) == \A i \in 0..m :
                            f[i] = IF i = 0 THEN base ELSE step[i][f[i - 1]]
           S == {m \in Nat : m > n \/ \E f \in [0..m -> X] : Good(f, m)}
<1>1. 0 \in S
  <2> DEFINE f == [i \in 0..0 |-> base]
  <2>1. f \in [0..0 -> X] /\ Good(f, 0)
    OBVIOUS
  <2> QED BY <2>1
<1>2. ASSUME NEW m \in Nat, m \in S PROVE m + 1 \in S
  <2>1. CASE m + 1 > n
    BY <2>1
  <2>2. CASE m + 1 <= n
    <3>1. PICK f \in [0..m -> X] : Good(f, m)
      BY <1>2, <2>2
    <3> DEFINE g == [i \in 0..(m + 1) |->
                       IF i = m + 1 THEN step[m + 1][f[m]] ELSE f[i]]
    <3>2. f[m] \in X /\ m + 1 \in 1..n /\ step[m + 1][f[m]] \in X
      BY <2>2
    <3>3. g \in [0..(m + 1) -> X]
      BY <3>2
    <3>4. ASSUME NEW i \in 0..(m + 1)
          PROVE  g[i] = IF i = 0 THEN base ELSE step[i][g[i - 1]]
      <4>1. CASE i = m + 1
        BY <4>1
      <4>2. CASE i # m + 1 /\ i # 0
        <5>1. i \in 0..m /\ i - 1 \in 0..m /\ i - 1 \in 0..(m + 1) /\ i - 1 # m + 1
          BY <4>2
        <5>2. g[i] = f[i] /\ g[i - 1] = f[i - 1]
          BY <5>1
        <5> QED BY <4>2, <5>1, <5>2, <3>1
      <4>3. CASE i = 0
        BY <4>3, <3>1
      <4> QED BY <4>1, <4>2, <4>3
    <3>5. \E h \in [0..(m + 1) -> X] : Good(h, m + 1)
      <4> HIDE DEF g
      <4> QED BY <3>3, <3>4
    <3> QED BY <3>5
  <2> QED BY <2>1, <2>2
<1>3. Nat \subseteq S
  <2> HIDE DEF S
  <2> QED BY <1>1, <1>2, SetInduction
<1>4. PICK f \in [0..n -> X] : Good(f, n)
  BY <1>3
<1> QED BY <1>4 DEF Courses

\* The loops of Printers and MergeDiscovered, entry by entry.
LEMMA DiscoveredIsTyped ==
  ASSUME NEW e \in StorageEntry PROVE Discovered(e) \in DiscoveredPrinter
BY DEF Discovered, DiscoveredPrinter, StorageEntry

\* After each entry, Printers has collected what Collect says.
LEMMA CollectedStepwise ==
  ASSUME NEW s \in Seq(StorageEntry)
  PROVE  /\ Collected(s) \in [0..Len(s) -> Seq(DiscoveredPrinter)]
         /\ Collected(s)[0] = <<>>
         /\ \A i \in 1..Len(s) :
              Collected(s)[i] = Collect(Collected(s)[i - 1], s[i])
<1>1. PICK X : X = Seq(DiscoveredPrinter)
  OBVIOUS
<1>2. Len(s) \in Nat /\ <<>> \in X
  BY <1>1
<1>3. ASSUME NEW i \in 1..Len(s), NEW x \in X PROVE Collect(x, s[i]) \in X
  <2>1. s[i] \in StorageEntry
    OBVIOUS
  <2> QED BY <1>1, <2>1, DiscoveredIsTyped DEF Collect
<1>4. PICK step : step = [i \in 1..Len(s) |-> [x \in X |-> Collect(x, s[i])]]
  OBVIOUS
<1>5. step \in [1..Len(s) -> [X -> X]]
  <2>1. ASSUME NEW i \in 1..Len(s)
        PROVE  [x \in X |-> Collect(x, s[i])] \in [X -> X]
    BY <1>3
  <2>2. [i \in 1..Len(s) |-> [x \in X |-> Collect(x, s[i])]]
          \in [1..Len(s) -> [X -> X]]
    BY <2>1, Zenon
  <2> QED BY <1>4, <2>2, Zenon
<1>6. PICK f \in [0..Len(s) -> X] :
        f[0] = <<>> /\ \A i \in 1..Len(s) : f[i] = step[i][f[i - 1]]
  <2>1. Courses(X, <<>>, Len(s), step) # {}
    BY <1>2, <1>5, StepByStep, Zenon
  <2> QED BY <2>1 DEF Courses
<1>7. \A i \in 1..Len(s) : f[i] = Collect(f[i - 1], s[i])
  <2> SUFFICES ASSUME NEW i \in 1..Len(s) PROVE f[i] = Collect(f[i - 1], s[i])
    OBVIOUS
  <2>1. i - 1 \in 0..Len(s)
    BY <1>2
  <2> QED BY <1>4, <1>6, <2>1
<1>8. f = [i \in 0..Len(s) |->
             IF i = 0 THEN <<>> ELSE Collect(f[i - 1], s[i])]
  BY <1>2, <1>6, <1>7
<1>9. Collected(s) = [i \in 0..Len(s) |->
         IF i = 0 THEN <<>> ELSE Collect(Collected(s)[i - 1], s[i])]
  BY <1>8, Zenon DEF Collected
<1>10. PICK c : c = Collected(s)
  OBVIOUS
<1>11. c = [i \in 0..Len(s) |-> IF i = 0 THEN <<>> ELSE Collect(c[i - 1], s[i])]
  BY <1>9, <1>10, Zenon
<1>12. c[0] = <<>> /\ \A i \in 1..Len(s) : c[i] = Collect(c[i - 1], s[i])
  BY <1>2, <1>11
<1>13. c \in [0..Len(s) -> X]
  <2> DEFINE S == {i \in 0..Len(s) : c[i] \in X}
  <2>1. 0 \in S
    BY <1>2, <1>12
  <2>2. ASSUME NEW i \in 1..Len(s), i - 1 \in S PROVE i \in S
    BY <1>2, <1>3, <1>12, <2>2
  <2>3. 0..Len(s) \subseteq S
    <3> HIDE DEF S
    <3> QED BY <1>2, <2>1, <2>2, InductionUpTo
  <2> QED BY <1>11, <2>3
<1> QED BY <1>1, <1>10, <1>12, <1>13

-----------------------------------------------------------------------------
\* Combined lists of notifiers are lists of notifiers ...
LEMMA CombinedIsTyped ==
  ASSUME NEW a \in NotifierLists, NEW b \in NotifierLists
  PROVE  Combined(a, b) \in NotifierLists
BY DEF NotifierLists, Combined

\* ... and so are the empty ones.
LEMMA NoNotifiersAreTyped == NoNotifiers \in NotifierLists
BY DEF NotifierLists, NoNotifiers

\* A discovered printer becomes an entry of config.Config.Printers.
LEMMA ImportedIsTyped ==
  ASSUME NEW c \in Config, NEW d \in DiscoveredPrinter
  PROVE  Imported(c, d) \in PrinterConfig /\ Imported(c, d).serial = d.serial
<1>1. PICK n : n = Combined(c.discovery.notifiers, c.notifiers)
  OBVIOUS
<1>2. n \in NotifierLists
  BY <1>1, CombinedIsTyped DEF Config, DiscoveryConfig
<1>3. c.discovery.cameraPort \in Int
  BY DEF Config, DiscoveryConfig
<1>4. d.serial \in STRING /\ d.named \in BOOLEAN
  BY DEF DiscoveredPrinter
<1> QED
  BY <1>1, <1>2, <1>3, <1>4, NoNotifiersAreTyped DEF Imported, PrinterConfig

\* ... and so do the printers with it.
LEMMA AddIsTyped ==
  ASSUME NEW c \in Config, NEW d \in DiscoveredPrinter,
         NEW p \in Seq(PrinterConfig)
  PROVE  Add(c, p, d) \in Seq(PrinterConfig)
BY ImportedIsTyped DEF Add

\* After each discovered printer, MergeDiscovered has what Add says.
LEMMA AddedStepwise ==
  ASSUME NEW c \in Config, NEW ds \in Seq(DiscoveredPrinter)
  PROVE  /\ Added(c, ds) \in [0..Len(ds) -> Seq(PrinterConfig)]
         /\ Added(c, ds)[0] = c.printers
         /\ \A i \in 1..Len(ds) :
              Added(c, ds)[i] = Add(c, Added(c, ds)[i - 1], ds[i])
<1>1. PICK X : X = Seq(PrinterConfig)
  OBVIOUS
<1>2. Len(ds) \in Nat /\ c.printers \in X
  BY <1>1 DEF Config
<1>3. ASSUME NEW i \in 1..Len(ds), NEW x \in X PROVE Add(c, x, ds[i]) \in X
  <2>1. ds[i] \in DiscoveredPrinter
    OBVIOUS
  <2> QED BY <1>1, <2>1, AddIsTyped
<1>4. PICK step : step = [i \in 1..Len(ds) |-> [x \in X |-> Add(c, x, ds[i])]]
  OBVIOUS
<1>5. step \in [1..Len(ds) -> [X -> X]]
  <2>1. ASSUME NEW i \in 1..Len(ds)
        PROVE  [x \in X |-> Add(c, x, ds[i])] \in [X -> X]
    BY <1>3
  <2>2. [i \in 1..Len(ds) |-> [x \in X |-> Add(c, x, ds[i])]]
          \in [1..Len(ds) -> [X -> X]]
    BY <2>1, Zenon
  <2> QED BY <1>4, <2>2, Zenon
<1>6. PICK f \in [0..Len(ds) -> X] :
        f[0] = c.printers /\ \A i \in 1..Len(ds) : f[i] = step[i][f[i - 1]]
  <2>1. Courses(X, c.printers, Len(ds), step) # {}
    BY <1>2, <1>5, StepByStep, Zenon
  <2> QED BY <2>1 DEF Courses
<1>7. \A i \in 1..Len(ds) : f[i] = Add(c, f[i - 1], ds[i])
  <2> SUFFICES ASSUME NEW i \in 1..Len(ds) PROVE f[i] = Add(c, f[i - 1], ds[i])
    OBVIOUS
  <2>1. i - 1 \in 0..Len(ds)
    BY <1>2
  <2> QED BY <1>4, <1>6, <2>1
<1>8. f = [i \in 0..Len(ds) |->
             IF i = 0 THEN c.printers ELSE Add(c, f[i - 1], ds[i])]
  BY <1>2, <1>6, <1>7
<1>9. Added(c, ds) = [i \in 0..Len(ds) |->
         IF i = 0 THEN c.printers ELSE Add(c, Added(c, ds)[i - 1], ds[i])]
  BY <1>8, Zenon DEF Added
<1>10. PICK a : a = Added(c, ds)
  OBVIOUS
<1>11. a = [i \in 0..Len(ds) |->
              IF i = 0 THEN c.printers ELSE Add(c, a[i - 1], ds[i])]
  BY <1>9, <1>10, Zenon
<1>12. /\ a[0] = c.printers
       /\ \A i \in 1..Len(ds) : a[i] = Add(c, a[i - 1], ds[i])
  BY <1>2, <1>11
<1>13. a \in [0..Len(ds) -> X]
  <2> DEFINE S == {i \in 0..Len(ds) : a[i] \in X}
  <2>1. 0 \in S
    BY <1>2, <1>12
  <2>2. ASSUME NEW i \in 1..Len(ds), i - 1 \in S PROVE i \in S
    BY <1>2, <1>3, <1>12, <2>2
  <2>3. 0..Len(ds) \subseteq S
    <3> HIDE DEF S
    <3> QED BY <1>2, <2>1, <2>2, InductionUpTo
  <2> QED BY <1>11, <2>3
<1> QED BY <1>1, <1>10, <1>12, <1>13

\* What is there after k printers have been looked at.
AddedSoFar(c, ds, p, k) ==
  /\ Len(c.printers) <= Len(p)
  /\ \A i \in 1..Len(c.printers) : p[i] = c.printers[i]
  /\ \A i \in (Len(c.printers) + 1)..Len(p) :
       \E j \in 1..k : p[i] = Imported(c, ds[j])
  /\ SerialsOf(p) = SerialsOf(c.printers) \cup {ds[j].serial : j \in 1..k}
  /\ \A i, j \in 1..Len(p) :
       i # j /\ p[i].serial = p[j].serial
         => i <= Len(c.printers) /\ j <= Len(c.printers)

\* Merging one more printer keeps it.
LEMMA AddingStep ==
  ASSUME NEW c \in Config, NEW ds \in Seq(DiscoveredPrinter),
         NEW k \in 1..Len(ds), NEW p \in Seq(PrinterConfig),
         AddedSoFar(c, ds, p, k - 1)
  PROVE  AddedSoFar(c, ds, Add(c, p, ds[k]), k)
<1>1. ds[k] \in DiscoveredPrinter /\ c.printers \in Seq(PrinterConfig)
  BY DEF Config
<1>2. {ds[j].serial : j \in 1..k}
        = {ds[j].serial : j \in 1..(k - 1)} \cup {ds[k].serial}
  OBVIOUS
<1>3. CASE ds[k].serial \in SerialsOf(p)
  <2>1. SerialsOf(p) = SerialsOf(c.printers) \cup {ds[j].serial : j \in 1..k}
    BY <1>2, <1>3 DEF AddedSoFar
  <2>2. 1..(k - 1) \subseteq 1..k
    OBVIOUS
  <2>3. AddedSoFar(c, ds, p, k)
    BY <2>1, <2>2 DEF AddedSoFar
  <2> QED BY <1>3, <2>3 DEF Add
<1>4. CASE ds[k].serial \notin SerialsOf(p)
  <2>1. PICK new : new = Imported(c, ds[k])
    OBVIOUS
  <2>2. new \in PrinterConfig /\ new.serial = ds[k].serial
    BY <1>1, <2>1, ImportedIsTyped
  <2>3. PICK q : q = Append(p, new)
    OBVIOUS
  <2>4. /\ q \in Seq(PrinterConfig) /\ Len(q) = Len(p) + 1
        /\ \A i \in 1..Len(p) : q[i] = p[i]
        /\ q[Len(p) + 1] = new
    BY <2>2, <2>3
  <2>5. SerialsOf(q) = SerialsOf(p) \cup {ds[k].serial}
    <3>1. DOMAIN q = DOMAIN p \cup {Len(p) + 1}
      BY <2>4
    <3>2. \A i \in DOMAIN p : q[i] = p[i]
      BY <2>4
    <3> QED BY <2>2, <2>4, <3>1, <3>2 DEF SerialsOf
  <2>6. \A i \in 1..Len(p) : p[i].serial # ds[k].serial
    BY <1>4 DEF SerialsOf
  <2>7. AddedSoFar(c, ds, q, k)
    <3>1. Len(c.printers) <= Len(q)
      BY <1>1, <2>4 DEF AddedSoFar
    <3>2. \A i \in 1..Len(c.printers) : q[i] = c.printers[i]
      BY <1>1, <2>4 DEF AddedSoFar
    <3>3. ASSUME NEW i \in (Len(c.printers) + 1)..Len(q)
          PROVE  \E j \in 1..k : q[i] = Imported(c, ds[j])
      <4>1. CASE i = Len(p) + 1
        BY <2>1, <2>4, <4>1
      <4>2. CASE i # Len(p) + 1
        <5>1. i \in (Len(c.printers) + 1)..Len(p) /\ i \in 1..Len(p)
          BY <1>1, <2>4, <4>2
        <5>2. PICK j \in 1..(k - 1) : p[i] = Imported(c, ds[j])
          BY <5>1 DEF AddedSoFar
        <5> QED BY <2>4, <5>1, <5>2
      <4> QED BY <4>1, <4>2
    <3>4. SerialsOf(q)
            = SerialsOf(c.printers) \cup {ds[j].serial : j \in 1..k}
      BY <1>2, <2>5 DEF AddedSoFar
    <3>5. ASSUME NEW i \in 1..Len(q), NEW j \in 1..Len(q),
                 i # j, q[i].serial = q[j].serial
          PROVE  i <= Len(c.printers) /\ j <= Len(c.printers)
      <4>1. i \in 1..Len(p) /\ j \in 1..Len(p)
        BY <2>2, <2>4, <2>6, <3>5
      <4> QED BY <2>4, <3>5, <4>1 DEF AddedSoFar
    <3> QED BY <3>1, <3>2, <3>3, <3>4, <3>5 DEF AddedSoFar
  <2> QED BY <1>4, <2>1, <2>3, <2>7 DEF Add
<1> QED BY <1>3, <1>4

\* So it holds once all of them are merged.
LEMMA AllAdded ==
  ASSUME NEW c \in Config, NEW ds \in Seq(DiscoveredPrinter)
  PROVE  /\ Added(c, ds)[Len(ds)] \in Seq(PrinterConfig)
         /\ AddedSoFar(c, ds, Added(c, ds)[Len(ds)], Len(ds))
<1> DEFINE S == {k \in 0..Len(ds) : AddedSoFar(c, ds, Added(c, ds)[k], k)}
<1>1. Len(ds) \in Nat
  OBVIOUS
<1>2. 0 \in S
  <2>1. Added(c, ds)[0] = c.printers /\ c.printers \in Seq(PrinterConfig)
    BY AddedStepwise DEF Config
  <2>2. {ds[j].serial : j \in 1..0} = {}
    OBVIOUS
  <2>3. AddedSoFar(c, ds, c.printers, 0)
    BY <2>1, <2>2 DEF AddedSoFar
  <2> QED BY <1>1, <2>1, <2>3
<1>3. ASSUME NEW k \in 1..Len(ds), k - 1 \in S PROVE k \in S
  <2>1. /\ Added(c, ds)[k] = Add(c, Added(c, ds)[k - 1], ds[k])
        /\ Added(c, ds)[k - 1] \in Seq(PrinterConfig)
    <3>1. k - 1 \in 0..Len(ds)
      BY <1>1
    <3> QED BY <3>1, AddedStepwise
  <2> QED BY <1>1, <1>3, <2>1, AddingStep
<1>4. 0..Len(ds) \subseteq S
  <2> HIDE DEF S
  <2> QED BY <1>1, <1>2, <1>3, InductionUpTo
<1> QED BY <1>1, <1>4, AddedStepwise

-----------------------------------------------------------------------------
(* Load. *)

\* mergeFlatNotifiers, on a printer ...
LEMMA FlattenedPrinter ==
  ASSUME NEW p \in PrinterConfig
  PROVE  /\ Flattened(p) \in PrinterConfig
         /\ Flattened(p).notifiers = Combined(p.notifiers, p.flat)
         /\ Flattened(p).serial = p.serial /\ Flattened(p).insecure = p.insecure
<1>1. PICK n : n = Combined(p.notifiers, p.flat)
  OBVIOUS
<1>2. n \in NotifierLists
  BY <1>1, CombinedIsTyped DEF PrinterConfig
<1> QED BY <1>1, <1>2, NoNotifiersAreTyped DEF Flattened, PrinterConfig

\* ... and on the discovery.
LEMMA FlattenedDiscovery ==
  ASSUME NEW d \in DiscoveryConfig
  PROVE  /\ Flattened(d) \in DiscoveryConfig
         /\ Flattened(d).notifiers = Combined(d.notifiers, d.flat)
         /\ Flattened(d).enabled = d.enabled
         /\ Flattened(d).cameraPort = d.cameraPort
<1>1. PICK n : n = Combined(d.notifiers, d.flat)
  OBVIOUS
<1>2. n \in NotifierLists
  BY <1>1, CombinedIsTyped DEF DiscoveryConfig
<1> QED BY <1>1, <1>2, NoNotifiersAreTyped DEF Flattened, DiscoveryConfig

\* mergeFlatNotifiers, on a file.
LEMMA FlatNotifiersMerged ==
  ASSUME NEW f \in Config
  PROVE  LET c == MergeFlatNotifiers(f)
         IN  /\ c \in Config
             /\ c.notifiers = Combined(f.notifiers, f.flat)
             /\ c.discovery = Flattened(f.discovery)
             /\ c.printers = [i \in DOMAIN f.printers |-> Flattened(f.printers[i])]
<1>1. PICK ps : ps = [i \in DOMAIN f.printers |-> Flattened(f.printers[i])]
  OBVIOUS
<1>2. ps \in Seq(PrinterConfig)
  <2>1. f.printers \in Seq(PrinterConfig)
    BY DEF Config
  <2> QED BY <1>1, <2>1, FlattenedPrinter
<1>3. PICK d : d = Flattened(f.discovery)
  OBVIOUS
<1>4. d \in DiscoveryConfig
  BY <1>3, FlattenedDiscovery DEF Config
<1>5. PICK n : n = Combined(f.notifiers, f.flat)
  OBVIOUS
<1>6. n \in NotifierLists
  BY <1>5, CombinedIsTyped DEF Config
<1>7. EachPrinter(f, Flattened) = [f EXCEPT !.printers = ps]
  BY <1>1 DEF EachPrinter
<1>8. PICK x : x = [EachPrinter(f, Flattened) EXCEPT !.discovery = Flattened(f.discovery)]
  OBVIOUS
<1>9. /\ x \in Config /\ x.notifiers = f.notifiers /\ x.flat = f.flat
      /\ x.discovery = d /\ x.printers = ps
  BY <1>2, <1>3, <1>4, <1>7, <1>8 DEF Config
<1>10. MergeFlatNotifiers(f) = Flattened(x)
  BY <1>8 DEF MergeFlatNotifiers
<1>11. Flattened(x) = [x EXCEPT !.notifiers = n, !.flat = NoNotifiers]
  BY <1>5, <1>9 DEF Flattened
<1>12. /\ Flattened(x) \in Config /\ Flattened(x).notifiers = n
       /\ Flattened(x).discovery = d /\ Flattened(x).printers = ps
  BY <1>6, <1>9, <1>11, NoNotifiersAreTyped DEF Config
<1> QED BY <1>1, <1>3, <1>5, <1>10, <1>12

\* applyGlobalNotifiers gives the global notifiers to every printer.
LEMMA GlobalNotifiersApplied ==
  ASSUME NEW f \in Config
  PROVE  LET c == ApplyGlobalNotifiers(f)
         IN  /\ c \in Config
             /\ c.notifiers = f.notifiers /\ c.discovery = f.discovery
             /\ c.printers =
                  [i \in DOMAIN f.printers |->
                     [f.printers[i] EXCEPT !.notifiers =
                        Combined(f.printers[i].notifiers, f.notifiers)]]
<1>1. PICK ps : ps = [i \in DOMAIN f.printers |->
                     [f.printers[i] EXCEPT !.notifiers =
                        Combined(f.printers[i].notifiers, f.notifiers)]]
  OBVIOUS
<1>2. ps \in Seq(PrinterConfig)
  <2>1. ASSUME NEW p \in PrinterConfig
        PROVE  [p EXCEPT !.notifiers = Combined(p.notifiers, f.notifiers)]
                 \in PrinterConfig
    <3>1. Combined(p.notifiers, f.notifiers) \in NotifierLists
      BY CombinedIsTyped DEF Config, PrinterConfig
    <3> QED BY <3>1 DEF PrinterConfig
  <2>2. f.printers \in Seq(PrinterConfig)
    BY DEF Config
  <2> QED BY <1>1, <2>1, <2>2
<1>3. ApplyGlobalNotifiers(f) = [f EXCEPT !.printers = ps]
  BY <1>1 DEF ApplyGlobalNotifiers, EachPrinter
<1>4. /\ ApplyGlobalNotifiers(f) \in Config
      /\ ApplyGlobalNotifiers(f).notifiers = f.notifiers
      /\ ApplyGlobalNotifiers(f).discovery = f.discovery
      /\ ApplyGlobalNotifiers(f).printers = ps
  BY <1>2, <1>3 DEF Config
<1> QED BY <1>1, <1>4

\* A printer with its defaults.
Filled(p) == [p EXCEPT !.port = Default(p.port, 8883),
                       !.reconnectDelay = Default(p.reconnectDelay, 30)]

\* The defaults touch the port and the delay only.
LEMMA FilledPrinter ==
  ASSUME NEW p \in PrinterConfig
  PROVE  /\ Filled(p) \in PrinterConfig
         /\ Filled(p).port # 0 /\ Filled(p).reconnectDelay # 0
         /\ Filled(p).serial = p.serial /\ Filled(p).named = p.named
         /\ Filled(p).reachable = p.reachable /\ Filled(p).insecure = p.insecure
         /\ Filled(p).cameraPort = p.cameraPort
         /\ Filled(p).cameraRTSP = p.cameraRTSP
         /\ Filled(p).notifiers = p.notifiers
<1>1. PICK a : a = Default(p.port, 8883)
  OBVIOUS
<1>2. PICK b : b = Default(p.reconnectDelay, 30)
  OBVIOUS
<1>3. a \in Int /\ a # 0 /\ b \in Int /\ b # 0
  <2>1. p.port \in Int /\ p.reconnectDelay \in Int
    BY DEF PrinterConfig
  <2> QED BY <1>1, <1>2, <2>1 DEF Default
<1>4. Filled(p) = [p EXCEPT !.port = a, !.reconnectDelay = b]
  BY <1>1, <1>2 DEF Filled
<1> QED BY <1>3, <1>4 DEF PrinterConfig

\* applyDefaults, on a configuration.
LEMMA DefaultsApplied ==
  ASSUME NEW f \in Config
  PROVE  LET c == ApplyDefaults(f)
         IN  /\ c \in Config
             /\ c.notifiers = f.notifiers /\ c.discovery = f.discovery
             /\ c.printers = [i \in DOMAIN f.printers |-> Filled(f.printers[i])]
<1>1. PICK ps : ps = [i \in DOMAIN f.printers |-> Filled(f.printers[i])]
  OBVIOUS
<1>2. ps \in Seq(PrinterConfig)
  <2>1. f.printers \in Seq(PrinterConfig)
    BY DEF Config
  <2> QED BY <1>1, <2>1, FilledPrinter
<1>3. ApplyDefaults(f) = [f EXCEPT !.printers = ps]
  BY <1>1 DEF ApplyDefaults, EachPrinter, Filled
<1>4. /\ ApplyDefaults(f) \in Config
      /\ ApplyDefaults(f).notifiers = f.notifiers
      /\ ApplyDefaults(f).discovery = f.discovery
      /\ ApplyDefaults(f).printers = ps
  BY <1>2, <1>3 DEF Config
<1> QED BY <1>1, <1>4

\* applyEnvOverrides touches the logging only.
LEMMA EnvOverrides ==
  ASSUME NEW f \in Config, NEW e \in Envs
  PROVE  LET c == ApplyEnvOverrides(f, e)
         IN  /\ c \in Config
             /\ c.notifiers = f.notifiers /\ c.discovery = f.discovery
             /\ c.printers = f.printers
<1>1. PICK log : log = [k \in DOMAIN f.log |->
                          IF e[k] # Unset THEN Lower(e[k]) ELSE f.log[k]]
  OBVIOUS
<1>2. log \in LogConfig
  <2>1. f.log \in LogConfig
    BY DEF Config
  <2>2. \A k \in {"level", "format"} : Lower(e[k]) \in STRING
    <3>1. PICK lower : lower = [k \in {"level", "format"} |-> Lower(e[k])]
      OBVIOUS
    <3>2. lower \in LogConfig
      BY <3>1, LowerAssumption, Zenon
    <3> QED BY <3>1, <3>2 DEF LogConfig
  <2> QED BY <1>1, <2>1, <2>2 DEF LogConfig
<1>3. ApplyEnvOverrides(f, e) = [f EXCEPT !.log = log]
  BY <1>1 DEF ApplyEnvOverrides
<1> QED BY <1>2, <1>3 DEF Config

\* What Load makes of a file.
LEMMA PreparedConfig ==
  ASSUME NEW f \in Config, NEW e \in Envs
  PROVE  LET c == Prepared(f, e)
         IN  /\ c \in Config
             /\ c.notifiers = Combined(f.notifiers, f.flat)
             /\ c.discovery = Flattened(f.discovery)
             /\ DOMAIN c.printers = DOMAIN f.printers
             /\ \A i \in DOMAIN f.printers :
                  /\ c.printers[i].serial = f.printers[i].serial
                  /\ c.printers[i].insecure = f.printers[i].insecure
                  /\ c.printers[i].port # 0 /\ c.printers[i].reconnectDelay # 0
                  /\ c.printers[i].notifiers =
                       Combined(Combined(f.printers[i].notifiers,
                                         f.printers[i].flat),
                                Combined(f.notifiers, f.flat))
<1>1. PICK m : m = MergeFlatNotifiers(f)
  OBVIOUS
<1>2. PICK g : g = ApplyGlobalNotifiers(m)
  OBVIOUS
<1>3. PICK d : d = ApplyDefaults(g)
  OBVIOUS
<1>4. PICK o : o = ApplyEnvOverrides(d, e)
  OBVIOUS
<1>5. /\ m \in Config
      /\ m.notifiers = Combined(f.notifiers, f.flat)
      /\ m.discovery = Flattened(f.discovery)
      /\ m.printers = [i \in DOMAIN f.printers |-> Flattened(f.printers[i])]
  BY <1>1, FlatNotifiersMerged
<1>6. /\ g \in Config
      /\ g.notifiers = m.notifiers /\ g.discovery = m.discovery
      /\ g.printers =
                  [i \in DOMAIN m.printers |->
                     [m.printers[i] EXCEPT !.notifiers =
                        Combined(m.printers[i].notifiers, m.notifiers)]]
  BY <1>2, <1>5, GlobalNotifiersApplied
<1>7. /\ d \in Config
      /\ d.notifiers = g.notifiers /\ d.discovery = g.discovery
      /\ d.printers = [i \in DOMAIN g.printers |-> Filled(g.printers[i])]
  BY <1>3, <1>6, DefaultsApplied
<1>8. /\ o \in Config
      /\ o.notifiers = d.notifiers /\ o.discovery = d.discovery
      /\ o.printers = d.printers
  BY <1>4, <1>7, EnvOverrides
<1>9. ASSUME NEW i \in DOMAIN f.printers
      PROVE  LET p == f.printers[i]
             IN  /\ o.printers[i].serial = p.serial
                 /\ o.printers[i].insecure = p.insecure
                 /\ o.printers[i].port # 0 /\ o.printers[i].reconnectDelay # 0
                 /\ o.printers[i].notifiers =
                      Combined(Combined(p.notifiers, p.flat), m.notifiers)
  <2>1. PICK p : p = f.printers[i]
    OBVIOUS
  <2>2. p \in PrinterConfig
    BY <2>1 DEF Config
  <2>3. PICK q : q = Flattened(p)
    OBVIOUS
  <2>4. q \in PrinterConfig /\ q.notifiers = Combined(p.notifiers, p.flat)
          /\ q.serial = p.serial /\ q.insecure = p.insecure
    BY <2>2, <2>3, FlattenedPrinter
  <2>5. PICK r : r = [q EXCEPT !.notifiers = Combined(q.notifiers, m.notifiers)]
    OBVIOUS
  <2>6. m.printers[i] = q /\ g.printers[i] = r /\ o.printers[i] = Filled(r)
    BY <1>5, <1>6, <1>7, <1>8, <2>1, <2>3, <2>5
  <2>7. m.notifiers \in NotifierLists /\ q.notifiers \in NotifierLists
    BY <1>5, <2>4 DEF Config, PrinterConfig
  <2>8. Combined(q.notifiers, m.notifiers) \in NotifierLists
    BY <2>7, CombinedIsTyped
  <2>9. r \in PrinterConfig
          /\ r.notifiers = Combined(q.notifiers, m.notifiers)
          /\ r.serial = q.serial /\ r.insecure = q.insecure
    BY <2>4, <2>5, <2>8 DEF PrinterConfig
  <2> QED BY <2>1, <2>4, <2>6, <2>9, FilledPrinter
<1>10. DOMAIN o.printers = DOMAIN f.printers
  BY <1>5, <1>6, <1>7, <1>8
<1>11. Prepared(f, e) = o
  BY <1>1, <1>2, <1>3, <1>4 DEF Prepared
<1> QED BY <1>5, <1>6, <1>7, <1>8, <1>9, <1>10, <1>11

-----------------------------------------------------------------------------
(* Discovery. *)

\* What holds once k entries of the storage are read.
CollectedSoFar(s, d, k) ==
  /\ \A j \in 1..Len(d) : \E i \in 1..k :
       s[i].ours /\ s[i].reachable /\ d[j] = Discovered(s[i])
  /\ \A i \in 1..k : s[i].ours /\ s[i].reachable =>
       \E j \in 1..Len(d) : d[j] = Discovered(s[i])

\* Reading one more entry keeps it.
LEMMA CollectingStep ==
  ASSUME NEW s \in Seq(StorageEntry), NEW k \in 1..Len(s),
         NEW d \in Seq(DiscoveredPrinter), CollectedSoFar(s, d, k - 1)
  PROVE  CollectedSoFar(s, Collect(d, s[k]), k)
<1>1. CASE ~(s[k].ours /\ s[k].reachable)
  <2>1. Collect(d, s[k]) = d
    BY <1>1 DEF Collect, Local
  <2>2. CollectedSoFar(s, d, k)
    BY <1>1 DEF CollectedSoFar
  <2> QED BY <2>1, <2>2
<1>2. CASE s[k].ours /\ s[k].reachable
  <2>1. PICK new : new = Discovered(s[k])
    OBVIOUS
  <2>2. new \in DiscoveredPrinter
    BY <2>1, DiscoveredIsTyped
  <2>3. PICK q : q = Append(d, new)
    OBVIOUS
  <2>4. /\ Len(q) = Len(d) + 1 /\ q[Len(d) + 1] = new
        /\ \A j \in 1..Len(d) : q[j] = d[j] /\ j \in 1..Len(q)
    BY <2>2, <2>3
  <2>5. ASSUME NEW j \in 1..Len(q)
        PROVE  \E i \in 1..k :
                 s[i].ours /\ s[i].reachable /\ q[j] = Discovered(s[i])
    <3>1. CASE j = Len(d) + 1
      BY <1>2, <2>1, <2>4, <3>1
    <3>2. CASE j # Len(d) + 1
      <4>1. j \in 1..Len(d)
        BY <2>4, <3>2
      <4> QED BY <2>4, <4>1 DEF CollectedSoFar
    <3> QED BY <3>1, <3>2
  <2>6. ASSUME NEW i \in 1..k, s[i].ours, s[i].reachable
        PROVE  \E j \in 1..Len(q) : q[j] = Discovered(s[i])
    <3>1. CASE i = k
      <4>1. Len(d) + 1 \in 1..Len(q)
        BY <2>4
      <4> QED BY <2>1, <2>4, <3>1, <4>1
    <3>2. CASE i # k
      <4>1. i \in 1..(k - 1)
        BY <3>2
      <4>2. PICK j \in 1..Len(d) : d[j] = Discovered(s[i])
        BY <2>6, <4>1 DEF CollectedSoFar
      <4> QED BY <2>4, <4>2
    <3> QED BY <3>1, <3>2
  <2>7. CollectedSoFar(s, q, k)
    BY <2>5, <2>6 DEF CollectedSoFar
  <2>8. Collect(d, s[k]) = q
    BY <1>2, <2>1, <2>3 DEF Collect, Local
  <2> QED BY <2>7, <2>8
<1> QED BY <1>1, <1>2

\* So it holds of what Printers returns.
LEMMA AllCollected ==
  ASSUME NEW s \in Seq(StorageEntry)
  PROVE  /\ Printers(s) \in Seq(DiscoveredPrinter)
         /\ CollectedSoFar(s, Printers(s), Len(s))
<1> DEFINE S == {k \in 0..Len(s) : CollectedSoFar(s, Collected(s)[k], k)}
<1>1. Len(s) \in Nat
  OBVIOUS
<1>2. 0 \in S
  <2>1. CollectedSoFar(s, <<>>, 0)
    BY DEF CollectedSoFar
  <2> QED BY <1>1, <2>1, CollectedStepwise
<1>3. ASSUME NEW k \in 1..Len(s), k - 1 \in S PROVE k \in S
  <2>1. k - 1 \in 0..Len(s)
    BY <1>1
  <2>2. /\ Collected(s)[k] = Collect(Collected(s)[k - 1], s[k])
        /\ Collected(s)[k - 1] \in Seq(DiscoveredPrinter)
    BY <2>1, CollectedStepwise
  <2> QED BY <1>1, <1>3, <2>2, CollectingStep
<1>4. 0..Len(s) \subseteq S
  <2> HIDE DEF S
  <2> QED BY <1>1, <1>2, <1>3, InductionUpTo
<1>5. Len(s) \in S
  BY <1>1, <1>4
<1> QED BY <1>1, <1>5, CollectedStepwise DEF Printers

\* The entries of a storage that Printers returns.
LocalEntries(s) == {e \in ToSet(s) : e.ours /\ e.reachable}

\* They are entries with a host and an access code.
LEMMA LocalEntriesAreTyped ==
  ASSUME NEW s \in Seq(StorageEntry), NEW e \in LocalEntries(s)
  PROVE  e \in StorageEntry /\ e.reachable
BY DEF LocalEntries, ToSet

\* Printers returns the local entries, with their serial numbers.
LEMMA PrintersOfStorage ==
  ASSUME NEW s \in Seq(StorageEntry)
  PROVE  /\ Printers(s) \in Seq(DiscoveredPrinter)
         /\ {Printers(s)[j].serial : j \in 1..Len(Printers(s))}
               = {SerialInStorage(e) : e \in LocalEntries(s)}
         /\ \A j \in 1..Len(Printers(s)) : \E e \in LocalEntries(s) :
               Printers(s)[j] = Discovered(e)
<1>1. PICK d : d = Printers(s)
  OBVIOUS
<1>2. d \in Seq(DiscoveredPrinter) /\ CollectedSoFar(s, d, Len(s))
  BY <1>1, AllCollected
<1>3. \A e : Discovered(e).serial = SerialInStorage(e)
  BY DEF Discovered, SerialInStorage
<1>4. LocalEntries(s) = {s[i] : i \in {i \in 1..Len(s) :
                                          s[i].ours /\ s[i].reachable}}
  BY DEF LocalEntries, ToSet
<1>5. ASSUME NEW e \in LocalEntries(s)
      PROVE  \E j \in 1..Len(d) : SerialInStorage(e) = d[j].serial
  BY <1>2, <1>3, <1>4 DEF CollectedSoFar
<1>6. ASSUME NEW j \in 1..Len(d)
      PROVE  \E e \in LocalEntries(s) :
               d[j] = Discovered(e) /\ d[j].serial = SerialInStorage(e)
  <2>1. PICK i \in 1..Len(s) :
           s[i].ours /\ s[i].reachable /\ d[j] = Discovered(s[i])
    BY <1>2 DEF CollectedSoFar
  <2>2. s[i] \in LocalEntries(s)
    BY <1>4, <2>1
  <2> QED BY <1>3, <2>1, <2>2
<1>7. {d[j].serial : j \in 1..Len(d)} = {SerialInStorage(e) : e \in LocalEntries(s)}
  BY ONLY <1>5, <1>6
<1> QED BY <1>1, <1>2, <1>6, <1>7

\* MergeDiscovered keeps the printers that it was given.
LEMMA DiscoveredMerged ==
  ASSUME NEW c \in Config, NEW ds \in Seq(DiscoveredPrinter)
  PROVE  LET m == MergeDiscovered(c, ds)
         IN  /\ m \in Config
             /\ m.printers = [i \in DOMAIN Added(c, ds)[Len(ds)] |->
                                Filled(Added(c, ds)[Len(ds)][i])]
             /\ m.discovery = c.discovery /\ m.notifiers = c.notifiers
<1>1. PICK a : a = Added(c, ds)[Len(ds)]
  OBVIOUS
<1>2. a \in Seq(PrinterConfig)
  BY <1>1, AllAdded
<1>3. PICK x : x = Merged(c, ds)
  OBVIOUS
<1>4. x = [c EXCEPT !.printers = a]
  BY <1>1, <1>3 DEF Merged
<1>5. x \in Config /\ x.printers = a
        /\ x.discovery = c.discovery /\ x.notifiers = c.notifiers
  BY <1>2, <1>4 DEF Config
<1>6. MergeDiscovered(c, ds) = ApplyDefaults(x)
  BY <1>3 DEF MergeDiscovered
<1> QED BY <1>1, <1>5, <1>6, DefaultsApplied

\* What discovery adds to the printers of a configuration.
LEMMA MergedPrinters ==
  ASSUME NEW c \in Config, NEW s \in Seq(StorageEntry),
         NEW m, m = MergeDiscovered(c, Printers(s))
  PROVE  /\ m \in Config
         /\ \A i \in DOMAIN c.printers :
              i \in DOMAIN m.printers /\ m.printers[i] = Filled(c.printers[i])
         /\ \A i \in DOMAIN m.printers \ DOMAIN c.printers :
              \E e \in LocalEntries(s) :
                m.printers[i] = Filled(Imported(c, Discovered(e)))
         /\ \A i, j \in DOMAIN m.printers :
              i # j /\ m.printers[i].serial = m.printers[j].serial
                => i \in DOMAIN c.printers /\ j \in DOMAIN c.printers
         /\ SerialsOf(m.printers)
              = SerialsOf(c.printers)
                  \cup {SerialInStorage(e) : e \in LocalEntries(s)}
<1>1. PICK ds : ds = Printers(s)
  OBVIOUS
<1>2. /\ ds \in Seq(DiscoveredPrinter)
      /\ {ds[j].serial : j \in 1..Len(ds)}
           = {SerialInStorage(e) : e \in LocalEntries(s)}
      /\ \A j \in 1..Len(ds) : \E e \in LocalEntries(s) : ds[j] = Discovered(e)
  BY <1>1, PrintersOfStorage
<1>3. PICK a : a = Added(c, ds)[Len(ds)]
  OBVIOUS
<1>4. a \in Seq(PrinterConfig) /\ AddedSoFar(c, ds, a, Len(ds))
  BY <1>2, <1>3, AllAdded
<1>5. m = MergeDiscovered(c, ds)
  BY <1>1
<1>6. m \in Config /\ m.printers = [i \in DOMAIN a |-> Filled(a[i])]
  BY <1>2, <1>3, <1>5, DiscoveredMerged
<1>7. PICK p : p = m.printers
  OBVIOUS
<1>8. /\ DOMAIN p = DOMAIN a /\ DOMAIN a = 1..Len(a)
      /\ \A i \in DOMAIN a : p[i] = Filled(a[i]) /\ p[i].serial = a[i].serial
  BY <1>4, <1>6, <1>7, FilledPrinter
<1>9. PICK old : old = c.printers
  OBVIOUS
<1>10. old \in Seq(PrinterConfig) /\ DOMAIN old = 1..Len(old)
  BY <1>9 DEF Config
<1>11. /\ Len(old) <= Len(a)
       /\ \A i \in 1..Len(old) : a[i] = old[i]
       /\ \A i \in (Len(old) + 1)..Len(a) :
            \E j \in 1..Len(ds) : a[i] = Imported(c, ds[j])
       /\ SerialsOf(a) = SerialsOf(old) \cup {ds[j].serial : j \in 1..Len(ds)}
       /\ \A i, j \in 1..Len(a) :
            i # j /\ a[i].serial = a[j].serial => i <= Len(old) /\ j <= Len(old)
  BY <1>4, <1>9 DEF AddedSoFar
<1>12. ASSUME NEW i \in DOMAIN old
       PROVE  i \in DOMAIN p /\ p[i] = Filled(old[i])
  BY <1>4, <1>8, <1>10, <1>11
<1>13. ASSUME NEW i \in DOMAIN p \ DOMAIN old
       PROVE  \E e \in LocalEntries(s) : p[i] = Filled(Imported(c, Discovered(e)))
  <2>1. i \in DOMAIN a /\ i \in (Len(old) + 1)..Len(a)
    BY <1>4, <1>8, <1>10
  <2>2. PICK j \in 1..Len(ds) : a[i] = Imported(c, ds[j])
    BY <1>11, <2>1
  <2>3. PICK e \in LocalEntries(s) : ds[j] = Discovered(e)
    BY <1>2
  <2> QED BY <1>8, <2>1, <2>2, <2>3
<1>14. ASSUME NEW i \in DOMAIN p, NEW j \in DOMAIN p,
              i # j, p[i].serial = p[j].serial
       PROVE  i \in DOMAIN old /\ j \in DOMAIN old
  BY <1>4, <1>8, <1>10, <1>11, <1>14
<1>15. SerialsOf(p) = SerialsOf(a)
  BY <1>8 DEF SerialsOf
<1>16. SerialsOf(p) = SerialsOf(old)
                        \cup {SerialInStorage(e) : e \in LocalEntries(s)}
  BY <1>2, <1>11, <1>15, Zenon
<1>17. ASSUME NEW i \in DOMAIN m.printers, NEW j \in DOMAIN m.printers,
              i # j, m.printers[i].serial = m.printers[j].serial
       PROVE  i \in DOMAIN c.printers /\ j \in DOMAIN c.printers
  BY <1>7, <1>9, <1>14, <1>17
<1>18. \A i \in DOMAIN c.printers :
         i \in DOMAIN m.printers /\ m.printers[i] = Filled(c.printers[i])
  BY <1>7, <1>9, <1>12
<1>19. \A i \in DOMAIN m.printers \ DOMAIN c.printers : \E e \in LocalEntries(s) :
         m.printers[i] = Filled(Imported(c, Discovered(e)))
  BY <1>7, <1>9, <1>13
<1>20. SerialsOf(m.printers) = SerialsOf(c.printers)
         \cup {SerialInStorage(e) : e \in LocalEntries(s)}
  BY <1>7, <1>9, <1>16, Zenon
<1> QED BY <1>6, <1>17, <1>18, <1>19, <1>20, Zenon

-----------------------------------------------------------------------------
(* The configuration that the printers are built from, from the inputs. *)

\* The configuration that run() builds the printers from.
Complete ==
  IF DiscoveryWorks THEN MergeDiscovered(Prepared(file, env), Printers(storage))
                    ELSE Prepared(file, env)

\* buildPrinters.
DaemonsOf(c) ==
  [i \in DOMAIN c.printers |->
     [config    |-> c.printers[i],
      notifiers |-> Built(c.printers[i].notifiers)]]

\* What is known of the inputs once the file is loaded.
InputsTyped ==
  /\ file \in Config /\ env \in Envs
  /\ storage = Unreadable \/ storage \in Seq(StorageEntry)

\* The printers that run() builds: those of the file, then the ones of the
\* storage that the file has not.
LEMMA CompletePrinters ==
  ASSUME InputsTyped
  PROVE  /\ Complete \in Config
         /\ \A i \in DOMAIN Prepared(file, env).printers :
              /\ i \in DOMAIN Complete.printers
              /\ \/ Complete.printers[i] = Prepared(file, env).printers[i]
                 \/ Complete.printers[i]
                      = Filled(Prepared(file, env).printers[i])
         /\ \A i \in DOMAIN Complete.printers :
              i \notin DOMAIN Prepared(file, env).printers =>
                /\ DiscoveryWorks
                /\ \E e \in LocalEntries(storage) :
                     Complete.printers[i]
                       = Filled(Imported(Prepared(file, env), Discovered(e)))
         /\ \A i, j \in DOMAIN Complete.printers :
              i # j /\ Complete.printers[i].serial = Complete.printers[j].serial
                => /\ i \in DOMAIN Prepared(file, env).printers
                   /\ j \in DOMAIN Prepared(file, env).printers
         /\ SerialsOf(Complete.printers)
              = SerialsOf(Prepared(file, env).printers)
                  \cup (IF DiscoveryWorks
                          THEN {SerialInStorage(e) : e \in Importable} ELSE {})
<1>1. PICK c : c = Prepared(file, env)
  OBVIOUS
<1>2. c \in Config
  BY <1>1, PreparedConfig DEF InputsTyped
<1>3. CASE DiscoveryWorks
  <2>1. storage \in Seq(StorageEntry)
    BY <1>3 DEF DiscoveryWorks, InputsTyped
  <2>2. PICK m : m = MergeDiscovered(c, Printers(storage))
    OBVIOUS
  <2>3. Complete = m
    BY <1>1, <1>3, <2>2 DEF Complete
  <2>4. LocalEntries(storage) = Importable
    BY DEF LocalEntries, Importable
  <2>5. /\ m \in Config
        /\ \A i \in DOMAIN c.printers :
             i \in DOMAIN m.printers /\ m.printers[i] = Filled(c.printers[i])
        /\ \A i \in DOMAIN m.printers \ DOMAIN c.printers :
             \E e \in LocalEntries(storage) :
               m.printers[i] = Filled(Imported(c, Discovered(e)))
        /\ \A i, j \in DOMAIN m.printers :
             i # j /\ m.printers[i].serial = m.printers[j].serial
               => i \in DOMAIN c.printers /\ j \in DOMAIN c.printers
        /\ SerialsOf(m.printers)
             = SerialsOf(c.printers)
                 \cup {SerialInStorage(e) : e \in LocalEntries(storage)}
    BY <1>2, <2>1, <2>2, MergedPrinters
  <2> QED BY <1>1, <1>3, <2>3, <2>4, <2>5
<1>4. CASE ~DiscoveryWorks
  <2>1. Complete = c
    BY <1>1, <1>4 DEF Complete
  <2> QED BY <1>1, <1>2, <1>4, <2>1
<1> QED BY <1>3, <1>4

-----------------------------------------------------------------------------
(* How often a notifier is in a list. *)

\* Occurrences add up over an append ...
LEMMA OccurrencesAdd ==
  ASSUME NEW a \in Seq(NotifierConfig), NEW b \in Seq(NotifierConfig), NEW n
  PROVE  /\ Occurrences(a, n) \in Nat
         /\ Occurrences(a \o b, n) = Occurrences(a, n) + Occurrences(b, n)
<1>1. PICK A : A = {i \in DOMAIN a : a[i] = n}
  OBVIOUS
<1>2. PICK B : B = {i \in DOMAIN b : b[i] = n}
  OBVIOUS
<1>3. PICK C : C = {Len(a) + i : i \in B}
  OBVIOUS
<1>4. PICK ab : ab = a \o b
  OBVIOUS
<1>5. /\ A \subseteq 1..Len(a) /\ B \subseteq 1..Len(b)
      /\ Len(a) \in Nat /\ Len(b) \in Nat
      /\ DOMAIN ab = 1..(Len(a) + Len(b))
      /\ \A i \in 1..Len(a) : ab[i] = a[i]
      /\ \A i \in 1..Len(b) : ab[Len(a) + i] = b[i]
  BY <1>1, <1>2, <1>4
<1>6. {i \in DOMAIN ab : ab[i] = n} = A \cup C
  <2>1. ASSUME NEW i \in DOMAIN ab, ab[i] = n PROVE i \in A \cup C
    <3>1. CASE i <= Len(a)
      BY <1>1, <1>5, <2>1, <3>1
    <3>2. CASE i > Len(a)
      <4>1. i - Len(a) \in 1..Len(b) /\ i = Len(a) + (i - Len(a))
        BY <1>5, <3>2
      <4>2. i - Len(a) \in B
        BY <1>2, <1>5, <2>1, <4>1
      <4> QED BY <1>3, <4>1, <4>2
    <3> QED BY <1>5, <3>1, <3>2
  <2>2. ASSUME NEW i \in A PROVE i \in DOMAIN ab /\ ab[i] = n
    BY <1>1, <1>5
  <2>3. ASSUME NEW i \in B PROVE Len(a) + i \in DOMAIN ab /\ ab[Len(a) + i] = n
    BY <1>2, <1>5
  <2> QED BY <1>3, <2>1, <2>2, <2>3
<1>7. IsFiniteSet(A) /\ IsFiniteSet(B)
  <2>1. IsFiniteSet(1..Len(a)) /\ IsFiniteSet(1..Len(b))
    BY <1>5, FS_Interval
  <2> QED BY <1>5, <2>1, FS_Subset
<1>8. IsFiniteSet(C) /\ Cardinality(C) = Cardinality(B)
  <2>1. PICK f : f = [i \in B |-> Len(a) + i]
    OBVIOUS
  <2>2. f \in Bijection(B, C)
    <3>1. f \in [B -> C]
      BY <1>3, <2>1
    <3>2. \A i, j \in B : f[i] = f[j] => i = j
      BY <1>5, <2>1
    <3>3. \A k \in C : \E i \in B : f[i] = k
      BY <1>3, <2>1
    <3> QED BY <3>1, <3>2, <3>3, Fun_IsBij
  <2>3. ExistsBijection(B, C)
    BY <2>2 DEF ExistsBijection
  <2> QED BY <1>7, <2>3, FS_Bijection
<1>9. A \cap C = {}
  BY <1>3, <1>5
<1>10. Cardinality(A \cup C) = Cardinality(A) + Cardinality(B)
  <2>1. Cardinality(A) \in Nat /\ Cardinality(C) \in Nat
    BY <1>7, <1>8, FS_CardinalityType
  <2>2. Cardinality(A \cap C) = 0
    BY <1>9, FS_EmptySet
  <2>3. Cardinality(A \cup C)
          = Cardinality(A) + Cardinality(C) - Cardinality(A \cap C)
    BY <1>7, <1>8, FS_Union
  <2> QED BY <1>8, <2>1, <2>2, <2>3
<1>11. Cardinality(A) \in Nat
  BY <1>7, FS_CardinalityType
<1> QED BY <1>1, <1>2, <1>4, <1>6, <1>10, <1>11 DEF Occurrences

\* (buildNotifiers makes a list of notifiers)
LEMMA BuiltIsTyped ==
  ASSUME NEW x \in NotifierLists PROVE Built(x) \in Seq(NotifierConfig)
BY DEF NotifierLists, Services, Built

\* ... and so over combined lists, whichever service a notifier is of.
LEMMA OccurrencesCombined ==
  ASSUME NEW x \in NotifierLists, NEW y \in NotifierLists, NEW n
  PROVE  /\ Occurrences(Built(x), n) \in Nat
         /\ Occurrences(Built(Combined(x, y)), n)
              = Occurrences(Built(x), n) + Occurrences(Built(y), n)
<1> DEFINE count(l) == Occurrences(l, n)
<1>1. /\ x["discord"] \in Seq(NotifierConfig) /\ y["discord"] \in Seq(NotifierConfig)
      /\ x["slack"] \in Seq(NotifierConfig) /\ y["slack"] \in Seq(NotifierConfig)
      /\ x["telegram"] \in Seq(NotifierConfig)
      /\ y["telegram"] \in Seq(NotifierConfig)
  BY DEF NotifierLists, Services
<1>2. ASSUME NEW z \in NotifierLists
      PROVE  count(Built(z)) = count(z["discord"]) + count(z["slack"])
                                 + count(z["telegram"])
  <2>1. /\ z["discord"] \in Seq(NotifierConfig)
        /\ z["slack"] \in Seq(NotifierConfig)
        /\ z["telegram"] \in Seq(NotifierConfig)
    BY DEF NotifierLists, Services
  <2>2. z["discord"] \o z["slack"] \in Seq(NotifierConfig)
    BY <2>1
  <2>3. /\ count(z["discord"] \o z["slack"])
             = count(z["discord"]) + count(z["slack"])
        /\ count((z["discord"] \o z["slack"]) \o z["telegram"])
             = count(z["discord"] \o z["slack"]) + count(z["telegram"])
    <3>1. \A a, b \in Seq(NotifierConfig) : count(a \o b) = count(a) + count(b)
      BY OccurrencesAdd
    <3> HIDE DEF count
    <3> QED BY <2>1, <2>2, <3>1, Zenon
  <2>4. Built(z) = (z["discord"] \o z["slack"]) \o z["telegram"]
    BY DEF Built
  <2> HIDE DEF count
  <2> QED BY <2>3, <2>4, Zenon
<1>3. Combined(x, y) \in NotifierLists
  BY CombinedIsTyped
<1>4. /\ Combined(x, y)["discord"] = x["discord"] \o y["discord"]
      /\ Combined(x, y)["slack"] = x["slack"] \o y["slack"]
      /\ Combined(x, y)["telegram"] = x["telegram"] \o y["telegram"]
  <2>1. \A s \in Services : Combined(x, y)[s] = x[s] \o y[s]
    BY DEF Combined
  <2>2. "discord" \in Services /\ "slack" \in Services /\ "telegram" \in Services
    BY DEF Services
  <2> QED BY <2>1, <2>2, Zenon
<1>5. /\ count(x["discord"] \o y["discord"])
           = count(x["discord"]) + count(y["discord"])
      /\ count(x["slack"] \o y["slack"]) = count(x["slack"]) + count(y["slack"])
      /\ count(x["telegram"] \o y["telegram"])
           = count(x["telegram"]) + count(y["telegram"])
  <2>1. \A a, b \in Seq(NotifierConfig) : count(a \o b) = count(a) + count(b)
    BY OccurrencesAdd
  <2> HIDE DEF count
  <2> QED BY <1>1, <2>1, Zenon
<1>6. /\ count(x["discord"]) \in Nat /\ count(y["discord"]) \in Nat
      /\ count(x["slack"]) \in Nat /\ count(y["slack"]) \in Nat
      /\ count(x["telegram"]) \in Nat /\ count(y["telegram"]) \in Nat
  BY <1>1, OccurrencesAdd
<1>7. count(Built(Combined(x, y)))
        = (count(x["discord"]) + count(y["discord"]))
            + (count(x["slack"]) + count(y["slack"]))
            + (count(x["telegram"]) + count(y["telegram"]))
  BY <1>2, <1>3, <1>4, <1>5
<1> HIDE DEF count
<1>8. /\ count(Built(x)) \in Nat
      /\ count(Built(Combined(x, y))) = count(Built(x)) + count(Built(y))
  BY <1>2, <1>6, <1>7
<1> QED BY <1>8 DEF count

-----------------------------------------------------------------------------
(* The invariant: what cfg and daemons are in each phase, as functions of  *)
(* the inputs.                                                             *)

\* The files and environments that Load accepts.
Loadable == {x \in Files \X Envs : Accepted(x[1], x[2])}

\* The inductive invariant: cfg is always what the functions of the inputs
\* say, and daemons is what buildPrinters makes of it.
StartupInv ==
  /\ file \in Files /\ storage \in Storages /\ env \in Envs
  /\ phase \in Phases
  /\ found \in Seq(DiscoveredPrinter)
  /\ phase = "start" => cfg = NotLoaded
  /\ phase \in {"loaded", "discovered", "running"} => <<file, env>> \in Loadable
  /\ phase = "loaded" => cfg = Prepared(file, env)
  /\ phase \in {"discovered", "running"} => cfg = Complete
  /\ phase = "running" => cfg.printers # <<>> /\ daemons = DaemonsOf(cfg)
  /\ phase # "running" => daemons = <<>>
  /\ phase = "failed" =>
       \/ cfg = NotLoaded /\ <<file, env>> \notin Loadable
       \/ cfg = Complete /\ cfg.printers = <<>> /\ <<file, env>> \in Loadable

\* Loadable is Accepted.
LEMMA AcceptedIsLoadable ==
  ASSUME NEW f \in Files, NEW e \in Envs
  PROVE  Accepted(f, e) <=> <<f, e>> \in Loadable
<1>1. <<f, e>> \in Files \X Envs /\ <<f, e>>[1] = f /\ <<f, e>>[2] = e
  OBVIOUS
<1> QED BY <1>1, Zenon DEF Loadable

\* Inputs that are accepted have the types of the decoders.
LEMMA LoadableInputs ==
  ASSUME file \in Files, storage \in Storages, env \in Envs,
         <<file, env>> \in Loadable
  PROVE  InputsTyped
<1>1. Accepted(file, env)
  BY AcceptedIsLoadable, Zenon
<1>2. file # Unreadable
  BY <1>1, Zenon DEF Accepted
<1> QED BY ONLY <1>2, file \in Files, storage \in Storages, env \in Envs,
               FilesAssumption, StoragesAssumption
        DEF InputsTyped

\* Every action keeps it.
LEMMA StartupStep ==
  ASSUME StartupInv, [StartupNext]_startupVars PROVE StartupInv'
<1> USE DEF StartupInv, Phases
<1>1. CASE LoadFails
  <2>1. <<file, env>> \notin Loadable
    BY <1>1, AcceptedIsLoadable, Zenon DEF LoadFails
  <2>2. /\ phase = "start" /\ phase' = "failed"
        /\ UNCHANGED <<file, storage, env, cfg, found, daemons>>
    BY <1>1, Zenon DEF LoadFails
  <2> QED BY ONLY StartupInv, <2>1, <2>2
<1>2. CASE LoadSucceeds
  <2>1. <<file, env>> \in Loadable
    BY <1>2, AcceptedIsLoadable, Zenon DEF LoadSucceeds
  <2>2. /\ phase = "start" /\ phase' = "loaded" /\ cfg' = Prepared(file, env)
        /\ UNCHANGED <<file, storage, env, found, daemons>>
    BY <1>2, Zenon DEF LoadSucceeds
  <2> QED BY ONLY StartupInv, <2>1, <2>2
<1>3. CASE DiscoverySkipped
  <2>1. cfg = Prepared(file, env) /\ InputsTyped
    BY <1>3, LoadableInputs DEF DiscoverySkipped
  <2>2. cfg.discovery.enabled = file.discovery.enabled
    BY <2>1, PreparedConfig, FlattenedDiscovery DEF InputsTyped, Config
  <2>3. Complete = Prepared(file, env)
    BY <1>3, <2>2 DEF DiscoverySkipped, Complete, DiscoveryWorks
  <2>4. Complete' = Complete
    BY <1>3 DEF DiscoverySkipped, Complete, DiscoveryWorks
  <2> QED BY <1>3, <2>1, <2>3, <2>4 DEF DiscoverySkipped
<1>4. CASE DiscoveryMerges
  <2>1. cfg = Prepared(file, env) /\ InputsTyped
    BY <1>4, LoadableInputs DEF DiscoveryMerges
  <2>2. cfg.discovery.enabled = file.discovery.enabled
    BY <2>1, PreparedConfig, FlattenedDiscovery DEF InputsTyped, Config
  <2>3. storage \in Seq(StorageEntry)
    BY <1>4, <2>1 DEF DiscoveryMerges, InputsTyped
  <2>4. found' = Printers(storage) /\ found' \in Seq(DiscoveredPrinter)
    BY <1>4, <2>3, PrintersOfStorage DEF DiscoveryMerges
  <2>5. cfg' = Complete
    BY <1>4, <2>1, <2>2, <2>4 DEF DiscoveryMerges, Complete, DiscoveryWorks
  <2>6. Complete' = Complete
    BY <1>4 DEF DiscoveryMerges, Complete, DiscoveryWorks
  <2> QED BY <1>4, <2>4, <2>5, <2>6 DEF DiscoveryMerges
<1>5. CASE NoPrinters
  <2>1. Complete' = Complete
    BY <1>5 DEF NoPrinters, Complete, DiscoveryWorks
  <2> QED BY <1>5, <2>1 DEF NoPrinters
<1>6. CASE BuildPrinters
  <2>1. Complete' = Complete /\ daemons' = DaemonsOf(cfg) /\ cfg' = cfg
    BY <1>6 DEF BuildPrinters, Complete, DiscoveryWorks, DaemonsOf
  <2> QED BY <1>6, <2>1 DEF BuildPrinters
<1>7. CASE UNCHANGED startupVars
  <2>1. Complete' = Complete
    BY <1>7 DEF startupVars, Complete, DiscoveryWorks
  <2> QED BY <1>7, <2>1 DEF startupVars
<1> QED BY <1>1, <1>2, <1>3, <1>4, <1>5, <1>6, <1>7
        DEF StartupNext, Over

\* The invariant of the startup, in every reachable state.
LEMMA StartupInvariant == StartupSpec => []StartupInv
<1>1. StartupInit => StartupInv
  BY DEF StartupInit, StartupInv, Phases
<1> QED BY <1>1, StartupStep, PTL DEF StartupSpec

\* buildPrinters makes daemons.
LEMMA DaemonsAreTyped ==
  ASSUME NEW c \in Config, c.printers # <<>>
  PROVE  /\ DaemonsOf(c) \in Seq([config : PrinterConfig,
                                  notifiers : Seq(NotifierConfig)])
         /\ DaemonsOf(c) # <<>>
<1>1. PICK ps : ps = c.printers
  OBVIOUS
<1>2. ps \in Seq(PrinterConfig) /\ ps # <<>>
  BY <1>1 DEF Config
<1>8. DOMAIN ps # {}
  <2>1. DOMAIN ps = 1..Len(ps) /\ Len(ps) \in Nat
    BY <1>2
  <2>2. Len(ps) # 0
    BY ONLY <1>2, EmptySeq
  <2> QED BY <2>1, <2>2
<1>3. PICK D : D = [config : PrinterConfig, notifiers : Seq(NotifierConfig)]
  OBVIOUS
<1>4. ASSUME NEW p \in PrinterConfig
      PROVE  [config |-> p, notifiers |-> Built(p.notifiers)] \in D
  BY <1>3, BuiltIsTyped DEF PrinterConfig
<1>5. PICK ds : ds = [i \in DOMAIN ps |->
                        [config |-> ps[i], notifiers |-> Built(ps[i].notifiers)]]
  OBVIOUS
<1>6. ds \in Seq(D) /\ DOMAIN ds = DOMAIN ps
  BY <1>2, <1>4, <1>5
<1>7. ds # <<>>
  BY <1>6, <1>8
<1> QED BY <1>1, <1>3, <1>5, <1>6, <1>7 DEF DaemonsOf

-----------------------------------------------------------------------------
(* The properties. *)

\* cfg and daemons keep their types, and a configuration is there from Load
\* on (config.Config, printer.Config).
THEOREM StartupTypeCorrect == StartupSpec => []StartupTypeOK
<1>1. ASSUME StartupInv PROVE StartupTypeOK
  <2> USE <1>1 DEF StartupInv
  <2>1. cfg \in Config \cup {NotLoaded}
          /\ (phase \in {"loaded", "discovered", "running"} => cfg # NotLoaded)
    <3>1. CASE <<file, env>> \in Loadable
      <4>1. InputsTyped
        BY <3>1, LoadableInputs
      <4>2. Prepared(file, env) \in Config /\ Complete \in Config
        BY <4>1, PreparedConfig, CompletePrinters DEF InputsTyped
      <4> QED BY <4>2, NotLoadedAssumption DEF Phases
    <3>2. CASE <<file, env>> \notin Loadable
      BY <3>2 DEF Phases
    <3> QED BY <3>1, <3>2
  <2>2. CASE phase = "running"
    <3>1. cfg \in Config /\ cfg.printers # <<>> /\ daemons = DaemonsOf(cfg)
      BY <2>1, <2>2
    <3>2. /\ daemons \in Seq([config : PrinterConfig,
                              notifiers : Seq(NotifierConfig)])
          /\ daemons # <<>>
      BY ONLY <3>1, DaemonsAreTyped
    <3> QED BY <2>1, <2>2, <3>2 DEF StartupTypeOK
  <2>3. CASE phase # "running"
    BY <2>1, <2>3 DEF StartupTypeOK
  <2> QED BY <2>2, <2>3
<1> QED BY <1>1, StartupInvariant, PTL

\* What the invariant says of a running daemon.
LEMMA RunningDaemons ==
  ASSUME StartupInv, phase = "running"
  PROVE  /\ InputsTyped
         /\ DOMAIN daemons = DOMAIN Complete.printers
         /\ \A i \in DOMAIN daemons :
              /\ daemons[i].config = Complete.printers[i]
              /\ daemons[i].notifiers = Built(Complete.printers[i].notifiers)
BY LoadableInputs DEF StartupInv, DaemonsOf

\* Every printer of the file and of discovery has one daemon, and the manual
\* entry counts (Config.MergeDiscovered, config.go:154-203).
THEOREM EveryPrinterStartedOnce == StartupSpec => []EveryPrinterOnce
<1>1. ASSUME StartupInv, phase = "running" PROVE EveryPrinterOnce
  <2>1. InputsTyped
    BY <1>1, RunningDaemons
  <2>2. PICK p : p = Prepared(file, env).printers
    OBVIOUS
  <2>3. PICK c : c = Complete.printers
    OBVIOUS
  <2>4. PICK q : q = file.printers
    OBVIOUS
  <2>5. DOMAIN p = DOMAIN q /\ \A i \in DOMAIN q :
           p[i].serial = q[i].serial /\ p[i].insecure = q[i].insecure
    BY <2>1, <2>2, <2>4, PreparedConfig DEF InputsTyped
  <2>6. \A i \in DOMAIN q : p[i] \in PrinterConfig
    <3>1. p \in Seq(PrinterConfig)
      BY <2>1, <2>2, PreparedConfig DEF InputsTyped, Config
    <3> QED BY <2>5, <3>1
  <2>7. \A i \in DOMAIN q :
           i \in DOMAIN c /\ (c[i] = p[i] \/ c[i] = Filled(p[i]))
    BY <2>1, <2>2, <2>3, <2>5, CompletePrinters
  <2>8. \A i \in DOMAIN q :
           c[i].serial = q[i].serial /\ c[i].insecure = q[i].insecure
    BY <2>5, <2>6, <2>7, FilledPrinter
  <2>9. \A i, j \in DOMAIN c :
           i # j /\ c[i].serial = c[j].serial => i \in DOMAIN q /\ j \in DOMAIN q
    BY <2>1, <2>2, <2>3, <2>5, CompletePrinters
  <2>10. SerialsOf(p) = SerialsOf(q)
    BY <2>5 DEF SerialsOf
  <2>11. SerialsOf(c)
           = SerialsOf(q) \cup (IF DiscoveryWorks
                                 THEN {SerialInStorage(e) : e \in Importable}
                                 ELSE {})
    BY <2>1, <2>2, <2>3, <2>10, CompletePrinters, Zenon
  <2>12. DOMAIN daemons = DOMAIN c /\ \A i \in DOMAIN c : daemons[i].config = c[i]
    BY <1>1, <2>3, RunningDaemons
  <2>13. {daemons[i].config.serial : i \in DOMAIN daemons} = SerialsOf(c)
    BY <2>12 DEF SerialsOf
  <2>14. \A i, j \in DOMAIN daemons :
            i # j /\ daemons[i].config.serial = daemons[j].config.serial
              => Manual(i) /\ Manual(j)
    BY <2>4, <2>9, <2>12 DEF Manual
  <2>15. \A i \in DOMAIN daemons : Manual(i) =>
            /\ daemons[i].config.serial = file.printers[i].serial
            /\ daemons[i].config.insecure = file.printers[i].insecure
    BY <2>4, <2>8, <2>12 DEF Manual
  <2>16. {daemons[i].config.serial : i \in DOMAIN daemons}
           = SerialsOf(file.printers)
               \cup (IF DiscoveryWorks
                        THEN {SerialInStorage(e) : e \in Importable} ELSE {})
    BY <2>4, <2>11, <2>13, Zenon
  <2> QED BY <2>14, <2>15, <2>16, Zenon DEF EveryPrinterOnce
<1>2. ASSUME phase # "running" PROVE EveryPrinterOnce
  BY <1>2, Zenon DEF EveryPrinterOnce
<1>3. StartupInv => EveryPrinterOnce
  BY <1>1, <1>2, Zenon
<1> QED BY <1>3, StartupInvariant, PTL

\* The notifiers of a printer: those of its own lists, nested and flat, and
\* the global ones.
LEMMA NotifiersOfPrinter ==
  ASSUME InputsTyped, NEW i \in DOMAIN Complete.printers
  PROVE  LET own == IF Manual(i) THEN file.printers[i] ELSE file.discovery
         IN  Complete.printers[i].notifiers
               = Combined(Combined(own.notifiers, own.flat),
                          Combined(file.notifiers, file.flat))
<1>1. PICK c : c = Prepared(file, env)
  OBVIOUS
<1>2. /\ c \in Config
      /\ c.notifiers = Combined(file.notifiers, file.flat)
      /\ c.discovery = Flattened(file.discovery)
      /\ DOMAIN c.printers = DOMAIN file.printers
      /\ \A j \in DOMAIN file.printers :
           c.printers[j].notifiers =
             Combined(Combined(file.printers[j].notifiers, file.printers[j].flat),
                      Combined(file.notifiers, file.flat))
  BY <1>1, PreparedConfig DEF InputsTyped
<1>3. CASE i \in DOMAIN file.printers
  <2>1. c.printers[i] \in PrinterConfig
    <3>1. c.printers \in Seq(PrinterConfig)
      BY <1>2 DEF Config
    <3> QED BY <1>2, <1>3, <3>1
  <2>2. Complete.printers[i] = c.printers[i]
          \/ Complete.printers[i] = Filled(c.printers[i])
    BY <1>1, <1>2, <1>3, CompletePrinters
  <2>3. Complete.printers[i].notifiers = c.printers[i].notifiers
    BY <2>1, <2>2, FilledPrinter
  <2> QED BY <1>2, <1>3, <2>3 DEF Manual
<1>4. CASE i \notin DOMAIN file.printers
  <2>1. PICK e \in LocalEntries(storage) :
          Complete.printers[i] = Filled(Imported(c, Discovered(e)))
    BY <1>1, <1>2, <1>4, CompletePrinters
  <2>2. e \in StorageEntry
    <3>1. DiscoveryWorks
      BY <1>1, <1>2, <1>4, CompletePrinters
    <3>2. storage \in Seq(StorageEntry)
      BY <3>1 DEF DiscoveryWorks, InputsTyped
    <3> QED BY <3>2, LocalEntriesAreTyped
  <2>3. Imported(c, Discovered(e)) \in PrinterConfig
    BY <1>2, <2>2, DiscoveredIsTyped, ImportedIsTyped
  <2>4. Complete.printers[i].notifiers = Combined(c.discovery.notifiers, c.notifiers)
    BY <2>1, <2>3, FilledPrinter DEF Imported
  <2>5. c.discovery.notifiers
          = Combined(file.discovery.notifiers, file.discovery.flat)
    BY <1>2, FlattenedDiscovery DEF InputsTyped, Config
  <2> QED BY <1>2, <1>4, <2>4, <2>5 DEF Manual
<1> QED BY <1>3, <1>4

\* How often a notifier is in four combined lists.
LEMMA OccurrencesOfLists ==
  ASSUME NEW a \in NotifierLists, NEW b \in NotifierLists,
         NEW g \in NotifierLists, NEW h \in NotifierLists, NEW n
  PROVE  Occurrences(Built(Combined(Combined(a, b), Combined(g, h))), n)
           = (Occurrences(Built(a), n) + Occurrences(Built(b), n))
               + (Occurrences(Built(g), n) + Occurrences(Built(h), n))
<1>1. Combined(a, b) \in NotifierLists /\ Combined(g, h) \in NotifierLists
  BY CombinedIsTyped
<1> QED BY <1>1, OccurrencesCombined

\* Every printer has each notifier of its own lists and of the global ones as
\* often as the file names it (mergeFlatNotifiers, applyGlobalNotifiers,
\* Config.MergeDiscovered, buildNotifiers).
THEOREM EveryNotifierBuiltOnce == StartupSpec => []EveryNotifierOnce
<1>1. ASSUME StartupInv, phase = "running", NEW i \in DOMAIN daemons, NEW n
      PROVE  LET own == IF Manual(i) THEN file.printers[i] ELSE file.discovery
             IN  Occurrences(daemons[i].notifiers, n)
                   = Configured(own, n) + Configured(file, n)
  <2>1. PICK own : own = IF Manual(i) THEN file.printers[i] ELSE file.discovery
    OBVIOUS
  <2>2. InputsTyped
    BY <1>1, RunningDaemons
  <2>3. own.notifiers \in NotifierLists /\ own.flat \in NotifierLists
    <3>1. CASE Manual(i)
      <4>1. own \in PrinterConfig
        BY <2>1, <2>2, <3>1 DEF Manual, InputsTyped, Config
      <4> QED BY <4>1 DEF PrinterConfig
    <3>2. CASE ~Manual(i)
      <4>1. own \in DiscoveryConfig
        BY <2>1, <2>2, <3>2 DEF InputsTyped, Config
      <4> QED BY <4>1 DEF DiscoveryConfig
    <3> QED BY <3>1, <3>2
  <2>4. file.notifiers \in NotifierLists /\ file.flat \in NotifierLists
    BY <2>2 DEF InputsTyped, Config
  <2>5. daemons[i].notifiers
          = Built(Combined(Combined(own.notifiers, own.flat),
                           Combined(file.notifiers, file.flat)))
    <3>1. i \in DOMAIN Complete.printers
            /\ daemons[i].notifiers = Built(Complete.printers[i].notifiers)
      BY <1>1, RunningDaemons
    <3> QED BY <2>1, <2>2, <3>1, NotifiersOfPrinter
  <2>6. Occurrences(Built(Combined(Combined(own.notifiers, own.flat),
                                   Combined(file.notifiers, file.flat))), n)
          = (Occurrences(Built(own.notifiers), n) + Occurrences(Built(own.flat), n))
              + (Occurrences(Built(file.notifiers), n)
                   + Occurrences(Built(file.flat), n))
    BY <2>3, <2>4, OccurrencesOfLists
  <2>7. Occurrences(daemons[i].notifiers, n) = Configured(own, n) + Configured(file, n)
    BY <2>5, <2>6, Zenon DEF Configured
  <2> QED BY <2>1, <2>7, Zenon
<1>2. StartupInv => EveryNotifierOnce
  BY <1>1, Zenon DEF EveryNotifierOnce
<1> QED BY <1>2, StartupInvariant, PTL

\* Trouble with discovery never keeps the printers of the file from running
\* (run, main.go:64-86).
THEOREM DiscoveryStaysOptional == StartupSpec => []DiscoveryIsOptional
<1>1. ASSUME StartupInv, phase = "failed", <<file, env>> \in Loadable
      PROVE  file.printers = <<>> /\ (DiscoveryWorks => Importable = {})
  <2>1. InputsTyped /\ Complete.printers = <<>>
    BY <1>1, LoadableInputs DEF StartupInv
  <2>2. PICK p : p = Prepared(file, env).printers
    OBVIOUS
  <2>3. DOMAIN p = DOMAIN file.printers /\ file.printers \in Seq(PrinterConfig)
    BY <2>1, <2>2, PreparedConfig DEF InputsTyped, Config
  <2>4. DOMAIN p = {}
    BY <2>1, <2>2, CompletePrinters
  <2>5. file.printers = <<>>
    <3>1. PICK k : k = Len(file.printers)
      OBVIOUS
    <3>2. DOMAIN file.printers = 1..k /\ k \in Nat
      BY <2>3, <3>1
    <3>3. 1..k = {}
      BY <2>3, <2>4, <3>2, Zenon
    <3>4. k = 0
      BY ONLY <3>2, <3>3
    <3> QED BY ONLY <2>3, <3>1, <3>4, EmptySeq
  <2>6. SerialsOf(<<>>) = {}
    BY DEF SerialsOf
  <2>7. SerialsOf(Complete.printers)
           = SerialsOf(p) \cup (IF DiscoveryWorks
                                 THEN {SerialInStorage(e) : e \in Importable}
                                 ELSE {})
    BY <2>1, <2>2, CompletePrinters, Zenon
  <2>8. DiscoveryWorks => {SerialInStorage(e) : e \in Importable} = {}
    BY <2>1, <2>6, <2>7, Zenon
  <2>9. DiscoveryWorks => Importable = {}
    BY <2>8, Zenon
  <2> QED BY <2>5, <2>9
<1>2. StartupInv => DiscoveryIsOptional
  <2> SUFFICES ASSUME StartupInv, phase = "failed", Accepted(file, env)
               PROVE  file.printers = <<>> /\ (DiscoveryWorks => Importable = {})
    BY Zenon DEF DiscoveryIsOptional
  <2>1. <<file, env>> \in Loadable
    BY AcceptedIsLoadable, Zenon DEF StartupInv
  <2> QED BY <1>1, <2>1, Zenon
<1> QED BY <1>2, StartupInvariant, PTL

\* The facts about a printer that discovery has added.
LEMMA ImportedDaemon ==
  ASSUME StartupInv, phase = "running", NEW i \in DOMAIN daemons, ~Manual(i)
  PROVE  /\ InputsTyped /\ DiscoveryWorks
         /\ Prepared(file, env) \in Config
         /\ Prepared(file, env).discovery.cameraPort = file.discovery.cameraPort
         /\ \E e \in LocalEntries(storage) :
              /\ e \in StorageEntry
              /\ Imported(Prepared(file, env), Discovered(e)) \in PrinterConfig
              /\ daemons[i].config
                   = Filled(Imported(Prepared(file, env), Discovered(e)))
<1>1. InputsTyped /\ i \in DOMAIN Complete.printers
        /\ daemons[i].config = Complete.printers[i]
  BY RunningDaemons
<1>2. i \notin DOMAIN Prepared(file, env).printers
  BY <1>1, PreparedConfig DEF InputsTyped, Manual
<1>3. PICK e \in LocalEntries(storage) :
        Complete.printers[i] = Filled(Imported(Prepared(file, env), Discovered(e)))
  BY <1>1, <1>2, CompletePrinters
<1>4. DiscoveryWorks
  BY <1>1, <1>2, CompletePrinters
<1>5. e \in StorageEntry
  <2>1. storage \in Seq(StorageEntry)
    BY <1>1, <1>4 DEF DiscoveryWorks, InputsTyped
  <2> QED BY <2>1, LocalEntriesAreTyped
<1>6. /\ Prepared(file, env) \in Config
      /\ Prepared(file, env).discovery.cameraPort = file.discovery.cameraPort
  BY <1>1, PreparedConfig, FlattenedDiscovery DEF InputsTyped, Config
<1>7. Imported(Prepared(file, env), Discovered(e)) \in PrinterConfig
  BY <1>5, <1>6, DiscoveredIsTyped, ImportedIsTyped
<1> QED BY <1>1, <1>3, <1>4, <1>5, <1>6, <1>7

\* A discovered printer takes pictures exactly if camera_port asks for them,
\* and in one way (Config.MergeDiscovered, config.go:176-185).
THEOREM PicturesAreTakenAsConfigured == StartupSpec => []PicturesAsConfigured
<1>1. ASSUME StartupInv, NEW i \in DOMAIN daemons, ~Manual(i)
      PROVE  LET c == daemons[i].config
             IN  /\ c.cameraPort > 0 \/ c.cameraRTSP
                      <=> file.discovery.cameraPort > 0
                 /\ ~(c.cameraPort > 0 /\ c.cameraRTSP)
  <2>1. phase = "running"
    BY <1>1 DEF StartupInv
  <2>2. PICK c : c = Prepared(file, env)
    OBVIOUS
  <2>3. PICK e \in LocalEntries(storage) :
          /\ Imported(c, Discovered(e)) \in PrinterConfig
          /\ daemons[i].config = Filled(Imported(c, Discovered(e)))
    BY <1>1, <2>1, <2>2, ImportedDaemon
  <2>4. PICK p : p = Imported(c, Discovered(e))
    OBVIOUS
  <2>5. /\ daemons[i].config.cameraPort = p.cameraPort
        /\ daemons[i].config.cameraRTSP = p.cameraRTSP
    BY <2>3, <2>4, FilledPrinter
  <2>6. c.discovery.cameraPort = file.discovery.cameraPort
          /\ file.discovery.cameraPort \in Int
    BY <1>1, <2>1, <2>2, ImportedDaemon DEF InputsTyped, Config, DiscoveryConfig
  <2>7. CASE ChamberImageSupported(Discovered(e).model)
    <3>1. p.cameraPort = c.discovery.cameraPort /\ ~p.cameraRTSP
      BY <2>4, <2>7, Zenon DEF Imported
    <3> QED BY <2>5, <2>6, <3>1
  <2>8. CASE ~ChamberImageSupported(Discovered(e).model)
    <3>1. p.cameraPort = 0 /\ (p.cameraRTSP <=> c.discovery.cameraPort > 0)
      BY <2>4, <2>8, Zenon DEF Imported
    <3> QED BY <2>5, <2>6, <3>1
  <2> QED BY <2>7, <2>8
<1>2. StartupInv => PicturesAsConfigured
  BY <1>1, Zenon DEF PicturesAsConfigured
<1> QED BY <1>2, StartupInvariant, PTL

-----------------------------------------------------------------------------
(* Nothing unchecked reaches a daemon. *)

\* Combining valid lists makes a valid one.
LEMMA ValidCombined ==
  ASSUME NEW a \in NotifierLists, NEW b \in NotifierLists,
         ValidNotifiers(a), ValidNotifiers(b)
  PROVE  ValidNotifiers(Combined(a, b))
<1>1. ASSUME NEW s \in Services, NEW i \in DOMAIN Combined(a, b)[s]
      PROVE  /\ Combined(a, b)[s][i].complete
             /\ Combined(a, b)[s][i].events \subseteq Types
  <2>1. PICK x : x = a[s]
    OBVIOUS
  <2>2. PICK y : y = b[s]
    OBVIOUS
  <2>3. PICK z : z = Combined(a, b)[s]
    OBVIOUS
  <2>4. x \in Seq(NotifierConfig) /\ y \in Seq(NotifierConfig) /\ z = x \o y
    BY <2>1, <2>2, <2>3 DEF NotifierLists, Combined
  <2>5. /\ \A j \in DOMAIN x : x[j].complete /\ x[j].events \subseteq Types
        /\ \A j \in DOMAIN y : y[j].complete /\ y[j].events \subseteq Types
    BY <2>1, <2>2 DEF ValidNotifiers
  <2>6. (\E j \in DOMAIN x : z[i] = x[j]) \/ (\E j \in DOMAIN y : z[i] = y[j])
    <3>1. i \in 1..(Len(x) + Len(y)) /\ Len(x) \in Nat /\ Len(y) \in Nat
      BY <1>1, <2>3, <2>4
    <3>2. CASE i <= Len(x)
      BY <2>4, <3>1, <3>2
    <3>3. CASE i > Len(x)
      <4>1. i - Len(x) \in DOMAIN y /\ z[i] = y[i - Len(x)]
        BY <2>4, <3>1, <3>3
      <4> QED BY <4>1
    <3> QED BY <3>1, <3>2, <3>3
  <2> QED BY <2>3, <2>5, <2>6
<1> QED BY <1>1, Zenon DEF ValidNotifiers

\* A notifier of a valid list is complete and passes some event.
LEMMA ValidBuilt ==
  ASSUME NEW x \in NotifierLists, ValidNotifiers(x), NEW n \in ToSet(Built(x))
  PROVE  n.complete /\ \E type \in Types : Passes(n, type)
<1>1. PICK s \in Services : \E i \in DOMAIN x[s] : n = x[s][i]
  <2>1. PICK d : d = x["discord"]
    OBVIOUS
  <2>2. PICK k : k = x["slack"]
    OBVIOUS
  <2>3. PICK t : t = x["telegram"]
    OBVIOUS
  <2>4. /\ d \in Seq(NotifierConfig) /\ k \in Seq(NotifierConfig)
        /\ t \in Seq(NotifierConfig) /\ Built(x) = (d \o k) \o t
    BY <2>1, <2>2, <2>3 DEF NotifierLists, Services, Built
  <2>5. PICK j \in 1..(Len(d) + Len(k) + Len(t)) : n = Built(x)[j]
    BY <2>4 DEF ToSet
  <2>6. Len(d) \in Nat /\ Len(k) \in Nat /\ Len(t) \in Nat
    BY <2>4
  <2>7. CASE j <= Len(d)
    <3>1. j \in DOMAIN d /\ n = d[j]
      BY <2>4, <2>5, <2>6, <2>7
    <3> QED BY <2>1, <3>1 DEF Services
  <2>8. CASE j > Len(d) /\ j <= Len(d) + Len(k)
    <3>1. j - Len(d) \in DOMAIN k /\ n = k[j - Len(d)]
      BY <2>4, <2>5, <2>6, <2>8
    <3> QED BY <2>2, <3>1 DEF Services
  <2>9. CASE j > Len(d) + Len(k)
    <3>1. j - (Len(d) + Len(k)) \in DOMAIN t /\ n = t[j - (Len(d) + Len(k))]
      BY <2>4, <2>5, <2>6, <2>9
    <3> QED BY <2>3, <3>1 DEF Services
  <2> QED BY <2>5, <2>6, <2>7, <2>8, <2>9
<1>2. n.complete /\ n.events \subseteq Types
  BY <1>1 DEF ValidNotifiers
<1>3. "print_started" \in Types
  BY DEF Types, LifecycleTypes
<1>4. \E type \in Types : n.events = {} \/ type \in n.events
  <2>1. CASE n.events = {}
    BY <1>3, <2>1
  <2>2. CASE n.events # {}
    BY <1>2, <2>2
  <2> QED BY <2>1, <2>2
<1> QED BY <1>2, <1>4, Zenon DEF Passes

\* The facts about a printer of the file.
LEMMA ManualDaemon ==
  ASSUME StartupInv, phase = "running", NEW i \in DOMAIN daemons, Manual(i)
  PROVE  LET p == Prepared(file, env).printers[i]
         IN  /\ p \in PrinterConfig /\ ValidPrinter(p)
             /\ p.port # 0 /\ p.reconnectDelay # 0
             /\ daemons[i].config = p \/ daemons[i].config = Filled(p)
<1>1. InputsTyped /\ daemons[i].config = Complete.printers[i]
  BY RunningDaemons
<1>2. PICK c : c = Prepared(file, env)
  OBVIOUS
<1>3. i \in DOMAIN file.printers
  BY DEF Manual
<1>4. /\ c \in Config /\ i \in DOMAIN c.printers
      /\ c.printers[i].port # 0 /\ c.printers[i].reconnectDelay # 0
  BY <1>1, <1>2, <1>3, PreparedConfig DEF InputsTyped
<1>5. c.printers[i] \in PrinterConfig
  <2>1. c.printers \in Seq(PrinterConfig)
    BY <1>4 DEF Config
  <2> QED BY <1>4, <2>1
<1>6. ValidPrinter(c.printers[i])
  <2>1. <<file, env>> \in Loadable /\ file \in Files /\ env \in Envs
    BY DEF StartupInv
  <2>2. Valid(c)
    BY <1>2, <2>1, AcceptedIsLoadable, Zenon DEF Accepted
  <2> QED BY <1>4, <2>2, Zenon DEF Valid
<1>7. c.printers[i] = Complete.printers[i] \/ Complete.printers[i] = Filled(c.printers[i])
  BY <1>1, <1>2, <1>4, CompletePrinters
<1> QED BY <1>1, <1>2, <1>4, <1>5, <1>6, <1>7

\* The lists of notifiers in a prepared configuration are valid.
LEMMA ValidLists ==
  ASSUME StartupInv, phase = "running"
  PROVE  LET c == Prepared(file, env)
         IN  /\ c \in Config
             /\ ValidNotifiers(c.discovery.notifiers)
             /\ ValidNotifiers(c.notifiers)
<1>1. <<file, env>> \in Loadable /\ file \in Files /\ env \in Envs
  BY DEF StartupInv
<1>2. Valid(Prepared(file, env))
  BY <1>1, AcceptedIsLoadable, Zenon DEF Accepted
<1>3. Prepared(file, env) \in Config
  BY RunningDaemons, PreparedConfig DEF InputsTyped
<1> QED BY <1>2, <1>3, Zenon DEF Valid

\* For every file, storage and environment, a daemon has its defaults and what
\* validate asks for, though MergeDiscovered adds its printers after that
\* (config.go:154-203); only an entry of the storage with neither serial number
\* nor title gets to run without them (bambulab.go:81-98).
THEOREM DaemonsAreComplete == StartupSpec => []DaemonsAreUsable
<1>1. ASSUME StartupInv, phase = "running", NEW i \in DOMAIN daemons
      PROVE  LET c == daemons[i].config
             IN  /\ c \in PrinterConfig /\ c.reachable
                 /\ c.serial = Unset =>
                      ~Manual(i) /\ \E e \in Importable : Anonymous(e)
                 /\ ~c.named => c.serial = Unset
                 /\ c.port # 0 /\ c.reconnectDelay # 0
                 /\ ValidNotifiers(c.notifiers)
  <2>1. CASE Manual(i)
    <3>1. PICK p : p = Prepared(file, env).printers[i]
      OBVIOUS
    <3>2. /\ p \in PrinterConfig /\ ValidPrinter(p)
          /\ p.port # 0 /\ p.reconnectDelay # 0
          /\ daemons[i].config = p \/ daemons[i].config = Filled(p)
      BY <1>1, <2>1, <3>1, ManualDaemon
    <3>3. p.named /\ p.reachable /\ p.serial # Unset /\ ValidNotifiers(p.notifiers)
      BY <3>2, Zenon DEF ValidPrinter
    <3>4. PICK q : q = Filled(p)
      OBVIOUS
    <3>5. /\ q \in PrinterConfig /\ q.port # 0 /\ q.reconnectDelay # 0
          /\ q.serial = p.serial /\ q.named = p.named
          /\ q.reachable = p.reachable /\ q.notifiers = p.notifiers
      BY <3>2, <3>4, FilledPrinter
    <3>6. /\ q.named /\ q.reachable /\ q.serial # Unset
          /\ ValidNotifiers(q.notifiers)
      BY <3>3, <3>5, Zenon
    <3> QED BY <3>2, <3>3, <3>4, <3>5, <3>6, Zenon
  <2>2. CASE ~Manual(i)
    <3>1. PICK c : c = Prepared(file, env)
      OBVIOUS
    <3>2. PICK e \in LocalEntries(storage) :
            /\ e \in StorageEntry
            /\ Imported(c, Discovered(e)) \in PrinterConfig
            /\ daemons[i].config = Filled(Imported(c, Discovered(e)))
      BY <1>1, <2>2, <3>1, ImportedDaemon
    <3>4. PICK d : d = Discovered(e)
      OBVIOUS
    <3>5. d.serial = Unset => Anonymous(e) /\ e \in Importable
      <4>1. e \in Importable
        BY <3>2, Zenon DEF LocalEntries, Importable
      <4>2. d.serial = IF e.serial # Unset THEN e.serial ELSE e.title
        BY <3>4 DEF Discovered
      <4> QED BY <4>1, <4>2, Zenon DEF Anonymous
    <3>b. ~d.named => d.serial = Unset
      <4>1. d.serial = IF e.serial # Unset THEN e.serial ELSE e.title
        BY <3>4 DEF Discovered
      <4>2. d.named = (e.named \/ e.serial # Unset \/ e.title # Unset)
        BY <3>4 DEF Discovered
      <4> QED BY <4>1, <4>2, Zenon
    <3>6. PICK p : p = Imported(c, d)
      OBVIOUS
    <3>7. p.named = d.named /\ p.serial = d.serial /\ p.reachable
            /\ p.notifiers = Combined(c.discovery.notifiers, c.notifiers)
      BY <3>6 DEF Imported
    <3>8. ValidNotifiers(p.notifiers)
      <4>1. /\ c \in Config
            /\ ValidNotifiers(c.discovery.notifiers)
            /\ ValidNotifiers(c.notifiers)
        BY <1>1, <3>1, ValidLists
      <4>2. c.discovery.notifiers \in NotifierLists /\ c.notifiers \in NotifierLists
        BY <4>1 DEF Config, DiscoveryConfig
      <4>3. ValidNotifiers(Combined(c.discovery.notifiers, c.notifiers))
        BY <4>1, <4>2, ValidCombined
      <4> QED BY <3>7, <4>3, Zenon
    <3>9. PICK q : q = Filled(p)
      OBVIOUS
    <3>10. /\ q \in PrinterConfig /\ q.port # 0 /\ q.reconnectDelay # 0
           /\ q.serial = p.serial /\ q.named = p.named
           /\ q.reachable = p.reachable /\ q.notifiers = p.notifiers
      BY <3>2, <3>4, <3>6, <3>9, FilledPrinter
    <3>11. daemons[i].config = q
      BY <3>2, <3>4, <3>6, <3>9
    <3> QED BY <2>2, <3>5, <3>b, <3>7, <3>8, <3>10, <3>11, Zenon
  <2> QED BY <2>1, <2>2, Zenon
<1>2. ASSUME StartupInv, phase = "running", NEW i \in DOMAIN daemons,
             NEW n \in ToSet(daemons[i].notifiers)
      PROVE  n.complete /\ \E type \in Types : Passes(n, type)
  <2>1. PICK x : x = daemons[i].config.notifiers
    OBVIOUS
  <2>2. daemons[i].notifiers = Built(x)
    BY <1>2, <2>1, RunningDaemons
  <2>3. daemons[i].config \in PrinterConfig /\ ValidNotifiers(x)
    BY <1>1, <1>2, <2>1
  <2>4. x \in NotifierLists
    BY <2>1, <2>3 DEF PrinterConfig
  <2>5. n \in ToSet(Built(x))
    BY <1>2, <2>2
  <2> QED BY <2>3, <2>4, <2>5, ValidBuilt
<1>3. ASSUME StartupInv, NEW i \in DOMAIN daemons PROVE phase = "running"
  BY <1>3 DEF StartupInv
<1>4. StartupInv => DaemonsAreUsable
  BY <1>1, <1>2, <1>3, Zenon DEF DaemonsAreUsable
<1> QED BY <1>4, StartupInvariant, PTL
=============================================================================
