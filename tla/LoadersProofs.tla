---------------------------- MODULE LoadersProofs ----------------------------
(***************************************************************************)
(* Theorems about the three ways in which a program gets into memory       *)
(* (module Loaders), for any sizes of its sections, of pages, stacks and   *)
(* of the header, and files that end too early by any number of bytes.     *)
(***************************************************************************)
EXTENDS UserProgram, SequenceTheorems, WellFoundedInduction, TLAPS

Five == 1 .. 5

LEMMA NamesAre ==
    /\ DOMAIN Names = Five /\ Copied = {1, 2, 3}
    /\ Names[1] = ".text" /\ Names[2] = ".rdata" /\ Names[3] = ".data"
    /\ Names[4] = ".sbss" /\ Names[5] = ".bss"
    /\ \A k \in Five : Names[k] \in AllNames
    /\ \A k \in Five : Names[k] \in AllNames \ WithoutData <=> k <= 3
  <1>1. /\ DOMAIN Names = Five
        /\ Names[1] = ".text" /\ Names[2] = ".rdata" /\ Names[3] = ".data"
        /\ Names[4] = ".sbss" /\ Names[5] = ".bss"
    BY DEF Names, Five
  <1>2. \A k \in Five : k = 1 \/ k = 2 \/ k = 3 \/ k = 4 \/ k = 5
    BY DEF Five
  <1>3. 1 \in Five /\ 2 \in Five /\ 3 \in Five /\ 4 \in Five /\ 5 \in Five
    BY DEF Five
  <1>4. \A k \in Five : Names[k] \in WithoutData <=> k \in {4, 5}
    BY <1>1, <1>2 DEF WithoutData
  <1>5. Copied = {1, 2, 3}
    BY <1>1, <1>2, <1>3, <1>4 DEF Copied
  <1>6. \A k \in Five : Names[k] \in AllNames
    BY <1>1 DEF AllNames
  <1>7. \A k \in Five : Names[k] \in AllNames \ WithoutData <=> k <= 3
    BY <1>2, <1>4, <1>6
  <1> QED BY <1>1, <1>5, <1>6, <1>7

-----------------------------------------------------------------------------
(* Sums over sections *)

One(T) == CHOOSE x \in T : TRUE
Part(z, T, j) == IF j \in T THEN z[j] ELSE 0
Total(z, T) == Part(z, T, 1) + Part(z, T, 2) + Part(z, T, 3) + Part(z, T, 4) + Part(z, T, 5)
\* What a fold over a set is: a function of its subsets.
Adds(f, z, D) == f = [T \in D |-> IF T = {} THEN 0 ELSE z[One(T)] + f[T \ {One(T)}]]

LEMMA TotalAdds ==
    ASSUME NEW z \in [Five -> Nat], NEW T \in SUBSET Five
    PROVE  /\ Total(z, T) \in Nat
           /\ T = {} => Total(z, T) = 0
           /\ \A x \in T : Total(z, T) = z[x] + Total(z, T \ {x})
  <1>1. \A j \in Five : z[j] \in Nat
    OBVIOUS
  <1>2. 1 \in Five /\ 2 \in Five /\ 3 \in Five /\ 4 \in Five /\ 5 \in Five
    BY DEF Five
  <1>3. z[1] \in Nat /\ z[2] \in Nat /\ z[3] \in Nat /\ z[4] \in Nat /\ z[5] \in Nat
    BY <1>1, <1>2
  <1>4. Total(z, T) \in Nat /\ (T = {} => Total(z, T) = 0)
    BY <1>3 DEF Total, Part
  <1>5. ASSUME NEW x \in T PROVE Total(z, T) = z[x] + Total(z, T \ {x})
    <2>1. x = 1 \/ x = 2 \/ x = 3 \/ x = 4 \/ x = 5
      BY DEF Five
    <2>2. \A j \in Five : Part(z, T \ {x}, j) = IF j = x THEN 0 ELSE Part(z, T, j)
      BY DEF Part
    <2>3. Part(z, T, x) = z[x]
      BY DEF Part
    <2>4. \A j \in Five : Part(z, T, j) \in Nat
      BY <1>1 DEF Part
    <2> QED BY <1>2, <1>3, <2>1, <2>2, <2>3, <2>4 DEF Total
  <1> QED BY <1>4, <1>5

LEMMA SomeLeast ==
    ASSUME NEW S \in SUBSET Nat, S # {}
    PROVE  \E n \in S : \A m \in S : n <= m
  <1> DEFINE LessThan == {p \in Nat \X Nat : p[1] < p[2]}
  <1>1. IsWellFoundedOn(LessThan, Nat)
    <2>1. LessThan = OpToRel(<, Nat)
      BY Zenon DEF OpToRel
    <2> QED BY <2>1, NatLessThanWellFounded
  <1>2. PICK n \in S : \A m \in S : <<m, n>> \notin LessThan
    <2> HIDE DEF LessThan
    <2> QED BY <1>1, WFMin
  <1>3. ASSUME NEW m \in S PROVE n <= m
    <2>1. <<m, n>> \in Nat \X Nat /\ ~(<<m, n>>[1] < <<m, n>>[2])
      BY <1>2
    <2> QED BY <2>1
  <1> QED BY <1>3

\* A sum over sections is the sum of their sizes, in whatever order it is made.
LEMMA SumIs ==
    ASSUME NEW z \in [Five -> Nat], NEW S \in SUBSET Five
    PROVE  SumFunctionOnSet(z, S) = Total(z, S)
  <1> DEFINE D == SUBSET S
             e == [T \in D |-> Total(z, T)]
  <1>1. \A T \in D : T # {} => One(T) \in T /\ T \ {One(T)} \in D
    <2>1. ASSUME NEW T \in D, T # {} PROVE One(T) \in T
      BY <2>1 DEF One
    <2> QED BY <2>1
  <1>2. Adds(e, z, D)
    <2>1. ASSUME NEW T \in D PROVE e[T] = IF T = {} THEN 0 ELSE z[One(T)] + e[T \ {One(T)}]
      <3>1. T \in SUBSET Five /\ e[T] = Total(z, T)
        OBVIOUS
      <3>2. T # {} => One(T) \in T /\ e[T \ {One(T)}] = Total(z, T \ {One(T)})
        BY <1>1
      <3> HIDE DEF e, D
      <3> QED BY <3>1, <3>2, TotalAdds
    <2> DEFINE again == [T \in D |-> IF T = {} THEN 0 ELSE z[One(T)] + e[T \ {One(T)}]]
    <2>2. e = again
      BY <2>1
    <2> QED BY <2>2, Zenon DEF Adds
  <1>3. ASSUME NEW f, Adds(f, z, D) PROVE f[S] = Total(z, S)
    <2> DEFINE ones == [j \in Five |-> 1]
               Wrong == {T \in D : f[T] # Total(z, T)}
               sizes == {Total(ones, T) : T \in Wrong}
    <2>1. SUFFICES ASSUME Wrong # {} PROVE FALSE
      OBVIOUS
    <2>2. ones \in [Five -> Nat]
      OBVIOUS
    <2>3. sizes \in SUBSET Nat /\ sizes # {}
      <3>1. \A T \in Wrong : Total(ones, T) \in Nat
        <4> HIDE DEF ones
        <4> QED BY <2>2, TotalAdds
      <3> HIDE DEF Wrong, ones
      <3> QED BY <2>1, <3>1
    <2>4. PICK T \in Wrong : \A U \in Wrong : Total(ones, T) <= Total(ones, U)
      <3> HIDE DEF Wrong, ones
      <3>1. PICK n \in sizes : \A m \in sizes : n <= m
        <4> HIDE DEF sizes
        <4> QED BY <2>3, SomeLeast
      <3> QED BY <3>1
    <2>5. T \in D /\ T \in SUBSET Five /\ f[T] # Total(z, T)
      BY <2>4
    <2>6. f[T] = IF T = {} THEN 0 ELSE z[One(T)] + f[T \ {One(T)}]
      BY <1>3, <2>5, Zenon DEF Adds
    <2>7. T # {}
      BY <2>5, <2>6, TotalAdds
    <2> DEFINE U == T \ {One(T)}
    <2>8. One(T) \in T /\ U \in D /\ U \in SUBSET Five
      BY <1>1, <2>5, <2>7
    <2>9. Total(z, T) = z[One(T)] + Total(z, U)
      BY <2>5, <2>8, TotalAdds
    <2>10. U \in Wrong
      BY <2>5, <2>6, <2>7, <2>8, <2>9
    <2>11. Total(ones, T) = 1 + Total(ones, U) /\ Total(ones, U) \in Nat
      <3>1. ones[One(T)] = 1
        BY <2>5, <2>8
      <3> HIDE DEF ones, U
      <3>2. Total(ones, T) = ones[One(T)] + Total(ones, T \ {One(T)})
        BY <2>2, <2>5, <2>8, TotalAdds
      <3>3. Total(ones, U) \in Nat
        BY <2>2, <2>8, TotalAdds
      <3> QED BY <3>1, <3>2, <3>3 DEF U
    <2>12. Total(ones, T) <= Total(ones, U)
      BY <2>4, <2>10
    <2> HIDE DEF ones, U
    <2> QED BY <2>11, <2>12
  <1>4. PICK g : g = CHOOSE f : Adds(f, z, D)
    OBVIOUS
  <1>5. Adds(g, z, D)
    <2> HIDE DEF e, D
    <2> QED BY <1>2, <1>4
  <1>6. SumFunctionOnSet(z, S) = g[S]
    BY <1>4, Zenon DEF SumFunctionOnSet, FoldFunctionOnSet, MapThenFoldSet, Adds, One
  <1> QED BY <1>3, <1>5, <1>6

-----------------------------------------------------------------------------
(* What the linker makes, and how far coff2noff has come *)

Start(z, k) == CASE k = 1 -> 0
                 [] k = 2 -> z[1]
                 [] k = 3 -> z[1] + z[2]
                 [] k = 4 -> z[1] + z[2] + z[3]
                 [] k = 5 -> z[1] + z[2] + z[3] + z[4]
Size(k) == coff.sections[k].size
SizesAre(z) == /\ z \in [Five -> Nat] /\ coff.sections = Linked(z) /\ coff.cut \in Nat

\* Where sections are, in memory and in the file, and where the file ends.
LEMMA LinkedIs ==
    ASSUME NEW z \in [Five -> Nat], SizesAre(z)
    PROVE  /\ \A k \in Five : coff.sections[k].name = Names[k] /\ Size(k) = z[k]
                              /\ coff.sections[k].paddr = Start(z, k)
           /\ \A k \in {1, 2, 3} : coff.sections[k].scnptr = Start(z, k)
           /\ FileEnd = (z[1] + z[2] + z[3]) - coff.cut
  <1> USE NamesAre
  <1>1. 1 \in Five /\ 2 \in Five /\ 3 \in Five /\ 4 \in Five /\ 5 \in Five
    BY DEF Five
  <1>2. \A k \in Five : z[k] \in Nat /\ (k = 1 \/ k = 2 \/ k = 3 \/ k = 4 \/ k = 5)
    BY DEF Five
  <1>3. ASSUME NEW k \in Five
        PROVE  /\ Before(z, k, AllNames) = Start(z, k)
               /\ k <= 3 => Before(z, k, AllNames \ WithoutData) = Start(z, k)
    <2> DEFINE S == {j \in 1 .. k - 1 : Names[j] \in AllNames}
               T == {j \in 1 .. k - 1 : Names[j] \in AllNames \ WithoutData}
    <2>1. S = 1 .. k - 1 /\ S \in SUBSET Five
      BY DEF Five
    <2>2. k <= 3 => T = 1 .. k - 1
      BY DEF Five
    <2>3. T \in SUBSET Five
      BY DEF Five
    <2>4. Before(z, k, AllNames) = Total(z, S) /\ Before(z, k, AllNames \ WithoutData) = Total(z, T)
      BY <2>1, <2>3, SumIs DEF Before
    <2>5. Total(z, 1 .. k - 1) = Start(z, k)
      BY <1>1, <1>2 DEF Total, Part, Start
    <2> QED BY <2>1, <2>2, <2>4, <2>5
  <1>4. ASSUME NEW k \in Five
        PROVE  coff.sections[k] = [name |-> Names[k], paddr |-> Before(z, k, AllNames), size |-> z[k],
                                   scnptr |-> Before(z, k, AllNames \ WithoutData)]
    BY Zenon DEF SizesAre, Linked
  <1>7. ASSUME NEW k \in Five
        PROVE  /\ coff.sections[k].name = Names[k] /\ coff.sections[k].size = z[k]
               /\ coff.sections[k].paddr = Before(z, k, AllNames)
               /\ coff.sections[k].scnptr = Before(z, k, AllNames \ WithoutData)
    <2>1. PICK name, paddr, scnptr : /\ name = Names[k] /\ paddr = Before(z, k, AllNames)
                                     /\ scnptr = Before(z, k, AllNames \ WithoutData)
      OBVIOUS
    <2>2. coff.sections[k] = [name |-> name, paddr |-> paddr, size |-> z[k], scnptr |-> scnptr]
      BY <1>4, <2>1, Zenon
    <2> HIDE <1>4
    <2>3. /\ coff.sections[k].name = name /\ coff.sections[k].size = z[k]
          /\ coff.sections[k].paddr = paddr /\ coff.sections[k].scnptr = scnptr
      BY <2>2
    <2> QED BY <2>1, <2>3
  <1>5. \A k \in {1, 2, 3} : k \in Five /\ k <= 3
    BY <1>1
  <1>6. FileEnd = (z[1] + z[2] + z[3]) - coff.cut
    <2> DEFINE f == [k \in DOMAIN Names |-> coff.sections[k].size]
    <2>1. f = z
      <3>1. \A k \in Five : f[k] = z[k]
        BY <1>7
      <3> QED BY <3>1
    <2>2. SumFunctionOnSet(z, Copied) = Total(z, Copied)
      BY <1>5, SumIs
    <2>3. Total(z, {1, 2, 3}) = z[1] + z[2] + z[3]
      BY <1>1, <1>2 DEF Total, Part
    <2>4. FileEnd = SumFunctionOnSet(f, Copied) - coff.cut
      BY Zenon DEF FileEnd
    <2>5. FileEnd = Total(z, {1, 2, 3}) - coff.cut
      BY <2>1, <2>2, <2>4, Zenon
    <2> QED BY <2>3, <2>5, Zenon
  <1> QED BY <1>3, <1>5, <1>6, <1>7 DEF Size

\* What is taken of a section: all of it, when it has been looked at.
Taken(z, k) == IF k < section THEN z[k] ELSE 0
FileRight(z) ==
    /\ noffFile \in Seq(AllNames \X Nat)
    /\ Len(noffFile) = Taken(z, 1) + Taken(z, 2) + Taken(z, 3)
    /\ \A k \in Copied : k < section =>
         \A i \in 1 .. z[k] : noffFile[Start(z, k) + i] = <<Names[k], i>>
Segment == [virtualAddr : Nat, inFileAddr : Nat, size : Nat]
HeaderRight(z) ==
    /\ noffH \in [code : Segment, initData : Segment, uninitData : Segment]
    /\ noffH.code.size = Taken(z, 1)
    /\ noffH.initData.size = Taken(z, 2) + Taken(z, 3)
    /\ noffH.uninitData.size = Taken(z, 4) + Taken(z, 5)
    /\ section = 5 /\ z[4] # 0 => noffH.uninitData.virtualAddr = Start(z, 4)
\* The part of Convertible that the sections up to here are asked for.
SoFar(z) ==
    /\ \A k \in Copied : k < section /\ z[k] # 0 => CanRead(k)
    /\ z[2] # 0 /\ z[3] # 0 => section <= 3
    /\ z[4] # 0 /\ z[5] # 0 => section <= 5
Converting(z) == FileRight(z) /\ HeaderRight(z) /\ SoFar(z)

LoaderOK(z) ==
    /\ SizesAre(z) /\ section \in 1 .. 6 /\ tool \in {"converting", "converted", "failed"}
    /\ tool # "failed" => Converting(z)
    /\ tool = "converted" => section = 6
    /\ tool = "failed" => ~Convertible

LEMMA LoaderBegins == LoaderInit => \E z : LoaderOK(z)
  <1> SUFFICES ASSUME LoaderInit PROVE \E z : LoaderOK(z)
    OBVIOUS
  <1>1. PICK z \in [DOMAIN Names -> 0 .. MaxSize], cut \in Cuts : coff = [sections |-> Linked(z), cut |-> cut]
    BY DEF LoaderInit
  <1>2. z \in [Five -> Nat] /\ SizesAre(z)
    BY <1>1, NamesAre, LoadersAssumption DEF SizesAre
  <1>3. section = 1 /\ tool = "converting" /\ noffFile = <<>>
        /\ noffH = [code |-> NoSegment, initData |-> NoSegment, uninitData |-> NoSegment]
    BY DEF LoaderInit
  <1>4. FileRight(z)
    BY <1>3, NamesAre, EmptySeq DEF FileRight, Taken
  <1>5. HeaderRight(z)
    BY <1>3 DEF HeaderRight, Taken, NoSegment, Segment
  <1>6. SoFar(z)
    BY <1>3, NamesAre DEF SoFar
  <1> QED BY <1>2, <1>3, <1>4, <1>5, <1>6 DEF LoaderOK, Converting

-----------------------------------------------------------------------------
(* The steps *)

\* What is there of a section that is looked at.
LEMMA CurrentIs ==
    ASSUME NEW z, LoaderOK(z), NEW names, Converts(names)
    PROVE  /\ section \in Five /\ tool = "converting" /\ Names[section] \in names
           /\ Current.name = Names[section] /\ Current.size = z[section] /\ z[section] \in Nat \ {0}
           /\ Current.paddr = Start(z, section)
           /\ z \in [Five -> Nat] /\ SizesAre(z) /\ Converting(z)
  <1>1. z \in [Five -> Nat] /\ SizesAre(z)
    BY DEF LoaderOK, SizesAre
  <1>2. section \in Five
    BY NamesAre DEF Converts
  <1> QED BY <1>1, <1>2, LinkedIs DEF Converts, Current, LoaderOK, Size

\* A section that has no bytes, or none in the file, leaves the file as it is.
LEMMA NothingWritten ==
    ASSUME NEW z \in [Five -> Nat], FileRight(z), section \in Five, section' = section + 1,
           section \in Copied => z[section] = 0, noffFile' = noffFile
    PROVE  FileRight(z)'
  <1>1. section \in {1, 2, 3, 4, 5}
    BY DEF Five
  <1>2. ASSUME NEW k \in {1, 2, 3} PROVE Taken(z, k)' = Taken(z, k)
    BY <1>1, NamesAre DEF Taken
  <1>3. \A k \in {1, 2, 3} : k < section + 1 => k < section \/ (k = section /\ z[k] = 0)
    BY <1>1, NamesAre
  <1>4. ASSUME NEW k \in Copied, k < section', NEW i \in 1 .. z[k]
        PROVE  noffFile'[Start(z, k) + i] = <<Names[k], i>>
    BY <1>3, <1>4, NamesAre DEF FileRight
  <1>5. Len(noffFile') = Taken(z, 1)' + Taken(z, 2)' + Taken(z, 3)'
    BY <1>2 DEF FileRight
  <1> QED BY <1>4, <1>5 DEF FileRight

LEMMA Skipped ==
    ASSUME NEW z, LoaderOK(z), SkipEmpty
    PROVE  LoaderOK(z)'
  <1>1. tool = "converting" /\ section \in Five /\ section' = section + 1
        /\ coff' = coff /\ noffH' = noffH /\ noffFile' = noffFile /\ tool' = tool
    BY NamesAre DEF SkipEmpty
  <1>2. z \in [Five -> Nat] /\ SizesAre(z) /\ Converting(z)
    BY <1>1 DEF LoaderOK, SizesAre
  <1>3. z[section] = 0
    BY <1>1, <1>2, LinkedIs DEF SkipEmpty, Current, Size
  <1>4. section \in {1, 2, 3, 4, 5}
    BY <1>1 DEF Five
  <1>5. FileRight(z)'
    BY <1>1, <1>2, <1>3, NothingWritten DEF Converting
  <1>6. \A k \in {1, 2, 3, 4, 5} : Taken(z, k)' = Taken(z, k)
    BY <1>1, <1>3, <1>4 DEF Taken
  <1>7. HeaderRight(z)'
    BY <1>1, <1>2, <1>3, <1>4, <1>6 DEF Converting, HeaderRight
  <1>8. SoFar(z)'
    BY <1>1, <1>2, <1>3, <1>4, NamesAre DEF Converting, SoFar, CanRead, FileEnd
  <1> QED BY <1>1, <1>2, <1>4, <1>5, <1>7, <1>8 DEF LoaderOK, Converting, SizesAre

\* The tool gives up.
LEMMA Failed ==
    ASSUME NEW z, LoaderOK(z), Fail, ~Convertible
    PROVE  LoaderOK(z)'
  <1>1. coff' = coff /\ section' = section /\ tool' = "failed"
    BY DEF Fail
  <1>2. ~Convertible'
    BY <1>1, Zenon DEF Convertible, Held, CanRead, FileEnd
  <1> QED BY <1>1, <1>2 DEF LoaderOK, SizesAre

\* Where the three sections with data end.
LEMMA Starts ==
    ASSUME NEW z \in [Five -> Nat], section \in Five
    PROVE  /\ \A k \in Five : z[k] \in Nat /\ Start(z, k) \in Nat
           /\ Start(z, 1) = 0 /\ Start(z, 2) = z[1] /\ Start(z, 3) = z[1] + z[2]
           /\ section \in Copied =>
                Start(z, section) = Taken(z, 1) + Taken(z, 2) + Taken(z, 3)
           /\ \A k \in Copied, i \in Nat :
                k < section /\ section \in Copied /\ i <= z[k] => Start(z, k) + i <= Start(z, section)
  <1> USE NamesAre
  <1>1. \A k \in Five : z[k] \in Nat /\ (k = 1 \/ k = 2 \/ k = 3 \/ k = 4 \/ k = 5)
    BY DEF Five
  <1>2. 1 \in Five /\ 2 \in Five /\ 3 \in Five /\ 4 \in Five /\ 5 \in Five
    BY DEF Five
  <1>3. z[1] \in Nat /\ z[2] \in Nat /\ z[3] \in Nat /\ z[4] \in Nat
    BY <1>1, <1>2
  <1>4. \A k \in Five : Start(z, k) \in Nat
    BY <1>1, <1>3 DEF Start
  <1>5. Start(z, 1) = 0 /\ Start(z, 2) = z[1] /\ Start(z, 3) = z[1] + z[2]
    BY DEF Start
  <1>6. section \in Copied => Start(z, section) = Taken(z, 1) + Taken(z, 2) + Taken(z, 3)
    BY <1>3, <1>5 DEF Taken
  <1>7. \A k \in Copied, i \in Nat :
          k < section /\ section \in Copied /\ i <= z[k] => Start(z, k) + i <= Start(z, section)
    BY <1>3, <1>5
  <1> QED BY <1>1, <1>4, <1>5, <1>6, <1>7

\* A section that has bytes in the file comes after the others there.
LEMMA SectionRead ==
    ASSUME NEW z, LoaderOK(z), tool = "converting", section \in Copied,
           NEW segment, CopySegment(segment)
    PROVE  FileRight(z)' /\ Len(noffFile) = Start(z, section)
  <1> USE NamesAre
  <1>1. /\ z \in [Five -> Nat] /\ SizesAre(z) /\ FileRight(z) /\ section \in {1, 2, 3}
        /\ 1 \in Five /\ 2 \in Five /\ 3 \in Five /\ section \in Five
    BY DEF LoaderOK, SizesAre, Converting, Five
  <1>2. section' = section + 1 /\ noffFile' = noffFile \o Data(section)
    BY DEF CopySegment
  <1> DEFINE new == Data(section)
  <1>3. new = [i \in 1 .. z[section] |-> <<Names[section], i>>]
    BY <1>1, LinkedIs DEF Data, Size
  <1>4. new \in Seq(AllNames \X Nat) /\ Len(new) = z[section]
        /\ \A i \in 1 .. z[section] : new[i] = <<Names[section], i>>
    <2>1. z[section] \in Nat /\ Names[section] \in AllNames
      BY <1>1
    <2>2. \A i \in 1 .. z[section] : <<Names[section], i>> \in AllNames \X Nat
      BY <2>1
    <2> HIDE DEF new
    <2> QED BY <1>3, <2>1, <2>2
  <1>5. Len(noffFile) = Start(z, section) /\ Len(noffFile) \in Nat
        /\ noffFile \in Seq(AllNames \X Nat)
    BY <1>1, Starts DEF FileRight
  <1> HIDE DEF new
  <1>6. /\ noffFile' \in Seq(AllNames \X Nat)
        /\ Len(noffFile') = Len(noffFile) + z[section]
        /\ \A i \in 1 .. Len(noffFile) : noffFile'[i] = noffFile[i]
        /\ \A i \in 1 .. z[section] : noffFile'[Len(noffFile) + i] = <<Names[section], i>>
    <2>1. /\ noffFile' \in Seq(AllNames \X Nat)
          /\ Len(noffFile') = Len(noffFile) + Len(new)
          /\ \A i \in 1 .. Len(noffFile) + Len(new) :
               noffFile'[i] = IF i <= Len(noffFile) THEN noffFile[i] ELSE new[i - Len(noffFile)]
      BY <1>2, <1>4, <1>5, ConcatProperties DEF new
    <2>2. z[section] \in Nat
      BY <1>1
    <2>3. \A i \in 1 .. z[section] : /\ Len(noffFile) + i \in 1 .. Len(noffFile) + Len(new)
                                     /\ ~(Len(noffFile) + i <= Len(noffFile))
                                     /\ (Len(noffFile) + i) - Len(noffFile) = i
      BY <1>4, <1>5, <2>2
    <2>4. \A i \in 1 .. z[section] : noffFile'[Len(noffFile) + i] = new[i]
      BY <2>1, <2>3
    <2>5. \A i \in 1 .. Len(noffFile) : noffFile'[i] = noffFile[i]
      <3>1. \A i \in 1 .. Len(noffFile) : i \in 1 .. Len(noffFile) + Len(new) /\ i <= Len(noffFile)
        BY <1>4, <1>5, <2>2
      <3> QED BY <2>1, <3>1
    <2>6. Len(noffFile') = Len(noffFile) + z[section]
      BY <1>4, <2>1
    <2>7. \A i \in 1 .. z[section] : noffFile'[Len(noffFile) + i] = <<Names[section], i>>
      BY <1>4, <2>4
    <2> QED BY <2>1, <2>5, <2>6, <2>7
  <1>7. Len(noffFile') = Taken(z, 1)' + Taken(z, 2)' + Taken(z, 3)'
    <2>1. z[1] \in Nat /\ z[2] \in Nat /\ z[3] \in Nat
      BY <1>1
    <2> QED BY <1>1, <1>2, <1>5, <1>6, <2>1 DEF FileRight, Taken
  <1>8. ASSUME NEW k \in Copied, k < section', NEW i \in 1 .. z[k]
        PROVE  noffFile'[Start(z, k) + i] = <<Names[k], i>>
    <2>1. CASE k = section
      BY <1>5, <1>6, <2>1
    <2>2. CASE k # section
      <3>1. k < section
        BY <1>1, <1>2, <1>8, <2>2
      <3>2. z[k] \in Nat /\ i \in Nat /\ i >= 1 /\ i <= z[k] /\ Start(z, k) \in Nat
        BY <1>1, Starts
      <3>3. Start(z, k) + i <= Start(z, section)
        BY <1>1, <3>1, <3>2, Starts
      <3>4. Start(z, k) + i \in 1 .. Len(noffFile)
        BY <1>5, <3>2, <3>3
      <3> QED BY <1>1, <1>6, <3>1, <3>4 DEF FileRight
    <2> QED BY <2>1, <2>2
  <1> QED BY <1>5, <1>6, <1>7, <1>8 DEF FileRight

\* What else a step that takes a section must show.
LEMMA TakenOne ==
    ASSUME NEW z, LoaderOK(z), tool = "converting", section \in Five, section' = section + 1,
           UNCHANGED <<coff, tool>>, FileRight(z)', HeaderRight(z)',
           section \in Copied => CanRead(section),
           section = 3 => z[2] = 0 \/ z[3] = 0, section = 5 => z[4] = 0 \/ z[5] = 0
    PROVE  LoaderOK(z)'
  <1> USE NamesAre
  <1>1. /\ coff' = coff /\ tool' = tool /\ SizesAre(z) /\ SoFar(z)
        /\ section \in {1, 2, 3, 4, 5} /\ section' \in 1 .. 6
    BY DEF LoaderOK, Converting, Five
  <1>2. \A k : CanRead(k)' = CanRead(k)
    BY <1>1, Zenon DEF CanRead, FileEnd
  <1>3. \A k \in Copied : k < section' /\ z[k] # 0 => CanRead(k)'
    BY <1>1, <1>2 DEF SoFar
  <1>4. SoFar(z)'
    BY <1>1, <1>3 DEF SoFar
  <1> QED BY <1>1, <1>4 DEF LoaderOK, Converting, SizesAre

LEMMA Kept ==
    ASSUME NEW z, LoaderOK(z), Converts({".text"}) \/ Converts({".data", ".rdata"})
    PROVE  /\ section \in Copied
           /\ ~CanRead(section) => ~Convertible
  <1>1. section \in Copied
    <2>1. section \in Five /\ Names[section] \in {".text", ".data", ".rdata"}
      BY CurrentIs
    <2>2. section \in {1, 2, 3, 4, 5}
      BY <2>1 DEF Five
    <2> QED BY <2>1, <2>2, NamesAre
  <1>2. coff.sections[section].size # 0
    BY DEF Converts, Current
  <1>3. section \in Held
    BY <1>1, <1>2, NamesAre DEF Held, Converts
  <1> QED BY <1>1, <1>3 DEF Convertible

LEMMA TextConverted ==
    ASSUME NEW z, LoaderOK(z), ConvertText
    PROVE  LoaderOK(z)'
  <1>1. section = 1 /\ section \in Five /\ section \in Copied /\ tool = "converting"
    <2>1. section \in Five /\ Names[section] = ".text" /\ tool = "converting"
      BY CurrentIs DEF ConvertText
    <2>2. section \in {1, 2, 3, 4, 5}
      BY <2>1 DEF Five
    <2> QED BY <2>1, <2>2, NamesAre
  <1>2. CASE ~CanRead(section)
    BY <1>2, Kept, Failed DEF ConvertText
  <1>3. CASE CanRead(section)
    <2>1. CopySegment("code")
      BY <1>3 DEF ConvertText
    <2>2. section' = 2 /\ UNCHANGED <<coff, tool>>
      BY <1>1, <2>1 DEF CopySegment
    <2>3. FileRight(z)' /\ Len(noffFile) \in Nat
      BY <1>1, <2>1, SectionRead, Starts DEF LoaderOK, Converting, FileRight
    <2>4. HeaderRight(z)'
      <3>1. /\ z \in [Five -> Nat] /\ HeaderRight(z) /\ Current.paddr = 0 /\ Current.size = z[1]
            /\ z[1] \in Nat
        BY <1>1, CurrentIs DEF ConvertText, Converting, Start
      <3>2. noffH' = [noffH EXCEPT !["code"] =
              [virtualAddr |-> 0, inFileAddr |-> HeaderBytes + Len(noffFile), size |-> z[1]]]
        BY <2>1, <3>1 DEF CopySegment
      <3>3. HeaderBytes + Len(noffFile) \in Nat
        BY <2>3, LoadersAssumption
      <3> QED BY <1>1, <2>2, <3>1, <3>2, <3>3 DEF HeaderRight, Taken, Segment
    <2> QED BY <1>1, <1>3, <2>2, <2>3, <2>4, TakenOne
  <1> QED BY <1>2, <1>3

LEMMA DataConverted ==
    ASSUME NEW z, LoaderOK(z), ConvertData
    PROVE  LoaderOK(z)'
  <1>1. section \in {2, 3} /\ section \in Five /\ section \in Copied /\ tool = "converting"
    <2>1. section \in Five /\ Names[section] \in {".data", ".rdata"} /\ tool = "converting"
      BY CurrentIs DEF ConvertData
    <2>2. section \in {1, 2, 3, 4, 5}
      BY <2>1 DEF Five
    <2> QED BY <2>1, <2>2, NamesAre
  <1>2. /\ z \in [Five -> Nat] /\ SizesAre(z) /\ HeaderRight(z) /\ Current.paddr = Start(z, section)
        /\ Current.size = z[section] /\ z[section] \in Nat \ {0} /\ 2 \in Five /\ 3 \in Five
    BY CurrentIs DEF ConvertData, Converting, Five
  <1>3. noffH.initData.size = IF section = 2 THEN 0 ELSE z[2]
    BY <1>1, <1>2 DEF HeaderRight, Taken
  <1>4. CASE ~CanRead(section)
    BY <1>4, Kept, Failed DEF ConvertData
  <1>5. CASE noffH.initData.size # 0
    <2>1. section = 3 /\ z[2] # 0
      BY <1>1, <1>3, <1>5
    <2>2. Size(2) # 0 /\ Size(3) # 0
      BY <1>2, <2>1, LinkedIs
    <2>3. ~Convertible
      BY <2>2, NamesAre DEF Convertible, Held, Size, Five
    <2>4. Fail
      BY <1>5 DEF ConvertData
    <2> QED BY <2>3, <2>4, Failed
  <1>6. CASE CanRead(section) /\ noffH.initData.size = 0
    <2>1. CopySegment("initData")
      BY <1>6 DEF ConvertData
    <2>2. section' = section + 1 /\ UNCHANGED <<coff, tool>>
      BY <2>1 DEF CopySegment
    <2>3. FileRight(z)' /\ Len(noffFile) \in Nat
      BY <1>1, <2>1, SectionRead, Starts DEF LoaderOK, Converting, FileRight
    <2>4. Start(z, section) \in Nat
      BY <1>1, <1>2, Starts
    <2>5. HeaderRight(z)'
      <3>2. noffH' = [noffH EXCEPT !["initData"] =
              [virtualAddr |-> Start(z, section), inFileAddr |-> HeaderBytes + Len(noffFile),
               size |-> z[section]]]
        BY <1>2, <2>1 DEF CopySegment
      <3>3. HeaderBytes + Len(noffFile) \in Nat
        BY <2>3, LoadersAssumption
      <3>4. PICK p, q : p = Start(z, section) /\ q = HeaderBytes + Len(noffFile)
        OBVIOUS
      <3>5. noffH' = [noffH EXCEPT !["initData"] = [virtualAddr |-> p, inFileAddr |-> q, size |-> z[section]]]
            /\ p \in Nat /\ q \in Nat
        BY <2>4, <3>2, <3>3, <3>4
      <3>6. z[2] \in Nat /\ z[3] \in Nat
        BY <1>2
      <3> QED BY <1>1, <1>2, <1>3, <1>6, <2>2, <3>5, <3>6 DEF HeaderRight, Taken, Segment
    <2>6. section = 3 => z[2] = 0
      BY <1>3, <1>6
    <2> QED BY <1>1, <1>6, <2>2, <2>3, <2>5, <2>6, TakenOne
  <1> QED BY <1>4, <1>5, <1>6

LEMMA BssConverted ==
    ASSUME NEW z, LoaderOK(z), ConvertBss
    PROVE  LoaderOK(z)'
  <1>1. section \in {4, 5} /\ section \in Five /\ section \notin Copied /\ tool = "converting"
    <2>1. section \in Five /\ Names[section] \in {".sbss", ".bss"} /\ tool = "converting"
      BY CurrentIs DEF ConvertBss, WithoutData
    <2>2. section \in {1, 2, 3, 4, 5}
      BY <2>1 DEF Five
    <2> QED BY <2>1, <2>2, NamesAre
  <1>2. /\ z \in [Five -> Nat] /\ SizesAre(z) /\ HeaderRight(z) /\ Current.paddr = Start(z, section)
        /\ Current.size = z[section] /\ z[section] \in Nat \ {0} /\ FileRight(z)
        /\ 1 \in Five /\ 2 \in Five /\ 3 \in Five /\ 4 \in Five /\ 5 \in Five
    BY CurrentIs DEF ConvertBss, Converting, Five
  <1>3. noffH.uninitData.size = IF section = 4 THEN 0 ELSE z[4]
    BY <1>1, <1>2 DEF HeaderRight, Taken
  <1>4. CASE noffH.uninitData.size # 0
    <2>1. section = 5 /\ z[4] # 0
      BY <1>1, <1>3, <1>4
    <2>2. noffH.uninitData.virtualAddr = Start(z, 4) /\ noffH.uninitData.size = z[4]
      BY <1>2, <1>3, <2>1 DEF HeaderRight
    <2>3. Start(z, 5) = Start(z, 4) + z[4]
      BY <1>2 DEF Start
    <2>4. Fail
      <3>1. Current.paddr = noffH.uninitData.virtualAddr + noffH.uninitData.size
        BY <1>2, <2>1, <2>2, <2>3
      <3> QED BY <1>4, <3>1 DEF ConvertBss
    <2>5. Size(4) # 0 /\ Size(5) # 0
      BY <1>2, <2>1, LinkedIs
    <2>6. ~Convertible
      BY <2>5, NamesAre DEF Convertible, Held, Size, Five
    <2> QED BY <2>4, <2>6, Failed
  <1>5. CASE noffH.uninitData.size = 0
    <2>1. /\ noffH' = [noffH EXCEPT !.uninitData = [@ EXCEPT !.virtualAddr = Current.paddr, !.size = Current.size]]
          /\ section' = section + 1 /\ UNCHANGED <<coff, noffFile, tool>>
      BY <1>5 DEF ConvertBss
    <2>2. FileRight(z)'
      BY <1>1, <1>2, <2>1, NothingWritten
    <2>3. HeaderRight(z)'
      <3>1. Start(z, 4) = z[1] + z[2] + z[3] /\ Start(z, 5) = z[1] + z[2] + z[3] + z[4]
        BY DEF Start
      <3>2. z[1] \in Nat /\ z[2] \in Nat /\ z[3] \in Nat /\ z[4] \in Nat /\ z[5] \in Nat
        BY <1>2
      <3>3. Start(z, section) \in Nat
        BY <1>1, <3>1, <3>2
      <3>4. PICK p : p = Start(z, section)
        OBVIOUS
      <3>5. /\ p \in Nat
            /\ noffH' = [noffH EXCEPT !.uninitData = [@ EXCEPT !.virtualAddr = p, !.size = z[section]]]
        BY <1>2, <2>1, <3>3, <3>4
      <3>6. noffH'.code = noffH.code /\ noffH'.initData = noffH.initData
            /\ noffH'.uninitData = [noffH.uninitData EXCEPT !.virtualAddr = p, !.size = z[section]]
            /\ noffH' \in [code : Segment, initData : Segment, uninitData : Segment]
        BY <1>2, <3>5 DEF HeaderRight, Segment
      <3>7. noffH'.uninitData.size = z[section] /\ noffH'.uninitData.virtualAddr = p
        BY <1>2, <3>6 DEF HeaderRight, Segment
      <3>8. \A k \in {1, 2, 3} : Taken(z, k)' = Taken(z, k)
        BY <1>1, <2>1 DEF Taken
      <3>9. Taken(z, 4)' + Taken(z, 5)' = z[section]
        BY <1>1, <1>3, <1>5, <2>1, <3>2 DEF Taken
      <3>10. section' = 5 => p = Start(z, 4)
        BY <1>1, <2>1, <3>4
      <3> QED BY <1>2, <3>6, <3>7, <3>8, <3>9, <3>10 DEF HeaderRight
    <2>4. section = 5 => z[4] = 0
      BY <1>3, <1>5
    <2> QED BY <1>1, <2>1, <2>2, <2>3, <2>4, TakenOne
  <1> QED BY <1>4, <1>5

LEMMA LoaderKeeps ==
    ASSUME NEW z, LoaderOK(z), LoaderStep \/ UNCHANGED loaderVars
    PROVE  LoaderOK(z)'
  <1>1. CASE WriteHeader
    <2>1. /\ tool = "converting" /\ section = 6 /\ tool' = "converted"
          /\ UNCHANGED <<coff, section, noffH, noffFile>>
      BY <1>1, NamesAre DEF WriteHeader, LoaderOK, Five
    <2>2. FileRight(z)' /\ HeaderRight(z)'
      BY <2>1 DEF LoaderOK, Converting, FileRight, HeaderRight, Taken
    <2>3. SoFar(z)'
      BY <2>1, Zenon DEF LoaderOK, Converting, SoFar, CanRead, FileEnd
    <2> QED BY <2>1, <2>2, <2>3 DEF LoaderOK, Converting, SizesAre
  <1>2. CASE UNCHANGED loaderVars
    <2>1. coff' = coff /\ section' = section /\ tool' = tool /\ noffH' = noffH /\ noffFile' = noffFile
      BY <1>2 DEF loaderVars
    <2>2. Converting(z)' <=> Converting(z)
      <3>1. (FileRight(z)' <=> FileRight(z)) /\ (HeaderRight(z)' <=> HeaderRight(z))
        BY <2>1, Zenon DEF FileRight, HeaderRight, Taken
      <3>2. SoFar(z)' <=> SoFar(z)
        BY <2>1, Zenon DEF SoFar, CanRead, FileEnd
      <3> QED BY <3>1, <3>2 DEF Converting
    <2>3. Convertible' <=> Convertible
      BY <2>1, Zenon DEF Convertible, Held, CanRead, FileEnd
    <2> QED BY <2>1, <2>2, <2>3 DEF LoaderOK, SizesAre
  <1> QED BY <1>1, <1>2, TextConverted, DataConverted, BssConverted, Skipped DEF LoaderStep

-----------------------------------------------------------------------------
(* The three memories *)

\* What coff2noff has made when it is done.
Done(z) ==
    /\ z \in [Five -> Nat] /\ SizesAre(z) /\ Convertible
    /\ noffH.code.size = z[1] /\ noffH.initData.size = z[2] + z[3]
    /\ noffH.uninitData.size = z[4] + z[5]
    /\ Len(noffFile) = z[1] + z[2] + z[3] /\ noffFile \in Seq(AllNames \X Nat)
    /\ \A k \in Copied, i \in Nat :
         i \in 1 .. z[k] => noffFile[Start(z, k) + i] = <<Names[k], i>>

LEMMA DoneThen ==
    ASSUME NEW z, LoaderOK(z), tool = "converted"
    PROVE  Done(z)
  <1> USE NamesAre
  <1>1. z \in [Five -> Nat] /\ SizesAre(z) /\ section = 6 /\ Converting(z)
    BY DEF LoaderOK, SizesAre
  <1>2. \A k \in Five : Taken(z, k) = z[k]
    BY <1>1 DEF Taken, Five
  <1>3. 1 \in Five /\ 2 \in Five /\ 3 \in Five /\ 4 \in Five /\ 5 \in Five
    BY DEF Five
  <1>4. \A k \in Five : coff.sections[k].size = z[k]
    BY <1>1, LinkedIs DEF Size
  <1>5. Convertible
    <2>1. \A k \in Held \cap Copied : CanRead(k)
      BY <1>1, <1>3, <1>4 DEF Converting, SoFar, Held
    <2>2. ~({2, 3} \subseteq Held) /\ ~({4, 5} \subseteq Held)
      BY <1>1, <1>3, <1>4 DEF Converting, SoFar, Held
    <2> QED BY <2>1, <2>2 DEF Convertible
  <1>6. \A k \in Copied : k < section
    BY <1>1
  <1> QED BY <1>1, <1>2, <1>3, <1>5, <1>6 DEF Done, Converting, FileRight, HeaderRight

\* Division by the size of a page.
LEMMA Divided ==
    ASSUME NEW d \in Nat \ {0}
    PROVE  /\ \A a \in Nat : /\ a \div d \in Nat /\ a % d \in 0 .. d - 1
                             /\ a = (a \div d) * d + (a % d)
           /\ \A a, b \in Nat : a < b => a \div d < (b + d - 1) \div d
           /\ \A b \in Nat : b <= ((b + d - 1) \div d) * d
  <1>1. \A a \in Nat : /\ a \div d \in Nat /\ a % d \in 0 .. d - 1
                      /\ a = (a \div d) * d + (a % d)
    BY SMTT(30)
  <1>2. \A b \in Nat : b <= ((b + d - 1) \div d) * d
    <2>1. ASSUME NEW b \in Nat PROVE b <= ((b + d - 1) \div d) * d
      <3>1. PICK c, q, r : c = b + d - 1 /\ q = c \div d /\ r = c % d
        OBVIOUS
      <3>2. c \in Nat /\ q \in Nat /\ r \in 0 .. d - 1 /\ c = q * d + r
        BY <1>1, <3>1
      <3>3. q * d \in Nat
        BY <3>2
      <3> QED BY <3>1, <3>2, <3>3
    <2> QED BY <2>1
  <1>3. \A a, b \in Nat : a < b => a \div d < (b + d - 1) \div d
    <2>1. ASSUME NEW a \in Nat, NEW b \in Nat, a < b PROVE a \div d < (b + d - 1) \div d
      <3>1. PICK q, p : q = a \div d /\ p = (b + d - 1) \div d
        OBVIOUS
      <3>2. q \in Nat /\ p \in Nat /\ q * d <= a /\ b <= p * d
        <4>1. b + d - 1 \in Nat
          OBVIOUS
        <4>2. q \in Nat /\ p \in Nat /\ b <= p * d
          BY <1>1, <1>2, <3>1, <4>1
        <4>3. a = q * d + (a % d) /\ a % d \in Nat
          BY <1>1, <3>1
        <4>4. q * d \in Nat
          BY <4>2
        <4> QED BY <4>2, <4>3, <4>4
      <3>3. q * d < p * d
        <4>1. q * d \in Nat /\ p * d \in Nat
          BY <3>2
        <4> QED BY <2>1, <3>2, <4>1
      <3>4. \A i, j \in Nat : i <= j => i * d <= j * d
        BY SMTT(30)
      <3>5. ~(p <= q)
        <4>1. q * d \in Nat /\ p * d \in Nat
          BY <3>2
        <4> QED BY <3>2, <3>3, <3>4, <4>1
      <3> QED BY <3>1, <3>2, <3>5
    <2> QED BY <2>1
  <1> QED BY <1>1, <1>2, <1>3

\* A page is read from its place in the file: so is each byte.
LEMMA PagedIs ==
    ASSUME NEW z, Done(z), NEW k \in Copied, NEW i \in 1 .. z[k]
    PROVE  Paged(Start(z, k) + i - 1) = <<Names[k], i>>
  <1> USE NamesAre
  <1>1. /\ Page \in Nat \ {0} /\ HeaderBytes \in Nat /\ z[1] \in Nat /\ z[2] \in Nat /\ z[3] \in Nat
        /\ z[k] \in Nat /\ i \in Nat
    BY LoadersAssumption DEF Done, Five
  <1>2. PICK a : a = Start(z, k) + i - 1
    OBVIOUS
  <1>3. a \in Nat /\ a + 1 = Start(z, k) + i /\ a < z[1] + z[2] + z[3]
    BY <1>1, <1>2 DEF Start
  <1>4. PICK q, r : q = a \div Page /\ r = a % Page
    OBVIOUS
  <1>5. q \in Nat /\ r \in Nat /\ a = q * Page + r /\ q * Page \in Nat
    <2>1. \A n \in Nat : /\ n \div Page \in Nat /\ n % Page \in 0 .. Page - 1
                         /\ n = (n \div Page) * Page + (n % Page)
      BY <1>1, Divided
    <2>2. q \in Nat /\ r \in 0 .. Page - 1 /\ a = q * Page + r
      BY <1>3, <1>4, <2>1
    <2> QED BY <1>1, <2>2
  <1>6. FileOffset(q) + r - HeaderBytes + 1 = a + 1
    <2>1. PICK w : w = q * Page
      OBVIOUS
    <2>2. FileOffset(q) = HeaderBytes + w
      BY <2>1 DEF FileOffset
    <2> QED BY <1>1, <1>5, <2>1, <2>2
  <1>7. q < FilePages
    <2>1. FilePages = RoundedUp(z[1] + z[2] + z[3])
      BY <1>1 DEF FilePages, Done
    <2>2. z[1] + z[2] + z[3] \in Nat
      BY <1>1
    <2> QED BY <1>1, <1>3, <1>4, <2>1, <2>2, Divided DEF RoundedUp
  <1>8. a + 1 \in DOMAIN noffFile
    <2>1. DOMAIN noffFile = 1 .. z[1] + z[2] + z[3]
      BY DEF Done
    <2> QED BY <1>1, <1>3, <2>1
  <1>9. Paged(a) = noffFile[a + 1]
    BY <1>4, <1>6, <1>7, <1>8, Zenon DEF Paged
  <1> QED BY <1>1, <1>2, <1>3, <1>9 DEF Done

\* The greatest of a set of numbers.
LEMMA MaxIs ==
    ASSUME NEW S \in SUBSET Nat, NEW m \in S, \A x \in S : x <= m
    PROVE  Max(S) = m
  <1>1. PICK g : g = Max(S)
    OBVIOUS
  <1>2. \E x \in S : \A y \in S : x >= y
    OBVIOUS
  <1>3. g \in S /\ \A y \in S : g >= y
    BY <1>1, <1>2 DEF Max
  <1> QED BY <1>1, <1>3

\* The tops of the memories: there are pages for all that coff2flat writes, and for bss.
LEMMA TopIs ==
    ASSUME NEW z, Done(z)
    PROVE  FlatTop <= StackTop * Page
  <1> USE NamesAre
  <1>1. /\ Page \in Nat \ {0} /\ z \in [Five -> Nat] /\ SizesAre(z)
        /\ 1 \in Five /\ 2 \in Five /\ 3 \in Five /\ 4 \in Five /\ 5 \in Five
    BY LoadersAssumption DEF Done, Five
  <1>2. z[1] \in Nat /\ z[2] \in Nat /\ z[3] \in Nat /\ z[4] \in Nat /\ z[5] \in Nat
    BY <1>1
  <1>3. PICK all : all = z[1] + z[2] + z[3] + z[4] + z[5]
    OBVIOUS
  <1> DEFINE tops == {coff.sections[k].paddr + coff.sections[k].size : k \in DOMAIN Names}
  <1>4. \A k \in Five : coff.sections[k].paddr + coff.sections[k].size = Start(z, k) + z[k]
    BY <1>1, LinkedIs DEF Size
  <1>5. \A k \in Five : k = 1 \/ k = 2 \/ k = 3 \/ k = 4 \/ k = 5
    BY DEF Five
  <1>6. \A k \in Five : Start(z, k) + z[k] \in Nat /\ Start(z, k) + z[k] <= all
    BY <1>2, <1>3, <1>5 DEF Start
  <1>7. Start(z, 5) + z[5] = all
    BY <1>2, <1>3 DEF Start
  <1>8. tops \in SUBSET Nat /\ all \in tops /\ \A x \in tops : x <= all
    BY <1>1, <1>4, <1>6, <1>7
  <1>9. FlatTop = all
    <2> HIDE DEF tops
    <2>1. FlatTop = Max(tops)
      BY DEF FlatTop, tops
    <2> QED BY <1>8, <2>1, MaxIs
  <1>10. StackTop = RoundedUp(all)
    <2>1. noffH.code.size + noffH.initData.size + noffH.uninitData.size = all
      BY <1>2, <1>3 DEF Done
    <2> QED BY <2>1 DEF StackTop
  <1>11. all \in Nat
    BY <1>2, <1>3
  <1> QED BY <1>1, <1>9, <1>10, <1>11, Divided DEF RoundedUp

\* The interpreter finds a byte in one section.
LEMMA InterpretedIs ==
    ASSUME NEW z, Done(z), NEW k \in Copied, NEW i \in 1 .. z[k]
    PROVE  Interpreted(Start(z, k) + i - 1) = <<Names[k], i>>
  <1> USE NamesAre
  <1>1. /\ z \in [Five -> Nat] /\ SizesAre(z) /\ k \in {1, 2, 3}
        /\ 1 \in Five /\ 2 \in Five /\ 3 \in Five
    BY DEF Done, Five
  <1>2. z[1] \in Nat /\ z[2] \in Nat /\ z[3] \in Nat /\ i \in Nat /\ i >= 1 /\ i <= z[k]
    BY <1>1
  <1>3. PICK a : a = Start(z, k) + i - 1
    OBVIOUS
  <1> DEFINE At(j) == a - coff.sections[j].paddr + 1
             here == {j \in Copied : At(j) \in DOMAIN Data(j)}
  <1>4. ASSUME NEW j \in Copied
        PROVE  /\ Data(j) = [n \in 1 .. z[j] |-> <<Names[j], n>>]
               /\ coff.sections[j].paddr = Start(z, j)
    BY <1>1, LinkedIs DEF Data, Size
  <1>5. \A j \in Copied : At(j) \in DOMAIN Data(j) <=> (a - Start(z, j)) + 1 \in 1 .. z[j]
    <2>1. ASSUME NEW j \in Copied PROVE At(j) \in DOMAIN Data(j) <=> (a - Start(z, j)) + 1 \in 1 .. z[j]
      <3>1. DOMAIN Data(j) = 1 .. z[j]
        BY <1>4
      <3>2. At(j) = (a - Start(z, j)) + 1
        BY <1>4
      <3> QED BY <3>1, <3>2
    <2> QED BY <2>1
  <1>6. Start(z, 1) = 0 /\ Start(z, 2) = z[1] /\ Start(z, 3) = z[1] + z[2] /\ a \in Nat
    BY <1>1, <1>2, <1>3 DEF Start
  <1>7. \A j \in Copied : (a - Start(z, j)) + 1 \in 1 .. z[j] <=> j = k
    BY <1>1, <1>2, <1>3, <1>6
  <1>8. here = {k}
    <2> HIDE DEF At
    <2> QED BY <1>5, <1>7 DEF At
  <1>9. Max(here) = k
    <2>1. {k} \in SUBSET Nat
      BY <1>1
    <2> QED BY <1>8, <2>1, MaxIs
  <1>10. At(k) = i
    <2>1. At(k) = (a - Start(z, k)) + 1
      BY <1>4
    <2>2. Start(z, k) \in Nat
      BY <1>1, <1>2, <1>6
    <2> QED BY <1>2, <1>3, <2>1, <2>2
  <1>11. Interpreted(a) = Data(k)[i]
    <2> HIDE DEF At
    <2>1. Interpreted(a) = IF here = {} THEN Unset ELSE Data(Max(here))[At(Max(here))]
      BY Zenon DEF Interpreted, At
    <2> QED BY <1>8, <1>9, <1>10, <2>1
  <1> QED BY <1>2, <1>3, <1>4, <1>11

\* Two sequences in a row.
LEMMA Joined ==
    ASSUME NEW S, NEW s \in Seq(S), NEW t \in Seq(S)
    PROVE  /\ s \o t \in Seq(S) /\ Len(s \o t) = Len(s) + Len(t)
           /\ \A i \in 1 .. Len(s) + Len(t) :
                (s \o t)[i] = IF i <= Len(s) THEN s[i] ELSE t[i - Len(s)]
  BY ConcatProperties

\* coff2flat puts the sections in a row.
LEMMA FlatIs ==
    ASSUME NEW z, Done(z), NEW k \in Copied, NEW i \in 1 .. z[k]
    PROVE  Flat[Start(z, k) + i] = <<Names[k], i>>
  <1> USE NamesAre
  <1> DEFINE ss == [j \in DOMAIN Names |-> IF j \in Copied THEN Data(j) ELSE <<>>]
             Is(f) == f = [j \in 1 .. Len(ss) |-> IF j = 1 THEN ss[j] ELSE f[j - 1] \o ss[j]]
             Byte == AllNames \X Nat
  <1>1. /\ z \in [Five -> Nat] /\ SizesAre(z) /\ k \in {1, 2, 3}
        /\ 1 \in Five /\ 2 \in Five /\ 3 \in Five /\ 4 \in Five /\ 5 \in Five
    BY DEF Done, Five
  <1>2. z[1] \in Nat /\ z[2] \in Nat /\ z[3] \in Nat /\ i \in Nat /\ i >= 1 /\ i <= z[k]
    BY <1>1
  <1>3. ASSUME NEW j \in {1, 2, 3}
        PROVE  /\ ss[j] \in Seq(Byte) /\ Len(ss[j]) = z[j]
               /\ \A n \in 1 .. z[j] : ss[j][n] = <<Names[j], n>>
    <2>1. j \in Five /\ ss[j] = Data(j) /\ z[j] \in Nat /\ Names[j] \in AllNames
      BY <1>1
    <2>2. Data(j) = [n \in 1 .. z[j] |-> <<Names[j], n>>]
      BY <1>1, <2>1, LinkedIs DEF Data, Size
    <2>3. \A n \in 1 .. z[j] : <<Names[j], n>> \in Byte
      BY <2>1
    <2> HIDE DEF ss, Byte
    <2> QED BY <2>1, <2>2, <2>3
  <1>4. ss[4] = <<>> /\ ss[5] = <<>> /\ <<>> \in Seq(Byte)
    BY <1>1, EmptySeq
  <1>5. Len(ss) = 5
    <2>1. \A j \in Five : ss[j] \in Seq(Byte)
      <3>1. \A j \in Five : j \in {1, 2, 3} \/ j = 4 \/ j = 5
        BY DEF Five
      <3> HIDE DEF ss, Byte
      <3> QED BY <1>3, <1>4, <3>1
    <2>2. ss = [j \in 1 .. 5 |-> ss[j]] /\ DOMAIN ss = 1 .. 5
      BY DEF Five
    <2> HIDE DEF ss, Byte
    <2>3. ss \in Seq(Seq(Byte))
      BY <2>1, <2>2 DEF Five
    <2> QED BY <2>2, <2>3, LenProperties
  <1> HIDE DEF ss
  <1> DEFINE two == ss[1] \o ss[2]
             three == two \o ss[3]
             four == three \o ss[4]
             e == [j \in 1 .. 5 |-> IF j = 1 THEN ss[1] ELSE IF j = 2 THEN two
                                    ELSE IF j = 3 THEN three ELSE IF j = 4 THEN four
                                    ELSE four \o ss[5]]
  <1>6. Is(e)
    <2>1. e[1] = ss[1] /\ e[2] = two /\ e[3] = three /\ e[4] = four /\ e[5] = four \o ss[5]
      <3> HIDE DEF two, three, four
      <3> QED OBVIOUS
    <2> HIDE DEF e
    <2>2. e[1] = ss[1] /\ e[2] = e[1] \o ss[2] /\ e[3] = e[2] \o ss[3] /\ e[4] = e[3] \o ss[4]
          /\ e[5] = e[4] \o ss[5]
      BY <2>1
    <2>3. \A j \in 1 .. 5 : e[j] = IF j = 1 THEN ss[j] ELSE e[j - 1] \o ss[j]
      <3>1. \A j \in 1 .. 5 : j = 1 \/ j = 2 \/ j = 3 \/ j = 4 \/ j = 5
        OBVIOUS
      <3>2. 2 - 1 = 1 /\ 3 - 1 = 2 /\ 4 - 1 = 3 /\ 5 - 1 = 4
        OBVIOUS
      <3> HIDE DEF two, three, four
      <3> QED BY <2>2, <3>1, <3>2
    <2>4. e = [j \in 1 .. 5 |-> e[j]]
      BY DEF e
    <2> DEFINE again == [j \in 1 .. 5 |-> IF j = 1 THEN ss[j] ELSE e[j - 1] \o ss[j]]
    <2>5. e = again
      BY <2>3, <2>4
    <2> QED BY <1>5, <2>5
  <1>7. PICK g : g = CHOOSE f : Is(f)
    OBVIOUS
  <1>8. Is(g)
    <2> HIDE DEF e, Is
    <2> QED BY <1>6, <1>7
  <1>9. Flat = g[5]
    <2>1. Flat = FlattenSeq(ss)
      BY DEF Flat, ss
    <2>2. FlattenSeq(ss) = g[Len(ss)]
      BY <1>5, <1>7 DEF FlattenSeq
    <2> QED BY <1>5, <2>1, <2>2
  <1>10. g[5] = four \o ss[5]
    <2>1. \A j \in 1 .. 5 : g[j] = IF j = 1 THEN ss[j] ELSE g[j - 1] \o ss[j]
      BY <1>5, <1>8
    <2>2. g[1] = ss[1] /\ g[2] = g[1] \o ss[2] /\ g[3] = g[2] \o ss[3] /\ g[4] = g[3] \o ss[4]
          /\ g[5] = g[4] \o ss[5]
      <3> HIDE DEF Is, e, two, three, four
      <3>1. g[1] = ss[1]
        BY <2>1
      <3>5. 2 \in 1 .. 5 /\ 3 \in 1 .. 5 /\ 4 \in 1 .. 5 /\ 5 \in 1 .. 5
            /\ 2 # 1 /\ 3 # 1 /\ 4 # 1 /\ 5 # 1
        OBVIOUS
      <3>2. g[2] = g[2 - 1] \o ss[2] /\ g[3] = g[3 - 1] \o ss[3]
        BY <2>1, <3>5, Zenon
      <3>3. g[4] = g[4 - 1] \o ss[4] /\ g[5] = g[5 - 1] \o ss[5]
        BY <2>1, <3>5, Zenon
      <3>4. 2 - 1 = 1 /\ 3 - 1 = 2 /\ 4 - 1 = 3 /\ 5 - 1 = 4
        OBVIOUS
      <3> QED BY <3>1, <3>2, <3>3, <3>4
    <2> HIDE DEF Is
    <2> QED BY <2>2
  <1>11. /\ two \in Seq(Byte) /\ Len(two) = z[1] + z[2]
         /\ \A n \in 1 .. z[1] + z[2] : two[n] = IF n <= z[1] THEN ss[1][n] ELSE ss[2][n - z[1]]
    <2> HIDE DEF Byte
    <2>1. ss[1] \in Seq(Byte) /\ ss[2] \in Seq(Byte) /\ Len(ss[1]) = z[1] /\ Len(ss[2]) = z[2]
      BY <1>3
    <2> HIDE DEF e, Is, two, three, four
    <2>2. /\ two \in Seq(Byte) /\ Len(two) = Len(ss[1]) + Len(ss[2])
          /\ \A n \in 1 .. Len(ss[1]) + Len(ss[2]) :
               two[n] = IF n <= Len(ss[1]) THEN ss[1][n] ELSE ss[2][n - Len(ss[1])]
      BY <2>1, Joined DEF two
    <2> QED BY <2>1, <2>2
  <1>12. /\ three \in Seq(Byte) /\ Len(three) = z[1] + z[2] + z[3]
         /\ \A n \in 1 .. z[1] + z[2] + z[3] :
              three[n] = IF n <= z[1] + z[2] THEN two[n] ELSE ss[3][n - (z[1] + z[2])]
    <2> HIDE DEF Byte, two
    <2>1. ss[3] \in Seq(Byte) /\ Len(ss[3]) = z[3]
      BY <1>3
    <2> HIDE DEF e, Is, three, four
    <2>2. /\ three \in Seq(Byte) /\ Len(three) = Len(two) + Len(ss[3])
          /\ \A n \in 1 .. Len(two) + Len(ss[3]) :
               three[n] = IF n <= Len(two) THEN two[n] ELSE ss[3][n - Len(two)]
      BY <1>11, <2>1, Joined DEF three
    <2> QED BY <1>2, <1>11, <2>1, <2>2
  <1>13. four = three /\ four \o ss[5] = three
    <2> HIDE DEF Byte, three
    <2> QED BY <1>4, <1>12, ConcatEmptySeq
  <1>14. Flat = three
    BY <1>9, <1>10, <1>13
  <1> HIDE DEF two, three, four, e, Is, Byte
  <1>15. \A n \in 1 .. z[1] : Flat[n] = ss[1][n]
    BY <1>2, <1>11, <1>12, <1>14
  <1>16. \A n \in 1 .. z[2] : Flat[z[1] + n] = ss[2][n]
    <2>1. ASSUME NEW n \in 1 .. z[2] PROVE Flat[z[1] + n] = ss[2][n]
      <3>1. /\ z[1] + n \in 1 .. z[1] + z[2] /\ ~(z[1] + n <= z[1]) /\ (z[1] + n) - z[1] = n
            /\ z[1] + n \in 1 .. z[1] + z[2] + z[3] /\ z[1] + n <= z[1] + z[2]
        BY <1>2
      <3> QED BY <1>11, <1>12, <1>14, <3>1
    <2> QED BY <2>1
  <1>17. \A n \in 1 .. z[3] : Flat[(z[1] + z[2]) + n] = ss[3][n]
    <2>1. ASSUME NEW n \in 1 .. z[3] PROVE Flat[(z[1] + z[2]) + n] = ss[3][n]
      <3>1. /\ (z[1] + z[2]) + n \in 1 .. z[1] + z[2] + z[3] /\ ~((z[1] + z[2]) + n <= z[1] + z[2])
            /\ ((z[1] + z[2]) + n) - (z[1] + z[2]) = n
        BY <1>2
      <3> QED BY <1>12, <1>14, <3>1
    <2> QED BY <2>1
  <1>18. Start(z, 1) = 0 /\ Start(z, 2) = z[1] /\ Start(z, 3) = z[1] + z[2]
    BY DEF Start
  <1>19. ss[k][i] = <<Names[k], i>>
    BY <1>1, <1>3
  <1>20. Flat[Start(z, k) + i] = ss[k][i]
    BY <1>1, <1>2, <1>15, <1>16, <1>17, <1>18
  <1> QED BY <1>19, <1>20

LEMMA LoadedAlike ==
    ASSUME NEW z, LoaderOK(z)
    PROVE  ProgramsLoadAlike
  <1>1. tool = "failed" => ~Convertible
    BY DEF LoaderOK
  <1>2. ASSUME tool = "converted"
        PROVE  /\ Convertible /\ FlatTop <= StackTop * Page
               /\ \A k \in Copied : \A i \in DOMAIN Data(k) :
                    LET a == coff.sections[k].paddr + i - 1
                    IN  /\ Paged(a) = <<Names[k], i>>
                        /\ Flat[a + 1] = Paged(a) /\ Interpreted(a) = Paged(a)
    <2>1. Done(z)
      BY <1>2, DoneThen
    <2>2. Convertible /\ FlatTop <= StackTop * Page
      BY <2>1, TopIs DEF Done
    <2>3. ASSUME NEW k \in Copied, NEW i \in DOMAIN Data(k),
                 NEW a, a = coff.sections[k].paddr + i - 1
          PROVE  /\ Paged(a) = <<Names[k], i>>
                 /\ Flat[a + 1] = Paged(a) /\ Interpreted(a) = Paged(a)
      <3>1. k \in Five /\ k \in {1, 2, 3} /\ z \in [Five -> Nat] /\ SizesAre(z)
        BY <2>1, NamesAre DEF Done, Five
      <3>2. coff.sections[k].size = z[k] /\ coff.sections[k].paddr = Start(z, k) /\ z[k] \in Nat
        BY <3>1, LinkedIs DEF Size
      <3>3. DOMAIN Data(k) = 1 .. z[k]
        BY <3>2 DEF Data
      <3>4. i \in 1 .. z[k] /\ i \in Nat /\ a = Start(z, k) + i - 1
        BY <2>3, <3>2, <3>3
      <3>5. a + 1 = Start(z, k) + i
        <4>1. z[1] \in Nat /\ z[2] \in Nat
          BY <3>1 DEF Five
        <4>2. Start(z, k) \in Nat
          BY <3>1, <4>1 DEF Start
        <4> QED BY <3>4, <4>2
      <3>6. Paged(a) = <<Names[k], i>> /\ Interpreted(a) = <<Names[k], i>>
        BY <2>1, <3>4, PagedIs, InterpretedIs
      <3>7. Flat[a + 1] = <<Names[k], i>>
        BY <2>1, <3>4, <3>5, FlatIs
      <3> QED BY <3>6, <3>7
    <2> QED BY <2>2, <2>3, Zenon
  <1> QED BY <1>1, <1>2, Zenon DEF ProgramsLoadAlike

-----------------------------------------------------------------------------
\* A program that is whole and has one kind of data and one of bss is converted, and no other
\* is; and each of its bytes is at its address in the memory that Nachos pages in, in the one
\* that coff2flat writes and in the interpreter's, for any sizes (bin/coff2noff.c, coff2flat.c,
\* main.c and AddrSpace::AddrSpace).
THEOREM LoadersAgree == ProgramSpec => []ProgramsLoadAlike
  <1> DEFINE OK == \E z : LoaderOK(z)
  <1>1. ProgramInit => OK
    BY LoaderBegins DEF ProgramInit
  <1>2. OK /\ [ProgramNext]_<<vars, loaderVars>> => OK'
    <2> SUFFICES ASSUME OK, [ProgramNext]_<<vars, loaderVars>> PROVE OK'
      OBVIOUS
    <2>1. LoaderStep \/ UNCHANGED loaderVars
      BY Zenon DEF ProgramNext
    <2> QED BY <2>1, LoaderKeeps
  <1>3. OK => ProgramsLoadAlike
    BY LoadedAlike
  <1> HIDE DEF OK
  <1> QED BY <1>1, <1>2, <1>3, PTL DEF ProgramSpec

\* What runs when a program has been converted is what VirtualMemory has: its theorems hold
\* of the program, and of every other.
THEOREM ProgramRuns == ProgramSpec => Spec
  <1>1. ProgramInit => Init
    BY DEF ProgramInit
  <1>2. [ProgramNext]_<<vars, loaderVars>> => [Next]_vars
    BY Zenon DEF ProgramNext
  <1> QED BY <1>1, <1>2, PTL DEF ProgramSpec, Spec
=============================================================================
