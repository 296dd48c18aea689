------------------------------- MODULE Loaders -------------------------------
(***************************************************************************)
(* How a linked program gets into memory, in the three ways the repository *)
(* has: coff2noff rewrites it for Nachos, which pages it in by the place   *)
(* of each page in the file (bin/coff2noff.c, userprog/addrspace.cc);      *)
(* coff2flat makes a memory image of it (bin/coff2flat.c); and the host's  *)
(* interpreter reads its sections (bin/main.c). The linker is external:    *)
(* its script (test/script) says which sections there are, in which order. *)
(***************************************************************************)
EXTENDS Integers, Sequences, SequencesExt

CONSTANTS Page,        \* bytes of a page
          StackBytes,  \* bytes of a stack, here and in coff2flat
          HeaderBytes, \* of a NOFF file, sizeof(NoffHeader)
          MaxSize,     \* bound: bytes of a section
          Cuts         \* bound: how many bytes may be missing at a file's end

ASSUME LoadersAssumption ==
    {Page, StackBytes, HeaderBytes} \subseteq Nat \ {0} /\ MaxSize \in Nat /\ Cuts \subseteq Nat

VARIABLES coff,     \* the linked program: its sections, and the bytes that are missing
          section,  \* of it, the one that coff2noff looks at
          noffH, noffFile,
          tool      \* "converting", "converted" or "failed"

loaderVars == <<coff, section, noffH, noffFile, tool>>

Names == <<".text", ".rdata", ".data", ".sbss", ".bss">>
WithoutData == {".sbss", ".bss"}

\* One section behind the other, in memory as in the file; bss has no data there.
Before(sizes, k, kinds) == SumFunctionOnSet(sizes, {j \in 1..k - 1 : Names[j] \in kinds})
AllNames == {Names[k] : k \in DOMAIN Names}
Linked(sizes) == [k \in DOMAIN Names |->
    [name |-> Names[k], paddr |-> Before(sizes, k, AllNames), size |-> sizes[k],
     scnptr |-> Before(sizes, k, AllNames \ WithoutData)]]
\* A byte of the program: its section, and where it is in it.
Data(k) == [i \in 1..coff.sections[k].size |-> <<Names[k], i>>]

NoSegment == [virtualAddr |-> 0, inFileAddr |-> 0, size |-> 0]

LoaderInit ==
    /\ \E sizes \in [DOMAIN Names -> 0..MaxSize], cut \in Cuts :
           coff = [sections |-> Linked(sizes), cut |-> cut]
    /\ section = 1 /\ tool = "converting"
    /\ noffH = [code |-> NoSegment, initData |-> NoSegment, uninitData |-> NoSegment]
    /\ noffFile = <<>>

-----------------------------------------------------------------------------
(* coff2noff *)

Current == coff.sections[section]
Converts(names) == /\ tool = "converting" /\ section \in DOMAIN Names
                   /\ Current.name \in names /\ Current.size # 0

\* The bytes that are there: Read fails when it gets fewer than it asks for.
Copied == {k \in DOMAIN Names : Names[k] \notin WithoutData}
FileEnd == SumFunctionOnSet([k \in DOMAIN Names |-> coff.sections[k].size], Copied) - coff.cut
CanRead(k) == coff.sections[k].scnptr + coff.sections[k].size <= FileEnd

Fail == tool' = "failed" /\ noffFile' = <<>> /\ UNCHANGED <<coff, section, noffH>>

CopySegment(segment) ==
    /\ noffH' = [noffH EXCEPT ![segment] =
           [virtualAddr |-> Current.paddr, inFileAddr |-> HeaderBytes + Len(noffFile), size |-> Current.size]]
    /\ noffFile' = noffFile \o Data(section)
    /\ section' = section + 1 /\ UNCHANGED <<coff, tool>>

ConvertText == /\ Converts({".text"})
               /\ IF CanRead(section) THEN CopySegment("code") ELSE Fail
ConvertData == /\ Converts({".data", ".rdata"})
               /\ IF noffH.initData.size = 0 /\ CanRead(section) THEN CopySegment("initData") ELSE Fail
\* A second one is added to the first, unless it follows it.
ConvertBss ==
    /\ Converts(WithoutData)
    /\ LET bss == noffH.uninitData IN
       IF bss.size = 0
       THEN /\ noffH' = [noffH EXCEPT !.uninitData = [@ EXCEPT !.virtualAddr = Current.paddr, !.size = Current.size]]
            /\ section' = section + 1 /\ UNCHANGED <<coff, noffFile, tool>>
       ELSE IF Current.paddr = bss.virtualAddr + bss.size THEN Fail
       ELSE /\ noffH' = [noffH EXCEPT !.uninitData.size = @ + Current.size]
            /\ section' = section + 1 /\ UNCHANGED <<coff, noffFile, tool>>
SkipEmpty == /\ tool = "converting" /\ section \in DOMAIN Names /\ Current.size = 0
             /\ section' = section + 1 /\ UNCHANGED <<coff, noffH, noffFile, tool>>
WriteHeader == /\ tool = "converting" /\ section \notin DOMAIN Names
               /\ tool' = "converted" /\ UNCHANGED <<coff, section, noffH, noffFile>>

LoaderStep == ConvertText \/ ConvertData \/ ConvertBss \/ SkipEmpty \/ WriteHeader

-----------------------------------------------------------------------------
(* AddrSpace::AddrSpace, and the pages it fetches *)

Unset == <<>>    \* what the memory held before
RoundedUp(n) == (n + Page - 1) \div Page
FileOffset_HeaderForgotten(v) == v * Page
FileOffset(v) == HeaderBytes + v * Page
FilePages == RoundedUp(noffH.code.size + noffH.initData.size)
StackTop == RoundedUp(noffH.code.size + noffH.initData.size + noffH.uninitData.size)
numPages == StackTop + RoundedUp(StackBytes)
\* ReadAt gives what there is of the page.
Paged(a) == LET i == FileOffset(a \div Page) + (a % Page) - HeaderBytes + 1
            IN  IF a \div Page < FilePages /\ i \in DOMAIN noffFile THEN noffFile[i] ELSE Unset

(* coff2flat: the sections one after the other, and a stack behind the highest *)
Flat == FlattenSeq([k \in DOMAIN Names |-> IF k \in Copied THEN Data(k) ELSE <<>>])
FlatTop == Max({coff.sections[k].paddr + coff.sections[k].size : k \in DOMAIN Names})

(* load_program of the interpreter: each section to its address *)
Interpreted(a) ==
    LET At(k) == a - coff.sections[k].paddr + 1
        here == {k \in Copied : At(k) \in DOMAIN Data(k)}
    IN  IF here = {} THEN Unset ELSE Data(Max(here))[At(Max(here))]

-----------------------------------------------------------------------------
\* coff2noff makes a file of every program that is whole and has one kind of data and of bss, and
\* of no other; then each byte of it is at its address in all three memories, and there are pages
\* for its bss.
Held == {k \in DOMAIN Names : coff.sections[k].size # 0}
Convertible == /\ \A k \in Held \cap Copied : CanRead(k)
               /\ ~({2, 3} \subseteq Held) /\ ~({4, 5} \subseteq Held)
ProgramsLoadAlike ==
    /\ tool = "failed" => ~Convertible
    /\ tool = "converted" =>
         /\ Convertible /\ FlatTop <= StackTop * Page
         /\ \A k \in Copied : \A i \in DOMAIN Data(k) :
              LET a == coff.sections[k].paddr + i - 1
              IN  /\ Paged(a) = <<Names[k], i>>
                  /\ Flat[a + 1] = Paged(a) /\ Interpreted(a) = Paged(a)
=============================================================================
