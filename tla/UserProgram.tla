----------------------------- MODULE UserProgram -----------------------------
(***************************************************************************)
(* From the linker's file to the running process: every program that can   *)
(* be linked is converted, and one of them, which has the pages that       *)
(* VirtualMemory's first process is to have, is run.                       *)
(***************************************************************************)
EXTENDS VirtualMemory, Loaders

CONSTANT Sizes    \* those of that program's sections

ProgramOpened == /\ tool = "converted" /\ coff = [sections |-> Linked(Sizes), cut |-> 0]
                 /\ FilePages = ImagePages(1) /\ StackTop = TopOf(1)
                 /\ numPages = TopOf(1) + StackPages

ProgramInit == Init /\ LoaderInit
ProgramNext == \/ LoaderStep /\ UNCHANGED vars
               \/ ProgramOpened /\ Next /\ UNCHANGED loaderVars
ProgramSpec == ProgramInit /\ [][ProgramNext]_<<vars, loaderVars>>
=============================================================================
