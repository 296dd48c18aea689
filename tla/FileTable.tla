------------------------------ MODULE FileTable ------------------------------
(***************************************************************************)
(* The open files of an address space: its table (userprog/addrspace.cc),  *)
(* and the system calls Open, Read, Write and Close (userprog/exception.cc)*)
(* as the threads of a process make them. Slots 0 and 1 are the console's. *)
(* Each thread closes what it opened, once.                                *)
(***************************************************************************)
EXTENDS KernelPrograms

CONSTANTS
    TableSize, NoFile,
    Unwritten   \* what the table's memory held before the table was made

ASSUME FileTableAssumption ==
    /\ TableSize \in Nat \ {0, 1}
    /\ NoFile \notin Threads /\ Unwritten \notin Threads \cup {NoFile}

VARIABLES
    map,         \* the bits that are set
    table,
    opened,      \* the OpenFile objects that exist, named by the thread that made them
    file, id,    \* each thread's variables f and id
    used         \* the file each thread last read or wrote

fileVars == <<map, table, opened, file, id, used>>

Slots == 0..TableSize - 1

\* The table is not cleared, but for two Puts of no file.
FileTableInit ==
    /\ map = {0, 1} /\ table = [i \in Slots |-> IF i \in {0, 1} THEN NoFile ELSE Unwritten]
    /\ opened = {}
    /\ file = [t \in Threads |-> NoFile] /\ id = [t \in Threads |-> -1]
    /\ used = [t \in Threads |-> NoFile]

Open == << <<"open">>, <<"Acquire", "l1">>, <<"find">>, <<"Release", "l1">>, <<"store">> >>
Close == << <<"close">>, <<"Acquire", "l1">>, <<"clear">>, <<"Release", "l1">>, <<"delete">> >>
OpenUseClose == Open \o << <<"use">> >> \o Close

\* fileSystem->Open, which may fail; then Table::Put.
OpenFile ==
    /\ step[1] = "open"
    /\ \/ /\ opened' = opened \cup {me} /\ file' = [file EXCEPT ![me] = me]
          /\ StepDone /\ UNCHANGED id
       \/ /\ id' = [id EXCEPT ![me] = -1] /\ UNCHANGED <<opened, file>>
          /\ Continue(SubSeq(script[me], Len(Open) + 1, Len(script[me])))
    /\ UNCHANGED <<map, table, used>>
Find ==
    /\ step[1] = "find"
    /\ LET free == Slots \ map
       IN  IF free = {} THEN id' = [id EXCEPT ![me] = -1] /\ UNCHANGED map
           ELSE \E i \in free : /\ \A j \in free : i <= j
                                /\ id' = [id EXCEPT ![me] = i] /\ map' = map \cup {i}
    /\ StepDone /\ UNCHANGED <<table, opened, file, used>>
\* Outside of the lock; a file that found no slot is deleted.
Store ==
    /\ step[1] = "store"
    /\ IF id[me] # -1 THEN table' = [table EXCEPT ![id[me]] = file[me]] /\ UNCHANGED opened
       ELSE opened' = opened \ {file[me]} /\ UNCHANGED table
    /\ file' = [file EXCEPT ![me] = NoFile]
    /\ StepDone /\ UNCHANGED <<map, id, used>>

\* Read and Write, by the thread's id.
Get(i) == IF i \in Slots /\ i \in map THEN table[i] ELSE NoFile
Use ==
    /\ step[1] = "use"
    /\ used' = [used EXCEPT ![me] = Get(id[me])]
    /\ StepDone /\ UNCHANGED <<map, table, opened, file, id>>

\* Table::Remove does nothing with an id out of range.
CloseFile ==
    /\ step[1] = "close"
    /\ IF id[me] \in Slots THEN StepDone
       ELSE Continue(SubSeq(script[me], Len(Close) + 1, Len(script[me])))
    /\ UNCHANGED fileVars
Clear_EntryStays ==
    /\ step[1] = "clear" /\ id[me] \in map
    /\ map' = map \ {id[me]} /\ file' = [file EXCEPT ![me] = table[id[me]]]
    /\ StepDone /\ UNCHANGED <<table, opened, id, used>>
Clear ==
    /\ step[1] = "clear"
    /\ IF id[me] \in map
       THEN /\ map' = map \ {id[me]}
            /\ file' = [file EXCEPT ![me] = table[id[me]]]
            /\ table' = [table EXCEPT ![id[me]] = NoFile]
       ELSE file' = [file EXCEPT ![me] = NoFile] /\ UNCHANGED <<map, table>>
    /\ StepDone /\ UNCHANGED <<opened, id, used>>
Delete ==
    /\ step[1] = "delete"
    /\ opened' = opened \ {file[me]}
    /\ file' = [file EXCEPT ![me] = NoFile]
    /\ StepDone /\ UNCHANGED <<map, table, id, used>>

FileStep == /\ HasStep /\ (OpenFile \/ Find \/ Store \/ Use \/ CloseFile \/ Clear \/ Delete)
            /\ UNCHANGED <<vars, test>>

\* Three threads, and slots for two files.
Files == Program(<<>>, <<OpenUseClose, OpenUseClose, OpenUseClose>>, 0)

-----------------------------------------------------------------------------
\* In Table::Put, with a slot that map.Find has marked and that has not got its file.
BeforeStore == {SubSeq(OpenUseClose, n, Len(OpenUseClose)) : n \in {4, 5}}
InPut(t) == script[t] \in BeforeStore

\* Whatever id a thread passes, one that is closed or another's, the table gives no file that is
\* deleted, and what its memory held before only of a slot that a Put is about to fill; the id a
\* thread has gives it its own file; and no file stays open that nobody can close.
DescriptorsRight ==
    /\ \A i \in Slots : \/ Get(i) \in opened \cup {NoFile}
                        \/ Get(i) = Unwritten /\ \E t \in Threads : InPut(t) /\ id[t] = i
    /\ \A t \in Threads : script[t] = Close => used[t] = IF id[t] = -1 THEN NoFile ELSE t
    /\ \A f \in opened : (\E i \in map : table[i] = f) \/ (\E t \in Threads : file[t] = f)
=============================================================================
