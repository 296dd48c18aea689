------------------------------ MODULE FileStore ------------------------------
(***************************************************************************)
(* What the file system promises to its one user at a time                 *)
(* (filesys/filesys.h): files of a fixed length under names, changed by    *)
(* nothing but the operation under way, and by that only from what they    *)
(* were to what it makes of them. When Nachos stops in the middle, every   *)
(* other file is as it was.                                                *)
(***************************************************************************)
EXTENDS Integers, FiniteSets

CONSTANTS Names,      \* file names
          NoName      \* says that no operation is under way

VARIABLES files,      \* the contents of every file there is
          operand,    \* the name that the operation under way is about
          goal        \* the files as they will be when it is done

Init == /\ files = << >> /\ goal = files
        /\ operand = NoName

Others(n) == DOMAIN files \ {n}

\* A new file has its length; what it holds is whatever the disk held.
Create(n) == /\ n \notin DOMAIN files
             /\ DOMAIN goal' = DOMAIN files \cup {n}

\* Bytes of a file that exists become the ones given; its length stays.
Write(n) == /\ n \in DOMAIN files /\ DOMAIN goal' = DOMAIN files
            /\ DOMAIN goal'[n] = DOMAIN files[n]
            /\ \E first, last \in DOMAIN files[n] :
                 \A i \in DOMAIN files[n] :
                     goal'[n][i] = IF i \in first .. last THEN n ELSE files[n][i]

Remove(n) == /\ n \in DOMAIN files
             /\ DOMAIN goal' = Others(n)

Start(n) == /\ operand = NoName /\ operand' = n
            /\ \A m \in Others(n) : goal'[m] = files[m]
            /\ Create(n) \/ Write(n) \/ Remove(n)
            /\ UNCHANGED files

\* The disk follows. Only the operand changes, and each of its bytes once. One name
\* that is in no use, before or after, may show until the operation returns.
Advance == /\ operand # NoName
           /\ \A m \in Others(operand) \cap DOMAIN goal :
                m \in DOMAIN files' /\ files'[m] = files[m]
           /\ operand \in DOMAIN files \cap DOMAIN goal =>
                /\ operand \in DOMAIN files'
                /\ DOMAIN files'[operand] = DOMAIN goal[operand]
                /\ \A i \in DOMAIN goal[operand] :
                     files'[operand][i] \in {files[operand][i], goal[operand][i]}
           /\ operand \in DOMAIN files' => operand \in DOMAIN files \cup DOMAIN goal
           /\ Cardinality(DOMAIN files' \ (DOMAIN files \cup DOMAIN goal)) <= 1
           /\ UNCHANGED <<operand, goal>>

Return == /\ operand # NoName /\ files = goal
          /\ operand' = NoName
          /\ UNCHANGED <<files, goal>>

\* Nachos stops and is started again: the operation is forgotten.
Crash == /\ operand' = NoName
         /\ goal' = files
         /\ UNCHANGED files

Next == (\E n \in Names : Start(n)) \/ Advance \/ Return \/ Crash

Spec == Init /\ [][Next]_<<files, operand, goal>>
=============================================================================
