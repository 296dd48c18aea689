------------------------------- MODULE Console -------------------------------
(***************************************************************************)
(* The console device (machine/console.cc) with its two users: ConsoleTest *)
(* (userprog/progtest.cc), which echoes what is typed, and the synchronized*)
(* console (userprog/synchconsole.cc), whose threads read and write lines. *)
(* The device has room for one character each way; its interrupts V        *)
(* semaphores, s1 when a character has come and s2 when one is written.    *)
(* When they come is open.                                                 *)
(***************************************************************************)
EXTENDS KernelPrograms, SequencesExt

CONSTANTS
    Typed,       \* in each test, what the user types, in lines
    Newline, Quit,
    NoChar       \* EOF

VARIABLES
    incoming, putBusy,
    keyboard,    \* typed, and not yet read by the device
    display,
    line         \* what each thread has read

consoleVars == <<incoming, putBusy, keyboard, display, line>>

ConsoleInit ==
    /\ incoming = NoChar /\ putBusy = FALSE
    /\ keyboard = FlattenSeq(Typed[test]) /\ display = <<>>
    /\ line = [t \in Threads |-> <<>>]

\* The device reads on while its character has not been fetched.
CheckCharAvail_Overwrites ==
    /\ keyboard # <<>>
    /\ incoming' = Head(keyboard) /\ keyboard' = Tail(keyboard)
    /\ V("s1")
    /\ UNCHANGED <<test, script, putBusy, display, line>>

\* The two interrupts.
CheckCharAvail ==
    /\ incoming = NoChar /\ keyboard # <<>>
    /\ incoming' = Head(keyboard) /\ keyboard' = Tail(keyboard)
    /\ V("s1")
    /\ UNCHANGED <<test, script, putBusy, display, line>>
WriteDone ==
    /\ putBusy /\ putBusy' = FALSE
    /\ V("s2")
    /\ UNCHANGED <<test, script, incoming, keyboard, display, line>>

GetChar ==
    /\ line' = [line EXCEPT ![me] = Append(@, incoming)]
    /\ incoming' = NoChar
    /\ UNCHANGED <<putBusy, keyboard, display>>
PutChar(c) ==
    /\ display' = Append(display, c) /\ putBusy' = TRUE
    /\ UNCHANGED <<incoming, keyboard, line>>

-----------------------------------------------------------------------------
(* ConsoleTest *)

Echo == << <<"P", "s1">>, <<"get">>, <<"echo">>, <<"P", "s2">>, <<"until quit">> >>
GetOne == step[1] = "get" /\ GetChar /\ StepDone /\ UNCHANGED vars
EchoIt == step[1] = "echo" /\ PutChar(Last(line[me])) /\ StepDone /\ UNCHANGED vars
UntilQuit ==
    /\ step[1] = "until quit"
    /\ Continue(IF Last(line[me]) = Quit THEN <<>> ELSE Echo)
    /\ UNCHANGED <<vars, consoleVars>>

ConsoleTest == Program(Echo, <<>>, 0)

-----------------------------------------------------------------------------
(* SynchConsole: l1 is inputMutex, l2 is outputMutex. *)

ReadLine(size) == << <<"Acquire", "l1">>, <<"P", "s1">>, <<"read", size>>, <<"Release", "l1">> >>
ReadChar ==
    /\ step[1] = "read" /\ GetChar
    /\ IF incoming = Newline \/ Len(line[me]) + 1 = step[2] THEN StepDone
       ELSE Continue(<< <<"P", "s1">> >> \o script[me])
    /\ UNCHANGED vars

WriteLine(c, d) ==
    << <<"Acquire", "l2">>, <<"put", c>>, <<"P", "s2">>, <<"put", d>>, <<"P", "s2">>, <<"Release", "l2">> >>
Put == step[1] = "put" /\ PutChar(step[2]) /\ StepDone /\ UNCHANGED vars

\* Two threads read a line each, one of them shortened by its size, and two write one.
Lines == Program(WriteLine("a", Newline), <<ReadLine(3), ReadLine(2), WriteLine("b", Newline)>>, 0)

ConsoleStep == HasStep /\ (GetOne \/ EchoIt \/ UntilQuit \/ ReadChar \/ Put) /\ UNCHANGED test

-----------------------------------------------------------------------------
\* PutChar's assertion holds, the display has whole lines, and what is typed is read once and
\* in order: each reader has a line of its own.
ConsoleInOrder ==
    /\ HasStep /\ step[1] \in {"echo", "put"} => ~putBusy
    /\ test = "echo" => IsPrefix(display, FlattenSeq(Typed[test]))
    /\ test = "lines" =>
         /\ \A k \in DOMAIN display : display[k] = Newline <=> k % 2 = 0
         /\ \A t \in Threads : line[t] # <<>> =>
               \E k \in DOMAIN Typed[test] :
                  IsPrefix(line[t], Typed[test][k])
                  /\ \A u \in Threads \ {t} : line[u] # <<>> => Head(line[u]) # Head(line[t])
=============================================================================
