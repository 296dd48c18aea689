------------------------------- MODULE Machine -------------------------------
(***************************************************************************)
(* The simulated machine at work for several threads: instructions with    *)
(* delayed loads (machine/mipssim.cc), exceptions that restart or end an   *)
(* instruction (machine/machine.cc, userprog/exception.cc), simulated time *)
(* with its queue of interrupts and the idle machine (machine/interrupt.cc,*)
(* timer.cc), and the scheduler, which saves and restores the registers    *)
(* (threads/scheduler.cc, thread.cc). Which memory accesses miss the TLB   *)
(* is open, once in a turn of a thread; VirtualMemory says which do.       *)
(***************************************************************************)
EXTENDS HostMips, SequencesExt

CONSTANTS Threads, Main,
          Programs, ResultReg, Results, InitialMemory,
          UserTick, SystemTick,  \* how far the time goes on at a time
          TimerDelays,           \* after how long the timer comes again
          DeviceDelay,           \* how long the device takes for a system call
          HostTurns              \* bound: instructions that the host's interpreter may need

\* A register that is loaded must not be used by the next instruction: assemblers see to it.
Branches == {"BEQ", "BNE", "BGEZ", "BGEZAL", "BLTZ", "BLTZAL", "BGTZ", "BLEZ", "J", "JAL"}
Uses(i) == CASE i.op \in Loads -> {i.rs} [] i.op = "SYSCALL" -> {}
             [] i.op \in Links -> {i.rs, i.rt, R31} [] OTHER -> {i.rs, i.rt, i.rd}
Followers(p, k) ==
    {k + 1} \cup {n \in DOMAIN p : /\ k > 1 /\ p[k - 1].op \in Branches
                                  /\ n = IF p[k - 1].op \in {"J", "JAL"} THEN p[k - 1].extra + 1
                                         ELSE Wrap(k - 1 + p[k - 1].extra) + 1}
DelaySlotsFree(p) == \A k \in DOMAIN p :
    /\ p[k].op \in Loads =>
          \A n \in Followers(p, k) \cap DOMAIN p : p[k].rt \notin Uses(p[n]) \ {0}
    /\ p[k].op \in Branches => k + 1 \in DOMAIN p /\ p[k + 1].op \notin Branches

ASSUME MachineAssumption ==
    /\ Main \in Threads /\ ResultReg \in 1..R31 /\ Results \subseteq Words
    /\ \A p \in Programs : \A t \in Threads : DelaySlotsFree(p[t])
    /\ {UserTick, SystemTick, DeviceDelay, HostTurns} \cup TimerDelays \subseteq Nat \ {0}

VARIABLES
    program,
    registers,       \* of the machine, with the counters and the load in progress
    userRegisters,   \* what is saved of them for each thread
    mainMemory,      \* that of each thread
    currentThread, readyList,
    asleep,          \* threads that wait for the device
    inSyscall,       \* threads whose system call has not returned
    finished,
    mapped,          \* what the current thread needs is in the TLB
    pending,         \* interrupts to come, each with the time left until then
    yieldOnReturn,
    phase            \* what the machine does, or why it has halted

threads == <<currentThread, readyList, asleep, inSyscall, finished>>
time == <<pending, yieldOnReturn>>
vars == <<program, registers, userRegisters, mainMemory, threads, mapped, time, phase>>

NoLoad == [reg |-> 0, value |-> 0]
InitRegisters == [r |-> [n \in Registers |-> 0], pc |-> 0, next |-> 1, load |-> NoLoad]

\* Insert behind what comes no later.
SortedInsert(p, queue) ==
    LET before == {k \in DOMAIN queue : queue[k].left <= p.left}
    IN  InsertAt(queue, Cardinality(before) + 1, p)

Init == /\ program \in Programs
        /\ registers = InitRegisters
        /\ userRegisters = [t \in Threads |-> InitRegisters]
        /\ mainMemory = [t \in Threads |-> InitialMemory]
        /\ currentThread = Main /\ readyList = SetToSeq(Threads \ {Main})
        /\ asleep = {} /\ inSyscall = {} /\ finished = {}
        /\ mapped = FALSE
        /\ \/ pending = << >>    \* without -rs there is no timer
           \/ \E d \in TimerDelays : pending = <<[left |-> d, type |-> "timer", thread |-> Main]>>
        /\ yieldOnReturn = FALSE
        /\ phase = "user"

\* The load in progress takes effect, and the next one is noted.
DelayedLoad(c, load) ==
    [c EXCEPT !.r = [c.r EXCEPT ![c.load.reg] = c.load.value, ![0] = 0], !.load = load]

-----------------------------------------------------------------------------
(* OneInstruction *)

Fetched == program[currentThread][registers.pc + 1]
InProgram == registers.pc + 1 \in DOMAIN program[currentThread]
InUserMode == phase = "user" /\ currentThread \notin inSyscall
Executes == InUserMode /\ InProgram

\* The instruction's end: the load before it, then the counters.
Advance(r, load, after) ==
    /\ registers' = [DelayedLoad([registers EXCEPT !.r = r], load)
                        EXCEPT !.pc = registers.next, !.next = after]
    /\ phase' = "tick"

\* An exception lets the load finish; the kernel maps the page, and it starts again.
PageFault ==
    /\ Executes /\ ~mapped
    /\ registers' = DelayedLoad(registers, NoLoad)
    /\ mapped' = TRUE /\ phase' = "tick"
    /\ UNCHANGED <<program, userRegisters, mainMemory, threads, time>>

\* Any other exception is unexpected, and the kernel halts the machine.
Raise == LET i == Fetched IN
    /\ Executes
    /\ Raises(i, registers.r) \/ (i.op \in Loads \cup Stores /\ Misaligned(i, registers.r))
    /\ registers' = DelayedLoad(registers, NoLoad)
    /\ phase' = "exception"
    /\ UNCHANGED <<program, userRegisters, mainMemory, threads, mapped, time>>

Compute == LET i == Fetched IN
    /\ Executes /\ i.op \notin Loads \cup Stores \cup {"SYSCALL"} /\ ~Raises(i, registers.r)
    /\ Advance(Computed(i, registers.r, registers.next), NoLoad,
               PcAfter(i, registers.r, registers.next))
    /\ UNCHANGED <<program, userRegisters, mainMemory, threads, mapped, time>>

\* What a register holds, or is going to hold.
InProgress(reg) == IF registers.load.reg = reg THEN registers.load.value ELSE registers.r[reg]

Load == LET i == Fetched IN
    /\ Executes /\ i.op \in Loads /\ ~Misaligned(i, registers.r)
    /\ Advance(registers.r,
               [reg |-> i.rt,
                value |-> Loaded(i, registers.r, InProgress(i.rt), mainMemory[currentThread])],
               Wrap(registers.next + 1))
    /\ UNCHANGED <<program, userRegisters, mainMemory, threads, mapped, time>>

Store == LET i == Fetched IN
    /\ Executes /\ i.op \in Stores /\ ~Misaligned(i, registers.r)
    /\ mainMemory' = [mainMemory EXCEPT ![currentThread] = Stored(i, registers.r, @)]
    /\ Advance(registers.r, NoLoad, Wrap(registers.next + 1))
    /\ UNCHANGED <<program, userRegisters, threads, mapped, time>>

-----------------------------------------------------------------------------
(* System calls: some ask the device, and sleep until its interrupt comes. *)

\* A system call leaves the load before it in progress.
Syscall_LoadInProgress ==
    /\ Executes /\ Fetched.op = "SYSCALL"
    /\ inSyscall' = inSyscall \cup {currentThread}
    /\ UNCHANGED <<program, registers, userRegisters, mainMemory, currentThread, readyList,
                   finished, mapped, yieldOnReturn>>
Syscall ==
    /\ Executes /\ Fetched.op = "SYSCALL"
    /\ registers' = DelayedLoad(registers, NoLoad)
    /\ inSyscall' = inSyscall \cup {currentThread}
    /\ UNCHANGED <<program, userRegisters, mainMemory, currentThread, readyList, finished,
                   mapped, yieldOnReturn>>
CallAtOnce == Syscall /\ phase' = "tick" /\ UNCHANGED <<asleep, pending>>
\* Halt, which every unknown call falls through to.
CallHalts == Syscall /\ phase' = "halted" /\ UNCHANGED <<asleep, pending>>
CallDevice ==
    /\ Syscall
    /\ asleep' = asleep \cup {currentThread}
    /\ pending' = SortedInsert([left |-> DeviceDelay, type |-> "device", thread |-> currentThread],
                               pending)
    /\ phase' = "sleep"

\* Leave the result, and step over the instruction.
SyscallReturns ==
    /\ phase = "user" /\ currentThread \in inSyscall
    /\ \E rv \in Results :
          registers' = [registers EXCEPT !.r[ResultReg] = rv, !.pc = registers.next,
                                         !.next = Wrap(registers.next + 1)]
    /\ inSyscall' = inSyscall \ {currentThread}
    /\ phase' = "tick"
    /\ UNCHANGED <<program, userRegisters, mainMemory, currentThread, readyList, asleep, finished,
                   mapped, time>>

\* The end of a program is an Exit: the last thread halts the machine.
Exit ==
    /\ InUserMode /\ ~InProgram
    /\ finished' = finished \cup {currentThread}
    /\ phase' = IF finished' = Threads THEN "exited" ELSE "sleep"
    /\ UNCHANGED <<program, registers, userRegisters, mainMemory, currentThread, readyList, asleep,
                   inSyscall, mapped, time>>

-----------------------------------------------------------------------------
(* Time, interrupts and the scheduler *)

\* Save the registers, and go on with those of the first thread that is ready.
Run(queue) == LET saved == [userRegisters EXCEPT ![currentThread] = registers] IN
    /\ userRegisters' = saved /\ registers' = saved[Head(queue)]
    /\ currentThread' = Head(queue) /\ readyList' = Tail(queue)
    /\ mapped' = FALSE

Passed(d, queue) == [k \in DOMAIN queue |->
    [queue[k] EXCEPT !.left = IF @ <= d THEN 0 ELSE @ - d]]

Tick ==
    /\ phase = "tick"
    /\ \E d \in {UserTick, SystemTick} : pending' = Passed(d, pending)
    /\ phase' = "fire"
    /\ UNCHANGED <<program, registers, userRegisters, mainMemory, threads, mapped, yieldOnReturn>>

\* The handlers: the timer asks for a switch and comes again, the device wakes its thread.
TimerExpires(rest) ==
    /\ \E d \in TimerDelays :
          pending' = SortedInsert([left |-> d, type |-> "timer", thread |-> Main], rest)
    /\ yieldOnReturn' = TRUE
    /\ UNCHANGED <<readyList, asleep>>
DeviceDone(p, rest) ==
    /\ readyList' = Append(readyList, p.thread) /\ asleep' = asleep \ {p.thread}
    /\ pending' = rest
    /\ UNCHANGED yieldOnReturn
Fire(queue) ==
    /\ registers' = DelayedLoad(registers, NoLoad)
    /\ \/ Head(queue).type = "timer" /\ TimerExpires(Tail(queue))
       \/ Head(queue).type = "device" /\ DeviceDone(Head(queue), Tail(queue))
    /\ UNCHANGED <<program, userRegisters, mainMemory, currentThread, inSyscall, finished, mapped>>

Due == pending # << >> /\ Head(pending).left = 0
CheckIfDue == phase = "fire" /\ Due /\ Fire(pending) /\ UNCHANGED phase

OneTickEnds ==
    /\ phase = "fire" /\ ~Due
    /\ IF yieldOnReturn /\ readyList # << >> THEN Run(Append(readyList, currentThread))
       ELSE UNCHANGED <<registers, userRegisters, currentThread, readyList, mapped>>
    /\ yieldOnReturn' = FALSE /\ phase' = "user"
    /\ UNCHANGED <<program, mainMemory, asleep, inSyscall, finished, pending>>

Sleep ==
    /\ phase = "sleep" /\ readyList # << >>
    /\ Run(readyList)
    /\ phase' = "tick"
    /\ UNCHANGED <<program, mainMemory, asleep, inSyscall, finished, time>>

\* The machine stops with one interrupt left, whoever's it is.
OnlyTimer_AnyDevice(queue) == Len(queue) = 1

\* Nobody is ready: on to the next interrupt, unless only the timer's is left.
OnlyTimer(queue) == Len(queue) = 1 /\ Head(queue).type = "timer"
NothingToCome(queue) == queue = << >> \/ OnlyTimer(queue)
Idle ==
    /\ phase = "sleep" /\ readyList = << >>
    /\ IF NothingToCome(pending)
       THEN phase' = "no threads" /\ UNCHANGED <<registers, threads, time, program, userRegisters,
                                                 mainMemory, mapped>>
       ELSE Fire(Passed(Head(pending).left, pending)) /\ phase' = "idle"
IdleChecks == phase = "idle" /\ Due /\ ~OnlyTimer(pending) /\ Fire(pending) /\ UNCHANGED phase
IdleEnds ==
    /\ phase = "idle" /\ (~Due \/ OnlyTimer(pending))
    /\ yieldOnReturn' = FALSE /\ phase' = "sleep"
    /\ UNCHANGED <<program, registers, userRegisters, mainMemory, threads, mapped, pending>>

Next == \/ PageFault \/ Raise \/ Compute \/ Load \/ Store
        \/ CallAtOnce \/ CallHalts \/ CallDevice \/ SyscallReturns \/ Exit
        \/ Tick \/ CheckIfDue \/ OneTickEnds \/ Sleep \/ Idle \/ IdleChecks \/ IdleEnds
Spec == Init /\ [][Next]_vars /\ WF_vars(Next)

-----------------------------------------------------------------------------
\* Wherever an instruction begins, and for all words: exceptions are raised for just the sums
\* and differences that do not fit, and products are exact.
ArithmeticExact == InUserMode => OverflowExact /\ MultExact

\* A thread that sleeps for the device is woken, with others running or the machine idle,
\* unless another one's exception or system call halts the machine; so the idle machine does not stop for it.
DeviceAnswers == \A t \in Threads : t \in asleep ~> (t \notin asleep \/ phase \in {"exception", "halted"})

\* Page faults, system calls, interrupts and switches are not seen by the programs: with the
\* load in progress done, registers and memory are those of programs that run alone.
Visible(t) == LET c == DelayedLoad(IF t = currentThread THEN registers ELSE userRegisters[t], NoLoad)
              IN  [r |-> c.r, pc |-> c.pc, next |-> c.next]
AsProgrammed == INSTANCE MipsProgram WITH state <- [t \in Threads |-> Visible(t)],
                                          memory <- mainMemory
ImplementsPrograms == AsProgrammed!Spec

\* The repository's two interpreters give the same meaning to every instruction code and, but
\* for the differences that HostMips names, the same results for all words; and a program that
\* both can run ends with the same registers and memory on the host and, whatever came
\* between its instructions, on the simulated machine.
SimulatorsAgree ==
    /\ SameCodes /\ SameResults
    /\ phase = "exited" => \A t \in Threads : Portable(program[t]) =>
          LET end == HostRun(program[t], [r |-> InitRegisters.r, pc |-> 0, next |-> 1,
                                          mem |-> InitialMemory], HostTurns)
          IN  /\ end.pc + 1 \notin DOMAIN program[t]
              /\ [end.r EXCEPT ![0] = 0] = Visible(t).r /\ end.mem = mainMemory[t]
=============================================================================
