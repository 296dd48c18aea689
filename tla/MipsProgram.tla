----------------------------- MODULE MipsProgram -----------------------------
(***************************************************************************)
(* What user programs may expect of the simulated machine: each runs its   *)
(* instructions in order, with branches that take effect after the next    *)
(* instruction and loads that take effect at once, whatever other programs,*)
(* system calls, page faults and interrupts come between.                  *)
(***************************************************************************)
EXTENDS Mips, Sequences

CONSTANTS Threads,
          ResultReg,   \* where a system call leaves its result
          Results, InitialMemory

VARIABLES program, state, memory

Start == [r |-> [n \in Registers |-> 0], pc |-> 0, next |-> 1]
At(t) == program[t][state[t].pc + 1]
Runs(t) == state[t].pc + 1 \in DOMAIN program[t] /\ ~Raises(At(t), state[t].r)

Init == /\ \A t \in Threads : DOMAIN program[t] = 1..Len(program[t])
        /\ state = [t \in Threads |-> Start]
        /\ memory = [t \in Threads |-> InitialMemory]

Goes(t, r, after) ==
    state' = [state EXCEPT ![t] = [r |-> [r EXCEPT ![0] = 0], pc |-> state[t].next, next |-> after]]

Computes(t) == LET i == At(t)
                   s == state[t] IN
    /\ Runs(t) /\ i.op \notin Loads \cup Stores \cup {"SYSCALL"}
    /\ Goes(t, Computed(i, s.r, s.next), PcAfter(i, s.r, s.next))
    /\ UNCHANGED <<program, memory>>

MovesData(t) == LET i == At(t)
                    s == state[t] IN
    /\ Runs(t) /\ i.op \in Loads \cup Stores /\ ~Misaligned(i, s.r)
    /\ IF i.op \in Loads
       THEN /\ Goes(t, [s.r EXCEPT ![i.rt] = Loaded(i, s.r, s.r[i.rt], memory[t])], Wrap(s.next + 1))
            /\ UNCHANGED memory
       ELSE /\ Goes(t, s.r, Wrap(s.next + 1))
            /\ memory' = [memory EXCEPT ![t] = Stored(i, s.r, memory[t])]
    /\ UNCHANGED program

CallsSystem(t) ==
    /\ Runs(t) /\ At(t).op = "SYSCALL"
    /\ \E rv \in Results : Goes(t, [state[t].r EXCEPT ![ResultReg] = rv], Wrap(state[t].next + 1))
    /\ UNCHANGED <<program, memory>>

Next == \E t \in Threads : Computes(t) \/ MovesData(t) \/ CallsSystem(t)
Spec == Init /\ [][Next]_<<program, state, memory>>
=============================================================================
