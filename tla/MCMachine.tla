------------------------------ MODULE MCMachine ------------------------------
(* Instances of Machine for TLC. *)
EXTENDS Machine, TLC

CONSTANTS t1, t2

I(op, rd, rs, rt, extra) == [op |-> op, rd |-> rd, rs |-> rs, rt |-> rt, extra |-> extra]
Nop == I("SLL", 0, 0, 0, 0)

\* What programs of three instructions are made of.
Instructions == {
    I("LB", 0, 0, 1, 1), I("LWR", 0, 2, 1, 0), I("SW", 0, 0, 1, 0), I("SWR", 0, 0, 1, 0),
    I("ADDIU", 0, 1, 1, 3), I("SUB", 2, 1, 2, 0), I("BNE", 0, 1, 2, 1), I("JAL", 0, 0, 0, 2),
    I("SYSCALL", 0, 0, 0, 0), Nop}
Short == {p \in [1..3 -> Instructions] : DelaySlotsFree(p)}

\* The other thread loads, and uses what it loaded after the slot.
Companion == <<I("LW", 0, 0, 1, 0), Nop, I("ADDU", 1, 1, 1, 0)>>
MCPrograms == {(t1 :> p) @@ (t2 :> Companion) : p \in Short}
MCMemory == [a \in 0..15 |-> a % 2]
=============================================================================
