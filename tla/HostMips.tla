------------------------------ MODULE HostMips ------------------------------
(***************************************************************************)
(* The second interpreter of MIPS programs in the repository, which runs   *)
(* them on the host without Nachos (bin/execute.c), beside the simulated   *)
(* machine of Mips. It has no delayed loads, no exceptions and no check of *)
(* alignment. Both begin with tables that say which instruction a code is. *)
(* Left out: bin/system.c, which hands system calls on to the host.        *)
(***************************************************************************)
EXTENDS Mips, Sequences

-----------------------------------------------------------------------------
(* Codes: the six bits of the opcode, of a SPECIAL's function, and the rt of a BCOND. *)

Times(op, n) == [k \in 1..n |-> op]

opTable == <<"SPECIAL", "BCOND", "J", "JAL", "BEQ", "BNE", "BLEZ", "BGTZ", "ADDI", "ADDIU", "SLTI",
             "SLTIU", "ANDI", "ORI", "XORI", "LUI">> \o Times("UNIMP", 4) \o Times("RES", 12)
           \o <<"LB", "LH", "LWL", "LW", "LBU", "LHU", "LWR", "RES", "SB", "SH", "SWL", "SW">>
           \o <<"RES", "RES", "SWR", "RES">> \o Times("UNIMP", 4) \o Times("RES", 4)
           \o Times("UNIMP", 4) \o Times("RES", 4)
specialTable == <<"SLL", "RES", "SRL", "SRA", "SLLV", "RES", "SRLV", "SRAV", "JR", "JALR", "RES", "RES",
                  "SYSCALL", "UNIMP", "RES", "RES", "MFHI", "MTHI", "MFLO", "MTLO">> \o Times("RES", 4)
                \o <<"MULT", "MULTU", "DIV", "DIVU">> \o Times("RES", 4)
                \o <<"ADD", "ADDU", "SUB", "SUBU", "AND", "OR", "XOR", "NOR">>
                \o <<"RES", "RES", "SLT", "SLTU">> \o Times("RES", 20)
BranchOf(rt) == CASE rt = 0 -> "BLTZ" [] rt = 1 -> "BGEZ" [] rt = 16 -> "BLTZAL"
                  [] rt = 17 -> "BGEZAL" [] OTHER -> "UNIMP"
Decoded(code, funct, rt) == CASE opTable[code + 1] = "SPECIAL" -> specialTable[funct + 1]
                              [] opTable[code + 1] = "BCOND" -> BranchOf(rt)
                              [] OTHER -> opTable[code + 1]

\* The same codes as the host's headers number them; the rest it does not know.
From(first, ops) == [k \in first..first + Len(ops) - 1 |-> ops[k - first + 1]]
Known(codes, code) == IF code \in DOMAIN codes THEN codes[code] ELSE "unknown"
Merged(f, g) == [k \in DOMAIN f \cup DOMAIN g |-> IF k \in DOMAIN f THEN f[k] ELSE g[k]]
NormalCodes == Merged(From(2, <<"J", "JAL", "BEQ", "BNE", "BLEZ", "BGTZ", "ADDI", "ADDIU", "SLTI",
                                "SLTIU", "ANDI", "ORI", "XORI", "LUI">>),
               Merged(From(32, <<"LB", "LH", "LWL", "LW", "LBU", "LHU", "LWR">>),
               Merged(From(40, <<"SB", "SH", "SWL", "SW">>), From(46, <<"SWR">>))))
SpecialCodes == Merged(From(0, <<"SLL">>),
                Merged(From(2, <<"SRL", "SRA", "SLLV">>),
                Merged(From(6, <<"SRLV", "SRAV", "JR", "JALR">>),
                Merged(From(12, <<"SYSCALL", "BREAK">>),
                Merged(From(16, <<"MFHI", "MTHI", "MFLO", "MTLO">>),
                Merged(From(24, <<"MULT", "MULTU", "DIV", "DIVU">>),
                Merged(From(32, <<"ADD", "ADDU", "SUB", "SUBU", "AND", "OR", "XOR", "NOR">>),
                       From(42, <<"SLT", "SLTU">>))))))))
BcondCodes == Merged(From(0, <<"BLTZ", "BGEZ">>), From(16, <<"BLTZAL", "BGEZAL">>))
HostDecoded(code, funct, rt) == CASE code = 0 -> Known(SpecialCodes, funct)
                                  [] code = 1 -> Known(BcondCodes, rt)
                                  [] OTHER -> Known(NormalCodes, code)

-----------------------------------------------------------------------------
(* One turn of runprogram's loop. A shift by more than the word is undefined in C; *)
(* the host takes the amount modulo the word's bits.                               *)

HostResult(op, a, b) ==
    CASE op \in {"ADD", "ADDU", "ADDI", "ADDIU"} -> (a + b) % 2^W
      [] op \in {"SUB", "SUBU"} -> (a - b) % 2^W
      [] op \in {"AND", "ANDI"} -> a & b
      [] op \in {"OR", "ORI"} -> a | b
      [] op \in {"XOR", "XORI"} -> a ^^ b
      [] op = "NOR" -> (2^W - 1) ^^ (a | b)
      [] op \in {"SLT", "SLTI"} -> IF Signed(a) < Signed(b) THEN 1 ELSE 0
      [] op \in {"SLTU", "SLTIU"} -> IF a < b THEN 1 ELSE 0
      [] op \in {"SLL", "SLLV"} -> (b * 2^(a % W)) % 2^W
      [] op \in {"SRL", "SRLV"} -> b \div 2^(a % W)
      [] op \in {"SRA", "SRAV"} -> (Signed(b) \div 2^(a % W)) % 2^W

\* A product from the halves of its factors; what the cross products carry is lost.
High(a) == a \div 2^(W \div 2)
HostProduct(a, b) ==
    LET Cross(m, n) == Signed(Wrap(m * n)) \div 2^(W \div 2)
    IN  [lo |-> Wrap(a * b),
         hi |-> Wrap(High(a) * High(b) + Cross(High(a), Half(b)) + Cross(High(b), Half(a)))]
HostMult(a, b) ==
    LET p == HostProduct(IF Negative(a) THEN Wrap(-a) ELSE a, IF Negative(b) THEN Wrap(-b) ELSE b)
    IN  IF Negative(a) = Negative(b) THEN p
        ELSE [lo |-> Wrap(-p.lo), hi |-> Wrap(-1 - p.hi + IF p.lo = 0 THEN 1 ELSE 0)]
\* C's division: the host traps when it cannot be done.
HostTraps(i, r) == \/ i.op \in {"DIV", "DIVU"} /\ r[i.rt] = 0
                   \/ i.op = "DIV" /\ r[i.rs] = 2^(W - 1) /\ r[i.rt] = 2^W - 1
HostHiLo(i, r) == CASE i.op = "MULT" -> HostMult(r[i.rs], r[i.rt])
                    [] i.op = "MULTU" -> HostProduct(r[i.rs], r[i.rt])
                    [] i.op = "DIV" -> LET q == Quotient(Signed(r[i.rs]), Signed(r[i.rt]))
                                       IN  [lo |-> Wrap(q), hi |-> Wrap(Signed(r[i.rs]) - q * Signed(r[i.rt]))]
                    [] i.op = "DIVU" -> [lo |-> r[i.rs] \div r[i.rt], hi |-> r[i.rs] % r[i.rt]]

HostLoaded_CharUnsigned(i, r, mem) ==
    LET word == ReadMem(mem, Address(i, r), Size(i.op))
    IN  IF i.op = "LWL" THEN r[i.rt] | word ELSE word

\* Loads take effect at once. LWL keeps the register's bits, as -1 >> n is -1.
HostLoaded(i, r, mem) ==
    LET word == ReadMem(mem, Address(i, r), Size(i.op))
    IN  CASE i.op \in {"LB", "LH"} -> SignExtended(word, ByteBits * Size(i.op))
          [] i.op = "LWL" -> r[i.rt] | word
          [] OTHER -> word
HostSets(i, r, mem, pc) ==
    CASE i.op \in ThreeRegisters \cup VariableShifts -> [r EXCEPT ![i.rd] = HostResult(i.op, r[i.rs], r[i.rt])]
      [] i.op \in FixedShifts -> [r EXCEPT ![i.rd] = HostResult(i.op, i.extra, r[i.rt])]
      [] i.op \in SignedImmediates \cup HalfImmediates ->
            [r EXCEPT ![i.rt] = HostResult(i.op, r[i.rs], i.extra)]
      [] i.op = "LUI" -> [r EXCEPT ![i.rt] = Wrap(i.extra * 2^(W \div 2))]
      [] i.op \in {"MULT", "MULTU", "DIV", "DIVU"} ->
            [r EXCEPT ![HiReg] = HostHiLo(i, r).hi, ![LoReg] = HostHiLo(i, r).lo]
      [] i.op \in {"MFHI", "MFLO"} -> [r EXCEPT ![i.rd] = r[IF i.op = "MFHI" THEN HiReg ELSE LoReg]]
      [] i.op \in {"MTHI", "MTLO"} -> [r EXCEPT ![IF i.op = "MTHI" THEN HiReg ELSE LoReg] = r[i.rs]]
      [] i.op \in Loads -> [r EXCEPT ![i.rt] = HostLoaded(i, r, mem)]
      [] i.op \in Links -> [r EXCEPT ![R31] = Wrap(pc + 2)]
      [] i.op = "JALR" -> [r EXCEPT ![i.rd] = Wrap(pc + 2)]
      [] OTHER -> r

HostTakes(i, r) ==
    CASE i.op = "BEQ" -> r[i.rs] = r[i.rt]
      [] i.op = "BNE" -> r[i.rs] # r[i.rt]
      [] i.op \in {"BLTZ", "BLTZAL"} -> Signed(r[i.rs]) < 0
      [] i.op \in {"BGEZ", "BGEZAL"} -> Signed(r[i.rs]) >= 0
      [] i.op = "BLEZ" -> Signed(r[i.rs]) <= 0
      [] i.op = "BGTZ" -> Signed(r[i.rs]) > 0
      [] OTHER -> FALSE

\* The counter after next. JALR takes its target before it links, the others test after.
HostNext(i, r, after, pc, next) ==
    CASE i.op \in {"J", "JAL"} -> i.extra
      [] i.op \in {"JR", "JALR"} -> r[i.rs]
      [] HostTakes(i, after) -> Wrap(pc + 1 + i.extra)
      [] OTHER -> Wrap(next + 1)

HostTurn(i, c) ==
    LET r == [c.r EXCEPT ![0] = 0]    \* before the instruction, not after it
        after == HostSets(i, r, c.mem, c.pc)
    IN  [r |-> after, pc |-> c.next, next |-> HostNext(i, r, after, c.pc, c.next),
         mem |-> IF i.op \in {"SB", "SH", "SW"} THEN WriteMem(c.mem, Address(i, r), Size(i.op), r[i.rt])
                 ELSE c.mem]

\* A program run to its end, or for so many turns.
HostRun(program, start, turns) ==
    LET run[k \in 0..turns] ==
          IF k = 0 THEN start
          ELSE LET c == run[k - 1]
               IN  IF c.pc + 1 \in DOMAIN program THEN HostTurn(program[c.pc + 1], c) ELSE c
    IN  run[turns]

-----------------------------------------------------------------------------
(* Where the two interpreters are alike. They differ in OR and in shifts right,  *)
(* where the simulated machine errs, in immediates that ANDI, ORI and XORI take   *)
(* with their sign on the host, in high words of products, in LWL, LWR and in    *)
(* what one of them raises, refuses or traps.                                    *)

SameCodes == \A code, funct \in 0..63, rt \in 0..31 :
    LET host == HostDecoded(code, funct, rt)
        op == Decoded(code, funct, rt)
    IN  IF host \in {"unknown", "BREAK"} THEN op \in {"UNIMP", "RES"} ELSE op = host

Alike == (ThreeRegisters \ {"OR"}) \cup SignedImmediates \cup HalfImmediates
            \cup {"SLL", "SLLV", "SRA", "SRAV"}
SameResults == \A a, b \in Words :
    /\ \A op \in Alike : HostResult(op, a, b) = Result(op, a, b)
    /\ \A op \in {"SRL", "SRLV"} : ~Negative(b) => HostResult(op, a, b) = Result(op, a, b)
    /\ HostMult(a, b).lo = Mult(a, b, TRUE).lo
    /\ HostProduct(a, b).lo = Mult(a, b, FALSE).lo
    /\ \A op \in {"DIV", "DIVU"} :
         LET i == [op |-> op, rs |-> 1, rt |-> 2]
             r == [n \in Registers |-> IF n = 1 THEN a ELSE b]
         IN  HostTraps(i, r) \/ HostHiLo(i, r) = HiLo(i, r)

\* Programs that both can run, and that do not use what they differ in.
Portable(program) == \A k \in DOMAIN program :
    /\ program[k].op \notin {"OR", "SRL", "SRLV", "MULT", "MULTU", "DIV", "DIVU", "LWL", "LWR", "SWL",
                             "SWR", "SYSCALL", "UNIMP", "RES"}
    /\ program[k].op = "JALR" => program[k].rd # program[k].rs
    /\ program[k].op \in HalfImmediates => program[k].extra = Half(program[k].extra)
=============================================================================
