-------------------------------- MODULE Mips --------------------------------
(***************************************************************************)
(* What an instruction of the simulated MIPS does to the registers and the *)
(* program counters (machine/mipssim.cc). Words have W bits (32 in the     *)
(* code) and are their unsigned values; the program counters and branch    *)
(* distances count instructions, not bytes. LWL, LWR, SWL and SWR are what *)
(* the code makes of them: it asserts that their addresses are aligned.    *)
(***************************************************************************)
EXTENDS Integers, Bitwise

CONSTANTS W, R31    \* bits of a word; the last register, that links write

ASSUME MipsAssumption == W \in {4 * n : n \in 1..8} /\ R31 \in Nat \ {0}

HiReg == R31 + 1
LoReg == R31 + 2
Registers == 0..LoReg
Words == 0..2^W - 1
Negative(a) == a >= 2^(W - 1)
Signed(a) == IF Negative(a) THEN a - 2^W ELSE a
Wrap(n) == n % 2^W
Bit(a, i) == (a \div 2^i) % 2
\* The low half of a word, and a part of k bits with its sign.
Half(a) == a % 2^(W \div 2)
SignExtended(a, k) == IF Bit(a, k - 1) = 1 THEN Wrap(a - 2^k) ELSE a

ThreeRegisters == {"ADD", "ADDU", "AND", "NOR", "OR", "SLT", "SLTU", "SUB", "SUBU", "XOR"}
VariableShifts == {"SLLV", "SRAV", "SRLV"}
FixedShifts == {"SLL", "SRA", "SRL"}
SignedImmediates == {"ADDI", "ADDIU", "SLTI", "SLTIU"}
HalfImmediates == {"ANDI", "ORI", "XORI"}
Loads == {"LB", "LBU", "LH", "LHU", "LW", "LWL", "LWR"}
Stores == {"SB", "SH", "SW", "SWL", "SWR"}
Links == {"JAL", "BGEZAL", "BLTZAL"}

\* The result of an operation on two words; of a shift, a is the amount and b the word.
Result(op, a, b) ==
    CASE op \in {"ADD", "ADDI", "ADDU", "ADDIU"} -> Wrap(a + b)
      [] op \in {"SUB", "SUBU"} -> Wrap(a - b)
      [] op \in {"AND", "ANDI"} -> a & b
      [] op = "OR" -> a | a    \* as in the code, which takes rs twice
      [] op = "ORI" -> a | b
      [] op \in {"XOR", "XORI"} -> a ^^ b
      [] op = "NOR" -> 2^W - 1 - (a | b)
      [] op \in {"SLT", "SLTI"} -> IF Signed(a) < Signed(b) THEN 1 ELSE 0
      [] op \in {"SLTU", "SLTIU"} -> IF a < b THEN 1 ELSE 0
      [] op \in {"SLL", "SLLV"} -> Wrap(b * 2^(a % W))
      [] op \in {"SRA", "SRAV", "SRL", "SRLV"} -> Wrap(Signed(b) \div 2^(a % W))

\* An overflow shows in the signs of operands and result.
Overflows(op, a, b) ==
    CASE op \in {"ADD", "ADDI"} -> Negative(a) = Negative(b) /\ Negative(Result(op, a, b)) # Negative(b)
      [] op = "SUB" -> Negative(a) # Negative(b) /\ Negative(Result(op, a, b)) # Negative(a)
      [] OTHER -> FALSE

\* Multiplication: the bits of a one at a time, b shifted in a double word.
Positive(a) == IF Negative(a) THEN Wrap(-a) ELSE a
Product(a, b) ==
    LET sum[i \in 0..W] ==
          IF i = 0 THEN [hi |-> 0, lo |-> 0]
          ELSE LET s == sum[i - 1]
                   bLo == Wrap(b * 2^(i - 1))
                   bHi == Wrap((b * 2^(i - 1)) \div 2^W)
                   lo == Wrap(s.lo + bLo)
                   carry == IF lo < bLo THEN 1 ELSE 0
               IN  IF Bit(a, i - 1) = 0 THEN s ELSE [hi |-> Wrap(s.hi + carry + bHi), lo |-> lo]
    IN  sum[W]
\* The carry out of the low word is lost when the product's sign changes.
Negated_NoCarry(p) == [hi |-> 2^W - 1 - p.hi, lo |-> Wrap(2^W - p.lo)]
Negated(p) == LET lo == Wrap(2^W - p.lo)
                  hi == 2^W - 1 - p.hi
              IN  [hi |-> IF lo = 0 THEN Wrap(hi + 1) ELSE hi, lo |-> lo]
Mult(a, b, signedArith) ==
    LET p == IF signedArith THEN Product(Positive(a), Positive(b)) ELSE Product(a, b)
    IN  IF signedArith /\ Negative(a) # Negative(b) /\ a # 0 /\ b # 0 THEN Negated(p) ELSE p

\* C rounds quotients towards zero.
Abs(n) == IF n < 0 THEN -n ELSE n
Quotient(m, n) == IF (m < 0) = (n < 0) THEN Abs(m) \div Abs(n) ELSE -(Abs(m) \div Abs(n))
Divided(m, n) == IF n = 0 THEN [hi |-> 0, lo |-> 0]
                 ELSE [hi |-> Wrap(m - n * Quotient(m, n)), lo |-> Wrap(Quotient(m, n))]

HiLo(i, r) == LET a == r[i.rs]
                  b == r[i.rt]
              IN  CASE i.op = "MULT" -> Mult(a, b, TRUE)
                    [] i.op = "MULTU" -> Mult(a, b, FALSE)
                    [] i.op = "DIV" -> Divided(Signed(a), Signed(b))
                    [] i.op = "DIVU" -> Divided(a, b)

\* The second operand, sign-extended, or its low half.
Immediate(i) == IF i.op \in HalfImmediates THEN Half(i.extra) ELSE i.extra

\* The registers after an instruction, but for what a load brings.
Computed(i, r, next) ==
    CASE i.op \in ThreeRegisters \cup VariableShifts ->
            [r EXCEPT ![i.rd] = Result(i.op, r[i.rs], r[i.rt])]
      [] i.op \in FixedShifts -> [r EXCEPT ![i.rd] = Result(i.op, i.extra, r[i.rt])]
      [] i.op \in SignedImmediates \cup HalfImmediates ->
            [r EXCEPT ![i.rt] = Result(i.op, r[i.rs], Immediate(i))]
      [] i.op = "LUI" -> [r EXCEPT ![i.rt] = Wrap(i.extra * 2^(W \div 2))]
      [] i.op \in {"MULT", "MULTU", "DIV", "DIVU"} ->
            [r EXCEPT ![HiReg] = HiLo(i, r).hi, ![LoReg] = HiLo(i, r).lo]
      [] i.op = "MFHI" -> [r EXCEPT ![i.rd] = r[HiReg]]
      [] i.op = "MFLO" -> [r EXCEPT ![i.rd] = r[LoReg]]
      [] i.op = "MTHI" -> [r EXCEPT ![HiReg] = r[i.rs]]
      [] i.op = "MTLO" -> [r EXCEPT ![LoReg] = r[i.rs]]
      [] i.op \in Links -> [r EXCEPT ![R31] = Wrap(next + 1)]
      [] i.op = "JALR" -> [r EXCEPT ![i.rd] = Wrap(next + 1)]
      [] OTHER -> r

Raises(i, r) ==
    \/ i.op \in {"ADD", "SUB"} /\ Overflows(i.op, r[i.rs], r[i.rt])
    \/ i.op = "ADDI" /\ Overflows(i.op, r[i.rs], i.extra)
    \/ i.op \in {"RES", "UNIMP"}

Taken(i, r) ==
    CASE i.op = "BEQ" -> r[i.rs] = r[i.rt]
      [] i.op = "BNE" -> r[i.rs] # r[i.rt]
      [] i.op \in {"BGEZ", "BGEZAL"} -> ~Negative(r[i.rs])
      [] i.op \in {"BLTZ", "BLTZAL"} -> Negative(r[i.rs])
      [] i.op = "BGTZ" -> Signed(r[i.rs]) > 0
      [] i.op = "BLEZ" -> Signed(r[i.rs]) <= 0
      [] OTHER -> FALSE

\* The counter after the next instruction, which is executed before a branch is taken.
PcAfter(i, r, next) ==
    CASE i.op \in {"J", "JAL"} -> i.extra
      [] i.op \in {"JR", "JALR"} -> Computed(i, r, next)[i.rs]
      [] Taken(i, Computed(i, r, next)) -> Wrap(next + i.extra)
      [] OTHER -> Wrap(next + 1)

-----------------------------------------------------------------------------
(* Loads and stores, in a memory of bytes; a word has four, the lowest first. *)

ByteBits == W \div 4
Size(op) == CASE op \in {"LB", "LBU", "SB"} -> 1
              [] op \in {"LH", "LHU", "SH"} -> 2
              [] OTHER -> 4
Address(i, r) == Wrap(r[i.rs] + i.extra)
Misaligned(i, r) == Address(i, r) % Size(i.op) # 0
ReadMem(mem, addr, size) ==
    LET part[k \in 0..size] == IF k = 0 THEN 0
                               ELSE part[k - 1] + mem[addr + k - 1] * 2^(ByteBits * (k - 1))
    IN  part[size]
WriteMem(mem, addr, size, value) ==
    [a \in DOMAIN mem |-> IF a \in addr..addr + size - 1
                          THEN (value \div 2^(ByteBits * (a - addr))) % 2^ByteBits ELSE mem[a]]
\* What a load brings; old is the register's value, or that of a load to it in progress.
\* Of an aligned word LWL takes all, and LWR the highest byte; so SWL and SWR.
Loaded(i, r, old, mem) ==
    LET value == ReadMem(mem, Address(i, r), Size(i.op))
    IN  CASE i.op \in {"LB", "LH"} -> SignExtended(value, ByteBits * Size(i.op))
          [] i.op = "LWR" -> (old - (old % 2^ByteBits)) + (value \div 2^(3 * ByteBits))
          [] OTHER -> value
MergedAbove(low, word) == (low % 2^(3 * ByteBits)) + Wrap(word * 2^(3 * ByteBits))
Stored(i, r, mem) ==
    LET at == Address(i, r)
    IN  WriteMem(mem, at, Size(i.op), IF i.op = "SWR" THEN MergedAbove(ReadMem(mem, at, 4), r[i.rt])
                                      ELSE r[i.rt])

-----------------------------------------------------------------------------
\* A sum or difference overflows just when it does not fit, whatever the words.
OverflowExact == \A a, b \in Words :
    LET Fits(n) == n \in -2^(W - 1)..2^(W - 1) - 1
    IN  /\ Overflows("ADD", a, b) <=> ~Fits(Signed(a) + Signed(b))
        /\ Overflows("SUB", a, b) <=> ~Fits(Signed(a) - Signed(b))

\* The double word that Mult adds up is the product, for signed and unsigned words.
MultExact == \A a, b \in Words :
    LET Double(p) == p.hi * 2^W + p.lo
    IN  /\ Double(Mult(a, b, FALSE)) = a * b
        /\ Double(Mult(a, b, TRUE)) = (Signed(a) * Signed(b)) % 2^(2 * W)
=============================================================================
