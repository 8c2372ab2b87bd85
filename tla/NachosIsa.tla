------------------------------- MODULE NachosIsa -------------------------------
(***************************************************************************)
(* The machine that a user program expects (machine/machine.h: user        *)
(* programs should not be able to tell the simulator from the hardware):   *)
(* every thread has registers and a memory of its own, an instruction      *)
(* happens at once or stops the machine, a load is complete when it has    *)
(* been executed, and there are no page faults, no pending loads, no       *)
(* interrupts and no switches.  Arithmetic is defined on integers and on   *)
(* sets of bits.  Module NachosMips implements this specification.         *)
(***************************************************************************)
EXTENDS Integers, Sequences, FiniteSets, FiniteSetsExt

CONSTANTS Thread, ByteBits, LinkReg, ResultReg, ExitCall,
          Pid(_),      \* the answer of a system call to a thread
          Decoded(_)   \* the fields of an instruction word

VARIABLES code,    \* thread -> the instruction words of its program
          gpr, hi, lo, pc, npc, mem, alive,   \* per thread
          running  \* the machine has not been stopped by a fatal instruction

isaVars == <<code, gpr, hi, lo, pc, npc, mem, alive, running>>

Width == 4 * ByteBits
Modulus == 2^Width
Unsigned(v) == v % Modulus
ToInteger(x) == IF x >= 2^(Width - 1) THEN x - Modulus ELSE x
Representable(v) == v \in -(2^(Width - 1)) .. 2^(Width - 1) - 1
Bits(x) == {i \in 0 .. Width - 1 : (x \div 2^i) % 2 = 1}
Number(S) == MapThenSumSet(LAMBDA i : 2^i, S)
ZeroExtended(x) == x % 2^(2 * ByteBits)
SignExtended(v, bytes) ==
  IF v >= 2^(bytes * ByteBits - 1) THEN Unsigned(v - 2^(bytes * ByteBits)) ELSE v
(* Division rounds toward zero.                                             *)
Magnitude(n) == IF n < 0 THEN -n ELSE n
Quotient(a, b) == LET q == Magnitude(a) \div Magnitude(b)
                  IN  IF (a < 0) = (b < 0) THEN q ELSE -q

Bit == 0 .. Width - 1
Moved(S, n) == {i + n : i \in S} \cap Bit
SignCopies(a, n) == IF Width - 1 \in Bits(a) THEN {i \in Bit : i >= Width - n} ELSE {}

(* What is written to the result register; a and b are the values of rs and *)
(* rt, x is the immediate, the shift amount or the displacement.            *)
Value(op, a, b, x, h, l) ==
  CASE op \in {"ADD", "ADDU"}   -> Unsigned(a + b)
    [] op \in {"ADDI", "ADDIU"} -> Unsigned(a + x)
    [] op \in {"SUB", "SUBU"}   -> Unsigned(a - b)
    [] op = "AND"  -> Number(Bits(a) \cap Bits(b))
    [] op = "ANDI" -> Number(Bits(a) \cap Bits(ZeroExtended(x)))
    [] op = "OR"   -> Number(Bits(a) \cup Bits(b))
    [] op = "ORI"  -> Number(Bits(a) \cup Bits(ZeroExtended(x)))
    [] op = "NOR"  -> Number(Bit \ (Bits(a) \cup Bits(b)))
    [] op = "XOR"  -> Number((Bits(a) \cup Bits(b)) \ (Bits(a) \cap Bits(b)))
    [] op = "XORI" -> LET S == Bits(ZeroExtended(x))
                      IN  Number((Bits(a) \cup S) \ (Bits(a) \cap S))
    [] op = "LUI"  -> Number(Moved(Bits(x), Width \div 2))
    [] op = "SLL"  -> Number(Moved(Bits(b), x))
    [] op = "SLLV" -> Number(Moved(Bits(b), a % Width))
    [] op = "SRL"  -> Number(Moved(Bits(b), -x))
    [] op = "SRLV" -> Number(Moved(Bits(b), -(a % Width)))
    [] op = "SRA"  -> Number(Moved(Bits(b), -x) \cup SignCopies(b, x))
    [] op = "SRAV" -> Number(Moved(Bits(b), -(a % Width)) \cup SignCopies(b, a % Width))
    [] op = "SLT"   -> IF ToInteger(a) < ToInteger(b) THEN 1 ELSE 0
    [] op = "SLTI"  -> IF ToInteger(a) < ToInteger(x) THEN 1 ELSE 0
    [] op = "SLTU"  -> IF a < b THEN 1 ELSE 0
    [] op = "SLTIU" -> IF a < x THEN 1 ELSE 0
    [] op = "MFHI" -> h
    [] op = "MFLO" -> l

Traps(op, a, b, x) ==
  \/ op = "ADD" /\ ~Representable(ToInteger(a) + ToInteger(b))
  \/ op = "ADDI" /\ ~Representable(ToInteger(a) + ToInteger(x))
  \/ op = "SUB" /\ ~Representable(ToInteger(a) - ToInteger(b))
  \/ op = "DIV" /\ b # 0 /\ ~Representable(Quotient(ToInteger(a), ToInteger(b)))
  \/ op \in {"RES", "UNIMP"}

HiLo(op, a, b) ==
  LET Double(v) == <<(v % Modulus^2) \div Modulus, v % Modulus>>
  IN  CASE op = "MULT"  -> Double(ToInteger(a) * ToInteger(b))
        [] op = "MULTU" -> Double(a * b)
        [] op \in {"DIV", "DIVU"} /\ b = 0 -> <<0, 0>>
        [] op = "DIV" /\ b # 0 ->
             LET q == Quotient(ToInteger(a), ToInteger(b))
             IN  <<Unsigned(ToInteger(a) - q * ToInteger(b)), Unsigned(q)>>
        [] op = "DIVU" /\ b # 0 -> <<a % b, a \div b>>

Taken(op, a, b) ==
  CASE op = "BEQ" -> a = b
    [] op = "BNE" -> a # b
    [] op \in {"BGEZ", "BGEZAL"} -> ToInteger(a) >= 0
    [] op \in {"BLTZ", "BLTZAL"} -> ToInteger(a) < 0
    [] op = "BGTZ" -> ToInteger(a) > 0
    [] op = "BLEZ" -> ToInteger(a) <= 0

Size(op) == CASE op \in {"LB", "LBU", "SB"} -> 1
              [] op \in {"LH", "LHU", "SH"} -> 2
              [] op \in {"LW", "LWL", "LWR", "SW", "SWL", "SWR"} -> 4
Loaded(op, t, a, old) ==
  LET n == Size(op)
      v == MapThenSumSet(LAMBDA k : mem[t][a + k] * 2^(k * ByteBits), 0 .. n - 1)
  IN  CASE op \in {"LB", "LH"} -> SignExtended(v, n)
        [] op = "LWR" -> Number((Bits(old) \ (0 .. ByteBits - 1)) \cup Bits(mem[t][a + 3]))
        [] OTHER -> v
(* SWR at a word boundary stores the lowest byte at the highest place.      *)
Stored(op, t, a, v) ==
  [d \in DOMAIN mem[t] |->
     IF op = "SWR" THEN IF d = a + 3 THEN v % 2^ByteBits ELSE mem[t][d]
     ELSE IF d \in a .. a + Size(op) - 1 THEN (v \div 2^((d - a) * ByteBits)) % 2^ByteBits
          ELSE mem[t][d]]

Instruction(t) == Decoded(code[t][pc[t] \div 4 + 1])
(* Register 0 is always 0.                                                  *)
Write(t, r, v) == gpr' = [gpr EXCEPT ![t][r] = IF r = 0 THEN 0 ELSE v]
Proceed(t, target) ==
  /\ pc' = [pc EXCEPT ![t] = npc[t]] /\ npc' = [npc EXCEPT ![t] = target]
  /\ UNCHANGED <<code, alive, running>>
Following(t) == Unsigned(npc[t] + 4)
Fetched(t) == running /\ alive[t] /\ pc[t] % 4 = 0 /\ pc[t] \div 4 + 1 \in DOMAIN code[t]

ValueOps == {"ADD", "ADDU", "ADDI", "ADDIU", "SUB", "SUBU", "AND", "ANDI", "OR", "ORI",
             "NOR", "XOR", "XORI", "LUI", "SLL", "SLLV", "SRL", "SRLV", "SRA", "SRAV",
             "SLT", "SLTI", "SLTU", "SLTIU", "MFHI", "MFLO"}
ImmediateOps == {"ADDI", "ADDIU", "ANDI", "ORI", "XORI", "LUI", "SLTI", "SLTIU"}
BranchOps == {"BEQ", "BNE", "BGEZ", "BGEZAL", "BLTZ", "BLTZAL", "BGTZ", "BLEZ"}

LoadOps == {"LB", "LBU", "LH", "LHU", "LW", "LWL", "LWR"}
StoreOps == {"SB", "SH", "SW", "SWL", "SWR"}

Compute(t) == LET i == Instruction(t) a == gpr[t][i.rs] b == gpr[t][i.rt] IN
  /\ i.op \in ValueOps /\ ~Traps(i.op, a, b, i.extra)
  /\ Write(t, IF i.op \in ImmediateOps THEN i.rt ELSE i.rd,
           Value(i.op, a, b, i.extra, hi[t], lo[t]))
  /\ Proceed(t, Following(t)) /\ UNCHANGED <<hi, lo, mem>>

SetHiLo(t) == LET i == Instruction(t) a == gpr[t][i.rs] b == gpr[t][i.rt] IN
  /\ \/ /\ i.op \in {"MULT", "MULTU", "DIV", "DIVU"} /\ ~Traps(i.op, a, b, 0)
        /\ hi' = [hi EXCEPT ![t] = HiLo(i.op, a, b)[1]]
        /\ lo' = [lo EXCEPT ![t] = HiLo(i.op, a, b)[2]]
     \/ i.op = "MTHI" /\ hi' = [hi EXCEPT ![t] = a] /\ UNCHANGED lo
     \/ i.op = "MTLO" /\ lo' = [lo EXCEPT ![t] = a] /\ UNCHANGED hi
  /\ Proceed(t, Following(t)) /\ UNCHANGED <<gpr, mem>>

(* A branch or a jump takes effect after the instruction in its delay slot. *)
Transfer(t) == LET i == Instruction(t) a == gpr[t][i.rs] IN
  /\ \/ /\ i.op \in BranchOps
        /\ Proceed(t, IF Taken(i.op, a, gpr[t][i.rt])
                      THEN Unsigned(npc[t] + 4 * i.extra) ELSE Following(t))
     \/ i.op \in {"J", "JAL"} /\
        Proceed(t, LET region == 2^(7 * (Width \div 8))
                   IN  (Following(t) \div region) * region + 4 * i.extra)
     \/ i.op \in {"JR", "JALR"} /\ Proceed(t, a)
  /\ CASE i.op \in {"JAL", "BGEZAL", "BLTZAL"} -> Write(t, LinkReg, Following(t))
       [] i.op = "JALR" -> Write(t, i.rd, Following(t))
       [] OTHER -> UNCHANGED gpr
  /\ UNCHANGED <<hi, lo, mem>>

LoadStore(t) ==
  LET i == Instruction(t)
      a == Unsigned(gpr[t][i.rs] + i.extra)
  IN /\ i.op \in LoadOps \cup StoreOps
     /\ \A k \in 0 .. Size(i.op) - 1 : a + k \in DOMAIN mem[t]
     /\ a % Size(i.op) = 0
     /\ \/ /\ i.op \in LoadOps
           /\ Write(t, i.rt, Loaded(i.op, t, a, gpr[t][i.rt])) /\ UNCHANGED mem
        \/ /\ i.op \in StoreOps
           /\ mem' = [mem EXCEPT ![t] = Stored(i.op, t, a, gpr[t][i.rt])]
           /\ UNCHANGED gpr
     /\ Proceed(t, Following(t)) /\ UNCHANGED <<hi, lo>>

SystemCall(t) ==
  /\ Instruction(t).op = "SYSCALL"
  /\ IF gpr[t][ResultReg] = ExitCall
     THEN alive' = [alive EXCEPT ![t] = FALSE] /\ UNCHANGED <<code, gpr, pc, npc, running>>
     ELSE Write(t, ResultReg, Pid(t)) /\ Proceed(t, Following(t))
  /\ UNCHANGED <<hi, lo, mem>>

(* An instruction that is illegal, overflows or addresses no memory stops    *)
(* the machine.                                                              *)
Stop(t) ==
  /\ \/ ~Fetched(t)
     \/ LET i == Instruction(t) a == gpr[t][i.rs] IN
          \/ Traps(i.op, a, gpr[t][i.rt], i.extra)
          \/ /\ i.op \in LoadOps \cup StoreOps
             /\ \/ Unsigned(a + i.extra) % Size(i.op) # 0
                \/ Unsigned(a + i.extra) \notin DOMAIN mem[t]
  /\ alive[t] /\ running /\ running' = FALSE
  /\ UNCHANGED <<code, gpr, hi, lo, pc, npc, mem, alive>>

IsaInit ==
  /\ running = TRUE /\ \A t \in Thread : pc[t] = 0 /\ npc[t] = 4 /\ gpr[t][0] = 0

IsaNext ==
  \E t \in Thread :
     \/ Fetched(t) /\ (Compute(t) \/ SetHiLo(t) \/ Transfer(t) \/ LoadStore(t) \/ SystemCall(t))
     \/ Stop(t)

IsaSpec == IsaInit /\ [][IsaNext]_isaVars
=============================================================================
