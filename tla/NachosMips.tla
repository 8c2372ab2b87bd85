------------------------------- MODULE NachosMips -------------------------------
(***************************************************************************)
(* The simulated MIPS R2000 of machine/mipssim.cc, machine/machine.cc and  *)
(* machine/translate.cc: decoding, the instructions with their delayed     *)
(* loads and branch delay slots, exceptions that restart an instruction,   *)
(* and the register sets that the kernel saves and restores when it        *)
(* switches between threads (threads/thread.cc, threads/scheduler.cc).     *)
(*                                                                         *)
(* An instruction word is a record of its fields.  Words have 4*ByteBits   *)
(* bits, 32 in the program; registers hold them unsigned.  A thread's      *)
(* memory is its data pages at their virtual addresses, code comes before  *)
(* it; the frames are in module NachosMemory, the handlers of the other    *)
(* system calls in NachosThreads and NachosSynch.  Left out: the debugger, *)
(* the TLB (never compiled in) and self-modifying code.                    *)
(***************************************************************************)
EXTENDS Integers, Sequences, FiniteSets, FiniteSetsExt, Bitwise

CONSTANTS
  UserThread,       \* threads of user programs: their pids
  ByteBits,     \* bits of a byte (8)
  NumGPRegs,    \* user registers (32)
  PageSize,     \* bytes of a page
  CodePages,    \* pages of the code segment
  DataPages,    \* pages of the data that follows
  Workloads     \* thread -> its program: code, and the registers and data it has

WordBits == 4 * ByteBits
Modulo == 2^WordBits
Word == 0 .. Modulo - 1
Byte == 0 .. 2^ByteBits - 1
PageTableSize == CodePages + DataPages
DataAddress == CodePages * PageSize .. PageTableSize * PageSize - 1

(* machine.h: the registers by number.                                      *)
R31 == NumGPRegs - 1
HiReg == NumGPRegs
LoReg == NumGPRegs + 1
PCReg == NumGPRegs + 2
NextPCReg == NumGPRegs + 3
PrevPCReg == NumGPRegs + 4
LoadReg == NumGPRegs + 5
LoadValueReg == NumGPRegs + 6
BadVAddrReg == NumGPRegs + 7
NumTotalRegs == NumGPRegs + 8

syscall_Exit == 1

ASSUME MipsAssumption ==
  /\ UserThread \subseteq Nat /\ NumGPRegs >= 3 /\ ByteBits >= 2 /\ PageSize % 4 = 0
  /\ PageTableSize * PageSize <= Modulo

VARIABLES
  registers,      \* of the machine
  userRegisters,  \* thread -> the registers saved for it
  currentThread,
  program,        \* thread -> its program, of no instruction if there is no such thread
  memory,         \* thread -> data address -> byte
  valid,          \* thread -> the pages with a valid entry in its page table
  alive,          \* the threads that have not exited
  running         \* FALSE when an ASSERT or a signal has stopped Nachos

mipsVars == <<registers, userRegisters, currentThread, program, memory, valid, alive, running>>

-----------------------------------------------------------------------------
(* Decoding: the major opcode, the function of SPECIAL and the condition of *)
(* BCOND (in the bits of rt) select the operation, the format its "extra".  *)
opTable == <<
  "SPECIAL", "BCOND", "J", "JAL", "BEQ", "BNE", "BLEZ", "BGTZ",
  "ADDI", "ADDIU", "SLTI", "SLTIU", "ANDI", "ORI", "XORI", "LUI",
  "UNIMP", "UNIMP", "UNIMP", "UNIMP", "RES", "RES", "RES", "RES",
  "RES", "RES", "RES", "RES", "RES", "RES", "RES", "RES",
  "LB", "LH", "LWL", "LW", "LBU", "LHU", "LWR", "RES",
  "SB", "SH", "SWL", "SW", "RES", "RES", "SWR", "RES",
  "UNIMP", "UNIMP", "UNIMP", "UNIMP", "RES", "RES", "RES", "RES",
  "UNIMP", "UNIMP", "UNIMP", "UNIMP", "RES", "RES", "RES", "RES" >>

specialTable == <<
  "SLL", "RES", "SRL", "SRA", "SLLV", "RES", "SRLV", "SRAV",
  "JR", "JALR", "RES", "RES", "SYSCALL", "UNIMP", "RES", "RES",
  "MFHI", "MTHI", "MFLO", "MTLO", "RES", "RES", "RES", "RES",
  "MULT", "MULTU", "DIV", "DIVU", "RES", "RES", "RES", "RES",
  "ADD", "ADDU", "SUB", "SUBU", "AND", "OR", "XOR", "NOR",
  "RES", "RES", "SLT", "SLTU" >> \o [i \in 1 .. 20 |-> "RES"]

Condition(rt) == CASE rt = 0 -> "BLTZ" [] rt = 1 -> "BGEZ"
                   [] rt = 16 -> "BLTZAL" [] rt = 17 -> "BGEZAL" [] OTHER -> "UNIMP"

HalfWord == 2^(2 * ByteBits)
SIGN_BIT == 2^(WordBits - 1)
Negative(x) == x >= SIGN_BIT
Signed(x) == IF Negative(x) THEN x - Modulo ELSE x
Wrap(v) == v % Modulo

Decode(w) ==
  LET major == opTable[w.major + 1]
  IN  [op    |-> CASE major = "SPECIAL" -> specialTable[w.funct + 1]
                   [] major = "BCOND"   -> Condition(w.rt)
                   [] OTHER             -> major,
       rs    |-> w.rs, rt |-> w.rt, rd |-> w.rd,
       extra |-> CASE major = "SPECIAL" -> w.shamt
                   [] major \in {"J", "JAL"} -> w.target
                   [] OTHER -> IF w.imm >= HalfWord \div 2
                               THEN w.imm + Modulo - HalfWord ELSE w.imm]

-----------------------------------------------------------------------------
(* Arithmetic                                                               *)
Complement(x) == Modulo - 1 - x
ShiftLeft(x, n) == Wrap(x * 2^n)
(* The code shifts an int: the sign comes in from the left.                 *)
ShiftRight(x, n) == Wrap(Signed(x) \div 2^n)
Flag(p) == IF p THEN 1 ELSE 0

(* Mult: the bits of a select the shifted copies of b that are summed; the  *)
(* carry of lo goes to hi, and the sign is applied at the end.              *)
Mult(a0, b0, signedArith) ==
  LET negative == signedArith /\ Negative(a0) # Negative(b0)
      Positive(x) == IF signedArith /\ Negative(x) THEN Wrap(-x) ELSE x
      Step(s) ==
        LET odd == s.a % 2 = 1
            lo  == IF odd THEN Wrap(s.lo + s.bLo) ELSE s.lo
            hi  == IF odd THEN Wrap(s.hi + Flag(lo < s.bLo) + s.bHi) ELSE s.hi
        IN  IF odd /\ s.a = 1 THEN [s EXCEPT !.lo = lo, !.hi = hi, !.done = TRUE]
            ELSE [a   |-> ShiftRight(s.a, 1), lo |-> lo, hi |-> hi, done |-> FALSE,
                  bHi |-> Wrap(2 * s.bHi) + Flag(Negative(s.bLo)), bLo |-> Wrap(2 * s.bLo)]
      After[i \in 0 .. WordBits] ==
        IF i = 0 THEN [a |-> Positive(a0), bLo |-> Positive(b0), bHi |-> 0,
                       lo |-> 0, hi |-> 0, done |-> FALSE]
        ELSE LET s == After[i - 1] IN IF s.done THEN s ELSE Step(s)
      hi == After[WordBits].hi
      lo == Wrap(Complement(After[WordBits].lo) + 1)
  IN  IF a0 = 0 \/ b0 = 0 THEN [hi |-> 0, lo |-> 0]
      ELSE IF negative THEN [hi |-> Wrap(Complement(hi) + Flag(lo = 0)), lo |-> lo]
      ELSE [hi |-> hi, lo |-> After[WordBits].lo]

(* C division rounds toward zero.                                           *)
Truncated(a, b) == IF (a < 0) = (b < 0) THEN (IF a < 0 THEN (-a) \div (-b) ELSE a \div b)
                   ELSE IF a < 0 THEN -((-a) \div b) ELSE -(a \div (-b))
Divide(op, a, b) ==
  CASE b = 0 -> [lo |-> 0, hi |-> 0]
    [] b # 0 /\ op = "DIV" ->
         LET q == Truncated(Signed(a), Signed(b))
         IN  [lo |-> Wrap(q), hi |-> Wrap(Signed(a) - q * Signed(b))]
    [] b # 0 /\ op = "DIVU" -> [lo |-> a \div b, hi |-> a % b]
(* The host traps when the quotient is not an int.                          *)
DivideTraps(op, a, b) == op = "DIV" /\ Signed(a) = -SIGN_BIT /\ Signed(b) = -1

(* The operations that write one register, from rs, rt and extra.           *)
ImmediateOps == {"ADDI", "ADDIU", "ANDI", "ORI", "XORI", "LUI", "SLTI", "SLTIU"}
AluOps == ImmediateOps \cup
  {"ADD", "ADDU", "SUB", "SUBU", "AND", "OR", "NOR", "XOR", "SLL", "SLLV", "SRL",
   "SRLV", "SRA", "SRAV", "SLT", "SLTU", "MFHI", "MFLO"}

Overflows(op, a, b, extra) ==
  CASE op = "ADD"  -> Negative(a) = Negative(b) /\ Negative(a) # Negative(Wrap(a + b))
    [] op = "ADDI" -> /\ Negative(a) = Negative(extra)
                      /\ Negative(extra) # Negative(Wrap(a + extra))
    [] op = "SUB"  -> Negative(a) # Negative(b) /\ Negative(a) # Negative(Wrap(a - b))
    [] OTHER -> FALSE

Logic(op, a, b, extra) ==
  CASE op = "NOR" -> Complement(a | b)
    [] op = "OR"  -> a | a
    [] op = "ORI" -> a | (extra % HalfWord)
ExclusiveOr(op, a, b, extra) ==
  CASE op = "XOR"  -> a ^^ b
    [] op = "XORI" -> a ^^ (extra % HalfWord)
ShiftedLeft(op, a, b, extra) ==
  CASE op = "SLL"  -> ShiftLeft(b, extra)
    [] op = "SLLV" -> ShiftLeft(b, a % WordBits)
ShiftedRight(op, a, b, extra) ==
  CASE op \in {"SRA", "SRL"}   -> ShiftRight(b, extra)
    [] op \in {"SRAV", "SRLV"} -> ShiftRight(b, a % WordBits)
Compared(op, a, b, extra) ==
  CASE op = "SLT"   -> Flag(Signed(a) < Signed(b))
    [] op = "SLTI"  -> Flag(Signed(a) < Signed(extra))
    [] op = "SLTU"  -> Flag(a < b)
    [] op = "SLTIU" -> Flag(a < extra)

Result(op, a, b, extra) ==
  CASE op \in {"ADD", "ADDU"} -> Wrap(a + b)
    [] op \in {"ADDI", "ADDIU"} -> Wrap(a + extra)
    [] op = "AND"  -> a & b
    [] op = "ANDI" -> a & (extra % HalfWord)
    [] op \in {"SUB", "SUBU"} -> Wrap(a - b)
    [] op \in {"NOR", "OR", "ORI"} -> Logic(op, a, b, extra)
    [] op \in {"XOR", "XORI"} -> ExclusiveOr(op, a, b, extra)
    [] op \in {"SLL", "SLLV"} -> ShiftedLeft(op, a, b, extra)
    [] op \in {"SRA", "SRL", "SRAV", "SRLV"} -> ShiftedRight(op, a, b, extra)
    [] op \in {"SLT", "SLTI", "SLTU", "SLTIU"} -> Compared(op, a, b, extra)
    [] op = "LUI"  -> ShiftLeft(extra, 2 * ByteBits)
    [] op = "MFHI" -> registers[HiReg]
    [] op = "MFLO" -> registers[LoReg]

-----------------------------------------------------------------------------
(* Registers and exceptions.  An operator whose name starts with Faulty is  *)
(* its successor with one plausible bug; no behaviour uses it, the mutation *)
(* runs substitute it.                                                      *)

DelayedLoad(r, nextReg, nextValue) ==
  [r EXCEPT ![r[LoadReg]] = r[LoadValueReg], ![LoadReg] = nextReg,
            ![LoadValueReg] = nextValue, ![0] = 0]

(* The end of OneInstruction: r has what the instruction wrote.             *)
Complete(r, nextReg, nextValue, pcAfter) ==
  registers' = [DelayedLoad(r, nextReg, nextValue) EXCEPT
                  ![PrevPCReg] = r[PCReg], ![PCReg] = r[NextPCReg], ![NextPCReg] = pcAfter]

pcNext == Wrap(registers[NextPCReg] + 4)
NoLoad(r) == Complete(r, 0, 0, pcNext)

(* RaiseException finishes the load in progress before the kernel runs.     *)
(* Faulty: the kernel runs with the load still in progress, and the load is *)
(* then lost.                                                               *)
FaultyRaiseException(badVAddr) ==
  [registers EXCEPT ![BadVAddrReg] = badVAddr, ![LoadReg] = 0, ![LoadValueReg] = 0]

RaiseException(badVAddr) == DelayedLoad([registers EXCEPT ![BadVAddrReg] = badVAddr], 0, 0)

(* An exception the kernel does not handle: ExceptionHandler asserts FALSE. *)
Unexpected(badVAddr) ==
  /\ registers' = RaiseException(badVAddr) /\ running' = FALSE
  /\ UNCHANGED <<userRegisters, currentThread, program, memory, valid, alive>>

vpn(addr) == addr \div PageSize
Translate(addr, size) ==
  CASE addr % size # 0 -> "AddressError"
    [] addr % size = 0 /\ vpn(addr) >= PageTableSize -> "AddressError"
    [] addr % size = 0 /\ vpn(addr) \in (0 .. PageTableSize - 1) \ valid[currentThread] -> "PageFault"
    [] OTHER -> "NoException"

(* An access that fails: a page is brought in and the instruction will be   *)
(* executed again, or Nachos stops.                                         *)
Fails(addr, size) ==
  \/ /\ Translate(addr, size) = "PageFault"
     /\ valid' = [valid EXCEPT ![currentThread] = @ \cup {vpn(addr)}]
     /\ registers' = RaiseException(addr)
     /\ UNCHANGED <<userRegisters, currentThread, program, memory, alive, running>>
  \/ Translate(addr, size) = "AddressError" /\ Unexpected(addr)

mainMemory == memory[currentThread]
ReadMem(addr, size) ==
  MapThenSumSet(LAMBDA k : mainMemory[addr + k] * 2^(k * ByteBits), 0 .. size - 1)
WriteMem(addr, size, word) ==
  memory' = [memory EXCEPT ![currentThread] =
     [d \in DataAddress |-> IF d \in addr .. addr + size - 1
                            THEN (word \div 2^((d - addr) * ByteBits)) % 2^ByteBits ELSE @[d]]]

Fetch == Decode(program[currentThread].code[registers[PCReg] \div 4 + 1])
Fetched == running /\ currentThread \in alive /\ Translate(registers[PCReg], 4) = "NoException"
Rs == registers[Fetch.rs]
Rt == registers[Fetch.rt]

-----------------------------------------------------------------------------
(* OneInstruction, by the kind of instruction                               *)
KernelUnchanged == UNCHANGED <<userRegisters, currentThread, program, valid, alive, running>>

FetchFails ==
  /\ running /\ currentThread \in alive /\ Fails(registers[PCReg], 4)

Alu ==
  /\ Fetched /\ Fetch.op \in AluOps
  /\ LET i == Fetch IN
     IF Overflows(i.op, Rs, Rt, i.extra) THEN Unexpected(0)
     ELSE /\ NoLoad([registers EXCEPT ![IF i.op \in ImmediateOps THEN i.rt ELSE i.rd]
                                        = Result(i.op, Rs, Rt, i.extra)])
          /\ KernelUnchanged /\ UNCHANGED memory

HiLo ==
  /\ Fetched
  /\ LET i == Fetch
         Set(p) == [registers EXCEPT ![HiReg] = p.hi, ![LoReg] = p.lo]
     IN \/ i.op \in {"MULT", "MULTU"} /\ NoLoad(Set(Mult(Rs, Rt, i.op = "MULT")))
        \/ /\ i.op \in {"DIV", "DIVU"} /\ ~DivideTraps(i.op, Rs, Rt)
           /\ NoLoad(Set(Divide(i.op, Rs, Rt)))
        \/ i.op = "MTHI" /\ NoLoad([registers EXCEPT ![HiReg] = Rs])
        \/ i.op = "MTLO" /\ NoLoad([registers EXCEPT ![LoReg] = Rs])
  /\ KernelUnchanged /\ UNCHANGED memory

(* The simulator itself dies of the signal.                                 *)
HostTrap ==
  /\ Fetched /\ DivideTraps(Fetch.op, Rs, Rt) /\ running' = FALSE
  /\ UNCHANGED <<registers, userRegisters, currentThread, program, memory, valid, alive>>

BranchTaken(op, a, b) ==
  CASE op = "BEQ" -> a = b
    [] op = "BNE" -> a # b
    [] op \in {"BGEZ", "BGEZAL"} -> ~Negative(a)
    [] op \in {"BLTZ", "BLTZAL"} -> Negative(a)
    [] op = "BGTZ" -> Signed(a) > 0
    [] op = "BLEZ" -> Signed(a) <= 0

(* The link register is written before the condition is read.               *)
Linked(link) == [registers EXCEPT ![link] = pcNext]

Branch ==
  /\ Fetched
  /\ Fetch.op \in {"BEQ", "BNE", "BGEZ", "BGEZAL", "BLTZ", "BLTZAL", "BGTZ", "BLEZ"}
  /\ LET i == Fetch
         r == IF i.op \in {"BGEZAL", "BLTZAL"} THEN Linked(R31) ELSE registers
     IN  Complete(r, 0, 0, IF BranchTaken(i.op, r[i.rs], r[i.rt])
                           THEN Wrap(registers[NextPCReg] + 4 * i.extra) ELSE pcNext)
  /\ KernelUnchanged /\ UNCHANGED memory

Region(target) == LET size == 2^(7 * (WordBits \div 8)) IN (target \div size) * size

Jump ==
  /\ Fetched
  /\ LET i == Fetch
         r == CASE i.op = "JAL"  -> Linked(R31)
                [] i.op = "JALR" -> Linked(i.rd)
                [] OTHER         -> registers
     IN \/ i.op \in {"J", "JAL"} /\ Complete(r, 0, 0, Region(pcNext) + 4 * i.extra)
        \/ i.op \in {"JR", "JALR"} /\ Complete(r, 0, 0, r[i.rs])
  /\ KernelUnchanged /\ UNCHANGED memory

Extended(op, word) ==
  CASE op = "LB" /\ word >= 2^(ByteBits - 1) -> word + Modulo - 2^ByteBits
    [] op = "LH" /\ word >= HalfWord \div 2  -> word + Modulo - HalfWord
    [] OTHER -> word

LoadSize == [LB |-> 1, LBU |-> 1, LH |-> 2, LHU |-> 2, LW |-> 4, LWL |-> 4, LWR |-> 4]
StoreSize == [SB |-> 1, SH |-> 2, SW |-> 4, SWL |-> 4, SWR |-> 4]
Unaligned == {"LWL", "LWR", "SWL", "SWR"}

(* These four ASSERT an aligned address, where one of their cases is left.  *)
UnalignedAssert ==
  /\ Fetched /\ Fetch.op \in Unaligned /\ Wrap(Rs + Fetch.extra) % 4 # 0
  /\ running' = FALSE
  /\ UNCHANGED <<registers, userRegisters, currentThread, program, memory, valid, alive>>

(* LWR merges with the newest value of rt, which may still be on its way.   *)
Load ==
  /\ Fetched /\ Fetch.op \in DOMAIN LoadSize
  /\ LET i       == Fetch
         addr    == Wrap(Rs + i.extra)
         word   == ReadMem(addr, LoadSize[i.op])
         pending == IF registers[LoadReg] = i.rt THEN registers[LoadValueReg] ELSE Rt
         merged  == pending - (pending % 2^ByteBits) + word \div 2^(3 * ByteBits)
     IN /\ i.op \in Unaligned => addr % 4 = 0
        /\ IF Translate(addr, LoadSize[i.op]) # "NoException" THEN Fails(addr, LoadSize[i.op])
           ELSE /\ Complete(registers, i.rt,
                            IF i.op = "LWR" THEN merged ELSE Extended(i.op, word), pcNext)
                /\ KernelUnchanged /\ UNCHANGED memory

Store ==
  /\ Fetched /\ Fetch.op \in DOMAIN StoreSize
  /\ LET i     == Fetch
         addr  == Wrap(Rs + i.extra)
         word == IF i.op = "SWR"
                  THEN (ReadMem(addr, 4) % 2^(3 * ByteBits)) + ShiftLeft(Rt, 3 * ByteBits) ELSE Rt
     IN /\ i.op \in Unaligned => addr % 4 = 0
        /\ IF Translate(addr, StoreSize[i.op]) # "NoException" THEN Fails(addr, StoreSize[i.op])
           ELSE WriteMem(addr, StoreSize[i.op], word) /\ NoLoad(registers) /\ KernelUnchanged

Illegal == Fetched /\ Fetch.op \in {"RES", "UNIMP"} /\ Unexpected(0)

-----------------------------------------------------------------------------
(* The kernel.  ExceptionHandler advances the program counters itself: for  *)
(* syscall_GetPID it answers in register 2 and goes on.                     *)
Resume(r) ==
  [r EXCEPT ![PrevPCReg] = r[PCReg], ![PCReg] = r[NextPCReg],
            ![NextPCReg] = Wrap(r[NextPCReg] + 4)]

Syscall ==
  /\ Fetched /\ Fetch.op = "SYSCALL"
  /\ LET r == RaiseException(0) IN
     IF r[2] = syscall_Exit
     THEN /\ alive' = alive \ {currentThread} /\ registers' = r
          /\ UNCHANGED <<userRegisters, currentThread, program, memory, valid, running>>
     ELSE registers' = Resume([r EXCEPT ![2] = currentThread]) /\ KernelUnchanged /\ UNCHANGED memory

(* CheckIfDue finishes a load before it calls an interrupt's handler.       *)
Interrupt ==
  /\ running /\ currentThread \in alive /\ registers[LoadReg] # 0
  /\ registers' = DelayedLoad(registers, 0, 0)
  /\ KernelUnchanged /\ UNCHANGED memory

(* SaveUserState and RestoreUserState around SWITCH, after an interrupt or  *)
(* in the handler of an exception: no load is pending then.                 *)
SwitchTo(t) ==
  /\ running /\ t \in alive \ {currentThread} /\ registers[LoadReg] = 0
  /\ userRegisters' = [userRegisters EXCEPT ![currentThread] = registers]
  /\ registers' = userRegisters[t]
  /\ currentThread' = t
  /\ UNCHANGED <<program, memory, valid, alive, running>>

(* Each thread starts its program with the registers an earlier part of it  *)
(* left, and with no page in memory.                                        *)
StartRegisters(p) ==
  [r \in 0 .. NumTotalRegs - 1 |-> IF r = NextPCReg THEN 4
                                   ELSE IF r \in DOMAIN p.regs THEN p.regs[r] ELSE 0]

NoProgram == [code |-> <<>>, data |-> [d \in DataAddress |-> 0], regs |-> <<>>]

MipsStart(programs) ==
  /\ program \in programs
  /\ alive = {t \in UserThread : program[t].code # <<>>}
  /\ currentThread = Min(UserThread)
  /\ userRegisters = [t \in UserThread |-> StartRegisters(program[t])]
  /\ registers = userRegisters[currentThread]
  /\ memory = [t \in UserThread |-> program[t].data]
  /\ valid = [t \in UserThread |-> {}] /\ running = TRUE

MipsInit == MipsStart(Workloads)
MipsIdle == MipsStart({[t \in UserThread |-> NoProgram]})

MipsNext ==
  \/ FetchFails \/ Alu \/ HiLo \/ HostTrap \/ Branch \/ Jump
  \/ UnalignedAssert \/ Load \/ Store \/ Illegal \/ Syscall \/ Interrupt
  \/ \E t \in UserThread : SwitchTo(t)

MipsSpec == MipsInit /\ [][MipsNext]_mipsVars

-----------------------------------------------------------------------------
(* What the user program sees: its registers with the pending load done.    *)
RegistersOf(t) == IF t = currentThread THEN registers ELSE userRegisters[t]
Visible(r, k) == IF k = 0 THEN 0 ELSE IF k = r[LoadReg] THEN r[LoadValueReg] ELSE r[k]

Isa == INSTANCE NachosIsa WITH
  Thread <- UserThread, LinkReg <- R31, ResultReg <- 2, ExitCall <- syscall_Exit,
  Pid <- LAMBDA t : t, Decoded <- Decode,
  code <- [t \in UserThread |-> program[t].code],
  gpr  <- [t \in UserThread |-> LET r == RegistersOf(t) IN [k \in 0 .. R31 |-> Visible(r, k)]],
  hi   <- [t \in UserThread |-> RegistersOf(t)[HiReg]],
  lo   <- [t \in UserThread |-> RegistersOf(t)[LoReg]],
  pc   <- [t \in UserThread |-> RegistersOf(t)[PCReg]],
  npc  <- [t \in UserThread |-> RegistersOf(t)[NextPCReg]],
  mem  <- memory,
  alive <- [t \in UserThread |-> t \in alive]

(* A user program cannot tell the simulator from the machine: page faults,  *)
(* restarted instructions, interrupts and switches leave no trace in the    *)
(* registers and the memory of a thread whose program does not use a        *)
(* register in the delay slot of the load that writes it (OneInstruction,   *)
(* RaiseException, CheckIfDue, SaveUserState, RestoreUserState).            *)
ImplementsIsa == Isa!IsaSpec
=============================================================================
