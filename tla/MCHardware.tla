------------------------------- MODULE MCHardware -------------------------------
(* Small hardware for TLC: its programs, prints, disk and machines.         *)
EXTENDS NachosHardware, TLC

(* Instruction words, and the programs of three kinds that the runs use:     *)
(* every instruction on chosen operands, every short program of a set of     *)
(* instructions that interact, and pairs of programs that are interleaved.   *)
W0 == [major |-> 0, rs |-> 0, rt |-> 0, rd |-> 0, shamt |-> 0, funct |-> 0, imm |-> 0, target |-> 0]
RFormat(funct, rs, rt, rd, shamt) ==
  [W0 EXCEPT !.funct = funct, !.rs = rs, !.rt = rt, !.rd = rd, !.shamt = shamt]
IFormat(major, rs, rt, imm) == [W0 EXCEPT !.major = major, !.rs = rs, !.rt = rt, !.imm = imm]
JFormat(major, target) == [W0 EXCEPT !.major = major, !.target = target]
SYSCALL == RFormat(12, 0, 0, 0, 0)
Nop == W0
(* A program fills the code pages: its instructions, then its exit.          *)
Fill(instructions) ==
  instructions \o [k \in 1 .. (CodePages * PageSize) \div 4 - 2 - Len(instructions) |-> Nop]
               \o <<IFormat(13, 0, 2, syscall_Exit), SYSCALL>>

Data == [a \in DataAddress |-> (a * a + 1) % 2^ByteBits]
Program(instructions, a, b) ==
  [code |-> Fill(instructions), data |-> Data,
   regs |-> (1 :> a) @@ (2 :> b) @@ (3 :> 7) @@ (HiReg :> 9) @@ (LoReg :> 11)]
Alone(p) == (0 :> p) @@ (2 :> NoProgram)

Operands == {0, 1, 6, 127, 128, 255}
(* OR and the right shifts of negative words, which the code computes        *)
(* otherwise (mipssim.cc:377, 446-456), are left out.                        *)
RegisterPrograms ==
  {Program(<<RFormat(w[1], 1, 2, 3, w[2])>>, w[3], w[4]) :
     w \in {v \in (0 .. 63) \X {0, 3} \X Operands \X Operands :
              /\ v[2] = 3 => v[1] < 4
              /\ specialTable[v[1] + 1] # "OR"
              /\ specialTable[v[1] + 1] \in {"RES", "UNIMP"} => v[3] = 0 /\ v[4] = 0
              /\ v[1] \in {8, 9} => v[3] \in {0, 6, 128}
              /\ v[1] \in {2, 6} => v[4] < 128}}
ImmediatePrograms ==
  {Program(<<IFormat(w[1], 1, w[2], w[3])>>, w[4], w[5]) :
     w \in {v \in (1 .. 63) \X {0, 1, 2, 16, 17} \X {1, 3, 13} \X Operands \X Operands :
              /\ v[2] # 2 => v[1] = 1 /\ v[5] = 0
              /\ v[1] > 15 => v[3] = 1 /\ v[4] = 0 /\ v[5] = 0
              /\ v[1] \notin {2, 3} /\ v[1] < 32}}
MemoryPrograms ==
  {Program(<<IFormat(w[1], 1, 2, w[2])>>, 24, w[3]) :
     w \in (32 .. 46) \X (0 .. 7) \X {0, 201}}
JumpPrograms == {Program(<<JFormat(m, t)>>, 0, 0) : m \in {2, 3}, t \in {0, 1, 4, 9}}
(* ADDU, ADDIU and LW into register 0, after a load or not, and a use of it. *)
ZeroPrograms ==
  {Program(<<v, w, u, RFormat(33, 0, 2, 3, 0)>>, 24, 9) :
     v \in {Nop, IFormat(35, 1, 3, 4)}, u \in {Nop, RFormat(33, 0, 0, 2, 0)},
     w \in {RFormat(33, 1, 2, 0, 0), IFormat(9, 1, 0, 5), IFormat(35, 1, 0, 4)}}
Single == ZeroPrograms \cup RegisterPrograms \cup ImmediatePrograms \cup MemoryPrograms \cup JumpPrograms

(* The instruction after a load does not use the register that is loaded,    *)
(* except to merge another load into it, and no branch is in the delay slot  *)
(* of another or skips the exit's first instruction.                         *)
Op(w) == Decode(w).op
UsesRegister(w, r) == r \in {w.rs, w.rt} \/ (Op(w) \in AluOps /\ r = w.rd)
WellScheduled(code) ==
  /\ Op(code[3]) # "BEQ"
  /\ \A k \in 1 .. 2 :
                       ~({Op(code[k]), Op(code[k + 1])} \subseteq {"BEQ", "JAL"})
  /\ \A k \in 1 .. Len(code) - 1 :
     Op(code[k]) \in DOMAIN LoadSize =>
       LET transfer == k > 1 /\ Op(code[k - 1]) \in {"BEQ", "JAL"}
           next == IF transfer THEN DOMAIN code \ {k} ELSE {k + 1}
       IN  \A n \in next : \/ ~UsesRegister(code[n], code[k].rt)
                           \/ Op(code[n]) = "LWR" /\ code[n].rs # code[k].rt

Interacting == {
  IFormat(35, 1, 3, 0),      \* LW   r3,0(r1)
  IFormat(32, 1, 2, 5),      \* LB   r2,5(r1)
  IFormat(38, 1, 3, 4),      \* LWR  r3,4(r1)
  IFormat(43, 1, 2, 4),      \* SW   r2,4(r1)
  IFormat(41, 1, 3, 2),      \* SH   r3,2(r1)
  RFormat(33, 2, 3, 3, 0),   \* ADDU r3,r2,r3
  RFormat(24, 2, 3, 0, 0),   \* MULT r2,r3
  RFormat(16, 0, 0, 2, 0),   \* MFHI r2
  IFormat(4, 0, 0, 2),       \* BEQ  r0,r0,2
  IFormat(33, 1, 2, 6),      \* LH   r2,6(r1)
  IFormat(46, 1, 3, 0),      \* SWR  r3,0(r1)
  RFormat(26, 3, 2, 0, 0),   \* DIV  r3,r2
  RFormat(18, 0, 0, 3, 0),   \* MFLO r3
  JFormat(3, 3) }            \* JAL  3
Sequences ==
  {Program(<<w[1], w[2], w[3]>>, 24, 201) :
     w \in {v \in Interacting \X Interacting \X Interacting : WellScheduled(Fill(v))}}

Swapped == {
  Program(<<IFormat(35, 1, 3, 0), RFormat(24, 1, 2, 0, 0), RFormat(16, 0, 0, 2, 0)>>, 24, 201),
  Program(<<IFormat(4, 0, 0, 2), IFormat(43, 1, 2, 4), SYSCALL>>, 24, 99),
  Program(<<JFormat(3, 3), IFormat(32, 1, 4, 5), IFormat(35, 1, 2, 0)>>, 24, 5),
  Program(<<JFormat(2, 2), SYSCALL, IFormat(43, 1, 2, 0)>>, 24, 77),
  Program(<<IFormat(38, 1, 3, 4), IFormat(35, 1, 4, 0), RFormat(26, 3, 1, 0, 0)>>, 24, 5) }

UserThreads == {0, 2}
SmallWorkloads == {Alone(p) : p \in Single \cup Sequences} \cup [UserThreads -> Swapped]

-----------------------------------------------------------------------------
(* Two threads that print.  With two characters on a page, any read of the   *)
(* string, that of its null character too, may find its page missing while   *)
(* the other thread prints.                                                  *)
Two == {1, 2}
PrintCall(kind, arg) == [kind |-> kind, arg |-> arg]
TwoScripts == <<
  <<PrintCall("PrintInt", -903), PrintCall("PrintString", <<72, 105>>)>>,
  <<PrintCall("PrintIntHex", 42), PrintCall("PrintChar", 10)>> >>
Keys == {<<>>, <<97, 98>>}
=============================================================================
