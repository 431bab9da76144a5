--------------------------------- MODULE Ir ---------------------------------
(***************************************************************************)
(* The intermediate representation every pass of the optimiser reads and   *)
(* rewrites: an instruction with three register slots, and a function made *)
(* of instructions, label positions and a constant pool.                   *)
(*                                                                         *)
(* Positions count from 1.  Register 0 is what an empty slot stands for,   *)
(* and label position 0 a label that was never placed.  An operand that is *)
(* no register - a label, a constant index, a spill slot, the register     *)
(* window of a call - is the field imm.  The opcodes are those the         *)
(* statements of module Emit need; the rows of the table are kept as they  *)
(* are in the source.                                                      *)
(***************************************************************************)
EXTENDS Integers, Sequences, FiniteSetsExt, SequencesExt

\* A finite set of positive integers in ascending order.
Ascending(S) == SelectSeq([k \in 1 .. Max(S \cup {0}) |-> k], LAMBDA k : k \in S)

Undefined == -1
NaN       == -2
Junk      == -3     \* what a callee left in a register, or nobody wrote yet
Callable  == -4     \* the value of the global function every call calls

\* STORE_VAR without its third operand, which is 0 everywhere else: storing to a
\* constant is not modelled.
NoOperand == 1

Inst(op, rd, a, b, imm) ==
    [op |-> op, rd |-> rd, a |-> a, b |-> b, imm |-> imm, nargs |-> 0]

CallInst(callee, this, first, n) ==
    [Inst("CALL", callee, this, first, 0) EXCEPT !.nargs = n]

ArgRegs(i) == i.b .. (i.b + i.nargs - 1)

\* The registers an instruction writes (none or one): the "def" column.
DefRegs(i) ==
    CASE i.op \in {"ADD", "MOV", "LOAD_VAR", "STORE_VAR", "LOAD_CONST",
                   "LOAD_GLOBAL", "UNSPILL"} -> {i.rd}
      [] i.op = "CALL"                       -> {0}
      [] OTHER                               -> {}

\* The registers an instruction reads: the "uses" column.
UseRegs(i) ==
    CASE i.op = "ADD"                                          -> {i.a, i.b}
      [] i.op \in {"MOV", "LOAD_VAR", "STORE_VAR"}             -> {i.a}
      [] i.op \in {"SPILL", "JMP_IF_FALSE", "THROW", "RETURN"} -> {i.rd}
      [] i.op = "CALL"                     -> {i.rd, i.a} \cup ArgRegs(i)
      [] i.op = "HALT"                                         -> {0}
      [] OTHER                                                 -> {}

\* Deletable when nobody reads the result: the "pure" column.
IsPure(i) == i.op \in {"MOV", "LOAD_VAR", "LOAD_CONST"}

IsTerminator(i) == i.op \in {"JMP", "JMP_IF_FALSE", "RETURN", "HALT", "THROW"}

IsJump(i) == i.op \in {"JMP", "JMP_IF_FALSE"}

\* The instructions that name a label.
NamesLabel(i) == IsJump(i) \/ i.op \in {"TRY_BEGIN", "TRY_FINALLY_BEGIN"}

Positions(f)      == 1 .. Len(f.insts)
Pos(f, l)         == f.labels[l]
LabelTargets(f)   == {f.labels[l] : l \in DOMAIN f.labels} \cap Positions(f)

UsedRegs(f) == UNION {DefRegs(f.insts[p]) \cup UseRegs(f.insts[p]) : p \in Positions(f)}

\* What lowering demands: each named label has a place, each register a byte.
Lowerable(f, topReg) ==
    /\ \A p \in Positions(f) :
          NamesLabel(f.insts[p]) => Pos(f, f.insts[p].imm) \in Positions(f)
    /\ UsedRegs(f) \subseteq 0 .. topReg

\* The pool index of a constant, which is added when it is new.
PoolIndex(consts, v) ==
    IF Contains(consts, v) THEN CHOOSE k \in DOMAIN consts : consts[k] = v
                           ELSE Len(consts) + 1
PoolWith(consts, v) == IF Contains(consts, v) THEN consts ELSE Append(consts, v)

\* ADD on the values of this model: numbers add, undefined makes NaN.
Plus(v, w) == IF v >= 0 /\ w >= 0 THEN v + w ELSE NaN

Truthy(v) == v > 0 \/ v = Callable
=============================================================================
