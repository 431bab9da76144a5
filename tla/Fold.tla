-------------------------------- MODULE Fold --------------------------------
(***************************************************************************)
(* Constant folding (oxide_fold): one pass forwards with a table of the    *)
(* registers whose value is known, emptied at every label.  acc.known maps *)
(* the known registers to their values.                                    *)
(***************************************************************************)
EXTENDS Ir

CONSTANT MaxPool     \* the size of a constant pool: 65535 in the code

Known(acc, r)     == r \in DOMAIN acc.known
Learn(known, r, v) == [q \in DOMAIN known \cup {r} |-> IF q = r THEN v ELSE known[q]]
Forget(known, rs) == [q \in DOMAIN known \ rs |-> known[q]]

\* A constant of the pool, or a new one while there is room.
CanIntern(consts, v) == Contains(consts, v) \/ Len(consts) < MaxPool

\* ADD folds when both operands are known numbers.
fold_binary(acc, i) ==
    /\ i.op = "ADD"
    /\ Known(acc, i.a) /\ Known(acc, i.b)
    /\ acc.known[i.a] >= 0 /\ acc.known[i.b] >= 0

\* One instruction: the function so far, with the next instruction added.
FoldInst(acc, i, isLabel) ==
    LET k   == IF isLabel THEN [q \in {} |-> 0] ELSE acc.known
        at  == [acc EXCEPT !.known = k]
        Out(j, known, consts) == [insts |-> Append(acc.insts, j), known |-> known, consts |-> consts]
        sum == Plus(k[i.a], k[i.b])
    IN  CASE i.op = "LOAD_CONST" ->
               Out(i, Learn(k, i.rd, acc.consts[i.imm]), acc.consts)
          [] i.op = "MOV" /\ Known(at, i.a) ->
               Out(i, Learn(k, i.rd, k[i.a]), acc.consts)
          [] fold_binary(at, i) /\ CanIntern(acc.consts, sum) ->
               Out(Inst("LOAD_CONST", i.rd, 0, 0, PoolIndex(acc.consts, sum)),
                   Learn(k, i.rd, sum), PoolWith(acc.consts, sum))
          [] OTHER ->
               Out(i, Forget(k, DefRegs(i)), acc.consts)

RECURSIVE FoldFrom(_, _)
FoldFrom(f, acc) ==
    LET p == Len(acc.insts) + 1
    IN  IF p \notin Positions(f) THEN acc
        ELSE FoldFrom(f, FoldInst(acc, f.insts[p], p \in LabelTargets(f)))

fold_function(f) ==
    LET folded == FoldFrom(f, [insts |-> <<>>, known |-> [q \in {} |-> 0], consts |-> f.consts])
    IN  [f EXCEPT !.insts = folded.insts, !.consts = folded.consts]
=============================================================================
