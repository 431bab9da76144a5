-------------------------------- MODULE Emit --------------------------------
(***************************************************************************)
(* What oxide_emit makes of a function: its registers are virtual and each *)
(* temporary gets a new one, its labels are placed as it goes.  The        *)
(* statements are assignments, calls, if, while with break, return, throw  *)
(* and try/catch/finally; expressions are literals, variables, sums and    *)
(* calls.                                                                  *)
(*                                                                         *)
(* The context ctx holds the instructions so far, the label positions, the *)
(* pool, the next virtual register (next), the register of the last value  *)
(* (r, 0 for none), the number of catch handlers a return pops (open) and  *)
(* the exit label and result register of the innermost loop.               *)
(***************************************************************************)
EXTENDS Ir

inst(c, i) == [c EXCEPT !.insts = Append(@, i)]

alloc_reg(c) == [c EXCEPT !.next = @ + 1, !.r = c.next]

\* Labels are numbered in order of allocation; n of them at once.
next_label_ids(c, n) == [c EXCEPT !.labels = @ \o [k \in 1 .. n |-> 0]]

set_label_pos(c, l) == [c EXCEPT !.labels[l] = Len(c.insts) + 1]

load_const(c, rd, v) ==
    inst([c EXCEPT !.consts = PoolWith(@, v)],
         Inst("LOAD_CONST", rd, 0, 0, PoolIndex(c.consts, v)))

\* A fresh register loaded with a constant.
emit_constant(c, v) == LET d == alloc_reg(c) IN load_const(d, d.r, v)

\* A fresh register with an instruction that defines it.
emit_def(c, op, a, b) == LET d == alloc_reg(c) IN inst(d, Inst(op, d.r, a, b, 0))

\* The last value, copied to register rd.
LoadInto(c, rd) == inst(c, Inst("LOAD_VAR", rd, c.r, 0, 0))

Jump(c, l)        == inst(c, Inst("JMP", 0, 0, 0, l))
JumpIfFalse(c, l) == inst(c, Inst("JMP_IF_FALSE", c.r, 0, 0, l))

RECURSIVE emit_expression(_, _), emit_args(_, _), emit_statement(_, _), emit_block(_, _)

\* The right operand after the left one, whose register the sum overwrites.
AddTo(c, left)  == [inst(c, Inst("ADD", left, left, c.r, 0)) EXCEPT !.r = left]
AddRight(c, e)  == AddTo(emit_expression(c, e), c.r)

emit_binary_expression(c, e) ==
    IF e.l.k = "lit" /\ e.r.k = "lit"
    THEN emit_constant(c, Plus(e.l.v, e.r.v))
    ELSE AddRight(emit_expression(c, e.l), e.r)

\* The arguments in order: the registers go to the field args.
Collect(c, args) == [c EXCEPT !.args = Append(args, c.r)]

emit_args(c, args) ==
    IF args = <<>> THEN c
    ELSE emit_args(Collect(emit_expression(c, Head(args)), c.args), Tail(args))

\* Arguments that are not adjacent are moved to a fresh adjacent block.
pack_arg_regs(c) ==
    LET n == Len(c.args) IN
    IF \A k \in 1 .. n - 1 : c.args[k + 1] = c.args[k] + 1
    THEN [c EXCEPT !.r = IF n = 0 THEN 0 ELSE c.args[1]]
    ELSE [c EXCEPT !.r = c.next,
                   !.next = @ + n,
                   !.insts = @ \o [k \in 1 .. n |->
                                      Inst("MOV", c.next + k - 1, c.args[k], 0, 0)]]

\* The callee and then "this" get the next two registers.
CallPacked(c, callee, n) == inst(c, CallInst(callee, callee + 1, c.r, n))

emit_call_expression(c, e) ==
    LET loaded == emit_constant(emit_def(c, "LOAD_GLOBAL", 0, 0), Undefined)
        packed == pack_arg_regs(emit_args([loaded EXCEPT !.args = <<>>], e.args))
        called == CallPacked(packed, c.next, Len(e.args))
    IN  [emit_def(called, "LOAD_VAR", 0, 0) EXCEPT !.args = c.args]

emit_expression(c, e) ==
    CASE e.k = "lit"  -> emit_constant(c, e.v)
      [] e.k = "var"  -> emit_def(c, "LOAD_VAR", e.v, 0)
      [] e.k = "add"  -> emit_binary_expression(c, e)
      [] e.k = "call" -> emit_call_expression(c, e)

\* The last value of a statement list is that of its last non-empty statement.
emit_rest(c, r, ss) ==
    IF c.r = 0 THEN emit_block([c EXCEPT !.r = r], ss) ELSE emit_block(c, ss)

emit_block(c, ss) ==
    IF ss = <<>> THEN c ELSE emit_rest(emit_statement(c, Head(ss)), c.r, Tail(ss))

emit_list(c, ss) == emit_rest([c EXCEPT !.r = 0], 0, ss)

Store(c, v) == inst(c, Inst("STORE_VAR", v, c.r, 0, 0))
emit_assignment(c, s) == Store(emit_expression(c, s.e), s.v)

\* A fresh register for the value of a branch, undefined if it has none.
BranchResult(c) ==
    LET d == alloc_reg(c)
    IN  IF c.r # 0 THEN inst(d, Inst("LOAD_VAR", d.r, c.r, 0, 0)) ELSE load_const(d, d.r, Undefined)

NoBranchResult(c) == load_const(c, c.r, Undefined)

emit_if_statement(c, s) ==
    LET else == Len(c.labels) + 1
        end  == else + 1
        test == emit_expression(next_label_ids(c, 2), s.e)
        then == BranchResult(emit_list(JumpIfFalse(test, else), s.body))
        alt  == NoBranchResult(set_label_pos(Jump(then, end), else))
    IN  set_label_pos(alt, end)

\* The value of a loop's body goes to the result register of the loop.
emit_completion_carry(c, vreg) == IF c.r # 0 THEN LoadInto(c, vreg) ELSE c

emit_while_statement(c, s) ==
    LET start == Len(c.labels) + 1
        end   == start + 1
        vreg  == c.next
        loop  == set_label_pos(emit_constant(next_label_ids(c, 2), Undefined), start)
        test  == emit_expression([loop EXCEPT !.brk = end, !.vreg = vreg], s.e)
        body  == emit_list(JumpIfFalse(test, end), s.body)
        exit  == set_label_pos(Jump(emit_completion_carry(body, vreg), start), end)
    IN  [exit EXCEPT !.r = vreg, !.brk = c.brk, !.vreg = c.vreg]

\* A break directly in the body of its loop carries the list's value out.
emit_break_statement(c) ==
    [Jump(emit_completion_carry(c, c.vreg), c.brk) EXCEPT !.r = 0]

\* One TRY_END for each catch handler open above the innermost finally.
CloseHandlers(c) == [c EXCEPT !.insts = @ \o [k \in 1 .. c.open |-> Inst("TRY_END", 0, 0, 0, 0)]]

\* Leave with the last value; the statement itself has none.
LeaveWith(c, op) == [inst(c, Inst(op, c.r, 0, 0, 0)) EXCEPT !.r = 0]

emit_return_statement(c, s) == LeaveWith(CloseHandlers(emit_expression(c, s.e)), "RETURN")

emit_throw_statement(c, s) == LeaveWith(emit_expression(c, s.e), "THROW")

\* The exception, which unwinding leaves in register 0, goes to a fresh register
\* and from there to the catch parameter.
BindException(c) ==
    LET src == alloc_reg(c)
    IN  emit_def(inst(src, Inst("STORE_VAR", src.r, 0, 0, NoOperand)), "STORE_VAR", src.r, 0)

\* The value of a clause goes to the result register of the statement.
KeepResult(c, result) ==
    inst(c, Inst("LOAD_VAR", result, IF c.r = 0 THEN result ELSE c.r, 0, 0))

CatchClause(c, ss, result) ==
    IF ss = <<>> THEN c ELSE KeepResult(emit_list(BindException(c), ss), result)

FinallyClause(c, ss, l) ==
    IF ss = <<>> THEN c
    ELSE inst(emit_list(inst(set_label_pos(c, l), Inst("TRY_FINALLY_ENTER", 0, 0, 0, 0)), ss),
              Inst("TRY_FINALLY_END", 0, 0, 0, 0))

\* s.catch and s.final are sequences of statements, <<>> when the clause is absent.
emit_try_statement(c, s) ==
    LET catch   == Len(c.labels) + 1
        finally == catch + 1
        end     == catch + 2
        hasC    == s.catch # <<>>
        hasF    == s.final # <<>>
        result  == c.next
        When(b, d, i) == IF b THEN inst(d, i) ELSE d
        opened  == When(hasF, alloc_reg(next_label_ids(c, 3)),
                        Inst("TRY_FINALLY_BEGIN", 0, 0, 0, finally))
        begin   == When(hasC, opened, Inst("TRY_BEGIN", 0, 0, 0, catch))
        catches == IF ~hasC THEN 0 ELSE IF hasF THEN 1 ELSE c.open + 1
        body    == KeepResult(emit_list([begin EXCEPT !.open = catches], s.body), result)
        closed  == When(hasC, body, Inst("TRY_END", 0, 0, 0, 0))
        entry   == set_label_pos(Jump(closed, IF hasF THEN finally ELSE end), catch)
        caught  == CatchClause([entry EXCEPT !.open = IF hasF THEN 0 ELSE c.open], s.catch, result)
        cleaned == FinallyClause(caught, s.final, finally)
    IN  [set_label_pos(cleaned, end) EXCEPT !.r = result, !.open = c.open]

emit_statement(c, s) ==
    CASE s.k = "expr"   -> emit_expression(c, s.e)
      [] s.k = "set"    -> emit_assignment(c, s)
      [] s.k = "if"     -> emit_if_statement(c, s)
      [] s.k = "while"  -> emit_while_statement(c, s)
      [] s.k = "break"  -> emit_break_statement(c)
      [] s.k = "return" -> emit_return_statement(c, s)
      [] s.k = "throw"  -> emit_throw_statement(c, s)
      [] s.k = "try"    -> emit_try_statement(c, s)

\* A function whose parameters and locals are the registers 1 .. vars.
NewCtx(vars) == [insts |-> <<>>, labels |-> <<>>, consts |-> <<>>, args |-> <<>>,
                 next |-> vars + 1, r |-> 0, open |-> 0, brk |-> 0, vreg |-> 0]

\* The epilogue: a script halts with its last value in register 0, a function
\* that runs off its end returns undefined.
emit_epilogue(c, top) ==
    IF top
    THEN inst(IF c.r # 0 THEN LoadInto(c, 0) ELSE load_const(c, 0, Undefined),
              Inst("HALT", 0, 0, 0, 0))
    ELSE LeaveWith(emit_constant(c, Undefined), "RETURN")

assemble_ir(c, program) ==
    [insts  |-> c.insts,  labels |-> c.labels, consts |-> c.consts,
     top    |-> program.top, params |-> program.params, nregs |-> c.next]

emit_function(program) ==
    assemble_ir(emit_epilogue(emit_list(NewCtx(program.vars), program.body), program.top), program)
=============================================================================
