------------------------------ MODULE Bytecode ------------------------------
(***************************************************************************)
(* How the interpreter runs one frame of a function: registers, spill      *)
(* slots, the handlers opened by try statements, and the exception or      *)
(* return a finally block holds back.  A run stops at each event the       *)
(* outside can observe: a call, a return, a halt, an uncaught exception.   *)
(***************************************************************************)
EXTENDS Ir

\* A frame as the caller left it: the parameter in register 1, the rest stale.
NewFrame(f, arg) ==
    [pc      |-> 1,
     regs    |-> [r \in 0 .. Max(UsedRegs(f) \cup {f.params, f.nregs}) |->
                     IF r \in 1 .. f.params THEN arg ELSE Junk],
     slots   |-> [s \in {i.imm : i \in {f.insts[p] : p \in {q \in Positions(f) :
                     f.insts[q].op \in {"SPILL", "UNSPILL"}}}} |-> Undefined],
     try     |-> <<>>,      \* [pc, final, active], innermost last
     exc     |-> <<>>,      \* the exception a finally block holds back
     ret     |-> <<>>,      \* the return value a finally block holds back
     handled |-> FALSE,     \* a handler has been entered out of line
     st      |-> "run",
     out     |-> 0]

Stop(m, st, v) == [m EXCEPT !.st = st, !.out = v]

\* The innermost handler that takes an exception: a finally block that is
\* already running gives way, and what it held back is dropped.
RECURSIVE unwind(_, _)
unwind(m, v) ==
    IF m.try = <<>> THEN Stop(m, "uncaught", v)
    ELSE LET h == Last(m.try)
             n == Len(m.try)
         IN  CASE h.final /\ h.active ->
                    unwind([m EXCEPT !.try = Front(@), !.exc = <<>>, !.ret = <<>>], v)
               [] h.final /\ ~h.active ->
                    [m EXCEPT !.try[n].active = TRUE, !.exc = <<v>>, !.pc = h.pc, !.handled = TRUE]
               [] OTHER ->
                    [m EXCEPT !.try = Front(@), !.regs[0] = v, !.pc = h.pc, !.handled = TRUE]

\* A return runs the finally blocks it leaves, innermost first.
RECURSIVE CrossFinally(_, _)
CrossFinally(m, v) ==
    IF m.try = <<>> THEN Stop(m, "return", v)
    ELSE LET h == Last(m.try)
             n == Len(m.try)
         IN  IF h.final /\ ~h.active
             THEN [m EXCEPT !.try[n].active = TRUE, !.ret = <<v>>, !.pc = h.pc, !.handled = TRUE]
             ELSE CrossFinally([m EXCEPT !.try = Front(@)], v)

dispatch_return(m, v) == CrossFinally([m EXCEPT !.exc = <<>>, !.ret = <<>>], v)

dispatch_try_finally_end(m) ==
    LET d == [m EXCEPT !.try = Front(@), !.exc = <<>>]
    IN  CASE m.exc # <<>> -> unwind(d, m.exc[1])
          [] m.exc = <<>> /\ m.ret # <<>> -> CrossFinally([d EXCEPT !.ret = <<>>], m.ret[1])
          [] OTHER -> d

\* One instruction that is not a call.
dispatch(f, m) ==
    LET i == f.insts[m.pc]
        n == [m EXCEPT !.pc = @ + 1]
        Set(v) == [n EXCEPT !.regs[i.rd] = v]
        Push(final) == [n EXCEPT !.try = Append(@, [pc |-> Pos(f, i.imm), final |-> final, active |-> FALSE])]
    IN  CASE i.op = "ADD"         -> Set(Plus(m.regs[i.a], m.regs[i.b]))
          [] i.op \in {"MOV", "LOAD_VAR", "STORE_VAR"} -> Set(m.regs[i.a])
          [] i.op = "LOAD_CONST"  -> Set(f.consts[i.imm])
          [] i.op = "LOAD_GLOBAL" -> Set(Callable)
          [] i.op = "SPILL"       -> [n EXCEPT !.slots[i.imm] = m.regs[i.rd]]
          [] i.op = "UNSPILL"     -> Set(m.slots[i.imm])
          [] i.op = "JMP"         -> [m EXCEPT !.pc = Pos(f, i.imm)]
          [] i.op = "JMP_IF_FALSE" ->
                IF Truthy(m.regs[i.rd]) THEN n ELSE [m EXCEPT !.pc = Pos(f, i.imm)]
          [] i.op = "THROW"       -> unwind(n, m.regs[i.rd])
          [] i.op = "RETURN"      -> dispatch_return(n, m.regs[i.rd])
          [] i.op = "HALT"        -> Stop(m, "halt", m.regs[0])
          [] i.op = "TRY_BEGIN"   -> Push(FALSE)
          [] i.op = "TRY_END"     -> [n EXCEPT !.try = Front(@)]
          [] i.op = "TRY_FINALLY_BEGIN" -> Push(TRUE)
          [] i.op = "TRY_FINALLY_ENTER" -> [n EXCEPT !.try[Len(m.try)].active = TRUE]
          [] i.op = "TRY_FINALLY_END"   -> dispatch_try_finally_end(n)

RECURSIVE run(_, _)
run(f, m) ==
    CASE m.st # "run"               -> m
      [] f.insts[m.pc].op = "CALL"  -> [m EXCEPT !.st = "call"]
      [] OTHER                      -> run(f, dispatch(f, m))

\* The registers a call saves, 0 .. limit - 1: the window it records, or all
\* of the frame's.
call_window_limit(f, m) ==
    LET upper == f.insts[m.pc].imm IN Max({1, IF upper = 0 THEN f.nregs ELSE Min({upper, f.nregs})})

\* Back from a callee, which used whatever it did not find saved.
Restored(f, m) ==
    [m EXCEPT !.st = "run", !.pc = @ + 1,
              !.regs = [r \in DOMAIN @ |-> IF r < call_window_limit(f, m) THEN @[r] ELSE Junk]]

AfterReturn(f, m, v) == run(f, [Restored(f, m) EXCEPT !.regs[0] = v])
AfterThrow(f, m, v)  == run(f, unwind(Restored(f, m), v))

\* What the outside sees of a stopped run.
Observed(f, m) ==
    LET i == f.insts[m.pc]
    IN  IF m.st = "call"
        THEN <<"call", m.regs[i.rd], m.regs[i.a], [k \in 1 .. i.nargs |-> m.regs[i.b + k - 1]]>>
        ELSE <<m.st, m.out>>
=============================================================================
