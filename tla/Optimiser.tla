------------------------------ MODULE Optimiser -----------------------------
(***************************************************************************)
(* The pipeline of compile_ir, one action per pass, and the check of its   *)
(* result: the emitted function and the one a pass left are run side by    *)
(* side against the same callees, which return or throw as they like.      *)
(*                                                                         *)
(* source  the function as emitted, never touched                          *)
(* ir      the function as the passes so far left it                       *)
(* stage   the last pass that ran                                          *)
(* file    the highest register the allocator may use, 0 before it runs    *)
(* regs    the spills, graph and colours of the allocator at work          *)
(* frames  the two frames of an execution, source first; empty before it   *)
(* calls   the number of calls that have come back                         *)
(***************************************************************************)
EXTENDS Dce, Fold, RegAlloc, Bytecode, Emit

CONSTANTS Programs,        \* the source programs, as [body, top, params, vars]
          RegisterFiles,   \* the sizes tried for the register file
          Arguments,       \* what the parameter may be
          Results,         \* what a callee may return
          Thrown,          \* what a callee may throw
          MaxCalls         \* bound on the calls of one execution

VARIABLES source, ir, stage, file, regs, frames, calls

vars == <<source, ir, stage, file, regs, frames, calls>>

Init ==
    /\ source \in {emit_function(p) : p \in Programs}
    /\ ir = source
    /\ stage = "emitted"
    /\ file = 0
    /\ regs = NoColors
    /\ frames = <<>>
    /\ calls = 0

\* One pass over the function, before it is run.
Pass(from, to, f) ==
    /\ frames = <<>>
    /\ stage = from
    /\ stage' = to
    /\ ir' = f
    /\ UNCHANGED <<source, frames, calls>>

FoldConstants == Pass("emitted", "folded", fold_function(ir)) /\ UNCHANGED <<file, regs>>

\* The compiler sweeps the top level and skips the functions nested in it.
RemoveDead    == ir.top /\ Pass("folded", "swept", dce(ir)) /\ UNCHANGED <<file, regs>>
RemovePrecise == Pass("swept", "precise", dce_precise(ir)) /\ UNCHANGED <<file, regs>>
SkipSweeps    == ~ir.top /\ Pass("folded", "precise", ir) /\ UNCHANGED <<file, regs>>

\* The rounds of the allocator: build the graph, colour it; spill what fails
\* and go round again, or give up when a register made by spilling fails.
BuildGraph ==
    /\ \/ Pass("precise", "built", ir) /\ file' \in RegisterFiles
       \/ Pass("spilled", "built", ir) /\ UNCHANGED file
    /\ regs' = Interfere(ir, regs)

SelectColors ==
    LET tried == kemp_and_select(ir, regs.adj, allocatable(ir, file))
        again == Range(tried.failed) \cap FreshIds(regs) # {}
    IN  /\ UNCHANGED file
        /\ \/ /\ tried.failed = <<>>
              /\ Pass("built", "colored", ir)
              /\ regs' = [regs EXCEPT !.colors = tried.colors]
           \/ /\ tried.failed # <<>> /\ ~again
              /\ Pass("built", "spilled", ir)
              /\ regs' = Spill(ir, regs, tried.failed)
           \/ /\ again
              /\ Pass("built", "rejected", ir)
              /\ UNCHANGED regs

Rewrite ==
    /\ Pass("colored", "allocated", alloc(ir, regs, file))
    /\ regs' = NoColors
    /\ UNCHANGED file

EncodeWindows ==
    Pass("allocated", "windowed", encode_call_window(ir)) /\ UNCHANGED <<file, regs>>

\* What a pass made must still lower to bytecode; only then is it run.
Start ==
    /\ frames = <<>>
    /\ stage \in {"precise", "windowed"}
    /\ Lowerable(ir, IF stage = "windowed" THEN file ELSE ir.nregs)
    /\ \E arg \in Arguments :
          frames' = <<run(source, NewFrame(source, arg)), run(ir, NewFrame(ir, arg))>>
    /\ UNCHANGED <<source, ir, stage, file, regs, calls>>

Calling == frames # <<>> /\ frames[1].st = "call" /\ frames[2].st = "call"

CallReturns ==
    /\ Calling
    /\ calls < MaxCalls
    /\ \E v \in Results :
          frames' = <<AfterReturn(source, frames[1], v), AfterReturn(ir, frames[2], v)>>
    /\ calls' = calls + 1
    /\ UNCHANGED <<source, ir, stage, file, regs>>

CallThrows ==
    /\ Calling
    /\ calls < MaxCalls
    /\ \E v \in Thrown :
          frames' = <<AfterThrow(source, frames[1], v), AfterThrow(ir, frames[2], v)>>
    /\ calls' = calls + 1
    /\ UNCHANGED <<source, ir, stage, file, regs>>

Next ==
    \/ FoldConstants \/ RemoveDead \/ RemovePrecise \/ SkipSweeps
    \/ BuildGraph \/ SelectColors \/ Rewrite \/ EncodeWindows
    \/ Start \/ CallReturns \/ CallThrows

Spec == Init /\ [][Next]_vars
-----------------------------------------------------------------------------
\* The two functions do the same as far as anyone outside can tell.
Agree == Observed(source, frames[1]) = Observed(ir, frames[2])

(***************************************************************************)
(* Every pass keeps the meaning of the function: up to the precise sweep   *)
(* in all executions, and after register allocation, spilling, argument    *)
(* moves and call windows in all executions that enter no handler out of   *)
(* line; and what the passes leave always lowers to bytecode.  A wrong     *)
(* liveness, a missing interference edge, a colour shared by two values, a *)
(* lost label or a window one register short each show up as a call with   *)
(* another argument, another result or another branch taken.               *)
(***************************************************************************)
SameBehaviour ==
    /\ frames # <<>> /\ ~(frames[1].handled /\ stage = "windowed") => Agree
    /\ stage # "rejected" =>
          Lowerable(ir, IF stage \in {"allocated", "windowed"} THEN file ELSE ir.nregs)

(***************************************************************************)
(* The same without the exception for handlers: what a catch block reads   *)
(* is what the try body last wrote.                                        *)
(***************************************************************************)
SameBehaviourCaught == frames # <<>> => Agree

-----------------------------------------------------------------------------
\* Reference for liveness, instruction by instruction: r is wanted at p when p
\* reads it, or does not write it and something p may go to wants it.  An
\* exception target has register 0 written on the way in.
RECURSIVE Wanted(_, _, _, _)
Wanted(steps, writes, W, new) ==
    LET more == ({s[1] : s \in {t \in steps : t[2] \in new}} \ writes) \ W
    IN  IF more = {} THEN W ELSE Wanted(steps, writes, W \cup more, more)

LiveByPaths(f) ==
    LET cfg   == build_cfg(f)
        ends  == {<<cfg.end[h], h>> : h \in cfg.heads}
        exc   == exception_target_blocks(cfg)
        steps == {<<p, p + 1>> : p \in Positions(f) \ {e[1] : e \in ends}}
                   \cup UNION {{<<e[1], s>> : s \in cfg.succ[e[2]] \ {Exit}} : e \in ends}
        Steps(r) == IF r = 0 THEN {s \in steps : s[2] \notin exc} ELSE steps
        Reads(r) == use_points(f, r)
        Wants(r) == Wanted(Steps(r), def_points(f, r), Reads(r), Reads(r))
        after == UNION {{<<s[1], r>> : s \in {t \in Steps(r) : t[2] \in Wants(r)}} :
                            r \in UsedRegs(f)}
    IN  [p \in Positions(f) |-> {r \in UsedRegs(f) : <<p, r>> \in after}]

\* Reference for the worklist: delete all that is dead, and look again.
RECURSIVE FullScans(_, _)
FullScans(f, keep) ==
    LET dead == {p \in keep : Dead(f, keep, p)}
    IN  IF dead = {} THEN keep ELSE FullScans(f, keep \ dead)

(***************************************************************************)
(* The two iterative analyses compute what they are documented to compute, *)
(* on every function the pipeline hands them: liveness is exactly the set  *)
(* of registers some path of the graph reads before writing, loops and     *)
(* handlers included, and the worklist that never takes an instruction     *)
(* twice deletes exactly what repeated full scans delete.                  *)
(***************************************************************************)
AnalysesExact ==
    /\ frames = <<>> /\ stage \in {"precise", "allocated"} =>
          liveness(ir).after = LiveByPaths(ir)
    /\ stage = "folded" =>
          LET keep == pass_a_reachable(ir, build_cfg(ir))
          IN  pass_b_dead_code(ir, keep) = FullScans(ir, keep)
=============================================================================
