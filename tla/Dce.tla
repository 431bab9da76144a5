--------------------------------- MODULE Dce --------------------------------
(***************************************************************************)
(* Dead-code elimination (oxide_dce): unreachable blocks, then a worklist  *)
(* over use counts, then, with the liveness of the result, one precise     *)
(* pass.  keep is the set of positions that stay.  No function of this     *)
(* model captures a variable of another, so no slot escapes.               *)
(***************************************************************************)
EXTENDS Dataflow

RECURSIVE ReachFrom(_, _, _)
ReachFrom(cfg, seen, stack) ==
    IF stack = {} THEN seen
    ELSE ReachFrom(cfg, seen \cup stack,
                   UNION {cfg.succ[h] : h \in stack} \ (seen \cup stack \cup {Exit}))

pass_a_reachable(f, cfg) ==
    LET reachable == ReachFrom(cfg, {}, {1})
    IN  {p \in Positions(f) : block_id_of(cfg.heads, p) \in reachable}

\* How many kept instructions read r.
use_count(f, keep, r) == Cardinality({p \in keep : r \in UseRegs(f.insts[p])})

\* May this kept instruction go?
Dead(f, keep, p) ==
    /\ p \notin LabelTargets(f)
    /\ IsPure(f.insts[p])
    /\ \A r \in DefRegs(f.insts[p]) : use_count(f, keep, r) = 0

\* The queue is first in first out and nobody enters it twice; the test is
\* made again when an instruction leaves it.  Deleting one may free those
\* that define a register it read, and those that define the same register.
RECURSIVE Drain(_, _, _, _)
Drain(f, keep, queue, seen) ==
    IF queue = <<>> THEN keep
    ELSE LET p     == Head(queue)
             rest  == keep \ {p}
             freed == {r \in UseRegs(f.insts[p]) : use_count(f, rest, r) = 0}
                        \cup DefRegs(f.insts[p])
             more  == {q \in rest \ seen : DefRegs(f.insts[q]) \cap freed # {}}
         IN  IF Dead(f, keep, p)
             THEN Drain(f, rest, Tail(queue) \o Ascending(more), seen \cup more)
             ELSE Drain(f, keep, Tail(queue), seen)

pass_b_dead_code(f, keep) ==
    LET first == {p \in keep : Dead(f, keep, p)}
    IN  Drain(f, keep, Ascending(first), first)

\* The kept instructions close ranks; a label whose instruction is gone is lost.
pass_c_sweep(f, keep) ==
    LET New(p) == IF p \in keep THEN Cardinality({q \in keep : q <= p}) ELSE 0
        kept   == Ascending(keep)
    IN  [f EXCEPT !.insts  = [k \in DOMAIN kept |-> f.insts[kept[k]]],
                  !.labels = [l \in DOMAIN f.labels |-> New(f.labels[l])]]

dce(f) == pass_c_sweep(f, pass_b_dead_code(f, pass_a_reachable(f, build_cfg(f))))

\* The precise pass: an instruction whose result is not live after it, if it
\* is pure or stores a local variable below the top level.
DeadStore(f, p) == ~f.top /\ f.insts[p].op = "STORE_VAR" /\ f.insts[p].imm = 0

pass_dead_with_liveness(f, live) ==
    {p \in Positions(f) :
        \/ p \in LabelTargets(f)
        \/ ~IsPure(f.insts[p]) /\ ~DeadStore(f, p)
        \/ DefRegs(f.insts[p]) \cap live.after[p] # {}}

dce_precise(f) == pass_c_sweep(f, pass_dead_with_liveness(f, liveness(f)))
=============================================================================
