------------------------------ MODULE RegAlloc ------------------------------
(***************************************************************************)
(* Register allocation (oxide_regalloc): virtual registers become physical *)
(* ones by colouring the interference graph, those that do not fit are     *)
(* spilled around each definition and use, and every call then records how *)
(* many registers its frame must save.                                     *)
(*                                                                         *)
(* file is the highest allocatable register, 253 in the code.  Parameters  *)
(* are the registers 1 .. f.params and keep their numbers.  A fresh        *)
(* register [id, at, def, owner] replaces a spilled one at one instruction.*)
(* The rounds of the colouring loop (run) are actions of module Optimiser.  *)
(***************************************************************************)
EXTENDS Dataflow

Calls(f) == {p \in Positions(f) : f.insts[p].op = "CALL"}

\* The registers kept free at the top for arguments that must be adjacent.
arg_window_base(f, file) ==
    file + 1 - Max({0} \cup {f.insts[p].nargs : p \in Calls(f)})

collect_real_vregs(f) ==
    (UNION {{f.insts[p].rd, f.insts[p].a, f.insts[p].b} : p \in Positions(f)}
       \cup UNION {ArgRegs(f.insts[p]) : p \in Calls(f)}
       \cup 1 .. f.params) \ {0}

allocatable(f, file) == (f.params + 1) .. (arg_window_base(f, file) - 1)

Nodes(f, spilled, fresh) ==
    (collect_real_vregs(f) \ Range(spilled)) \cup {w.id : w \in fresh}

\* The nodes v interferes with at p: the registers live before p, and the fresh
\* ones of p, meet in pairs; what p defines meets all that is live after it.
Edges(f, live, nodes, fresh, p, v) ==
    LET at  == (live.before[p] \cap nodes) \cup {w.id : w \in {x \in fresh : x.at = p}}
        def == DefRegs(f.insts[p]) \cap nodes
        out == live.after[p] \cap nodes
    IN  (IF v \in at THEN at ELSE {}) \cup (IF v \in def THEN out ELSE {})
          \cup (IF v \in out THEN def ELSE {})

build(f, live, spilled, fresh) ==
    LET nodes == Nodes(f, spilled, fresh)
    IN  [v \in nodes |->
           UNION {Edges(f, live, nodes, fresh, p, v) : p \in Positions(f)} \ {v}]

\* The nodes in free get the lowest colour no coloured neighbour has, the
\* highest-numbered node first.
RECURSIVE Select(_, _, _, _)
Select(adj, palette, free, colors) ==
    IF free \subseteq DOMAIN colors THEN colors
    ELSE LET v    == Max(free \ DOMAIN colors)
             used == {colors[w] : w \in adj[v] \cap DOMAIN colors}
         IN  Select(adj, palette, free, colors @@ (v :> Min(palette \ used)))

\* Degrees are those of the whole graph and do not shrink: a node of degree
\* below the number of colours is coloured, any other fails.
kemp_and_select(f, adj, palette) ==
    LET free  == DOMAIN adj \ (1 .. f.params)
        degree == [v \in free |-> Cardinality(adj[v])]
        heavy == {v \in free : degree[v] >= Cardinality(palette)}
        Less(v, w) == degree[v] < degree[w] \/ (degree[v] = degree[w] /\ v < w)
    IN  [failed |-> SortSeq(Ascending(heavy), Less),
         colors |-> Select(adj, palette, free \ heavy, [v \in 1 .. f.params |-> v])]

def_points(f, v) == {p \in Positions(f) : v \in DefRegs(f.insts[p])}
use_points(f, v) == {p \in Positions(f) : v \in UseRegs(f.insts[p])}

\* One fresh register per definition and one per use of each failed one,
\* numbered in that order from next on.
FreshFor(f, failed, next) ==
    LET Points(v, ps, d) == [k \in DOMAIN ps |-> [at |-> ps[k], def |-> d, owner |-> v]]
        all == FlattenSeq([n \in DOMAIN failed |->
                  Points(failed[n], Ascending(def_points(f, failed[n])), TRUE)
                    \o Points(failed[n], Ascending(use_points(f, failed[n])), FALSE)])
    IN  {[id |-> next + k - 1, at |-> all[k].at, def |-> all[k].def, owner |-> all[k].owner] :
            k \in DOMAIN all}

\* Before the first round: nothing spilled, no graph, no colours.
NoColors == [spilled |-> <<>>, fresh |-> {}, adj |-> <<>>, colors |-> <<>>]

\* One round of the colouring, against the interference graph in m.
Interfere(f, m) == [m EXCEPT !.adj = build(f, liveness(f), m.spilled, m.fresh)]

FreshIds(m) == {w.id : w \in m.fresh}

Spill(f, m, failed) ==
    LET next == Max(collect_real_vregs(f) \cup FreshIds(m) \cup {0}) + 1
    IN  [m EXCEPT !.spilled = @ \o failed, !.fresh = @ \cup FreshFor(f, failed, next)]

-----------------------------------------------------------------------------
\* The group of instructions that replaces the one at p: reload what it uses,
\* move its arguments together, the instruction, save what it defines.
rewrite_inst(f, m, base, p) ==
    LET i    == f.insts[p]
        S    == Range(m.spilled)
        def  == DefRegs(i) \cap S
        use  == (UseRegs(i) \cap S) \ def
        rmw  == UseRegs(i) \cap def
        Slot(v) == CHOOSE k \in DOMAIN m.spilled : m.spilled[k] = v
        Fresh(v, d) == m.colors[(CHOOSE w \in m.fresh :
                                    w.at = p /\ w.owner = v /\ w.def = d).id]
        Reg(v) == CASE v \in def                -> Fresh(v, TRUE)
                    [] v \in use                -> Fresh(v, FALSE)
                    [] v \in DOMAIN m.colors    -> m.colors[v]
                    [] OTHER                    -> v
        args == [k \in 1 .. i.nargs |-> Reg(i.b + k - 1)]
        move == \E k \in 1 .. i.nargs - 1 : args[k + 1] # args[k] + 1
        Reload(vs) == [k \in DOMAIN vs |-> Inst("UNSPILL", Reg(vs[k]), 0, 0, Slot(vs[k]))]
    IN  Reload(Ascending(use))
          \o Reload(Ascending(rmw))
          \o (IF move THEN [k \in DOMAIN args |-> Inst("MOV", base + k - 1, args[k], 0, 0)] ELSE <<>>)
          \o <<[i EXCEPT !.rd = Reg(@), !.a = Reg(@), !.b = IF move THEN base ELSE Reg(@)]>>
          \o (IF IsTerminator(i) THEN <<>>
              ELSE [k \in 1 .. Cardinality(def) |->
                      Inst("SPILL", Reg(Min(def)), 0, 0, Slot(Min(def)))])

\* A label moves to the first instruction of its group.
rewrite(f, m, base) ==
    LET group == [p \in Positions(f) |-> rewrite_inst(f, m, base, p)]
        Start(p) == IF p \notin Positions(f) THEN 0
                    ELSE Len(FlattenSeq(SubSeq(group, 1, p - 1))) + 1
    IN  [f EXCEPT !.insts  = FlattenSeq(group),
                  !.labels = [l \in DOMAIN f.labels |-> Start(f.labels[l])]]

\* The allocated function saves and clears only the registers it uses.
finish(f, m) == [f EXCEPT !.nregs = Max(Range(m.colors) \cup {1}) + 1]

alloc(f, m, file) == finish(rewrite(f, m, arg_window_base(f, file)), m)

-----------------------------------------------------------------------------
\* MUTANT of encode_call_window: the highest live register itself, not plus one.
encode_call_window_short(f) ==
    LET live   == liveness(f)
        hasTry == \E p \in Positions(f) : f.insts[p].op \in {"TRY_BEGIN", "TRY_FINALLY_BEGIN"}
    IN  IF hasTry THEN f
        ELSE [f EXCEPT !.insts = [p \in Positions(f) |->
                 IF p \in Calls(f) THEN [f.insts[p] EXCEPT !.imm = Max(live.after[p] \cup {0})]
                                    ELSE f.insts[p]]]

\* Each call records the highest register live after it, plus one, unless the
\* function has a try statement; 0 stands for all registers.
encode_call_window(f) ==
    LET live   == liveness(f)
        hasTry == \E p \in Positions(f) : f.insts[p].op \in {"TRY_BEGIN", "TRY_FINALLY_BEGIN"}
        Upper(p) == Max({r + 1 : r \in live.after[p]} \cup {0})
    IN  IF hasTry THEN f
        ELSE [f EXCEPT !.insts = [p \in Positions(f) |->
                 IF p \in Calls(f) THEN [f.insts[p] EXCEPT !.imm = Upper(p)] ELSE f.insts[p]]]
=============================================================================
