------------------------------ MODULE Dataflow ------------------------------
(***************************************************************************)
(* The control-flow graph (oxide_cfg) and the liveness analysis            *)
(* (oxide_liveness) of a function.  A block is named by the position of    *)
(* its first instruction; Exit is the sentinel block.                      *)
(***************************************************************************)
EXTENDS Ir

Exit == 0

\* The first instruction, every label position, and what follows a jump.
partition_blocks(f) ==
    ({1} \cup LabelTargets(f)
         \cup {p + 1 : p \in {q \in Positions(f) : IsJump(f.insts[q])}}) \cap Positions(f)

block_id_of(heads, p) == Max({h \in heads : h <= p})

BlockEnd(f, heads, h) ==
    LET later == {g \in heads : g > h} IN IF later = {} THEN Len(f.insts) ELSE Min(later) - 1

\* Where control may go from the last instruction of a block.
split_and_edges(f, heads, h) ==
    LET e    == BlockEnd(f, heads, h)
        last == f.insts[e]
        Jump == {block_id_of(heads, Pos(f, last.imm))}
        Next == {e + 1} \cap heads
    IN  CASE last.op = "JMP"                -> Jump
          [] last.op = "JMP_IF_FALSE"       -> Jump \cup Next
          [] last.op \in {"RETURN", "HALT"} -> {Exit}
          [] last.op = "THROW"              -> {}
          [] OTHER                          -> Next

\* TRY_BEGIN and TRY_END are matched as brackets in the order of the text.
try_spans(f) ==
    LET Count(op, b, p) == Cardinality({q \in b .. p : f.insts[q].op = op})
        Ends(b) == {p \in b .. Len(f.insts) : Count("TRY_BEGIN", b, p) = Count("TRY_END", b, p)}
        begins  == {b \in Positions(f) : f.insts[b].op = "TRY_BEGIN"}
    IN  {[begin |-> b, end |-> Min(Ends(b))] : b \in {c \in begins : Ends(c) # {}}}

\* Every block that overlaps a try body may go to its catch block; a finally
\* block is entered from the block that opens it only.
add_exception_edges(f, heads, spans, h) ==
    LET Target(p) == block_id_of(heads, Pos(f, f.insts[p].imm))
        e == BlockEnd(f, heads, h)
    IN  {Target(s.begin) : s \in {t \in spans : h < t.end /\ e >= t.begin}}
          \cup {Target(p) : p \in {q \in h .. e : f.insts[q].op = "TRY_FINALLY_BEGIN"}}

build_cfg(f) ==
    LET heads == partition_blocks(f)
        spans == try_spans(f)
        exc   == [h \in heads |-> add_exception_edges(f, heads, spans, h)]
    IN  [heads |-> heads,
         end   |-> [h \in heads |-> BlockEnd(f, heads, h)],
         exc   |-> exc,
         succ  |-> [h \in heads |-> split_and_edges(f, heads, h) \cup exc[h]]]

exception_target_blocks(cfg) == UNION {cfg.exc[h] : h \in cfg.heads}

-----------------------------------------------------------------------------
\* MUTANT of Before: gen before kill, so a register both read and written is lost.
BeforeGenFirst(i, live) == (live \cup UseRegs(i)) \ DefRegs(i)

\* One instruction, backwards: kill before gen.
Before(i, live) == (live \ DefRegs(i)) \cup UseRegs(i)

\* Backwards from the end e of a block to its head h: live is a sequence that
\* starts with what is live after e and grows by what is live before each
\* instruction.
RECURSIVE ScanBlock(_, _, _, _)
ScanBlock(f, h, e, live) ==
    LET p == e + 1 - Len(live)
    IN  IF p < h THEN live
        ELSE ScanBlock(f, h, e, Append(live, Before(f.insts[p], Last(live))))

\* Unwinding writes register 0 before it enters an exception target.
gen_kill(f, cfg) ==
    LET exc  == exception_target_blocks(cfg)
        Zero(h) == IF h \in exc THEN {0} ELSE {}
    IN  [h \in cfg.heads |->
           [gen  |-> Last(ScanBlock(f, h, cfg.end[h], <<{}>>)) \ Zero(h),
            kill |-> UNION {DefRegs(f.insts[p]) : p \in h .. cfg.end[h]} \cup Zero(h)]]

LiveOut(cfg, liveIn, h) == UNION {liveIn[s] : s \in cfg.succ[h] \ {Exit}}

\* Iterate until nothing changes, starting from nothing live.
RECURSIVE Fixpoint(_, _, _)
Fixpoint(cfg, gk, liveIn) ==
    LET next == [h \in cfg.heads |->
                    gk[h].gen \cup (LiveOut(cfg, liveIn, h) \ gk[h].kill)]
    IN  IF next = liveIn THEN liveIn ELSE Fixpoint(cfg, gk, next)

block_liveness(f, cfg) == Fixpoint(cfg, gen_kill(f, cfg), [h \in cfg.heads |-> {}])

\* live_after and live_before of each instruction, block after block.
inst_liveness(f, cfg, liveIn) ==
    LET heads == Ascending(cfg.heads)
        Scan(h) == ScanBlock(f, h, cfg.end[h], <<LiveOut(cfg, liveIn, h)>>)
    IN  [after  |-> FlattenSeq([k \in DOMAIN heads |-> Reverse(Front(Scan(heads[k])))]),
         before |-> FlattenSeq([k \in DOMAIN heads |-> Reverse(Tail(Scan(heads[k])))])]

liveness(f) ==
    LET cfg == build_cfg(f) IN inst_liveness(f, cfg, block_liveness(f, cfg))
=============================================================================
