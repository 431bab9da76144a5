---------------------------- MODULE RequestQueue ----------------------------
(***************************************************************************)
(* What an async generator object promises to the code that calls its      *)
(* next(), return() and throw(): every call is a request, requests are     *)
(* answered in the order in which they were made, each one once, and once  *)
(* an answer has closed the generator (it was the completion, or a         *)
(* rejection) no later request is answered by a yielded value.             *)
(*                                                                         *)
(* How the generator reaches an answer (running, awaiting, delegating,     *)
(* closing loops) is not mentioned: module AsyncGenerator implements this  *)
(* specification.                                                          *)
(***************************************************************************)
EXTENDS Naturals, Sequences

VARIABLES pending,  \* the requests not answered yet, oldest first
          answers   \* the answers given so far, in order: [id, kind]

Kinds == {"yielded", "done", "rejected"}

Init ==
    /\ pending = <<>>
    /\ answers = <<>>

(* A request is known by the number of requests made before it. *)
Submitted == Append(pending, Len(answers) + Len(pending) + 1)

(* No answer of as after its first closing one is a yielded value. *)
ClosesForGood(as) ==
    \A i, j \in DOMAIN as :
        i < j /\ as[i].kind # "yielded" => as[j].kind # "yielded"

(* A request is made. *)
Submit ==
    /\ pending' = Submitted
    /\ UNCHANGED answers

(* The oldest request is answered. *)
Reply(kind) ==
    /\ pending # <<>>
    /\ answers' = Append(answers, [id |-> Head(pending), kind |-> kind])
    /\ pending' = Tail(pending)
    /\ ClosesForGood(answers')

Next == Submit \/ \E kind \in Kinds : Reply(kind)

Spec == Init /\ [][Next]_<<pending, answers>>
=============================================================================
