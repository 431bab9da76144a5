----------------------------- MODULE MCOptimiser ----------------------------
(***************************************************************************)
(* Small programs over a parameter p and a local x, or two locals of a     *)
(* block at the top level: two statements between the initialisation of x  *)
(* and a final call that shows x, where one of the two may be compound.    *)
(***************************************************************************)
EXTENDS Optimiser

Lit(v)     == [k |-> "lit", v |-> v]
Var(v)     == [k |-> "var", v |-> v]
Add(l, r)  == [k |-> "add", l |-> l, r |-> r]
Call(args) == [k |-> "call", args |-> args]
Expr(e)    == [k |-> "expr", e |-> e]
Set(v, e)  == [k |-> "set", v |-> v, e |-> e]
If(e, b)    == [k |-> "if", e |-> e, body |-> b]
While(e, b) == [k |-> "while", e |-> e, body |-> b]
Break       == [k |-> "break"]
Return(e)   == [k |-> "return", e |-> e]
Throw(e)    == [k |-> "throw", e |-> e]
Try(b, c, f) == [k |-> "try", body |-> b, catch |-> c, final |-> f]

P == Var(1)
X == Var(2)

Simple == {Set(2, Lit(4)), Set(2, P), Set(2, Add(X, P)),
           Set(2, Add(Lit(1), Add(Lit(2), Lit(3)))),
           Set(2, Call(<<X>>)), Expr(Call(<<>>)),
           Expr(Call(<<X, Call(<<P>>)>>))}

Few == {Set(2, Lit(1)), Set(2, Call(<<X>>)), Expr(Call(<<X, P>>))}

Flow == {If(P, <<s>>) : s \in Few} \cup {While(Call(<<>>), <<s>>) : s \in Few}
          \cup {While(Call(<<X>>), <<s, Break>>) : s \in Few}

Body == {<<s, t>> : s \in Few, t \in Few}
Caught == {Try(b, <<Expr(Call(<<X>>))>>, <<>>) : b \in Body}
            \cup {Try(<<Set(2, P), Throw(X)>>, <<s>>, <<>>) : s \in Few}
Finally == {Try(b, <<>>, <<Expr(Call(<<X>>))>>) : b \in Body}
            \cup {Try(<<s>>, <<t>>, <<Set(2, Call(<<X>>))>>) : s \in Few, t \in Few}

Returns == {If(P, <<Return(X)>>), Try(<<Return(Call(<<X>>))>>, <<Set(2, Lit(1))>>, <<>>),
            Try(<<Set(2, Lit(1)), Return(Call(<<X>>))>>, <<>>, <<Expr(Call(<<X>>))>>),
            Try(<<Return(Call(<<P>>))>>, <<Return(X)>>, <<Set(2, Lit(1)), Return(X)>>)}

Compound == Flow \cup Caught \cup Finally

After == {Set(2, Add(X, P)), Expr(Call(<<X, Call(<<P>>)>>))}

Bodies(cs) == {<<s, c>> : s \in Few, c \in cs} \cup {<<c, s>> : s \in After, c \in cs}
                \cup {<<s, t>> : s \in Simple, t \in Simple}

Program(b, top) ==
    [body   |-> (IF top THEN <<Set(1, Call(<<>>))>> ELSE <<>>)
                  \o <<Set(2, Lit(0))>> \o b \o <<Expr(Call(<<X>>))>>,
     top    |-> top, params |-> IF top THEN 0 ELSE 1, vars |-> 2]

MCPrograms == {Program(b, TRUE)  : b \in Bodies(Compound)}
                \cup {Program(b, FALSE) : b \in Bodies(Compound \cup Returns)}

\* For the values a catch block reads: a script that stores x, makes a call
\* that may throw, and stores x again, all in one try body.
CaughtPrograms ==
    {Program(<<Try(<<Set(2, Lit(1)), Expr(Call(<<P, P>>)), Set(2, s)>>, <<Expr(Call(<<X>>))>>, <<>>)>>, TRUE)
        : s \in {Lit(2), Call(<<P>>)}}
=============================================================================
