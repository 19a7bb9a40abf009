----------------------------- MODULE MCIJMatrix -----------------------------
(* Instances of IJMatrix for TLC: see the .cfg files. *)
EXTENDS IJMatrix

E(c, v) == [col |-> c, val |-> v]
I == [op |-> "initialize", row |-> 0, elts |-> <<>>]
As == [op |-> "assemble", row |-> 0, elts |-> <<>>]
S(r, elts) == [op |-> "set", row |-> r, elts |-> elts]
A(r, elts) == [op |-> "add", row |-> r, elts |-> elts]

\* The first rows of the processes, and what follows the last.
Parts == {<<0, 1, 4, 5>>, <<0, 0, 2, 5>>, <<0, 2, 3, 5>>, <<0, 5, 5, 5>>, <<0, 3, 3, 5>>}

On(parts, lists) ==
  {[starts |-> [p \in 0 .. 3 |-> part[p + 1]], calls |-> [p \in Proc |-> list[p + 1]]] :
     part \in parts, list \in lists}

\* All add to row 0, and one sets it; an element twice in one call.
AllAdd ==
  << <<I, S(0, <<E(0, 1), E(3, 2)>>), A(4, <<E(4, 4)>>), As, I, A(3, <<E(3, 8)>>), As>>,
     <<I, A(0, <<E(0, 16), E(1, 32)>>), A(3, <<E(3, 1), E(3, 2)>>), As,
       I, A(0, <<E(0, 1)>>), S(4, <<E(4, 5)>>), As>>,
     <<I, S(4, <<E(4, 64)>>), A(0, <<E(0, 128)>>), A(2, <<E(2, 1)>>), As,
       I, A(3, <<E(3, 16)>>), As>> >>

\* Two processes set the same element and a third adds to it, then they do so again.
TwoSet ==
  << <<I, S(2, <<E(2, 1), E(1, 2)>>), A(0, <<E(0, 3)>>), As, I, S(2, <<E(2, 9)>>), As>>,
     <<I, S(2, <<E(2, 4)>>), A(1, <<E(1, 8)>>), As, I, As>>,
     <<I, A(2, <<E(2, 16)>>), A(4, <<E(4, 1)>>), As, I, A(2, <<E(2, 32), E(1, 1)>>), As>> >>

\* Assembled twice in a row, changed, and assembled again.
Again ==
  << <<I, A(0, <<E(1, 1), E(0, 2)>>), As, As, I, A(2, <<E(2, 4)>>), As>>,
     <<I, A(2, <<E(2, 8), E(2, 16)>>), As, As, I, A(2, <<E(2, 1)>>), As>>,
     <<I, S(4, <<E(4, 32)>>), S(4, <<E(4, 1), E(0, 1)>>), As, As, I, As>> >>

Twice == On(Parts, {AllAdd, TwoSet, Again})

\* Adds only, in three assemblies.
Thrice ==
  On({<<0, 1, 4, 5>>},
     {<< <<I, A(0, <<E(0, 1)>>), A(4, <<E(4, 2)>>), As, I, A(2, <<E(2, 4)>>), As, I, As>>,
         <<I, A(2, <<E(2, 8)>>), As, I, As, I, As>>,
         <<I, A(4, <<E(4, 16)>>), As, I, As, I, As>> >>})
=============================================================================
