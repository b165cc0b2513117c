------------------------------ MODULE MCSocial ------------------------------
(***************************************************************************)
(* Finite instances of Social and Engine.                                  *)
(***************************************************************************)
EXTENDS Engine, TLC

Frames(spent) == [p \in Parts |-> IF p \in DOMAIN spent THEN spent[p] ELSE 0]

\* The parts have tables of their own and meet only in the connections.  Every
\* script is run once, and a conversation by two clicks.
OnePartEach ==
    {Frames([party |-> 5, close |-> 1]), Frames([guild |-> 6, close |-> 1]),
     Frames([friend |-> 6, close |-> 1]), Frames([chat |-> 4, close |-> 1]),
     Frames([script |-> 1, answer |-> 2, trouble |-> 1]),
     Frames([talk |-> 2, answer |-> 2, close |-> 1]),
     Frames([talk |-> 2, answer |-> 2, trouble |-> 1])}

----------------------------------------------------------------------------
\* Scripts.
int(n) == [k |-> "int", n |-> n]
var(x) == [k |-> "var", x |-> x]
bin(op_, l, r) == [k |-> "bin", op |-> op_, l |-> l, r |-> r]
logic(op_, l, r) == [k |-> "logic", op |-> op_, l |-> l, r |-> r]
ask(f, args) == [k |-> "call", f |-> f, args |-> args]
set(x, op_, e) == [k |-> "assign", x |-> x, op |-> op_, e |-> e]
mes(e) == ask("mes", <<e>>)
when(c, t, e) == [k |-> "if", c |-> c, t |-> t, e |-> e]
label(l) == [k |-> "label", l |-> <<l>>]
just(k) == [k |-> k]
select == ask("select", <<int(1), int(2)>>)

\* Loops that count to 2, with none, one or two of these in the body.
Inside == <<mes(var("i")), set("j", "add", int(1)),
            when(bin("eq", var("i"), int(1)), <<just("break")>>, <<>>),
            when(bin("eq", var("i"), int(2)), <<just("continue")>>, <<>>)>>
Pick(n) == IF n = 0 THEN <<>> ELSE <<Inside[n]>>
Body(n) == <<set("i", "add", int(1))>> \o Pick(n \div 5) \o Pick(n % 5)
Below == bin("lt", var("i"), int(2))
Loop3(n) ==
    <<[k |-> "while", c |-> Below, b |-> Body(n)],
      [k |-> "do", c |-> Below, b |-> Body(n)],
      [k |-> "for", i |-> <<set("j", "", int(5))>>, c |-> Below, p |-> <<mes(var("j"))>>, b |-> Body(n)]>>
Looping == [n \in 1 .. 75 |-> <<Loop3((n \div 3) % 25)[(n % 3) + 1], mes(var("i")), mes(var("j"))>>]

\* A quest that is paid once; a conversation of two prompts; a menu with labels;
\* a subroutine; an input; a loop of prompts; conditions.
Written ==
    <<<<when(ask("getvariableofnpc", <<>>),
             <<mes(int(0))>>,
             <<ask("next", <<>>), ask("setquestvar", <<int(1)>>), ask("getitem", <<int(501)>>)>>),
        ask("close", <<>>)>>,
      <<set("a", "", select), ask("next", <<>>), mes(var("a")), ask("close2", <<>>), ask("end", <<>>)>>,
      <<[k |-> "menu", ls |-> <<<<"L1">>, <<"L2">>>>], mes(int(0)), ask("end", <<>>),
        label("L1"), mes(int(1)), [k |-> "goto", l |-> <<"L3">>],
        label("L2"), mes(int(2)), label("L3"), mes(var("@menu"))>>,
      <<[k |-> "callsub", l |-> <<"Sub">>, args |-> <<int(7)>>], mes(var("x")),
        [k |-> "callsub", l |-> <<"Sub">>, args |-> <<>>], mes(var("x")), just("return"),
        label("Sub"), when(bin("eq", select, int(1)), <<set("x", "add", int(1))>>,
                                                       <<set("x", "sub", int(1)), just("return")>>),
        just("return")>>,
      <<[k |-> "input", x |-> "n"], mes(bin("add", var("n"), int(1)))>>,
      <<[k |-> "while", c |-> bin("eq", select, int(1)), b |-> <<mes(int(1))>>], mes(int(2))>>,
      <<when(logic("and", bin("eq", select, int(1)), logic("or", bin("eq", select, int(2)), var("z"))),
             <<mes(int(1))>>, <<mes([k |-> "not", e |-> var("z")])>>),
        mes([k |-> "tern", c |-> bin("lt", select, int(2)), t |-> int(1), e |-> int(2)])>>>>

NpcScripts == Written \o Looping
Clicked == {2}

Replies == {[kind |-> "advance", n |-> 0], [kind |-> "cancel", n |-> 0],
            [kind |-> "choice", n |-> 1], [kind |-> "choice", n |-> 2], [kind |-> "input", n |-> 2]}

Symmetry == Permutations(Chars) \cup Permutations(Workers)
=============================================================================
