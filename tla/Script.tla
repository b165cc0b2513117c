------------------------------- MODULE Script -------------------------------
(***************************************************************************)
(* The NPC script language: the compiler (pkg/ro/script/compiler.go), which *)
(* turns a syntax tree into instructions for a stack machine, and the       *)
(* machine (vm.go, builtins.go).  Meaning says what a tree means without    *)
(* either; Dialog runs the machine and compares.                            *)
(*                                                                         *)
(* Values are integers; strings, arrays and the shift and bit operators are *)
(* left out.  A label the compiler makes up is the path of its statement in *)
(* the tree, which is fresh as the counter of the code is.                  *)
(***************************************************************************)
EXTENDS Integers, Sequences, FiniteSets

Instr(op, n, x, l) == [op |-> op, n |-> n, x |-> x, l |-> l]
Op(op) == <<Instr(op, 0, "", <<>>)>>
Push(n) == <<Instr("int", n, "", <<>>)>>
Named(op, x) == <<Instr(op, 0, x, <<>>)>>
Jump(op, l) == <<Instr(op, 0, "", l)>>
markLabel(l) == <<Instr("label", 0, "", l)>>
Func(f, arity) == <<Instr("func", arity, f, <<>>)>>

----------------------------------------------------------------------------
\* Expressions leave one value on the stack.
RECURSIVE compileExpr(_, _), compileArgs(_, _, _)

compileArgs(args, at, i) ==
    IF i > Len(args) THEN <<>>
    ELSE compileExpr(args[i], at \o <<i>>) \o compileArgs(args, at, i + 1)

\* && and || do not evaluate the right side when the left one decides.
compileLogic(e, at) ==
    LET skip == at \o <<"skip">>
        end == at \o <<"end">>
    IN compileExpr(e.l, at \o <<1>>) \o Jump(IF e.op = "and" THEN "jmpf" ELSE "jmpt", skip)
       \o compileExpr(e.r, at \o <<2>>) \o Jump("goto", end)
       \o markLabel(skip) \o Push(IF e.op = "and" THEN 0 ELSE 1) \o markLabel(end)

compileTernary(e, at) ==
    LET else == at \o <<"else">>
        end == at \o <<"end">>
    IN compileExpr(e.c, at \o <<1>>) \o Jump("jmpf", else)
       \o compileExpr(e.t, at \o <<2>>) \o Jump("goto", end)
       \o markLabel(else) \o compileExpr(e.e, at \o <<3>>) \o markLabel(end)

compileCall(f, args, at) == compileArgs(args, at, 1) \o Func(f, Len(args))

compileExpr(e, at) ==
    CASE e.k = "int" -> Push(e.n)
      [] e.k = "var" -> Named("var", e.x)
      [] e.k = "not" -> compileExpr(e.e, at \o <<1>>) \o Op("not")
      [] e.k = "bin" -> compileExpr(e.l, at \o <<1>>) \o compileExpr(e.r, at \o <<2>>) \o Op(e.op)
      [] e.k = "logic" -> compileLogic(e, at)
      [] e.k = "tern" -> compileTernary(e, at)
      [] e.k = "call" -> compileCall(e.f, e.args, at)

----------------------------------------------------------------------------
\* Statements; loop is where continue and break of the innermost loop go.
RECURSIVE compileStmt(_, _, _), compileBlockStmts(_, _, _, _)

compileBlockStmts(s, at, loop, i) ==
    IF i > Len(s) THEN <<>>
    ELSE compileStmt(s[i], at \o <<i>>, loop) \o compileBlockStmts(s, at, loop, i + 1)

Block(s, at, loop) == compileBlockStmts(s, at, loop, 1)

compileAssign(s, at) ==
    IF s.op = "" THEN compileExpr(s.e, at) \o Named("assign", s.x)
    ELSE Named("var", s.x) \o compileExpr(s.e, at) \o Op(s.op) \o Named("assign", s.x)

compileIf(s, at, loop) ==
    LET else == at \o <<"else">>
        end == at \o <<"end">>
    IN compileExpr(s.c, at \o <<1>>) \o Jump("jmpf", else) \o Block(s.t, at \o <<2>>, loop)
       \o IF s.e = <<>> THEN markLabel(else)
          ELSE Jump("goto", end) \o markLabel(else) \o Block(s.e, at \o <<3>>, loop) \o markLabel(end)

compileWhile(s, at) ==
    LET start == at \o <<"start">>
        end == at \o <<"end">>
    IN markLabel(start) \o compileExpr(s.c, at \o <<1>>) \o Jump("jmpf", end)
       \o Block(s.b, at \o <<2>>, [cont |-> start, brk |-> end])
       \o Jump("goto", start) \o markLabel(end)

\* Mutant of compileDoWhile: continue goes to the top of the body.
compileDoWhileTop(s, at) ==
    LET start == at \o <<"start">>
        cond == at \o <<"cond">>
        end == at \o <<"end">>
    IN markLabel(start) \o Block(s.b, at \o <<1>>, [cont |-> start, brk |-> end])
       \o markLabel(cond) \o compileExpr(s.c, at \o <<2>>) \o Jump("jmpt", start) \o markLabel(end)

compileDoWhile(s, at) ==
    LET start == at \o <<"start">>
        cond == at \o <<"cond">>
        end == at \o <<"end">>
    IN markLabel(start) \o Block(s.b, at \o <<1>>, [cont |-> cond, brk |-> end])
       \o markLabel(cond) \o compileExpr(s.c, at \o <<2>>) \o Jump("jmpt", start) \o markLabel(end)

\* continue goes to the condition, past the post statement.
compileFor(s, at, loop) ==
    LET start == at \o <<"start">>
        end == at \o <<"end">>
    IN Block(s.i, at \o <<1>>, loop) \o markLabel(start)
       \o compileExpr(s.c, at \o <<2>>) \o Jump("jmpf", end)
       \o Block(s.b, at \o <<3>>, [cont |-> start, brk |-> end])
       \o Block(s.p, at \o <<4>>, loop) \o Jump("goto", start) \o markLabel(end)

\* menu: the choice goes to @menu and, by a chain of tests, to its label.
RECURSIVE menuJumps(_, _)
menuJumps(labels, i) ==
    IF i > Len(labels) THEN <<>>
    ELSE Named("var", "@menu") \o Push(i) \o Op("eq") \o Jump("jmpt", labels[i])
         \o menuJumps(labels, i + 1)

compileMenu(s) ==
    compileArgs([i \in DOMAIN s.ls |-> [k |-> "int", n |-> i]], <<>>, 1)
    \o Func("menu", Len(s.ls)) \o Named("assign", "@menu") \o menuJumps(s.ls, 1)

\* input: no pop follows, although the comment of compileInput expects one.
compileInput(s) == Named("name", s.x) \o Func("input", 1)

\* A call in statement position drops its result.
Discarded(code) == code \o Op("pop")

compileStmt(s, at, loop) ==
    CASE s.k = "assign" -> compileAssign(s, at)
      [] s.k = "call" -> Discarded(compileCall(s.f, s.args, at))
      [] s.k = "menu" -> compileMenu(s)
      [] s.k = "input" -> compileInput(s)
      [] s.k = "if" -> compileIf(s, at, loop)
      [] s.k = "while" -> compileWhile(s, at)
      [] s.k = "do" -> compileDoWhile(s, at)
      [] s.k = "for" -> compileFor(s, at, loop)
      [] s.k = "return" -> Op("return")
      [] s.k = "break" -> Jump("goto", loop.brk)
      [] s.k = "continue" -> Jump("goto", loop.cont)
      [] s.k = "goto" -> Jump("goto", s.l)
      [] s.k = "label" -> markLabel(s.l)
      [] s.k = "callsub" -> compileArgs(s.args, at, 1) \o Jump("callsub", s.l)

\* The body has no break outside a loop: that does not compile.
compileFile(body) == Block(body, <<>>, [cont |-> <<>>, brk |-> <<>>]) \o Op("eof")

----------------------------------------------------------------------------
\* The machine.  stack, calls: the value and the return stack; out: what the host
\* was told; st: "run", a call of the host it has come to ("next", "select", ...),
\* "end", or "panic" when it takes a value from an empty stack.
NewVM == [ip |-> 1, stack |-> <<>>, calls |-> <<>>, vars |-> [x \in {} |-> 0],
          out |-> <<>>, st |-> "run"]

GetVar(vars, x) == IF x \in DOMAIN vars THEN vars[x] ELSE 0
SetVar(vars, x, v) == [y \in DOMAIN vars \cup {x} |-> IF y = x THEN v ELSE vars[y]]

Top(vm) == vm.stack[Len(vm.stack)]
Under(vm) == vm.stack[Len(vm.stack) - 1]
Drop(s, n) == SubSeq(s, 1, Len(s) - n)
popArgs(vm, n) == SubSeq(vm.stack, Len(vm.stack) - n + 1, Len(vm.stack))

Truth(b) == IF b THEN 1 ELSE 0
binary(op, a, b) ==
    CASE op = "add" -> a + b
      [] op = "sub" -> a - b
      [] op = "eq" -> Truth(a = b)
      [] op = "lt" -> Truth(a < b)

\* A label that is not there ends the script.
jump(code, l) ==
    LET at == {i \in DOMAIN code : code[i].op = "label" /\ code[i].l = l}
    IN IF at = {} THEN Len(code) + 1 ELSE CHOOSE i \in at : \A j \in at : j <= i

\* How many values an instruction takes.
Takes(ins) ==
    CASE ins.op \in {"add", "sub", "eq", "lt"} -> 2
      [] ins.op \in {"assign", "not", "jmpf", "jmpt", "pop"} -> 1
      [] ins.op = "func" -> ins.n
      [] OTHER -> 0

Advance(vm) == [vm EXCEPT !.ip = @ + 1]
Put(vm, n, v) == [vm EXCEPT !.ip = @ + 1, !.stack = Append(Drop(@, n), v)]
Go(vm, code, l, n) == [vm EXCEPT !.ip = jump(code, l), !.stack = Drop(@, n)]

\* The builtins that wait for the client or touch what others see.
Calls == {"next", "select", "menu", "input", "getvariableofnpc", "setquestvar"}

\* The other builtins: close and end stop the machine.
Builtin(vm, ins) ==
    LET told == IF ins.x = "end" THEN vm.out ELSE Append(vm.out, <<ins.x, popArgs(vm, ins.n)>>)
    IN IF ins.x \in {"close", "end"}
       THEN [vm EXCEPT !.out = told, !.st = "end", !.stack = Drop(@, ins.n)]
       ELSE [Put(vm, ins.n, 1) EXCEPT !.out = told]

Exec(vm, code) ==
    LET ins == code[vm.ip]
    IN CASE Len(vm.stack) < Takes(ins) -> [vm EXCEPT !.st = "panic"]
         [] ins.op = "eof" -> [vm EXCEPT !.st = "end"]
         [] ins.op = "int" -> Put(vm, 0, ins.n)
         [] ins.op = "var" -> Put(vm, 0, GetVar(vm.vars, ins.x))
         [] ins.op = "name" -> Put(vm, 0, 0)
         [] ins.op = "assign" ->
              [Advance(vm) EXCEPT !.vars = SetVar(@, ins.x, Top(vm)), !.stack = Drop(@, 1)]
         [] ins.op \in {"add", "sub", "eq", "lt"} -> Put(vm, 2, binary(ins.op, Under(vm), Top(vm)))
         [] ins.op = "not" -> Put(vm, 1, Truth(Top(vm) = 0))
         [] ins.op = "pop" -> [Advance(vm) EXCEPT !.stack = Drop(@, 1)]
         [] ins.op = "label" -> Advance(vm)
         [] ins.op = "jmpf" ->
              IF Top(vm) = 0 THEN Go(vm, code, ins.l, 1) ELSE [Advance(vm) EXCEPT !.stack = Drop(@, 1)]
         [] ins.op = "jmpt" ->
              IF Top(vm) # 0 THEN Go(vm, code, ins.l, 1) ELSE [Advance(vm) EXCEPT !.stack = Drop(@, 1)]
         [] ins.op = "goto" -> Go(vm, code, ins.l, 0)
         [] ins.op = "callsub" -> [Go(vm, code, ins.l, 0) EXCEPT !.calls = Append(@, vm.ip + 1)]
         [] ins.op = "return" ->
              IF vm.calls = <<>> THEN [vm EXCEPT !.st = "end"]
              ELSE [vm EXCEPT !.ip = vm.calls[Len(vm.calls)], !.calls = Drop(@, 1)]
         [] ins.op = "func" -> IF ins.x \in Calls THEN [vm EXCEPT !.st = ins.x] ELSE Builtin(vm, ins)

\* It runs until it ends or comes to one of Calls.
RECURSIVE Run(_, _)
Run(vm, code) ==
    IF vm.st # "run" THEN vm
    ELSE IF vm.ip > Len(code) THEN [vm EXCEPT !.st = "end"]
    ELSE Run(Exec(vm, code), code)

\* The host's answer v to the call it has come to; ends: the builtin returns ctrlEnd.
Resume(vm, code, v, ends) ==
    LET ins == code[vm.ip]
        on == IF ins.x = "input"  \* the value is stored, and the result code pushed
              THEN [Put(vm, ins.n, 0) EXCEPT !.vars = SetVar(@, code[vm.ip - 1].x, v)]
              ELSE Put(vm, ins.n, v)
    IN IF ends THEN [vm EXCEPT !.st = "end"]
       ELSE Run([on EXCEPT !.st = "run"], code)
----------------------------------------------------------------------------
\* What a tree means: st is the variables, the host's answers that are left, what
\* the host was told, and where control goes.
On == [k |-> "on", l |-> <<>>]
Off(st, k) == [st EXCEPT !.flow = [k |-> k, l |-> <<>>]]
Begin(answers) == [vars |-> [x \in {} |-> 0], in |-> answers, out |-> <<>>, flow |-> On]

\* A call that is answered: by the next answer, if there is one.
Ask(st) ==
    IF st.in = <<>> THEN [v |-> 0, st |-> Off(st, "starved")]
    ELSE LET rest == [st EXCEPT !.in = Tail(@)]
         IN [v |-> Head(st.in).v, st |-> IF Head(st.in).ends THEN Off(rest, "end") ELSE rest]

RECURSIVE Eval(_, _), EvalAll(_, _, _), Perform(_, _, _), PerformAll(_, _, _), Loop(_, _, _, _, _)

\* Arguments from left to right.
EvalAll(args, st, vs) ==
    IF Len(vs) = Len(args) THEN [v |-> vs, st |-> st]
    ELSE LET a == Eval(args[Len(vs) + 1], st) IN EvalAll(args, a.st, Append(vs, a.v))

Call(f, args, st) ==
    LET a == EvalAll(args, st, <<>>)
    IN IF f \in Calls THEN Ask(a.st)
       ELSE [v |-> 1,
             st |-> LET told == [a.st EXCEPT !.out = IF f = "end" THEN @ ELSE Append(@, <<f, a.v>>)]
                    IN IF f \in {"close", "end"} THEN Off(told, "end") ELSE told]

Eval(e, st) ==
    CASE e.k = "int" -> [v |-> e.n, st |-> st]
      [] e.k = "var" -> [v |-> GetVar(st.vars, e.x), st |-> st]
      [] e.k = "not" -> LET a == Eval(e.e, st) IN [v |-> Truth(a.v = 0), st |-> a.st]
      [] e.k = "bin" -> LET a == Eval(e.l, st)
                            b == Eval(e.r, a.st)
                        IN [v |-> binary(e.op, a.v, b.v), st |-> b.st]
      [] e.k = "logic" -> LET a == Eval(e.l, st)
                          IN IF (a.v = 0) = (e.op = "and")
                             THEN [v |-> Truth(e.op = "or"), st |-> a.st] ELSE Eval(e.r, a.st)
      [] e.k = "tern" -> LET a == Eval(e.c, st) IN Eval(IF a.v # 0 THEN e.t ELSE e.e, a.st)
      [] e.k = "call" -> Call(e.f, e.args, st)

\* The rest of program P from one of its labels.
From(P, l) == LET i == CHOOSE j \in DOMAIN P : P[j].k = "label" /\ P[j].l = l IN SubSeq(P, i, Len(P))

\* Condition, body and post statement; continue ends the body, break the loop.
Loop(c, b, p, st, P) ==
    LET a == Eval(c, st)
        body == PerformAll(b, a.st, P)
        post == PerformAll(p, [body EXCEPT !.flow = On], P)
    IN IF a.st.flow # On THEN a.st
       ELSE IF a.v = 0 THEN a.st
       ELSE IF body.flow.k = "break" THEN [body EXCEPT !.flow = On]
       ELSE IF body.flow.k \notin {"on", "continue"} THEN body
       ELSE Loop(c, b, p, post, P)

Perform(s, st, P) ==
    CASE s.k = "assign" ->
           LET a == Eval(s.e, st)
               v == IF s.op = "" THEN a.v ELSE binary(s.op, GetVar(st.vars, s.x), a.v)
           IN [a.st EXCEPT !.vars = SetVar(@, s.x, v)]
      [] s.k = "call" -> Call(s.f, s.args, st).st
      [] s.k = "input" -> LET a == Ask(st) IN [a.st EXCEPT !.vars = SetVar(@, s.x, a.v)]
      [] s.k = "menu" ->
           LET a == Ask(st)
               set == [a.st EXCEPT !.vars = SetVar(@, "@menu", a.v)]
           IN IF set.flow = On /\ a.v \in DOMAIN s.ls
              THEN [set EXCEPT !.flow = [k |-> "goto", l |-> s.ls[a.v]]] ELSE set
      [] s.k = "if" -> LET a == Eval(s.c, st)
                       IN IF a.st.flow # On THEN a.st ELSE PerformAll(IF a.v # 0 THEN s.t ELSE s.e, a.st, P)
      [] s.k = "while" -> Loop(s.c, s.b, <<>>, st, P)
      [] s.k = "do" -> Loop([k |-> "logic", op |-> "or", l |-> [k |-> "var", x |-> "@first"], r |-> s.c],
                            <<[k |-> "assign", x |-> "@first", op |-> "", e |-> [k |-> "int", n |-> 0]]>> \o s.b,
                            <<>>, [st EXCEPT !.vars = SetVar(@, "@first", 1)], P)
      [] s.k = "for" -> Loop(s.c, s.b, s.p, PerformAll(s.i, st, P), P)
      [] s.k = "goto" -> [st EXCEPT !.flow = [k |-> "goto", l |-> s.l]]
      [] s.k = "label" -> st
      [] s.k = "callsub" ->
           LET sub == PerformAll(From(P, s.l), EvalAll(s.args, st, <<>>).st, P)
           IN IF sub.flow.k = "return" THEN [sub EXCEPT !.flow = On]
              ELSE IF sub.flow = On THEN Off(sub, "end") ELSE sub
      [] OTHER -> Off(st, s.k)   \* break, continue, return

PerformAll(b, st, P) ==
    IF b = <<>> \/ st.flow # On THEN st ELSE PerformAll(Tail(b), Perform(Head(b), st, P), P)

\* A goto goes to a label of the program.
RECURSIVE Follow(_, _)
Follow(st, P) ==
    IF st.flow.k = "goto" THEN Follow(PerformAll(From(P, st.flow.l), [st EXCEPT !.flow = On], P), P)
    ELSE st

\* What program P tells the host when it is given these answers, and whether it
\* wants others.
Meaning(P, answers) ==
    LET st == Follow(PerformAll(P, Begin(answers), P), P)
    IN [out |-> st.out, answered |-> st.in = <<>> /\ st.flow.k # "starved"]
\* Does a statement of this kind occur in a block?
Blocks(s) ==
    CASE s.k = "if" -> <<s.t, s.e>>
      [] s.k \in {"while", "do"} -> <<s.b>>
      [] s.k = "for" -> <<s.i, s.b, s.p>>
      [] OTHER -> <<>>
RECURSIVE Has(_, _), SkipsPost(_)
Has(b, k) == \E i \in DOMAIN b :
    b[i].k = k \/ \E j \in DOMAIN Blocks(b[i]) : Has(Blocks(b[i])[j], k)
SkipsPost(b) == \E i \in DOMAIN b :
    \/ b[i].k = "for" /\ Has(b[i].b, "continue")
    \/ \E j \in DOMAIN Blocks(b[i]) : SkipsPost(Blocks(b[i])[j])
=============================================================================
