------------------------------- MODULE Engine -------------------------------
(***************************************************************************)
(* Social with the scripts that dialogs run: runScript compiles an NPC's    *)
(* script and runs it on a machine, which calls the host                    *)
(* (content/app/engine.go over pkg/ro/script).                              *)
(***************************************************************************)
EXTENDS Social, Script

Code == [p \in DOMAIN Programs |-> compileFile(Programs[p])]

\* Started, Resumed and Stored of Dialog.
VMStarted(p) == Run(NewVM, Code[p])
VMResumed(vm, p, v, ends) == Resume(vm, Code[p], v, ends)
VMStored(vm) == Top(vm)

EngineTypeOK ==
    /\ quest \in [Chars -> Nat]
    /\ \A d \in DOMAIN dialog : dialog[d].vm.st \in Calls \cup {"end", "panic"}

\* A script does what its text says: what it has told the host when it ends is
\* what the tree means, given the answers it was given, however jumps, loops,
\* subroutines and short cuts were compiled.  A for loop with a continue is
\* excepted: compileFor sends it past the post statement.  The machine never takes
\* a value from an empty stack, which would be a panic, and every statement leaves
\* the stack as it found it (compileStmt: "so its void return does not leak onto the
\* stack"), except input and callsub.
RunsAsWritten ==
    /\ EngineTypeOK
    /\ \A d \in DOMAIN dialog :
        LET r == dialog[d]
        IN /\ r.vm.st = "end" /\ ~r.over /\ ~SkipsPost(Programs[r.prog]) =>
                 Meaning(Programs[r.prog], r.got) = [out |-> r.vm.out, answered |-> TRUE]
           /\ r.vm.st # "panic"
           /\ r.vm.st = "end" /\ ~Has(Programs[r.prog], "input") /\ ~Has(Programs[r.prog], "callsub")
                 => r.vm.stack = <<>>
=============================================================================
