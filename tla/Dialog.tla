------------------------------- MODULE Dialog -------------------------------
(***************************************************************************)
(* NPC dialogs: Engine and ScriptHost of content/app/engine.go.  A click    *)
(* starts a goroutine that runs the NPC's script; the builtins that ask the *)
(* player something wait on the channel of the player's session, which the  *)
(* handlers of the answering frames fill (gateway/app/dispatch.go).         *)
(*                                                                         *)
(* Only what others can see is a step of its own: the two critical sections *)
(* of StartDialog, the lookup and the send of Signal, the prompts and the   *)
(* statements on quest variables.  What a script does between two of them is *)
(* a parameter; Engine gives it the compiler and the machine of Script.      *)
(***************************************************************************)
EXTENDS Connections, Sequences

CONSTANTS
    Programs,   \* the scripts of the NPCs, a sequence of syntax trees
    Talks,      \* those of them that are clicked more than once
    Signals,    \* what a client may answer
    \* The machine of a script, where it has come to the first call of the host, and
    \* to the next after an answer; and the value that it asks the host to store.
    Started(_), Resumed(_, _, _, _), Stored(_)

ASSUME DialogAssumption == Talks \subseteq DOMAIN Programs

VARIABLES
    sessions,   \* Engine.sessions
    dialog,     \* the dialogs, in the order they were started
    quest,      \* the quest variable of each character
    seen,       \* the prompt each client shows and has not answered
    rash,       \* history: who answered what was not asked, or too late
    twice       \* history: who has had two dialogs at once

dialogVars == <<sessions, dialog, quest, seen, rash, twice>>

NoDialog == 0
NoSignal == [kind |-> "none", n |-> 0, to |-> <<0, 0>>]
NoPrompt == <<0, 0>>
NewDialog(c, p) == [char |-> c, prog |-> p, vm |-> Started(p), box |-> NoSignal, asked |-> 0,
                    got |-> <<>>, writer |-> c \in live, over |-> FALSE]
Prompts == {"next", "select", "menu", "input"}

DialogInit ==
    /\ sessions = [c \in Chars |-> NoDialog]
    /\ dialog = <<>>
    /\ quest = [c \in Chars |-> 0]
    /\ seen = [c \in Chars |-> NoPrompt]
    /\ rash = {} /\ twice = {}

Waiting(d) == dialog[d].vm.st \in Prompts

\* A dialog whose machine has come to vm, after the host's answers got: at a
\* prompt it tells the client, over the connection of the click.
Comes(d, r, vm, got) ==
    LET asks == vm.st \in Prompts
        asked == IF asks THEN r.asked + 1 ELSE r.asked
        now == [r EXCEPT !.vm = vm, !.got = got, !.asked = asked]
    IN /\ dialog' = IF d \in DOMAIN dialog THEN [dialog EXCEPT ![d] = now] ELSE Append(dialog, now)
       /\ seen' = IF asks /\ r.writer THEN [seen EXCEPT ![r.char] = <<d, asked>>] ELSE seen

----------------------------------------------------------------------------
\* Mutant of active: a running dialog is no reason not to start another.
activeNever(c) == FALSE

active(c) == sessions[c] # NoDialog

\* CZ_CONTACT_NPC: StartDialog looks whether a dialog is active ...
handleContactNPC(w, c, part, scripts) ==
    /\ Frame(w, c, part)
    /\ ~active(c)
    /\ \E p \in scripts : Start(w, [part |-> "dialog", pc |-> "put", char |-> c, prog |-> p])
    /\ UNCHANGED <<live, dialogVars>>

\* ... and registers its own and starts the machine, in a later critical section.
put(w) ==
    LET c == op[w].char
        d == Len(dialog) + 1
    IN /\ At(w, "put")
       /\ sessions' = [sessions EXCEPT ![c] = d]
       /\ twice' = IF active(c) THEN twice \cup {c} ELSE twice
       /\ Comes(d, NewDialog(c, op[w].prog), Started(op[w].prog), <<>>)
       /\ Return(w)
       /\ UNCHANGED <<live, budget, quest, rash>>

\* An answering frame: Signal looks the session up ...
Signal(w, c) ==
    /\ Frame(w, c, "answer")
    /\ sessions[c] # NoDialog
    /\ \E sig \in Signals :
          Start(w, [part |-> "dialog", pc |-> "send", char |-> c, to |-> sessions[c],
                    sig |-> [kind |-> sig.kind, n |-> sig.n, to |-> seen[c]]])
    /\ rash' = IF seen[c] = NoPrompt THEN rash \cup {c} ELSE rash
    /\ seen' = [seen EXCEPT ![c] = NoPrompt]
    /\ UNCHANGED <<live, sessions, dialog, quest, twice>>

\* ... and sends, unless the channel holds an answer already.
Send(w) ==
    LET d == op[w].to
    IN /\ At(w, "send")
       /\ dialog' = IF dialog[d].box = NoSignal THEN [dialog EXCEPT ![d].box = op[w].sig] ELSE dialog
       /\ Return(w)
       /\ UNCHANGED <<live, budget, sessions, quest, seen, rash, twice>>

----------------------------------------------------------------------------
\* waitAdvance, waitChoice, waitInput: what an answer says to each prompt.
Heard(st, sig) ==
    CASE st = "next" -> [v |-> 0, ends |-> sig.kind # "advance"]
      [] st \in {"select", "menu"} ->
           [v |-> IF sig.kind = "cancel" THEN 255 ELSE IF sig.kind = "choice" THEN sig.n ELSE 0,
            ends |-> FALSE]
      [] st = "input" -> [v |-> IF sig.kind = "input" THEN sig.n ELSE 0, ends |-> sig.kind # "input"]

Answered(d, a, box) ==
    LET r == dialog[d]
    IN Comes(d, [r EXCEPT !.box = box],
             Resumed(r.vm, r.prog, a.v, a.ends), Append(r.got, a))

\* Mutant of Take: the answer stays in the channel.
TakeKeeps(d) ==
    /\ Waiting(d) /\ dialog[d].box # NoSignal
    /\ Answered(d, Heard(dialog[d].vm.st, dialog[d].box), dialog[d].box)
    /\ UNCHANGED <<live, op, budget, sessions, quest, rash, twice>>

Take(d) ==
    /\ Waiting(d) /\ dialog[d].box # NoSignal
    /\ Answered(d, Heard(dialog[d].vm.st, dialog[d].box), NoSignal)
    /\ UNCHANGED <<live, op, budget, sessions, quest, rash, twice>>

\* dialogTimeout: as if the client had closed the dialog, which it may still answer.
Timeout(d) ==
    /\ Waiting(d)
    /\ Spend("trouble")
    /\ rash' = rash \cup {dialog[d].char}
    /\ Answered(d, Heard(dialog[d].vm.st, [kind |-> "cancel", n |-> 0]), dialog[d].box)
    /\ UNCHANGED <<live, op, sessions, quest, twice>>

\* GetQuestVar and SetQuestVar; one that fails says 0 and the script goes on.
Quest(d) ==
    LET r == dialog[d]
        c == r.char
    IN /\ r.vm.st \in {"getvariableofnpc", "setquestvar"}
       /\ \/ /\ Answered(d, [v |-> IF r.vm.st = "setquestvar" THEN Stored(r.vm) ELSE quest[c],
                             ends |-> FALSE], r.box)
             /\ quest' = IF r.vm.st = "setquestvar" THEN [quest EXCEPT ![c] = Stored(r.vm)] ELSE quest
             /\ UNCHANGED budget
          \/ /\ Spend("trouble")
             /\ Answered(d, [v |-> 0, ends |-> FALSE], r.box)
             /\ UNCHANGED quest
       /\ UNCHANGED <<live, op, sessions, rash, twice>>

\* runScript's deferred end: the account's session, whosever it is.
end(d) ==
    /\ dialog[d].vm.st \in {"end", "panic"} /\ ~dialog[d].over
    /\ sessions' = [sessions EXCEPT ![dialog[d].char] = NoDialog]
    /\ dialog' = [dialog EXCEPT ![d].over = TRUE]
    /\ UNCHANGED <<live, op, budget, quest, seen, rash, twice>>

\* A close leaves the dialog running; what it writes reaches nobody.
CloseDialogs(c) ==
    /\ dialog' = [d \in DOMAIN dialog |-> IF dialog[d].char = c THEN [dialog[d] EXCEPT !.writer = FALSE]
                                                                  ELSE dialog[d]]
    /\ seen' = [seen EXCEPT ![c] = NoPrompt]
    /\ UNCHANGED <<sessions, quest, rash, twice>>

DialogFrame(w, c) ==
    \/ handleContactNPC(w, c, "script", DOMAIN Programs)
    \/ handleContactNPC(w, c, "talk", Talks)
    \/ Signal(w, c)
DialogStep(w) == put(w) \/ Send(w)
VMStep(d) == Take(d) \/ Timeout(d) \/ Quest(d) \/ end(d)

----------------------------------------------------------------------------
DialogTypeOK ==
    /\ sessions \in [Chars -> 0 .. Len(dialog)]
    /\ rash \subseteq Chars /\ twice \subseteq Chars

\* A dialog that runs can be answered, and one that is over does not keep the
\* player from the next: it is the session of its character exactly until it is
\* over (runScript "always unregisters the session on completion").  A character
\* with two dialogs at once, which two clicks can start, is excepted.
DialogHeard ==
    /\ DialogTypeOK
    /\ \A c \in Chars :
          /\ sessions[c] # NoDialog => ~dialog[sessions[c]].over
          /\ c \notin twice => \A d \in DOMAIN dialog :
                dialog[d].char = c /\ ~dialog[d].over => sessions[c] = d

\* An answer goes to the prompt it was given to: what lies in the channel of a
\* dialog that waits was said to the prompt it waits in, and to none before.  A
\* player who answers unasked, twice, or around a time-out is excepted, and so is
\* one with two dialogs.
AnsweredInTurn ==
    \A d \in DOMAIN dialog :
        LET r == dialog[d]
        IN Waiting(d) /\ r.box # NoSignal /\ r.char \notin rash \cup twice =>
              r.box.to = <<d, r.asked>>
=============================================================================
