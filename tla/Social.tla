------------------------------- MODULE Social -------------------------------
(***************************************************************************)
(* Parties, guilds, friends, whispers and NPC dialogs of one map server:    *)
(* Society and Dialog over the same connections.  A close leaves the dialog *)
(* of its character (gateway/app/map.go).                                   *)
(***************************************************************************)
EXTENDS Society, Dialog

vars == <<societyVars, dialogVars>>

Init == SocietyInit /\ DialogInit

DialogNext ==
    /\ \/ \E w \in Workers, c \in Chars : DialogFrame(w, c)
       \/ \E w \in Workers : op[w] # Idle /\ DialogStep(w)
       \/ \E d \in DOMAIN dialog : VMStep(d)
    /\ Elsewhere

OnClose(c) == unregisterConn(c) /\ CloseDialogs(c)

\* Every step is one of Society's, of which dialogs are Elsewhere.
Next ==
    \/ (GroupNext \/ ContactNext) /\ UNCHANGED dialogVars
    \/ DialogNext
    \/ \E c \in Chars : OnClose(c) \/ (registerConn(c) /\ UNCHANGED dialogVars)

Spec == Init /\ [][Next]_vars
=============================================================================
