------------------------------ MODULE Respawn ------------------------------
(***************************************************************************)
(* Death and respawn of players: ArmRespawn, CancelRespawn and             *)
(* RespawnPlayer of WorldService (world/app/world.go), called by the death *)
(* notification and by the respawn button (gateway/app/map.go,             *)
(* dispatch.go).                                                           *)
(*                                                                         *)
(* Each death starts a timer goroutine whose token is kept in a slot of    *)
(* respawnTimers; the button takes the token out of the slot and cancels   *)
(* it.  A goroutine that finds its timer expired and its context cancelled *)
(* takes either branch of the select.  Battle, which extends this module,  *)
(* adds the blows that kill.                                               *)
(***************************************************************************)
EXTENDS Integers, FiniteSets

CONSTANTS
    Chars,      \* characters
    MaxDeaths,  \* bound: deaths by a mob, each of which arms a timer of its own
    MaxSP,      \* spell points of a healthy player
    Budgets     \* bounds: how often each of Events happens, one record per instance

Events == {"deaths", "presses", "leaves", "heals", "fights", "learns", "ticks", "faults", "stops"}

ASSUME RespawnBounds ==
    MaxDeaths \in Nat /\ MaxSP \in Nat /\ \A b \in Budgets : b \in [Events -> Nat] /\ b["deaths"] <= MaxDeaths

Timers == 1 .. MaxDeaths
None == 0

VARIABLES
    in,         \* the characters in the world
    dead,       \* the characters whose hit points are 0, in the world or in the row
    sp,         \* spell points, in the world or in the row
    dying,      \* the death each character's killer has still to arm a timer for
    slot,       \* respawnTimers
    timer,      \* the timer goroutines: whose, at which statement
    cancelled,  \* the timers whose context is cancelled
    button,     \* each character's CZ_RESTART handler: at which statement, and
                \* the token it took
    dropped,    \* history: the dead for whom no timer is due, as they disconnected
                \* since they died or were killed by a player
    stopped,    \* Stop was called
    budget      \* what is left of the instance's bounds

respawnVars == <<in, dead, sp, dying, slot, timer, cancelled, button, dropped, stopped>>

NoTimer == [char |-> None, pc |-> "unused"]
NoPress == [pc |-> "idle", took |-> None]
Spend(what) == budget[what] > 0 /\ budget' = [budget EXCEPT ![what] = @ - 1]

RespawnInit ==
    /\ in = Chars
    /\ dead = {}
    /\ sp = [c \in Chars |-> MaxSP]
    /\ dying = [c \in Chars |-> FALSE]
    /\ slot = [c \in Chars |-> None]
    /\ timer = [t \in Timers |-> NoTimer]
    /\ cancelled = {}
    /\ button = [c \in Chars |-> NoPress]
    /\ dropped = {}
    /\ stopped = FALSE
    /\ budget \in Budgets

----------------------------------------------------------------------------
\* The killing blow of a mob; the tick goroutine goes on to handlePlayerDeath.
Die(c) ==
    /\ c \in in \ dead /\ ~dying[c] /\ ~stopped
    /\ Spend("deaths")
    /\ dead' = dead \cup {c}
    /\ dying' = [dying EXCEPT ![c] = TRUE]
    /\ dropped' = dropped \ {c}
    /\ UNCHANGED <<in, sp, slot, timer, cancelled, button, stopped>>

\* notifyMobAttack finds no entity: the player left, and no timer is armed.
DeathMissed(c) ==
    /\ dying[c] /\ c \notin in
    /\ dying' = [dying EXCEPT ![c] = FALSE]
    /\ UNCHANGED <<in, dead, sp, slot, timer, cancelled, button, dropped, stopped, budget>>

\* ArmRespawn: cancels the timer it finds in the slot and starts its own.
ArmRespawn(c, t) ==
    /\ dying[c]
    /\ timer[t] = NoTimer /\ \A u \in Timers : u < t => timer[u] # NoTimer
    /\ dying' = [dying EXCEPT ![c] = FALSE]
    /\ cancelled' = cancelled \cup ({slot[c]} \ {None})
    /\ slot' = [slot EXCEPT ![c] = t]
    /\ timer' = [timer EXCEPT ![t] = [char |-> c, pc |-> "waiting"]]
    /\ UNCHANGED <<in, dead, sp, button, dropped, stopped, budget>>

\* The select of the timer goroutine: the delay is over.
Expire(t) ==
    /\ timer[t].pc = "waiting"
    /\ timer' = [timer EXCEPT ![t].pc = "fired"]
    /\ UNCHANGED <<in, dead, sp, dying, slot, cancelled, button, dropped, stopped, budget>>

\* The select of the timer goroutine: the context is done.
Quit(t) ==
    /\ timer[t].pc = "waiting" /\ (t \in cancelled \/ stopped)
    /\ timer' = [timer EXCEPT ![t].pc = "quit"]
    /\ UNCHANGED <<in, dead, sp, dying, slot, cancelled, button, dropped, stopped, budget>>

\* Mutant of ClearSlot: the slot is cleared without looking whose it is.
ClearAnySlot(t) ==
    /\ timer[t].pc \in {"fired", "quit"}
    /\ slot' = [slot EXCEPT ![timer[t].char] = None]
    /\ timer' = [timer EXCEPT ![t].pc = IF @ = "fired" THEN "respawn" ELSE "done"]
    /\ UNCHANGED <<in, dead, sp, dying, cancelled, button, dropped, stopped, budget>>

\* It clears the slot if it is still its own.
ClearSlot(t) ==
    /\ timer[t].pc \in {"fired", "quit"}
    /\ slot' = [slot EXCEPT ![timer[t].char] = IF @ = t THEN None ELSE @]
    /\ timer' = [timer EXCEPT ![t].pc = IF @ = "fired" THEN "respawn" ELSE "done"]
    /\ UNCHANGED <<in, dead, sp, dying, cancelled, button, dropped, stopped, budget>>

\* RespawnPlayer: revives whoever is in the world, dead or not.
RespawnPlayer(c) ==
    /\ dead' = IF c \in in THEN dead \ {c} ELSE dead
    /\ sp' = IF c \in in THEN [sp EXCEPT ![c] = MaxSP] ELSE sp

TimerRespawn(t) ==
    /\ timer[t].pc = "respawn"
    /\ RespawnPlayer(timer[t].char)
    /\ timer' = [timer EXCEPT ![t].pc = "done"]
    /\ UNCHANGED <<in, dying, slot, cancelled, button, dropped, stopped, budget>>

TimerStep(t) == Expire(t) \/ Quit(t) \/ ClearSlot(t) \/ TimerRespawn(t)

----------------------------------------------------------------------------
\* CZ_RESTART type 0: CancelRespawn takes the token under the mutex ...
Press(c) ==
    /\ c \in in /\ button[c] = NoPress
    /\ Spend("presses")
    /\ button' = [button EXCEPT ![c] = [pc |-> "cancel", took |-> slot[c]]]
    /\ slot' = [slot EXCEPT ![c] = None]
    /\ UNCHANGED <<in, dead, sp, dying, timer, cancelled, dropped, stopped>>

\* ... and cancels it after releasing the mutex.
PressCancel(c) ==
    /\ button[c].pc = "cancel"
    /\ cancelled' = cancelled \cup ({button[c].took} \ {None})
    /\ button' = [button EXCEPT ![c] = [pc |-> "respawn", took |-> None]]
    /\ UNCHANGED <<in, dead, sp, dying, slot, timer, dropped, stopped, budget>>

\* Mutant of PressRespawn: the timer is cancelled and nobody is revived.
PressNoRevive(c) ==
    /\ button[c].pc = "respawn"
    /\ button' = [button EXCEPT ![c] = NoPress]
    /\ UNCHANGED <<in, dead, sp, dying, slot, timer, cancelled, dropped, stopped, budget>>

\* Then it respawns the player itself.
PressRespawn(c) ==
    /\ button[c].pc = "respawn"
    /\ RespawnPlayer(c)
    /\ button' = [button EXCEPT ![c] = NoPress]
    /\ UNCHANGED <<in, dying, slot, timer, cancelled, dropped, stopped, budget>>

PressStep(c) == PressCancel(c) \/ PressRespawn(c)

\* LeaveMap and EnterMap: hit points are kept in the row, timers are not told.
Leave(c) ==
    /\ c \in in
    /\ Spend("leaves")
    /\ in' = in \ {c}
    /\ dropped' = IF c \in dead THEN dropped \cup {c} ELSE dropped
    /\ UNCHANGED <<dead, sp, dying, slot, timer, cancelled, button, stopped>>

Enter(c) ==
    /\ c \notin in
    /\ in' = in \cup {c}
    /\ UNCHANGED <<dead, sp, dying, slot, timer, cancelled, button, dropped, stopped, budget>>

\* Stop cancels the context every timer's context derives from.
Stop ==
    /\ ~stopped /\ Spend("stops")
    /\ stopped' = TRUE
    /\ UNCHANGED <<in, dead, sp, dying, slot, timer, cancelled, button, dropped>>

\* Battle takes Die with the blow of a mob, Growth Leave and Enter with what the
\* row keeps.
RespawnNext ==
    \/ \E c \in Chars :
          DeathMissed(c) \/ (\E t \in Timers : ArmRespawn(c, t))
          \/ Press(c) \/ PressStep(c)
    \/ \E t \in Timers : TimerStep(t)
    \/ Stop

\* The tick goroutine, the timers and the handlers run on; players need not
\* press anything, but a client that dropped out comes back.
RespawnFairness ==
    /\ \A c \in Chars : /\ WF_respawnVars(DeathMissed(c) \/ \E t \in Timers : ArmRespawn(c, t))
                        /\ WF_respawnVars(PressStep(c))
                        /\ WF_respawnVars(Enter(c))
    /\ \A t \in Timers : WF_respawnVars(TimerStep(t))

----------------------------------------------------------------------------
\* Every timer in a slot is one of that character's, and one that has not
\* cleared it yet.
RespawnTypeOK ==
    /\ in \subseteq Chars /\ dead \subseteq Chars /\ dropped \subseteq Chars
    /\ sp \in [Chars -> 0 .. MaxSP]
    /\ dying \in [Chars -> BOOLEAN]
    /\ slot \in [Chars -> Timers \cup {None}]
    /\ timer \in [Timers -> {NoTimer} \cup
                    [char : Chars, pc : {"waiting", "fired", "quit", "respawn", "done"}]]
    /\ cancelled \subseteq Timers
    /\ button \in [Chars -> [pc : {"idle", "cancel", "respawn"}, took : Timers \cup {None}]]
    /\ stopped \in BOOLEAN
    /\ budget \in [Events -> Nat]
    /\ \A c \in Chars : slot[c] # None =>
          timer[slot[c]].char = c /\ timer[slot[c]].pc \in {"waiting", "fired", "quit"}

\* A timer that still waits can always be cancelled by its player: it is in the
\* slot, unless it is cancelled or the button is just about to cancel it.  A
\* timer dropped from the slot by someone else's clean-up would revive its
\* player again long after the button did.
NoLostTimer ==
    \A t \in Timers : timer[t].pc = "waiting" =>
        LET c == timer[t].char
        IN t \in cancelled \/ slot[c] = t \/ button[c].took = t

\* A player killed by a mob does not stay dead until the server stops: the timer
\* revives the player, and whoever cancels the timer revives in its place.  It is
\* what world/app/world.go says of RespawnPlayer, "so a mob-killed player
\* reappears at its save point instead of sitting dead forever", and it holds
\* of a player who stays connected; one who drops out while dead stays dead,
\* and so does one whom another player killed.
KilledRevives ==
    \A c \in Chars : (c \in dead) ~> (c \notin dead \/ stopped \/ c \in dropped)

=============================================================================
