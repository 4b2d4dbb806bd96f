------------------------------- MODULE Daemon -------------------------------
(***************************************************************************)
(* The main program (main.go): startOrReload starts, reloads and deletes   *)
(* relayers after the configuration file, the goroutine of the exit signal *)
(* ends them all, and main counts the values they send through the channel *)
(* done, once for every relayer that was counted in totalRelayers.         *)
(* A relayer is a number; Exit of one closes what it has, then sends done. *)
(* Faulty variants of some definitions, used by no other, stand before     *)
(* them: StartUncounted and RelayerDoneUnsent are mutants the properties   *)
(* must detect.                                                            *)
(***************************************************************************)
EXTENDS Integers, FiniteSets

CONSTANTS
    Endpoints,     \* listen addresses that may be in the configuration file
    MaxRelayers,   \* bound: relayers started
    MaxReloads     \* bound: reload signals

ASSUME DaemonAssumption ==
    /\ IsFiniteSet(Endpoints) /\ MaxRelayers \in Nat /\ MaxReloads \in Nat

Relayers == 1..MaxRelayers
None == 0

VARIABLES
    relayers,          \* the map from endpoint to relayer
    total, made,       \* totalRelayers, and the relayers made so far
    lpc, todo, wanted, \* startOrReload: pc, endpoints of the file left, all of them
    old,               \* the relayer it deleted
    xpc, left, cur,    \* the exit goroutine: pc, endpoints left to visit, relayer
    count, stopped,    \* main: values received from done, and os.Exit
    ended,             \* relayers whose Exit got to its end
    reloads, asked,    \* signals that came
    lost,              \* history: relayers counted whose Start failed
    overlapped         \* history: the exit goroutine and startOrReload have met

reload == <<lpc, todo, wanted, old, reloads>>
exit == <<xpc, left, cur, asked>>
notes == <<lost, overlapped>>
vars == <<relayers, total, made, reload, exit, count, stopped, ended, notes>>

(* The type invariant of the program.                                      *)
TypeOK ==
    /\ relayers \in [Endpoints -> Relayers \cup {None}]
    /\ total \in 0..MaxRelayers /\ made \in 0..MaxRelayers /\ count \in 0..total
    /\ lpc \in {"idle", "conf", "purge", "exit", "done"} /\ xpc \in {"idle", "iter", "exit", "done"}
    /\ todo \subseteq Endpoints /\ wanted \subseteq Endpoints /\ left \subseteq Endpoints
    /\ old \in Relayers \cup {None} /\ cur \in Relayers \cup {None}
    /\ ended \subseteq Relayers /\ reloads \in 0..MaxReloads
    /\ stopped \in BOOLEAN /\ asked \in BOOLEAN
    /\ lost \subseteq Relayers /\ overlapped \in BOOLEAN

(* main calls startOrReload itself the first time.  A file that cannot be  *)
(* read ends the program then, and changes nothing later.                  *)
Init ==
    /\ relayers = [e \in Endpoints |-> None] /\ total = 0 /\ made = 0
    /\ \E es \in SUBSET Endpoints : todo = es /\ wanted = es
    /\ lpc = "conf" /\ old = None
    /\ xpc = "idle" /\ left = {} /\ cur = None
    /\ count = 0 /\ stopped = FALSE /\ ended = {} /\ reloads = 0 /\ asked = FALSE
    /\ lost = {} /\ overlapped = FALSE

(* main has left startOrReload once a reload was possible.                 *)
Receiving == reloads > 0 \/ lpc = "idle"

(* It receives while it counted less than totalRelayers.                   *)
Receives == Receiving /\ count < total

-----------------------------------------------------------------------------
(* startOrReload.                                                          *)

ReloadSignal(es) ==
    /\ ~stopped /\ lpc = "idle" /\ reloads < MaxReloads
    /\ lpc' = "conf" /\ todo' = es /\ wanted' = es
    /\ reloads' = reloads + 1
    /\ overlapped' = (overlapped \/ asked)
    /\ UNCHANGED <<relayers, total, made, old, exit, count, stopped, ended, lost>>

StartUncounted(e) ==
    /\ made < MaxRelayers /\ made' = made + 1
    /\ relayers' = [relayers EXCEPT ![e] = made + 1]
    /\ UNCHANGED <<total, lost>>

(* getNewServer made the relayer: it is counted before its Start, and gets *)
(* into the map only when that succeeds.                                   *)
Start(e) ==
    /\ made < MaxRelayers /\ made' = made + 1 /\ total' = total + 1
    /\ \/ relayers' = [relayers EXCEPT ![e] = made + 1] /\ UNCHANGED lost
       \/ lost' = lost \cup {made + 1} /\ UNCHANGED relayers

Configure(e) ==
    /\ ~stopped /\ lpc = "conf" /\ e \in todo
    /\ \/ relayers[e] = None /\ Start(e)
       \/ relayers[e] = None /\ UNCHANGED <<relayers, made, total, lost>>    \* getNewServer fails
       \/ relayers[e] # None /\ UNCHANGED <<relayers, made, total, lost>>    \* Reload of the relayer
    /\ todo' = todo \ {e}
    /\ UNCHANGED <<lpc, wanted, old, reloads, exit, count, stopped, ended, overlapped>>

Configured ==
    /\ ~stopped /\ lpc = "conf" /\ todo = {}
    /\ lpc' = "purge"
    /\ UNCHANGED <<relayers, total, made, todo, wanted, old, reloads, exit, count, stopped, ended, notes>>

Delete(e) ==
    /\ ~stopped /\ lpc = "purge" /\ relayers[e] # None /\ e \notin wanted
    /\ old' = relayers[e]
    /\ relayers' = [relayers EXCEPT ![e] = None]
    /\ lpc' = "exit"
    /\ UNCHANGED <<total, made, todo, wanted, reloads, exit, count, stopped, ended, notes>>

(* Exit of the deleted relayer, whose send waits for main to receive.      *)
DeletedExit ==
    /\ ~stopped /\ lpc = "exit"
    /\ ended' = ended \cup {old}
    /\ lpc' = "done"
    /\ UNCHANGED <<relayers, total, made, todo, wanted, old, reloads, exit, count, stopped, notes>>

DeletedDone ==
    /\ ~stopped /\ lpc = "done" /\ Receives
    /\ count' = count + 1
    /\ old' = None /\ lpc' = "purge"
    /\ UNCHANGED <<relayers, total, made, todo, wanted, reloads, exit, stopped, ended, notes>>

Purged ==
    /\ ~stopped /\ lpc = "purge" /\ \A e \in Endpoints : relayers[e] # None => e \in wanted
    /\ lpc' = "idle"
    /\ UNCHANGED <<relayers, total, made, todo, wanted, old, reloads, exit, count, stopped, ended, notes>>

Reload ==
    \/ Configured \/ DeletedExit \/ DeletedDone \/ Purged
    \/ \E e \in Endpoints : Configure(e) \/ Delete(e)

-----------------------------------------------------------------------------
(* The goroutine of the exit signal, which does not take the mutex.        *)

ExitSignal ==
    /\ ~stopped /\ xpc = "idle"
    /\ asked' = TRUE
    /\ left' = Endpoints /\ xpc' = "iter"
    /\ overlapped' = (overlapped \/ lpc # "idle")
    /\ UNCHANGED <<relayers, total, made, reload, cur, count, stopped, ended, lost>>

(* An endpoint that is not in the map any more is not visited.             *)
Visit(e) ==
    /\ ~stopped /\ xpc = "iter" /\ e \in left
    /\ left' = left \ {e} /\ cur' = relayers[e]
    /\ xpc' = IF relayers[e] = None THEN "iter" ELSE "exit"
    /\ UNCHANGED <<relayers, total, made, reload, asked, count, stopped, ended, notes>>

RelayerExit ==
    /\ ~stopped /\ xpc = "exit"
    /\ ended' = ended \cup {cur}
    /\ xpc' = "done"
    /\ UNCHANGED <<relayers, total, made, reload, left, cur, asked, count, stopped, notes>>

RelayerDoneUnsent ==
    /\ ~stopped /\ xpc = "done"
    /\ cur' = None /\ xpc' = "iter"
    /\ UNCHANGED <<relayers, total, made, reload, left, asked, count, stopped, ended, notes>>

RelayerDone ==
    /\ ~stopped /\ xpc = "done" /\ Receives
    /\ count' = count + 1
    /\ cur' = None /\ xpc' = "iter"
    /\ UNCHANGED <<relayers, total, made, reload, left, asked, stopped, ended, notes>>

(* The next signal, for which it visits the map again.                     *)
Visited ==
    /\ ~stopped /\ xpc = "iter" /\ left = {}
    /\ xpc' = "idle"
    /\ UNCHANGED <<relayers, total, made, reload, left, cur, asked, count, stopped, ended, notes>>

Exit == RelayerExit \/ RelayerDone \/ Visited \/ \E e \in Endpoints : Visit(e)

(* The loop of main ends, and the program with it.                         *)
Stop ==
    /\ ~stopped /\ Receiving /\ count = total
    /\ stopped' = TRUE
    /\ UNCHANGED <<relayers, total, made, reload, exit, count, ended, notes>>

-----------------------------------------------------------------------------
Next == Reload \/ Exit \/ Stop \/ ExitSignal \/ \E es \in SUBSET Endpoints : ReloadSignal(es)

Spec == Init /\ [][Next]_vars

(* The goroutines run; no signal need come.                                *)
LiveSpec == Spec /\ WF_vars(Reload) /\ WF_vars(Exit) /\ WF_vars(Stop)

-----------------------------------------------------------------------------
(* The relayers main still waits for are the ones in the map, the one a    *)
(* reload is deleting, and those that were counted and did not start.      *)
CountMatches ==
    ~asked => total - count = Cardinality({e \in Endpoints : relayers[e] # None})
                                + Cardinality(lost) + (IF old = None THEN 0 ELSE 1)

(* The program does not stop before the Exit of every relayer in the map   *)
(* got to its end, in which relayers wait for their pending writes, if no  *)
(* exit signal met a reload: then a relayer may be ended, and counted,     *)
(* twice.  At any time before, main waits for the right number of them.    *)
StopsAfterExit ==
    /\ TypeOK /\ CountMatches
    /\ stopped /\ ~overlapped => \A e \in Endpoints : relayers[e] \in ended \cup {None}

(* Once an exit signal has come the program stops, unless the Start of a   *)
(* relayer that was counted has failed, or the signal met a reload.        *)
ExitStops == asked ~> (stopped \/ lost # {} \/ overlapped)
=============================================================================
