---------------------------- MODULE ClusterProofs ----------------------------
(***************************************************************************)
(* Proofs about Cluster for any nodes, slots, callers and starters: the    *)
(* maps never have two owners, and while the cluster is not available some *)
(* goroutine is at work to make it so.                                     *)
(***************************************************************************)
EXTENDS Cluster, TLAPS

(* The mutex is held around the dialling, by a starter that found the      *)
(* cluster not started; the one that started it goes on to run spin.       *)
LockedDial == \A i \in Starters : spc[i] = "dial" => lock = i /\ ~started
OneStarts ==
    /\ \A i \in Starters : spc[i] = "spin" => spins = 0 /\ started
    /\ \A i, j \in Starters : spc[i] = "spin" /\ spc[j] = "spin" => i = j
    /\ spins <= 1 /\ (spins > 0 => started)

Spinner == LockedDial /\ OneStarts

(* Before the cluster is started a starter that saw no other is at work,   *)
(* and if starting is set it has got into its loop: the starters that give *)
(* up after a failure saw it set.                                          *)
KeepsTrying ==
    ~started /\ ~closed =>
        /\ \E i \in Starters : spc[i] \in {"begin", "loop", "dial"} /\ ~other[i]
        /\ starting => \E i \in Starters : spc[i] \in {"loop", "dial"} /\ ~other[i]
        /\ (\E i \in Starters : other[i]) => starting

(* The flag ioMonitorRunning tells whether there is a monitor, which ends  *)
(* after it saw the cluster available; only a monitor says it is not.      *)
MonitorRuns == (running <=> mpc # "off") /\ (mpc = "exit" => ~faulty)
StartedWatched ==
    started /\ ~closed /\ faulty =>
        \/ \E i \in Starters : spc[i] \in {"spin", "reset", "resetting", "ok"}
        \/ mpc \in {"call", "checked", "reset", "resetting"}

Watched == KeepsTrying /\ MonitorRuns /\ StartedWatched

IndInv == TypeOK /\ Spinner /\ Watched

-----------------------------------------------------------------------------
(* What a reset, by whichever goroutine, leaves of the maps.               *)
LEMMA ResetTyped ==
    ASSUME TypeOK, NEW p \in pools, ResetUsing(p)
    PROVE  /\ mapping' \in [Slots -> Addrs] /\ pools' \subseteq Nodes /\ throttled' \subseteq Addrs
           /\ dead' \subseteq Callers /\ PoolsAfterReset \subseteq Nodes
<1>1. Handled \subseteq Slots /\ PoolsAfterReset \subseteq Nodes
  BY DEF Handled, PoolsAfterReset, TypeOK
<1>2. {topo[s] : s \in {r \in Handled : Fails(r)}} \subseteq Nodes
  BY <1>1 DEF TypeOK
<1> QED
  BY <1>1, <1>2 DEF ResetUsing, Empty, TypeOK, Addrs

LEMMA ResetAny ==
    ASSUME TypeOK, ResetOk \/ ResetFailed
    PROVE  /\ mapping' \in [Slots -> Addrs] /\ pools' \subseteq Nodes /\ throttled' \subseteq Addrs
           /\ dead' \subseteq Callers /\ ticker' \in BOOLEAN /\ stale' \subseteq Nodes
<1>1. CASE UNCHANGED <<maps, dead, stale>>
  BY <1>1 DEF maps, TypeOK
<1>2. CASE ResetDone
  BY <1>2, ResetTyped DEF ResetDone, TypeOK
<1>3. CASE ResetError
  BY <1>3 DEF ResetError, ResetUsingFails, Unreachable, TypeOK
<1> QED
  BY <1>1, <1>2, <1>3 DEF ResetOk, ResetFailed, ResetThrottled

(* Every step keeps the types.                                             *)
LEMMA TypeStep == ASSUME IndInv, Next PROVE TypeOK'
<1> USE ClusterAssumption DEF IndInv, Spinner, OneStarts, TypeOK, Addrs, servers, maps, flags, starters, closing, monitor, cmdArgs, cmds
<1>1. ASSUME NEW n \in Nodes, Down(n) PROVE TypeOK'
  BY <1>1 DEF Down
<1>2. ASSUME NEW n \in Nodes, Up(n) PROVE TypeOK'
  BY <1>2 DEF Up
<1>3. ASSUME NEW s \in Slots, NEW n \in Nodes, Migrate(s, n) PROVE TypeOK'
  BY <1>3 DEF Migrate
<1>4. ASSUME NEW s \in Slots, Migrated(s) PROVE TypeOK'
  BY <1>4 DEF Migrated
<1>5. ASSUME NEW i \in Starters, StartBegin(i) PROVE TypeOK'
  BY <1>5 DEF StartBegin
<1>6. ASSUME NEW i \in Starters, StartCheck(i) PROVE TypeOK'
  BY <1>6 DEF StartCheck, AlreadyDone
<1>7. ASSUME NEW i \in Starters, StartDial(i) PROVE TypeOK'
  BY <1>7 DEF StartDial, Empty
<1>8. ASSUME NEW i \in Starters, StartDialFails(i) PROVE TypeOK'
  BY <1>8 DEF StartDialFails
<1>9. ASSUME NEW i \in Starters, StartSpin(i) PROVE TypeOK'
  BY <1>9 DEF StartSpin
<1>10. ASSUME NEW i \in Starters, StartReset(i) PROVE TypeOK'
  BY <1>10 DEF StartReset
<1>30. ASSUME NEW i \in Starters, StartResetting(i) PROVE TypeOK'
  <2>1. /\ mapping' \in [Slots -> Addrs] /\ pools' \subseteq Nodes /\ throttled' \subseteq Addrs
        /\ dead' \subseteq Callers /\ ticker' \in BOOLEAN /\ stale' \subseteq Nodes
    BY <1>30, ResetAny DEF StartResetting
  <2> QED
    BY <1>30, <2>1 DEF StartResetting
<1>11. ASSUME NEW i \in Starters, StartOk(i) PROVE TypeOK'
  BY <1>11 DEF StartOk
<1>12. ASSUME NEW i \in Starters, ReloadStarts(i) PROVE TypeOK'
  BY <1>12 DEF ReloadStarts
<1>13. ASSUME MonitorCall PROVE TypeOK'
  <2>1. /\ mapping' \in [Slots -> Addrs] /\ pools' \subseteq Nodes /\ throttled' \subseteq Addrs
        /\ dead' \subseteq Callers /\ stale' \subseteq Nodes
    <3>1. CASE \E p \in pools : ResetUsing(p)
      BY <1>13, <3>1, ResetTyped DEF MonitorCall, MonitorRecovers, MonitorFails, MonitorMeetsStale,
         ResetUsingFails, Unreachable
    <3>2. CASE ~ \E p \in pools : ResetUsing(p)
      BY <1>13, <3>2 DEF MonitorCall, MonitorRecovers, MonitorFails, MonitorMeetsStale, ResetUsingFails, Unreachable
    <3> QED
      BY <3>1, <3>2
  <2>2. faulty' \in BOOLEAN
    BY <1>13 DEF MonitorCall, MonitorRecovers, MonitorFails, MonitorMeetsStale
  <2> QED
    BY <1>13, <2>1, <2>2 DEF MonitorCall
<1>14. ASSUME MonitorCheck PROVE TypeOK'
  BY <1>14 DEF MonitorCheck
<1>15. ASSUME MonitorReset PROVE TypeOK'
  BY <1>15 DEF MonitorReset
<1>31. ASSUME MonitorResetting PROVE TypeOK'
  BY <1>31, ResetAny DEF MonitorResetting
<1>16. ASSUME MonitorExit PROVE TypeOK'
  BY <1>16 DEF MonitorExit
<1>17. ASSUME ReloadResets PROVE TypeOK'
  BY <1>17, ResetAny DEF ReloadResets
<1>18. ASSUME Close PROVE TypeOK'
  BY <1>18 DEF Close
<1>19. ASSUME CloseCall PROVE TypeOK'
  BY <1>19 DEF CloseCall, Empty
<1>20. ASSUME CloseStop PROVE TypeOK'
  BY <1>20 DEF CloseStop
<1>21. ASSUME SpinReturns PROVE TypeOK'
  BY <1>21 DEF SpinReturns, Spinning
<1>22. ASSUME NEW k \in Callers, NEW s \in Slots, Cmd(k, s) PROVE TypeOK'
  BY <1>22 DEF Cmd, Goto
<1>23. ASSUME NEW k \in Callers, GetConn(k) PROVE TypeOK'
  BY <1>23 DEF GetConn, Goto, PoolFound, PoolMade, PoolThrottled, PoolFails, RandomPool, Given, AddrFor
<1>24. ASSUME NEW k \in Callers, Get(k) PROVE TypeOK'
  BY <1>24 DEF Get, GetError, Goto
<1>25. ASSUME NEW k \in Callers, ClientCmd(k) PROVE TypeOK'
  <2>1. CASE Succeeds(k)
    BY <1>25, <2>1 DEF ClientCmd, Goto, Succeeds
  <2>2. CASE Errs(k)
    <3>1. stale' \subseteq Nodes
      BY <2>2 DEF Errs, Unreachable
    <3>2. running' \in BOOLEAN /\ mpc' \in {"off", "call", "checked", "reset", "resetting", "exit"} /\ odd' \in BOOLEAN
      BY <2>2 DEF Errs, CheckFaulty
    <3> QED
      BY <1>25, <2>2, <3>1, <3>2 DEF ClientCmd, Goto, Errs
  <2>3. ASSUME NEW a \in Addrs, NEW b \in BOOLEAN, Redirect(k, a, b) PROVE TypeOK'
    <3>2. running' \in BOOLEAN /\ mpc' \in {"off", "call", "checked", "reset", "resetting", "exit"} /\ odd' \in BOOLEAN
      BY <2>3 DEF Redirect, CheckFaulty
    <3> QED
      BY <1>25, <2>3, <3>2 DEF ClientCmd, Goto, Redirect
  <2>4. topo[slot[k]] \in Addrs /\ importing[slot[k]] \in Addrs
    OBVIOUS
  <2> QED
    BY <1>25, <2>1, <2>2, <2>3, <2>4 DEF ClientCmd, Moved, Ask
<1>26. ASSUME NEW k \in Callers, Miss(k) PROVE TypeOK'
  BY <1>26 DEF Miss, Goto
<1>27. ASSUME NEW k \in Callers, Reset(k) PROVE TypeOK'
  <2>1. /\ mapping' \in [Slots -> Addrs] /\ pools' \subseteq Nodes /\ throttled' \subseteq Addrs
        /\ dead' \subseteq Callers /\ ticker' \in BOOLEAN /\ stale' \subseteq Nodes
    BY <1>27 DEF Reset
  <2>2. pc' \in [Callers -> {"idle", "conn", "get", "cmd", "miss", "reset", "resetting", "put", "unwind", "panic"}]
    BY <1>27 DEF Reset, Repeats, Goto
  <2>3. \/ haveReset' = [haveReset EXCEPT ![k] = TRUE] /\ outer' = [outer EXCEPT ![k] = conn[k]]
        \/ haveReset' = haveReset /\ outer' = outer
    BY <1>27 DEF Reset, Repeats
  <2>4. haveReset' \in [Callers -> BOOLEAN]
    BY <2>3
  <2>5. outer' \in [Callers -> Addrs]
    BY <2>3
  <2> QED
    BY <1>27, <2>1, <2>2, <2>4, <2>5 DEF Reset
<1>32. ASSUME NEW k \in Callers, Resetting(k) PROVE TypeOK'
  <2>1. /\ mapping' \in [Slots -> Addrs] /\ pools' \subseteq Nodes /\ throttled' \subseteq Addrs
        /\ dead' \subseteq Callers /\ ticker' \in BOOLEAN /\ stale' \subseteq Nodes
    BY <1>32, ResetAny DEF Resetting
  <2>2. pc' \in [Callers -> {"idle", "conn", "get", "cmd", "miss", "reset", "resetting", "put", "unwind", "panic"}]
    BY <1>32 DEF Resetting, Repeats, Goto
  <2>3. \/ haveReset' = [haveReset EXCEPT ![k] = TRUE] /\ outer' = [outer EXCEPT ![k] = conn[k]]
        \/ haveReset' = haveReset /\ outer' = outer
    BY <1>32 DEF Resetting, Repeats
  <2>4. haveReset' \in [Callers -> BOOLEAN]
    BY <2>3
  <2>5. outer' \in [Callers -> Addrs]
    BY <2>3
  <2> QED
    BY <1>32, <2>1, <2>2, <2>4, <2>5 DEF Resetting
<1>28. ASSUME NEW k \in Callers, Put(k) PROVE TypeOK'
  BY <1>28 DEF Put, Goto
<1>29. ASSUME NEW k \in Callers, PutOuter(k) PROVE TypeOK'
  BY <1>29 DEF PutOuter, Goto
<1> QED
  BY <1>1, <1>2, <1>3, <1>4, <1>5, <1>6, <1>7, <1>8, <1>9, <1>10, <1>11, <1>12, <1>13, <1>14, <1>15, <1>16, <1>17, <1>18, <1>19, <1>20, <1>21, <1>22, <1>23, <1>24, <1>25, <1>26, <1>27, <1>28, <1>29, <1>30, <1>31, <1>32
     DEF Next, Starter, Monitor, Closing, Caller

-----------------------------------------------------------------------------
(* Every step keeps the starters to one that runs spin.                    *)
LEMMA SpinnerStep == ASSUME IndInv, Next PROVE Spinner'
<1>0. /\ spc = [i \in Starters |-> spc[i]] /\ spins \in Nat /\ Spinner
      /\ \A i \in Starters : i # 0
  BY DEF IndInv, TypeOK, Starters
<1> USE <1>0 DEF Spinner, LockedDial, OneStarts, flags, starters
<1>1. ASSUME NEW i \in Starters, StartBegin(i) PROVE Spinner'
  BY <1>1 DEF StartBegin
<1>2. ASSUME NEW i \in Starters, StartCheck(i) PROVE Spinner'
  BY <1>2 DEF StartCheck, AlreadyDone
<1>3. ASSUME NEW i \in Starters, StartDial(i) PROVE Spinner'
  BY <1>3 DEF StartDial
<1>4. ASSUME NEW i \in Starters, StartDialFails(i) PROVE Spinner'
  BY <1>4 DEF StartDialFails
<1>5. ASSUME NEW i \in Starters, StartSpin(i) PROVE Spinner'
  BY <1>5 DEF StartSpin
<1>6. ASSUME NEW i \in Starters, StartReset(i) \/ StartResetting(i) PROVE Spinner'
  BY <1>6 DEF StartReset, StartResetting
<1>7. ASSUME NEW i \in Starters, StartOk(i) PROVE Spinner'
  BY <1>7 DEF StartOk
<1>8. ASSUME NEW i \in Starters, ReloadStarts(i) PROVE Spinner'
  BY <1>8 DEF ReloadStarts
<1>9. ASSUME SpinReturns PROVE Spinner'
  BY <1>9 DEF SpinReturns, Spinning
<1>10. ASSUME Close PROVE Spinner'
  BY <1>10 DEF Close
<1>11. ASSUME NEW n \in Nodes, Down(n) \/ Up(n) PROVE Spinner'
  BY <1>11 DEF Down, Up
<1>12. ASSUME NEW s \in Slots, Migrated(s) \/ \E n \in Nodes : Migrate(s, n) PROVE Spinner'
  BY <1>12 DEF Migrated, Migrate
<1>13. ASSUME MonitorCall \/ MonitorCheck PROVE Spinner'
  BY <1>13 DEF MonitorCall, MonitorCheck
<1>14. ASSUME MonitorReset \/ MonitorResetting \/ MonitorExit PROVE Spinner'
  BY <1>14 DEF MonitorReset, MonitorResetting, MonitorExit
<1>15. ASSUME ReloadResets \/ CloseCall \/ CloseStop PROVE Spinner'
  BY <1>15 DEF ReloadResets, CloseCall, CloseStop
<1>16. ASSUME NEW k \in Callers, GetConn(k) \/ Get(k) \/ ClientCmd(k) PROVE Spinner'
  BY <1>16 DEF GetConn, Get, ClientCmd
<1>17. ASSUME NEW k \in Callers, Miss(k) \/ Reset(k) \/ Resetting(k) \/ Put(k) \/ PutOuter(k) PROVE Spinner'
  BY <1>17 DEF Miss, Reset, Resetting, Put, PutOuter
<1>18. ASSUME NEW k \in Callers, NEW s \in Slots, Cmd(k, s) PROVE Spinner'
  BY <1>18 DEF Cmd
<1> QED
  BY <1>1, <1>2, <1>3, <1>4, <1>5, <1>6, <1>7, <1>8, <1>9, <1>10, <1>11, <1>12, <1>13, <1>14, <1>15, <1>16, <1>17, <1>18
     DEF Next, Starter, Monitor, Closing, Caller

(* Every step keeps somebody at work while the cluster is not available.   *)
LEMMA WatchedStep == ASSUME IndInv, Next PROVE Watched'
<1>0. /\ spc = [i \in Starters |-> spc[i]] /\ other = [i \in Starters |-> other[i]] /\ Spinner /\ Watched
      /\ \A i \in Starters : other[i] \in BOOLEAN
  BY DEF IndInv, TypeOK
<1>t. {faulty, running, starting, started, closed} \subseteq BOOLEAN
  BY DEF IndInv, TypeOK
<1> USE <1>0, <1>t DEF Spinner, LockedDial, OneStarts, Watched, KeepsTrying, MonitorRuns, StartedWatched, flags, starters, monitor
<1>1. ASSUME NEW i \in Starters, StartBegin(i) PROVE Watched'
  BY <1>1 DEF StartBegin
<1>2. ASSUME NEW i \in Starters, StartCheck(i) PROVE Watched'
  BY <1>2 DEF StartCheck, AlreadyDone
<1>3. ASSUME NEW i \in Starters, StartDial(i) PROVE Watched'
  BY <1>3 DEF StartDial
<1>4. ASSUME NEW i \in Starters, StartDialFails(i) PROVE Watched'
  BY <1>4 DEF StartDialFails
<1>5. ASSUME NEW i \in Starters, StartSpin(i) PROVE Watched'
  BY <1>5 DEF StartSpin
<1>6. ASSUME NEW i \in Starters, StartReset(i) \/ StartResetting(i) PROVE Watched'
  BY <1>6 DEF StartReset, StartResetting
<1>7. ASSUME NEW i \in Starters, StartOk(i) PROVE Watched'
  BY <1>7 DEF StartOk
<1>8. ASSUME NEW i \in Starters, ReloadStarts(i) PROVE Watched'
  BY <1>8 DEF ReloadStarts
<1>9. ASSUME SpinReturns PROVE Watched'
  BY <1>9 DEF SpinReturns, Spinning
<1>10. ASSUME Close PROVE Watched'
  BY <1>10 DEF Close
<1>11. ASSUME NEW n \in Nodes, Down(n) \/ Up(n) PROVE Watched'
  BY <1>11 DEF Down, Up
<1>12. ASSUME NEW s \in Slots, Migrated(s) \/ \E n \in Nodes : Migrate(s, n) PROVE Watched'
  BY <1>12 DEF Migrated, Migrate
<1>13. ASSUME MonitorCall PROVE Watched'
  BY <1>13 DEF MonitorCall, MonitorRecovers, MonitorFails, MonitorMeetsStale
<1>14. ASSUME MonitorCheck PROVE Watched'
  BY <1>14 DEF MonitorCheck
<1>15. ASSUME MonitorReset \/ MonitorResetting PROVE Watched'
  BY <1>15 DEF MonitorReset, MonitorResetting
<1>16. ASSUME MonitorExit PROVE Watched'
  BY <1>16 DEF MonitorExit
<1>17. ASSUME ReloadResets \/ CloseCall \/ CloseStop PROVE Watched'
  BY <1>17 DEF ReloadResets, CloseCall, CloseStop
<1>18. ASSUME NEW k \in Callers, GetConn(k) \/ Get(k) PROVE Watched'
  BY <1>18 DEF GetConn, Get
<1>19. ASSUME NEW k \in Callers, ClientCmd(k) PROVE Watched'
  BY <1>19 DEF ClientCmd, Succeeds, Errs, Moved, Ask, Redirect, CheckFaulty
<1>20. ASSUME NEW k \in Callers, Miss(k) \/ Reset(k) \/ Resetting(k) \/ Put(k) \/ PutOuter(k) PROVE Watched'
  BY <1>20 DEF Miss, Reset, Resetting, Put, PutOuter
<1>21. ASSUME NEW k \in Callers, NEW s \in Slots, Cmd(k, s) PROVE Watched'
  BY <1>21 DEF Cmd
<1> QED
  BY <1>1, <1>2, <1>3, <1>4, <1>5, <1>6, <1>7, <1>8, <1>9, <1>10, <1>11, <1>12, <1>13, <1>14, <1>15, <1>16, <1>17, <1>18, <1>19, <1>20, <1>21
     DEF Next, Starter, Monitor, Closing, Caller

(* The cluster starts in the invariant, the first starter about to begin.  *)
LEMMA InitInd == Init => IndInv
<1> SUFFICES ASSUME Init PROVE IndInv
  OBVIOUS
<1>1. TypeOK
  <2>1. /\ up \subseteq Nodes /\ stale \subseteq Nodes /\ downs \in 0..MaxDowns /\ moves \in 0..MaxMoves
        /\ topo \in [Slots -> Nodes] /\ importing \in [Slots -> Addrs] /\ mapping \in [Slots -> Addrs]
        /\ pools \subseteq Nodes /\ throttled \subseteq Addrs
    BY ClusterAssumption DEF Init, Addrs
  <2>2. {ticker, faulty, running, starting, started, closed, stopCh, odd} \subseteq BOOLEAN
    BY DEF Init
  <2>3. /\ lock \in Starters \cup {0} /\ other \in [Starters -> BOOLEAN] /\ spins \in Nat
        /\ spc \in [Starters -> {"off", "begin", "loop", "dial", "spin", "reset", "resetting", "ok", "done"}]
    BY DEF Init
  <2>4. /\ pc \in [Callers -> {"idle", "conn", "get", "cmd", "miss", "reset", "resetting", "put", "unwind", "panic"}]
        /\ slot \in [Callers -> Slots] /\ dead \subseteq Callers
    BY ClusterAssumption DEF Init, Slots
  <2>5. /\ asking \in [Callers -> BOOLEAN] /\ haveReset \in [Callers -> BOOLEAN]
        /\ {target, handle, conn, outer} \subseteq [Callers -> Addrs]
    BY DEF Init, Addrs
  <2>6. xpc \in {"open", "call", "stop", "done"} /\ mpc \in {"off", "call", "checked", "reset", "resetting", "exit"}
    BY DEF Init
  <2> QED
    BY <2>1, <2>2, <2>3, <2>4, <2>5, <2>6 DEF TypeOK
<1>2. Spinner
  BY ClusterAssumption DEF Init, Spinner, LockedDial, OneStarts
<1>3. Watched
  <2>1. 1 \in Starters /\ spc[1] = "begin" /\ ~other[1] /\ ~starting /\ \A i \in Starters : ~other[i]
    BY ClusterAssumption DEF Init, Starters
  <2> QED
    BY <2>1 DEF Init, Watched, KeepsTrying, MonitorRuns, StartedWatched
<1> QED
  BY <1>1, <1>2, <1>3 DEF IndInv

(* The invariant holds in every state of the cluster client.               *)
LEMMA Invariance == Spec => []IndInv
<1>1. IndInv /\ [Next]_vars => IndInv'
  <2> SUFFICES ASSUME IndInv, [Next]_vars PROVE IndInv'
    OBVIOUS
  <2>1. CASE Next
    BY <2>1, TypeStep, SpinnerStep, WatchedStep DEF IndInv
  <2>2. CASE UNCHANGED vars
    BY <2>2 DEF vars, servers, maps, flags, starters, closing, monitor, cmds, cmdArgs, IndInv, TypeOK,
       Spinner, LockedDial, OneStarts, Watched, KeepsTrying, MonitorRuns, StartedWatched
  <2> QED
    BY <2>1, <2>2
<1> QED
  BY <1>1, InitInd, PTL DEF Spec

(* However many goroutines run startWithRetry, at most one runs spin, and  *)
(* none dials the seed into the maps while it runs.                        *)
THEOREM OneSpinnerAlways == Spec => []OneSpinner
<1>1. IndInv => OneSpinner
  BY DEF IndInv, OneSpinner, Spinner, LockedDial, OneStarts, Spinning
<1> QED
  BY <1>1, Invariance, PTL

(* A cluster that is not available, and not closed, is being started by a  *)
(* starter that does not give up, or checked by the one monitor.           *)
THEOREM FaultyIsWatchedAlways == Spec => []FaultyIsWatched
<1>1. IndInv => FaultyIsWatched
  BY DEF IndInv, TypeOK, FaultyIsWatched, Watched, KeepsTrying, MonitorRuns, StartedWatched
<1> QED
  BY <1>1, Invariance, PTL
=============================================================================
