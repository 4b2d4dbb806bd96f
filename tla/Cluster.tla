------------------------------ MODULE Cluster ------------------------------
(***************************************************************************)
(* The Redis Cluster client (redis/radix.improved/cluster/cluster.go) and  *)
(* the goroutines of a cluster relayer that use it.  The maps of pools and *)
(* of slots belong to the goroutine spin, which runs the closures sent     *)
(* through the unbuffered callCh one at a time; startWithRetry starts it,  *)
(* faultyMonitor checks the nodes after an error, Close stops it.  A pool  *)
(* is reduced to the address of its node (ConnPool models its inside).     *)
(* Faulty variants of some definitions, used by no other, stand before     *)
(* them: AlreadyClosed, MonitorForgets and GetErrorRetries are mutants the *)
(* properties must detect.                                                 *)
(***************************************************************************)
EXTENDS Integers, FiniteSets

CONSTANTS
    Nodes,         \* addresses of the nodes
    Seed,          \* Opts.Addr, the node given in the configuration
    NumSlots,      \* number of groups of slots CLUSTER SLOTS reports
    Topology,      \* the node that owns each group, at the start
    Callers,       \* goroutines of the relayer that call Cmd
    MaxStarters,   \* bound: goroutines running startWithRetry
    MaxDowns,      \* bound: failures of nodes
    MaxMoves,      \* bound: migrations of slots
    MayClose       \* whether the relayer may call Close

Slots == 1..NumSlots
NoAddr == "none"
Addrs == Nodes \cup {NoAddr}
Starters == 1..MaxStarters

ASSUME ClusterAssumption ==
    /\ NoAddr \notin Nodes /\ Seed \in Nodes
    /\ NumSlots \in Nat \ {0} /\ Topology \in [Slots -> Nodes]
    /\ MaxStarters \in Nat \ {0} /\ MaxDowns \in Nat /\ MaxMoves \in Nat
    /\ MayClose \in BOOLEAN

VARIABLES
    up, stale, downs,            \* nodes reachable, nodes whose pool kept a broken connection, failures
    topo, importing, moves,      \* owners of the slots, nodes that import them, migrations
    mapping, pools, throttled,   \* c.mapping, the keys of c.pools and of c.poolThrottles
    ticker,                      \* c.resetThrottle was created
    faulty, running,             \* c.ioError and c.ioMonitorRunning
    starting, started, closed,   \* the flags of the same names
    lock, spc, other,            \* startWithRetry: c.Mutex, program counters, otherStarting
    spins, stopCh, xpc,          \* spin goroutines, whether stopCh is closed, pc of Close
    mpc, odd,                    \* faultyMonitor: program counter, parity of failures
    pc, slot, target, asking, haveReset, handle, dead, conn, outer  \* the calls of Cmd

servers == <<up, stale, downs, topo, importing, moves>>
maps == <<mapping, pools, throttled, ticker>>
flags == <<starting, started, closed, lock>>
starters == <<spc, other, spins>>
closing == <<stopCh, xpc>>
monitor == <<mpc, odd>>
cmdArgs == <<slot, target, asking, haveReset, conn, outer>>
cmds == <<pc, handle, cmdArgs>>
vars == <<servers, maps, faulty, running, flags, starters, closing, monitor, cmds, dead>>

(* The type invariant of the cluster client.                               *)
TypeOK ==
    /\ up \subseteq Nodes /\ stale \subseteq Nodes /\ downs \in 0..MaxDowns
    /\ topo \in [Slots -> Nodes] /\ importing \in [Slots -> Addrs] /\ moves \in 0..MaxMoves
    /\ mapping \in [Slots -> Addrs] /\ pools \subseteq Nodes /\ throttled \subseteq Addrs
    /\ {ticker, faulty, running, starting, started, closed, stopCh, odd} \subseteq BOOLEAN
    /\ lock \in Starters \cup {0} /\ other \in [Starters -> BOOLEAN]
    /\ spc \in [Starters -> {"off", "begin", "loop", "dial", "spin", "reset", "resetting", "ok", "done"}]
    /\ spins \in Nat /\ xpc \in {"open", "call", "stop", "done"}
    /\ mpc \in {"off", "call", "checked", "reset", "resetting", "exit"}
    /\ pc \in [Callers -> {"idle", "conn", "get", "cmd", "miss", "reset", "resetting", "put", "unwind", "panic"}]
    /\ slot \in [Callers -> Slots] /\ dead \subseteq Callers
    /\ asking \in [Callers -> BOOLEAN] /\ haveReset \in [Callers -> BOOLEAN]
    /\ {target, handle, conn, outer} \subseteq [Callers -> Addrs]

(* NewWithOpts.                                                            *)
Init ==
    /\ up = Nodes /\ stale = {} /\ downs = 0
    /\ topo = Topology /\ importing = [s \in Slots |-> NoAddr] /\ moves = 0
    /\ mapping = [s \in Slots |-> NoAddr] /\ pools = {} /\ throttled = {} /\ ticker = FALSE
    /\ faulty = TRUE /\ running = FALSE
    /\ starting = FALSE /\ started = FALSE /\ closed = FALSE /\ lock = 0
    /\ spc = [i \in Starters |-> IF i = 1 THEN "begin" ELSE "off"]
    /\ other = [i \in Starters |-> FALSE]
    /\ spins = 0 /\ stopCh = FALSE /\ xpc = "open"
    /\ mpc = "off" /\ odd = FALSE
    /\ pc = [k \in Callers |-> "idle"] /\ slot = [k \in Callers |-> 1]
    /\ asking = [k \in Callers |-> FALSE] /\ haveReset = [k \in Callers |-> FALSE]
    /\ handle = [k \in Callers |-> NoAddr] /\ target = handle /\ conn = handle /\ outer = handle
    /\ dead = {}

-----------------------------------------------------------------------------
(* The servers.                                                            *)

Down(n) ==
    /\ n \in up /\ downs < MaxDowns
    /\ up' = up \ {n} /\ stale' = stale \cup {n} /\ downs' = downs + 1
    /\ UNCHANGED <<topo, importing, moves, maps, faulty, running, flags, starters, closing, monitor, cmds, dead>>

Up(n) ==
    /\ n \notin up
    /\ up' = up \cup {n}
    /\ UNCHANGED <<stale, downs, topo, importing, moves, maps, faulty, running, flags, starters, closing, monitor, cmds, dead>>

Migrate(s, n) ==
    /\ moves < MaxMoves /\ importing[s] = NoAddr /\ n # topo[s]
    /\ importing' = [importing EXCEPT ![s] = n] /\ moves' = moves + 1
    /\ UNCHANGED <<up, stale, downs, topo, maps, faulty, running, flags, starters, closing, monitor, cmds, dead>>

Migrated(s) ==
    /\ importing[s] # NoAddr
    /\ topo' = [topo EXCEPT ![s] = importing[s]]
    /\ importing' = [importing EXCEPT ![s] = NoAddr]
    /\ UNCHANGED <<up, stale, downs, moves, maps, faulty, running, flags, starters, closing, monitor, cmds, dead>>

(* Talking to node n fails, with what is left in stale afterwards.         *)
Unreachable(n, left) ==
    \/ n \notin up /\ left = stale
    \/ n \in stale /\ left = stale \ {n}

-----------------------------------------------------------------------------
(* What the closures run by spin do.                                       *)

Spinning == spins > 0

(* The callers that were given a pool which is then emptied.               *)
Empty(ps) == dead' = dead \cup {k \in Callers : pc[k] = "get" /\ handle[k] \in ps}

(* resetInnerUsingPool with the pool of p: the groups are handled in order *)
(* until newPool fails for one.  Its err is not the one tested at the end, *)
(* so the pools of the groups before it become the pools.                  *)
Fails(s) == topo[s] \notin pools /\ topo[s] \notin up
Handled == {s \in Slots : \A r \in 1..(s - 1) : ~Fails(r)}
PoolsAfterReset == {topo[s] : s \in {r \in Handled : ~Fails(r)}}

ResetUsing(p) ==
    /\ p \in up
    /\ mapping' = [s \in Slots |-> IF s \in Handled THEN topo[s] ELSE mapping[s]]
    /\ pools' = PoolsAfterReset
    /\ throttled' = (throttled \ ((PoolsAfterReset \ pools) \cup (pools \ PoolsAfterReset)))
                        \cup {topo[s] : s \in {r \in Handled : Fails(r)}}
    /\ Empty(pools \ PoolsAfterReset)

(* CLUSTER SLOTS could not be asked.                                       *)
ResetUsingFails(p) ==
    /\ Unreachable(p, stale')
    /\ UNCHANGED <<mapping, pools, throttled, dead>>

(* resetInner: does nothing when throttled.                                *)
ResetThrottled == ticker /\ UNCHANGED <<maps, dead, stale>>
ResetDone == ticker' = TRUE /\ UNCHANGED stale /\ \E p \in pools : ResetUsing(p)
ResetError ==
    /\ ticker' = TRUE
    /\ \/ pools = {} /\ UNCHANGED <<mapping, pools, throttled, dead, stale>>
       \/ \E p \in pools : ResetUsingFails(p)

(* The closure of Reset, sent to spin after the cluster was found started  *)
(* and not closed; it may be closed by the time the closure runs.          *)
ResetOk == Spinning /\ (ResetThrottled \/ ResetDone)
ResetFailed == Spinning /\ ResetError

-----------------------------------------------------------------------------
(* startWithRetry.                                                         *)

StartBegin(i) ==
    /\ spc[i] = "begin" /\ lock = 0
    /\ other' = [other EXCEPT ![i] = starting]
    /\ spc' = [spc EXCEPT ![i] = "loop"]
    /\ UNCHANGED <<servers, maps, faulty, running, flags, spins, closing, monitor, cmds, dead>>

AlreadyClosed == closed
AlreadyDone == closed \/ started

StartCheck(i) ==
    /\ spc[i] = "loop" /\ lock = 0
    /\ starting' = TRUE
    /\ lock' = IF AlreadyDone THEN 0 ELSE i
    /\ spc' = [spc EXCEPT ![i] = IF AlreadyDone THEN "done" ELSE "dial"]
    /\ UNCHANGED <<servers, maps, faulty, running, started, closed, other, spins, closing, monitor, cmds, dead>>

StartDial(i) ==
    /\ spc[i] = "dial" /\ Seed \in up
    /\ pools' = pools \cup {Seed} /\ throttled' = throttled \ {Seed}
    /\ Empty({Seed})
    /\ starting' = FALSE /\ started' = TRUE /\ lock' = 0
    /\ spc' = [spc EXCEPT ![i] = "spin"]
    /\ UNCHANGED <<servers, mapping, ticker, faulty, running, closed, other, spins, closing, monitor, cmds>>

(* Only one goroutine goes on retrying.                                    *)
StartDialFails(i) ==
    /\ spc[i] = "dial" /\ Seed \notin up
    /\ throttled' = throttled \cup {Seed}
    /\ lock' = 0
    /\ spc' = [spc EXCEPT ![i] = IF other[i] THEN "done" ELSE "loop"]
    /\ UNCHANGED <<servers, mapping, pools, ticker, faulty, running, starting, started, closed, other, spins, closing, monitor, cmds, dead>>

StartSpin(i) ==
    /\ spc[i] = "spin"
    /\ spins' = spins + 1
    /\ spc' = [spc EXCEPT ![i] = "reset"]
    /\ UNCHANGED <<servers, maps, faulty, running, flags, other, closing, monitor, cmds, dead>>

(* The closed that is read here, and again by Reset.                       *)
StartReset(i) ==
    /\ spc[i] = "reset"
    /\ spc' = [spc EXCEPT ![i] = IF closed THEN "done" ELSE "resetting"]
    /\ UNCHANGED <<servers, maps, faulty, running, flags, other, spins, closing, monitor, cmds, dead>>

StartResetting(i) ==
    /\ spc[i] = "resetting"
    /\ \/ closed /\ spc' = [spc EXCEPT ![i] = "ok"] /\ UNCHANGED <<maps, dead, stale>>
       \/ ResetOk /\ spc' = [spc EXCEPT ![i] = "ok"]
       \/ ResetFailed /\ spc' = [spc EXCEPT ![i] = "reset"]
    /\ UNCHANGED <<up, downs, topo, importing, moves, faulty, running, flags, other, spins, closing, monitor, cmds>>

StartOk(i) ==
    /\ spc[i] = "ok"
    /\ faulty' = FALSE
    /\ spc' = [spc EXCEPT ![i] = "done"]
    /\ UNCHANGED <<servers, maps, running, flags, other, spins, closing, monitor, cmds, dead>>

Starter(i) ==
    \/ StartBegin(i) \/ StartCheck(i) \/ StartDial(i) \/ StartDialFails(i)
    \/ StartSpin(i) \/ StartReset(i) \/ StartResetting(i) \/ StartOk(i)

-----------------------------------------------------------------------------
(* faultyMonitor.                                                          *)

Healthy(ps) == ps # {} /\ ps \subseteq up

(* All nodes answer cluster_state:ok; one that is reachable may not while  *)
(* it misses an owner of slots.                                            *)
StateOk == \A s \in Slots : topo[s] \in up

(* The closure: reset, then ask every node for CLUSTER INFO.               *)
MonitorRecovers ==
    /\ \E p \in pools : ResetUsing(p)
    /\ Healthy(PoolsAfterReset)
    /\ faulty' = FALSE
    /\ UNCHANGED stale

MonitorFails ==
    /\ \/ pools = {} /\ UNCHANGED <<mapping, pools, throttled, dead, stale>>
       \/ \E p \in pools : ResetUsingFails(p)
       \/ (\E p \in pools : ResetUsing(p)) /\ (~Healthy(PoolsAfterReset) \/ ~StateOk) /\ UNCHANGED stale
    /\ faulty' = TRUE

(* A node answered through a broken connection, which is given up.         *)
MonitorMeetsStale ==
    /\ \E p \in pools : ResetUsing(p)
    /\ \E n \in stale \cap PoolsAfterReset : stale' = stale \ {n}
    /\ faulty' = TRUE

MonitorCall ==
    /\ mpc = "call" /\ Spinning
    /\ MonitorRecovers \/ MonitorFails \/ MonitorMeetsStale
    /\ mpc' = "checked"
    /\ UNCHANGED <<up, downs, topo, importing, moves, ticker, running, flags, starters, closing, odd, cmds>>

MonitorForgets ==
    /\ mpc = "checked"
    /\ mpc' = "exit"
    /\ UNCHANGED <<servers, maps, faulty, running, flags, starters, closing, odd, cmds, dead>>

(* After every second failure it calls Reset too.                          *)
MonitorCheck ==
    /\ mpc = "checked"
    /\ mpc' = IF ~faulty THEN "exit" ELSE IF odd THEN "reset" ELSE "call"
    /\ odd' = (faulty /\ ~odd)
    /\ UNCHANGED <<servers, maps, faulty, running, flags, starters, closing, cmds, dead>>

MonitorReset ==
    /\ mpc = "reset"
    /\ mpc' = IF closed THEN "call" ELSE "resetting"
    /\ UNCHANGED <<servers, maps, faulty, running, flags, starters, closing, odd, cmds, dead>>

MonitorResetting ==
    /\ mpc = "resetting"
    /\ ResetOk \/ ResetFailed
    /\ mpc' = "call"
    /\ UNCHANGED <<up, downs, topo, importing, moves, faulty, running, flags, starters, closing, odd, cmds>>

MonitorExit ==
    /\ mpc = "exit"
    /\ running' = FALSE /\ mpc' = "off"
    /\ UNCHANGED <<servers, maps, faulty, flags, starters, closing, odd, cmds, dead>>

Monitor == MonitorCall \/ MonitorCheck \/ MonitorReset \/ MonitorResetting \/ MonitorExit

(* checkFaulty starts the monitor unless it is running.                    *)
CheckFaulty ==
    /\ running' = TRUE
    /\ mpc' = IF running THEN mpc ELSE "call"
    /\ UNCHANGED odd

-----------------------------------------------------------------------------
(* Cmd, getConn, clientCmd and Put, called by goroutine k.                 *)

Goto(k, l) == pc' = [pc EXCEPT ![k] = l]

(* A command on a key of slot s; refused at once while faulty.             *)
Cmd(k, s) ==
    /\ pc[k] = "idle" /\ ~faulty
    /\ slot' = [slot EXCEPT ![k] = s] /\ target' = [target EXCEPT ![k] = NoAddr]
    /\ asking' = [asking EXCEPT ![k] = FALSE] /\ haveReset' = [haveReset EXCEPT ![k] = FALSE]
    /\ Goto(k, "conn")
    /\ UNCHANGED <<servers, maps, faulty, running, flags, starters, closing, monitor, handle, dead, conn, outer>>

AddrFor(k) == IF target[k] = NoAddr THEN mapping[slot[k]] ELSE target[k]
Given(k, a) == handle' = [handle EXCEPT ![k] = a]

(* getConn's closure: the pool of the address, a new one, or a random one. *)
PoolFound(k) ==
    /\ AddrFor(k) \in pools /\ Given(k, AddrFor(k))
    /\ UNCHANGED <<pools, throttled>>

PoolMade(k) ==
    /\ AddrFor(k) \in up \ pools /\ Given(k, AddrFor(k))
    /\ pools' = pools \cup {AddrFor(k)} /\ throttled' = throttled \ {AddrFor(k)}

RandomPool(k) == IF pools = {} THEN Given(k, NoAddr) ELSE \E a \in pools : Given(k, a)
PoolThrottled(k) ==
    /\ AddrFor(k) \in throttled \ pools /\ RandomPool(k)
    /\ UNCHANGED <<pools, throttled>>

PoolFails(k) ==
    /\ AddrFor(k) \notin up \cup pools /\ RandomPool(k)
    /\ throttled' = throttled \cup {AddrFor(k)}
    /\ UNCHANGED pools

GetConn(k) ==
    /\ pc[k] = "conn" /\ Spinning
    /\ PoolFound(k) \/ PoolMade(k) \/ PoolThrottled(k) \/ PoolFails(k)
    /\ dead' = dead \ {k} /\ Goto(k, "get")
    /\ UNCHANGED <<servers, mapping, ticker, faulty, running, flags, starters, closing, monitor, cmdArgs>>

(* Get on the pool, outside spin: nil, emptied, or a connection.           *)
GetErrorRetries(k) ==
    /\ handle[k] # NoAddr /\ (k \in dead \/ handle[k] \notin up)
    /\ UNCHANGED <<pc, conn>>

GetError(k) ==
    /\ handle[k] # NoAddr /\ (k \in dead \/ handle[k] \notin up)
    /\ Goto(k, IF outer[k] = NoAddr THEN "idle" ELSE "unwind")
    /\ UNCHANGED conn

Get(k) ==
    /\ pc[k] = "get"
    /\ \/ handle[k] = NoAddr /\ Goto(k, "panic") /\ UNCHANGED conn
       \/ GetError(k)
       \/ /\ handle[k] # NoAddr /\ k \notin dead
          /\ conn' = [conn EXCEPT ![k] = handle[k]] /\ Goto(k, "cmd")
    /\ UNCHANGED <<servers, maps, faulty, running, flags, starters, closing, monitor, handle, dead, slot, target, asking, haveReset, outer>>

Owns(k) == topo[slot[k]] = conn[k]
Serves(k) == Owns(k) \/ (asking[k] /\ importing[slot[k]] = conn[k])

(* client.Cmd: a reply without error, an IOErr or an application error ... *)
Succeeds(k) ==
    /\ conn[k] \in up /\ Serves(k)
    /\ Goto(k, "put")
    /\ UNCHANGED <<running, monitor, stale, target, asking>>

Errs(k) ==
    /\ Unreachable(conn[k], stale') \/ (conn[k] \in up /\ Serves(k) /\ UNCHANGED stale)
    /\ CheckFaulty /\ Goto(k, "put")
    /\ UNCHANGED <<target, asking>>

(* ... or MOVED or ASK.                                                    *)
Redirect(k, addr, ask) ==
    /\ conn[k] \in up
    /\ target' = [target EXCEPT ![k] = addr] /\ asking' = [asking EXCEPT ![k] = ask]
    /\ CheckFaulty /\ Goto(k, "miss")
    /\ UNCHANGED stale

Moved(k) == ~Serves(k) /\ Redirect(k, topo[slot[k]], FALSE)
Ask(k) == Owns(k) /\ importing[slot[k]] # NoAddr /\ Redirect(k, importing[slot[k]], TRUE)

ClientCmd(k) ==
    /\ pc[k] = "cmd"
    /\ Succeeds(k) \/ Errs(k) \/ Moved(k) \/ Ask(k)
    /\ UNCHANGED <<up, downs, topo, importing, moves, maps, faulty, flags, starters, closing, slot, haveReset, handle, dead, conn, outer>>

(* A second redirection is an error.                                       *)
Miss(k) ==
    /\ pc[k] = "miss" /\ Spinning
    /\ Goto(k, IF haveReset[k] THEN "put" ELSE "reset")
    /\ UNCHANGED <<servers, maps, faulty, running, flags, starters, closing, monitor, handle, dead, cmdArgs>>

(* Reset returned no error: the command is repeated, inside this call.     *)
Repeats(k) ==
    /\ haveReset' = [haveReset EXCEPT ![k] = TRUE]
    /\ outer' = [outer EXCEPT ![k] = conn[k]]
    /\ Goto(k, "conn")

Reset(k) ==
    /\ pc[k] = "reset"
    /\ IF closed THEN Repeats(k) ELSE Goto(k, "resetting") /\ UNCHANGED <<haveReset, outer>>
    /\ UNCHANGED <<servers, maps, faulty, running, flags, starters, closing, monitor, handle, dead, slot, target, asking, conn>>

Resetting(k) ==
    /\ pc[k] = "resetting"
    /\ \/ ResetOk /\ Repeats(k)
       \/ ResetFailed /\ Goto(k, "put") /\ UNCHANGED <<haveReset, outer>>
    /\ UNCHANGED <<up, downs, topo, importing, moves, faulty, running, flags, starters, closing, monitor, handle, slot, target, asking, conn>>

(* The deferred calls of Put, the one of the redirected command last; the  *)
(* reply is returned after them.                                           *)
Put(k) ==
    /\ pc[k] = "put" /\ Spinning
    /\ conn' = [conn EXCEPT ![k] = NoAddr]
    /\ Goto(k, IF outer[k] = NoAddr THEN "idle" ELSE "unwind")
    /\ UNCHANGED <<servers, maps, faulty, running, flags, starters, closing, monitor, handle, dead, slot, target, asking, haveReset, outer>>

PutOuter(k) ==
    /\ pc[k] = "unwind" /\ Spinning
    /\ outer' = [outer EXCEPT ![k] = NoAddr] /\ conn' = [conn EXCEPT ![k] = NoAddr]
    /\ Goto(k, "idle")
    /\ UNCHANGED <<servers, maps, faulty, running, flags, starters, closing, monitor, handle, dead, slot, target, asking, haveReset>>

Caller(k) == GetConn(k) \/ Get(k) \/ ClientCmd(k) \/ Miss(k) \/ Reset(k) \/ Resetting(k) \/ Put(k) \/ PutOuter(k)

-----------------------------------------------------------------------------
(* The reload of the relayer (redis/cluster/cluster.go): Reset if the URL  *)
(* is the same, which starts the cluster if need be, else Close.           *)

ReloadStarts(i) ==
    /\ ~closed /\ ~started /\ spc[i] = "off"
    /\ spc' = [spc EXCEPT ![i] = "begin"]
    /\ UNCHANGED <<servers, maps, faulty, running, flags, other, spins, closing, monitor, cmds, dead>>

ReloadResets ==
    /\ ~closed /\ started /\ (ResetOk \/ ResetFailed)
    /\ UNCHANGED <<up, downs, topo, importing, moves, faulty, running, flags, starters, closing, monitor, cmds>>

Close ==
    /\ MayClose /\ xpc = "open"
    /\ closed' = TRUE /\ xpc' = IF started THEN "call" ELSE "stop"
    /\ UNCHANGED <<servers, maps, faulty, running, starting, started, lock, starters, stopCh, monitor, cmds, dead>>

CloseCall ==
    /\ xpc = "call" /\ Spinning
    /\ pools' = {} /\ Empty(pools)
    /\ xpc' = "stop"
    /\ UNCHANGED <<servers, mapping, throttled, ticker, faulty, running, flags, starters, stopCh, monitor, cmds>>

CloseStop ==
    /\ xpc = "stop"
    /\ stopCh' = TRUE /\ xpc' = "done"
    /\ UNCHANGED <<servers, maps, faulty, running, flags, starters, monitor, cmds, dead>>

SpinReturns ==
    /\ stopCh /\ Spinning
    /\ spins' = spins - 1
    /\ UNCHANGED <<servers, maps, faulty, running, flags, spc, other, closing, monitor, cmds, dead>>

Closing == CloseCall \/ CloseStop \/ SpinReturns

-----------------------------------------------------------------------------
Next ==
    \/ \E n \in Nodes : Down(n) \/ Up(n)
    \/ \E s \in Slots : Migrated(s) \/ \E n \in Nodes : Migrate(s, n)
    \/ \E i \in Starters : Starter(i) \/ ReloadStarts(i)
    \/ Monitor \/ ReloadResets \/ Close \/ Closing
    \/ \E k \in Callers : Caller(k) \/ \E s \in Slots : Cmd(k, s)

Spec == Init /\ [][Next]_vars

(* Every goroutine runs, and a node that failed comes back.                *)
Fairness ==
    /\ \A n \in Nodes : WF_vars(Up(n))
    /\ \A i \in Starters : WF_vars(Starter(i))
    /\ \A k \in Callers : WF_vars(Caller(k))
    /\ WF_vars(Monitor) /\ WF_vars(Closing)
LiveSpec == Spec /\ Fairness

-----------------------------------------------------------------------------
(* The maps have one owner: however many goroutines try to start the       *)
(* cluster, one spin runs at most, and none before its starter is done     *)
(* with the maps.  Besides, the state is well typed.                       *)
OneSpinner ==
    /\ TypeOK
    /\ spins <= 1
    /\ Spinning => \A i \in Starters : spc[i] # "dial"

(* Every command gets its reply, through redirections, failures of nodes   *)
(* and resets, unless it was given a nil pool, whose Get panics.           *)
Answered == \A k \in Callers : (pc[k] # "idle") ~> (pc[k] \in {"idle", "panic"})

(* A cluster that is not available becomes available again, as long as the *)
(* resets leave it a pool to ask.                                          *)
RecoversWithPools == (faulty /\ pools # {}) ~> (~faulty \/ pools = {})

(* While the cluster is not available and was started, somebody is at work *)
(* to make it available: the goroutine that starts it or the monitor.      *)
FaultyIsWatched ==
    faulty /\ ~closed =>
        \/ \E i \in Starters : spc[i] \notin {"off", "done"}
        \/ running /\ mpc \in {"call", "checked", "reset", "resetting"}
=============================================================================
