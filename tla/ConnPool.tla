------------------------------ MODULE ConnPool ------------------------------
(***************************************************************************)
(* The pool of connections to one Redis node                               *)
(* (redis/radix.improved/pool/pool.go) inside the clusterPool that wraps   *)
(* it (redis/radix.improved/cluster/pool.go): goroutines Get a connection, *)
(* use it and Put it back, the pool's own goroutine pings idle ones, and   *)
(* Empty ends the pool while they do so.  Names that module Daemon has as  *)
(* well begin with Pool, so that one module can be about both.             *)
(* Faulty variants of some definitions, used by no other, stand before     *)
(* them: StopUnseen and DrainForgetsClose are mutants the properties must  *)
(* detect.                                                                 *)
(***************************************************************************)
EXTENDS Integers, Sequences, FiniteSets

CONSTANTS
    Users,         \* goroutines that use the pool
    Pinger,        \* the goroutine NewCustom starts
    Size,          \* capacity of the channel
    NumConns       \* bound: connections open at a time

ASSUME PoolAssumption ==
    /\ Pinger \notin Users /\ IsFiniteSet(Users)
    /\ Size \in Nat \ {0} /\ NumConns \in Nat \ {0}

Actors == Users \cup {Pinger}
Conns == 1..NumConns
NoConn == 0

VARIABLES
    pool,              \* the channel p.pool
    stopCh, closeCh,   \* whether these channels were closed
    open, broken,      \* connections that are open; those with LastCritical set
    pc, mine,          \* program counters and connections of the actors
    epc,               \* program counter of Empty
    racers             \* history: actors about to push when stopCh was closed

poolVars == <<pool, stopCh, closeCh, open, broken, pc, mine, epc, racers>>

(* The type invariant of the pool.                                         *)
PoolTypeOK ==
    /\ pool \in Seq(Conns) /\ Len(pool) <= Size
    /\ stopCh \in BOOLEAN /\ closeCh \in BOOLEAN
    /\ open \subseteq Conns /\ broken \subseteq open
    /\ pc \in [Actors -> {"idle", "get", "use", "put", "check", "push", "divide", "sleep", "panic", "done"}]
    /\ mine \in [Actors -> Conns \cup {NoConn}]
    /\ epc \in {"open", "stop", "drain", "done"} /\ racers \subseteq Actors

(* NewCustom: one connection, if it could be dialled.                      *)
PoolInit ==
    /\ \/ pool = <<>> /\ open = {}
       \/ pool = <<1>> /\ open = {1}
    /\ broken = {} /\ stopCh = FALSE /\ closeCh = FALSE
    /\ pc = [a \in Actors |-> "idle"] /\ mine = [a \in Actors |-> NoConn]
    /\ epc = "open" /\ racers = {}

-----------------------------------------------------------------------------
Goto(a, l) == pc' = [pc EXCEPT ![a] = l]
Hold(a, c) == mine' = [mine EXCEPT ![a] = c]
Fresh == CHOOSE c \in Conns \ open : \A d \in Conns \ open : c <= d

Close(c) == open' = open \ {c} /\ broken' = broken \ {c}

(* A user asks for a connection.                                           *)
Ask(u) ==
    /\ pc[u] = "idle"
    /\ Goto(u, "get")
    /\ UNCHANGED <<pool, stopCh, closeCh, open, broken, mine, epc, racers>>

(* The pinger goes on sleeping while the pool is empty; then it divides by *)
(* the number of connections, sleeps, and looks at stopCh.                 *)
PingerChecks == pc[Pinger] = "idle" /\ pool # <<>> /\ Goto(Pinger, "divide")
PingerDivides == pc[Pinger] = "divide" /\ Goto(Pinger, IF pool = <<>> THEN "panic" ELSE "sleep")
PingerAsks == pc[Pinger] = "sleep" /\ Goto(Pinger, IF stopCh THEN "done" ELSE "get")

PingerWakes ==
    /\ PingerChecks \/ PingerDivides \/ PingerAsks
    /\ UNCHANGED <<pool, stopCh, closeCh, open, broken, mine, epc, racers>>

(* Get: select chooses at random if both channels are ready, and dials if  *)
(* none is.                                                                *)
GetPooled(a) ==
    /\ pool # <<>>
    /\ Hold(a, Head(pool)) /\ Goto(a, "use")
    /\ pool' = Tail(pool)
    /\ UNCHANGED open

GetStopped(a) ==
    /\ stopCh
    /\ Goto(a, "idle")
    /\ UNCHANGED <<mine, pool, open>>

GetDials(a) ==
    /\ pool = <<>> /\ ~stopCh
    /\ \/ /\ open # Conns
          /\ Hold(a, Fresh) /\ Goto(a, "use")
          /\ open' = open \cup {Fresh}
       \/ Goto(a, "idle") /\ UNCHANGED <<mine, open>>
    /\ UNCHANGED pool

Get(a) ==
    /\ pc[a] = "get"
    /\ GetPooled(a) \/ GetStopped(a) \/ GetDials(a)
    /\ UNCHANGED <<stopCh, closeCh, broken, epc, racers>>

(* A command succeeds or breaks the connection, then it is put back: a     *)
(* user through clusterPool.Put, the pinger through Pool.Put.              *)
Use(a) ==
    /\ pc[a] = "use"
    /\ broken' \in {broken, broken \cup {mine[a]}}
    /\ Goto(a, IF a = Pinger THEN "check" ELSE "put")
    /\ UNCHANGED <<pool, stopCh, closeCh, open, mine, epc, racers>>

Discard(a) == Close(mine[a]) /\ Hold(a, NoConn) /\ Goto(a, "idle")

(* clusterPool.Put.                                                        *)
Put(a) ==
    /\ pc[a] = "put"
    /\ IF closeCh THEN Discard(a) ELSE Goto(a, "check") /\ UNCHANGED <<open, broken, mine>>
    /\ UNCHANGED <<pool, stopCh, closeCh, epc, racers>>

(* Pool.Put: a broken connection was closed when it broke; after stopCh is *)
(* closed every connection is closed, else it is pushed if there is room.  *)
StopUnseen(a) == mine[a] \in broken
MustClose(a) == mine[a] \in broken \/ stopCh

PutCheck(a) ==
    /\ pc[a] = "check"
    /\ IF MustClose(a) THEN Discard(a) ELSE Goto(a, "push") /\ UNCHANGED <<open, broken, mine>>
    /\ UNCHANGED <<pool, stopCh, closeCh, epc, racers>>

Room == Len(pool) < Size

PutPush(a) ==
    /\ pc[a] = "push"
    /\ IF Room
         THEN /\ pool' = Append(pool, mine[a])
              /\ Hold(a, NoConn) /\ Goto(a, "idle")
              /\ UNCHANGED <<open, broken>>
         ELSE Discard(a) /\ UNCHANGED pool
    /\ UNCHANGED <<stopCh, closeCh, epc, racers>>

(* clusterPool.Empty and Pool.Empty.                                       *)
EmptyClose ==
    /\ epc = "open"
    /\ closeCh' = TRUE /\ epc' = "stop"
    /\ UNCHANGED <<pool, stopCh, open, broken, pc, mine, racers>>

EmptyStop ==
    /\ epc = "stop"
    /\ stopCh' = TRUE /\ epc' = "drain"
    /\ racers' = {a \in Actors : pc[a] = "push"}
    /\ UNCHANGED <<pool, closeCh, open, broken, pc, mine>>

DrainForgetsClose ==
    /\ epc = "drain" /\ pool # <<>>
    /\ pool' = Tail(pool)
    /\ UNCHANGED <<open, broken, stopCh, closeCh, pc, mine, epc, racers>>

EmptyDrain ==
    /\ epc = "drain" /\ pool # <<>>
    /\ pool' = Tail(pool) /\ Close(Head(pool))
    /\ UNCHANGED <<stopCh, closeCh, pc, mine, epc, racers>>

EmptyReturns ==
    /\ epc = "drain" /\ pool = <<>>
    /\ epc' = "done"
    /\ UNCHANGED <<pool, stopCh, closeCh, open, broken, pc, mine, racers>>

-----------------------------------------------------------------------------
Actor(a) == Get(a) \/ Use(a) \/ Put(a) \/ PutCheck(a) \/ PutPush(a)
Empty == EmptyStop \/ EmptyDrain \/ EmptyReturns

PoolNext == PingerWakes \/ EmptyClose \/ Empty \/ (\E u \in Users : Ask(u)) \/ \E a \in Actors : Actor(a)

PoolSpec == PoolInit /\ [][PoolNext]_poolVars

-----------------------------------------------------------------------------
(* A connection that is open is in the channel once or in the hands of one *)
(* goroutine, and one that was closed is nowhere.  Besides, the state is   *)
(* well typed and the channel not overfull.                                *)
OneOwner ==
    /\ PoolTypeOK
    /\ \A c \in Conns :
        Cardinality({i \in 1..Len(pool) : pool[i] = c}) + Cardinality({a \in Actors : mine[a] = c})
            = (IF c \in open THEN 1 ELSE 0)

(* After Empty, only goroutines that were about to push when it closed     *)
(* stopCh can leave connections in the pool, one each.                     *)
LeftByRacers ==
    epc = "done" => Len(pool) + Cardinality({a \in Actors : pc[a] = "push"}) <= Cardinality(racers)
=============================================================================
