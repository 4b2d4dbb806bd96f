----------------------------- MODULE RedisPool -----------------------------
(***************************************************************************)
(* The pool of clients of a redis2 relayer (redis/radix/pool.go) with its  *)
(* users: the goroutines of handleConnection, which Get a client and Put   *)
(* it back, the goroutine monitor, and the reload of the configuration     *)
(* (main.go, redis/radix/main.go), which replaces the channel free while   *)
(* the others use it without taking the pool's lock.  A client is reduced  *)
(* to what IsValid and connect look at; RedisClient models the rest.       *)
(* Faulty variants of some definitions, used by no other, stand before     *)
(* them: MovedAndKept, MonitorChecksOneLess and ResetSparesValid are       *)
(* mutants the properties must detect.                                     *)
(***************************************************************************)
EXTENDS Integers, Sequences, FiniteSets

CONSTANTS
    Conns,         \* connections of local clients, each handled by a goroutine
    NumClients,    \* bound: clients alive at a time
    Initial,       \* the configuration the relayer starts with
    Configs,       \* the configurations that may be in the file at a reload
    MaxReloads     \* bound: reload signals

(* The relevant fields of a RelayerConfig.                                 *)
ConfigTypes == [maxIdle : Nat, minIdle : Nat, url : STRING]

ASSUME PoolAssumption ==
    /\ IsFiniteSet(Conns) /\ Configs \subseteq ConfigTypes /\ Initial \in Configs
    /\ NumClients \in Nat /\ MaxReloads \in Nat

Clients == 1..NumClients
NoClient == 0

VARIABLES
    config,            \* the configuration in force
    minIdle,           \* p.minIdle, set at the start of Reload
    chans, free,       \* the channels made so far, and the one p.free points to
    tick, tickClosed,  \* monitorCh: whether it holds a value, and is closed
    live, valid,       \* the clients not yet terminated, and those IsValid accepts
    cpc, mine, slot,   \* connections: program counter, client, and channel loaded (1 if none)
    mpc, spare, mslot, \* the same of the monitor
    rpc, reloads, next \* the reload: program counter, count, and configuration read

clients == <<live, valid>>
conns == <<cpc, mine, slot>>
mon == <<mpc, spare, mslot>>
rel == <<rpc, reloads, next>>
vars == <<config, minIdle, chans, free, tick, tickClosed, clients, conns, mon, rel>>

Capacity(c) == IF c.maxIdle = 0 THEN 1 ELSE c.maxIdle
Channel(c) == [cap |-> Capacity(c), q |-> <<>>]

(* The type invariant of the pool.                                         *)
TypeOK ==
    /\ config \in Configs /\ next \in Configs /\ minIdle \in Nat
    /\ \A g \in DOMAIN chans : chans[g].q \in Seq(Clients) /\ Len(chans[g].q) <= chans[g].cap
    /\ free \in DOMAIN chans /\ mslot \in DOMAIN chans
    /\ tick \in 0..1 /\ tickClosed \in BOOLEAN
    /\ live \subseteq Clients /\ valid \subseteq live
    /\ cpc \in [Conns -> {"idle", "take", "retry", "tick", "use", "store", "expired", "panic"}]
    /\ mine \in [Conns -> Clients \cup {NoClient}] /\ slot \in [Conns -> DOMAIN chans]
    /\ mpc \in {"recv", "check", "load", "send", "done"} /\ spare \in Clients \cup {NoClient}
    /\ rpc \in {"idle", "drain", "swap", "reset"} /\ reloads \in 0..MaxReloads

Init ==
    /\ config = Initial /\ next = Initial /\ minIdle = Initial.minIdle
    /\ chans = <<Channel(Initial)>> /\ free = 1
    /\ tick = 0 /\ tickClosed = FALSE
    /\ live = {} /\ valid = {}
    /\ cpc = [k \in Conns |-> "idle"] /\ mine = [k \in Conns |-> NoClient]
    /\ slot = [k \in Conns |-> 1]
    /\ mpc = "recv" /\ spare = NoClient /\ mslot = 1
    /\ rpc = "idle" /\ reloads = 0

-----------------------------------------------------------------------------
(* The clients.                                                            *)

IsValid(c) == c \in valid

Fresh == CHOOSE c \in Clients \ live : \A d \in Clients \ live : c <= d

NewClient(c) ==
    /\ live' = live \cup {c}
    /\ UNCHANGED valid

(* Exit; the identity of the client may be used again.                     *)
Exit(c) ==
    /\ live' = live \ {c} /\ valid' = valid \ {c}

(* The requestListener of a client connects when it starts, and again when *)
(* it has requests to send, which it may have wherever the client is.      *)
Connect(c) ==
    /\ c \in live \ valid
    /\ valid' = valid \cup {c}
    /\ UNCHANGED <<config, minIdle, chans, free, tick, tickClosed, live, conns, mon, rel>>

(* The connection is lost, or the client has failed to connect too often   *)
(* and is no longer ready, in which case it does not connect again.        *)
Lose(c) ==
    /\ c \in valid
    /\ valid' = valid \ {c}
    /\ UNCHANGED <<config, minIdle, chans, free, tick, tickClosed, live, conns, mon, rel>>

-----------------------------------------------------------------------------
(* handleConnection, with Get and Put.                                     *)

Step(k, pc) == cpc' = [cpc EXCEPT ![k] = pc]
Hold(k, c) == mine' = [mine EXCEPT ![k] = c]
LoadFree(k) == slot' = [slot EXCEPT ![k] = free]
Forget(k) == slot' = [slot EXCEPT ![k] = 1]

(* Get: the receive from p.free is on the channel it pointed to.           *)
Get(k) ==
    /\ cpc[k] \in {"idle", "retry"}
    /\ LoadFree(k)
    /\ Step(k, "take")
    /\ UNCHANGED <<config, minIdle, chans, free, tick, tickClosed, clients, mine, mon, rel>>

Pop(g) == chans' = [chans EXCEPT ![g].q = Tail(@)]
Store(g, c) == chans' = [chans EXCEPT ![g].q = Append(@, c)]
Room(g) == Len(chans[g].q) < chans[g].cap

TakeValid(k) ==
    LET q == chans[slot[k]].q IN
    /\ q # <<>> /\ IsValid(Head(q))
    /\ Hold(k, Head(q)) /\ Step(k, "tick")
    /\ Pop(slot[k])
    /\ UNCHANGED clients

TakeInvalid(k) ==
    LET q == chans[slot[k]].q IN
    /\ q # <<>> /\ ~IsValid(Head(q))
    /\ Exit(Head(q)) /\ Step(k, "retry")
    /\ Pop(slot[k])
    /\ UNCHANGED mine

Create(k) ==
    /\ chans[slot[k]].q = <<>> /\ live # Clients
    /\ NewClient(Fresh)
    /\ Hold(k, Fresh) /\ Step(k, "tick")
    /\ UNCHANGED chans

Take(k) ==
    /\ cpc[k] = "take"
    /\ TakeValid(k) \/ TakeInvalid(k) \/ Create(k)
    /\ Forget(k)
    /\ UNCHANGED <<config, minIdle, free, tick, tickClosed, mon, rel>>

(* The check of the idle clients is left to the monitor.  A select that    *)
(* sends on a closed channel panics.                                       *)
Tick(k) ==
    /\ cpc[k] \in {"tick", "expired"}
    /\ \/ /\ ~tickClosed /\ tick' = 1
          /\ Step(k, IF cpc[k] = "tick" THEN "use" ELSE "idle")
       \/ /\ tickClosed /\ Step(k, "panic")
          /\ UNCHANGED tick
    /\ UNCHANGED <<config, minIdle, chans, free, tickClosed, clients, mine, slot, mon, rel>>

(* Put, when the connection ends: a client may have been connected for     *)
(* longer than maxConnected, a time the model leaves out.                  *)
Discard(k) ==
    /\ \/ ~IsValid(mine[k]) /\ Step(k, "idle")
       \/ IsValid(mine[k]) /\ Step(k, "expired")
    /\ Exit(mine[k]) /\ Hold(k, NoClient)
    /\ UNCHANGED slot

Keep(k) ==
    /\ IsValid(mine[k])
    /\ LoadFree(k) /\ Step(k, "store")
    /\ UNCHANGED <<clients, mine>>

Put(k) ==
    /\ cpc[k] = "use"
    /\ Discard(k) \/ Keep(k)
    /\ UNCHANGED <<config, minIdle, chans, free, tick, tickClosed, mon, rel>>

PutStore(k) ==
    /\ cpc[k] = "store"
    /\ IF Room(slot[k])
         THEN Store(slot[k], mine[k]) /\ UNCHANGED clients
         ELSE Exit(mine[k]) /\ UNCHANGED chans
    /\ Hold(k, NoClient) /\ Forget(k) /\ Step(k, "idle")
    /\ UNCHANGED <<config, minIdle, free, tick, tickClosed, mon, rel>>

Connection(k) == Take(k) \/ Tick(k) \/ PutStore(k) \/ (cpc[k] = "retry" /\ Get(k))

-----------------------------------------------------------------------------
(* The goroutine monitor.                                                  *)

MonitorRecv ==
    /\ mpc = "recv"
    /\ \/ tick = 1 /\ tick' = 0 /\ mpc' = "check"
       \/ tick = 0 /\ tickClosed /\ mpc' = "done" /\ UNCHANGED tick
    /\ UNCHANGED <<config, minIdle, chans, free, tickClosed, clients, conns, spare, mslot, rel>>

MonitorChecksOneLess ==
    /\ mpc = "check"
    /\ mpc' = IF Len(chans[free].q) + 1 < minIdle THEN "load" ELSE "recv"
    /\ UNCHANGED <<config, minIdle, chans, free, tick, tickClosed, clients, conns, spare, mslot, rel>>

MonitorCheck ==
    /\ mpc = "check"
    /\ mpc' = IF Len(chans[free].q) < minIdle THEN "load" ELSE "recv"
    /\ UNCHANGED <<config, minIdle, chans, free, tick, tickClosed, clients, conns, spare, mslot, rel>>

MonitorLoad ==
    /\ mpc = "load" /\ live # Clients
    /\ NewClient(Fresh) /\ spare' = Fresh
    /\ mslot' = free /\ mpc' = "send"
    /\ UNCHANGED <<config, minIdle, chans, free, tick, tickClosed, conns, rel>>

(* The send waits for room.                                                *)
MonitorSend ==
    /\ mpc = "send" /\ Room(mslot)
    /\ Store(mslot, spare)
    /\ spare' = NoClient /\ mslot' = 1 /\ mpc' = "recv"
    /\ UNCHANGED <<config, minIdle, free, tick, tickClosed, clients, conns, rel>>

Monitor == MonitorRecv \/ MonitorCheck \/ MonitorLoad \/ MonitorSend

-----------------------------------------------------------------------------
(* A reload signal: Server.Reload, Pool.Reload and Pool.Reset.             *)

(* Another URL: Reset closes monitorCh before it empties the channel.      *)
StartReset(c) ==
    /\ c.url # config.url
    /\ tickClosed' = TRUE /\ rpc' = "reset"
    /\ UNCHANGED <<config, minIdle, chans>>

StartResize(c) ==
    /\ c.url = config.url /\ Capacity(c) # Capacity(config)
    /\ minIdle' = c.minIdle
    /\ chans' = Append(chans, Channel(c)) /\ rpc' = "drain"
    /\ UNCHANGED <<config, tickClosed>>

Update(c) ==
    /\ c.url = config.url /\ Capacity(c) = Capacity(config)
    /\ minIdle' = c.minIdle /\ config' = c
    /\ UNCHANGED <<chans, tickClosed, rpc>>

Reload(c) ==
    /\ rpc = "idle" /\ reloads < MaxReloads
    /\ reloads' = reloads + 1 /\ next' = c
    /\ StartReset(c) \/ StartResize(c) \/ Update(c)
    /\ UNCHANGED <<free, tick, clients, conns, mon>>

(* The clients go to the new channel, the ones without room are terminated. *)
MovedAndKept(q) ==
    IF Room(Len(chans))
      THEN [chans EXCEPT ![Len(chans)].q = Append(@, Head(chans[free].q))]
      ELSE [chans EXCEPT ![free].q = q]

Moved(q) == IF Room(Len(chans))
              THEN [chans EXCEPT ![free].q = q, ![Len(chans)].q = Append(@, Head(chans[free].q))]
              ELSE [chans EXCEPT ![free].q = q]

Drain ==
    LET q == chans[free].q IN
    /\ rpc = "drain" /\ q # <<>>
    /\ chans' = Moved(Tail(q))
    /\ IF Room(Len(chans))
         THEN UNCHANGED clients
         ELSE Exit(Head(q))
    /\ UNCHANGED <<config, minIdle, free, tick, tickClosed, conns, mon, rel>>

(* break LOOP: the assignment of p.free is a step of its own, and others   *)
(* may still store in the old channel before it.                           *)
DrainEnds ==
    /\ rpc = "drain" /\ chans[free].q = <<>>
    /\ rpc' = "swap"
    /\ UNCHANGED <<config, minIdle, chans, free, tick, tickClosed, clients, conns, mon,
                   reloads, next>>

Swap ==
    /\ rpc = "swap"
    /\ free' = Len(chans)
    /\ config' = next /\ rpc' = "idle"
    /\ UNCHANGED <<minIdle, chans, tick, tickClosed, clients, conns, mon, reloads, next>>

(* for c := range p.free, a channel that nobody closes.                    *)
ResetSparesValid ==
    LET q == chans[free].q IN
    /\ rpc = "reset" /\ q # <<>> /\ ~IsValid(Head(q))
    /\ Exit(Head(q))
    /\ Pop(free)
    /\ UNCHANGED <<config, minIdle, free, tick, tickClosed, conns, mon, rel>>

ResetExit ==
    LET q == chans[free].q IN
    /\ rpc = "reset" /\ q # <<>>
    /\ Exit(Head(q))
    /\ Pop(free)
    /\ UNCHANGED <<config, minIdle, free, tick, tickClosed, conns, mon, rel>>

Reloader == Drain \/ DrainEnds \/ Swap \/ ResetExit

-----------------------------------------------------------------------------
Next ==
    \/ \E k \in Conns : Get(k) \/ Take(k) \/ Tick(k) \/ Put(k) \/ PutStore(k)
    \/ Monitor \/ Reloader
    \/ \E c \in Configs : Reload(c)
    \/ \E c \in Clients : Connect(c) \/ Lose(c)

Spec == Init /\ [][Next]_vars

(* The goroutines run; connections, signals and failures need not come.    *)
Fairness == WF_vars(Monitor) /\ WF_vars(Reloader) /\ \A k \in Conns : WF_vars(Connection(k))
LiveSpec == Spec /\ Fairness

-----------------------------------------------------------------------------
(* The places a client can be in.                                          *)
Places ==
    ({"conn"} \X Conns) \cup {<<"monitor">>} \cup
    UNION {{"chan"} \X {g} \X (1..Len(chans[g].q)) : g \in DOMAIN chans}
At(p) == CASE p[1] = "conn" -> mine[p[2]]
           [] p[1] = "monitor" -> spare
           [] OTHER -> chans[p[2]].q[p[3]]

(* A client that is alive is in exactly one place, in the hands of one     *)
(* connection or of the monitor or once in one channel, and a client that  *)
(* was terminated is nowhere: Get, Put, monitor, Reload and Reset share    *)
(* and terminate clients without a lock around the channel.  Besides, the  *)
(* state is well typed and no channel is overfull.                         *)
OneOwner ==
    /\ TypeOK
    /\ \A c \in Clients : Cardinality({p \in Places : At(p) = c}) = (IF c \in live THEN 1 ELSE 0)

(* Before any reload, a check of the idle clients asked for by Get or Put  *)
(* brings one into the pool, if any is wanted: the value in monitorCh is   *)
(* not lost, and the monitor does not wait for room.                       *)
Replenished ==
    (tick = 1 /\ minIdle > 0) ~> (chans[free].q # <<>> \/ reloads > 0)

(* Reset, which never returns, terminates the clients that are idle, those *)
(* put back meanwhile too.                                                 *)
ResetEmpties == rpc = "reset" ~> [](chans[free].q = <<>>)
=============================================================================
