----------------------------- MODULE FsServer ------------------------------
(***************************************************************************)
(* The relayer that stores values in files (redis/fs): the goroutines of   *)
(* set and of sentToShard, the shards' channels, their writers, the reload *)
(* of the configuration and the exit.  One process per SET request.  Files *)
(* are reduced to the requests whose value was copied to its place.  The   *)
(* pool of message structures is shared with other relayers of this kind.  *)
(* Faulty variants of some definitions, used by no other, stand before     *)
(* them: UncountTwice, RetryKeeps and StopsOneMore are mutants the         *)
(* properties must detect.                                                 *)
(***************************************************************************)
EXTENDS Integers, Sequences, FiniteSets

CONSTANTS
    Requests,      \* SET requests
    Hash,          \* the checksum of the key of each
    Sync,          \* config.Mode = "sync"
    Buffer,        \* config.Buffer, the capacity of a shard's channel
    Initial,       \* the first configuration: shards, and writers of each
    Configs,       \* the configurations a reload may read
    MaxShards, MaxWriters,   \* bounds: shards, and writers started in a shard
    MaxReloads,    \* bound: reloads
    BreakMultiplier,
    Faults,        \* "parse", "tmp", "write", "remove": what may fail
    MaxFailures,   \* bound: failures, and decrements by another relayer
    Shared,        \* another fs relayer takes messages from the same msgPool
    MayExit        \* whether the program may be told to exit

ConfigTypes == [shards : 1..MaxShards, writers : 1..MaxWriters]
Shards == 0..(MaxShards - 1)
Writers == Shards \X (1..MaxWriters)
NoRequest == 0

ASSUME FsAssumption ==
    /\ Requests \subseteq Nat \ {0} /\ IsFiniteSet(Requests) /\ Hash \in [Requests -> Nat]
    /\ Initial \in Configs /\ Configs \subseteq ConfigTypes
    /\ {Buffer, MaxShards, MaxWriters, BreakMultiplier} \subseteq Nat \ {0} /\ MaxReloads \in Nat
    /\ Faults \subseteq {"parse", "tmp", "write", "remove"} /\ MaxFailures \in Nat
    /\ {Sync, Shared, MayExit} \subseteq BOOLEAN

VARIABLES
    running, exiting,      \* srv.running and srv.exiting
    config, shards,        \* srv.config and srv.shards
    pool,                  \* len(shardServer.pool)
    rpc, shard, replied,   \* requests: program counter, shard of the message, answered
    strayed, missed,       \* the other relayer's decrements of our running, ours of its
    chan, closed,          \* the channel of each shard, and whether it is closed
    wpc, cur, stop,        \* writers: program counter, message, signal in done
    list,                  \* the writers of each shard, in its channel w
    stored,                \* requests whose file was written
    recycled, dropped,     \* requests whose message is in msgPool again, or was given up
    lpc, reloads,          \* program counter of Reload, and count
    xpc, epc,              \* program counters of Exit and of the writers' exit()
    failures, panic

reqs == <<rpc, shard, replied>>
shares == <<strayed, missed>>
chans == <<chan, closed>>
writers == <<wpc, cur, stop, list>>
files == <<stored, recycled, dropped>>
reload == <<lpc, reloads>>
exits == <<exiting, xpc, epc>>
vars == <<running, config, shards, pool, reqs, shares, chans, writers, files, reload, exits, failures, panic>>

(* The type invariant of the relayer.                                      *)
TypeOK ==
    /\ running \in Int /\ exiting \in BOOLEAN /\ panic \in BOOLEAN
    /\ config \in Configs /\ shards \in 1..MaxShards /\ pool \in 1..MaxShards
    /\ rpc \in [Requests -> {"none", "inc", "parse", "tmp", "send", "count", "end", "fail", "refused"}]
    /\ shard \in [Requests -> Shards] /\ replied \subseteq Requests
    /\ strayed \in 0..MaxFailures /\ missed \in Nat
    /\ \A s \in Shards : Len(chan[s]) <= Buffer /\ \A i \in DOMAIN chan[s] : chan[s][i] \in Requests
    /\ closed \subseteq Shards /\ stop \subseteq Writers
    /\ wpc \in [Writers -> {"off", "listen", "write", "retry"}]
    /\ cur \in [Writers -> Requests \cup {NoRequest}]
    /\ \A s \in Shards : \A i \in DOMAIN list[s] : list[s][i] \in Writers
    /\ stored \subseteq Requests /\ recycled \subseteq stored /\ dropped \subseteq Requests
    /\ lpc \in {"idle", "shards"} /\ reloads \in 0..MaxReloads /\ xpc \in {"run", "wait", "join", "done"}
    /\ epc \in [Writers -> {"off", "check", "drain"}] /\ failures \in 0..MaxFailures

FirstWriters(s, n) == [i \in 1..n |-> <<s, i>>]
Init ==
    /\ running = 0 /\ exiting = FALSE /\ panic = FALSE
    /\ config = Initial /\ shards = Initial.shards /\ pool = Initial.shards
    /\ rpc = [r \in Requests |-> "none"] /\ shard = [r \in Requests |-> 0]
    /\ replied = {} /\ strayed = 0 /\ missed = 0
    /\ chan = [s \in Shards |-> <<>>] /\ closed = {}
    /\ wpc = [w \in Writers |-> IF w[1] < Initial.shards /\ w[2] <= Initial.writers THEN "listen" ELSE "off"]
    /\ cur = [w \in Writers |-> NoRequest] /\ stop = {}
    /\ list = [s \in Shards |-> IF s < Initial.shards THEN FirstWriters(s, Initial.writers) ELSE <<>>]
    /\ stored = {} /\ recycled = {} /\ dropped = {} /\ lpc = "idle" /\ reloads = 0
    /\ xpc = "run" /\ epc = [w \in Writers |-> "off"] /\ failures = 0

Fault(kind) == kind \in Faults /\ failures < MaxFailures /\ failures' = failures + 1

-----------------------------------------------------------------------------
(* set.                                                                    *)

Goto(r, l) == rpc' = [rpc EXCEPT ![r] = l]
Reply(r) == replied' = replied \cup {r}

BreakPoint == config.shards * config.writers * BreakMultiplier

(* exitingOrFailing: the request is refused, or goes on.                   *)
Set(r) ==
    /\ rpc[r] = "none"
    /\ IF exiting \/ running >= BreakPoint
         THEN Goto(r, "refused") /\ Reply(r)
         ELSE Goto(r, "inc") /\ UNCHANGED replied
    /\ UNCHANGED <<running, config, shards, pool, shard, shares, chans, writers, files, reload, exits, failures, panic>>

Increment(r) ==
    /\ rpc[r] = "inc"
    /\ running' = running + 1
    /\ Goto(r, "parse")
    /\ UNCHANGED <<config, shards, pool, shard, replied, shares, chans, writers, files, reload, exits, failures, panic>>

(* The deferred function was given the value err had at the start, nil, so *)
(* an error does not decrement running.                                    *)
ParseFails(r) == Fault("parse") /\ Goto(r, "fail") /\ Reply(r) /\ UNCHANGED shard
Parsed(r) ==
    /\ shard' = [shard EXCEPT ![r] = Hash[r] % shards]
    /\ Goto(r, "tmp")
    /\ IF Sync THEN UNCHANGED replied ELSE Reply(r)
    /\ UNCHANGED failures

Parse(r) ==
    /\ rpc[r] = "parse"
    /\ ParseFails(r) \/ Parsed(r)
    /\ UNCHANGED <<running, config, shards, pool, shares, chans, writers, files, reload, exits, panic>>

StoreTmp(r) ==
    /\ rpc[r] = "tmp"
    /\ \/ Goto(r, "send") /\ UNCHANGED <<failures, replied>>
       \/ Fault("tmp") /\ Goto(r, "fail") /\ Reply(r)
    /\ UNCHANGED <<running, config, shards, pool, shard, shares, chans, writers, files, reload, exits, panic>>

(* sentToShard, in the same goroutine if Sync, else in its own: there may  *)
(* be no such shard yet, or its channel may have been closed.              *)
Room(s) == Len(chan[s]) < Buffer

NoShard(r) ==
    /\ shard[r] >= pool
    /\ dropped' = dropped \cup {r}
    /\ Goto(r, "count")
    /\ UNCHANGED <<chan, panic>>
Sent(r) ==
    /\ shard[r] < pool /\ shard[r] \notin closed /\ Room(shard[r])
    /\ chan' = [chan EXCEPT ![shard[r]] = Append(@, r)]
    /\ Goto(r, "count")
    /\ UNCHANGED <<dropped, panic>>
SendPanics(r) == shard[r] \in closed /\ panic' = TRUE /\ UNCHANGED <<rpc, chan, dropped>>

Send(r) ==
    /\ rpc[r] = "send"
    /\ NoShard(r) \/ Sent(r) \/ SendPanics(r)
    /\ UNCHANGED <<running, config, shards, pool, shard, replied, shares, closed, writers, stored, recycled,
                   reload, exits, failures>>

(* The deferred decrement goes through m.srv.  If the message was stored   *)
(* and recycled in the meantime, that is the relayer that took it last.    *)
UncountTwice == running' = running - 2
Uncount == running' = running - 1

Decrement(r) ==
    /\ rpc[r] = "count"
    /\ \/ Uncount /\ UNCHANGED missed
       \/ Shared /\ r \in recycled /\ missed' = missed + 1 /\ UNCHANGED running
    /\ Goto(r, "end") /\ Reply(r)
    /\ UNCHANGED <<config, shards, pool, shard, strayed, chans, writers, files, reload, exits, failures, panic>>

(* Likewise a SET or a GET of ours may have taken a message that the other *)
(* relayer stored and recycled before its deferred decrement.              *)
OtherDecrements ==
    /\ Shared /\ failures < MaxFailures /\ failures' = failures + 1
    /\ Uncount /\ strayed' = strayed + 1
    /\ UNCHANGED <<config, shards, pool, reqs, missed, chans, writers, files, reload, exits, panic>>

Request(r) == Increment(r) \/ Parse(r) \/ StoreTmp(r) \/ Send(r) \/ Decrement(r)

-----------------------------------------------------------------------------
(* The writers: listen and writeTo.                                        *)

Step(w, l) == wpc' = [wpc EXCEPT ![w] = l]
Queue(w) == chan[w[1]]

WriterRecv(w) ==
    /\ wpc[w] = "listen" /\ Queue(w) # <<>>
    /\ cur' = [cur EXCEPT ![w] = Head(Queue(w))]
    /\ chan' = [chan EXCEPT ![w[1]] = Tail(@)]
    /\ Step(w, "write")
    /\ UNCHANGED <<running, config, shards, pool, reqs, shares, closed, stop, list, files, reload, exits, failures, panic>>

WriterEnd(w) ==
    /\ wpc[w] = "listen" /\ w \in stop
    /\ stop' = stop \ {w}
    /\ Step(w, "off")
    /\ UNCHANGED <<running, config, shards, pool, reqs, shares, chans, cur, list, files, reload, exits, failures, panic>>

(* writeTo copies the file and removes the temporary one.  If either fails *)
(* the message is kept, in the second case with its file written.          *)
WriterWrite(w) ==
    /\ wpc[w] = "write"
    /\ \/ /\ stored' = stored \cup {cur[w]} /\ recycled' = recycled \cup {cur[w]}
          /\ cur' = [cur EXCEPT ![w] = NoRequest]
          /\ Step(w, "listen")
          /\ UNCHANGED failures
       \/ Fault("write") /\ Step(w, "retry") /\ UNCHANGED <<stored, recycled, cur>>
       \/ Fault("remove") /\ Step(w, "retry") /\ stored' = stored \cup {cur[w]} /\ UNCHANGED <<recycled, cur>>
    /\ UNCHANGED <<running, config, shards, pool, reqs, shares, chans, stop, list, dropped, reload, exits, panic>>

(* The message is sent back to the channel, for any writer.                *)
RetryKeeps(w) ==
    /\ wpc[w] = "retry" /\ Room(w[1]) /\ w[1] \notin closed
    /\ chan' = [chan EXCEPT ![w[1]] = Append(@, cur[w])]
    /\ Step(w, "write")
    /\ UNCHANGED <<cur, panic>>
    /\ UNCHANGED <<running, config, shards, pool, reqs, shares, closed, stop, list, files, reload, exits, failures>>

WriterRetry(w) ==
    /\ wpc[w] = "retry"
    /\ \/ /\ Room(w[1]) /\ w[1] \notin closed
          /\ chan' = [chan EXCEPT ![w[1]] = Append(@, cur[w])]
          /\ cur' = [cur EXCEPT ![w] = NoRequest] /\ Step(w, "listen")
          /\ UNCHANGED panic
       \/ w[1] \in closed /\ panic' = TRUE /\ UNCHANGED <<chan, cur, wpc>>
    /\ UNCHANGED <<running, config, shards, pool, reqs, shares, closed, stop, list, files, reload, exits, failures>>

Writer(w) == WriterRecv(w) \/ WriterEnd(w) \/ WriterWrite(w) \/ WriterRetry(w)

-----------------------------------------------------------------------------
(* Reload: the new number of shards is used before the shards are made.    *)

(* The number of a writer may be used again when its goroutines have ended. *)
Unused(s) == {i \in 1..MaxWriters : wpc[<<s, i>>] = "off" /\ epc[<<s, i>>] = "off"}
CanStart(s, n) == Cardinality(Unused(s)) + Len(list[s]) >= n

Reload(c) ==
    /\ lpc = "idle" /\ reloads < MaxReloads /\ c # config
    /\ \A s \in Shards : CanStart(s, c.writers)
    /\ config' = c /\ shards' = c.shards
    /\ lpc' = "shards" /\ reloads' = reloads + 1
    /\ UNCHANGED <<running, pool, reqs, shares, chans, writers, files, exits, failures, panic>>

(* shard.reload: writers are started, or the exit() of the oldest is       *)
(* started in a goroutine.  Its signal is shown as sent at once, since a   *)
(* writer that has it may still choose to receive messages.                *)
Grown(s) == CHOOSE q \in [1..(config.writers - Len(list[s])) -> Unused(s)] :
                \A i, j \in DOMAIN q : q[i] = q[j] => i = j
StopsOneMore(s) ==
    IF Len(list[s]) <= config.writers
      THEN list[s] \o [i \in DOMAIN Grown(s) |-> <<s, Grown(s)[i]>>]
      ELSE SubSeq(list[s], 2 + Len(list[s]) - config.writers, Len(list[s]))
NewList(s) ==
    IF Len(list[s]) <= config.writers
      THEN list[s] \o [i \in DOMAIN Grown(s) |-> <<s, Grown(s)[i]>>]
      ELSE SubSeq(list[s], 1 + Len(list[s]) - config.writers, Len(list[s]))
Members(q) == {q[i] : i \in DOMAIN q}

(* A shard that is not needed any more is kept.                            *)
NewPool == IF config.shards > pool THEN config.shards ELSE pool

ReloadShards ==
    /\ lpc = "shards" /\ xpc \notin {"join", "done"}
    /\ pool' = NewPool
    /\ list' = [s \in Shards |-> IF s < NewPool THEN NewList(s) ELSE list[s]]
    /\ wpc' = [w \in Writers |-> IF w \in Members(list'[w[1]]) /\ wpc[w] = "off" THEN "listen" ELSE wpc[w]]
    /\ stop' = stop \cup {w \in Writers : w \in Members(list[w[1]]) \ Members(list'[w[1]])}
    /\ epc' = [w \in Writers |-> IF w \in Members(list[w[1]]) \ Members(list'[w[1]]) THEN "check" ELSE epc[w]]
    /\ lpc' = "idle"
    /\ UNCHANGED <<running, config, shards, reqs, shares, chans, cur, files, reloads, exiting, xpc, failures, panic>>

(* ShardsServer.Exit holds the same lock until the writers have ended; a   *)
(* reload that waited for it finds no writer, starts one, and sends it to  *)
(* a channel that is closed.                                               *)
ReloadPanics ==
    /\ lpc = "shards" /\ xpc = "done"
    /\ panic' = TRUE
    /\ UNCHANGED <<running, config, shards, pool, reqs, shares, chans, writers, files, reload, exits, failures>>

-----------------------------------------------------------------------------
(* Exit of the server, of the shards and of the writers.                   *)

Exit ==
    /\ MayExit /\ xpc = "run"
    /\ exiting' = TRUE /\ xpc' = "wait"
    /\ UNCHANGED <<running, config, shards, pool, reqs, shares, chans, writers, files, reload, epc, failures, panic>>

(* It waits for running to be 0, but not for ever.  Then every shard's     *)
(* channel is closed, and every writer told to end; exit() of each drains  *)
(* the channel.                                                            *)
ExitCloses ==
    /\ xpc = "wait"
    /\ closed' = 0..(pool - 1)
    /\ stop' = stop \cup {w \in Writers : w \in Members(list[w[1]])}
    /\ epc' = [w \in Writers |-> IF w \in Members(list[w[1]]) THEN "drain" ELSE epc[w]]
    /\ xpc' = "join"
    /\ UNCHANGED <<running, config, shards, pool, reqs, shares, chan, wpc, cur, list, files, reload, exiting, failures, panic>>

(* exit() after a reload drains the channel only if the server is exiting. *)
WriterChecks(w) ==
    /\ epc[w] = "check"
    /\ epc' = [epc EXCEPT ![w] = IF exiting THEN "drain" ELSE "off"]
    /\ UNCHANGED <<running, config, shards, pool, reqs, shares, chans, writers, files, reload, exiting, xpc, failures, panic>>

(* for m := range w.C; a message that cannot be written is not kept.       *)
WriterDrain(w) ==
    /\ epc[w] = "drain" /\ Queue(w) # <<>>
    /\ chan' = [chan EXCEPT ![w[1]] = Tail(@)]
    /\ \/ stored' = stored \cup {Head(Queue(w))} /\ recycled' = recycled \cup {Head(Queue(w))}
         /\ UNCHANGED <<dropped, failures>>
       \/ Fault("write") /\ dropped' = dropped \cup {Head(Queue(w))} /\ UNCHANGED <<stored, recycled>>
       \/ Fault("remove") /\ dropped' = dropped \cup {Head(Queue(w))}
         /\ stored' = stored \cup {Head(Queue(w))} /\ UNCHANGED recycled
    /\ UNCHANGED <<running, config, shards, pool, reqs, shares, closed, writers, reload, exits, panic>>

(* The loops end when the channels, which are closed, are empty.           *)
ExitDone ==
    /\ xpc = "join" /\ \A s \in closed : chan[s] = <<>>
    /\ xpc' = "done"
    /\ UNCHANGED <<running, config, shards, pool, reqs, shares, chans, writers, files, reload, exiting, epc, failures, panic>>

Exits == ExitCloses \/ ExitDone \/ \E w \in Writers : WriterChecks(w) \/ WriterDrain(w)

-----------------------------------------------------------------------------
Proceed ==
    \/ \E r \in Requests : Set(r) \/ Request(r)
    \/ OtherDecrements
    \/ \E w \in Writers : Writer(w)
    \/ Exit \/ Exits

Reloading == (\E c \in Configs : Reload(c)) \/ ReloadShards \/ ReloadPanics

(* A panic ends the program; so does main, some time after Exit is done.   *)
Next == ~panic /\ (Reloading \/ (xpc # "done" /\ Proceed))

Spec == Init /\ [][Next]_vars

(* The goroutines run.                                                     *)
Fairness ==
    /\ \A r \in Requests : WF_vars(~panic /\ xpc # "done" /\ Request(r))
    /\ \A w \in Writers : WF_vars(~panic /\ xpc # "done" /\ Writer(w))
    /\ WF_vars(~panic /\ ReloadShards) /\ WF_vars(~panic /\ Exits)
LiveSpec == Spec /\ Fairness

-----------------------------------------------------------------------------
(* running counts the requests that were accepted and whose message is not *)
(* in a shard's channel yet, and for ever those that failed on the way.    *)
(* Only a message that is recycled before sentToShard's deferred decrement *)
(* makes it count too few (a decrement of another relayer) or too many     *)
(* (one that went there), so that with one such relayer the exit does not  *)
(* close the channels before a message is in unless its retries end.       *)
Counted == {r \in Requests : rpc[r] \in {"parse", "tmp", "send", "count", "fail"}}
RunningCounts ==
    /\ running = Cardinality(Counted) + missed - strayed
    /\ ~Shared => missed = 0 /\ strayed = 0

(* A message given to sentToShard is in exactly one place, once in the     *)
(* channel, in the hands of one writer, recycled or given up, whatever     *)
(* failed, and it is recycled only when its file was written.  Besides,    *)
(* the state is well typed and no channel is overfull.                     *)
Places(r) ==
    Cardinality({x \in Shards \X (1..Buffer) : x[2] <= Len(chan[x[1]]) /\ chan[x[1]][x[2]] = r})
      + Cardinality({w \in Writers : cur[w] = r})
      + Cardinality({f \in {1} : r \in recycled}) + Cardinality({f \in {1} : r \in dropped})
MessageOnce ==
    /\ TypeOK
    /\ \A r \in Requests : Places(r) = IF rpc[r] \in {"count", "end"} THEN 1 ELSE 0

(* The writers of a shard wait, all of them, to send a message they could  *)
(* not write to the full channel they should empty.                        *)
Busy(s) == {w \in Writers : w[1] = s /\ wpc[w] # "off"}
Stuck(s) == ~Room(s) /\ Busy(s) # {} /\ \A w \in Busy(s) : wpc[w] = "retry"

(* Every SET whose message has a shard ends up in its file, while writers  *)
(* come and go and writes fail a number of times, unless the writers get   *)
(* stuck, or the program was told to exit.                                 *)
AllStored ==
    \A r \in Requests :
        (rpc[r] = "send" /\ shard[r] < pool) ~> (r \in stored \/ Stuck(shard[r]) \/ exiting)
=============================================================================
