------------------------------ MODULE KvStore ------------------------------
(***************************************************************************)
(* The relayer that keeps hashes in an HTTP key-value store                *)
(* (custom/redis2kvstore): the HMSETs a connection has pending, the pools  *)
(* of Hmset values and of maps, the goroutines of send, the reads and the  *)
(* exit.  An Hmset is an address of a heap, so that two goroutines may     *)
(* hold the same one.  A field is a name and the HMSET that wrote it.      *)
(* Faulty variants of some definitions, used by no other, stand before     *)
(* them: ExpireUncloned, CloneEmpty, FirstWins, UnsentIfExpired and        *)
(* IdleAtOne are mutants the properties must detect.                       *)
(***************************************************************************)
EXTENDS Integers, Sequences, FiniteSets, FiniteSetsExt

CONSTANTS
    Conns,          \* connections, each accepted at most once
    Keys, EmptyKey, \* keys of the hashes; EmptyKey is the key "", if there is one
    Names, Items,   \* names of fields; the lists of names an HMSET may give
    MaxHmsets,      \* bound: Hmset values alive at a time
    MaxSends,       \* bound: EXPIREs
    MaxWrites,      \* bound: fields a connection sets in a hash
    MaxReads,       \* bound: HGETs and HGETALLs of a connection
    Configs,        \* configurations: how values are packed and unpacked
    MaxTries,       \* maxConnectionsTries
    MaxRetries      \* times Exit looks at running again

Hmsets == 1..MaxHmsets
Sends == 1..MaxSends
Procs == Conns \cup Sends        \* goroutines that run send
Nobody == 0
None == <<>>

ASSUME KvAssumption ==
    /\ Items \subseteq Seq(Names) \ {<<>>} /\ Conns \cap Sends = {}
    /\ {MaxHmsets, MaxTries} \subseteq Nat \ {0} /\ {MaxSends, MaxWrites, MaxReads, MaxRetries} \subseteq Nat
    /\ Configs # {} /\ Configs \subseteq [gzip : BOOLEAN, gunzip : BOOLEAN, compress : BOOLEAN]

VARIABLES
    config,               \* srv.config
    heap, hmsetPool,      \* the Hmset values, and how often each is in the pool
    pendingPool,          \* the maps in their pool
    cpc, pending, at, got, ctries, answer,
                          \* connections: program counter, map, the key and the
                          \* name (or "all") at hand, Hmset read, attempts, reply
    spc, key, hmset, body, tries,
                          \* sends: program counter, arguments, body, attempts
    running, store,       \* srv.running, and what the HTTP server holds
    xpc, retry,           \* Exit: program counter and its loop counter
    \* what was: fields answered OK, how many of them a send was given, what each
    \* send was given, values put in the pool twice, connections that held one
    acked, handed, given, doubled, tainted

hmsets == <<heap, hmsetPool>>
reading == <<at, got, ctries, answer>>
sending == <<spc, key, hmset, body, tries>>
exits == <<xpc, retry>>
history == <<acked, handed, given, doubled, tainted>>
vars == <<config, hmsets, pendingPool, cpc, pending, reading, sending, running, store, exits, history>>

Field == [name : Names, by : Conns \X Keys \X (1..MaxWrites)]
Blank == [fields |-> <<>>, sent |-> FALSE]
EmptyMap == [k \in {} |-> Nobody]

(* The type invariant of the relayer.                                      *)
TypeOK ==
    /\ config \in Configs
    /\ \A h \in Hmsets : heap[h].sent \in BOOLEAN /\ \A i \in DOMAIN heap[h].fields : heap[h].fields[i] \in Field
    /\ hmsetPool \in [Hmsets -> Nat] /\ pendingPool \subseteq {EmptyMap}
    /\ cpc \in [Conns -> {"new", "read", "fetch", "answer", "close", "send", "end"}]
    /\ \A c \in Conns : DOMAIN pending[c] \subseteq Keys /\ \A k \in DOMAIN pending[c] : pending[c][k] \in Hmsets
    /\ \A c \in Conns : got[c] \in Hmsets \cup {Nobody} /\ (got[c] # Nobody <=> cpc[c] = "answer")
    /\ spc \in [Procs -> {"off", "ready", "post", "undo"}] /\ hmset \in [Procs -> Hmsets \cup {Nobody}]
    /\ \A p \in Procs : spc[p] # "off" => hmset[p] \in Hmsets /\ key[p] \in Keys
    /\ ctries \in [Conns -> 0..(MaxTries - 1)] /\ tries \in [Procs -> 0..(MaxTries - 1)]
    /\ running \in Nat /\ xpc \in {"run", "wait", "done"} /\ retry \in 0..MaxRetries
    /\ doubled \subseteq Hmsets /\ tainted \subseteq Conns

Init ==
    /\ config \in Configs
    /\ heap = [h \in Hmsets |-> Blank] /\ hmsetPool = [h \in Hmsets |-> 0] /\ pendingPool = {}
    /\ cpc = [c \in Conns |-> "new"] /\ pending = [c \in Conns |-> EmptyMap]
    /\ at = [c \in Conns |-> None] /\ got = [c \in Conns |-> Nobody]
    /\ ctries = [c \in Conns |-> 0] /\ answer = [c \in Conns |-> None]
    /\ spc = [p \in Procs |-> "off"] /\ key = [p \in Procs |-> EmptyKey] /\ hmset = [p \in Procs |-> Nobody]
    /\ body = [p \in Procs |-> None] /\ tries = [p \in Procs |-> 0]
    /\ running = 0 /\ store = [k \in Keys |-> None] /\ xpc = "run" /\ retry = 0
    /\ acked = [c \in Conns |-> [k \in Keys |-> <<>>]] /\ handed = [c \in Conns |-> [k \in Keys |-> 0]]
    /\ given = [p \in Procs |-> None] /\ doubled = {} /\ tainted = {}

-----------------------------------------------------------------------------
(* The pools.                                                              *)

Held(h) ==
    \/ \E c \in Conns : got[c] = h \/ \E k \in DOMAIN pending[c] : pending[c][k] = h
    \/ \E p \in Procs : spc[p] # "off" /\ hmset[p] = h
Unused == {h \in Hmsets : hmsetPool[h] = 0 /\ ~Held(h)}

(* getPoolHMSet: one of the pool, reset, or a new one.  A sync.Pool may    *)
(* give nothing although something was put in it.                          *)
Available == {h \in Hmsets : hmsetPool[h] > 0} \cup (IF Unused = {} THEN {} ELSE {Min(Unused)})
Taken(h) == [hmsetPool EXCEPT ![h] = IF @ > 0 THEN @ - 1 ELSE 0]

(* putPoolHMSet, whoever else holds h.                                     *)
Put(h) == heap' = [heap EXCEPT ![h] = Blank] /\ hmsetPool' = [hmsetPool EXCEPT ![h] = @ + 1]

-----------------------------------------------------------------------------
(* handleConnection.                                                       *)

Goto(c, l) == cpc' = [cpc EXCEPT ![c] = l]

Accept(c) ==
    /\ cpc[c] = "new" /\ xpc = "run"
    /\ \/ pending' = [pending EXCEPT ![c] = EmptyMap] /\ UNCHANGED pendingPool
       \/ \E m \in pendingPool : pending' = [pending EXCEPT ![c] = m] /\ pendingPool' = pendingPool \ {m}
    /\ Goto(c, "read")
    /\ UNCHANGED <<config, hmsets, reading, sending, running, store, exits, history>>

(* processItems.                                                           *)
Fields(c, k, items) == [i \in DOMAIN items |-> [name |-> items[i], by |-> <<c, k, Len(acked[c][k]) + 1>>]]

Hmset(c, k, items) ==
    /\ cpc[c] = "read" /\ Len(acked[c][k]) + Len(items) <= MaxWrites
    /\ \/ /\ k \in DOMAIN pending[c]
          /\ heap' = [heap EXCEPT ![pending[c][k]].fields = @ \o Fields(c, k, items)]
          /\ UNCHANGED <<hmsetPool, pending, tainted>>
       \/ /\ k \notin DOMAIN pending[c]
          /\ \E h \in Available :
                /\ hmsetPool' = Taken(h)
                /\ heap' = [heap EXCEPT ![h] = [Blank EXCEPT !.fields = Fields(c, k, items)]]
                /\ pending' = [pending EXCEPT ![c] = [j \in DOMAIN @ \cup {k} |-> IF j = k THEN h ELSE @[j]]]
                /\ tainted' = IF h \in doubled THEN tainted \cup {c} ELSE tainted
    /\ acked' = [acked EXCEPT ![c][k] = @ \o Fields(c, k, items)]
    /\ answer' = [answer EXCEPT ![c] = None]
    /\ UNCHANGED <<config, pendingPool, cpc, at, got, ctries, sending, running, store, exits, handed, given, doubled>>

(* The arguments of a call of send.                                        *)
Call(p, k, h, fields) ==
    /\ spc' = [spc EXCEPT ![p] = "ready"]
    /\ key' = [key EXCEPT ![p] = k]
    /\ hmset' = [hmset EXCEPT ![p] = h]
    /\ given' = [given EXCEPT ![p] = fields]

(* EXPIRE: the value is marked as sent and stays in the map; send gets a   *)
(* clone, which is the value itself if the pool had it too.                *)
CloneEmpty(h, new) == [heap EXCEPT ![h].sent = TRUE, ![new] = [Blank EXCEPT !.sent = TRUE]]
Clone(h, new) ==
    LET marked == [heap EXCEPT ![h].sent = TRUE]
        reset == [marked EXCEPT ![new] = Blank]
    IN  [reset EXCEPT ![new] = reset[h]]

Fresh(s) == given[s] = None /\ \A t \in 1..(s - 1) : given[t] # None

ExpireUncloned(c, k) ==
    /\ cpc[c] = "read" /\ k \in DOMAIN pending[c] /\ k # EmptyKey
    /\ heap' = [heap EXCEPT ![pending[c][k]].sent = TRUE]
    /\ \E s \in Sends : Fresh(s) /\ Call(s, k, pending[c][k], acked[c][k])
    /\ handed' = [handed EXCEPT ![c][k] = Len(acked[c][k])]
    /\ UNCHANGED <<config, hmsetPool, pendingPool, cpc, pending, reading, body, tries, running, store, exits, acked, doubled, tainted>>

Expire(c, k) ==
    /\ cpc[c] = "read" /\ k \in DOMAIN pending[c] /\ k # EmptyKey
    /\ \E h \in Available, s \in Sends :
          /\ hmsetPool' = Taken(h) /\ heap' = Clone(pending[c][k], h)
          /\ Fresh(s) /\ Call(s, k, h, acked[c][k])
    /\ handed' = [handed EXCEPT ![c][k] = Len(acked[c][k])]
    /\ UNCHANGED <<config, pendingPool, cpc, pending, reading, body, tries, running, store, exits, acked, doubled, tainted>>

(* getAllAsRedis makes a map, where the last value of a name remains;      *)
(* getOneAsRedis returns the first it finds.                               *)
Named(fields, n) == {i \in DOMAIN fields : fields[i].name = n}
FirstWins(fields) ==
    [n \in {fields[i].name : i \in DOMAIN fields} |-> fields[Min(Named(fields, n))].by]
GetAllAsRedis(fields) ==
    [n \in {fields[i].name : i \in DOMAIN fields} |-> fields[Max(Named(fields, n))].by]
GetOneAsRedis(fields, n) ==
    IF Named(fields, n) = {} THEN "nil" ELSE fields[Min(Named(fields, n))].by

Result(fields, what) == IF what = "all" THEN GetAllAsRedis(fields) ELSE GetOneAsRedis(fields, what)
Reads(c) == IF answer[c] = None THEN 0 ELSE answer[c].nth

Reply(c, k, what, r) ==
    answer' = [answer EXCEPT ![c] = [key |-> k, what |-> what, result |-> r, nth |-> Reads(c) + 1]]

(* HGET and HGETALL: from the values in memory, or else from the store.    *)
InMemory(c, k, what) ==
    /\ k \in DOMAIN pending[c]
    /\ what = "all" \/ Named(heap[pending[c][k]].fields, what) # {}

Hget(c, k, what) ==
    /\ cpc[c] = "read" /\ Reads(c) < MaxReads
    /\ \/ /\ InMemory(c, k, what)
          /\ Reply(c, k, what, Result(heap[pending[c][k]].fields, what))
          /\ UNCHANGED <<cpc, at>>
       \/ /\ ~InMemory(c, k, what)
          /\ Goto(c, "fetch") /\ at' = [at EXCEPT ![c] = <<k, what>>]
          /\ UNCHANGED answer
    /\ UNCHANGED <<config, hmsets, pendingPool, pending, got, ctries, sending, running, store, exits, history>>

(* The configuration says how values are packed, and how they are unpacked. *)
Pack == IF config.gzip THEN "gzip" ELSE IF config.compress THEN "snappy" ELSE "plain"
Unpack == IF config.gzip \/ config.gunzip THEN "gzip" ELSE IF config.compress THEN "snappy" ELSE "plain"

(* get: the value is unmarshalled into an Hmset of the pool; what was      *)
(* packed in another way is an error, like a request that fails.           *)
Fetched(c, k) ==
    /\ store[k] # None /\ store[k].pack = Unpack
    /\ \E h \in Available :
          /\ hmsetPool' = Taken(h)
          /\ heap' = [heap EXCEPT ![h] = [fields |-> store[k].fields, sent |-> store[k].sent]]
          /\ got' = [got EXCEPT ![c] = h]
    /\ ctries' = [ctries EXCEPT ![c] = 0] /\ Goto(c, "answer")
    /\ UNCHANGED <<at, answer>>

NotFetched(c, k) ==
    /\ \/ /\ ctries[c] + 1 < MaxTries
          /\ ctries' = [ctries EXCEPT ![c] = @ + 1]
          /\ UNCHANGED <<cpc, at, answer>>
       \/ /\ ctries[c] + 1 = MaxTries
          /\ ctries' = [ctries EXCEPT ![c] = 0]
          /\ Reply(c, k, at[c][2], "error") /\ Goto(c, "read") /\ at' = [at EXCEPT ![c] = None]
    /\ UNCHANGED <<hmsets, got>>

Fetch(c) ==
    /\ cpc[c] = "fetch"
    /\ Fetched(c, at[c][1]) \/ NotFetched(c, at[c][1])
    /\ UNCHANGED <<config, pendingPool, pending, sending, running, store, exits, history>>

Answer(c) ==
    /\ cpc[c] = "answer"
    /\ Reply(c, at[c][1], at[c][2], Result(heap[got[c]].fields, at[c][2]))
    /\ Put(got[c])
    /\ got' = [got EXCEPT ![c] = Nobody] /\ at' = [at EXCEPT ![c] = None]
    /\ Goto(c, "read")
    /\ UNCHANGED <<config, pendingPool, pending, ctries, sending, running, store, exits, history>>

(* The connection was closed: what was never sent is sent now, and each    *)
(* value is put in the pool.                                               *)
Close(c) ==
    /\ cpc[c] = "read"
    /\ Goto(c, "close") /\ answer' = [answer EXCEPT ![c] = None]
    /\ UNCHANGED <<config, hmsets, pendingPool, pending, at, got, ctries, sending, running, store, exits, history>>

UnsentIfExpired(h) == heap[h].sent /\ heap[h].fields # <<>>
Unsent(h) == ~heap[h].sent /\ heap[h].fields # <<>>

Delete(c, k) == pending' = [pending EXCEPT ![c] = [j \in DOMAIN @ \ {k} |-> @[j]]]

CloseSends(c, k) ==
    /\ cpc[c] = "close" /\ k \in DOMAIN pending[c] /\ Unsent(pending[c][k])
    /\ Call(c, k, pending[c][k], acked[c][k])
    /\ handed' = [handed EXCEPT ![c][k] = Len(acked[c][k])]
    /\ Goto(c, "send")
    /\ UNCHANGED <<config, hmsets, pendingPool, pending, reading, body, tries, running, store, exits, acked, doubled, tainted>>

CloseRecycles(c, k) ==
    /\ cpc[c] = "close" /\ k \in DOMAIN pending[c] /\ ~Unsent(pending[c][k])
    /\ Delete(c, k) /\ Put(pending[c][k])
    /\ UNCHANGED <<config, pendingPool, cpc, reading, sending, running, store, exits, history>>

(* The value send has put in the pool is put there a second time.          *)
Others(c, h) == {d \in Conns \ {c} : \E k \in DOMAIN pending[d] : pending[d][k] = h}
ClosePutsAgain(c) ==
    /\ cpc[c] = "send" /\ spc[c] = "off"
    /\ LET h == pending[c][key[c]] IN
          /\ Delete(c, key[c]) /\ Put(h)
          /\ doubled' = doubled \cup {h} /\ tainted' = tainted \cup Others(c, h)
    /\ Goto(c, "close")
    /\ UNCHANGED <<config, pendingPool, reading, sending, running, store, exits, acked, handed, given>>

ClosePutsMap(c) ==
    /\ cpc[c] = "close" /\ DOMAIN pending[c] = {}
    /\ pendingPool' = pendingPool \cup {pending[c]}
    /\ Goto(c, "end")
    /\ UNCHANGED <<config, hmsets, pending, reading, sending, running, store, exits, history>>

Closing(c) == (\E k \in Keys : CloseSends(c, k) \/ CloseRecycles(c, k)) \/ ClosePutsAgain(c) \/ ClosePutsMap(c)

-----------------------------------------------------------------------------
(* send, in a goroutine of its own or in that of a connection that ends.   *)

Step(p, l) == spc' = [spc EXCEPT ![p] = l]

(* The counter, then the body: an empty one is not posted.                 *)
SendStart(p) ==
    /\ spc[p] = "ready"
    /\ running' = running + 1
    /\ body' = [body EXCEPT ![p] = [fields |-> heap[hmset[p]].fields, sent |-> heap[hmset[p]].sent, pack |-> Pack]]
    /\ Step(p, IF heap[hmset[p]] = Blank /\ Pack = "plain" THEN "undo" ELSE "post")
    /\ UNCHANGED <<config, hmsets, pendingPool, cpc, pending, reading, key, hmset, tries, store, exits, history>>

(* A request that failed may have reached the store all the same.          *)
Failed(p) ==
    \/ tries[p] + 1 < MaxTries /\ tries' = [tries EXCEPT ![p] = @ + 1] /\ Step(p, "post")
    \/ tries[p] + 1 = MaxTries /\ Step(p, "undo") /\ UNCHANGED tries

Post(p) ==
    /\ spc[p] = "post"
    /\ \/ store' = [store EXCEPT ![key[p]] = body[p]] /\ Step(p, "undo") /\ UNCHANGED tries
       \/ store' \in {store, [store EXCEPT ![key[p]] = body[p]]} /\ Failed(p)
    /\ UNCHANGED <<config, hmsets, pendingPool, cpc, pending, reading, key, hmset, body, running, exits, history>>

(* The deferred calls.                                                     *)
SendEnd(p) ==
    /\ spc[p] = "undo"
    /\ running' = running - 1
    /\ Put(hmset[p])
    /\ Step(p, "off") /\ hmset' = [hmset EXCEPT ![p] = Nobody]
    /\ body' = [body EXCEPT ![p] = None] /\ tries' = [tries EXCEPT ![p] = 0]
    /\ UNCHANGED <<config, pendingPool, cpc, pending, reading, key, store, exits, history>>

Send(p) == SendStart(p) \/ Post(p) \/ SendEnd(p)

-----------------------------------------------------------------------------
Reload(new) ==
    /\ new # config /\ xpc = "run"
    /\ config' = new
    /\ UNCHANGED <<hmsets, pendingPool, cpc, pending, reading, sending, running, store, exits, history>>

(* Exit closes the listener, the connections go on.                        *)
Exit ==
    /\ xpc = "run"
    /\ xpc' = "wait"
    /\ UNCHANGED <<config, hmsets, pendingPool, cpc, pending, reading, sending, running, store, retry, history>>

IdleAtOne == running <= 1
NoneRunning == running = 0

ExitChecks ==
    /\ xpc = "wait"
    /\ \/ (NoneRunning \/ retry = MaxRetries) /\ xpc' = "done" /\ UNCHANGED retry
       \/ ~NoneRunning /\ retry < MaxRetries /\ retry' = retry + 1 /\ UNCHANGED xpc
    /\ UNCHANGED <<config, hmsets, pendingPool, cpc, pending, reading, sending, running, store, history>>

-----------------------------------------------------------------------------
Connection(c) ==
    \/ Accept(c) \/ Fetch(c) \/ Answer(c) \/ Close(c) \/ Closing(c)
    \/ \E k \in Keys : Expire(c, k) \/ (\E i \in Items : Hmset(c, k, i)) \/ (\E w \in Names \cup {"all"} : Hget(c, k, w))

(* main ends the program when Exit is done.                                *)
Next ==
    /\ xpc # "done"
    /\ \/ \E c \in Conns : Connection(c)
       \/ \E p \in Procs : Send(p)
       \/ (\E new \in Configs : Reload(new)) \/ Exit \/ ExitChecks

Spec == Init /\ [][Next]_vars

-----------------------------------------------------------------------------
(* An Hmset is in one place: pending in one connection, read by one, the   *)
(* argument of one send, or once in the pool; except those a connection    *)
(* ended with before it had sent them, which go to the pool twice.         *)
(* Besides, the state is well typed.                                       *)
Uses(h) ==
    Cardinality({x \in Conns \X Keys : x[2] \in DOMAIN pending[x[1]] /\ pending[x[1]][x[2]] = h /\ cpc[x[1]] # "send"})
      + Cardinality({c \in Conns : got[c] = h}) + Cardinality({p \in Procs : hmset[p] = h}) + hmsetPool[h]
OneOwner == TypeOK /\ \A h \in Hmsets \ doubled : Uses(h) <= 1

(* What is posted for a key is what the connection had set when it sent    *)
(* EXPIRE or was closed, also while it goes on setting fields and other    *)
(* connections take and put values; unless a value was put twice.          *)
PostsSnapshot ==
    \A p \in Procs : spc[p] = "post" /\ tainted = {} /\ hmset[p] \notin doubled => body[p].fields = given[p]

(* A connection reads what it wrote: HGETALL the last value of each field, *)
(* HGET one it has written.                                                *)
ReadsOwnWrites ==
    \A c \in Conns \ tainted :
        answer[c] # None /\ acked[c][answer[c].key] # <<>> =>
            LET own == acked[c][answer[c].key] IN
            IF answer[c].what = "all"
              THEN answer[c].result = [n \in {own[i].name : i \in DOMAIN own} |-> own[Max(Named(own, n))].by]
              ELSE Named(own, answer[c].what) # {} =>
                      \E i \in Named(own, answer[c].what) : answer[c].result = own[i].by

(* When a connection has ended, every field it was answered OK for was     *)
(* given to a send, except those set after the last EXPIRE of a key: the   *)
(* value stays marked as sent.                                             *)
NothingForgotten ==
    \A c \in Conns \ tainted : cpc[c] = "end" =>
        \A k \in Keys : handed[c][k] = Len(acked[c][k]) \/ handed[c][k] > 0

(* If Exit ends before its last attempt no post is under way.              *)
ExitWaitsForPosts ==
    xpc = "done" /\ retry < MaxRetries => \A p \in Procs : spc[p] \in {"off", "ready"}
=============================================================================
