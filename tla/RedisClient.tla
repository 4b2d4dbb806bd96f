---------------------------- MODULE RedisClient ----------------------------
(***************************************************************************)
(* One Client of the redis2 relayer (redis/radix/client.go): the goroutine *)
(* requestListener takes the requests of the local connection that owns    *)
(* the client from requestChan, writes them to the Redis server and pushes *)
(* them on queueChan; one goroutine redisListener per dialled connection   *)
(* pairs the entries of its queue with the answers it reads.               *)
(*                                                                         *)
(* A step is what a goroutine does between two accesses to shared state:   *)
(* the mutex protects connect, disconnect and close, but neither the reads *)
(* of write() nor the send on queueChan.                                   *)
(*                                                                         *)
(* Just before some definitions stands a faulty variant of them, a mutant  *)
(* that a property named in PROJECT.json must detect; no other definition  *)
(* uses it.                                                                *)
(***************************************************************************)
EXTENDS Integers, Sequences

CONSTANTS
    Inputs,        \* the requests a local connection may issue
    MaxRequests,   \* bound: requests issued in a behaviour
    MaxConns,      \* bound: successful dials in a behaviour
    BufferSize,    \* requestBufferSize, the capacity of both channels
    FailureLimit,  \* failed dials in a row a client survives (10 in the code)
    Modes,         \* the values Reload may give to "mode is ModeSmart"
    Faults         \* what the environment may do, a subset of FaultNames

FaultNames == {"break", "timeout", "eof", "idle", "dial", "exit"}

ASSUME ClientAssumption ==
    /\ MaxRequests \in Nat /\ MaxConns \in Nat
    /\ BufferSize \in Nat \ {0} /\ FailureLimit \in Nat
    /\ Inputs \subseteq [sync : BOOLEAN, sel : BOOLEAN, db : Nat]
    /\ Modes \subseteq BOOLEAN /\ Faults \subseteq FaultNames

Ids == 1..MaxRequests
Connections == 1..MaxConns
RL == 0                         \* the requestListener goroutine
Threads == 0..MaxConns          \* g > 0: the redisListener of connection g
Nil == 0                        \* no connection, no channel
Marker == 0                     \* the nil entry of queueChan, and the answer to changeDB
KO == -1                        \* respKO, or the error send returned
Nobody == -1                    \* the mutex is free

VARIABLES
    (* fields of Client *)
    ready, connected, smart, failures,
    failAge,       \* age of lastConnectFailure: <200ms, <connectTimeout, more
    netConn, rw,   \* connections are numbered in the order they are dialled
    database,
    requestChan, open,
    queueChan,     \* the connection whose queue clt.queueChan points to
    queue, closed, \* per connection: the buffered channel and whether it is closed
    lock,
    (* goroutines *)
    pc,
    ret,           \* where a goroutine goes on after disconnect()
    hand,          \* the request a goroutine is working on
    slot,          \* the channel requestListener evaluated for its send
    panic,         \* "none", or why the Go runtime ended the process
    (* the network and the Redis server *)
    sock, wire, session,
    (* history *)
    reqs,          \* every request issued; its index is its identity
    answers,       \* what was written to the client for each request
    ranIn          \* the databases each request was executed in

fields  == <<ready, connected, smart, failures, failAge, netConn, rw, database>>
chans   == <<requestChan, open, queueChan, queue, closed, lock>>
network == <<sock, wire, session>>
history == <<reqs, answers, ranIn>>
threads == <<pc, ret, hand, slot, panic>>
vars    == <<fields, chans, threads, network, history>>

Labels == {"start", "select", "write", "database", "changer", "resp", "reconnect",
           "rewrite", "loadNil", "pushNil", "load", "push", "ko", "gone",
           "recv", "read", "exiting", "closing", "off",
           "lock", "purge", "closeQueue"}

FieldTypes ==
    /\ ready \in BOOLEAN /\ connected \in BOOLEAN /\ smart \in BOOLEAN
    /\ failures \in 0..(FailureLimit + 1) /\ failAge \in {"fresh", "recent", "old"}
    /\ netConn \in 0..MaxConns /\ rw \in 0..MaxConns
    /\ database \in Nat
ChannelTypes ==
    /\ requestChan \in Seq(Ids) /\ Len(requestChan) <= BufferSize /\ open \in BOOLEAN
    /\ queueChan \in 0..MaxConns
    /\ queue \in [Connections -> Seq(0..MaxRequests)]
    /\ \A g \in Connections : Len(queue[g]) <= BufferSize
    /\ closed \in [Connections -> BOOLEAN]
    /\ lock \in Threads \cup {Nobody}
ThreadTypes ==
    /\ pc \in [Threads -> Labels] /\ ret \in [Threads -> Labels]
    /\ hand \in [Threads -> 0..MaxRequests] /\ slot \in 0..MaxConns
    /\ panic \in {"none", "nilEntry", "nilConn", "sendOnClosed", "closeOfClosed"}
NetworkTypes ==
    /\ sock \in [Connections -> {"none", "up", "broken", "closed"}]
    /\ wire \in [Connections -> Seq(0..MaxRequests)]
    /\ session \in [Connections -> Nat]
HistoryTypes ==
    /\ reqs \in Seq(Inputs) /\ Len(reqs) <= MaxRequests
    /\ answers \in [Ids -> Seq(-1..MaxRequests)]
    /\ ranIn \in [Ids -> SUBSET Nat]

(* The type invariant: what each variable may hold; no channel is sent to  *)
(* beyond its capacity, no client goes on dialling beyond FailureLimit.    *)
TypeOK == FieldTypes /\ ChannelTypes /\ ThreadTypes /\ NetworkTypes /\ HistoryTypes

Init ==
    /\ ready = TRUE /\ connected = FALSE /\ smart \in Modes
    /\ failures = 0 /\ failAge = "old"
    /\ netConn = Nil /\ rw = 0 /\ database = 0
    /\ requestChan = <<>> /\ open = TRUE /\ queueChan = Nil
    /\ queue = [g \in Connections |-> <<>>]
    /\ closed = [g \in Connections |-> FALSE]
    /\ lock = Nobody
    /\ pc = [t \in Threads |-> IF t = RL THEN "start" ELSE "off"]
    /\ ret = [t \in Threads |-> "off"]
    /\ hand = [t \in Threads |-> Nil] /\ slot = Nil /\ panic = "none"
    /\ sock = [g \in Connections |-> "none"]
    /\ wire = [g \in Connections |-> <<>>]
    /\ session = [g \in Connections |-> 0]
    /\ reqs = <<>>
    /\ answers = [i \in Ids |-> <<>>]
    /\ ranIn = [i \in Ids |-> {}]

-----------------------------------------------------------------------------
(* Helpers.                                                                *)

(* req.Conn is nil for a request answered in advance: nothing is written.  *)
Answered(i, a) ==
    IF reqs[i].sync THEN [answers EXCEPT ![i] = Append(@, a)] ELSE answers

NoMutex == TRUE
Unlocked == lock = Nobody

Goto(t, l) == pc' = [pc EXCEPT ![t] = l]

(* t calls disconnect() and then goes on at l.                             *)
CallDisconnect(t, l) ==
    /\ Goto(t, "lock")
    /\ ret' = [ret EXCEPT ![t] = l]

-----------------------------------------------------------------------------
(* The local connection and the pool, which own the client.                *)

Accepts ==
    /\ open /\ ready
    /\ failures = 0 \/ failAge = "old"
    /\ Len(requestChan) # BufferSize

(* A request carries the database its connection selected last: its own if *)
(* it is a SELECT, 0 on a new connection, else that of the one before it.  *)
(* A refused request is answered with the error at once.                   *)
Send(r) ==
    /\ Len(reqs) < MaxRequests
    /\ r.sel \/ r.db = 0 \/ (reqs # <<>> /\ r.db = reqs[Len(reqs)].db)
    /\ reqs' = Append(reqs, r)
    /\ IF Accepts
       THEN /\ requestChan' = Append(requestChan, Len(reqs) + 1)
            /\ UNCHANGED answers
       ELSE /\ answers' = IF r.sync THEN [answers EXCEPT ![Len(reqs) + 1] = Append(@, KO)]
                                    ELSE answers
            /\ UNCHANGED requestChan
    /\ UNCHANGED <<fields, open, queueChan, queue, closed, lock, threads, network, ranIn>>

Exit ==
    /\ "exit" \in Faults
    /\ open /\ Unlocked
    /\ ready' = FALSE
    /\ open' = FALSE
    /\ UNCHANGED <<connected, smart, failures, failAge, netConn, rw, database, requestChan,
                   queueChan, queue, closed, lock, threads, network, history>>

(* Pool.Reload passes the new configuration to an idle client; flush() has *)
(* nothing to write, since NetReadWriter does not buffer.                  *)
Reload(m) ==
    /\ Unlocked
    /\ smart # m
    /\ smart' = m
    /\ UNCHANGED <<ready, connected, failures, failAge, netConn, rw, database,
                   chans, threads, network, history>>

(* Time passes: the last failure becomes older than 200 ms, then than 5 s. *)
Elapse ==
    /\ failAge # "old"
    /\ failAge' = IF failAge = "fresh" THEN "recent" ELSE "old"
    /\ UNCHANGED <<ready, connected, smart, failures, netConn, rw, database,
                   chans, threads, network, history>>

(* The server, or the network, drops connection g.                         *)
Break(g) ==
    /\ "break" \in Faults
    /\ sock[g] = "up"
    /\ sock' = [sock EXCEPT ![g] = "broken"]
    /\ UNCHANGED <<fields, chans, threads, wire, session, history>>

-----------------------------------------------------------------------------
(* connect(), called by requestListener, which goes on at yes or at no.    *)

Dialled(yes) ==
    LET g == rw + 1
    IN  /\ failures <= FailureLimit /\ failAge # "fresh"
        /\ rw < MaxConns
        /\ failures' = 0
        /\ netConn' = g /\ rw' = g /\ queueChan' = g
        /\ connected' = TRUE
        /\ sock' = [sock EXCEPT ![g] = "up"]
        /\ pc' = [pc EXCEPT ![RL] = yes, ![g] = "recv"]
        /\ UNCHANGED <<ready, failAge>>

NotDialled(no) ==
    /\ \/ /\ failures > FailureLimit
          /\ ready' = FALSE
          /\ UNCHANGED <<failures, failAge, netConn>>
       \/ /\ failures <= FailureLimit /\ failAge = "fresh"
          /\ UNCHANGED <<ready, failures, failAge, netConn>>
       \/ /\ failures <= FailureLimit /\ failAge # "fresh"
          /\ "dial" \in Faults \/ rw = MaxConns
          /\ netConn' = Nil
          /\ failures' = failures + 1
          /\ failAge' = "fresh"
          /\ UNCHANGED ready
    /\ Goto(RL, no)
    /\ UNCHANGED <<connected, rw, queueChan, sock>>

Connect(yes, no) ==
    /\ Unlocked
    /\ Dialled(yes) \/ NotDialled(no)
    /\ UNCHANGED <<smart, database, requestChan, open, queue, closed, lock,
                   ret, hand, slot, panic, wire, session, history>>

-----------------------------------------------------------------------------
(* disconnect(), called by any goroutine t.                                *)

Lock(t) ==
    /\ pc[t] = "lock" /\ Unlocked
    /\ connected' = FALSE
    /\ IF queueChan = Nil
       THEN /\ database' = 0
            /\ Goto(t, ret[t])
            /\ UNCHANGED lock
       ELSE /\ lock' = t
            /\ Goto(t, "purge")
            /\ UNCHANGED database
    /\ UNCHANGED <<ready, smart, failures, failAge, netConn, rw, requestChan, open, queueChan,
                   queue, closed, ret, hand, slot, panic, network, history>>

(* purgeRequests() reads req.Conn of what it takes, the nil entry included. *)
Purge(t) ==
    /\ pc[t] = "purge" /\ queue[queueChan] # <<>>
    /\ queue' = [queue EXCEPT ![queueChan] = Tail(@)]
    /\ IF Head(queue[queueChan]) = Marker
       THEN panic' = "nilEntry" /\ UNCHANGED answers
       ELSE answers' = Answered(Head(queue[queueChan]), KO) /\ UNCHANGED panic
    /\ UNCHANGED <<fields, requestChan, open, queueChan, closed, lock, pc, ret, hand, slot,
                   network, reqs, ranIn>>

Purged(t) ==
    /\ pc[t] = "purge" /\ queue[queueChan] = <<>>
    /\ Goto(t, "closeQueue")
    /\ UNCHANGED <<fields, chans, ret, hand, slot, panic, network, history>>

CloseQueueKeepsPointer(t) ==
    /\ pc[t] = "closeQueue"
    /\ panic' = IF closed[queueChan] THEN "closeOfClosed" ELSE panic
    /\ closed' = [closed EXCEPT ![queueChan] = TRUE]
    /\ database' = 0
    /\ lock' = Nobody
    /\ Goto(t, ret[t])
    /\ UNCHANGED <<ready, connected, smart, failures, failAge, netConn, rw, requestChan, open,
                   queueChan, queue, ret, hand, slot, network, history>>

CloseQueue(t) ==
    /\ pc[t] = "closeQueue"
    /\ panic' = IF closed[queueChan] THEN "closeOfClosed" ELSE panic
    /\ closed' = [closed EXCEPT ![queueChan] = TRUE]
    /\ queueChan' = Nil
    /\ database' = 0
    /\ lock' = Nobody
    /\ Goto(t, ret[t])
    /\ UNCHANGED <<ready, connected, smart, failures, failAge, netConn, rw, requestChan, open,
                   queue, ret, hand, slot, network, history>>

-----------------------------------------------------------------------------
(* requestListener.                                                        *)

(* The result of the first connect() is ignored.                           *)
Start == pc[RL] = "start" /\ Connect("select", "select")

Receive ==
    /\ pc[RL] = "select" /\ requestChan # <<>>
    /\ hand' = [hand EXCEPT ![RL] = Head(requestChan)]
    /\ requestChan' = Tail(requestChan)
    /\ Goto(RL, "write")
    /\ UNCHANGED <<fields, open, queueChan, queue, closed, lock, ret, slot, panic,
                   network, history>>

(* The closed channel is drained first; the deferred setReady(false) finds *)
(* it done by Exit.                                                        *)
Finish ==
    /\ pc[RL] = "select" /\ requestChan = <<>> /\ ~open
    /\ CallDisconnect(RL, "gone")
    /\ UNCHANGED <<fields, chans, hand, slot, panic, network, history>>

(* The timer is re-armed after each request. One that fires again before   *)
(* the next request finds no connection to disconnect.                     *)
Idle ==
    /\ "idle" \in Faults
    /\ pc[RL] = "select" /\ netConn # Nil
    /\ CallDisconnect(RL, "select")
    /\ UNCHANGED <<fields, chans, hand, slot, panic, network, history>>

(* write(): connect unless connected. The check does not take the mutex.   *)
WriteConnected ==
    /\ pc[RL] = "write" /\ connected
    /\ Goto(RL, "database")
    /\ UNCHANGED <<fields, chans, ret, hand, slot, panic, network, history>>

WriteConnects == pc[RL] = "write" /\ ~connected /\ Connect("database", "ko")

(* write(): in smart mode a SELECT of the current database is dropped;     *)
(* another command may need the database changed before it.                *)
RedundantInAnyMode(r) == r.sel /\ database = r.db
Redundant(r) == r.sel /\ smart /\ database = r.db

NeedsChangeFromZero(r) == ~r.sel /\ r.db # 0 /\ database # r.db
NeedsChange(r) == ~r.sel /\ database # r.db

ChooseDatabase ==
    LET r == reqs[hand[RL]]
    IN  /\ pc[RL] = "database"
        /\ \/ /\ Redundant(r)
              /\ Goto(RL, "select")
              /\ UNCHANGED database
           \/ /\ r.sel /\ ~Redundant(r)
              /\ database' = r.db
              /\ Goto(RL, "resp")
           \/ /\ NeedsChange(r)
              /\ Goto(RL, "changer")
              /\ UNCHANGED database
           \/ /\ ~r.sel /\ ~NeedsChange(r)
              /\ Goto(RL, "resp")
              /\ UNCHANGED database
        /\ UNCHANGED <<ready, connected, smart, failures, failAge, netConn, rw, chans,
                       ret, hand, slot, panic, network, history>>

(* A write on a broken connection may be lost without an error.            *)
CanWrite == sock[rw] \in {"up", "broken"}
WriteFails == sock[rw] \in {"broken", "closed"}
Delivered(e) == IF sock[rw] = "up" THEN [wire EXCEPT ![rw] = Append(@, e)] ELSE wire

(* changeDB(): a SELECT of its own, whose answer the nil entry stands for. *)
ChangeDB ==
    LET db == reqs[hand[RL]].db
    IN  /\ pc[RL] = "changer"
        /\ \/ /\ CanWrite
              /\ wire' = Delivered(Marker)
              /\ session' = IF sock[rw] = "up" THEN [session EXCEPT ![rw] = db] ELSE session
              /\ database' = db
              /\ Goto(RL, "loadNil")
              /\ UNCHANGED ret
           \/ /\ WriteFails
              /\ CallDisconnect(RL, "ko")
              /\ UNCHANGED <<wire, session, database>>
        /\ UNCHANGED <<ready, connected, smart, failures, failAge, netConn, rw, chans,
                       hand, slot, panic, sock, history>>

(* resp.WriteTo(clt.rw): the server executes the request on arrival.       *)
WriteResp ==
    LET i == hand[RL]
        r == reqs[i]
    IN  /\ pc[RL] \in {"resp", "rewrite"}
        /\ \/ /\ CanWrite
              /\ wire' = Delivered(i)
              /\ session' = IF r.sel /\ sock[rw] = "up"
                            THEN [session EXCEPT ![rw] = r.db] ELSE session
              /\ ranIn' = IF ~r.sel /\ sock[rw] = "up"
                          THEN [ranIn EXCEPT ![i] = @ \cup {session[rw]}] ELSE ranIn
              /\ Goto(RL, "load")
              /\ UNCHANGED ret
           \/ /\ WriteFails
              /\ CallDisconnect(RL, "ko")
              /\ UNCHANGED <<wire, session, ranIn>>
        /\ UNCHANGED <<fields, chans, hand, slot, panic, sock, reqs, answers>>

(* io.EOF from the first write: a second chance on a new connection, which *)
(* is not told the database. The log line reads clt.netConn.               *)
WriteEOF ==
    /\ "eof" \in Faults
    /\ pc[RL] = "resp" /\ sock[rw] = "broken"
    /\ IF netConn = Nil
       THEN panic' = "nilConn" /\ UNCHANGED <<pc, ret>>
       ELSE CallDisconnect(RL, "reconnect") /\ UNCHANGED panic
    /\ UNCHANGED <<fields, chans, hand, slot, network, history>>

Reconnect == pc[RL] = "reconnect" /\ Connect("rewrite", "rewrite")

(* clt.queueChan <- nil and clt.queueChan <- r: the channel is evaluated   *)
(* first, without the mutex, then the goroutine waits for room in it.      *)
LoadWithoutMarker ==
    /\ pc[RL] \in {"load", "loadNil"}
    /\ slot' = queueChan
    /\ Goto(RL, IF pc[RL] = "load" THEN "push" ELSE "resp")
    /\ UNCHANGED <<fields, chans, ret, hand, panic, network, history>>

Load ==
    /\ pc[RL] \in {"load", "loadNil"}
    /\ slot' = queueChan
    /\ Goto(RL, IF pc[RL] = "load" THEN "push" ELSE "pushNil")
    /\ UNCHANGED <<fields, chans, ret, hand, panic, network, history>>

(* A nil channel blocks for ever; a closed one panics.                     *)
Push ==
    /\ pc[RL] \in {"push", "pushNil"} /\ slot # Nil
    /\ IF closed[slot]
       THEN panic' = "sendOnClosed" /\ UNCHANGED <<queue, pc>>
       ELSE /\ Len(queue[slot]) < BufferSize
            /\ queue' = [queue EXCEPT ![slot] =
                             Append(@, IF pc[RL] = "push" THEN hand[RL] ELSE Marker)]
            /\ Goto(RL, IF pc[RL] = "push" THEN "select" ELSE "resp")
            /\ UNCHANGED panic
    /\ UNCHANGED <<fields, requestChan, open, queueChan, closed, lock, ret, hand, slot,
                   network, history>>

(* write() returned an error.                                              *)
WriteFailedSilently ==
    /\ pc[RL] = "ko"
    /\ CallDisconnect(RL, "select")
    /\ UNCHANGED <<fields, chans, hand, slot, panic, network, history>>

WriteFailed ==
    /\ pc[RL] = "ko"
    /\ answers' = Answered(hand[RL], KO)
    /\ CallDisconnect(RL, "select")
    /\ UNCHANGED <<fields, chans, hand, slot, panic, network, reqs, ranIn>>

RequestListener ==
    \/ Start \/ Receive \/ Finish \/ WriteConnected \/ WriteConnects \/ ChooseDatabase
    \/ ChangeDB \/ WriteResp \/ Reconnect \/ Load \/ Push \/ WriteFailed

-----------------------------------------------------------------------------
(* redisListener of connection g.                                          *)

RecvPeeks(g) ==
    /\ pc[g] = "recv" /\ queue[g] # <<>>
    /\ hand' = [hand EXCEPT ![g] = Head(queue[g])]
    /\ Goto(g, "read")
    /\ UNCHANGED <<fields, chans, ret, slot, panic, network, history>>

Recv(g) ==
    /\ pc[g] = "recv" /\ queue[g] # <<>>
    /\ hand' = [hand EXCEPT ![g] = Head(queue[g])]
    /\ queue' = [queue EXCEPT ![g] = Tail(@)]
    /\ Goto(g, "read")
    /\ UNCHANGED <<fields, requestChan, open, queueChan, closed, lock, ret, slot, panic,
                   network, history>>

Drained(g) ==
    /\ pc[g] = "recv" /\ queue[g] = <<>> /\ closed[g]
    /\ Goto(g, "exiting")
    /\ UNCHANGED <<fields, chans, ret, hand, slot, panic, network, history>>

ReadReply(g) ==
    /\ pc[g] = "read" /\ wire[g] # <<>> /\ sock[g] # "closed"
    /\ wire' = [wire EXCEPT ![g] = Tail(@)]
    /\ answers' = IF hand[g] = Marker THEN answers ELSE Answered(hand[g], Head(wire[g]))
    /\ Goto(g, "recv")
    /\ UNCHANGED <<fields, chans, ret, hand, slot, panic, sock, session, reqs, ranIn>>

(* An IOErr, or a timeout (the answer is then still to come), is ignored   *)
(* for the nil entry.                                                      *)
ReadError(g) ==
    /\ pc[g] = "read"
    /\ sock[g] # "up" \/ "timeout" \in Faults
    /\ wire' = IF sock[g] = "up" THEN wire ELSE [wire EXCEPT ![g] = <<>>]
    /\ IF hand[g] = Marker
       THEN Goto(g, "recv") /\ UNCHANGED <<ret, answers>>
       ELSE answers' = Answered(hand[g], KO) /\ CallDisconnect(g, "exiting")
    /\ UNCHANGED <<fields, chans, hand, slot, panic, sock, session, reqs, ranIn>>

(* close(): "Double check", then close whatever netConn is by now.         *)
Exiting(g) ==
    /\ pc[g] = "exiting"
    /\ IF connected THEN CallDisconnect(g, "closing")
                    ELSE Goto(g, "closing") /\ UNCHANGED ret
    /\ UNCHANGED <<fields, chans, hand, slot, panic, network, history>>

Closing(g) ==
    /\ pc[g] = "closing" /\ Unlocked
    /\ sock' = IF netConn = Nil THEN sock ELSE [sock EXCEPT ![netConn] = "closed"]
    /\ netConn' = Nil
    /\ Goto(g, "off")
    /\ UNCHANGED <<ready, connected, smart, failures, failAge, rw, database, chans,
                   ret, hand, slot, panic, wire, session, history>>

RedisListener(g) ==
    Recv(g) \/ Drained(g) \/ ReadReply(g) \/ ReadError(g) \/ Exiting(g) \/ Closing(g)

Disconnect(t) == Lock(t) \/ Purge(t) \/ Purged(t) \/ CloseQueue(t)

-----------------------------------------------------------------------------
Next ==
    /\ panic = "none"
    /\ \/ RequestListener
       \/ Idle \/ WriteEOF
       \/ \E t \in Threads : Disconnect(t)
       \/ \E g \in Connections : RedisListener(g) \/ Break(g)
       \/ \E r \in Inputs : Send(r)
       \/ \E m \in Modes : Reload(m)
       \/ Exit \/ Elapse

Spec == Init /\ [][Next]_vars

(* The Go scheduler runs every goroutine that can run.                     *)
Fairness ==
    /\ WF_vars(panic = "none" /\ RequestListener)
    /\ \A t \in Threads : WF_vars(panic = "none" /\ Disconnect(t))
    /\ \A g \in Connections : WF_vars(panic = "none" /\ RedisListener(g))

LiveSpec == Spec /\ Fairness

-----------------------------------------------------------------------------
(* Properties.                                                             *)

(* A request is answered at most once, by whoever gets it: send's caller,  *)
(* requestListener, a redisListener or purgeRequests, all of which take    *)
(* requests from channels that the others use at the same time.            *)
AtMostOneReply == \A i \in Ids : Len(answers[i]) <= 1

(* disconnect() is run by several goroutines and connect() replaces the    *)
(* channel: yet the queue of every connection but the current one has been *)
(* closed, so that its redisListener ends, and none is closed twice.       *)
QueuesClosedOnce ==
    /\ panic # "closeOfClosed"
    /\ \A g \in 1..rw : closed[g] <=> g # queueChan

(* The mutex is held from the first purge to the close of the queue, by at *)
(* most one goroutine, and the channel it works on stays the current one.  *)
OneDisconnects ==
    \A t \in Threads :
        pc[t] \in {"purge", "closeQueue"} => lock = t /\ queueChan # Nil /\ ~connected

(* What the server answers to a request is written to the connection that  *)
(* issued it: the queue and the answers stay in step.                      *)
RepliesMatch ==
    \A i \in Ids : \A k \in DOMAIN answers[i] : answers[i][k] \in {KO, i}

(* A command runs in the database its connection had selected, although    *)
(* connections share the client and the client remembers the database.     *)
CommandsRunInOwnDatabase ==
    \A i \in Ids : \A db \in ranIn[i] : db = reqs[i].db

(* An answer of the server is written only when every earlier request of   *)
(* the connection that waits for an answer has it: a pipelining client     *)
(* pairs answers with commands by their order.                             *)
ServerRepliesInOrder ==
    [][\A j \in Ids :
          answers[j] = <<>> /\ answers'[j] \notin {<<>>, <<KO>>}
              => \A i \in 1..(j - 1) : reqs[i].sync => answers[i] # <<>>]_vars

(* Every request that waits for an answer gets one, unless the connection  *)
(* that waits gave the client up.                                          *)
AllAnswered ==
    \A i \in Ids : (i <= Len(reqs) /\ reqs[i].sync) ~> (answers[i] # <<>> \/ ~open)

=============================================================================
