-------------------------------- MODULE Rsqs --------------------------------
(***************************************************************************)
(* The SQS relayer (redis/rsqs): the connections, which gather what they   *)
(* set in one record each, the channels to the clients, the batches of the *)
(* clients, retry with the mutex it holds, reloads and the exit.  The      *)
(* channels hold pointers to the records, so a document is made of what    *)
(* the record has become when a client takes it, while the connection may  *)
(* be writing to it: nothing locks a record.                               *)
(* Faulty variants of some definitions, used by no other, stand before     *)
(* them: FullPastLimit, NewRecord, DoneUnflushed and AnswersOnlyOK are     *)
(* mutants the properties must detect.                                     *)
(***************************************************************************)
EXTENDS Integers, FiniteSets, FiniteSetsExt, InterRecord

CONSTANTS
    Conns,           \* connections
    Commands,        \* bound: for each write of a connection, what the command may be that begins with it
    Configs,         \* configurations: smart, conns (MaxConnections), records (MaxRecords)
    MaxReloads,      \* bound: reloads
    Clients,         \* bound: clients alive at a time
    Buffer,          \* requestBufferSize
    MaxTries,        \* maxConnectionsTries
    MaxConnections, MaxBatchRecords,  \* what Reload takes for numbers that are not positive
    MaxRecordSize    \* the values a message may hold

ASSUME RsqsAssumption ==
    /\ Commands \in Seq(SUBSET UNION Range(Commands)) /\ MaxReloads \in Nat
    /\ \A cmd \in UNION Range(Commands) :
          /\ cmd.op \in {"SET", "SADD", "HMSET", "RAWSET"} /\ cmd.args \in Nat
          /\ cmd.op = "HMSET" => cmd.fields \in Seq(Range(cmd.fields))
    /\ {Buffer, MaxTries, MaxConnections, MaxBatchRecords, MaxRecordSize} \subseteq Nat \ {0}
    /\ Configs # {} /\ Configs \subseteq [smart : BOOLEAN, conns : Int, records : Int]
    /\ IsFiniteSet(Clients) /\ \A c \in Configs : Cardinality(Clients) >= Max({c.conns, MaxConnections})

VARIABLES
    config, reloads,            \* srv.config with srv.mode, and how often it was reloaded
    status, failing, tries,     \* running, exiting or ended (by a panic); srv.failing, srv.tries
    rpc, retries,               \* the retry that holds the mutex, and those that wait for it
    cpc, todo, rec,             \* connections: program counter, writes of its command to be done, record
    cmds, past,                 \* the writes the record is made of, and the record before each of them
    recordsCh, syncRecordCh,    \* the channels: the connection, and how many writes it had done
    clients, kpc, batch,        \* srv.clients; clients: program counter, batch
    held, sync,                 \* the record in append, taken after so many writes; the one to be answered
    leaving,                    \* clients with an Exit that waits
    owed                        \* smart pushes answered OK, until they are in a request or refused

connections == <<cpc, todo, rec, cmds, past>>
channels == <<recordsCh, syncRecordCh>>
workers == <<kpc, batch, held, sync, leaving>>
state == <<config, reloads, status, failing, tries, rpc, retries>>
vars == <<state, connections, channels, clients, workers, owed>>

Pushes == Conns \X (1..Len(Commands))

(* The type invariant; the channels hold no more than their capacity.      *)
TypeOK ==
    /\ config.smart \in BOOLEAN /\ config.conns > 0 /\ config.records > 0 /\ reloads \in 0..MaxReloads
    /\ status \in {"run", "exiting", "ended"} /\ failing \in BOOLEAN /\ tries \in 0..MaxTries
    /\ rpc \in {"free", "connect", "sleep"} /\ retries \in Nat
    /\ cpc \in [Conns -> {"read", "write", "smart", "sync", "wait", "end"}]
    /\ \A c \in Conns : (cpc[c] = "write" <=> todo[c] # <<>>) /\ Len(past[c]) = Len(cmds[c])
    /\ \A ch \in {recordsCh, syncRecordCh} : Len(ch) <= Buffer /\ \A i \in DOMAIN ch : ch[i] \in Pushes
    /\ IsInjective(clients) /\ Range(clients) \subseteq Clients /\ leaving \subseteq Clients
    /\ status = "run" => leaving \cap Range(clients) = {} /\ \A k \in leaving \cup Range(clients) : kpc[k] # "off"
    /\ kpc \in [Clients -> {"off", "listen", "append", "flush"}]
    /\ \A k \in Clients :
          /\ (held[k] # None <=> kpc[k] = "append") /\ (sync[k] # None <=> kpc[k] = "flush")
          /\ kpc[k] = "off" => batch[k] = <<>>
    /\ owed \subseteq Pushes

(* Reload: the defaults.                                                   *)
Positive(n, default) == IF n <= 0 THEN default ELSE n
Effective(c) ==
    [c EXCEPT !.conns = Positive(@, MaxConnections), !.records = Positive(@, MaxBatchRecords)]

(* New: the first Reload starts the first retry.                           *)
Init ==
    /\ \E c \in Configs : config = Effective(c)
    /\ reloads = 0 /\ status = "run" /\ failing = FALSE /\ tries = 0 /\ rpc = "free" /\ retries = 1
    /\ cpc = [c \in Conns |-> "read"] /\ todo = [c \in Conns |-> <<>>]
    /\ rec = [c \in Conns |-> NewInterRecord] /\ cmds = [c \in Conns |-> <<>>] /\ past = [c \in Conns |-> <<>>]
    /\ recordsCh = <<>> /\ syncRecordCh = <<>>
    /\ clients = <<>> /\ kpc = [k \in Clients |-> "off"] /\ batch = [k \in Clients |-> <<>>]
    /\ held = [k \in Clients |-> None] /\ sync = [k \in Clients |-> None] /\ leaving = {}
    /\ owed = {}

Reload(c) ==
    /\ reloads < MaxReloads /\ rpc = "free"
    /\ config' = Effective(c) /\ reloads' = reloads + 1
    /\ retries' = retries + 1
    /\ UNCHANGED <<status, failing, tries, rpc, connections, channels, clients, workers, owed>>

-----------------------------------------------------------------------------
(* handleConnection.                                                       *)

Goto(c, l) == cpc' = [cpc EXCEPT ![c] = l]

(* canSend waits for the mutex; if it says no, the connection is closed.   *)
CanSend == status = "run" /\ ~failing

Refuse(c) ==
    /\ cpc[c] = "read" /\ rpc = "free" /\ ~CanSend
    /\ Goto(c, "end")
    /\ UNCHANGED <<state, todo, rec, cmds, past, channels, clients, workers, owed>>

(* The peer closes it; its record may be in a channel still.               *)
Close(c) ==
    /\ cpc[c] = "read"
    /\ Goto(c, "end")
    /\ UNCHANGED <<state, todo, rec, cmds, past, channels, clients, workers, owed>>

Allowed(c) == IF Len(cmds[c]) < Len(Commands) THEN Commands[Len(cmds[c]) + 1] ELSE {}

(* The writes to the record that a command is made of: RAWSET sets Types   *)
(* and Raw, HMSET a field after the other (or, without pairs, nothing).    *)
Given(c, cmd, i, fields) ==
    [op |-> cmd.op, key |-> cmd.key, fields |-> fields, more |-> cmd.op = "SADD" /\ cmd.args > 2,
     value |-> Value(<<c, Len(cmds[c]) + i>>, FALSE)]

Parts(c, cmd) ==
    IF cmd.op = "RAWSET" THEN <<[op |-> "TYPES"], [op |-> "RAW", raw |-> cmd.raw]>>
    ELSE IF cmd.op = "HMSET" /\ cmd.fields # <<>>
      THEN [i \in DOMAIN cmd.fields |-> Given(c, cmd, i, <<cmd.fields[i]>>)]
    ELSE <<Given(c, cmd, 1, <<>>)>>

(* A RAWSET with more than one argument is refused and changes nothing.    *)
Command(c, cmd) ==
    /\ cpc[c] = "read" /\ rpc = "free" /\ CanSend
    /\ Len(cmds[c]) + Len(Parts(c, cmd)) <= Len(Commands)
    /\ \/ Lacks(cmd) /\ status' = "ended" /\ UNCHANGED <<cpc, todo>>
       \/ /\ ~Lacks(cmd) /\ UNCHANGED status
          /\ todo' = [todo EXCEPT ![c] = Parts(c, cmd)] /\ Goto(c, "write")
    /\ UNCHANGED <<config, reloads, failing, tries, rpc, retries, rec, cmds, past, channels, clients, workers, owed>>

(* The record is that of the connection, never a new one.                  *)
NewRecord(r, w) == IF w.op = "TYPES" THEN [NewInterRecord EXCEPT !.types = 1]
                   ELSE IF w.op = "RAW" THEN SetRaw(NewInterRecord, w.raw) ELSE Apply(NewInterRecord, w)
Gather(r, w) == IF w.op = "TYPES" THEN [r EXCEPT !.types = 1]
                ELSE IF w.op = "RAW" THEN SetRaw(r, w.raw) ELSE Apply(r, w)

(* One write.  After the last the mode is looked at, once: it says which   *)
(* channel the connection will push to.                                    *)
Write(c) ==
    /\ cpc[c] = "write"
    /\ LET w == Head(todo[c])  rest == Tail(todo[c]) IN
       \/ Panics(rec[c], w) /\ status' = "ended" /\ UNCHANGED connections
       \/ /\ ~Panics(rec[c], w) /\ UNCHANGED status
          /\ rec' = [rec EXCEPT ![c] = Gather(@, w)] /\ past' = [past EXCEPT ![c] = Append(@, rec[c])]
          /\ cmds' = [cmds EXCEPT ![c] = Append(@, w)] /\ todo' = [todo EXCEPT ![c] = rest]
          /\ Goto(c, IF rest # <<>> THEN "write" ELSE IF config.smart THEN "smart" ELSE "sync")
    /\ UNCHANGED <<config, reloads, failing, tries, rpc, retries, channels, clients, workers, owed>>

Room(ch) == Len(ch) < Buffer

(* In smart mode the answer follows, otherwise a client gives it.          *)
Push(c) ==
    /\ LET p == <<c, Len(cmds[c])>> IN
       \/ /\ cpc[c] = "smart" /\ Room(recordsCh)
          /\ recordsCh' = Append(recordsCh, p) /\ owed' = owed \cup {p}
          /\ Goto(c, "read") /\ UNCHANGED syncRecordCh
       \/ /\ cpc[c] = "sync" /\ Room(syncRecordCh)
          /\ syncRecordCh' = Append(syncRecordCh, p)
          /\ Goto(c, "wait") /\ UNCHANGED <<recordsCh, owed>>
    /\ UNCHANGED <<state, todo, rec, cmds, past, clients, workers>>

-----------------------------------------------------------------------------
(* The clients.                                                            *)

(* flush: the batch goes into a request, whatever comes of it.             *)
Flushed(b) == {b[i].push : i \in DOMAIN b}

(* A synchronous record: append, then flush and answer; the connection     *)
(* waits, so nothing writes to it.  A record without content is skipped,   *)
(* and its connection waits for ever.                                      *)
TakeSync(k) ==
    /\ kpc[k] = "listen" /\ syncRecordCh # <<>>
    /\ syncRecordCh' = Tail(syncRecordCh)
    /\ LET p == Head(syncRecordCh)  r == rec[p[1]] IN
       \/ Empty(r) /\ UNCHANGED <<cpc, rec, kpc, batch, sync>>
       \/ /\ ~Empty(r) /\ rec' = [rec EXCEPT ![p[1]] = Lend(@)]
          /\ \E doc \in Documents(r) :
                \/ Size(doc) > MaxRecordSize /\ Goto(p[1], "read") /\ UNCHANGED <<kpc, batch, sync>>
                \/ /\ Size(doc) <= MaxRecordSize
                   /\ batch' = [batch EXCEPT ![k] = Append(@, [push |-> p, doc |-> doc])]
                   /\ kpc' = [kpc EXCEPT ![k] = "flush"] /\ sync' = [sync EXCEPT ![k] = p]
                   /\ UNCHANGED cpc
    /\ UNCHANGED <<state, todo, cmds, past, recordsCh, clients, held, leaving, owed>>

AnswersOnlyOK(k) ==
    /\ kpc[k] = "flush"
    /\ owed' = owed \ Flushed(batch[k]) /\ batch' = [batch EXCEPT ![k] = <<>>]
    /\ kpc' = [kpc EXCEPT ![k] = "listen"] /\ sync' = [sync EXCEPT ![k] = None]
    /\ IF Len(batch[k]) = 1 THEN Goto(sync[k][1], "read") ELSE UNCHANGED cpc
    /\ UNCHANGED <<state, todo, rec, cmds, past, channels, clients, held, leaving>>

AnswerSync(k) ==
    /\ kpc[k] = "flush"
    /\ owed' = owed \ Flushed(batch[k]) /\ batch' = [batch EXCEPT ![k] = <<>>]
    /\ kpc' = [kpc EXCEPT ![k] = "listen"] /\ sync' = [sync EXCEPT ![k] = None]
    /\ Goto(sync[k][1], "read")
    /\ UNCHANGED <<state, todo, rec, cmds, past, channels, clients, held, leaving>>

(* A record of the smart mode: if it is not empty, the batch is flushed    *)
(* before it is full.                                                      *)
FullPastLimit(b) == Len(b) > config.records
Full(b) == Len(b) + 1 >= config.records

TakeSmart(k) ==
    /\ kpc[k] = "listen" /\ recordsCh # <<>>
    /\ recordsCh' = Tail(recordsCh)
    /\ LET p == Head(recordsCh)  gone == Full(batch[k]) IN
       \/ Empty(rec[p[1]]) /\ owed' = owed \ {p} /\ UNCHANGED <<kpc, batch, held>>
       \/ /\ ~Empty(rec[p[1]])
          /\ kpc' = [kpc EXCEPT ![k] = "append"]
          /\ held' = [held EXCEPT ![k] = [push |-> p, since |-> Len(cmds[p[1]])]]
          /\ batch' = [batch EXCEPT ![k] = IF gone THEN <<>> ELSE @]
          /\ owed' = IF gone THEN owed \ Flushed(batch[k]) ELSE owed
    /\ UNCHANGED <<state, connections, syncRecordCh, clients, sync, leaving>>

(* The records of c since it had done n writes, and the documents made of  *)
(* them meanwhile.                                                         *)
Moments(c, n) == {rec[c]} \cup {past[c][i] : i \in (n + 1)..Len(past[c])}
Marshalled(R) ==
    LET raw == {r \in R : r.types # 0} IN
    (UNION {Documents(r) : r \in raw}) \cup (IF raw = R THEN {} ELSE Snapshots({r.data : r \in R}))
Races(R) == Cardinality({r.data : r \in R}) > 1 /\ \E r \in R : r.types = 0

(* append, while the connection may go on.  The runtime aborts the process *)
(* if it notices that a map is read and written at the same time.  A       *)
(* message that is too large is dropped.                                   *)
AppendSmart(k) ==
    /\ kpc[k] = "append"
    /\ LET p == held[k].push  R == Moments(p[1], held[k].since) IN
       \/ Races(R) /\ status' = "ended" /\ UNCHANGED <<rec, kpc, batch, held, owed>>
       \/ /\ UNCHANGED status
          /\ rec' = [rec EXCEPT ![p[1]] = Lend(@)]
          /\ kpc' = [kpc EXCEPT ![k] = "listen"] /\ held' = [held EXCEPT ![k] = None]
          /\ \E doc \in Marshalled(R) :
                IF Size(doc) > MaxRecordSize THEN owed' = owed \ {p} /\ UNCHANGED batch
                ELSE batch' = [batch EXCEPT ![k] = Append(@, [push |-> p, doc |-> doc])] /\ UNCHANGED owed
    /\ UNCHANGED <<config, reloads, failing, tries, rpc, retries, cpc, todo, cmds, past, channels, clients, sync, leaving>>

Timer(k) ==
    /\ kpc[k] = "listen" /\ batch[k] # <<>>
    /\ owed' = owed \ Flushed(batch[k]) /\ batch' = [batch EXCEPT ![k] = <<>>]
    /\ UNCHANGED <<state, connections, channels, clients, kpc, held, sync, leaving>>

(* done: flush and end.                                                    *)
DoneUnflushed(k) ==
    /\ kpc[k] = "listen" /\ k \in leaving
    /\ batch' = [batch EXCEPT ![k] = <<>>]
    /\ kpc' = [kpc EXCEPT ![k] = "off"] /\ leaving' = leaving \ {k}
    /\ UNCHANGED <<state, connections, channels, clients, held, sync, owed>>

Done(k) ==
    /\ kpc[k] = "listen" /\ k \in leaving
    /\ owed' = owed \ Flushed(batch[k]) /\ batch' = [batch EXCEPT ![k] = <<>>]
    /\ kpc' = [kpc EXCEPT ![k] = "off"] /\ leaving' = leaving \ {k}
    /\ UNCHANGED <<state, connections, channels, clients, held, sync>>

Listen(k) == TakeSync(k) \/ AnswerSync(k) \/ TakeSmart(k) \/ AppendSmart(k) \/ Timer(k) \/ Done(k)

-----------------------------------------------------------------------------
(* retry and clientsReset, with the mutex held.                            *)

RetryBegins ==
    /\ rpc = "free" /\ retries > 0
    /\ retries' = retries - 1
    /\ rpc' = IF status = "run" THEN "connect" ELSE "free"
    /\ UNCHANGED <<config, reloads, status, failing, tries, connections, channels, clients, workers, owed>>

(* The queue answers: fewer clients, the last of them told to exit, or new *)
(* ones.                                                                   *)
Resize ==
    \/ /\ Len(clients) >= config.conns
       /\ clients' = SubSeq(clients, 1, config.conns)
       /\ leaving' = leaving \cup Range(SubSeq(clients, config.conns + 1, Len(clients)))
       /\ UNCHANGED kpc
    \/ /\ Len(clients) < config.conns
       /\ LET free == SetToSeq({k \in Clients \ Range(clients) : kpc[k] = "off"})
              new == SubSeq(free, 1, config.conns - Len(clients)) IN
             /\ Len(free) >= config.conns - Len(clients)
             /\ clients' = clients \o new /\ kpc' = [k \in Clients |-> IF k \in Range(new) THEN "listen" ELSE kpc[k]]
       /\ UNCHANGED leaving

RetrySucceeds ==
    /\ rpc = "connect"
    /\ rpc' = "free" /\ failing' = FALSE
    /\ Resize
    /\ UNCHANGED <<config, reloads, status, tries, retries, connections, channels, batch, held, sync, owed>>

(* tries is never reset, only whether it has come to the limit matters.    *)
RetryFails ==
    /\ rpc = "connect"
    /\ rpc' = "sleep"
    /\ tries' = Min({tries + 1, MaxTries}) /\ failing' = (failing \/ tries + 1 >= MaxTries)
    /\ UNCHANGED <<config, reloads, status, retries, connections, channels, clients, workers, owed>>

RetryAgain ==
    /\ rpc = "sleep"
    /\ rpc' = "free" /\ retries' = retries + 1
    /\ UNCHANGED <<config, reloads, status, failing, tries, connections, channels, clients, workers, owed>>

Retry == RetryBegins \/ RetrySucceeds \/ RetryFails \/ RetryAgain

-----------------------------------------------------------------------------
(* Exit waits for nobody.  Afterwards main may end the program at any      *)
(* time, which no property is about.                                       *)
Exit ==
    /\ status = "run"
    /\ status' = "exiting" /\ leaving' = leaving \cup Range(clients)
    /\ UNCHANGED <<config, reloads, failing, tries, rpc, retries, connections, channels, clients, kpc, batch, held, sync, owed>>

Next ==
    /\ status # "ended"
    /\ \/ \E c \in Conns : Refuse(c) \/ Close(c) \/ Write(c) \/ Push(c) \/ \E cmd \in Allowed(c) : Command(c, cmd)
       \/ \E k \in Clients : Listen(k)
       \/ (\E c \in Configs : Reload(c)) \/ Retry \/ Exit

(* The goroutines go on; the queue is reached sooner or later.             *)
Fairness ==
    /\ \A c \in Conns : WF_vars(Write(c)) /\ WF_vars(Push(c))
    /\ \A k \in Clients : WF_vars(TakeSync(k)) /\ WF_vars(AnswerSync(k)) /\ WF_vars(TakeSmart(k))
                          /\ WF_vars(AppendSmart(k)) /\ WF_vars(Timer(k)) /\ WF_vars(Done(k))
    /\ WF_vars(Retry) /\ SF_vars(RetrySucceeds)

Spec == Init /\ [][Next]_vars /\ Fairness

-----------------------------------------------------------------------------
(* A request holds at most MaxRecords messages (which nothing compares     *)
(* with what the queue takes), or two if it is one.  Once reloads change   *)
(* the limit while batches are filled, any configuration's will do.        *)
(* Besides, the state is well typed and no channel is overfull.            *)
Limits == IF reloads = 0 THEN {config.records} ELSE {Effective(c).records : c \in Configs}
RequestFits ==
    /\ TypeOK
    /\ \A k \in Clients : Len(batch[k]) <= 2 \/ \E n \in Limits : Len(batch[k]) <= n

(* A message holds all the connection had set when its command was         *)
(* accepted, although the record is shared and turned into a document      *)
(* later, while it is written.  It may hold more: what later commands set, *)
(* or a part of it; in synchronous mode it does not.                       *)
HasRaw(c) == \E i \in DOMAIN cmds[c] : cmds[c][i].op \in {"TYPES", "RAW"}
CarriesItsCommand ==
    \A k \in Clients : \A i \in DOMAIN batch[k] :
        LET c == batch[k][i].push[1]  n == batch[k][i].push[2] IN
        ~HasRaw(c) =>
            Describes(batch[k][i].doc, IF sync[k] = <<c, n>> THEN SubSeq(cmds[c], 1, n) ELSE cmds[c], n)

(* What was answered OK in smart mode gets into a request, or its record   *)
(* is too large or empty when it is taken, also if its client is removed   *)
(* by a reload or the queue could not be reached for long; unless the      *)
(* program ends first.                                                     *)
AcceptedIsSent == \A p \in Pushes : p \in owed ~> (p \notin owed \/ status # "run")

(* A connection that waits for the answer of a client gets it, unless its  *)
(* record is empty or the program ends.                                    *)
SyncAnswered == \A c \in Conns : cpc[c] = "wait" ~> (cpc[c] # "wait" \/ Empty(rec[c]) \/ status # "run")
=============================================================================
