--------------------------- MODULE ClusterHandler ---------------------------
(***************************************************************************)
(* connHandler of the cluster relayer (redis/cluster/handler.go), for one  *)
(* client connection: the goroutine of Handle reads commands and either    *)
(* sends them itself or passes them to the goroutine sendWorker through    *)
(* reqCh; the atomic counter pending tells it whether the worker is idle.  *)
(* Faulty variants of some definitions, used by no other, stand before     *)
(* them: BusyIfQueued, WorkerEndAtOnce and WorkerAnswerSwallowed are       *)
(* mutants the properties must detect.                                     *)
(***************************************************************************)
EXTENDS Integers, Sequences

CONSTANTS
    Commands,      \* the commands the client may issue
    MaxCommands,   \* bound: commands issued in a behaviour
    BufferSize     \* requestBufferSize, the capacity of reqCh

(* A command is in the map of asynchronous commands or not, and is an array *)
(* of strings, a single string (First() accepts it, Array() does not), or   *)
(* is refused at once (First() fails, or it is a SELECT).                   *)
CommandTypes == [async : BOOLEAN, form : {"array", "string", "refused"}]

ASSUME HandlerAssumption ==
    /\ Commands \subseteq CommandTypes
    /\ MaxCommands \in Nat /\ BufferSize \in Nat \ {0}

VARIABLES
    cmds,          \* the commands read so far; the index of one is its identity
    open,          \* the client's connection, as the handler sees it
    hpc,           \* program counter of the handler
    initialized,   \* the worker was started and reqCh made
    reqCh, closed, \* the channel: entries [id, mustAnswer], and whether it is closed
    pending,       \* the atomic counter
    wpc, cur,      \* program counter of the worker, and what it took from reqCh
    executed,      \* history: the order in which the server executed commands
    replies        \* history: the order in which commands were answered

vars == <<cmds, open, hpc, initialized, reqCh, closed, pending, wpc, cur, executed, replies>>

Ids == 1..MaxCommands
Entries == [id : Ids, mustAnswer : BOOLEAN]
NoEntry == [id |-> 0, mustAnswer |-> FALSE]
last == Len(cmds)      \* the command the handler is processing

(* The type invariant of the handler's state.                              *)
TypeOK ==
    /\ cmds \in Seq(Commands) /\ Len(cmds) <= MaxCommands
    /\ open \in BOOLEAN /\ initialized \in BOOLEAN /\ closed \in BOOLEAN
    /\ hpc \in {"read", "count", "push", "direct", "answer", "done"}
    /\ reqCh \in Seq(Entries) /\ Len(reqCh) <= BufferSize
    /\ pending \in Nat
    /\ wpc \in {"none", "recv", "cmd", "answer", "decrement", "done"}
    /\ cur \in Entries \cup {NoEntry}
    /\ executed \in Seq(Ids) /\ replies \in Seq(Ids)

Init ==
    /\ cmds = <<>> /\ open = TRUE /\ hpc = "read" /\ initialized = FALSE
    /\ reqCh = <<>> /\ closed = FALSE /\ pending = 0
    /\ wpc = "none" /\ cur = NoEntry
    /\ executed = <<>> /\ replies = <<>>

(* What is written to a closed connection is lost.                         *)
Reply(i) == replies' = IF open THEN Append(replies, i) ELSE replies

-----------------------------------------------------------------------------
(* Handle and process(): what the handler does with the next command c.    *)

(* respBadCommand.                                                         *)
Refuse(c) ==
    /\ c.form = "refused"
    /\ replies' = Append(replies, last + 1)
    /\ UNCHANGED <<hpc, initialized, wpc>>

(* The fast response is written first, the worker started if need be.      *)
FastResponse(c) ==
    /\ c.form # "refused" /\ c.async
    /\ replies' = Append(replies, last + 1)
    /\ initialized' = TRUE
    /\ wpc' = IF initialized THEN wpc ELSE "recv"
    /\ hpc' = "count"

(* Operations in queue: send by the same channel.                          *)
BusyIfQueued == reqCh # <<>>
Busy == pending # 0

SendBehind(c) ==
    /\ c.form # "refused" /\ ~c.async /\ Busy
    /\ hpc' = "count"
    /\ UNCHANGED <<initialized, wpc, replies>>

(* No ongoing operations: send directly.                                   *)
SendDirectly(c) ==
    /\ c.form # "refused" /\ ~c.async /\ ~Busy
    /\ hpc' = "direct"
    /\ UNCHANGED <<initialized, wpc, replies>>

Process(c) ==
    /\ hpc = "read" /\ open /\ last < MaxCommands
    /\ cmds' = Append(cmds, c)
    /\ Refuse(c) \/ FastResponse(c) \/ SendBehind(c) \/ SendDirectly(c)
    /\ UNCHANGED <<open, reqCh, closed, pending, cur, executed>>

(* atomic.AddInt32(&h.pending, 1), then the send, which waits for room.    *)
Count ==
    /\ hpc = "count"
    /\ pending' = pending + 1
    /\ hpc' = "push"
    /\ UNCHANGED <<cmds, open, initialized, reqCh, closed, wpc, cur, executed, replies>>

Push ==
    /\ hpc = "push" /\ Len(reqCh) < BufferSize
    /\ reqCh' = Append(reqCh, [id |-> last, mustAnswer |-> ~cmds[last].async])
    /\ hpc' = "read"
    /\ UNCHANGED <<cmds, open, initialized, closed, pending, wpc, cur, executed, replies>>

(* sender(true, ..., false), called by the handler.                        *)
DirectCmd ==
    /\ hpc = "direct"
    /\ executed' = IF cmds[last].form = "array" THEN Append(executed, last) ELSE executed
    /\ hpc' = "answer"
    /\ UNCHANGED <<cmds, open, initialized, reqCh, closed, pending, wpc, cur, replies>>

DirectAnswer ==
    /\ hpc = "answer"
    /\ Reply(last)
    /\ hpc' = "read"
    /\ UNCHANGED <<cmds, open, initialized, reqCh, closed, pending, wpc, cur, executed>>

(* The client closed its connection: close().                              *)
Close ==
    /\ hpc = "read" /\ open
    /\ open' = FALSE
    /\ closed' = initialized
    /\ hpc' = "done"
    /\ UNCHANGED <<cmds, initialized, reqCh, pending, wpc, cur, executed, replies>>

Handler == Count \/ Push \/ DirectCmd \/ DirectAnswer

-----------------------------------------------------------------------------
(* sendWorker: for m := range h.reqCh { sender(..., true) }.               *)

WorkerRecv ==
    /\ wpc = "recv" /\ reqCh # <<>>
    /\ cur' = Head(reqCh)
    /\ reqCh' = Tail(reqCh)
    /\ wpc' = "cmd"
    /\ UNCHANGED <<cmds, open, hpc, initialized, closed, pending, executed, replies>>

WorkerEndAtOnce ==
    /\ wpc = "recv" /\ closed
    /\ wpc' = "done"
    /\ UNCHANGED <<cmds, open, hpc, initialized, reqCh, closed, pending, cur, executed, replies>>

(* The closed channel is drained before the loop ends.                     *)
WorkerEnd ==
    /\ wpc = "recv" /\ reqCh = <<>> /\ closed
    /\ wpc' = "done"
    /\ UNCHANGED <<cmds, open, hpc, initialized, reqCh, closed, pending, cur, executed, replies>>

(* sender returns early, without touching pending, if Array() fails.       *)
WorkerBadCommand ==
    /\ wpc = "cmd" /\ cmds[cur.id].form = "string"
    /\ IF cur.mustAnswer THEN Reply(cur.id) ELSE UNCHANGED replies
    /\ wpc' = "recv"
    /\ UNCHANGED <<cmds, open, hpc, initialized, reqCh, closed, pending, cur, executed>>

(* h.srv.pool.Cmd: the server executes the command.                        *)
WorkerCmd ==
    /\ wpc = "cmd" /\ cmds[cur.id].form = "array"
    /\ executed' = Append(executed, cur.id)
    /\ wpc' = "answer"
    /\ UNCHANGED <<cmds, open, hpc, initialized, reqCh, closed, pending, cur, replies>>

WorkerAnswerSwallowed ==
    /\ wpc = "answer"
    /\ wpc' = "decrement"
    /\ UNCHANGED <<cmds, open, hpc, initialized, reqCh, closed, pending, cur, executed, replies>>

WorkerAnswer ==
    /\ wpc = "answer"
    /\ IF cur.mustAnswer THEN Reply(cur.id) ELSE UNCHANGED replies
    /\ wpc' = "decrement"
    /\ UNCHANGED <<cmds, open, hpc, initialized, reqCh, closed, pending, cur, executed>>

WorkerDecrement ==
    /\ wpc = "decrement"
    /\ pending' = pending - 1
    /\ wpc' = "recv"
    /\ UNCHANGED <<cmds, open, hpc, initialized, reqCh, closed, cur, executed, replies>>

Worker ==
    WorkerRecv \/ WorkerEnd \/ WorkerBadCommand \/ WorkerCmd \/ WorkerAnswer \/ WorkerDecrement

-----------------------------------------------------------------------------
Next == Handler \/ Worker \/ Close \/ \E c \in Commands : Process(c)

Spec == Init /\ [][Next]_vars

(* Both goroutines run, and the server answers every command sent to it.   *)
Fairness == WF_vars(Handler) /\ WF_vars(Worker)
LiveSpec == Spec /\ Fairness

-----------------------------------------------------------------------------
(* The server executes the commands of the connection in the order it      *)
(* issued them, although two goroutines send them.                         *)
Relay == INSTANCE InOrderRelay WITH issued <- Len(cmds)
ExecutesInOrder == Relay!Spec

(* The commands the client waits for are answered in the order they were   *)
(* issued, whichever goroutine answers.                                    *)
Waited(i) == ~cmds[i].async /\ cmds[i].form # "refused"
WaitedRepliesInOrder ==
    \A j \in 1..Len(replies) : \A k \in 1..(j - 1) :
        Waited(replies[k]) /\ Waited(replies[j]) => replies[k] < replies[j]

(* When the handler sends directly the worker is idle and has nothing left *)
(* to send: one goroutine at a time talks to the server and the client.    *)
OneSender ==
    hpc \in {"direct", "answer"} => reqCh = <<>> /\ wpc \in {"none", "recv", "done"}

(* Every well formed command the relayer accepted reaches the server, even *)
(* if the client closes the connection after its fast response.            *)
AllExecuted ==
    \A i \in Ids : (i <= Len(cmds) /\ cmds[i].form = "array")
                       ~> \E k \in 1..Len(executed) : executed[k] = i

(* Every command is answered unless the client closes its connection.      *)
AllAnswered ==
    \A i \in Ids : i <= Len(cmds) ~> (~open \/ \E k \in 1..Len(replies) : replies[k] = i)
=============================================================================
