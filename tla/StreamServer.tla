---------------------------- MODULE StreamServer ----------------------------
(***************************************************************************)
(* The Firehose and Kinesis relayers (redis/fh and redis/kinesis, which    *)
(* differ in names only): the accept loop with its listener, the           *)
(* transactions of the connections, sendRecord, reloads and the exit.  The *)
(* spooler they hand their documents to is a library: a channel C, workers *)
(* that take from it, deliver or fail, and put what failed back; it has a  *)
(* configuration of its own, which a goroutine brings up to date.          *)
(* A document is told apart by its unit: the connection and a number.      *)
(* Names that module Rsqs has as well begin with Stream or s, so that one  *)
(* module can be about both.                                               *)
(* Faulty variants of some definitions, used by no other, stand before     *)
(* them: MultiKeepsRow, BlocksIfBoth and ExitingLate are mutants the       *)
(* properties must detect.                                                 *)
(***************************************************************************)
EXTENDS Integers, FiniteSets, InterRecord

CONSTANTS
    StreamConns, Scripts,   \* connections; for each, what each of its commands may be
    StreamConfigs,          \* configurations: critical, smart
    StreamBuffer,           \* capacity of C
    StreamRecordSize,       \* the values a document may hold
    RetryLimit,             \* failed documents under way at which others are dropped
    MaxPending              \* bound: reloads of the spooler under way with the same value

ASSUME StreamAssumption ==
    /\ \A c \in StreamConns :
          /\ Scripts[c] \in Seq(SUBSET UNION Range(Scripts[c]))
          /\ \A cmd \in UNION Range(Scripts[c]) :
                /\ cmd.op \in {"SET", "SADD", "HMSET"} => cmd.bytes \in BOOLEAN
                /\ cmd.op \in {"SET", "SADD", "RAWSET"} => cmd.args \in Nat
    /\ StreamConfigs # {} /\ StreamConfigs \subseteq [critical : BOOLEAN, smart : BOOLEAN]
    /\ StreamBuffer \in Nat \ {0} /\ {StreamRecordSize, RetryLimit, MaxPending} \subseteq Nat

VARIABLES
    sconfig, xpc, apc,        \* srv.config; program counters of Exit and of the accept loop
    scpc, multi, row, pend,   \* connections: program counter, transaction, record, document to send
    done, txn, stray,         \* what they did: commands, those not sent yet, whether EXEC had no MULTI
    scritical, late,          \* Critical of the spooler, and how many goroutines will set it to what
    C, retrying, unfit,       \* its channel, what goes back to it, and what it will never deliver
    sowed,                    \* sent while all is critical, as the relayer still is, and not delivered yet
    crash                     \* why the process is down, or "no"

sessions == <<scpc, multi, row, pend, done, txn, stray>>
spooler == <<scritical, late, C, retrying, unfit, sowed>>
streamVars == <<sconfig, xpc, apc, sessions, spooler, crash>>

Units == UNION {{c} \X (1..Len(Scripts[c])) : c \in StreamConns}

(* The type invariant; C holds no more than its capacity, a unit is in one *)
(* place.                                                                  *)
StreamTypeOK ==
    /\ sconfig \in StreamConfigs /\ xpc \in {"run", "listener", "exit", "workers", "closed"}
    /\ apc \in {"check", "accept", "ended"}
    /\ crash \in {"no", "listener", "closed", "reload", "workers", "command", "args", "fatal"}
    /\ scritical \in BOOLEAN /\ late \in [BOOLEAN -> 0..MaxPending]
    /\ scpc \in [StreamConns -> {"new", "read", "send", "end"}] /\ multi \in [StreamConns -> BOOLEAN]
    /\ \A c \in StreamConns : (scpc[c] = "send" <=> pend[c] # None) /\ (multi[c] => row[c] # None) /\ done[c] \in 0..Len(Scripts[c])
    /\ Len(C) <= StreamBuffer /\ IsInjective(C) /\ Range(C) \cup retrying \cup unfit \cup sowed \subseteq Units
    /\ Range(C) \cap retrying = {}

StreamInit ==
    /\ sconfig \in StreamConfigs /\ xpc = "run" /\ apc = "check" /\ crash = "no"
    /\ scpc = [c \in StreamConns |-> "new"] /\ multi = [c \in StreamConns |-> FALSE]
    /\ row = [c \in StreamConns |-> None] /\ pend = [c \in StreamConns |-> None]
    /\ done = [c \in StreamConns |-> 0] /\ txn = [c \in StreamConns |-> <<>>] /\ stray = [c \in StreamConns |-> FALSE]
    /\ scritical = sconfig.critical /\ late = [b \in BOOLEAN |-> 0]
    /\ C = <<>> /\ retrying = {} /\ unfit = {} /\ sowed = {}

(* srv.exiting is set before the listener is closed.                       *)
ExitingLate == xpc \notin {"run", "listener", "exit"}
Exiting == xpc # "run"
Listening == xpc \in {"run", "listener"}
Closed == xpc = "closed"

-----------------------------------------------------------------------------
(* The accept loop.  Accept looks twice whether there is a listener, and   *)
(* panics if there is none: the second time counts, as a closed one never  *)
(* comes back.  The error of one that is closed while it waits ends the    *)
(* loop, or the program.                                                   *)

AcceptChecks ==
    /\ apc = "check"
    /\ IF Listening THEN apc' = "accept" /\ UNCHANGED crash ELSE crash' = "listener" /\ UNCHANGED apc
    /\ UNCHANGED <<sconfig, xpc, sessions, spooler>>

AcceptTakes(c) ==
    /\ apc = "accept" /\ Listening /\ scpc[c] = "new"
    /\ scpc' = [scpc EXCEPT ![c] = "read"] /\ apc' = "check"
    /\ UNCHANGED <<sconfig, xpc, multi, row, pend, done, txn, stray, spooler, crash>>

AcceptFails ==
    /\ apc = "accept" /\ ~Listening
    /\ apc' = "ended" /\ crash' = IF Exiting THEN crash ELSE "fatal"
    /\ UNCHANGED <<sconfig, xpc, sessions, spooler>>

-----------------------------------------------------------------------------
(* handleConnection and sendRecord.                                        *)

Unit(c) == <<c, done[c]>>

(* Whether sendRecord waits for room in C.                                 *)
BlocksIfBoth == sconfig.critical /\ ~sconfig.smart
Blocks == sconfig.critical \/ ~sconfig.smart

(* Whether relayer and spooler agree that nothing may be lost.             *)
AllCritical == sconfig.critical /\ scritical /\ late[FALSE] = 0

(* Whether a worker takes a document; one of JSON is never empty.          *)
Fits(doc) == (doc.kind = "raw" => doc.of # <<>>) /\ Size(doc) <= StreamRecordSize

(* sendRecord: nothing if exiting, else the document made of the record r  *)
(* of the commands cs, a part of which Bytes compresses in place.          *)
Send(c, r, cs) ==
    \/ Exiting /\ UNCHANGED <<scpc, pend, unfit, sowed, crash>>
    \/ ~Exiting /\ r = None /\ crash' = "command" /\ UNCHANGED <<scpc, pend, unfit, sowed>>
    \/ /\ ~Exiting /\ r # None
       /\ pend' = [pend EXCEPT ![c] = [doc |-> Document(r), cmds |-> cs, blocks |-> Blocks]]
       /\ scpc' = [scpc EXCEPT ![c] = "send"]
       /\ unfit' = IF Fits(Document(r)) THEN unfit ELSE unfit \cup {<<c, done[c] + 1>>}
       /\ sowed' = IF AllCritical THEN sowed \cup {<<c, done[c] + 1>>} ELSE sowed
       /\ UNCHANGED crash
After(r) == IF Exiting \/ r = None THEN r ELSE Compressed(r)

Counted(c) == done' = [done EXCEPT ![c] = @ + 1]

MultiKeepsRow(c) ==
    /\ multi' = [multi EXCEPT ![c] = TRUE] /\ row' = [row EXCEPT ![c] = IF @ = None THEN NewInterRecord ELSE @]
    /\ txn' = [txn EXCEPT ![c] = <<>>] /\ Counted(c)
    /\ UNCHANGED <<scpc, pend, stray, unfit, sowed, crash>>

Multi(c) ==
    /\ multi' = [multi EXCEPT ![c] = TRUE] /\ row' = [row EXCEPT ![c] = NewInterRecord]
    /\ txn' = [txn EXCEPT ![c] = <<>>] /\ Counted(c)
    /\ UNCHANGED <<scpc, pend, stray, unfit, sowed, crash>>

(* EXEC sends the record there is, whether MULTI began it or not.          *)
Exec(c) ==
    /\ multi' = [multi EXCEPT ![c] = FALSE] /\ stray' = [stray EXCEPT ![c] = @ \/ ~multi[c]]
    /\ Send(c, row[c], txn[c]) /\ row' = [row EXCEPT ![c] = After(@)]
    /\ txn' = [txn EXCEPT ![c] = <<>>] /\ Counted(c)

(* RAWSET is refused in a transaction and if it has more than one          *)
(* argument; otherwise it has a record of its own.                         *)
RawSet(c, cmd) ==
    /\ \/ (multi[c] \/ cmd.args > 1) /\ UNCHANGED <<scpc, pend, unfit, sowed, crash>>
       \/ ~multi[c] /\ cmd.args = 1 /\ Send(c, SetRaw(NewInterRecord, cmd.raw), <<cmd>>)
    /\ Counted(c)
    /\ UNCHANGED <<multi, row, txn, stray>>

(* A command without its arguments; RAWSET was refused in a transaction.   *)
Short(c, cmd) ==
    /\ Lacks(cmd) /\ ~(cmd.op = "RAWSET" /\ multi[c])
    /\ crash' = "args"
    /\ UNCHANGED <<sessions, unfit, sowed>>

StreamGiven(c, cmd) ==
    [op |-> cmd.op, key |-> cmd.key, fields |-> cmd.fields, more |-> cmd.op = "SADD" /\ cmd.args > 2,
     value |-> Value(<<c, done[c] + 1>>, cmd.bytes)]

Queue(c, cmd) ==
    /\ multi[c]
    /\ \/ Panics(row[c], cmd) /\ crash' = "command" /\ UNCHANGED <<row, txn>>
       \/ /\ ~Panics(row[c], cmd)
          /\ row' = [row EXCEPT ![c] = Apply(@, StreamGiven(c, cmd))]
          /\ txn' = [txn EXCEPT ![c] = Append(@, StreamGiven(c, cmd))] /\ UNCHANGED crash
    /\ Counted(c)
    /\ UNCHANGED <<scpc, multi, pend, stray, unfit, sowed>>

(* A command that is no part of a transaction has a record of its own.     *)
Alone(c, cmd) ==
    /\ ~multi[c]
    /\ LET r == Apply(NewInterRecord, StreamGiven(c, cmd)) IN
          Send(c, r, <<StreamGiven(c, cmd)>>) /\ row' = [row EXCEPT ![c] = After(r)]
    /\ Counted(c)
    /\ UNCHANGED <<multi, txn, stray>>

Handle(c, cmd) ==
    \/ cmd.op = "MULTI" /\ Multi(c)
    \/ cmd.op = "EXEC" /\ Exec(c)
    \/ cmd.op = "RAWSET" /\ RawSet(c, cmd)
    \/ cmd.op \in {"SET", "SADD", "HMSET"} /\ ~Lacks(cmd) /\ (Queue(c, cmd) \/ Alone(c, cmd))
    \/ Short(c, cmd)

StreamAllowed(c) == IF done[c] < Len(Scripts[c]) THEN Scripts[c][done[c] + 1] ELSE {}

StreamCommand(c) ==
    /\ scpc[c] = "read"
    /\ \E cmd \in StreamAllowed(c) : Handle(c, cmd)
    /\ UNCHANGED <<sconfig, xpc, apc, scritical, late, C, retrying>>

StreamRoom == Len(C) < StreamBuffer

(* The send to C: it waits, or the document is discarded, if C is full; it *)
(* panics if C was closed.                                                 *)
Offer(c) ==
    /\ scpc[c] = "send"
    /\ \/ Closed /\ crash' = "closed" /\ UNCHANGED <<C, scpc, pend>>
       \/ /\ ~Closed /\ UNCHANGED crash
          /\ \/ StreamRoom /\ C' = Append(C, Unit(c))
             \/ ~StreamRoom /\ ~pend[c].blocks /\ UNCHANGED C
          /\ scpc' = [scpc EXCEPT ![c] = "read"] /\ pend' = [pend EXCEPT ![c] = None]
    /\ UNCHANGED <<sconfig, xpc, apc, multi, row, done, txn, stray, scritical, late, retrying, unfit, sowed>>

StreamClose(c) ==
    /\ scpc[c] = "read"
    /\ scpc' = [scpc EXCEPT ![c] = "end"]
    /\ UNCHANGED <<sconfig, xpc, apc, multi, row, pend, done, txn, stray, spooler, crash>>

-----------------------------------------------------------------------------
(* The spooler: a worker takes a document and delivers it or fails, in one *)
(* step; empty and too large ones it drops.  Goroutines send documents     *)
(* that failed back to C; if too many are under way and the spooler is not *)
(* critical, others are dropped.                                           *)

Deliver ==
    /\ C # <<>>
    /\ C' = Tail(C) /\ sowed' = IF Head(C) \in unfit THEN sowed ELSE sowed \ {Head(C)}
    /\ UNCHANGED <<sconfig, xpc, apc, sessions, scritical, late, retrying, unfit, crash>>

Fail ==
    /\ C # <<>> /\ Head(C) \notin unfit
    /\ C' = Tail(C)
    /\ retrying' = IF ~scritical /\ Cardinality(retrying) > RetryLimit THEN retrying ELSE retrying \cup {Head(C)}
    /\ UNCHANGED <<sconfig, xpc, apc, sessions, scritical, late, unfit, sowed, crash>>

SendBack(u) ==
    /\ u \in retrying
    /\ \/ Closed /\ crash' = "closed" /\ UNCHANGED <<C, retrying>>
       \/ /\ ~Closed /\ Len(C) < StreamBuffer
          /\ C' = Append(C, u) /\ retrying' = retrying \ {u} /\ UNCHANGED crash
    /\ UNCHANGED <<sconfig, xpc, apc, sessions, scritical, late, unfit, sowed>>

(* Its Exit has closed the channel of its reloads and waits for each       *)
(* worker to flush and say so.  That may never end: one that could not     *)
(* deliver does not answer.  Or it finds a worker a reset has removed just *)
(* now.  Otherwise it closes C; a removed worker that still reads panics.  *)
SpoolerExits ==
    /\ xpc = "workers"
    /\ \/ xpc' = "closed" /\ UNCHANGED crash
       \/ crash' = "workers" /\ UNCHANGED xpc
    /\ UNCHANGED <<sconfig, apc, sessions, spooler>>

WorkerReadsClosed ==
    /\ xpc = "closed" /\ C = <<>>
    /\ crash' = "closed"
    /\ UNCHANGED <<sconfig, xpc, apc, sessions, spooler>>

-----------------------------------------------------------------------------
(* Reload: the relayer has its configuration, that of the spooler follows. *)
StreamReload(new) ==
    /\ new # sconfig /\ late[new.critical] < MaxPending
    /\ sconfig' = new /\ late' = [late EXCEPT ![new.critical] = @ + 1]
    /\ sowed' = IF new.critical THEN sowed ELSE {}
    /\ UNCHANGED <<xpc, apc, sessions, scritical, C, retrying, unfit, crash>>

(* Reload of the spooler, in any order; it signals at the channel.         *)
SpoolerReload(critical) ==
    /\ late[critical] > 0
    /\ late' = [late EXCEPT ![critical] = @ - 1] /\ scritical' = critical
    /\ crash' = IF xpc \in {"workers", "closed"} THEN "reload" ELSE crash
    /\ UNCHANGED <<sconfig, xpc, apc, sessions, C, retrying, unfit, sowed>>

(* Exit: the flag, the listener, Exit of the spooler in a goroutine, whose *)
(* end it waits for.  Then main may end the program at any time, which no  *)
(* property is about.                                                      *)
ExitGoes(from, to) ==
    /\ xpc = from
    /\ xpc' = to
    /\ UNCHANGED <<sconfig, apc, sessions, spooler, crash>>

ExitBegins == ExitGoes("run", "listener")
ExitClosesListener == ExitGoes("listener", "exit")
ExitsSpooler == ExitGoes("exit", "workers")

(* A crash of a goroutine is the end of the process.                       *)
StreamNext ==
    /\ crash = "no"
    /\ \/ AcceptChecks \/ AcceptFails
       \/ \E c \in StreamConns : AcceptTakes(c) \/ StreamCommand(c) \/ Offer(c) \/ StreamClose(c)
       \/ Deliver \/ Fail \/ (\E u \in Units : SendBack(u)) \/ SpoolerExits \/ WorkerReadsClosed
       \/ (\E new \in StreamConfigs : StreamReload(new)) \/ \E b \in BOOLEAN : SpoolerReload(b)
       \/ ExitBegins \/ ExitClosesListener \/ ExitsSpooler

(* Goroutines that can go on do; the stream accepts a document if it is    *)
(* tried again and again.                                                  *)
StreamFairness ==
    /\ SF_streamVars(Deliver)
    /\ (\A c \in StreamConns : SF_streamVars(Offer(c))) /\ \A u \in Units : SF_streamVars(SendBack(u))

StreamSpec == StreamInit /\ [][StreamNext]_streamVars /\ StreamFairness

-----------------------------------------------------------------------------
(* A document holds the commands of one transaction, or one command that   *)
(* was alone, and of no other: every key with a value SET (the code keeps  *)
(* the first, but which is left open), compressed once if it is to be, the *)
(* values of the SADDs in their order (unless one had more than one, of    *)
(* which the code drops the others), the last value of every field; unless *)
(* the connection has sent an EXEC without MULTI.  Besides, the state is   *)
(* well typed and C not overfull.                                          *)
OneTransactionEach ==
    /\ StreamTypeOK
    /\ \A c \in StreamConns : pend[c] # None /\ ~stray[c] =>
        IF pend[c].doc.kind = "raw" THEN pend[c].doc.of = pend[c].cmds[1].raw
        ELSE Describes(pend[c].doc, pend[c].cmds, Len(pend[c].cmds))

(* The process comes down for no other reason than these: a command        *)
(* without its arguments, a transaction that mixes two kinds of one key,   *)
(* an EXEC without MULTI, or a goroutine that meets what the exit has      *)
(* closed.  The accept loop never takes the closing of its listener for an *)
(* emergency.                                                              *)
CrashesExplained ==
    /\ crash # "fatal"
    /\ crash = "command" => \E c \in StreamConns : stray[c] \/ multi[c]
    /\ crash \in {"listener", "closed", "reload", "workers"} => Exiting

(* A document sent while relayer and spooler are critical, and no reload   *)
(* is under way to change that, gets to the stream, whatever fails on the  *)
(* way, unless it is empty or too large or the relayer stops being         *)
(* critical or exits.                                                      *)
CriticalDelivered == \A u \in Units : u \in sowed ~> (u \notin sowed \/ u \in unfit \/ Exiting \/ crash # "no")
=============================================================================
