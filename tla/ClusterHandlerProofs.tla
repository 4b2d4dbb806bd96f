----------------------- MODULE ClusterHandlerProofs ------------------------
(***************************************************************************)
(* Proofs about ClusterHandler for every set of commands, any number of    *)
(* them and any capacity of reqCh: the handler and the worker never talk   *)
(* to the server at the same time, and the handler implements InOrderRelay.*)
(***************************************************************************)
EXTENDS ClusterHandler, TLAPS

InFlight == IF wpc \in {"cmd", "answer", "decrement"} THEN 1 ELSE 0
Pushing == IF hpc = "push" THEN 1 ELSE 0

(* The counter covers what is queued, in flight or about to be queued. It  *)
(* may be larger: sender() forgets to decrement it for a bad command.      *)
Counted == pending >= Len(reqCh) + InFlight + Pushing

(* The handler sends directly only after it saw the counter at zero, and   *)
(* nobody else increments it.                                              *)
DirectWhenIdle == hpc \in {"direct", "answer"} => pending = 0

(* A command is being read: last is the one the handler works on.          *)
Working == hpc \in {"count", "push", "direct", "answer"} => last \in Ids

(* The worker holds a command from "cmd" to "decrement".                   *)
HoldsEntry == wpc \in {"cmd", "answer", "decrement"} => cur \in Entries

(* Commands wait in the order they were issued, after all the executed     *)
(* ones and before the one the handler works on.                           *)
Unsent == hpc \in {"count", "push", "direct"}
QueueSorted ==
    /\ \A k \in 1..Len(reqCh) : reqCh[k].id <= last
    /\ \A j, k \in 1..Len(reqCh) : j < k => reqCh[j].id < reqCh[k].id
    /\ Unsent => \A k \in 1..Len(reqCh) : reqCh[k].id < last
CurrentFirst ==
    wpc = "cmd" => /\ cur.id <= last
                   /\ Unsent => cur.id < last
                   /\ \A k \in 1..Len(reqCh) : cur.id < reqCh[k].id
ExecutedBefore ==
    /\ \A e \in 1..Len(executed) : executed[e] <= last
    /\ Unsent => \A e \in 1..Len(executed) : executed[e] < last
    /\ wpc = "cmd" => \A e \in 1..Len(executed) : executed[e] < cur.id
    /\ \A e \in 1..Len(executed) : \A k \in 1..Len(reqCh) : executed[e] < reqCh[k].id

IndInv ==
    /\ TypeOK /\ Counted /\ DirectWhenIdle /\ Working /\ HoldsEntry
    /\ QueueSorted /\ CurrentFirst /\ ExecutedBefore

-----------------------------------------------------------------------------
(* The handler starts in the invariant.                                    *)
LEMMA InitInd == Init => IndInv
<1> SUFFICES ASSUME Init PROVE IndInv
  OBVIOUS
<1>1. TypeOK
  <2>1. open \in BOOLEAN /\ initialized \in BOOLEAN /\ closed \in BOOLEAN
    BY DEF Init
  <2>2. cur \in Entries \cup {NoEntry}
    BY DEF Init
  <2>3. reqCh \in Seq(Entries) /\ executed \in Seq(Ids) /\ replies \in Seq(Ids) /\ cmds \in Seq(Commands)
    BY DEF Init
  <2>4. Len(cmds) <= MaxCommands /\ Len(reqCh) <= BufferSize /\ pending \in Nat
    BY HandlerAssumption DEF Init
  <2> QED
    BY <2>1, <2>2, <2>3, <2>4 DEF Init, TypeOK
<1> QED
  BY <1>1 DEF Init, IndInv, Counted, InFlight, Pushing, DirectWhenIdle, Working, HoldsEntry,
     QueueSorted, CurrentFirst, ExecutedBefore, Unsent

(* The invariant in three parts: types, the counter, the order.            *)
Control == Counted /\ DirectWhenIdle /\ Working /\ HoldsEntry
Order == QueueSorted /\ CurrentFirst /\ ExecutedBefore

(* Every step keeps the types; pending does not become negative.           *)
LEMMA TypeStep == ASSUME IndInv, Next PROVE TypeOK'
<1> USE HandlerAssumption DEF IndInv, TypeOK, Ids, last, Counted, InFlight, Pushing, Working, HoldsEntry
<1>1. ASSUME Count PROVE TypeOK'
  BY <1>1 DEF Count
<1>2. ASSUME Push PROVE TypeOK'
  <2> DEFINE e == [id |-> last, mustAnswer |-> ~cmds[last].async]
  <2>1. e \in Entries
    BY <1>2 DEF Push, Entries
  <2> HIDE DEF e
  <2>2. Append(reqCh, e) \in Seq(Entries) /\ Len(Append(reqCh, e)) = Len(reqCh) + 1
    BY <2>1
  <2>3. reqCh' \in Seq(Entries) /\ Len(reqCh') <= BufferSize
    BY <1>2, <2>2 DEF Push, e
  <2> QED
    BY <1>2, <2>3 DEF Push
<1>3. ASSUME DirectCmd PROVE TypeOK'
  <2>1. last \in Ids
    BY <1>3 DEF DirectCmd
  <2>2. Append(executed, last) \in Seq(Ids)
    BY <2>1
  <2>3. executed' \in Seq(Ids)
    BY <1>3, <2>2 DEF DirectCmd
  <2> QED
    BY <1>3, <2>3 DEF DirectCmd
<1>4. ASSUME DirectAnswer PROVE TypeOK'
  <2>1. last \in Ids
    BY <1>4 DEF DirectAnswer
  <2>2. Append(replies, last) \in Seq(Ids)
    BY <2>1
  <2>3. replies' \in Seq(Ids)
    BY <1>4, <2>2 DEF DirectAnswer, Reply
  <2> QED
    BY <1>4, <2>3 DEF DirectAnswer
<1>5. ASSUME WorkerRecv PROVE TypeOK'
  <2>1. Head(reqCh) \in Entries /\ Tail(reqCh) \in Seq(Entries) /\ Len(Tail(reqCh)) <= BufferSize
    BY <1>5 DEF WorkerRecv
  <2> QED
    BY <1>5, <2>1 DEF WorkerRecv
<1>6. ASSUME WorkerEnd PROVE TypeOK'
  BY <1>6 DEF WorkerEnd
<1>7. ASSUME WorkerBadCommand PROVE TypeOK'
  <2>1. cur.id \in Ids
    BY <1>7 DEF WorkerBadCommand, Entries
  <2>2. Append(replies, cur.id) \in Seq(Ids)
    BY <2>1
  <2>3. replies' \in Seq(Ids)
    BY <1>7, <2>2 DEF WorkerBadCommand, Reply
  <2> QED
    BY <1>7, <2>3 DEF WorkerBadCommand
<1>8. ASSUME WorkerCmd PROVE TypeOK'
  <2>1. cur.id \in Ids
    BY <1>8 DEF WorkerCmd, Entries
  <2>2. Append(executed, cur.id) \in Seq(Ids)
    BY <2>1
  <2> QED
    BY <1>8, <2>2 DEF WorkerCmd
<1>9. ASSUME WorkerAnswer PROVE TypeOK'
  <2>1. cur.id \in Ids
    BY <1>9 DEF WorkerAnswer, Entries
  <2>2. Append(replies, cur.id) \in Seq(Ids)
    BY <2>1
  <2>3. replies' \in Seq(Ids)
    BY <1>9, <2>2 DEF WorkerAnswer, Reply
  <2> QED
    BY <1>9, <2>3 DEF WorkerAnswer
<1>10. ASSUME WorkerDecrement PROVE TypeOK'
  BY <1>10 DEF WorkerDecrement
<1>11. ASSUME Close PROVE TypeOK'
  BY <1>11 DEF Close
<1>12. ASSUME NEW c \in Commands, Process(c) PROVE TypeOK'
  <2>1. cmds' \in Seq(Commands) /\ Len(cmds') <= MaxCommands /\ Len(cmds) + 1 \in Ids
    BY <1>12 DEF Process
  <2>2. Append(replies, Len(cmds) + 1) \in Seq(Ids)
    BY <2>1
  <2>3. replies' \in Seq(Ids)
    BY <1>12, <2>2 DEF Process, Refuse, FastResponse, SendBehind, SendDirectly
  <2>4. initialized' \in BOOLEAN
    BY <1>12 DEF Process, Refuse, FastResponse, SendBehind, SendDirectly
  <2>5. hpc' \in {"read", "count", "direct"} /\ wpc' \in {wpc, "recv"}
    BY <1>12 DEF Process, Refuse, FastResponse, SendBehind, SendDirectly
  <2>6. UNCHANGED <<open, reqCh, closed, pending, cur, executed>>
    BY <1>12 DEF Process
  <2> QED
    BY <2>1, <2>3, <2>4, <2>5, <2>6
<1> QED
  BY <1>1, <1>2, <1>3, <1>4, <1>5, <1>6, <1>7, <1>8, <1>9, <1>10, <1>11, <1>12 DEF Next, Handler, Worker

(* What waits in reqCh are commands of the connection.                     *)
LEMMA QueueEntries ==
    ASSUME IndInv
    PROVE  Len(reqCh) \in Nat /\ \A k \in 1..Len(reqCh) : reqCh[k] \in Entries /\ reqCh[k].id \in Nat
<1>1. Len(reqCh) \in Nat /\ \A k \in 1..Len(reqCh) : reqCh[k] \in Entries
  BY DEF IndInv, TypeOK
<1> QED
  BY <1>1 DEF Entries, Ids

(* Processing a command: cmds grows by one and the handler moves on.       *)
LEMMA ProcessMoves ==
    ASSUME IndInv, NEW c \in Commands, Process(c)
    PROVE  /\ Len(cmds') = Len(cmds) + 1 /\ Len(cmds) + 1 \in Ids
           /\ hpc = "read" /\ hpc' \in {"read", "count", "direct"}
           /\ hpc' = "direct" => pending = 0
           /\ wpc' = wpc \/ wpc' = "recv"
           /\ UNCHANGED <<open, reqCh, closed, pending, cur, executed>>
  BY HandlerAssumption DEF IndInv, TypeOK, Ids, last, Process, Refuse, FastResponse, SendBehind,
     SendDirectly, Busy

(* Every step keeps the counter above what is queued or in flight.         *)
LEMMA ControlStep == ASSUME IndInv, Next, TypeOK' PROVE Control'
<1> USE HandlerAssumption DEF IndInv, Counted, InFlight, Pushing, DirectWhenIdle, Working, HoldsEntry, Control, last, Ids
<1>1. ASSUME Count PROVE Control'
  BY <1>1 DEF Count, TypeOK
<1>2. ASSUME Push PROVE Control'
  BY <1>2 DEF Push, TypeOK
<1>3. ASSUME DirectCmd PROVE Control'
  BY <1>3 DEF DirectCmd, TypeOK
<1>4. ASSUME DirectAnswer PROVE Control'
  BY <1>4 DEF DirectAnswer, Reply, TypeOK
<1>5. ASSUME WorkerRecv PROVE Control'
  BY <1>5 DEF WorkerRecv, TypeOK
<1>6. ASSUME WorkerEnd PROVE Control'
  BY <1>6 DEF WorkerEnd, TypeOK
<1>7. ASSUME WorkerBadCommand PROVE Control'
  BY <1>7 DEF WorkerBadCommand, Reply, TypeOK
<1>8. ASSUME WorkerCmd PROVE Control'
  BY <1>8 DEF WorkerCmd, TypeOK
<1>9. ASSUME WorkerAnswer PROVE Control'
  BY <1>9 DEF WorkerAnswer, Reply, TypeOK
<1>10. ASSUME WorkerDecrement PROVE Control'
  BY <1>10 DEF WorkerDecrement, TypeOK
<1>11. ASSUME Close PROVE Control'
  BY <1>11 DEF Close, TypeOK
<1>12. ASSUME NEW c \in Commands, Process(c) PROVE Control'
  <2>1. /\ Len(cmds') = Len(cmds) + 1 /\ Len(cmds) + 1 \in Ids
        /\ hpc' \in {"read", "count", "direct"} /\ (hpc' = "direct" => pending = 0)
        /\ wpc' = wpc \/ wpc' = "recv"
        /\ UNCHANGED <<reqCh, pending, cur>>
    BY <1>12, ProcessMoves
  <2>2. Counted' /\ DirectWhenIdle'
    <3>1. Pushing' = 0 /\ Pushing \in {0, 1}
      BY <2>1
    <3>2. InFlight' \in {0, InFlight} /\ InFlight \in {0, 1}
      BY <2>1
    <3>3. Len(reqCh) \in Nat /\ pending \in Nat
      BY DEF TypeOK
    <3> HIDE DEF Pushing, InFlight
    <3> QED
      BY <2>1, <3>1, <3>2, <3>3
  <2>3. Working' /\ HoldsEntry'
    BY <2>1 DEF TypeOK
  <2> QED
    BY <2>2, <2>3
<1> QED
  BY <1>1, <1>2, <1>3, <1>4, <1>5, <1>6, <1>7, <1>8, <1>9, <1>10, <1>11, <1>12 DEF Next, Handler, Worker

(* Every step keeps executed, current and queued commands in order.        *)
LEMMA OrderStep == ASSUME IndInv, Next, TypeOK' PROVE Order'
<1> USE HandlerAssumption DEF IndInv, Order, QueueSorted, CurrentFirst, ExecutedBefore, Unsent, DirectWhenIdle, Counted, InFlight, Pushing, HoldsEntry, Working, Ids, last, Control
<1>1. ASSUME Count PROVE Order'
  BY <1>1 DEF Count, TypeOK
<1>2. ASSUME Push PROVE Order'
  <2> DEFINE e == [id |-> last, mustAnswer |-> ~cmds[last].async]
  <2>1. e \in Entries /\ e.id = last
    BY <1>2 DEF Push, Entries
  <2>2. reqCh' = Append(reqCh, e) /\ hpc = "push" /\ hpc' = "read"
        /\ UNCHANGED <<cmds, wpc, cur, executed>>
    BY <1>2 DEF Push
  <2> HIDE DEF e
  <2>3. /\ Len(reqCh') = Len(reqCh) + 1
        /\ \A k \in 1..Len(reqCh) : reqCh'[k] = reqCh[k]
        /\ reqCh'[Len(reqCh) + 1] = e
    BY <2>1, <2>2 DEF TypeOK
  <2>4. ~Unsent' /\ Unsent /\ last' = last /\ last \in Nat
    BY <2>2 DEF TypeOK
  <2>5. Len(reqCh) \in Nat /\ \A k \in 1..Len(reqCh) : reqCh[k].id \in Nat
    BY QueueEntries
  <2> HIDE DEF Unsent, last
  <2>6. QueueSorted'
    <3>1. \A k \in 1..Len(reqCh) : reqCh[k].id < last
      BY <2>4
    <3>2. \A j, k \in 1..Len(reqCh) : j < k => reqCh[j].id < reqCh[k].id
      OBVIOUS
    <3> HIDE DEF IndInv, Order, QueueSorted, CurrentFirst, ExecutedBefore, DirectWhenIdle,
                 Counted, InFlight, Pushing, HoldsEntry, Working, Control
    <3>3. \A k \in 1..Len(reqCh') : k \in 1..Len(reqCh) \/ k = Len(reqCh) + 1
      BY <2>3, <2>5
    <3>4. \A k \in 1..Len(reqCh') : reqCh'[k].id <= last'
      BY <2>1, <2>3, <2>4, <2>5, <3>1, <3>3
    <3>5. ASSUME NEW j \in 1..Len(reqCh'), NEW k \in 1..Len(reqCh'), j < k
          PROVE  reqCh'[j].id < reqCh'[k].id
      <4>1. j \in 1..Len(reqCh) /\ reqCh'[j] = reqCh[j]
        BY <2>3, <2>5, <3>5
      <4>2. CASE k \in 1..Len(reqCh)
        BY <2>3, <3>2, <3>5, <4>1, <4>2
      <4>3. CASE k = Len(reqCh) + 1
        BY <2>1, <2>3, <3>1, <4>1, <4>3
      <4> QED
        BY <3>3, <4>2, <4>3
    <3> QED
      BY <2>4, <3>4, <3>5 DEF QueueSorted
  <2>7. CurrentFirst'
    BY <2>1, <2>2, <2>3, <2>4, <2>5
  <2>8. ExecutedBefore'
    BY <2>1, <2>2, <2>3, <2>4, <2>5
  <2> QED
    BY <2>6, <2>7, <2>8
<1>3. ASSUME DirectCmd PROVE Order'
  <2>1. /\ hpc = "direct" /\ hpc' = "answer" /\ UNCHANGED <<cmds, reqCh, wpc, cur>>
        /\ executed' = executed \/ executed' = Append(executed, last)
    BY <1>3 DEF DirectCmd
  <2>2. Len(reqCh) = 0 /\ wpc # "cmd"
    BY <2>1 DEF TypeOK
  <2>3. last \in Nat /\ executed \in Seq(Nat) /\ last' = last
    BY <2>1 DEF TypeOK
  <2>4. \A e \in 1..Len(executed) : executed[e] <= last
    OBVIOUS
  <2> HIDE DEF IndInv, DirectWhenIdle, Counted, InFlight, Pushing, HoldsEntry, Working, Control, last
  <2>5. \A e \in 1..Len(executed') : executed'[e] <= last
    BY <2>1, <2>3, <2>4
  <2>6. ~Unsent' /\ wpc' # "cmd" /\ 1..Len(reqCh') = {}
    BY <2>1, <2>2
  <2> QED
    BY <2>3, <2>5, <2>6
<1>4. ASSUME DirectAnswer PROVE Order'
  BY <1>4 DEF DirectAnswer, Reply, TypeOK
<1>5. ASSUME WorkerRecv PROVE Order'
  <2>1. /\ cur' = reqCh[1] /\ reqCh' = Tail(reqCh) /\ reqCh # <<>> /\ wpc' = "cmd"
        /\ UNCHANGED <<cmds, hpc, executed>>
    BY <1>5 DEF WorkerRecv
  <2>2. /\ Len(reqCh) >= 1 /\ Len(reqCh') = Len(reqCh) - 1
        /\ \A k \in 1..Len(reqCh') : k + 1 \in 1..Len(reqCh) /\ reqCh'[k] = reqCh[k + 1]
    BY <2>1 DEF TypeOK
  <2>3. QueueSorted'
    BY <2>1, <2>2 DEF TypeOK
  <2>4. CurrentFirst'
    BY <2>1, <2>2, SMTT(30) DEF TypeOK
  <2>5. ExecutedBefore'
    BY <2>1, <2>2 DEF TypeOK
  <2> QED
    BY <2>3, <2>4, <2>5
<1>6. ASSUME WorkerEnd PROVE Order'
  BY <1>6 DEF WorkerEnd, TypeOK
<1>7. ASSUME WorkerBadCommand PROVE Order'
  BY <1>7 DEF WorkerBadCommand, Reply, TypeOK
<1>8. ASSUME WorkerCmd PROVE Order'
  BY <1>8 DEF WorkerCmd, TypeOK
<1>9. ASSUME WorkerAnswer PROVE Order'
  BY <1>9 DEF WorkerAnswer, Reply, TypeOK
<1>10. ASSUME WorkerDecrement PROVE Order'
  BY <1>10 DEF WorkerDecrement, TypeOK
<1>11. ASSUME Close PROVE Order'
  BY <1>11 DEF Close, TypeOK
<1>12. ASSUME NEW c \in Commands, Process(c) PROVE Order'
  <2>1. /\ last' = last + 1
        /\ wpc' = wpc \/ wpc' = "recv"
        /\ UNCHANGED <<reqCh, cur, executed>>
    BY <1>12, ProcessMoves
  <2>0. last \in Nat
    BY DEF TypeOK
  <2>2. QueueSorted'
    <3>2. \A k \in 1..Len(reqCh) : reqCh[k].id <= last
      OBVIOUS
    <3>3. \A k \in 1..Len(reqCh) : reqCh[k].id \in Nat
      BY QueueEntries
    <3> HIDE DEF last
    <3>1. \A k \in 1..Len(reqCh) : reqCh[k].id \in Nat /\ reqCh[k].id < last'
      BY <2>0, <2>1, <3>2, <3>3
    <3> QED
      BY <2>1, <3>1
  <2>3. CurrentFirst'
    <3>1. wpc = "cmd" => cur.id \in Nat /\ cur.id < last'
      BY <2>0, <2>1 DEF TypeOK, Entries
    <3> QED
      BY <2>1, <3>1
  <2>4. ExecutedBefore'
    <3>1. \A e \in 1..Len(executed) : executed[e] \in Nat /\ executed[e] < last'
      BY <2>0, <2>1 DEF TypeOK
    <3> QED
      BY <2>1, <3>1
  <2> QED
    BY <2>2, <2>3, <2>4
<1> QED
  BY <1>1, <1>2, <1>3, <1>4, <1>5, <1>6, <1>7, <1>8, <1>9, <1>10, <1>11, <1>12 DEF Next, Handler, Worker

-----------------------------------------------------------------------------
(* The invariant is inductive.                                             *)
LEMMA NextInd == IndInv /\ [Next]_vars => IndInv'
<1> SUFFICES ASSUME IndInv, [Next]_vars PROVE IndInv'
  OBVIOUS
<1>1. CASE Next
  BY <1>1, TypeStep, ControlStep, OrderStep DEF IndInv, Control, Order
<1>2. CASE UNCHANGED vars
  <2>1. TypeOK'
    BY <1>2 DEF vars, IndInv, TypeOK
  <2>2. Control'
    BY <1>2 DEF vars, IndInv, Control, Counted, InFlight, Pushing, DirectWhenIdle, Working,
       HoldsEntry, last
  <2>3. Order'
    BY <1>2 DEF vars, IndInv, Order, QueueSorted, CurrentFirst, ExecutedBefore, Unsent, last
  <2> QED
    BY <2>1, <2>2, <2>3 DEF IndInv, Control, Order
<1> QED
  BY <1>1, <1>2

(* The inductive invariant holds in every reachable state of the handler.  *)
THEOREM Invariance == Spec => []IndInv
  BY InitInd, NextInd, PTL DEF Spec

(* The state of process(), sendWorker() and sender() keeps its types; in   *)
(* particular the counter never becomes negative.                          *)
THEOREM TypeCorrect == Spec => []TypeOK
<1>1. IndInv => TypeOK
  BY DEF IndInv
<1> QED
  BY <1>1, Invariance, PTL

(* process() sends a command itself only when sendWorker() is idle.        *)
THEOREM Exclusive == Spec => []OneSender
<1>1. IndInv => OneSender
  <2> SUFFICES ASSUME IndInv, hpc \in {"direct", "answer"}
               PROVE  reqCh = <<>> /\ wpc \in {"none", "recv", "done"}
    BY DEF OneSender
  <2>1. pending = 0 /\ Pushing = 0 /\ InFlight \in {0, 1} /\ Len(reqCh) \in Nat
    BY QueueEntries DEF IndInv, DirectWhenIdle, Pushing, InFlight
  <2>2. Len(reqCh) = 0 /\ InFlight = 0
    BY <2>1 DEF IndInv, Counted
  <2> QED
    BY <2>2 DEF IndInv, TypeOK, InFlight
<1> QED
  BY <1>1, Invariance, PTL

(* Every step of the handler and its worker is a step of InOrderRelay or   *)
(* leaves its variables unchanged.                                         *)
LEMMA StepImplements ==
    ASSUME IndInv, [Next]_vars PROVE [Relay!Next]_<<Len(cmds), executed>>
<1> USE HandlerAssumption DEF IndInv, TypeOK, Ids
<1>1. ASSUME NEW c \in Commands, Process(c) PROVE Relay!Issue
  BY <1>1, ProcessMoves DEF Relay!Issue
<1>2. CASE DirectCmd
  <2>1. last \in Ids /\ \A e \in 1..Len(executed) : executed[e] < last
    BY <1>2 DEF DirectCmd, Working, ExecutedBefore, Unsent
  <2>2. UNCHANGED cmds /\ (executed' = Append(executed, last) \/ UNCHANGED executed)
    BY <1>2 DEF DirectCmd
  <2>3. CASE executed' = Append(executed, last)
    <3>1. Relay!Execute(last)
      BY <2>1, <2>2, <2>3 DEF Relay!Execute, Relay!Newer, last
    <3> QED
      BY <2>1, <3>1 DEF Relay!Next
  <2>4. CASE UNCHANGED executed
    BY <2>2, <2>4
  <2> QED
    BY <2>2, <2>3, <2>4
<1>3. CASE WorkerCmd
  <2>1. /\ cur.id \in Ids /\ cur.id <= last
        /\ \A e \in 1..Len(executed) : executed[e] < cur.id
    BY <1>3 DEF WorkerCmd, HoldsEntry, Entries, CurrentFirst, ExecutedBefore
  <2>2. UNCHANGED cmds /\ executed' = Append(executed, cur.id)
    BY <1>3 DEF WorkerCmd
  <2> QED
    BY <2>1, <2>2 DEF Relay!Next, Relay!Execute, Relay!Newer, last
<1>4. CASE \/ Count \/ Push \/ DirectAnswer \/ Close \/ WorkerRecv \/ WorkerEnd
           \/ WorkerBadCommand \/ WorkerAnswer \/ WorkerDecrement
  BY <1>4 DEF Count, Push, DirectAnswer, Close, WorkerRecv, WorkerEnd, WorkerBadCommand,
     WorkerAnswer, WorkerDecrement
<1>5. CASE UNCHANGED vars
  BY <1>5 DEF vars
<1> QED
  BY <1>1, <1>2, <1>3, <1>4, <1>5 DEF Next, Handler, Worker, Relay!Next

(* The handler implements InOrderRelay: the server executes the commands   *)
(* of a connection in the order issued, although process() and             *)
(* sendWorker() both send.                                                 *)
THEOREM Refinement == Spec => ExecutesInOrder
<1>1. Init => Relay!Init
  BY DEF Init, Relay!Init
<1> QED
  BY <1>1, Invariance, StepImplements, PTL DEF Spec, ExecutesInOrder, Relay!Spec

-----------------------------------------------------------------------------
(* The order of the answers.  Whatever waits to be answered (the command   *)
(* the worker holds, those in reqCh, the one the handler works on) is      *)
(* later than every command that was waited for and is answered.           *)
Before(x) == \A r \in 1..Len(replies) : Waited(replies[r]) => replies[r] < x
Answering == wpc \in {"cmd", "answer"}
AtWork == hpc \in {"count", "push", "direct", "answer"}

AnswersNext ==
    Answering => /\ cur.id <= last /\ (AtWork => cur.id < last)
                 /\ \A k \in 1..Len(reqCh) : cur.id < reqCh[k].id
AnsweredBefore ==
    /\ \A r \in 1..Len(replies) : replies[r] <= last
    /\ AtWork => Before(last)
    /\ Answering => Before(cur.id)
    /\ \A k \in 1..Len(reqCh) : Before(reqCh[k].id)
ReplyInv == AnswersNext /\ AnsweredBefore /\ WaitedRepliesInOrder

(* An answer that is later than those before it keeps the order, and stays *)
(* before whatever is later than itself.                                   *)
LEMMA ReplyAppends ==
    ASSUME replies \in Seq(Ids), NEW i \in Ids, replies' = Append(replies, i), UNCHANGED cmds,
           Before(i), WaitedRepliesInOrder
    PROVE  /\ WaitedRepliesInOrder'
           /\ \A x \in Ids : i < x /\ Before(x) => Before(x)'
           /\ \A m \in Nat : i <= m /\ (\A r \in 1..Len(replies) : replies[r] <= m)
                               => \A r \in 1..Len(replies') : replies'[r] <= m
<1>1. /\ Len(replies') = Len(replies) + 1 /\ Len(replies) \in Nat /\ replies'[Len(replies) + 1] = i
      /\ \A r \in 1..Len(replies) : replies'[r] = replies[r]
  OBVIOUS
<1>2. \A r \in 1..Len(replies') : r \in 1..Len(replies) \/ r = Len(replies) + 1
  BY <1>1
<1>3. \A j : Waited(j)' <=> Waited(j)
  BY DEF Waited
<1>4. ASSUME NEW j \in 1..Len(replies'), NEW k \in 1..(j - 1), Waited(replies'[k]), Waited(replies'[j])
      PROVE  replies'[k] < replies'[j]
  <2>1. k \in 1..Len(replies) /\ replies'[k] = replies[k]
    BY <1>1
  <2>2. CASE j \in 1..Len(replies)
    BY <1>1, <1>4, <2>1, <2>2 DEF WaitedRepliesInOrder
  <2>3. CASE j = Len(replies) + 1
    BY <1>1, <1>4, <2>1, <2>3 DEF Before
  <2> QED
    BY <1>2, <2>2, <2>3
<1>5. WaitedRepliesInOrder'
  <2>1. \A j \in 1..Len(replies') : \A k \in 1..(j - 1) :
           Waited(replies'[k]) /\ Waited(replies'[j]) => replies'[k] < replies'[j]
    BY <1>4
  <2> QED
    BY <1>3, <2>1 DEF WaitedRepliesInOrder, Waited
<1>6. ASSUME NEW x \in Ids, i < x, Before(x) PROVE Before(x)'
  <2>1. \A r \in 1..Len(replies') : Waited(replies'[r]) => replies'[r] < x
    BY <1>1, <1>2, <1>6 DEF Before
  <2> QED
    BY <2>1 DEF Before, Waited
<1>7. \A m \in Nat : i <= m /\ (\A r \in 1..Len(replies) : replies[r] <= m)
                        => \A r \in 1..Len(replies') : replies'[r] <= m
  BY <1>1, <1>2
<1> QED
  BY <1>5, <1>6, <1>7

(* Every step keeps the answers in order.                                  *)
LEMMA ReplyStep == ASSUME IndInv, ReplyInv, Next PROVE ReplyInv'
<1>0. /\ replies \in Seq(Ids) /\ last \in Nat /\ Len(reqCh) \in Nat /\ Len(replies) \in Nat
      /\ \A r \in 1..Len(replies) : replies[r] \in Ids
  BY DEF IndInv, TypeOK, last
<1>1. \A k \in 1..Len(reqCh) : reqCh[k].id \in Ids
  <2>1. \A k \in 1..Len(reqCh) : reqCh[k] \in Entries
    BY DEF IndInv, TypeOK
  <2> QED
    BY <2>1 DEF Entries
<1>2. (Answering => cur.id \in Ids) /\ (AtWork => last \in Ids) /\ Ids \subseteq Nat
  BY DEF IndInv, HoldsEntry, Working, Entries, Answering, AtWork, Ids
<1>3. AnswersNext /\ AnsweredBefore /\ WaitedRepliesInOrder
  BY DEF ReplyInv
<1>4. hpc \in {"direct", "answer"} => Len(reqCh) = 0 /\ ~Answering
  <2> SUFFICES ASSUME hpc \in {"direct", "answer"} PROVE Len(reqCh) = 0 /\ ~Answering
    OBVIOUS
  <2>1. pending = 0 /\ Pushing = 0 /\ InFlight \in {0, 1}
    BY DEF IndInv, DirectWhenIdle, Pushing, InFlight
  <2>2. Len(reqCh) = 0 /\ InFlight = 0
    BY <1>0, <2>1 DEF IndInv, Counted
  <2> QED
    BY <2>2 DEF InFlight, Answering
(* Nothing is answered, and nothing new waits.                             *)
<1>5. ASSUME UNCHANGED <<cmds, replies, reqCh, cur>>, AtWork' => AtWork, Answering' => Answering PROVE ReplyInv'
  <2>1. last' = last /\ (\A x : Before(x)' <=> Before(x)) /\ WaitedRepliesInOrder'
    BY <1>3, <1>5 DEF last, Before, WaitedRepliesInOrder, Waited
  <2>2. AnswersNext'
    BY <1>3, <1>5, <2>1 DEF AnswersNext
  <2>3. AnsweredBefore'
    <3>1. (AtWork => Before(last)) /\ (Answering => Before(cur.id)) /\ \A k \in 1..Len(reqCh) : Before(reqCh[k].id)
      BY <1>3 DEF AnsweredBefore
    <3>2. (AtWork' => Before(last)') /\ (Answering' => Before(cur.id)') /\ \A k \in 1..Len(reqCh') : Before(reqCh[k].id)'
      BY <1>5, <2>1, <3>1 DEF Before, Waited
    <3> QED
      BY <1>3, <1>5, <2>1, <3>2 DEF AnsweredBefore
  <2> QED
    BY <2>1, <2>2, <2>3 DEF ReplyInv
<1>6. CASE Count \/ DirectCmd
  <2>1. UNCHANGED <<cmds, replies, reqCh, cur, wpc>> /\ AtWork
    BY <1>6 DEF Count, DirectCmd, AtWork
  <2> QED
    BY <1>5, <2>1 DEF Answering
<1>7. CASE WorkerEnd \/ WorkerCmd \/ WorkerDecrement
  <2>1. UNCHANGED <<cmds, replies, reqCh, cur, hpc>> /\ (Answering' => Answering)
    BY <1>7 DEF WorkerEnd, WorkerCmd, WorkerDecrement, Answering
  <2> QED
    BY <1>5, <2>1 DEF AtWork
<1>8. CASE Close
  <2>1. UNCHANGED <<cmds, replies, reqCh, cur, wpc>> /\ ~AtWork'
    BY <1>8 DEF Close, AtWork
  <2> QED
    BY <1>5, <2>1 DEF Answering
(* The handler queues the command it works on.                             *)
<1>9. CASE Push
  <2> DEFINE e == [id |-> last, mustAnswer |-> ~cmds[last].async]
  <2>1. /\ reqCh' = Append(reqCh, e) /\ e \in Entries /\ e.id = last /\ AtWork /\ ~AtWork'
        /\ UNCHANGED <<cmds, replies, cur, wpc>>
    <3>1. AtWork /\ ~AtWork'
      BY <1>9 DEF Push, AtWork
    <3> QED
      BY <1>2, <1>9, <3>1 DEF Push, Entries
  <2> HIDE DEF e
  <2>2. /\ Len(reqCh') = Len(reqCh) + 1 /\ reqCh'[Len(reqCh) + 1] = e
        /\ \A k \in 1..Len(reqCh) : reqCh'[k] = reqCh[k]
    BY <2>1 DEF IndInv, TypeOK
  <2>3. \A k \in 1..Len(reqCh') : (k \in 1..Len(reqCh) /\ reqCh'[k] = reqCh[k]) \/ reqCh'[k] = e
    BY <1>0, <2>2
  <2>4. last' = last /\ (\A x : Before(x)' <=> Before(x)) /\ WaitedRepliesInOrder' /\ (Answering' <=> Answering)
    BY <1>3, <2>1 DEF last, Before, WaitedRepliesInOrder, Waited, Answering
  <2>5. AnswersNext'
    BY <1>3, <2>1, <2>3, <2>4 DEF AnswersNext
  <2>6. AnsweredBefore'
    <3>1. (Answering => Before(cur.id)) /\ Before(last) /\ \A k \in 1..Len(reqCh) : Before(reqCh[k].id)
      BY <1>3, <2>1 DEF AnsweredBefore
    <3>2. Answering' => Before(cur.id)'
      BY <2>1, <2>4, <3>1 DEF Before, Waited
    <3>3. \A k \in 1..Len(reqCh') : Before(reqCh'[k].id)
      BY <2>1, <2>3, <3>1
    <3>4. \A k \in 1..Len(reqCh') : Before(reqCh[k].id)'
      BY <2>1, <3>3 DEF Before, Waited
    <3> QED
      BY <1>3, <2>1, <2>4, <3>2, <3>4 DEF AnsweredBefore
  <2> QED
    BY <2>4, <2>5, <2>6 DEF ReplyInv
(* The worker takes the oldest command of reqCh.                           *)
<1>10. CASE WorkerRecv
  <2>1. /\ cur' = reqCh[1] /\ reqCh' = Tail(reqCh) /\ reqCh # <<>> /\ wpc' = "cmd"
        /\ UNCHANGED <<cmds, hpc, replies>>
    BY <1>10 DEF WorkerRecv
  <2>2. /\ 1 \in 1..Len(reqCh)
        /\ \A k \in 1..Len(reqCh') : k + 1 \in 1..Len(reqCh) /\ 1 < k + 1 /\ reqCh'[k] = reqCh[k + 1]
    BY <1>0, <2>1 DEF IndInv, TypeOK
  <2>3. last' = last /\ (\A x : Before(x)' <=> Before(x)) /\ WaitedRepliesInOrder' /\ (AtWork' <=> AtWork)
    BY <1>3, <2>1 DEF last, Before, WaitedRepliesInOrder, Waited, AtWork
  <2>4. AnswersNext'
    <3>1. \A k \in 1..Len(reqCh) : reqCh[k].id <= last /\ (AtWork => reqCh[k].id < last)
      BY <1>4 DEF IndInv, QueueSorted, Unsent, AtWork
    <3>2. \A j, k \in 1..Len(reqCh) : j < k => reqCh[j].id < reqCh[k].id
      BY DEF IndInv, QueueSorted
    <3> QED
      BY <2>1, <2>2, <2>3, <3>1, <3>2 DEF AnswersNext
  <2>5. AnsweredBefore'
    <3>1. \A k \in 1..Len(reqCh) : Before(reqCh[k].id)
      BY <1>3 DEF AnsweredBefore
    <3>2. Before(cur'.id) /\ \A k \in 1..Len(reqCh') : Before(reqCh'[k].id)
      BY <2>1, <2>2, <3>1
    <3>3. Before(cur.id)' /\ \A k \in 1..Len(reqCh') : Before(reqCh[k].id)'
      BY <2>1, <3>2 DEF Before, Waited
    <3>4. AtWork' => Before(last)'
      BY <1>3, <2>1, <2>3 DEF AnsweredBefore, Before, Waited
    <3> QED
      BY <1>3, <2>1, <2>3, <3>3, <3>4 DEF AnsweredBefore
  <2> QED
    BY <2>3, <2>4, <2>5 DEF ReplyInv
(* The handler or the worker answers a command.                            *)
<1>11. ASSUME NEW i \in Ids, replies' = Append(replies, i), UNCHANGED <<cmds, reqCh, cur>>, Before(i), i <= last,
              ~Answering', AtWork' => AtWork /\ i < last, \A k \in 1..Len(reqCh) : i < reqCh[k].id
       PROVE  ReplyInv'
  <2>1. /\ WaitedRepliesInOrder'
        /\ \A x \in Ids : i < x /\ Before(x) => Before(x)'
        /\ \A m \in Nat : i <= m /\ (\A r \in 1..Len(replies) : replies[r] <= m)
                            => \A r \in 1..Len(replies') : replies'[r] <= m
    BY <1>0, <1>3, <1>11, ReplyAppends
  <2>2. last' = last
    BY <1>11 DEF last
  <2>3. \A r \in 1..Len(replies') : replies'[r] <= last
    BY <1>0, <1>3, <1>11, <2>1 DEF AnsweredBefore
  <2>4. \A x \in Ids : i < x /\ Before(x) => \A r \in 1..Len(replies') : Waited(replies[r])' => replies'[r] < x
    BY <2>1 DEF Before
  <2>5. AtWork' => Before(last)'
    <3>1. AtWork' => last \in Ids /\ i < last /\ Before(last)
      BY <1>2, <1>3, <1>11 DEF AnsweredBefore
    <3> QED
      BY <2>2, <2>4, <3>1 DEF Before
  <2>6. \A k \in 1..Len(reqCh') : Before(reqCh[k].id)'
    <3>1. \A k \in 1..Len(reqCh) : Before(reqCh[k].id) /\ i < reqCh[k].id /\ reqCh[k].id \in Ids
      BY <1>1, <1>3, <1>11 DEF AnsweredBefore
    <3> QED
      BY <1>11, <2>4, <3>1 DEF Before
  <2> QED
    BY <1>11, <2>1, <2>2, <2>3, <2>5, <2>6 DEF ReplyInv, AnswersNext, AnsweredBefore
<1>12. CASE DirectAnswer
  <2>1. /\ last \in Ids /\ AtWork /\ ~AtWork' /\ Len(reqCh) = 0 /\ ~Answering /\ ~Answering'
        /\ UNCHANGED <<cmds, reqCh, cur>> /\ Before(last)
    <3>1. AtWork /\ ~AtWork' /\ hpc = "answer" /\ UNCHANGED <<cmds, reqCh, cur, wpc>>
      BY <1>12 DEF DirectAnswer, AtWork
    <3> QED
      BY <1>2, <1>3, <1>4, <3>1 DEF AnsweredBefore, Answering
  <2>2. CASE open
    <3>1. replies' = Append(replies, last)
      BY <1>12, <2>2 DEF DirectAnswer, Reply
    <3> QED
      BY <1>0, <1>11, <2>1, <3>1
  <2>3. CASE ~open
    <3>1. replies' = replies
      BY <1>12, <2>3 DEF DirectAnswer, Reply
    <3> QED
      BY <1>5, <2>1, <3>1
  <2> QED
    BY <2>2, <2>3
<1>13. CASE WorkerBadCommand \/ WorkerAnswer
  <2>1. /\ Answering /\ ~Answering' /\ UNCHANGED <<cmds, reqCh, cur, hpc>>
        /\ replies' = replies \/ replies' = Append(replies, cur.id)
    <3>1. Answering /\ ~Answering'
      BY <1>13 DEF WorkerBadCommand, WorkerAnswer, Answering
    <3> QED
      BY <1>13, <3>1 DEF WorkerBadCommand, WorkerAnswer, Reply
  <2>2. /\ cur.id \in Ids /\ Before(cur.id) /\ cur.id <= last /\ (AtWork' => AtWork /\ cur.id < last)
        /\ \A k \in 1..Len(reqCh) : cur.id < reqCh[k].id
    BY <1>2, <1>3, <2>1 DEF AnswersNext, AnsweredBefore, AtWork
  <2>3. CASE replies' = replies
    BY <1>5, <2>1, <2>2, <2>3
  <2>4. CASE replies' = Append(replies, cur.id)
    BY <1>11, <2>1, <2>2, <2>4
  <2> QED
    BY <2>1, <2>3, <2>4
(* A new command: later than all the others; a fast response or a refusal  *)
(* is not an answer the client waits for.                                  *)
<1>14. ASSUME NEW c \in Commands, Process(c) PROVE ReplyInv'
  <2>1. /\ last' = last + 1 /\ last + 1 \in Ids /\ (Answering' => Answering) /\ UNCHANGED <<reqCh, cur>>
        /\ cmds' = Append(cmds, c)
    <3>1. (wpc' = wpc \/ wpc' = "recv") /\ Len(cmds') = Len(cmds) + 1 /\ Len(cmds) + 1 \in Ids /\ UNCHANGED <<reqCh, cur>>
      BY <1>14, ProcessMoves
    <3>2. cmds' = Append(cmds, c)
      BY <1>14 DEF Process
    <3> QED
      BY <3>1, <3>2 DEF last, Answering
  <2>2. \A j \in Ids : j <= last => cmds'[j] = cmds[j]
    BY <1>0, <2>1 DEF IndInv, TypeOK, Ids, last
  <2>3. cmds'[last + 1] = c
    BY <1>0, <2>1 DEF IndInv, TypeOK, last
  <2>4. \/ replies' = replies
        \/ replies' = Append(replies, last + 1) /\ (c.async \/ c.form = "refused")
    BY <1>14 DEF Process, Refuse, FastResponse, SendBehind, SendDirectly
  <2>5. \A r \in 1..Len(replies') :
           \/ r \in 1..Len(replies) /\ replies'[r] = replies[r] /\ replies[r] <= last
           \/ r = Len(replies) + 1 /\ replies'[r] = last + 1 /\ ~Waited(replies[r])'
    <3>1. CASE replies' = replies
      BY <1>3, <3>1 DEF AnsweredBefore
    <3>2. CASE replies' = Append(replies, last + 1) /\ (c.async \/ c.form = "refused")
      <4>1. /\ Len(replies') = Len(replies) + 1 /\ replies'[Len(replies) + 1] = last + 1
            /\ \A r \in 1..Len(replies) : replies'[r] = replies[r]
        BY <1>0, <2>1, <3>2
      <4>2. \A r \in 1..Len(replies') : r \in 1..Len(replies) \/ r = Len(replies) + 1
        BY <1>0, <4>1
      <4>3. \A r : replies'[r] = last + 1 => ~Waited(replies[r])'
        BY <2>3, <3>2 DEF Waited
      <4> QED
        BY <1>3, <4>1, <4>2, <4>3 DEF AnsweredBefore
    <3> QED
      BY <2>4, <3>1, <3>2
  <2>6. \A r \in 1..Len(replies') : Waited(replies[r])' =>
           r \in 1..Len(replies) /\ replies'[r] = replies[r] /\ replies[r] <= last /\ Waited(replies[r])
    BY <1>0, <2>2, <2>5 DEF Waited
  <2>7. \A x : Before(x) => Before(x)'
    BY <2>6 DEF Before
  <2>8. \A r \in 1..Len(replies') : replies'[r] <= last'
    BY <1>0, <2>1, <2>5 DEF Ids
  <2>9. Before(last)'
    <3>1. \A r \in 1..Len(replies') : Waited(replies[r])' => replies'[r] < last'
      BY <1>0, <2>1, <2>6 DEF Ids
    <3> QED
      BY <3>1 DEF Before
  <2>10. WaitedRepliesInOrder'
    <3> SUFFICES ASSUME NEW j \in 1..Len(replies'), NEW k \in 1..(j - 1), Waited(replies[k])', Waited(replies[j])'
                 PROVE  replies'[k] < replies'[j]
      BY DEF WaitedRepliesInOrder
    <3>1. Len(replies') \in Nat
      BY <1>0, <2>1, <2>4
    <3>2. j \in 1..Len(replies) /\ replies'[j] = replies[j] /\ Waited(replies[j])
      BY <2>6
    <3>3. k \in 1..Len(replies')
      BY <3>1
    <3>4. k \in 1..Len(replies) /\ replies'[k] = replies[k] /\ Waited(replies[k])
      BY <2>6, <3>3
    <3> QED
      BY <1>3, <3>2, <3>4 DEF WaitedRepliesInOrder
  <2>11. AnswersNext'
    <3>1. Answering' => cur.id \in Nat /\ cur.id <= last /\ \A k \in 1..Len(reqCh) : cur.id < reqCh[k].id
      BY <1>2, <1>3, <2>1 DEF AnswersNext
    <3>2. Answering' => cur.id < last'
      BY <1>0, <2>1, <3>1
    <3>3. Answering' => cur.id <= last'
      BY <1>0, <2>1, <3>1
    <3> QED
      BY <2>1, <3>1, <3>2, <3>3 DEF AnswersNext
  <2>12. AnsweredBefore'
    <3>1. (Answering => Before(cur.id)) /\ \A k \in 1..Len(reqCh) : Before(reqCh[k].id)
      BY <1>3 DEF AnsweredBefore
    <3>2. \A x : Before(x) => \A r \in 1..Len(replies') : Waited(replies[r])' => replies'[r] < x
      BY <2>7 DEF Before
    <3>3. (Answering' => Before(cur.id)') /\ \A k \in 1..Len(reqCh') : Before(reqCh[k].id)'
      BY <2>1, <3>1, <3>2 DEF Before
    <3> QED
      BY <2>8, <2>9, <3>3 DEF AnsweredBefore
  <2> QED
    BY <2>10, <2>11, <2>12 DEF ReplyInv
<1> QED
  BY <1>6, <1>7, <1>8, <1>9, <1>10, <1>12, <1>13, <1>14 DEF Next, Handler, Worker

(* The commands the client waits for are answered in the order they were   *)
(* issued, whether process() or sendWorker() answers them.                 *)
THEOREM AnswersInOrder == Spec => []WaitedRepliesInOrder
<1>1. Init => ReplyInv
  <2> SUFFICES ASSUME Init PROVE ReplyInv
    OBVIOUS
  <2>1. Len(replies) = 0 /\ Len(reqCh) = 0 /\ ~AtWork /\ ~Answering
    BY DEF Init, AtWork, Answering
  <2> QED
    BY <2>1 DEF ReplyInv, AnswersNext, AnsweredBefore, WaitedRepliesInOrder
<1>2. IndInv /\ ReplyInv /\ [Next]_vars => ReplyInv'
  <2>1. ASSUME ReplyInv, UNCHANGED vars PROVE ReplyInv'
    BY <2>1 DEF vars, last, ReplyInv, AnswersNext, AnsweredBefore, WaitedRepliesInOrder, Before, Waited, AtWork, Answering
  <2> QED
    BY <2>1, ReplyStep
<1>3. ReplyInv => WaitedRepliesInOrder
  BY DEF ReplyInv
<1> QED
  BY <1>1, <1>2, <1>3, Invariance, PTL DEF Spec

=============================================================================
