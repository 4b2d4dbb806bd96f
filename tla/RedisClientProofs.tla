------------------------- MODULE RedisClientProofs -------------------------
(***************************************************************************)
(* Proofs about RedisClient, for every value of its constants: any number  *)
(* of requests, of dials and of faults, any capacity of the channels.      *)
(***************************************************************************)
EXTENDS RedisClient, TLAPS

(* Where requestListener is when it works on hand[RL].                     *)
Sending == {"database", "changer", "loadNil", "pushNil", "resp", "reconnect",
            "rewrite", "load", "push"}
Handling == Sending \cup {"write", "ko"}
Returns == {"select", "ko", "reconnect", "gone", "exiting", "closing", "off"}
InDisconnect == {"lock", "purge", "closeQueue"}

(* Everything in requestChan was issued, and so was what RL works on.      *)
ChannelKnown == \A k \in 1..Len(requestChan) : requestChan[k] <= Len(reqs)
HandIssued ==
    /\ hand[RL] <= Len(reqs)
    /\ pc[RL] \in Handling => hand[RL] # Nil
    /\ pc[RL] \in InDisconnect /\ ret[RL] \in {"ko", "reconnect"} => hand[RL] # Nil

(* RL writes only after a dial, and connect() is called only when the      *)
(* client is not connected.                                                *)
DialledBeforeWrite ==
    /\ connected => rw # 0
    /\ pc[RL] \in Sending => rw # 0
    /\ pc[RL] \in InDisconnect /\ ret[RL] = "reconnect" => rw # 0
    /\ pc[RL] \in {"start", "reconnect"} => ~connected

(* The mutex is held exactly by the goroutine inside disconnect(); when it *)
(* is free, being connected and having a queue are the same.               *)
MutexHeld ==
    /\ OneDisconnects
    /\ lock # Nobody => pc[lock] \in {"purge", "closeQueue"}
    /\ lock = Nobody => (connected <=> queueChan # Nil)
    /\ \A t \in Threads : ret[t] \in Returns

(* The queue in use is that of the last dial; the others are closed.       *)
QueueInUse ==
    /\ queueChan \in {Nil, rw}
    /\ QueuesClosedOnce
    /\ \A g \in Connections : g > rw => ~closed[g]

IndInv == TypeOK /\ ChannelKnown /\ HandIssued /\ DialledBeforeWrite /\ MutexHeld /\ QueueInUse

-----------------------------------------------------------------------------
(* A new client is in the invariant.                                       *)
LEMMA InitInd == Init => IndInv
<1> SUFFICES ASSUME Init PROVE IndInv
  OBVIOUS
<1> USE ClientAssumption DEF Init, Ids, Connections, Threads, RL, Nil, Nobody
<1>1. TypeOK
  <2>1. FieldTypes
    <3>1. ready \in BOOLEAN /\ connected \in BOOLEAN /\ smart \in BOOLEAN
      OBVIOUS
    <3>2. failures \in 0..(FailureLimit + 1) /\ netConn \in 0..MaxConns
      OBVIOUS
    <3>3. rw \in 0..MaxConns /\ database \in Nat
      OBVIOUS
    <3> QED
      BY <3>1, <3>2, <3>3 DEF FieldTypes
  <2>2. ChannelTypes
    BY DEF ChannelTypes
  <2>3. ThreadTypes
    BY DEF ThreadTypes, Labels
  <2>4. NetworkTypes
    BY DEF NetworkTypes
  <2>5. HistoryTypes
    BY DEF HistoryTypes
  <2> QED
    BY <2>1, <2>2, <2>3, <2>4, <2>5 DEF TypeOK
<1>2. ChannelKnown /\ HandIssued
  BY DEF ChannelKnown, HandIssued, Handling, Sending, InDisconnect
<1>3. DialledBeforeWrite
  BY DEF DialledBeforeWrite, Sending, InDisconnect
<1>4. MutexHeld
  BY DEF MutexHeld, OneDisconnects, Returns
<1>5. QueueInUse
  BY DEF QueueInUse, QueuesClosedOnce
<1> QED
  BY <1>1, <1>2, <1>3, <1>4, <1>5 DEF IndInv

(* What RL works on was issued, so it has a database.                      *)
LEMMA HandKnown ==
    ASSUME IndInv, pc[RL] \in Handling
    PROVE  hand[RL] \in Ids /\ hand[RL] \in 1..Len(reqs) /\ reqs[hand[RL]] \in Inputs
           /\ reqs[hand[RL]].db \in Nat
<1>1. hand[RL] \in Ids /\ hand[RL] \in 1..Len(reqs)
  BY ClientAssumption DEF IndInv, TypeOK, ThreadTypes, HistoryTypes, HandIssued, Threads, RL, Nil, Ids
<1>2. reqs[hand[RL]] \in Inputs
  BY <1>1 DEF IndInv, TypeOK, HistoryTypes
<1> QED
  BY <1>1, <1>2, ClientAssumption

(* The queue that disconnect() purges is there.                            *)
LEMMA QueueThere ==
    ASSUME IndInv, NEW t \in Threads, pc[t] \in {"purge", "closeQueue"}
    PROVE  queueChan \in Connections
  BY ClientAssumption DEF IndInv, TypeOK, ChannelTypes, MutexHeld, OneDisconnects, Connections, Nil

(* Writing an answer keeps the history well formed.                        *)
LEMMA AnsweredType ==
    ASSUME HistoryTypes, NEW i, NEW a \in -1..MaxRequests
    PROVE  Answered(i, a) \in [Ids -> Seq(-1..MaxRequests)]
<1>1. CASE i \in Ids
  <2>1. Append(answers[i], a) \in Seq(-1..MaxRequests)
    BY <1>1 DEF HistoryTypes
  <2> QED
    BY <1>1, <2>1 DEF HistoryTypes, Answered
<1>2. CASE i \notin Ids
  BY <1>2 DEF HistoryTypes, Answered
<1> QED
  BY <1>1, <1>2

(* A write adds at most one answer to those under way.                     *)
LEMMA DeliveredType ==
    ASSUME IndInv, rw \in Connections, NEW e \in 0..MaxRequests
    PROVE  Delivered(e) \in [Connections -> Seq(0..MaxRequests)]
<1>1. Append(wire[rw], e) \in Seq(0..MaxRequests)
  BY DEF IndInv, TypeOK, NetworkTypes
<1> QED
  BY <1>1 DEF IndInv, TypeOK, NetworkTypes, Delivered

(* Every step keeps the types of the fields of the client.                 *)
LEMMA FieldStep == ASSUME IndInv, [Next]_vars PROVE FieldTypes'
<1> USE ClientAssumption DEF IndInv, TypeOK, FieldTypes, Ids, Connections, Threads, RL, Nil, Nobody, Marker, KO
<1>1. ASSUME NEW yes \in Labels, NEW no \in Labels, Connect(yes, no) PROVE FieldTypes'
  <2>1. CASE Dialled(yes)
    BY <1>1, <2>1 DEF Connect, Dialled, Labels, fields
  <2>2. CASE NotDialled(no)
    <3>1. UNCHANGED <<connected, smart, rw, database>>
      BY <1>1, <2>2 DEF Connect, NotDialled
    <3>2. ready' \in BOOLEAN
      BY <2>2 DEF NotDialled
    <3>3. failures' \in 0..(FailureLimit + 1) /\ netConn' \in 0..MaxConns
      BY <2>2 DEF NotDialled
    <3>4. failAge' \in {"fresh", "recent", "old"}
      BY <2>2 DEF NotDialled
    <3> QED
      BY <3>1, <3>2, <3>3, <3>4
  <2> QED
    BY <1>1, <2>1, <2>2 DEF Connect
<1>2. CASE Start \/ WriteConnects \/ Reconnect
  BY <1>1, <1>2 DEF Start, WriteConnects, Reconnect, Labels
<1>3. ASSUME ChooseDatabase PROVE FieldTypes'
  <2>1. database' \in Nat
    BY <1>3, HandKnown DEF ChooseDatabase, Handling, Sending
  <2>2. UNCHANGED <<ready, connected, smart, failures, failAge, netConn, rw>>
    BY <1>3 DEF ChooseDatabase
  <2> QED
    BY <2>1, <2>2
<1>4. ASSUME ChangeDB PROVE FieldTypes'
  <2>1. database' \in Nat
    BY <1>4, HandKnown DEF ChangeDB, Handling, Sending
  <2>2. UNCHANGED <<ready, connected, smart, failures, failAge, netConn, rw>>
    BY <1>4 DEF ChangeDB
  <2> QED
    BY <2>1, <2>2
<1>5. ASSUME NEW t \in Threads, Lock(t) PROVE FieldTypes'
  <2>1. database' \in Nat
    BY <1>5 DEF Lock
  <2>2. connected' \in BOOLEAN
    BY <1>5 DEF Lock
  <2>3. UNCHANGED <<ready, smart, failures, failAge, netConn, rw>>
    BY <1>5 DEF Lock
  <2> QED
    BY <2>1, <2>2, <2>3
<1>6. ASSUME NEW t \in Threads, CloseQueue(t) PROVE FieldTypes'
  BY <1>6 DEF CloseQueue
<1>7. ASSUME NEW g \in Connections, Closing(g) PROVE FieldTypes'
  BY <1>7 DEF Closing
<1>8. ASSUME NEW m \in Modes, Reload(m) PROVE FieldTypes'
  BY <1>8 DEF Reload
<1>9. ASSUME Exit PROVE FieldTypes'
  BY <1>9 DEF Exit
<1>10. ASSUME Elapse PROVE FieldTypes'
  BY <1>10 DEF Elapse
<1>11. CASE
          \/ Receive \/ Finish \/ WriteConnected \/ WriteResp \/ Load \/ Push \/ WriteFailed \/ Idle \/ WriteEOF
          \/ \E t \in Threads : Purge(t) \/ Purged(t)
          \/ \E g \in Connections : Recv(g) \/ Drained(g) \/ ReadReply(g) \/ ReadError(g) \/ Exiting(g) \/ Break(g)
          \/ \E r \in Inputs : Send(r)
  <2>1. UNCHANGED fields
    BY <1>11 DEF Receive, Finish, WriteConnected, WriteResp, Load, Push, WriteFailed, Idle, WriteEOF, Purge, Purged, Recv, Drained, ReadReply, ReadError, Exiting, Break, Send, fields
  <2> QED
    BY <2>1 DEF fields
<1>12. CASE UNCHANGED vars
  BY <1>12 DEF vars, fields
<1> QED
  BY <1>1, <1>2, <1>3, <1>4, <1>5, <1>6, <1>7, <1>8, <1>9, <1>10, <1>11, <1>12
     DEF Next, RequestListener, RedisListener, Disconnect

(* Every step keeps the channels within their capacity.                    *)
LEMMA ChannelStep == ASSUME IndInv, [Next]_vars PROVE ChannelTypes'
<1> USE ClientAssumption DEF IndInv, TypeOK, ChannelTypes, Ids, Connections, Threads, RL, Nil, Nobody, Marker, KO
<1>1. ASSUME NEW yes \in Labels, NEW no \in Labels, Connect(yes, no) PROVE ChannelTypes'
  <2>1. CASE Dialled(yes)
    <3>1. UNCHANGED <<requestChan, open, queue, closed, lock>>
      BY <1>1 DEF Connect
    <3>2. queueChan' \in 0..MaxConns
      BY <2>1 DEF Dialled, FieldTypes
    <3> QED
      BY <3>1, <3>2
  <2>2. CASE NotDialled(no)
    BY <1>1, <2>2 DEF Connect, NotDialled, Goto, Labels, chans
  <2> QED
    BY <1>1, <2>1, <2>2 DEF Connect
<1>2. CASE Start \/ WriteConnects \/ Reconnect
  BY <1>1, <1>2 DEF Start, WriteConnects, Reconnect, Labels
<1>3. ASSUME Receive PROVE ChannelTypes'
  BY <1>3 DEF Receive
<1>4. ASSUME Push PROVE ChannelTypes'
  <2>1. UNCHANGED <<requestChan, open, queueChan, closed, lock>>
    BY <1>4 DEF Push
  <2>2. CASE closed[slot]
    BY <1>4, <2>1, <2>2 DEF Push
  <2>3. CASE ~closed[slot]
    <3>1. slot \in Connections /\ hand[RL] \in 0..MaxRequests
      BY <1>4 DEF Push, ThreadTypes
    <3> DEFINE e == IF pc[RL] = "push" THEN hand[RL] ELSE Marker
    <3>2. e \in 0..MaxRequests
      BY <3>1
    <3>3. Len(queue[slot]) < BufferSize /\ queue' = [queue EXCEPT ![slot] = Append(@, e)]
      BY <1>4, <2>3 DEF Push
    <3>4. Append(queue[slot], e) \in Seq(0..MaxRequests)
          /\ Len(Append(queue[slot], e)) <= BufferSize
      BY <3>1, <3>2, <3>3
    <3> HIDE DEF e
    <3> QED
      BY <2>1, <3>1, <3>3, <3>4
  <2> QED
    BY <2>2, <2>3
<1>5. ASSUME NEW t \in Threads, Lock(t) PROVE ChannelTypes'
  BY <1>5 DEF Lock
<1>6. ASSUME NEW t \in Threads, Purge(t) PROVE ChannelTypes'
  <2>1. UNCHANGED <<requestChan, open, queueChan, closed, lock>>
    BY <1>6 DEF Purge
  <2>2. queueChan \in Connections
    BY <1>6, QueueThere DEF Purge
  <2>3. queue[queueChan] # <<>> /\ queue' = [queue EXCEPT ![queueChan] = Tail(@)]
    BY <1>6 DEF Purge
  <2>4. Tail(queue[queueChan]) \in Seq(0..MaxRequests)
        /\ Len(Tail(queue[queueChan])) <= BufferSize
    BY <2>2, <2>3
  <2> QED
    BY <2>1, <2>2, <2>3, <2>4
<1>7. ASSUME NEW t \in Threads, CloseQueue(t) PROVE ChannelTypes'
  <2>1. UNCHANGED <<requestChan, open, queue>>
    BY <1>7 DEF CloseQueue
  <2>2. closed' \in [Connections -> BOOLEAN]
    BY <1>7 DEF CloseQueue
  <2>3. queueChan' \in 0..MaxConns /\ lock' \in Threads \cup {Nobody}
    BY <1>7 DEF CloseQueue
  <2> QED
    BY <2>1, <2>2, <2>3
<1>8. ASSUME NEW g \in Connections, Recv(g) PROVE ChannelTypes'
  BY <1>8 DEF Recv
<1>9. ASSUME NEW r \in Inputs, Send(r) PROVE ChannelTypes'
  <2>1. UNCHANGED <<open, queueChan, queue, closed, lock>>
    BY <1>9 DEF Send
  <2>2. CASE Accepts
    <3>1. Len(reqs) + 1 \in Ids
      BY <1>9 DEF Send, HistoryTypes
    <3>2. Len(requestChan) # BufferSize /\ requestChan' = Append(requestChan, Len(reqs) + 1)
      BY <1>9, <2>2 DEF Send, Accepts
    <3> QED
      BY <2>1, <3>1, <3>2
  <2>3. CASE ~Accepts
    BY <1>9, <2>1, <2>3 DEF Send
  <2> QED
    BY <2>2, <2>3
<1>10. ASSUME Exit PROVE ChannelTypes'
  BY <1>10 DEF Exit
<1>11. CASE
          \/ Finish \/ WriteConnected \/ ChooseDatabase \/ ChangeDB \/ WriteResp \/ Load \/ WriteFailed \/ Idle \/ WriteEOF \/ Elapse
          \/ \E t \in Threads : Purged(t)
          \/ \E g \in Connections : Drained(g) \/ ReadReply(g) \/ ReadError(g) \/ Exiting(g) \/ Closing(g) \/ Break(g)
          \/ \E m \in Modes : Reload(m)
  <2>1. UNCHANGED chans
    BY <1>11 DEF Finish, WriteConnected, ChooseDatabase, ChangeDB, WriteResp, Load, WriteFailed, Idle, WriteEOF, Purged, Drained, ReadReply, ReadError, Exiting, Closing, Break, Reload, Elapse, chans
  <2> QED
    BY <2>1 DEF chans
<1>12. CASE UNCHANGED vars
  BY <1>12 DEF vars, chans
<1> QED
  BY <1>1, <1>2, <1>3, <1>4, <1>5, <1>6, <1>7, <1>8, <1>9, <1>10, <1>11, <1>12
     DEF Next, RequestListener, RedisListener, Disconnect

(* Every step leads a goroutine to a known place.                          *)
LEMMA ThreadStep == ASSUME IndInv, [Next]_vars PROVE ThreadTypes'
<1> USE ClientAssumption DEF IndInv, TypeOK, ThreadTypes, Ids, Connections, Threads, RL, Nil, Nobody, Marker, KO
<1>1. ASSUME NEW yes \in Labels, NEW no \in Labels, Connect(yes, no) PROVE ThreadTypes'
  <2>1. CASE Dialled(yes)
    BY <1>1, <2>1 DEF Connect, Dialled, Labels, threads
  <2>2. CASE NotDialled(no)
    BY <1>1, <2>2 DEF Connect, NotDialled, Goto, Labels, threads
  <2> QED
    BY <1>1, <2>1, <2>2 DEF Connect
<1>2. CASE Start \/ WriteConnects \/ Reconnect
  BY <1>1, <1>2 DEF Start, WriteConnects, Reconnect, Labels
<1>3. ASSUME Receive PROVE ThreadTypes'
  <2>1. Head(requestChan) \in 0..MaxRequests
    BY <1>3 DEF Receive, ChannelTypes
  <2> QED
    BY <1>3, <2>1 DEF Receive, Goto, Labels
<1>4. ASSUME Finish PROVE ThreadTypes'
  BY <1>4 DEF Finish, Goto, CallDisconnect, Labels
<1>5. ASSUME WriteConnected PROVE ThreadTypes'
  BY <1>5 DEF WriteConnected, Goto, CallDisconnect, Labels
<1>6. ASSUME ChooseDatabase PROVE ThreadTypes'
  BY <1>6 DEF ChooseDatabase, Goto, CallDisconnect, Labels
<1>7. ASSUME ChangeDB PROVE ThreadTypes'
  BY <1>7 DEF ChangeDB, Goto, CallDisconnect, Labels
<1>8. ASSUME WriteResp PROVE ThreadTypes'
  BY <1>8 DEF WriteResp, Goto, CallDisconnect, Labels
<1>9. ASSUME Load PROVE ThreadTypes'
  <2>1. slot' \in 0..MaxConns
    BY <1>9 DEF Load, ChannelTypes
  <2> QED
    BY <1>9, <2>1 DEF Load, Goto, Labels
<1>10. ASSUME Push PROVE ThreadTypes'
  BY <1>10 DEF Push, Goto, CallDisconnect, Labels
<1>11. ASSUME WriteFailed PROVE ThreadTypes'
  BY <1>11 DEF WriteFailed, Goto, CallDisconnect, Labels
<1>12. ASSUME Idle PROVE ThreadTypes'
  BY <1>12 DEF Idle, Goto, CallDisconnect, Labels
<1>13. ASSUME WriteEOF PROVE ThreadTypes'
  BY <1>13 DEF WriteEOF, Goto, CallDisconnect, Labels
<1>14. ASSUME NEW t \in Threads, Lock(t) PROVE ThreadTypes'
  BY <1>14 DEF Lock, Goto, CallDisconnect, Labels
<1>15. ASSUME NEW t \in Threads, Purge(t) PROVE ThreadTypes'
  BY <1>15 DEF Purge, Goto, CallDisconnect, Labels
<1>16. ASSUME NEW t \in Threads, Purged(t) PROVE ThreadTypes'
  BY <1>16 DEF Purged, Goto, CallDisconnect, Labels
<1>17. ASSUME NEW t \in Threads, CloseQueue(t) PROVE ThreadTypes'
  BY <1>17 DEF CloseQueue, Goto, CallDisconnect, Labels
<1>18. ASSUME NEW g \in Connections, Recv(g) PROVE ThreadTypes'
  <2>1. Head(queue[g]) \in 0..MaxRequests
    BY <1>18, SMTT(30) DEF Recv, ChannelTypes
  <2> QED
    BY <1>18, <2>1 DEF Recv, Goto, Labels
<1>19. ASSUME NEW g \in Connections, Drained(g) PROVE ThreadTypes'
  BY <1>19 DEF Drained, Goto, CallDisconnect, Labels
<1>20. ASSUME NEW g \in Connections, ReadReply(g) PROVE ThreadTypes'
  BY <1>20 DEF ReadReply, Goto, CallDisconnect, Labels
<1>21. ASSUME NEW g \in Connections, ReadError(g) PROVE ThreadTypes'
  BY <1>21 DEF ReadError, Goto, CallDisconnect, Labels
<1>22. ASSUME NEW g \in Connections, Exiting(g) PROVE ThreadTypes'
  BY <1>22 DEF Exiting, Goto, CallDisconnect, Labels
<1>23. ASSUME NEW g \in Connections, Closing(g) PROVE ThreadTypes'
  BY <1>23 DEF Closing, Goto, CallDisconnect, Labels
<1>24. CASE
          \/ Exit \/ Elapse
          \/ \E g \in Connections : Break(g)
          \/ \E r \in Inputs : Send(r)
          \/ \E m \in Modes : Reload(m)
  <2>1. UNCHANGED threads
    BY <1>24 DEF Break, Send, Reload, Exit, Elapse, threads
  <2> QED
    BY <2>1 DEF threads
<1>25. CASE UNCHANGED vars
  BY <1>25 DEF vars, threads
<1> QED
  BY <1>1, <1>2, <1>3, <1>4, <1>5, <1>6, <1>7, <1>8, <1>9, <1>10, <1>11, <1>12, <1>13, <1>14, <1>15, <1>16, <1>17, <1>18, <1>19, <1>20, <1>21, <1>22, <1>23, <1>24, <1>25
     DEF Next, RequestListener, RedisListener, Disconnect

(* Every step keeps the types of the connections.                          *)
LEMMA NetworkStep == ASSUME IndInv, [Next]_vars PROVE NetworkTypes'
<1> USE ClientAssumption DEF IndInv, TypeOK, NetworkTypes, Ids, Connections, Threads, RL, Nil, Nobody, Marker, KO
<1>1. ASSUME NEW yes \in Labels, NEW no \in Labels, Connect(yes, no) PROVE NetworkTypes'
  <2>1. CASE Dialled(yes)
    BY <1>1, <2>1 DEF Connect, Dialled, Labels, network
  <2>2. CASE NotDialled(no)
    BY <1>1, <2>2 DEF Connect, NotDialled, Goto, Labels, network
  <2> QED
    BY <1>1, <2>1, <2>2 DEF Connect
<1>2. CASE Start \/ WriteConnects \/ Reconnect
  BY <1>1, <1>2 DEF Start, WriteConnects, Reconnect, Labels
<1>3. ASSUME ChangeDB PROVE NetworkTypes'
  <2>1. reqs[hand[RL]].db \in Nat
    BY <1>3, HandKnown DEF ChangeDB, Handling, Sending
  <2>2. session' \in [Connections -> Nat]
    BY <1>3, <2>1 DEF ChangeDB
  <2>3. rw \in Connections /\ Marker \in 0..MaxRequests
    BY <1>3 DEF ChangeDB, DialledBeforeWrite, Sending, FieldTypes
  <2>4. wire' \in [Connections -> Seq(0..MaxRequests)] /\ UNCHANGED sock
    BY <1>3, <2>3, DeliveredType DEF ChangeDB
  <2> QED
    BY <2>2, <2>4
<1>4. ASSUME WriteResp PROVE NetworkTypes'
  <2>1. hand[RL] \in Ids /\ reqs[hand[RL]].db \in Nat
    BY <1>4, HandKnown DEF WriteResp, Handling, Sending
  <2>2. session' \in [Connections -> Nat]
    BY <1>4, <2>1 DEF WriteResp
  <2>3. rw \in Connections /\ hand[RL] \in 0..MaxRequests
    BY <1>4, <2>1 DEF WriteResp, DialledBeforeWrite, Sending, FieldTypes
  <2>4. wire' \in [Connections -> Seq(0..MaxRequests)] /\ UNCHANGED sock
    BY <1>4, <2>3, DeliveredType DEF WriteResp
  <2> QED
    BY <2>2, <2>4
<1>5. ASSUME NEW g \in Connections, ReadReply(g) PROVE NetworkTypes'
  BY <1>5, SMTT(30) DEF ReadReply, Answered, Delivered
<1>6. ASSUME NEW g \in Connections, ReadError(g) PROVE NetworkTypes'
  BY <1>6 DEF ReadError, Answered, Delivered
<1>7. ASSUME NEW g \in Connections, Closing(g) PROVE NetworkTypes'
  BY <1>7 DEF Closing, Answered, Delivered
<1>8. ASSUME NEW g \in Connections, Break(g) PROVE NetworkTypes'
  BY <1>8 DEF Break, Answered, Delivered
<1>9. CASE
          \/ Receive \/ Finish \/ WriteConnected \/ ChooseDatabase \/ Load \/ Push \/ WriteFailed \/ Idle \/ WriteEOF \/ Exit \/ Elapse
          \/ \E t \in Threads : Lock(t) \/ Purge(t) \/ Purged(t) \/ CloseQueue(t)
          \/ \E g \in Connections : Recv(g) \/ Drained(g) \/ Exiting(g)
          \/ \E r \in Inputs : Send(r)
          \/ \E m \in Modes : Reload(m)
  <2>1. UNCHANGED network
    BY <1>9 DEF Receive, Finish, WriteConnected, ChooseDatabase, Load, Push, WriteFailed, Idle, WriteEOF, Lock, Purge, Purged, CloseQueue, Recv, Drained, Exiting, Send, Reload, Exit, Elapse, network
  <2> QED
    BY <2>1 DEF network
<1>10. CASE UNCHANGED vars
  BY <1>10 DEF vars, network
<1> QED
  BY <1>1, <1>2, <1>3, <1>4, <1>5, <1>6, <1>7, <1>8, <1>9, <1>10
     DEF Next, RequestListener, RedisListener, Disconnect

(* Every step keeps the types of requests and answers.                     *)
LEMMA HistoryStep == ASSUME IndInv, [Next]_vars PROVE HistoryTypes'
<1> USE ClientAssumption DEF IndInv, TypeOK, HistoryTypes, Ids, Connections, Threads, RL, Nil, Nobody, Marker, KO
<1>1. ASSUME WriteResp PROVE HistoryTypes'
  <2>1. rw \in Connections
    BY <1>1 DEF WriteResp, DialledBeforeWrite, Sending, FieldTypes
  <2>2. session[rw] \in Nat
    BY <2>1 DEF NetworkTypes
  <2>3. ranIn' \in [Ids -> SUBSET Nat]
    <3>1. hand[RL] \in Ids
      BY <1>1, HandKnown DEF WriteResp, Handling, Sending
    <3>2. ranIn[hand[RL]] \cup {session[rw]} \in SUBSET Nat
      BY <2>2, <3>1
    <3> QED
      BY <1>1, <3>1, <3>2 DEF WriteResp
  <2>4. UNCHANGED <<reqs, answers>>
    BY <1>1 DEF WriteResp
  <2> QED
    BY <2>3, <2>4
<1>2. ASSUME WriteFailed PROVE HistoryTypes'
  <2>1. answers' \in [Ids -> Seq(-1..MaxRequests)]
    BY <1>2, AnsweredType DEF WriteFailed
  <2> QED
    BY <1>2, <2>1 DEF WriteFailed
<1>3. ASSUME NEW t \in Threads, Purge(t) PROVE HistoryTypes'
  <2>1. answers' \in [Ids -> Seq(-1..MaxRequests)]
    BY <1>3, AnsweredType DEF Purge
  <2> QED
    BY <1>3, <2>1 DEF Purge
<1>4. ASSUME NEW g \in Connections, ReadReply(g) PROVE HistoryTypes'
  <2>1. Head(wire[g]) \in -1..MaxRequests
    BY <1>4, SMTT(30) DEF ReadReply, NetworkTypes
  <2>2. answers' \in [Ids -> Seq(-1..MaxRequests)]
    BY <1>4, <2>1, AnsweredType DEF ReadReply
  <2> QED
    BY <1>4, <2>2 DEF ReadReply
<1>5. ASSUME NEW g \in Connections, ReadError(g) PROVE HistoryTypes'
  <2>1. answers' \in [Ids -> Seq(-1..MaxRequests)]
    BY <1>5, AnsweredType DEF ReadError
  <2> QED
    BY <1>5, <2>1 DEF ReadError
<1>6. ASSUME NEW r \in Inputs, Send(r) PROVE HistoryTypes'
  <2>1. reqs' \in Seq(Inputs) /\ Len(reqs') <= MaxRequests
    BY <1>6 DEF Send
  <2>2. Append(answers[Len(reqs) + 1], KO) \in Seq(-1..MaxRequests)
    BY <1>6 DEF Send
  <2>3. answers' \in [Ids -> Seq(-1..MaxRequests)]
    BY <1>6, <2>2 DEF Send
  <2> QED
    BY <1>6, <2>1, <2>3 DEF Send
<1>7. CASE
          \/ Start \/ Receive \/ Finish \/ WriteConnected \/ WriteConnects \/ ChooseDatabase \/ ChangeDB \/ Reconnect \/ Load \/ Push \/ Idle \/ WriteEOF \/ Exit \/ Elapse
          \/ \E t \in Threads : Lock(t) \/ Purged(t) \/ CloseQueue(t)
          \/ \E g \in Connections : Recv(g) \/ Drained(g) \/ Exiting(g) \/ Closing(g) \/ Break(g)
          \/ \E m \in Modes : Reload(m)
  <2>1. UNCHANGED history
    BY <1>7 DEF Start, Receive, Finish, WriteConnected, WriteConnects, ChooseDatabase, ChangeDB, Reconnect, Load, Push, Idle, WriteEOF, Lock, Purged, CloseQueue, Recv, Drained, Exiting, Closing, Break, Reload, Exit, Elapse, history, Connect
  <2> QED
    BY <2>1 DEF history
<1>8. CASE UNCHANGED vars
  BY <1>8 DEF vars, history
<1> QED
  BY <1>1, <1>2, <1>3, <1>4, <1>5, <1>6, <1>7, <1>8
     DEF Next, RequestListener, RedisListener, Disconnect

(* Only requests that were issued get into requestChan.                    *)
LEMMA ChannelKnownStep == ASSUME IndInv, panic = "none", Next, TypeOK' PROVE ChannelKnown'
<1> USE ClientAssumption DEF IndInv, ChannelKnown, Ids, Connections, Threads, RL, Nil, Nobody, Goto, CallDisconnect
<1>0. FieldTypes /\ ChannelTypes /\ ThreadTypes /\ HistoryTypes
  BY DEF TypeOK
<1>1. ASSUME NEW yes \in {"select", "database", "rewrite"},
             NEW no \in {"select", "ko", "rewrite"},
             pc[RL] \in {"start", "write", "reconnect"}, ~connected, Connect(yes, no),
             pc[RL] = "start" => yes = "select" /\ no = "select",
             no = "rewrite" => pc[RL] = "reconnect"
      PROVE  ChannelKnown'
  <2>1. CASE Dialled(yes)
    BY <1>0, <1>1, <2>1 DEF Connect, Dialled, Unlocked, FieldTypes, ChannelTypes, ThreadTypes, HistoryTypes, history
  <2>2. CASE NotDialled(no)
    BY <1>0, <1>1, <2>2 DEF Connect, NotDialled, Unlocked, FieldTypes, ChannelTypes, ThreadTypes, HistoryTypes, history
  <2> QED
    BY <1>1, <2>1, <2>2 DEF Connect
<1>2. CASE Start \/ WriteConnects \/ Reconnect
  BY <1>1, <1>2 DEF Start, WriteConnects, Reconnect, DialledBeforeWrite
<1>3. ASSUME Receive PROVE ChannelKnown'
  BY <1>0, <1>3 DEF Receive, FieldTypes, ChannelTypes, ThreadTypes, HistoryTypes, fields, chans, threads, history
<1>4. ASSUME Finish PROVE ChannelKnown'
  BY <1>0, <1>4 DEF Finish, FieldTypes, ChannelTypes, ThreadTypes, HistoryTypes, fields, chans, threads, history
<1>5. ASSUME WriteConnected PROVE ChannelKnown'
  BY <1>0, <1>5 DEF WriteConnected, FieldTypes, ChannelTypes, ThreadTypes, HistoryTypes, fields, chans, threads, history
<1>6. ASSUME ChooseDatabase PROVE ChannelKnown'
  BY <1>0, <1>6 DEF ChooseDatabase, FieldTypes, ChannelTypes, ThreadTypes, HistoryTypes, fields, chans, threads, history
<1>7. ASSUME ChangeDB PROVE ChannelKnown'
  BY <1>0, <1>7 DEF ChangeDB, FieldTypes, ChannelTypes, ThreadTypes, HistoryTypes, fields, chans, threads, history
<1>8. ASSUME WriteResp PROVE ChannelKnown'
  BY <1>0, <1>8 DEF WriteResp, FieldTypes, ChannelTypes, ThreadTypes, HistoryTypes, fields, chans, threads, history
<1>9. ASSUME Load PROVE ChannelKnown'
  BY <1>0, <1>9 DEF Load, FieldTypes, ChannelTypes, ThreadTypes, HistoryTypes, fields, chans, threads, history
<1>10. ASSUME Push PROVE ChannelKnown'
  BY <1>0, <1>10 DEF Push, FieldTypes, ChannelTypes, ThreadTypes, HistoryTypes, fields, chans, threads, history
<1>11. ASSUME WriteFailed PROVE ChannelKnown'
  BY <1>0, <1>11 DEF WriteFailed, FieldTypes, ChannelTypes, ThreadTypes, HistoryTypes, fields, chans, threads, history
<1>12. ASSUME Idle PROVE ChannelKnown'
  BY <1>0, <1>12 DEF Idle, FieldTypes, ChannelTypes, ThreadTypes, HistoryTypes, fields, chans, threads, history
<1>13. ASSUME WriteEOF PROVE ChannelKnown'
  BY <1>0, <1>13 DEF WriteEOF, FieldTypes, ChannelTypes, ThreadTypes, HistoryTypes, fields, chans, threads, history
<1>14. ASSUME NEW t \in Threads, Lock(t) PROVE ChannelKnown'
  BY <1>0, <1>14 DEF Lock, FieldTypes, ChannelTypes, ThreadTypes, HistoryTypes, Unlocked, fields, chans, threads, history
<1>15. ASSUME NEW t \in Threads, Purge(t) PROVE ChannelKnown'
  BY <1>0, <1>15 DEF Purge, FieldTypes, ChannelTypes, ThreadTypes, HistoryTypes, fields, chans, threads, history
<1>16. ASSUME NEW t \in Threads, Purged(t) PROVE ChannelKnown'
  BY <1>0, <1>16 DEF Purged, FieldTypes, ChannelTypes, ThreadTypes, HistoryTypes, fields, chans, threads, history
<1>17. ASSUME NEW t \in Threads, CloseQueue(t) PROVE ChannelKnown'
  BY <1>0, <1>17 DEF CloseQueue, FieldTypes, ChannelTypes, ThreadTypes, HistoryTypes, fields, chans, threads, history
<1>18. ASSUME NEW g \in Connections, Recv(g) PROVE ChannelKnown'
  BY <1>0, <1>18 DEF Recv, FieldTypes, ChannelTypes, ThreadTypes, HistoryTypes, fields, chans, threads, history
<1>19. ASSUME NEW g \in Connections, Drained(g) PROVE ChannelKnown'
  BY <1>0, <1>19 DEF Drained, FieldTypes, ChannelTypes, ThreadTypes, HistoryTypes, fields, chans, threads, history
<1>20. ASSUME NEW g \in Connections, ReadReply(g) PROVE ChannelKnown'
  BY <1>0, <1>20 DEF ReadReply, FieldTypes, ChannelTypes, ThreadTypes, HistoryTypes, fields, chans, threads, history
<1>21. ASSUME NEW g \in Connections, ReadError(g) PROVE ChannelKnown'
  BY <1>0, <1>21 DEF ReadError, FieldTypes, ChannelTypes, ThreadTypes, HistoryTypes, fields, chans, threads, history
<1>22. ASSUME NEW g \in Connections, Exiting(g) PROVE ChannelKnown'
  BY <1>0, <1>22 DEF Exiting, FieldTypes, ChannelTypes, ThreadTypes, HistoryTypes, fields, chans, threads, history
<1>23. ASSUME NEW g \in Connections, Closing(g) PROVE ChannelKnown'
  BY <1>0, <1>23 DEF Closing, FieldTypes, ChannelTypes, ThreadTypes, HistoryTypes, Unlocked, fields, chans, threads, history
<1>24. ASSUME NEW g \in Connections, Break(g) PROVE ChannelKnown'
  BY <1>0, <1>24 DEF Break, FieldTypes, ChannelTypes, ThreadTypes, HistoryTypes, fields, chans, threads, history
<1>25. ASSUME NEW r \in Inputs, Send(r) PROVE ChannelKnown'
  <2>1. CASE Accepts
    <3>1. requestChan' = Append(requestChan, Len(reqs) + 1) /\ Len(reqs') = Len(reqs) + 1
      BY <1>0, <1>25, <2>1 DEF Send, HistoryTypes
    <3>2. Len(requestChan') = Len(requestChan) + 1
          /\ \A j \in 1..Len(requestChan) : requestChan'[j] = requestChan[j]
      BY <1>0, <3>1 DEF ChannelTypes
    <3>3. requestChan'[Len(requestChan) + 1] = Len(reqs) + 1
      BY <1>0, <3>1 DEF ChannelTypes
    <3> QED
      BY <1>0, <3>1, <3>2, <3>3, SMTT(30) DEF ChannelTypes, HistoryTypes
  <2>2. CASE ~Accepts
    <3>1. requestChan' = requestChan /\ Len(reqs') = Len(reqs) + 1
      BY <1>0, <1>25, <2>2 DEF Send, HistoryTypes
    <3> QED
      BY <1>0, <3>1, SMTT(30) DEF ChannelTypes, HistoryTypes
  <2> QED
    BY <2>1, <2>2
<1>26. ASSUME NEW m \in Modes, Reload(m) PROVE ChannelKnown'
  BY <1>0, <1>26 DEF Reload, FieldTypes, ChannelTypes, ThreadTypes, HistoryTypes, Unlocked, fields, chans, threads, history
<1>27. ASSUME Exit PROVE ChannelKnown'
  BY <1>0, <1>27 DEF Exit, FieldTypes, ChannelTypes, ThreadTypes, HistoryTypes, Unlocked, fields, chans, threads, history
<1>28. ASSUME Elapse PROVE ChannelKnown'
  BY <1>0, <1>28 DEF Elapse, FieldTypes, ChannelTypes, ThreadTypes, HistoryTypes, fields, chans, threads, history
<1> QED
  BY <1>1, <1>2, <1>3, <1>4, <1>5, <1>6, <1>7, <1>8, <1>9, <1>10, <1>11, <1>12, <1>13, <1>14, <1>15, <1>16, <1>17, <1>18, <1>19, <1>20, <1>21, <1>22, <1>23, <1>24, <1>25, <1>26, <1>27, <1>28
     DEF Next, RequestListener, RedisListener, Disconnect

(* requestListener works on a request that was issued.                     *)
LEMMA HandIssuedStep == ASSUME IndInv, panic = "none", Next, TypeOK' PROVE HandIssued'
<1> USE ClientAssumption DEF IndInv, HandIssued, ChannelKnown, Handling, Sending, InDisconnect, Ids, MutexHeld, Returns, Connections, Threads, RL, Nil, Nobody, Goto, CallDisconnect
<1>0. FieldTypes /\ ChannelTypes /\ ThreadTypes /\ HistoryTypes
  BY DEF TypeOK
<1>1. ASSUME NEW yes \in {"select", "database", "rewrite"},
             NEW no \in {"select", "ko", "rewrite"},
             pc[RL] \in {"start", "write", "reconnect"}, ~connected, Connect(yes, no),
             pc[RL] = "start" => yes = "select" /\ no = "select",
             no = "rewrite" => pc[RL] = "reconnect"
      PROVE  HandIssued'
  <2>1. CASE Dialled(yes)
    BY <1>0, <1>1, <2>1 DEF Connect, Dialled, Unlocked, FieldTypes, ChannelTypes, ThreadTypes, HistoryTypes, history
  <2>2. CASE NotDialled(no)
    BY <1>0, <1>1, <2>2 DEF Connect, NotDialled, Unlocked, FieldTypes, ChannelTypes, ThreadTypes, HistoryTypes, history
  <2> QED
    BY <1>1, <2>1, <2>2 DEF Connect
<1>2. CASE Start \/ WriteConnects \/ Reconnect
  BY <1>1, <1>2 DEF Start, WriteConnects, Reconnect, DialledBeforeWrite
<1>3. ASSUME Receive PROVE HandIssued'
  BY <1>0, <1>3, SMTT(30) DEF Receive, FieldTypes, ChannelTypes, ThreadTypes, HistoryTypes, fields, chans, threads, history
<1>4. ASSUME Finish PROVE HandIssued'
  BY <1>0, <1>4 DEF Finish, FieldTypes, ChannelTypes, ThreadTypes, HistoryTypes, fields, chans, threads, history
<1>5. ASSUME WriteConnected PROVE HandIssued'
  BY <1>0, <1>5 DEF WriteConnected, FieldTypes, ChannelTypes, ThreadTypes, HistoryTypes, fields, chans, threads, history
<1>6. ASSUME ChooseDatabase PROVE HandIssued'
  BY <1>0, <1>6 DEF ChooseDatabase, FieldTypes, ChannelTypes, ThreadTypes, HistoryTypes, fields, chans, threads, history
<1>7. ASSUME ChangeDB PROVE HandIssued'
  BY <1>0, <1>7 DEF ChangeDB, FieldTypes, ChannelTypes, ThreadTypes, HistoryTypes, fields, chans, threads, history
<1>8. ASSUME WriteResp PROVE HandIssued'
  BY <1>0, <1>8 DEF WriteResp, FieldTypes, ChannelTypes, ThreadTypes, HistoryTypes, fields, chans, threads, history
<1>9. ASSUME Load PROVE HandIssued'
  BY <1>0, <1>9 DEF Load, FieldTypes, ChannelTypes, ThreadTypes, HistoryTypes, fields, chans, threads, history
<1>10. ASSUME Push PROVE HandIssued'
  BY <1>0, <1>10 DEF Push, FieldTypes, ChannelTypes, ThreadTypes, HistoryTypes, fields, chans, threads, history
<1>11. ASSUME WriteFailed PROVE HandIssued'
  BY <1>0, <1>11 DEF WriteFailed, FieldTypes, ChannelTypes, ThreadTypes, HistoryTypes, fields, chans, threads, history
<1>12. ASSUME Idle PROVE HandIssued'
  BY <1>0, <1>12 DEF Idle, FieldTypes, ChannelTypes, ThreadTypes, HistoryTypes, fields, chans, threads, history
<1>13. ASSUME WriteEOF PROVE HandIssued'
  BY <1>0, <1>13 DEF WriteEOF, FieldTypes, ChannelTypes, ThreadTypes, HistoryTypes, fields, chans, threads, history
<1>14. ASSUME NEW t \in Threads, Lock(t) PROVE HandIssued'
  <2> USE <1>0, <1>14 DEF Lock, Unlocked, ThreadTypes, history
  <2>1. CASE t = RL
    BY <2>1
  <2>2. CASE t # RL
    BY <2>2
  <2> QED
    BY <2>1, <2>2
<1>15. ASSUME NEW t \in Threads, Purge(t) PROVE HandIssued'
  BY <1>0, <1>15 DEF Purge, FieldTypes, ChannelTypes, ThreadTypes, HistoryTypes, fields, chans, threads, history
<1>16. ASSUME NEW t \in Threads, Purged(t) PROVE HandIssued'
  BY <1>0, <1>16 DEF Purged, FieldTypes, ChannelTypes, ThreadTypes, HistoryTypes, fields, chans, threads, history
<1>17. ASSUME NEW t \in Threads, CloseQueue(t) PROVE HandIssued'
  <2> USE <1>0, <1>17 DEF CloseQueue, Unlocked, ThreadTypes, history
  <2>1. CASE t = RL
    BY <2>1
  <2>2. CASE t # RL
    BY <2>2
  <2> QED
    BY <2>1, <2>2
<1>18. ASSUME NEW g \in Connections, Recv(g) PROVE HandIssued'
  BY <1>0, <1>18, SMTT(30) DEF Recv, FieldTypes, ChannelTypes, ThreadTypes, HistoryTypes, fields, chans, threads, history
<1>19. ASSUME NEW g \in Connections, Drained(g) PROVE HandIssued'
  BY <1>0, <1>19 DEF Drained, FieldTypes, ChannelTypes, ThreadTypes, HistoryTypes, fields, chans, threads, history
<1>20. ASSUME NEW g \in Connections, ReadReply(g) PROVE HandIssued'
  BY <1>0, <1>20 DEF ReadReply, FieldTypes, ChannelTypes, ThreadTypes, HistoryTypes, fields, chans, threads, history
<1>21. ASSUME NEW g \in Connections, ReadError(g) PROVE HandIssued'
  BY <1>0, <1>21 DEF ReadError, FieldTypes, ChannelTypes, ThreadTypes, HistoryTypes, fields, chans, threads, history
<1>22. ASSUME NEW g \in Connections, Exiting(g) PROVE HandIssued'
  BY <1>0, <1>22 DEF Exiting, FieldTypes, ChannelTypes, ThreadTypes, HistoryTypes, fields, chans, threads, history
<1>23. ASSUME NEW g \in Connections, Closing(g) PROVE HandIssued'
  BY <1>0, <1>23 DEF Closing, FieldTypes, ChannelTypes, ThreadTypes, HistoryTypes, Unlocked, fields, chans, threads, history
<1>24. ASSUME NEW g \in Connections, Break(g) PROVE HandIssued'
  BY <1>0, <1>24 DEF Break, FieldTypes, ChannelTypes, ThreadTypes, HistoryTypes, fields, chans, threads, history
<1>25. ASSUME NEW r \in Inputs, Send(r) PROVE HandIssued'
  BY <1>0, <1>25 DEF Send, FieldTypes, ChannelTypes, ThreadTypes, HistoryTypes, fields, chans, threads, history
<1>26. ASSUME NEW m \in Modes, Reload(m) PROVE HandIssued'
  BY <1>0, <1>26 DEF Reload, FieldTypes, ChannelTypes, ThreadTypes, HistoryTypes, Unlocked, fields, chans, threads, history
<1>27. ASSUME Exit PROVE HandIssued'
  BY <1>0, <1>27 DEF Exit, FieldTypes, ChannelTypes, ThreadTypes, HistoryTypes, Unlocked, fields, chans, threads, history
<1>28. ASSUME Elapse PROVE HandIssued'
  BY <1>0, <1>28 DEF Elapse, FieldTypes, ChannelTypes, ThreadTypes, HistoryTypes, fields, chans, threads, history
<1> QED
  BY <1>1, <1>2, <1>3, <1>4, <1>5, <1>6, <1>7, <1>8, <1>9, <1>10, <1>11, <1>12, <1>13, <1>14, <1>15, <1>16, <1>17, <1>18, <1>19, <1>20, <1>21, <1>22, <1>23, <1>24, <1>25, <1>26, <1>27, <1>28
     DEF Next, RequestListener, RedisListener, Disconnect

(* requestListener writes only after a dial.                               *)
LEMMA DialledBeforeWriteStep == ASSUME IndInv, panic = "none", Next, TypeOK' PROVE DialledBeforeWrite'
<1> USE ClientAssumption DEF IndInv, DialledBeforeWrite, Sending, InDisconnect, MutexHeld, OneDisconnects, Returns, Connections, Threads, RL, Nil, Nobody, Goto, CallDisconnect
<1>0. FieldTypes /\ ChannelTypes /\ ThreadTypes /\ HistoryTypes
  BY DEF TypeOK
<1>1. ASSUME NEW yes \in {"select", "database", "rewrite"},
             NEW no \in {"select", "ko", "rewrite"},
             pc[RL] \in {"start", "write", "reconnect"}, ~connected, Connect(yes, no),
             pc[RL] = "start" => yes = "select" /\ no = "select",
             no = "rewrite" => pc[RL] = "reconnect"
      PROVE  DialledBeforeWrite'
  <2>1. CASE Dialled(yes)
    BY <1>0, <1>1, <2>1 DEF Connect, Dialled, Unlocked, FieldTypes, ChannelTypes, ThreadTypes, HistoryTypes, history
  <2>2. CASE NotDialled(no)
    BY <1>0, <1>1, <2>2 DEF Connect, NotDialled, Unlocked, FieldTypes, ChannelTypes, ThreadTypes, HistoryTypes, history
  <2> QED
    BY <1>1, <2>1, <2>2 DEF Connect
<1>2. CASE Start \/ WriteConnects \/ Reconnect
  BY <1>1, <1>2 DEF Start, WriteConnects, Reconnect, DialledBeforeWrite
<1>3. ASSUME Receive PROVE DialledBeforeWrite'
  BY <1>0, <1>3 DEF Receive, FieldTypes, ChannelTypes, ThreadTypes, HistoryTypes, fields, chans, threads, history
<1>4. ASSUME Finish PROVE DialledBeforeWrite'
  BY <1>0, <1>4 DEF Finish, FieldTypes, ChannelTypes, ThreadTypes, HistoryTypes, fields, chans, threads, history
<1>5. ASSUME WriteConnected PROVE DialledBeforeWrite'
  BY <1>0, <1>5 DEF WriteConnected, FieldTypes, ChannelTypes, ThreadTypes, HistoryTypes, fields, chans, threads, history
<1>6. ASSUME ChooseDatabase PROVE DialledBeforeWrite'
  BY <1>0, <1>6 DEF ChooseDatabase, FieldTypes, ChannelTypes, ThreadTypes, HistoryTypes, fields, chans, threads, history
<1>7. ASSUME ChangeDB PROVE DialledBeforeWrite'
  BY <1>0, <1>7 DEF ChangeDB, FieldTypes, ChannelTypes, ThreadTypes, HistoryTypes, fields, chans, threads, history
<1>8. ASSUME WriteResp PROVE DialledBeforeWrite'
  BY <1>0, <1>8 DEF WriteResp, FieldTypes, ChannelTypes, ThreadTypes, HistoryTypes, fields, chans, threads, history
<1>9. ASSUME Load PROVE DialledBeforeWrite'
  BY <1>0, <1>9 DEF Load, FieldTypes, ChannelTypes, ThreadTypes, HistoryTypes, fields, chans, threads, history
<1>10. ASSUME Push PROVE DialledBeforeWrite'
  BY <1>0, <1>10 DEF Push, FieldTypes, ChannelTypes, ThreadTypes, HistoryTypes, fields, chans, threads, history
<1>11. ASSUME WriteFailed PROVE DialledBeforeWrite'
  BY <1>0, <1>11 DEF WriteFailed, FieldTypes, ChannelTypes, ThreadTypes, HistoryTypes, fields, chans, threads, history
<1>12. ASSUME Idle PROVE DialledBeforeWrite'
  BY <1>0, <1>12 DEF Idle, FieldTypes, ChannelTypes, ThreadTypes, HistoryTypes, fields, chans, threads, history
<1>13. ASSUME WriteEOF PROVE DialledBeforeWrite'
  BY <1>0, <1>13 DEF WriteEOF, FieldTypes, ChannelTypes, ThreadTypes, HistoryTypes, fields, chans, threads, history
<1>14. ASSUME NEW t \in Threads, Lock(t) PROVE DialledBeforeWrite'
  <2> USE <1>0, <1>14 DEF Lock, Unlocked, ThreadTypes, history
  <2>1. CASE t = RL
    BY <2>1
  <2>2. CASE t # RL
    BY <2>2
  <2> QED
    BY <2>1, <2>2
<1>15. ASSUME NEW t \in Threads, Purge(t) PROVE DialledBeforeWrite'
  BY <1>0, <1>15 DEF Purge, FieldTypes, ChannelTypes, ThreadTypes, HistoryTypes, fields, chans, threads, history
<1>16. ASSUME NEW t \in Threads, Purged(t) PROVE DialledBeforeWrite'
  BY <1>0, <1>16 DEF Purged, FieldTypes, ChannelTypes, ThreadTypes, HistoryTypes, fields, chans, threads, history
<1>17. ASSUME NEW t \in Threads, CloseQueue(t) PROVE DialledBeforeWrite'
  <2> USE <1>0, <1>17 DEF CloseQueue, Unlocked, ThreadTypes, history
  <2>1. CASE t = RL
    BY <2>1
  <2>2. CASE t # RL
    BY <2>2
  <2> QED
    BY <2>1, <2>2
<1>18. ASSUME NEW g \in Connections, Recv(g) PROVE DialledBeforeWrite'
  BY <1>0, <1>18 DEF Recv, FieldTypes, ChannelTypes, ThreadTypes, HistoryTypes, fields, chans, threads, history
<1>19. ASSUME NEW g \in Connections, Drained(g) PROVE DialledBeforeWrite'
  BY <1>0, <1>19 DEF Drained, FieldTypes, ChannelTypes, ThreadTypes, HistoryTypes, fields, chans, threads, history
<1>20. ASSUME NEW g \in Connections, ReadReply(g) PROVE DialledBeforeWrite'
  BY <1>0, <1>20 DEF ReadReply, FieldTypes, ChannelTypes, ThreadTypes, HistoryTypes, fields, chans, threads, history
<1>21. ASSUME NEW g \in Connections, ReadError(g) PROVE DialledBeforeWrite'
  BY <1>0, <1>21 DEF ReadError, FieldTypes, ChannelTypes, ThreadTypes, HistoryTypes, fields, chans, threads, history
<1>22. ASSUME NEW g \in Connections, Exiting(g) PROVE DialledBeforeWrite'
  BY <1>0, <1>22 DEF Exiting, FieldTypes, ChannelTypes, ThreadTypes, HistoryTypes, fields, chans, threads, history
<1>23. ASSUME NEW g \in Connections, Closing(g) PROVE DialledBeforeWrite'
  BY <1>0, <1>23 DEF Closing, FieldTypes, ChannelTypes, ThreadTypes, HistoryTypes, Unlocked, fields, chans, threads, history
<1>24. ASSUME NEW g \in Connections, Break(g) PROVE DialledBeforeWrite'
  BY <1>0, <1>24 DEF Break, FieldTypes, ChannelTypes, ThreadTypes, HistoryTypes, fields, chans, threads, history
<1>25. ASSUME NEW r \in Inputs, Send(r) PROVE DialledBeforeWrite'
  BY <1>0, <1>25 DEF Send, FieldTypes, ChannelTypes, ThreadTypes, HistoryTypes, fields, chans, threads, history
<1>26. ASSUME NEW m \in Modes, Reload(m) PROVE DialledBeforeWrite'
  BY <1>0, <1>26 DEF Reload, FieldTypes, ChannelTypes, ThreadTypes, HistoryTypes, Unlocked, fields, chans, threads, history
<1>27. ASSUME Exit PROVE DialledBeforeWrite'
  BY <1>0, <1>27 DEF Exit, FieldTypes, ChannelTypes, ThreadTypes, HistoryTypes, Unlocked, fields, chans, threads, history
<1>28. ASSUME Elapse PROVE DialledBeforeWrite'
  BY <1>0, <1>28 DEF Elapse, FieldTypes, ChannelTypes, ThreadTypes, HistoryTypes, fields, chans, threads, history
<1> QED
  BY <1>1, <1>2, <1>3, <1>4, <1>5, <1>6, <1>7, <1>8, <1>9, <1>10, <1>11, <1>12, <1>13, <1>14, <1>15, <1>16, <1>17, <1>18, <1>19, <1>20, <1>21, <1>22, <1>23, <1>24, <1>25, <1>26, <1>27, <1>28
     DEF Next, RequestListener, RedisListener, Disconnect

(* The mutex stays with the one goroutine that is in disconnect().         *)
LEMMA MutexHeldStep == ASSUME IndInv, panic = "none", Next, TypeOK' PROVE MutexHeld'
<1> USE ClientAssumption DEF IndInv, MutexHeld, OneDisconnects, Returns, QueueInUse, Connections, Threads, RL, Nil, Nobody, Goto, CallDisconnect
<1>0. FieldTypes /\ ChannelTypes /\ ThreadTypes /\ HistoryTypes
  BY DEF TypeOK
<1>1. ASSUME NEW yes \in {"select", "database", "rewrite"},
             NEW no \in {"select", "ko", "rewrite"},
             pc[RL] \in {"start", "write", "reconnect"}, ~connected, Connect(yes, no),
             pc[RL] = "start" => yes = "select" /\ no = "select",
             no = "rewrite" => pc[RL] = "reconnect"
      PROVE  MutexHeld'
  <2>1. CASE Dialled(yes)
    BY <1>0, <1>1, <2>1 DEF Connect, Dialled, Unlocked, FieldTypes, ChannelTypes, ThreadTypes, HistoryTypes, history
  <2>2. CASE NotDialled(no)
    BY <1>0, <1>1, <2>2 DEF Connect, NotDialled, Unlocked, FieldTypes, ChannelTypes, ThreadTypes, HistoryTypes, history
  <2> QED
    BY <1>1, <2>1, <2>2 DEF Connect
<1>2. CASE Start \/ WriteConnects \/ Reconnect
  BY <1>1, <1>2 DEF Start, WriteConnects, Reconnect, DialledBeforeWrite
<1>3. ASSUME Receive PROVE MutexHeld'
  BY <1>0, <1>3 DEF Receive, FieldTypes, ChannelTypes, ThreadTypes, HistoryTypes, fields, chans, threads, history
<1>4. ASSUME Finish PROVE MutexHeld'
  BY <1>0, <1>4 DEF Finish, FieldTypes, ChannelTypes, ThreadTypes, HistoryTypes, fields, chans, threads, history
<1>5. ASSUME WriteConnected PROVE MutexHeld'
  BY <1>0, <1>5 DEF WriteConnected, FieldTypes, ChannelTypes, ThreadTypes, HistoryTypes, fields, chans, threads, history
<1>6. ASSUME ChooseDatabase PROVE MutexHeld'
  BY <1>0, <1>6 DEF ChooseDatabase, FieldTypes, ChannelTypes, ThreadTypes, HistoryTypes, fields, chans, threads, history
<1>7. ASSUME ChangeDB PROVE MutexHeld'
  BY <1>0, <1>7 DEF ChangeDB, FieldTypes, ChannelTypes, ThreadTypes, HistoryTypes, fields, chans, threads, history
<1>8. ASSUME WriteResp PROVE MutexHeld'
  BY <1>0, <1>8 DEF WriteResp, FieldTypes, ChannelTypes, ThreadTypes, HistoryTypes, fields, chans, threads, history
<1>9. ASSUME Load PROVE MutexHeld'
  BY <1>0, <1>9 DEF Load, FieldTypes, ChannelTypes, ThreadTypes, HistoryTypes, fields, chans, threads, history
<1>10. ASSUME Push PROVE MutexHeld'
  BY <1>0, <1>10 DEF Push, FieldTypes, ChannelTypes, ThreadTypes, HistoryTypes, fields, chans, threads, history
<1>11. ASSUME WriteFailed PROVE MutexHeld'
  BY <1>0, <1>11 DEF WriteFailed, FieldTypes, ChannelTypes, ThreadTypes, HistoryTypes, fields, chans, threads, history
<1>12. ASSUME Idle PROVE MutexHeld'
  BY <1>0, <1>12 DEF Idle, FieldTypes, ChannelTypes, ThreadTypes, HistoryTypes, fields, chans, threads, history
<1>13. ASSUME WriteEOF PROVE MutexHeld'
  BY <1>0, <1>13 DEF WriteEOF, FieldTypes, ChannelTypes, ThreadTypes, HistoryTypes, fields, chans, threads, history
<1>14. ASSUME NEW t \in Threads, Lock(t) PROVE MutexHeld'
  <2> USE <1>0, <1>14 DEF Lock, Unlocked, ThreadTypes, history
  <2>1. CASE queueChan = Nil
    <3>1. lock' = Nobody /\ ~connected' /\ queueChan' = Nil
      BY <2>1
    <3>2. OneDisconnects'
      BY <2>1
    <3> QED
      BY <3>1, <3>2
  <2>2. CASE queueChan # Nil
    <3>1. lock' = t /\ ~connected' /\ queueChan' # Nil /\ pc'[t] = "purge"
      BY <2>2
    <3>2. OneDisconnects'
      BY <2>2, <3>1
    <3> QED
      BY <2>2, <3>1, <3>2
  <2> QED
    BY <2>1, <2>2
<1>15. ASSUME NEW t \in Threads, Purge(t) PROVE MutexHeld'
  BY <1>0, <1>15 DEF Purge, FieldTypes, ChannelTypes, ThreadTypes, HistoryTypes, fields, chans, threads, history
<1>16. ASSUME NEW t \in Threads, Purged(t) PROVE MutexHeld'
  BY <1>0, <1>16 DEF Purged, FieldTypes, ChannelTypes, ThreadTypes, HistoryTypes, fields, chans, threads, history
<1>17. ASSUME NEW t \in Threads, CloseQueue(t) PROVE MutexHeld'
  BY <1>0, <1>17 DEF CloseQueue, FieldTypes, ChannelTypes, ThreadTypes, HistoryTypes, fields, chans, threads, history
<1>18. ASSUME NEW g \in Connections, Recv(g) PROVE MutexHeld'
  BY <1>0, <1>18 DEF Recv, FieldTypes, ChannelTypes, ThreadTypes, HistoryTypes, fields, chans, threads, history
<1>19. ASSUME NEW g \in Connections, Drained(g) PROVE MutexHeld'
  BY <1>0, <1>19 DEF Drained, FieldTypes, ChannelTypes, ThreadTypes, HistoryTypes, fields, chans, threads, history
<1>20. ASSUME NEW g \in Connections, ReadReply(g) PROVE MutexHeld'
  BY <1>0, <1>20 DEF ReadReply, FieldTypes, ChannelTypes, ThreadTypes, HistoryTypes, fields, chans, threads, history
<1>21. ASSUME NEW g \in Connections, ReadError(g) PROVE MutexHeld'
  BY <1>0, <1>21 DEF ReadError, FieldTypes, ChannelTypes, ThreadTypes, HistoryTypes, fields, chans, threads, history
<1>22. ASSUME NEW g \in Connections, Exiting(g) PROVE MutexHeld'
  BY <1>0, <1>22 DEF Exiting, FieldTypes, ChannelTypes, ThreadTypes, HistoryTypes, fields, chans, threads, history
<1>23. ASSUME NEW g \in Connections, Closing(g) PROVE MutexHeld'
  BY <1>0, <1>23 DEF Closing, FieldTypes, ChannelTypes, ThreadTypes, HistoryTypes, Unlocked, fields, chans, threads, history
<1>24. ASSUME NEW g \in Connections, Break(g) PROVE MutexHeld'
  BY <1>0, <1>24 DEF Break, FieldTypes, ChannelTypes, ThreadTypes, HistoryTypes, fields, chans, threads, history
<1>25. ASSUME NEW r \in Inputs, Send(r) PROVE MutexHeld'
  BY <1>0, <1>25 DEF Send, FieldTypes, ChannelTypes, ThreadTypes, HistoryTypes, fields, chans, threads, history
<1>26. ASSUME NEW m \in Modes, Reload(m) PROVE MutexHeld'
  BY <1>0, <1>26 DEF Reload, FieldTypes, ChannelTypes, ThreadTypes, HistoryTypes, Unlocked, fields, chans, threads, history
<1>27. ASSUME Exit PROVE MutexHeld'
  BY <1>0, <1>27 DEF Exit, FieldTypes, ChannelTypes, ThreadTypes, HistoryTypes, Unlocked, fields, chans, threads, history
<1>28. ASSUME Elapse PROVE MutexHeld'
  BY <1>0, <1>28 DEF Elapse, FieldTypes, ChannelTypes, ThreadTypes, HistoryTypes, fields, chans, threads, history
<1> QED
  BY <1>1, <1>2, <1>3, <1>4, <1>5, <1>6, <1>7, <1>8, <1>9, <1>10, <1>11, <1>12, <1>13, <1>14, <1>15, <1>16, <1>17, <1>18, <1>19, <1>20, <1>21, <1>22, <1>23, <1>24, <1>25, <1>26, <1>27, <1>28
     DEF Next, RequestListener, RedisListener, Disconnect

(* The queue in use is that of the last dial; earlier ones are closed.     *)
LEMMA QueueInUseStep == ASSUME IndInv, panic = "none", Next, TypeOK' PROVE QueueInUse'
<1> USE ClientAssumption DEF IndInv, QueueInUse, QueuesClosedOnce, MutexHeld, OneDisconnects, DialledBeforeWrite, Connections, Threads, RL, Nil, Nobody, Goto, CallDisconnect
<1>0. FieldTypes /\ ChannelTypes /\ ThreadTypes /\ HistoryTypes
  BY DEF TypeOK
<1>1. ASSUME NEW yes \in {"select", "database", "rewrite"},
             NEW no \in {"select", "ko", "rewrite"},
             pc[RL] \in {"start", "write", "reconnect"}, ~connected, Connect(yes, no),
             pc[RL] = "start" => yes = "select" /\ no = "select",
             no = "rewrite" => pc[RL] = "reconnect"
      PROVE  QueueInUse'
  <2>1. CASE Dialled(yes)
    BY <1>0, <1>1, <2>1 DEF Connect, Dialled, Unlocked, FieldTypes, ChannelTypes, ThreadTypes, HistoryTypes, history
  <2>2. CASE NotDialled(no)
    BY <1>0, <1>1, <2>2 DEF Connect, NotDialled, Unlocked, FieldTypes, ChannelTypes, ThreadTypes, HistoryTypes, history
  <2> QED
    BY <1>1, <2>1, <2>2 DEF Connect
<1>2. CASE Start \/ WriteConnects \/ Reconnect
  BY <1>1, <1>2 DEF Start, WriteConnects, Reconnect, DialledBeforeWrite
<1>3. ASSUME Receive PROVE QueueInUse'
  BY <1>0, <1>3 DEF Receive, FieldTypes, ChannelTypes, ThreadTypes, HistoryTypes, fields, chans, threads, history
<1>4. ASSUME Finish PROVE QueueInUse'
  BY <1>0, <1>4 DEF Finish, FieldTypes, ChannelTypes, ThreadTypes, HistoryTypes, fields, chans, threads, history
<1>5. ASSUME WriteConnected PROVE QueueInUse'
  BY <1>0, <1>5 DEF WriteConnected, FieldTypes, ChannelTypes, ThreadTypes, HistoryTypes, fields, chans, threads, history
<1>6. ASSUME ChooseDatabase PROVE QueueInUse'
  BY <1>0, <1>6 DEF ChooseDatabase, FieldTypes, ChannelTypes, ThreadTypes, HistoryTypes, fields, chans, threads, history
<1>7. ASSUME ChangeDB PROVE QueueInUse'
  BY <1>0, <1>7 DEF ChangeDB, FieldTypes, ChannelTypes, ThreadTypes, HistoryTypes, fields, chans, threads, history
<1>8. ASSUME WriteResp PROVE QueueInUse'
  BY <1>0, <1>8 DEF WriteResp, FieldTypes, ChannelTypes, ThreadTypes, HistoryTypes, fields, chans, threads, history
<1>9. ASSUME Load PROVE QueueInUse'
  BY <1>0, <1>9 DEF Load, FieldTypes, ChannelTypes, ThreadTypes, HistoryTypes, fields, chans, threads, history
<1>10. ASSUME Push PROVE QueueInUse'
  BY <1>0, <1>10 DEF Push, FieldTypes, ChannelTypes, ThreadTypes, HistoryTypes, fields, chans, threads, history
<1>11. ASSUME WriteFailed PROVE QueueInUse'
  BY <1>0, <1>11 DEF WriteFailed, FieldTypes, ChannelTypes, ThreadTypes, HistoryTypes, fields, chans, threads, history
<1>12. ASSUME Idle PROVE QueueInUse'
  BY <1>0, <1>12 DEF Idle, FieldTypes, ChannelTypes, ThreadTypes, HistoryTypes, fields, chans, threads, history
<1>13. ASSUME WriteEOF PROVE QueueInUse'
  BY <1>0, <1>13 DEF WriteEOF, FieldTypes, ChannelTypes, ThreadTypes, HistoryTypes, fields, chans, threads, history
<1>14. ASSUME NEW t \in Threads, Lock(t) PROVE QueueInUse'
  BY <1>0, <1>14 DEF Lock, FieldTypes, ChannelTypes, ThreadTypes, HistoryTypes, Unlocked, fields, chans, threads, history
<1>15. ASSUME NEW t \in Threads, Purge(t) PROVE QueueInUse'
  BY <1>0, <1>15 DEF Purge, FieldTypes, ChannelTypes, ThreadTypes, HistoryTypes, fields, chans, threads, history
<1>16. ASSUME NEW t \in Threads, Purged(t) PROVE QueueInUse'
  BY <1>0, <1>16 DEF Purged, FieldTypes, ChannelTypes, ThreadTypes, HistoryTypes, fields, chans, threads, history
<1>17. ASSUME NEW t \in Threads, CloseQueue(t) PROVE QueueInUse'
  BY <1>0, <1>17 DEF CloseQueue, FieldTypes, ChannelTypes, ThreadTypes, HistoryTypes, fields, chans, threads, history
<1>18. ASSUME NEW g \in Connections, Recv(g) PROVE QueueInUse'
  BY <1>0, <1>18 DEF Recv, FieldTypes, ChannelTypes, ThreadTypes, HistoryTypes, fields, chans, threads, history
<1>19. ASSUME NEW g \in Connections, Drained(g) PROVE QueueInUse'
  BY <1>0, <1>19 DEF Drained, FieldTypes, ChannelTypes, ThreadTypes, HistoryTypes, fields, chans, threads, history
<1>20. ASSUME NEW g \in Connections, ReadReply(g) PROVE QueueInUse'
  BY <1>0, <1>20 DEF ReadReply, FieldTypes, ChannelTypes, ThreadTypes, HistoryTypes, fields, chans, threads, history
<1>21. ASSUME NEW g \in Connections, ReadError(g) PROVE QueueInUse'
  BY <1>0, <1>21 DEF ReadError, FieldTypes, ChannelTypes, ThreadTypes, HistoryTypes, fields, chans, threads, history
<1>22. ASSUME NEW g \in Connections, Exiting(g) PROVE QueueInUse'
  BY <1>0, <1>22 DEF Exiting, FieldTypes, ChannelTypes, ThreadTypes, HistoryTypes, fields, chans, threads, history
<1>23. ASSUME NEW g \in Connections, Closing(g) PROVE QueueInUse'
  BY <1>0, <1>23 DEF Closing, FieldTypes, ChannelTypes, ThreadTypes, HistoryTypes, Unlocked, fields, chans, threads, history
<1>24. ASSUME NEW g \in Connections, Break(g) PROVE QueueInUse'
  BY <1>0, <1>24 DEF Break, FieldTypes, ChannelTypes, ThreadTypes, HistoryTypes, fields, chans, threads, history
<1>25. ASSUME NEW r \in Inputs, Send(r) PROVE QueueInUse'
  BY <1>0, <1>25 DEF Send, FieldTypes, ChannelTypes, ThreadTypes, HistoryTypes, fields, chans, threads, history
<1>26. ASSUME NEW m \in Modes, Reload(m) PROVE QueueInUse'
  BY <1>0, <1>26 DEF Reload, FieldTypes, ChannelTypes, ThreadTypes, HistoryTypes, Unlocked, fields, chans, threads, history
<1>27. ASSUME Exit PROVE QueueInUse'
  BY <1>0, <1>27 DEF Exit, FieldTypes, ChannelTypes, ThreadTypes, HistoryTypes, Unlocked, fields, chans, threads, history
<1>28. ASSUME Elapse PROVE QueueInUse'
  BY <1>0, <1>28 DEF Elapse, FieldTypes, ChannelTypes, ThreadTypes, HistoryTypes, fields, chans, threads, history
<1> QED
  BY <1>1, <1>2, <1>3, <1>4, <1>5, <1>6, <1>7, <1>8, <1>9, <1>10, <1>11, <1>12, <1>13, <1>14, <1>15, <1>16, <1>17, <1>18, <1>19, <1>20, <1>21, <1>22, <1>23, <1>24, <1>25, <1>26, <1>27, <1>28
     DEF Next, RequestListener, RedisListener, Disconnect

-----------------------------------------------------------------------------
(* The invariant is inductive.                                             *)
LEMMA NextInd == IndInv /\ [Next]_vars => IndInv'
<1> SUFFICES ASSUME IndInv, [Next]_vars PROVE IndInv'
  OBVIOUS
<1>1. TypeOK'
  BY FieldStep, ChannelStep, ThreadStep, NetworkStep, HistoryStep DEF TypeOK
<1>2. CASE Next
  <2>1. panic = "none"
    BY <1>2 DEF Next
  <2> QED
    BY <1>1, <1>2, <2>1, ChannelKnownStep, HandIssuedStep, DialledBeforeWriteStep,
       MutexHeldStep, QueueInUseStep DEF IndInv
<1>3. CASE UNCHANGED vars
  BY <1>3 DEF vars, fields, chans, threads, network, history, IndInv, TypeOK, FieldTypes,
     ChannelTypes, ThreadTypes, NetworkTypes, HistoryTypes, ChannelKnown, HandIssued,
     DialledBeforeWrite, MutexHeld, OneDisconnects, QueueInUse, QueuesClosedOnce
<1> QED
  BY <1>2, <1>3

(* The inductive invariant holds in every reachable state of the client.   *)
THEOREM Invariance == Spec => []IndInv
  BY InitInd, NextInd, PTL DEF Spec

(* Every variable keeps its type: no index of connect(), write() or        *)
(* purgeRequests() leaves its range, no channel exceeds its capacity and   *)
(* the count of failed dials stops at the limit connect() checks.          *)
THEOREM TypeCorrect == Spec => []TypeOK
<1>1. IndInv => TypeOK
  BY DEF IndInv
<1> QED
  BY <1>1, Invariance, PTL

(* disconnect() runs in one goroutine at a time and works on one queue.    *)
THEOREM MutualExclusion == Spec => []OneDisconnects
<1>1. IndInv => OneDisconnects
  BY DEF IndInv, MutexHeld
<1> QED
  BY <1>1, Invariance, PTL

(* Whatever the interleaving of connect(), disconnect() and close(), no    *)
(* queue is closed twice and every superseded one has been closed.         *)
THEOREM QueueDiscipline == Spec => []QueuesClosedOnce
<1>1. IndInv => QueuesClosedOnce
  BY DEF IndInv, QueueInUse
<1> QED
  BY <1>1, Invariance, PTL

-----------------------------------------------------------------------------
(* A request is in one place at a time.  Requests leave requestChan in the *)
(* order they were issued, so that what requestListener works on is later  *)
(* than what it has queued and earlier than what it has still to take.     *)
Works == pc[RL] \in Handling \/ (pc[RL] \in InDisconnect /\ ret[RL] \in {"ko", "reconnect"})
Waiting(i) == \E k \in 1..Len(requestChan) : requestChan[k] = i
Queued(i) == \E g \in Connections : \E k \in 1..Len(queue[g]) : queue[g][k] = i
Reading(g, i) == pc[g] = "read" /\ hand[g] = i

Rising ==
    /\ \A j, k \in 1..Len(requestChan) : j < k => requestChan[j] < requestChan[k]
    /\ \A k \in 1..Len(requestChan) : hand[RL] < requestChan[k]
    /\ \A i \in Ids : Queued(i) \/ (\E g \in Connections : Reading(g, i)) =>
          i <= hand[RL] /\ (Works => i # hand[RL])
OnePlace ==
    /\ \A g, h \in Connections : \A j \in 1..Len(queue[g]), k \in 1..Len(queue[h]) :
          queue[g][j] = queue[h][k] /\ queue[g][j] # Marker => g = h /\ j = k
    /\ \A i \in Ids : \A g, h \in Connections : Reading(g, i) /\ Reading(h, i) => g = h
    /\ \A i \in Ids : \A g \in Connections : Reading(g, i) => ~Queued(i)
Unanswered ==
    \A i \in Ids :
        \/ i > Len(reqs) \/ Waiting(i) \/ (Works /\ hand[RL] = i) \/ Queued(i)
        \/ \E g \in Connections : Reading(g, i)
      => answers[i] = <<>>

OnceInv == Rising /\ OnePlace /\ Unanswered /\ AtMostOneReply

(* No entry but the marker is twice in the queues.                         *)
QueuedOnce ==
    \A g, h \in Connections : \A j \in 1..Len(queue[g]), k \in 1..Len(queue[h]) :
        queue[g][j] = queue[h][k] /\ queue[g][j] # Marker => g = h /\ j = k

(* What is left of a sequence when its first element is taken.             *)
LEMMA TailFacts ==
    ASSUME NEW S, NEW q \in Seq(S), q # <<>>
    PROVE  /\ Tail(q) \in Seq(S) /\ Len(Tail(q)) = Len(q) - 1 /\ Len(q) \in Nat /\ Len(q) >= 1
           /\ Head(q) = q[1] /\ q[1] \in S
           /\ \A k \in 1..(Len(q) - 1) : Tail(q)[k] = q[k + 1]
  OBVIOUS

(* Taking the first entry of a queue leaves the others as they were.       *)
LEMMA QueuePopped ==
    ASSUME ChannelTypes, QueuedOnce, NEW g \in Connections, queue[g] # <<>>,
           queue' = [queue EXCEPT ![g] = Tail(@)]
    PROVE  /\ QueuedOnce' /\ Head(queue[g]) \in 0..MaxRequests /\ Queued(Head(queue[g]))
           /\ \A i \in Ids : Queued(i)' => Queued(i)
           /\ \A i \in Ids : i = Head(queue[g]) => ~Queued(i)'
<1>1. /\ \A h \in Connections : queue[h] \in Seq(0..MaxRequests) /\ Len(queue[h]) \in Nat
      /\ queue'[g] = Tail(queue[g]) /\ \A h \in Connections \ {g} : queue'[h] = queue[h]
  BY DEF ChannelTypes
<1>2. /\ Len(queue'[g]) = Len(queue[g]) - 1 /\ Len(queue[g]) >= 1
      /\ Head(queue[g]) = queue[g][1] /\ queue[g][1] \in 0..MaxRequests
      /\ \A k \in 1..(Len(queue[g]) - 1) : queue'[g][k] = queue[g][k + 1]
  <2> DEFINE S == 0..MaxRequests  q == queue[g]
  <2>1. q \in Seq(S) /\ q # <<>>
    BY <1>1
  <2> HIDE DEF S, q
  <2>2. /\ Len(Tail(q)) = Len(q) - 1 /\ Len(q) >= 1 /\ Head(q) = q[1] /\ q[1] \in S
        /\ \A k \in 1..(Len(q) - 1) : Tail(q)[k] = q[k + 1]
    BY <2>1, TailFacts
  <2> QED
    BY <1>1, <2>2 DEF S, q
<1> DEFINE x == Head(queue[g])
<1>3. ASSUME NEW h \in Connections, NEW k \in 1..Len(queue'[h])
      PROVE  k \in Nat /\ \/ h = g /\ k + 1 \in 1..Len(queue[h]) /\ k + 1 # 1 /\ queue'[h][k] = queue[h][k + 1]
                          \/ h # g /\ k \in 1..Len(queue[h]) /\ queue'[h][k] = queue[h][k]
  <2>1. CASE h = g
    BY <1>1, <1>2, <2>1
  <2>2. CASE h # g
    BY <1>1, <2>2
  <2> QED
    BY <2>1, <2>2
<1>4. ASSUME NEW h \in Connections, NEW k \in 1..Len(queue'[h])
      PROVE  /\ \E j \in 1..Len(queue[h]) : queue'[h][k] = queue[h][j]
             /\ x # Marker => queue'[h][k] # x
  <2>1. 1 \in 1..Len(queue[g])
    BY <1>1, <1>2
  <2> QED
    BY <1>2, <1>3, <2>1 DEF QueuedOnce
<1>5. QueuedOnce'
  <2> SUFFICES ASSUME NEW f \in Connections, NEW h \in Connections, NEW j \in 1..Len(queue'[f]), NEW k \in 1..Len(queue'[h]),
                      queue'[f][j] = queue'[h][k], queue'[f][j] # Marker
               PROVE  f = h /\ j = k
    BY DEF QueuedOnce, Connections, Marker
  <2>1. CASE f = g /\ h = g
    <3>1. /\ j + 1 \in 1..Len(queue[g]) /\ k + 1 \in 1..Len(queue[g]) /\ queue[g][j + 1] = queue[g][k + 1]
          /\ queue[g][j + 1] # Marker /\ j \in Nat /\ k \in Nat
      BY <1>3, <2>1, ZenonT(30)
    <3>2. j + 1 = k + 1
      BY <3>1 DEF QueuedOnce
    <3> QED
      BY <2>1, <3>1, <3>2
  <2>2. CASE f # g /\ h # g
    BY <1>3, <2>2 DEF QueuedOnce
  <2>3. CASE f = g /\ h # g
    BY <1>3, <2>3 DEF QueuedOnce
  <2>4. CASE f # g /\ h = g
    BY <1>3, <2>4 DEF QueuedOnce
  <2> QED
    BY <2>1, <2>2, <2>3, <2>4
<1>6. Queued(x)
  BY <1>1, <1>2 DEF Queued
<1>7. \A i \in Ids : Queued(i)' => Queued(i)
  BY <1>4 DEF Queued
<1>8. ASSUME NEW i \in Ids, i = x PROVE ~Queued(i)'
  <2>1. x # Marker
    BY <1>8 DEF Ids, Marker
  <2> QED
    BY <1>4, <1>8, <2>1 DEF Queued
<1> QED
  BY <1>2, <1>5, <1>6, <1>7, <1>8

(* Answering a request that has no answer gives it at most one.            *)
LEMMA AnsweredOnce ==
    ASSUME HistoryTypes, NEW i \in Ids, NEW a \in -1..MaxRequests, answers[i] = <<>>
    PROVE  /\ Len(Answered(i, a)[i]) <= 1
           /\ \A j \in Ids \ {i} : Answered(i, a)[j] = answers[j]
<1>1. Len(Append(answers[i], a)) = 1 /\ Len(answers[i]) = 0
  BY DEF HistoryTypes
<1> QED
  BY <1>1 DEF Answered, HistoryTypes

(* Every step keeps a request in one place until it is answered.           *)
LEMMA OnceStep == ASSUME IndInv, OnceInv, Next PROVE OnceInv'
<1>0. /\ requestChan \in Seq(Ids) /\ Len(requestChan) \in Nat /\ \A k \in 1..Len(requestChan) : requestChan[k] \in Ids
      /\ reqs \in Seq(Inputs) /\ Len(reqs) \in Nat /\ Len(reqs) <= MaxRequests /\ MaxRequests \in Nat
      /\ hand \in [Threads -> 0..MaxRequests] /\ pc \in [Threads -> Labels] /\ ret \in [Threads -> Labels]
      /\ answers \in [Ids -> Seq(-1..MaxRequests)]
      /\ RL \in Threads /\ Connections \subseteq Threads /\ RL \notin Connections
      /\ ChannelTypes /\ HistoryTypes /\ QueuedOnce
  BY ClientAssumption DEF IndInv, TypeOK, ChannelTypes, ThreadTypes, HistoryTypes, Threads, RL, Connections,
     OnceInv, OnePlace, QueuedOnce
<1>00. /\ \A k \in 1..Len(requestChan) : requestChan[k] <= Len(reqs)
       /\ hand[RL] \in 0..MaxRequests /\ hand[RL] <= Len(reqs) /\ (Works => hand[RL] \in Ids)
  BY <1>0 DEF IndInv, ChannelKnown, HandIssued, Works, Ids, Nil
<1>n. /\ hand[RL] \in Nat /\ Len(reqs) \in Nat /\ hand[RL] <= Len(reqs)
      /\ (\A i \in Ids : i \in Nat) /\ \A k \in 1..Len(requestChan) : requestChan[k] \in Nat
  BY <1>0, <1>00 DEF Ids
<1>o. OnceInv => /\ QueuedOnce
                 /\ \A i \in Ids : \A g, h \in Connections : Reading(g, i) /\ Reading(h, i) => g = h
                 /\ \A i \in Ids : \A g \in Connections : Reading(g, i) => ~Queued(i)
  BY DEF OnceInv, OnePlace, QueuedOnce
(* Requests stay where they are, or RL is done with the one it works on.   *)
<1>s. ASSUME UNCHANGED <<requestChan, queue, answers, reqs, hand>>, Works' => Works,
             \A g \in Connections : pc'[g] = "read" => pc[g] = "read"
      PROVE  OnceInv'
  <2>1. /\ \A i \in Ids : (Waiting(i)' <=> Waiting(i)) /\ (Queued(i)' <=> Queued(i))
        /\ \A i \in Ids : \A g \in Connections : Reading(g, i)' => Reading(g, i)
    BY <1>s DEF Waiting, Queued, Reading
  <2>2. Rising' /\ OnePlace'
    BY <1>s, <2>1 DEF OnceInv, Rising, OnePlace
  <2>3. Unanswered' /\ AtMostOneReply'
    BY <1>s, <2>1 DEF OnceInv, Unanswered, AtMostOneReply
  <2> QED
    BY <2>2, <2>3 DEF OnceInv
<1>1. ASSUME Start \/ WriteConnects \/ Reconnect PROVE OnceInv'
  <2>1. UNCHANGED <<requestChan, queue, answers, reqs, hand, ret>>
    BY <1>1 DEF Start, WriteConnects, Reconnect, Connect, history
  <2>2. \A g \in Connections : pc'[g] = "read" => pc[g] = "read"
    BY <1>0, <1>1 DEF Start, WriteConnects, Reconnect, Connect, Dialled, NotDialled, Goto
  <2>3. Works' => Works
    <3>1. CASE Start
      <4>1. pc'[RL] = "select"
        BY <1>0, <3>1 DEF Start, Connect, Dialled, NotDialled, Goto
      <4> QED
        BY <4>1 DEF Works, Handling, Sending, InDisconnect
    <3>2. CASE WriteConnects \/ Reconnect
      BY <3>2 DEF WriteConnects, Reconnect, Works, Handling, Sending
    <3> QED
      BY <1>1, <3>1, <3>2
  <2> QED
    BY <1>s, <2>1, <2>2, <2>3
<1>2. ASSUME Finish \/ Idle PROVE OnceInv'
  <2>1. UNCHANGED <<requestChan, queue, answers, reqs, hand>>
    BY <1>2 DEF Finish, Idle, chans, history
  <2>2. (\A g \in Connections : pc'[g] = pc[g]) /\ pc'[RL] = "lock" /\ ret'[RL] \in {"gone", "select"}
    BY <1>0, <1>2 DEF Finish, Idle, CallDisconnect, Goto
  <2>3. Works' => Works
    BY <2>2 DEF Works, Handling, Sending, InDisconnect
  <2> QED
    BY <1>s, <2>1, <2>2, <2>3
<1>3. ASSUME WriteConnected \/ ChooseDatabase \/ ChangeDB \/ WriteResp \/ WriteEOF \/ Load PROVE OnceInv'
  <2>1. UNCHANGED <<requestChan, queue, answers, reqs, hand>>
    BY <1>3 DEF WriteConnected, ChooseDatabase, ChangeDB, WriteResp, WriteEOF, Load, chans, history
  <2>2. \A g \in Connections : pc'[g] = pc[g]
    BY <1>0, <1>3 DEF WriteConnected, ChooseDatabase, ChangeDB, WriteResp, WriteEOF, Load, CallDisconnect, Goto
  <2>3. Works
    BY <1>3 DEF WriteConnected, ChooseDatabase, ChangeDB, WriteResp, WriteEOF, Load, Works, Handling, Sending
  <2> QED
    BY <1>s, <2>1, <2>2, <2>3
<1>4. ASSUME NEW t \in Threads, Lock(t) \/ Purged(t) \/ CloseQueue(t) PROVE OnceInv'
  <2>1. UNCHANGED <<requestChan, queue, answers, reqs, hand, ret>>
    BY <1>4 DEF Lock, Purged, CloseQueue, chans, history
  <2>2. /\ pc[t] \in InDisconnect /\ ret[t] \in Returns
        /\ \E l \in {"purge", "closeQueue", ret[t]} : pc' = [pc EXCEPT ![t] = l]
    BY <1>4 DEF Lock, Purged, CloseQueue, Goto, InDisconnect, IndInv, MutexHeld
  <2>3. \A g \in Connections : pc'[g] = "read" => pc[g] = "read"
    BY <1>0, <2>2 DEF Returns
  <2>4. Works' => Works
    BY <1>0, <2>1, <2>2 DEF Works, Handling, Sending, InDisconnect, Returns
  <2> QED
    BY <1>s, <2>1, <2>3, <2>4
<1>5. ASSUME NEW g \in Connections, Drained(g) \/ Exiting(g) \/ Closing(g) PROVE OnceInv'
  <2>1. UNCHANGED <<requestChan, queue, answers, reqs, hand>>
    BY <1>5 DEF Drained, Exiting, Closing, chans, history
  <2>2. pc'[RL] = pc[RL] /\ ret'[RL] = ret[RL] /\ \A h \in Connections : pc'[h] = "read" => pc[h] = "read"
    BY <1>0, <1>5 DEF Drained, Exiting, Closing, CallDisconnect, Goto
  <2>3. Works' => Works
    BY <2>2 DEF Works
  <2> QED
    BY <1>s, <2>1, <2>2, <2>3
<1>6. ASSUME (\E g \in Connections : Break(g)) \/ (\E m \in Modes : Reload(m)) \/ Exit \/ Elapse PROVE OnceInv'
  <2>1. UNCHANGED <<requestChan, queue, answers, reqs, hand, pc, ret>>
    BY <1>6 DEF Break, Reload, Exit, Elapse, chans, threads, history
  <2> QED
    BY <1>s, <2>1 DEF Works
(* RL takes the oldest request of requestChan.                             *)
<1>7. ASSUME Receive PROVE OnceInv'
  <2>1. /\ requestChan # <<>> /\ hand' = [hand EXCEPT ![RL] = Head(requestChan)] /\ requestChan' = Tail(requestChan)
        /\ pc' = [pc EXCEPT ![RL] = "write"] /\ UNCHANGED <<queue, answers, reqs>>
    BY <1>7 DEF Receive, Goto, history
  <2>2. /\ Len(requestChan') = Len(requestChan) - 1 /\ Len(requestChan) >= 1 /\ Head(requestChan) = requestChan[1]
        /\ \A k \in 1..(Len(requestChan) - 1) : requestChan'[k] = requestChan[k + 1]
    BY <1>0, <2>1, TailFacts
  <2>3. /\ hand'[RL] = requestChan[1] /\ requestChan[1] \in Ids /\ hand[RL] < requestChan[1] /\ Waiting(requestChan[1])
        /\ \A k \in 1..Len(requestChan') : /\ k + 1 \in 1..Len(requestChan) /\ requestChan'[k] = requestChan[k + 1]
                                          /\ requestChan[1] < requestChan'[k]
    <3>1. 1 \in 1..Len(requestChan)
      BY <1>0, <2>2
    <3>2. \A k \in 1..Len(requestChan') : k + 1 \in 1..Len(requestChan) /\ 1 < k + 1 /\ requestChan'[k] = requestChan[k + 1]
      BY <1>0, <2>2
    <3> QED
      BY <1>0, <2>1, <2>2, <3>1, <3>2 DEF OnceInv, Rising, Waiting
  <2>4. /\ \A i \in Ids : (Queued(i)' <=> Queued(i)) /\ \A g \in Connections : Reading(g, i)' <=> Reading(g, i)
        /\ \A i \in Ids : Waiting(i)' => Waiting(i)
    BY <1>0, <2>1, <2>3 DEF Queued, Reading, Waiting
  <2>5. \A j, k \in 1..Len(requestChan') : j < k => requestChan'[j] < requestChan'[k]
    <3>1. ASSUME NEW j \in 1..Len(requestChan'), NEW k \in 1..Len(requestChan'), j < k
          PROVE  j + 1 < k + 1
      BY <1>0, <2>2, <3>1
    <3> QED
      BY <2>3, <3>1 DEF OnceInv, Rising
  <2>6. Rising'
    <3>1. \A i \in Ids : Queued(i) \/ (\E g \in Connections : Reading(g, i)) => i <= hand'[RL] /\ i # hand'[RL]
      <4>1. \A i \in Ids : Queued(i) \/ (\E g \in Connections : Reading(g, i)) => i <= hand[RL]
        BY DEF OnceInv, Rising
      <4>2. \A i \in Ids : i <= hand[RL] => i <= hand'[RL] /\ i # hand'[RL]
        BY <1>n, <2>3
      <4> QED
        BY <4>1, <4>2
    <3> QED
      BY <2>3, <2>4, <2>5, <3>1 DEF Rising
  <2>7. OnePlace'
    BY <2>1, <2>4 DEF OnceInv, OnePlace
  <2>8. Unanswered' /\ AtMostOneReply'
    BY <2>1, <2>3, <2>4 DEF OnceInv, Unanswered, AtMostOneReply
  <2> QED
    BY <2>6, <2>7, <2>8 DEF OnceInv
(* RL queues the request it works on, or the marker.                       *)
<1>8. ASSUME Push PROVE OnceInv'
  <2>0. Works /\ slot \in Connections
    BY <1>8 DEF Push, Works, Handling, Sending, IndInv, TypeOK, ThreadTypes, Connections, Nil
  <2>1. CASE closed[slot]
    <3>1. UNCHANGED <<requestChan, queue, answers, reqs, hand, pc, ret>>
      BY <1>8, <2>1 DEF Push, history
    <3> QED
      BY <1>s, <2>0, <3>1
  <2>2. CASE ~closed[slot]
    <3> DEFINE x == IF pc[RL] = "push" THEN hand[RL] ELSE Marker
               e == Len(queue[slot]) + 1
    <3>1. /\ queue' = [queue EXCEPT ![slot] = Append(@, x)] /\ UNCHANGED <<requestChan, answers, reqs, hand, ret>>
          /\ pc' = [pc EXCEPT ![RL] = IF pc[RL] = "push" THEN "select" ELSE "resp"]
          /\ x = Marker \/ (x = hand[RL] /\ x \in Ids /\ ~Works')
      <4>1. queue' = [queue EXCEPT ![slot] = Append(@, x)] /\ UNCHANGED <<requestChan, answers, reqs, hand, ret>>
            /\ pc' = [pc EXCEPT ![RL] = IF pc[RL] = "push" THEN "select" ELSE "resp"]
        BY <1>8, <2>2 DEF Push, history, Goto
      <4>2. pc[RL] = "push" => ~Works'
        BY <1>0, <4>1 DEF Works, Handling, Sending, InDisconnect
      <4> QED
        BY <1>00, <2>0, <4>1, <4>2
    <3>2. x \in 0..MaxRequests
      BY <1>0, <1>00, <3>1 DEF Ids, Marker
    <3> HIDE DEF x
    <3>3. /\ queue[slot] \in Seq(0..MaxRequests) /\ Len(queue[slot]) \in Nat
          /\ Len(queue'[slot]) = e /\ queue'[slot][e] = x /\ \A k \in 1..Len(queue[slot]) : queue'[slot][k] = queue[slot][k]
          /\ \A g \in Connections \ {slot} : queue'[g] = queue[g]
      BY <1>0, <2>0, <3>1, <3>2 DEF ChannelTypes
    <3> HIDE DEF e
    <3>4. \A g \in Connections : \A k \in 1..Len(queue'[g]) :
             (g = slot /\ k = e /\ queue'[g][k] = x) \/ (k \in 1..Len(queue[g]) /\ queue'[g][k] = queue[g][k])
      BY <3>3 DEF e
    <3>5. x # Marker => ~Queued(x) /\ \A g \in Connections : ~Reading(g, x)
      BY <2>0, <3>1 DEF OnceInv, Rising
    <3>6. QueuedOnce'
      <4> SUFFICES ASSUME NEW g \in Connections, NEW h \in Connections, NEW j \in 1..Len(queue'[g]), NEW k \in 1..Len(queue'[h]),
                          queue'[g][j] = queue'[h][k], queue'[g][j] # Marker
                   PROVE  g = h /\ j = k
        BY DEF QueuedOnce, Connections, Marker
      <4>1. CASE j \in 1..Len(queue[g]) /\ queue'[g][j] = queue[g][j] /\ k \in 1..Len(queue[h]) /\ queue'[h][k] = queue[h][k]
        <5>1. queue[g][j] = queue[h][k] /\ queue[g][j] # Marker /\ j \in 1..Len(queue[g]) /\ k \in 1..Len(queue[h])
          BY <4>1
        <5>2. QueuedOnce
          BY <1>o
        <5>3. \A l \in 1..Len(queue[h]) : queue[g][j] = queue[h][l] /\ queue[g][j] # Marker => g = h /\ j = l
          BY <5>1, <5>2 DEF QueuedOnce
        <5> QED
          BY <5>1, <5>3
      <4>2. CASE queue'[g][j] = x
        BY <3>4, <3>5, <4>2, ZenonT(30) DEF Queued
      <4> QED
        BY <3>4, <4>1, <4>2
    <3>7. /\ \A i \in Ids : Queued(i)' => Queued(i) \/ i = x
          /\ \A i \in Ids : Waiting(i)' <=> Waiting(i)
          /\ \A i \in Ids : \A g \in Connections : Reading(g, i)' <=> Reading(g, i)
      BY <1>0, <3>1, <3>4 DEF Queued, Waiting, Reading
    <3>8. x \in Ids => x = hand[RL] /\ ~Works'
      BY <3>1 DEF Ids, Marker
    <3>9. Rising'
      BY <1>00, <2>0, <3>1, <3>7, <3>8 DEF OnceInv, Rising
    <3>10. OnePlace'
      BY <1>o, <3>5, <3>6, <3>7, <3>8 DEF OnePlace, QueuedOnce, Ids, Marker
    <3>11. Unanswered' /\ AtMostOneReply'
      BY <2>0, <3>1, <3>7, <3>8 DEF OnceInv, Unanswered, AtMostOneReply
    <3> QED
      BY <3>9, <3>10, <3>11 DEF OnceInv
  <2> QED
    BY <2>1, <2>2
(* What is answered is in no place after it.                               *)
<1>a. ASSUME NEW i \in Ids, NEW a \in -1..MaxRequests, answers' = Answered(i, a), answers[i] = <<>>, i <= Len(reqs),
             UNCHANGED <<requestChan, reqs>>, hand'[RL] = hand[RL], Works' => Works, QueuedOnce',
             ~Waiting(i), ~(Works' /\ hand[RL] = i), ~Queued(i)', \A g \in Connections : ~Reading(g, i)',
             \A j \in Ids : Queued(j)' => Queued(j),
             \A j \in Ids : \A g \in Connections : Reading(g, j)' => Reading(g, j)
      PROVE  OnceInv'
  <2>1. Len(answers'[i]) <= 1 /\ \A j \in Ids \ {i} : answers'[j] = answers[j]
    BY <1>0, <1>a, AnsweredOnce
  <2>2. \A j \in Ids : Waiting(j)' <=> Waiting(j)
    BY <1>a DEF Waiting
  <2>3. Rising'
    BY <1>a DEF OnceInv, Rising
  <2>4. OnePlace'
    BY <1>o, <1>a DEF OnePlace, QueuedOnce
  <2>5. Unanswered'
    <3>1. ~(i > Len(reqs))
      BY <1>0, <1>a DEF Ids
    <3>2. /\ \A j \in Ids : \/ j > Len(reqs)' \/ Waiting(j)' \/ (Works /\ hand[RL] = j)' \/ Queued(j)'
                            \/ \E g \in Connections : Reading(g, j)'
                         => j # i
      BY <1>a, <2>2, <3>1
    <3>3. /\ \A j \in Ids : \/ j > Len(reqs)' \/ Waiting(j)' \/ (Works /\ hand[RL] = j)' \/ Queued(j)'
                            \/ \E g \in Connections : Reading(g, j)'
                         => answers[j] = <<>>
      BY <1>a, <2>2 DEF OnceInv, Unanswered
    <3> QED
      BY <2>1, <3>2, <3>3 DEF Unanswered
  <2>6. AtMostOneReply'
    BY <2>1 DEF OnceInv, AtMostOneReply
  <2> QED
    BY <2>3, <2>4, <2>5, <2>6 DEF OnceInv
<1>9. ASSUME WriteFailed PROVE OnceInv'
  <2> DEFINE i == hand[RL]
  <2>1. /\ Works /\ i \in Ids /\ answers' = Answered(i, KO) /\ UNCHANGED <<requestChan, queue, hand, reqs>>
        /\ pc' = [pc EXCEPT ![RL] = "lock"] /\ ret' = [ret EXCEPT ![RL] = "select"]
    BY <1>00, <1>9 DEF WriteFailed, CallDisconnect, Goto, chans, Works, Handling
  <2>2. ~Works'
    BY <1>0, <2>1 DEF Works, Handling, Sending, InDisconnect
  <2>3. /\ \A j \in Ids : (Queued(j)' <=> Queued(j)) /\ \A g \in Connections : Reading(g, j)' <=> Reading(g, j)
    BY <1>0, <2>1 DEF Queued, Reading
  <2>4. ~Waiting(i) /\ ~Queued(i) /\ (\A g \in Connections : ~Reading(g, i)) /\ answers[i] = <<>>
    <3>1. ~Waiting(i)
      <4>1. \A k \in 1..Len(requestChan) : hand[RL] < requestChan[k]
        BY DEF OnceInv, Rising
      <4> QED
        BY <1>0, <2>1, <4>1 DEF Waiting, Ids
    <3>2. ~Queued(i) /\ \A g \in Connections : ~Reading(g, i)
      BY <2>1 DEF OnceInv, Rising
    <3>3. answers[i] = <<>>
      BY <2>1 DEF OnceInv, Unanswered
    <3> QED
      BY <3>1, <3>2, <3>3
  <2>5. KO \in -1..MaxRequests /\ QueuedOnce'
    BY <1>0, <2>1 DEF KO, QueuedOnce
  <2> HIDE DEF i
  <2>6. i <= Len(reqs) /\ i = hand[RL] /\ hand'[RL] = hand[RL]
    BY <1>00, <2>1 DEF i
  <2> QED
    BY <1>a, <2>1, <2>2, <2>3, <2>4, <2>5, <2>6
(* purgeRequests takes a request from the queue and answers it.            *)
<1>10. ASSUME NEW t \in Threads, Purge(t) PROVE OnceInv'
  <2> DEFINE i == Head(queue[queueChan])
  <2>1. /\ queueChan \in Connections /\ queue[queueChan] # <<>> /\ queue' = [queue EXCEPT ![queueChan] = Tail(@)]
        /\ UNCHANGED <<requestChan, hand, pc, ret, reqs>>
        /\ IF i = Marker THEN UNCHANGED answers ELSE answers' = Answered(i, KO)
    BY <1>10, QueueThere DEF Purge
  <2>2. /\ QueuedOnce' /\ i \in 0..MaxRequests /\ Queued(i) /\ (\A j \in Ids : Queued(j)' => Queued(j))
        /\ \A j \in Ids : j = i => ~Queued(j)'
    BY <1>0, <2>1, QueuePopped
  <2>3. Works' = Works /\ \A j \in Ids : (Waiting(j)' <=> Waiting(j)) /\ \A g \in Connections : Reading(g, j)' <=> Reading(g, j)
    BY <2>1 DEF Works, Waiting, Reading
  <2> HIDE DEF i
  <2>4. CASE i = Marker
    <3>1. answers' = answers
      BY <2>1, <2>4
    <3>2. Rising'
      BY <2>1, <2>2, <2>3 DEF OnceInv, Rising
    <3>3. OnePlace'
      BY <1>o, <2>2, <2>3 DEF OnePlace, QueuedOnce
    <3>4. Unanswered' /\ AtMostOneReply'
      BY <2>1, <2>2, <2>3, <3>1 DEF OnceInv, Unanswered, AtMostOneReply
    <3> QED
      BY <3>2, <3>3, <3>4 DEF OnceInv
  <2>5. CASE i # Marker
    <3>1. i \in Ids /\ answers' = Answered(i, KO) /\ KO \in -1..MaxRequests
      BY <1>0, <2>1, <2>2, <2>5 DEF Ids, Marker, KO
    <3>2. answers[i] = <<>> /\ i <= hand[RL] /\ ~(Works /\ hand[RL] = i) /\ \A g \in Connections : ~Reading(g, i)
      BY <1>o, <2>2, <3>1 DEF OnceInv, Rising, Unanswered
    <3>3. ~Waiting(i) /\ i <= Len(reqs)
      <4>1. \A k \in 1..Len(requestChan) : hand[RL] < requestChan[k]
        BY DEF OnceInv, Rising
      <4> QED
        BY <1>n, <3>1, <3>2, <4>1 DEF Waiting
    <3> QED
      BY <1>a, <2>1, <2>2, <2>3, <3>1, <3>2, <3>3
  <2> QED
    BY <2>4, <2>5
(* The redisListener of a connection takes an entry of its queue.          *)
<1>11. ASSUME NEW g \in Connections, Recv(g) PROVE OnceInv'
  <2> DEFINE i == Head(queue[g])
  <2>1. /\ queue[g] # <<>> /\ queue' = [queue EXCEPT ![g] = Tail(@)] /\ hand' = [hand EXCEPT ![g] = i]
        /\ pc[g] = "recv" /\ pc' = [pc EXCEPT ![g] = "read"] /\ UNCHANGED <<requestChan, ret, reqs, answers>>
    BY <1>11 DEF Recv, Goto, history
  <2>2. /\ QueuedOnce' /\ i \in 0..MaxRequests /\ Queued(i) /\ (\A j \in Ids : Queued(j)' => Queued(j))
        /\ \A j \in Ids : j = i => ~Queued(j)'
    BY <1>0, <2>1, QueuePopped
  <2> HIDE DEF i
  <2>3. pc'[RL] = pc[RL] /\ hand'[RL] = hand[RL] /\ Works' = Works /\ \A j \in Ids : Waiting(j)' <=> Waiting(j)
    BY <1>0, <2>1 DEF Works, Waiting
  <2>4. \A j \in Ids : \A h \in Connections : Reading(h, j)' <=> Reading(h, j) \/ (h = g /\ j = i)
    BY <1>0, <2>1 DEF Reading
  <2>5. \A j \in Ids : j = i => \A h \in Connections : ~Reading(h, j)
    BY <1>o, <2>2
  <2>6. Rising'
    BY <2>1, <2>2, <2>3, <2>4 DEF OnceInv, Rising
  <2>7. OnePlace'
    BY <1>o, <2>2, <2>4, <2>5 DEF OnePlace, QueuedOnce
  <2>8. Unanswered' /\ AtMostOneReply'
    BY <2>1, <2>2, <2>3, <2>4 DEF OnceInv, Unanswered, AtMostOneReply
  <2> QED
    BY <2>6, <2>7, <2>8 DEF OnceInv
(* It writes the answer it reads, or the error, if it is no marker.        *)
<1>12. ASSUME NEW g \in Connections, ReadReply(g) \/ ReadError(g) PROVE OnceInv'
  <2> DEFINE i == hand[g]
  <2>1. /\ pc[g] = "read" /\ i \in 0..MaxRequests /\ UNCHANGED <<requestChan, queue, hand, reqs>>
        /\ i = Marker => answers' = answers
        /\ i # Marker => \E a \in -1..MaxRequests : answers' = Answered(i, a)
    <3>1. CASE ReadReply(g)
      <4>1. wire[g] \in Seq(0..MaxRequests)
        BY DEF IndInv, TypeOK, NetworkTypes
      <4>2. wire[g] # <<>> => Head(wire[g]) \in -1..MaxRequests
        <5> DEFINE S == 0..MaxRequests
        <5>1. S \subseteq -1..MaxRequests /\ wire[g] \in Seq(S)
          BY <1>0, <4>1
        <5> HIDE DEF S
        <5>2. wire[g] # <<>> => Head(wire[g]) \in S
          BY <5>1, TailFacts
        <5> QED
          BY <5>1, <5>2
      <4> QED
        BY <1>0, <3>1, <4>2 DEF ReadReply, chans
    <3>2. CASE ReadError(g)
      <4>1. KO \in -1..MaxRequests
        BY <1>0 DEF KO
      <4> QED
        BY <1>0, <3>2, <4>1 DEF ReadError, chans
    <3> QED
      BY <1>12, <3>1, <3>2
  <2>2. pc'[g] # "read" /\ pc'[RL] = pc[RL] /\ ret'[RL] = ret[RL] /\ \A h \in Connections \ {g} : pc'[h] = pc[h]
    BY <1>0, <1>12 DEF ReadReply, ReadError, CallDisconnect, Goto
  <2>3. Works' = Works
    BY <2>2 DEF Works
  <2> HIDE DEF i
  <2>4. CASE i = Marker
    BY <1>s, <2>1, <2>2, <2>3, <2>4
  <2>5. CASE i # Marker
    <3>1. PICK a \in -1..MaxRequests : answers' = Answered(i, a)
      BY <2>1, <2>5
    <3>2. i \in Ids /\ Reading(g, i)
      BY <1>0, <2>1, <2>5 DEF Ids, Marker, Reading, i
    <3>3. answers[i] = <<>> /\ i <= hand[RL] /\ ~(Works /\ hand[RL] = i) /\ ~Queued(i) /\ \A h \in Connections \ {g} : ~Reading(h, i)
      BY <1>o, <3>2 DEF OnceInv, Rising, Unanswered
    <3>4. ~Waiting(i) /\ i <= Len(reqs)
      <4>1. \A k \in 1..Len(requestChan) : hand[RL] < requestChan[k]
        BY DEF OnceInv, Rising
      <4> QED
        BY <1>n, <3>2, <3>3, <4>1 DEF Waiting
    <3>5. \A j \in Ids : (Queued(j)' <=> Queued(j)) /\ \A h \in Connections : Reading(h, j)' <=> Reading(h, j) /\ h # g
      BY <2>1, <2>2 DEF Queued, Reading
    <3>6. QueuedOnce' /\ hand'[RL] = hand[RL]
      BY <1>o, <2>1 DEF QueuedOnce
    <3> QED
      BY <1>a, <2>1, <2>3, <3>1, <3>2, <3>3, <3>4, <3>5, <3>6
  <2> QED
    BY <2>4, <2>5
(* A request is issued, and accepted or refused.                           *)
<1>13. ASSUME NEW r \in Inputs, Send(r) PROVE OnceInv'
  <2> DEFINE n == Len(reqs) + 1
  <2>1. Len(reqs)' = n /\ n \in Ids /\ UNCHANGED <<queue, hand, pc, ret>>
    BY <1>0, <1>13 DEF Send, threads, Ids
  <2>2. ~Waiting(n) /\ hand[RL] < n /\ hand[RL] # n /\ answers[n] = <<>>
    <3>1. n > Len(reqs)
      BY <1>0
    <3>2. answers[n] = <<>>
      BY <2>1, <3>1 DEF OnceInv, Unanswered
    <3> QED
      BY <1>0, <1>00, <3>2, SMTT(30) DEF Waiting, Ids
  <2>3. ~Queued(n) /\ \A g \in Connections : ~Reading(g, n)
    <3>1. ~(n <= hand[RL])
      BY <1>0, <1>00
    <3> QED
      BY <2>1, <3>1 DEF OnceInv, Rising
  <2>4. /\ Works' = Works /\ \A i \in Ids : (Queued(i)' <=> Queued(i)) /\ \A g \in Connections : Reading(g, i)' <=> Reading(g, i)
    BY <2>1 DEF Works, Queued, Reading
  <2>5. OnePlace'
    BY <2>1, <2>4 DEF OnceInv, OnePlace
  <2>6. \A i \in Ids : i > Len(reqs)' => i > Len(reqs) /\ i # n
    BY <1>0, <2>1 DEF Ids
  <2>7. CASE Accepts
    <3>1. requestChan' = Append(requestChan, n) /\ answers' = answers
      BY <1>13, <2>7 DEF Send
    <3>2. /\ Len(requestChan') = Len(requestChan) + 1 /\ requestChan'[Len(requestChan) + 1] = n
          /\ \A k \in 1..Len(requestChan) : requestChan'[k] = requestChan[k]
      BY <1>0, <2>1, <3>1
    <3>3. \A k \in 1..Len(requestChan') : \/ k = Len(requestChan) + 1 /\ requestChan'[k] = n
                                          \/ k \in 1..Len(requestChan) /\ requestChan'[k] = requestChan[k]
      BY <1>0, <3>2
    <3> HIDE DEF n
    <3>4. \A i \in Ids : Waiting(i)' => Waiting(i) \/ i = n
      BY <3>3 DEF Waiting
    <3>5. \A j, k \in 1..Len(requestChan') : j < k => requestChan'[j] < requestChan'[k]
      <4> SUFFICES ASSUME NEW j \in 1..Len(requestChan'), NEW k \in 1..Len(requestChan'), j < k
                   PROVE  requestChan'[j] < requestChan'[k]
        OBVIOUS
      <4>1. j \in 1..Len(requestChan) /\ requestChan'[j] = requestChan[j]
        BY <1>0, <3>2, <3>3
      <4>2. CASE k \in 1..Len(requestChan)
        BY <3>2, <4>1, <4>2 DEF OnceInv, Rising
      <4>3. CASE k = Len(requestChan) + 1
        BY <1>0, <1>00, <3>2, <4>1, <4>3, SMTT(30) DEF n, Ids
      <4> QED
        BY <3>3, <4>2, <4>3
    <3>6. Rising'
      BY <2>1, <2>2, <2>4, <3>3, <3>5 DEF OnceInv, Rising
    <3>7. Unanswered' /\ AtMostOneReply'
      BY <2>1, <2>2, <2>4, <2>6, <3>1, <3>4 DEF OnceInv, Unanswered, AtMostOneReply
    <3> QED
      BY <2>5, <3>6, <3>7 DEF OnceInv
  <2>8. CASE ~Accepts
    <3>1. requestChan' = requestChan /\ answers' = IF r.sync THEN [answers EXCEPT ![n] = Append(@, KO)] ELSE answers
      BY <1>13, <2>8 DEF Send
    <3>2. Len(Append(answers[n], KO)) = 1 /\ Len(answers[n]) = 0
      BY <2>2
    <3> HIDE DEF n
    <3>3. Len(answers'[n]) <= 1 /\ \A i \in Ids \ {n} : answers'[i] = answers[i]
      BY <1>0, <2>1, <3>1, <3>2
    <3>4. Rising'
      BY <2>1, <2>4, <3>1 DEF OnceInv, Rising
    <3>5. \A i \in Ids : Waiting(i)' <=> Waiting(i)
      BY <3>1 DEF Waiting
    <3>6. Unanswered'
      BY <2>1, <2>2, <2>3, <2>4, <2>6, <3>3, <3>5 DEF OnceInv, Unanswered
    <3>7. AtMostOneReply'
      BY <3>3 DEF OnceInv, AtMostOneReply
    <3> QED
      BY <2>5, <3>4, <3>6, <3>7 DEF OnceInv
  <2> QED
    BY <2>7, <2>8
<1> QED
  BY <1>1, <1>2, <1>3, <1>4, <1>5, <1>6, <1>7, <1>8, <1>9, <1>10, <1>11, <1>12, <1>13
     DEF Next, RequestListener, RedisListener, Disconnect

(* Every request is in one place at most, until it is answered.            *)
LEMMA OnceInvariance == Spec => []OnceInv
<1>1. Init => OnceInv
  <2> SUFFICES ASSUME Init PROVE OnceInv
    OBVIOUS
  <2>1. /\ Len(requestChan) = 0 /\ Len(reqs) = 0 /\ pc[RL] = "start"
        /\ \A g \in Connections : Len(queue[g]) = 0 /\ pc[g] = "off"
        /\ \A i \in Ids : answers[i] = <<>> /\ Len(answers[i]) = 0
    BY ClientAssumption DEF Init, Connections, Threads, RL
  <2>2. \A i \in Ids : ~Waiting(i) /\ ~Queued(i) /\ \A g \in Connections : ~Reading(g, i)
    BY <2>1 DEF Waiting, Queued, Reading
  <2>3. Rising /\ OnePlace
    BY <2>1, <2>2 DEF Rising, OnePlace
  <2>4. Unanswered /\ AtMostOneReply
    BY <2>1 DEF Unanswered, AtMostOneReply
  <2> QED
    BY <2>3, <2>4 DEF OnceInv
<1>2. IndInv /\ OnceInv /\ [Next]_vars => OnceInv'
  <2>1. ASSUME OnceInv, UNCHANGED vars PROVE OnceInv'
    BY <2>1 DEF vars, fields, chans, threads, network, history, OnceInv, Rising, OnePlace, Unanswered, AtMostOneReply,
       Works, Waiting, Queued, Reading
  <2> QED
    BY <2>1, OnceStep
<1> QED
  BY <1>1, <1>2, Invariance, PTL DEF Spec

(* A request is answered at most once, whatever fails and however the      *)
(* goroutines of requestListener, redisListener and disconnect() are       *)
(* interleaved: for any number of requests, connections and faults.        *)
THEOREM AnsweredAtMostOnce == Spec => []AtMostOneReply
<1>1. OnceInv => AtMostOneReply
  BY DEF OnceInv
<1> QED
  BY <1>1, OnceInvariance, PTL

-----------------------------------------------------------------------------
(* What holds while the connection to Redis is neither lost nor given up:  *)
(* only dials may fail.  The client then dials at most once with success,  *)
(* and the answers on the wire are those its queue waits for.              *)
Calm == Faults \subseteq {"dial"}

CalmLabels == {"start", "select", "write", "database", "changer", "resp", "loadNil", "pushNil", "load", "push",
               "ko", "lock"}
OneConnection ==
    /\ rw \in {0, 1} /\ queueChan = rw /\ open /\ lock = Nobody /\ panic = "none"
    /\ connected <=> rw = 1
    /\ \A g \in Connections : ~closed[g] /\ pc[g] \in {"off", "recv", "read"}
    /\ \A g \in Connections : g <= rw => sock[g] = "up" /\ pc[g] # "off"
    /\ \A g \in Connections : g > rw => pc[g] = "off" /\ wire[g] = <<>> /\ queue[g] = <<>> /\ session[g] = 0
    /\ pc[RL] \in CalmLabels
    /\ pc[RL] \in {"start", "ko", "lock"} => rw = 0
    /\ pc[RL] = "lock" => ret[RL] = "select"
    /\ pc[RL] \in {"push", "pushNil"} => slot = 1

(* The answers the server owes: for what the listener reads, what is       *)
(* queued, and what RL has written and not queued yet.                     *)
Before == IF pc[1] = "read" THEN 1 ELSE 0
After == IF pc[RL] \in {"loadNil", "pushNil", "load", "push"} THEN 1 ELSE 0
Owed == IF pc[RL] \in {"load", "push"} THEN hand[RL] ELSE Marker
Matched(w, q, b, h, a, o) ==
    /\ Len(w) = b + Len(q) + a
    /\ b = 1 => w[1] = h
    /\ \A k \in 1..Len(q) : w[b + k] = q[k]
    /\ a = 1 => w[Len(w)] = o
InStep == rw = 1 => Matched(wire[1], queue[1], Before, hand[1], After, Owed)

(* What RL remembers of the database is what the session has, or what the  *)
(* SELECT at hand will select.                                             *)
DatabaseKnown ==
    LET r == reqs[hand[RL]] IN
    /\ rw = 0 => database = 0
    /\ rw = 1 /\ ~(pc[RL] = "resp" /\ r.sel) => database = session[1]
    /\ pc[RL] \in {"resp", "changer", "loadNil", "pushNil"} => rw = 1
    /\ pc[RL] \in {"changer", "loadNil", "pushNil"} => ~r.sel
    /\ pc[RL] \in {"resp", "loadNil", "pushNil"} => database = r.db
    /\ \A i \in Ids : i > Len(reqs) => ranIn[i] = {}

CalmInv == OneConnection /\ InStep /\ DatabaseKnown /\ RepliesMatch /\ CommandsRunInOwnDatabase

-----------------------------------------------------------------------------
(* The answers stay in step when a command is written to the server.       *)
LEMMA MatchedWrite ==
    ASSUME NEW S, NEW w \in Seq(S), NEW q \in Seq(S), NEW b \in {0, 1}, NEW h, NEW o, NEW e \in S,
           Matched(w, q, b, h, 0, o)
    PROVE  Matched(Append(w, e), q, b, h, 1, e)
<1>1. Len(Append(w, e)) = Len(w) + 1 /\ Append(w, e)[Len(w) + 1] = e /\ \A k \in 1..Len(w) : Append(w, e)[k] = w[k]
  OBVIOUS
<1>2. Len(w) \in Nat /\ Len(q) \in Nat
  OBVIOUS
<1> QED
  BY <1>1, <1>2 DEF Matched

(* They stay in step when the command written last is queued.              *)
LEMMA MatchedPush ==
    ASSUME NEW S, NEW w \in Seq(S), NEW q \in Seq(S), NEW b \in {0, 1}, NEW h, NEW o \in S, NEW p,
           Matched(w, q, b, h, 1, o)
    PROVE  Matched(w, Append(q, o), b, h, 0, p)
<1>1. Len(Append(q, o)) = Len(q) + 1 /\ Append(q, o)[Len(q) + 1] = o /\ \A k \in 1..Len(q) : Append(q, o)[k] = q[k]
  OBVIOUS
<1>2. Len(w) \in Nat /\ Len(q) \in Nat
  OBVIOUS
<1>3. \A k \in 1..(Len(q) + 1) : k \in 1..Len(q) \/ k = Len(q) + 1
  BY <1>2
<1> QED
  BY <1>1, <1>2, <1>3 DEF Matched

(* They stay in step when the listener takes the first entry of the queue. *)
LEMMA MatchedRecv ==
    ASSUME NEW S, NEW w \in Seq(S), NEW q \in Seq(S), NEW h, NEW a \in {0, 1}, NEW o, q # <<>>,
           Matched(w, q, 0, h, a, o)
    PROVE  Matched(w, Tail(q), 1, Head(q), a, o)
<1>1. Len(q) >= 1 /\ Len(Tail(q)) = Len(q) - 1 /\ Head(q) = q[1] /\ \A k \in 1..Len(Tail(q)) : Tail(q)[k] = q[k + 1]
  BY TailFacts
<1>2. Len(w) \in Nat /\ Len(q) \in Nat
  OBVIOUS
<1> QED
  BY <1>1, <1>2 DEF Matched

(* The first answer is the one that is read for, and the rest are in step. *)
LEMMA MatchedRead ==
    ASSUME NEW S, NEW w \in Seq(S), NEW q \in Seq(S), NEW h, NEW g, NEW a \in {0, 1}, NEW o, w # <<>>,
           Matched(w, q, 1, h, a, o)
    PROVE  Head(w) = h /\ Matched(Tail(w), q, 0, g, a, o)
<1>1. Len(w) >= 1 /\ Len(Tail(w)) = Len(w) - 1 /\ Head(w) = w[1] /\ \A k \in 1..Len(Tail(w)) : Tail(w)[k] = w[k + 1]
  BY TailFacts
<1>2. Len(w) \in Nat /\ Len(q) \in Nat
  OBVIOUS
<1> QED
  BY <1>1, <1>2 DEF Matched

-----------------------------------------------------------------------------
(* While only dials may fail, no goroutine leaves its loop and nothing is  *)
(* disconnected, except a client that never had a connection.              *)
LEMMA CalmActions ==
    ASSUME IndInv, OneConnection, Calm, Next
    PROVE  \/ Start \/ WriteConnects \/ Receive \/ WriteConnected \/ ChooseDatabase \/ ChangeDB \/ WriteResp
           \/ Load \/ Push \/ WriteFailed \/ Lock(RL)
           \/ rw = 1 /\ 1 \in Connections /\ (Recv(1) \/ ReadReply(1))
           \/ \E r \in Inputs : Send(r)
           \/ \E m \in Modes : Reload(m)
           \/ Elapse
<1>0. rw \in 0..MaxConns /\ MaxConns \in Nat
  BY ClientAssumption DEF IndInv, TypeOK, FieldTypes
<1>1. ~Finish /\ ~Reconnect /\ ~Idle /\ ~WriteEOF /\ ~Exit
  BY DEF OneConnection, CalmLabels, Calm, Finish, Reconnect, Idle, WriteEOF, Exit
<1>2. ASSUME NEW t \in Threads, Disconnect(t) PROVE Lock(RL)
  <2>1. t = RL \/ t \in Connections
    BY <1>0 DEF Threads, Connections, RL
  <2>2. t \notin Connections
    BY <1>2 DEF OneConnection, Disconnect, Lock, Purge, Purged, CloseQueue
  <2>3. pc[RL] \notin {"purge", "closeQueue"}
    BY DEF OneConnection, CalmLabels
  <2> QED
    BY <1>2, <2>1, <2>2, <2>3 DEF Disconnect, Purge, Purged, CloseQueue
<1>3. ASSUME NEW g \in Connections, RedisListener(g) \/ Break(g)
      PROVE  rw = 1 /\ 1 \in Connections /\ (Recv(1) \/ ReadReply(1))
  <2>1. ~Drained(g) /\ ~Exiting(g) /\ ~Closing(g) /\ ~Break(g)
    BY DEF OneConnection, Calm, Drained, Exiting, Closing, Break
  <2>2. Recv(g) \/ ReadReply(g) \/ ReadError(g)
    BY <1>3, <2>1 DEF RedisListener
  <2>3. pc[g] # "off"
    BY <2>2 DEF Recv, ReadReply, ReadError
  <2>4. ~(g > rw)
    BY <2>3 DEF OneConnection
  <2>5. g = 1 /\ rw = 1
    BY <1>0, <2>4 DEF OneConnection, Connections
  <2>6. sock[g] = "up"
    BY <2>5 DEF OneConnection
  <2>7. ~ReadError(g)
    BY <2>6 DEF ReadError, Calm
  <2> QED
    BY <2>2, <2>5, <2>7
<1> QED
  BY <1>1, <1>2, <1>3 DEF Next, RequestListener

(* The client keeps the one connection it has, and its queue.              *)
LEMMA ConnectionStep == ASSUME IndInv, OneConnection, Calm, Next PROVE OneConnection'
<1>0. /\ rw \in 0..MaxConns /\ MaxConns \in Nat /\ pc \in [Threads -> Labels] /\ ret \in [Threads -> Labels]
      /\ queue \in [Connections -> Seq(0..MaxRequests)] /\ wire \in [Connections -> Seq(0..MaxRequests)]
      /\ sock \in [Connections -> {"none", "up", "broken", "closed"}] /\ session \in [Connections -> Nat]
      /\ connected \in BOOLEAN
  BY ClientAssumption DEF IndInv, TypeOK, FieldTypes, ChannelTypes, ThreadTypes, NetworkTypes
<1>1. /\ Threads = 0..MaxConns /\ Connections = 1..MaxConns /\ RL = 0 /\ RL \in Threads /\ RL \notin Connections
      /\ Connections \subseteq Threads /\ (rw = 1 => 1 \in Connections)
  BY <1>0 DEF Threads, Connections, RL
<1>2. pc[RL] \in Sending => rw = 1
  BY DEF IndInv, DialledBeforeWrite, OneConnection
<1>3. ASSUME NEW yes \in {"select", "database"}, NEW no \in {"select", "ko"}, Connect(yes, no), rw = 0
      PROVE  OneConnection'
  <2>1. CASE Dialled(yes)
    <3>1. /\ rw' = 1 /\ queueChan' = 1 /\ connected' = TRUE /\ sock' = [sock EXCEPT ![1] = "up"] /\ 1 \in Connections
          /\ pc' = [pc EXCEPT ![RL] = yes, ![1] = "recv"]
          /\ UNCHANGED <<open, lock, panic, closed, wire, queue, session>>
      BY <1>0, <1>1, <1>3, <2>1 DEF Connect, Dialled
    <3>2. pc'[RL] = yes /\ pc'[1] = "recv" /\ \A g \in Connections \ {1} : pc'[g] = pc[g]
      BY <1>0, <1>1, <3>1
    <3>3. \A g \in Connections : (g > 1 <=> g # 1) /\ (g <= 1 <=> g = 1) /\ (g > 1 => g > 0)
      BY <1>0, <1>1
    <3>4. sock'[1] = "up"
      BY <1>0, <3>1
    <3> QED
      BY <1>3, <3>1, <3>2, <3>3, <3>4, ZenonT(30) DEF OneConnection, CalmLabels
  <2>2. CASE NotDialled(no)
    <3>1. /\ pc' = [pc EXCEPT ![RL] = no]
          /\ UNCHANGED <<rw, queueChan, connected, sock, open, lock, panic, closed, wire, queue, session>>
      BY <1>3, <2>2 DEF Connect, NotDialled, Goto
    <3>2. pc'[RL] = no /\ \A g \in Connections : pc'[g] = pc[g]
      BY <1>0, <1>1, <3>1
    <3> QED
      BY <1>3, <3>1, <3>2 DEF OneConnection, CalmLabels
  <2> QED
    BY <1>3, <2>1, <2>2 DEF Connect
<1>4. CASE Start
  BY <1>3, <1>4 DEF Start, OneConnection
<1>5. CASE WriteConnects
  <2>1. rw = 0
    BY <1>5 DEF WriteConnects, OneConnection
  <2> QED
    BY <1>3, <1>5, <2>1 DEF WriteConnects
(* The steps of RL that write nothing but its own place.                   *)
<1>6. ASSUME /\ UNCHANGED <<rw, queueChan, open, lock, panic, connected, closed, sock>>
             /\ \A g \in Connections : pc'[g] = pc[g]
             /\ rw = 1 \/ UNCHANGED <<wire, queue, session>>
             /\ rw = 1 => \A g \in Connections \ {1} : wire'[g] = wire[g] /\ queue'[g] = queue[g] /\ session'[g] = session[g]
             /\ pc'[RL] \in CalmLabels
             /\ pc'[RL] \in {"start", "ko", "lock"} => rw = 0
             /\ pc'[RL] = "lock" => ret'[RL] = "select"
             /\ pc'[RL] \in {"push", "pushNil"} => slot' = 1
      PROVE  OneConnection'
  <2>1. \A g \in Connections : g > rw => wire'[g] = wire[g] /\ queue'[g] = queue[g] /\ session'[g] = session[g]
    <3>1. \A g \in Connections : g > 1 => g # 1
      BY <1>0, <1>1
    <3> QED
      BY <1>6, <3>1
  <2> QED
    BY <1>6, <2>1 DEF OneConnection
<1>7. CASE Receive \/ WriteConnected \/ ChooseDatabase
  <2>1. PICK l \in {"write", "database", "select", "resp", "changer"} : pc' = [pc EXCEPT ![RL] = l]
    BY <1>7 DEF Receive, WriteConnected, ChooseDatabase, Goto
  <2>2. UNCHANGED <<rw, queueChan, open, lock, panic, connected, closed, sock, wire, queue, session>>
    BY <1>7 DEF Receive, WriteConnected, ChooseDatabase, fields, chans, network
  <2>3. pc'[RL] = l /\ \A g \in Connections : pc'[g] = pc[g]
    BY <1>0, <1>1, <2>1
  <2> QED
    BY <1>6, <2>1, <2>2, <2>3 DEF CalmLabels
<1>8. CASE ChangeDB \/ WriteResp
  <2>1. rw = 1 /\ sock[rw] = "up" /\ 1 \in Connections
    BY <1>1, <1>2, <1>8 DEF OneConnection, ChangeDB, WriteResp, Sending
  <2>2. ~WriteFails
    BY <2>1 DEF WriteFails
  <2>3. /\ pc' = [pc EXCEPT ![RL] = IF ChangeDB THEN "loadNil" ELSE "load"]
        /\ UNCHANGED <<rw, queueChan, open, lock, panic, connected, closed, sock, queue>>
        /\ \E e : wire' = [wire EXCEPT ![1] = Append(@, e)]
        /\ session' = session \/ \E d : session' = [session EXCEPT ![1] = d]
    <3>1. CASE ChangeDB
      BY <2>1, <2>2, <3>1 DEF ChangeDB, Goto, Delivered, chans
    <3>2. CASE WriteResp /\ ~ChangeDB
      BY <2>1, <2>2, <3>2 DEF WriteResp, Goto, Delivered, chans, fields
    <3> QED
      BY <1>8, <3>1, <3>2
  <2>4. pc'[RL] \in {"loadNil", "load"} /\ \A g \in Connections : pc'[g] = pc[g]
    BY <1>0, <1>1, <2>3
  <2>5. \A g \in Connections \ {1} : wire'[g] = wire[g] /\ queue'[g] = queue[g] /\ session'[g] = session[g]
    BY <1>0, <2>1, <2>3
  <2> QED
    BY <1>6, <2>1, <2>3, <2>4, <2>5 DEF CalmLabels
<1>9. CASE Load
  <2>1. rw = 1 /\ slot' = 1 /\ UNCHANGED <<rw, queueChan, open, lock, panic, connected, closed, sock, wire, queue, session>>
    BY <1>2, <1>9 DEF Load, Sending, OneConnection, fields, chans, network
  <2>2. pc'[RL] \in {"push", "pushNil"} /\ \A g \in Connections : pc'[g] = pc[g]
    BY <1>0, <1>1, <1>9 DEF Load, Goto
  <2> QED
    BY <1>6, <2>1, <2>2 DEF CalmLabels
<1>10. CASE Push
  <2>1. rw = 1 /\ slot = 1 /\ ~closed[slot] /\ 1 \in Connections
    BY <1>1, <1>2, <1>10 DEF Push, Sending, OneConnection
  <2>2. /\ UNCHANGED <<rw, queueChan, open, lock, panic, connected, closed, sock, wire, session>>
        /\ \E e : queue' = [queue EXCEPT ![1] = Append(@, e)]
    BY <1>10, <2>1 DEF Push, fields, network
  <2>3. pc'[RL] \in {"select", "resp"} /\ \A g \in Connections : pc'[g] = pc[g]
    BY <1>0, <1>1, <1>10, <2>1 DEF Push, Goto
  <2>4. \A g \in Connections \ {1} : queue'[g] = queue[g]
    BY <1>0, <2>1, <2>2
  <2> QED
    BY <1>6, <2>1, <2>2, <2>3, <2>4 DEF CalmLabels
<1>11. CASE WriteFailed
  <2>1. rw = 0 /\ UNCHANGED <<rw, queueChan, open, lock, panic, connected, closed, sock, wire, queue, session>>
    BY <1>11 DEF WriteFailed, OneConnection, fields, chans, network
  <2>2. pc'[RL] = "lock" /\ ret'[RL] = "select" /\ \A g \in Connections : pc'[g] = pc[g]
    BY <1>0, <1>1, <1>11 DEF WriteFailed, CallDisconnect, Goto
  <2> QED
    BY <1>6, <2>1, <2>2 DEF CalmLabels
<1>12. CASE Lock(RL)
  <2>1. rw = 0 /\ queueChan = Nil /\ ret[RL] = "select" /\ ~connected
    BY <1>12 DEF Lock, OneConnection, Nil
  <2>2. UNCHANGED <<rw, queueChan, open, lock, panic, closed, sock, wire, queue, session>> /\ connected' = FALSE
    BY <1>12, <2>1 DEF Lock, network
  <2>3. pc'[RL] = "select" /\ \A g \in Connections : pc'[g] = pc[g]
    BY <1>0, <1>1, <1>12, <2>1 DEF Lock, Goto
  <2>4. connected' = connected
    BY <1>0, <2>1, <2>2
  <2> QED
    BY <1>6, <2>2, <2>3, <2>4 DEF CalmLabels
<1>13. CASE rw = 1 /\ 1 \in Connections /\ (Recv(1) \/ ReadReply(1))
  <2>1. UNCHANGED <<rw, queueChan, open, lock, panic, connected, closed, sock, session, ret, slot>>
    BY <1>13 DEF Recv, ReadReply, fields, chans, network
  <2>2. pc'[1] \in {"recv", "read"} /\ pc'[RL] = pc[RL] /\ \A g \in Connections \ {1} : pc'[g] = pc[g]
    BY <1>0, <1>1, <1>13 DEF Recv, ReadReply, Goto
  <2>3. \A g \in Connections \ {1} : wire'[g] = wire[g] /\ queue'[g] = queue[g]
    BY <1>0, <1>13 DEF Recv, ReadReply, network, chans
  <2>4. \A g \in Connections : g > 1 => g # 1
    BY <1>0, <1>1
  <2> QED
    BY <1>13, <2>1, <2>2, <2>3, <2>4 DEF OneConnection
<1>14. CASE (\E r \in Inputs : Send(r)) \/ (\E m \in Modes : Reload(m)) \/ Elapse
  <2>1. UNCHANGED <<rw, queueChan, open, lock, panic, connected, closed, sock, wire, queue, session, pc, ret, slot>>
    BY <1>14 DEF Send, Reload, Elapse, fields, chans, threads, network
  <2> QED
    BY <2>1 DEF OneConnection
<1> QED
  BY <1>4, <1>5, <1>7, <1>8, <1>9, <1>10, <1>11, <1>12, <1>13, <1>14, CalmActions

(* The answers stay in step, and so what is written for a request is its   *)
(* own answer or the error.                                                *)
LEMMA InStepStep ==
    ASSUME IndInv, OneConnection, InStep, RepliesMatch, Calm, Next PROVE InStep' /\ RepliesMatch'
<1>0. /\ rw \in 0..MaxConns /\ MaxConns \in Nat /\ MaxRequests \in Nat /\ pc \in [Threads -> Labels]
      /\ hand \in [Threads -> 0..MaxRequests] /\ Threads = 0..MaxConns /\ Connections = 1..MaxConns /\ RL = 0
      /\ queue \in [Connections -> Seq(0..MaxRequests)] /\ wire \in [Connections -> Seq(0..MaxRequests)]
      /\ answers \in [Ids -> Seq(-1..MaxRequests)]
  BY ClientAssumption DEF IndInv, TypeOK, FieldTypes, ChannelTypes, ThreadTypes, NetworkTypes, HistoryTypes,
     Threads, Connections, RL
<1>1. RL \in Threads /\ Connections \subseteq Threads /\ RL # 1 /\ (rw = 1 => 1 \in Connections /\ 1 \in Threads)
  BY <1>0
<1>2. pc[RL] \in Sending => rw = 1
  BY DEF IndInv, DialledBeforeWrite, OneConnection
<1>3. Before \in {0, 1} /\ After \in {0, 1}
  BY DEF Before, After
<1>4. ASSUME NEW i \in Ids, NEW a \in {KO, i}, answers' = Answered(i, a) PROVE RepliesMatch'
  <2>1. a \in -1..MaxRequests
    BY <1>0 DEF KO, Ids
  <2>2. /\ Len(Append(answers[i], a)) = Len(answers[i]) + 1 /\ Append(answers[i], a)[Len(answers[i]) + 1] = a
        /\ \A k \in 1..Len(answers[i]) : Append(answers[i], a)[k] = answers[i][k]
        /\ DOMAIN Append(answers[i], a) = 1..(Len(answers[i]) + 1) /\ DOMAIN answers[i] = 1..Len(answers[i])
        /\ Len(answers[i]) \in Nat
    BY <1>0, <2>1
  <2>3. \A k \in DOMAIN Append(answers[i], a) : Append(answers[i], a)[k] \in {KO, i}
    BY <1>4, <2>2 DEF RepliesMatch
  <2> QED
    BY <1>0, <1>4, <2>3 DEF RepliesMatch, Answered
<1>5. ASSUME UNCHANGED <<rw, wire, queue>>, rw = 1 => After' = After /\ Owed' = Owed /\ Before' = Before /\ hand'[1] = hand[1]
      PROVE  InStep'
  BY <1>5 DEF InStep
<1>6. CASE Start \/ WriteConnects
  <2>1. PICK yes \in {"select", "database"}, no \in {"select", "ko"} : Connect(yes, no)
    BY <1>6 DEF Start, WriteConnects
  <2>2. rw = 0 /\ UNCHANGED <<answers, wire, queue>>
    BY <1>6, <2>1 DEF Start, WriteConnects, OneConnection, Connect, history
  <2>3. InStep'
    <3>1. CASE NotDialled(no)
      BY <2>2, <3>1 DEF NotDialled, InStep
    <3>2. CASE Dialled(yes)
      <4>1. 1 \in Connections /\ pc'[1] = "recv" /\ pc'[RL] = yes
        BY <1>0, <2>2, <3>2 DEF Dialled
      <4>2. Before' = 0 /\ After' = 0
        BY <4>1 DEF Before, After
      <4>3. wire'[1] = <<>> /\ queue'[1] = <<>>
        BY <1>0, <2>2, <4>1 DEF OneConnection
      <4>4. Len(wire'[1]) = 0 /\ Len(queue'[1]) = 0
        BY <4>3
      <4> QED
        BY <4>2, <4>4 DEF InStep, Matched
    <3> QED
      BY <2>1, <3>1, <3>2 DEF Connect
  <2> QED
    BY <2>2, <2>3 DEF RepliesMatch
<1>7. CASE Receive \/ WriteConnected \/ ChooseDatabase \/ WriteFailed \/ Lock(RL)
  <2>1. pc[RL] \in {"select", "write", "database", "ko", "lock"} /\ UNCHANGED <<rw, wire, queue>>
    BY <1>7 DEF Receive, WriteConnected, ChooseDatabase, WriteFailed, Lock, network, chans, fields
  <2>2. PICK l \in {"select", "write", "database", "resp", "changer", "lock"} : pc' = [pc EXCEPT ![RL] = l]
    BY <1>7 DEF Receive, WriteConnected, ChooseDatabase, WriteFailed, Lock, CallDisconnect, Goto, OneConnection, Nil
  <2>3. rw = 1 => hand'[1] = hand[1]
    BY <1>0, <1>1, <1>7 DEF Receive, WriteConnected, ChooseDatabase, WriteFailed, Lock
  <2>4. After' = After /\ Owed' = Owed
    BY <1>0, <1>1, <2>1, <2>2 DEF After, Owed
  <2>5. rw = 1 => Before' = Before
    BY <1>0, <1>1, <2>2 DEF Before
  <2>6. InStep'
    BY <1>5, <2>1, <2>3, <2>4, <2>5
  <2>7. RepliesMatch'
    <3>1. CASE WriteFailed
      BY <1>4, <3>1, HandKnown DEF WriteFailed, Handling
    <3>2. CASE ~WriteFailed
      <4>1. answers' = answers
        BY <1>7, <3>2 DEF Receive, WriteConnected, ChooseDatabase, Lock, history
      <4> QED
        BY <4>1 DEF RepliesMatch
    <3> QED
      BY <3>1, <3>2
  <2> QED
    BY <2>6, <2>7
(* The server answers what is written.                                     *)
<1>8. CASE ChangeDB \/ WriteResp
  <2>1. rw = 1 /\ sock[rw] = "up" /\ 1 \in Connections /\ ~WriteFails
    BY <1>1, <1>2, <1>8 DEF OneConnection, ChangeDB, WriteResp, Sending, WriteFails
  <2> DEFINE e == IF ChangeDB THEN Marker ELSE hand[RL]
  <2>2. /\ pc' = [pc EXCEPT ![RL] = IF ChangeDB THEN "loadNil" ELSE "load"]
        /\ UNCHANGED <<rw, queue, hand, answers>>
        /\ wire' = [wire EXCEPT ![1] = Append(@, e)]
    <3>1. CASE ChangeDB
      BY <2>1, <3>1 DEF ChangeDB, Goto, Delivered, chans, history
    <3>2. CASE WriteResp /\ ~ChangeDB
      BY <2>1, <3>2 DEF WriteResp, Goto, Delivered, chans, fields
    <3> QED
      BY <1>8, <3>1, <3>2
  <2>3. e \in 0..MaxRequests /\ wire'[1] = Append(wire[1], e) /\ queue'[1] = queue[1] /\ hand'[1] = hand[1]
    BY <1>0, <1>1, <2>1, <2>2 DEF Marker
  <2>4. After = 0 /\ After' = 1 /\ Owed' = e
    BY <1>0, <1>1, <1>8, <2>2 DEF ChangeDB, WriteResp, After, Owed
  <2>5. Before' = Before
    BY <1>0, <1>1, <2>2 DEF Before
  <2> HIDE DEF e
  <2>6. Matched(Append(wire[1], e), queue[1], Before, hand[1], 1, e)
    <3> DEFINE S == 0..MaxRequests
    <3>1. wire[1] \in Seq(S) /\ queue[1] \in Seq(S) /\ e \in S
      BY <1>0, <2>1, <2>3
    <3>2. Matched(wire[1], queue[1], Before, hand[1], 0, Owed)
      BY <2>1, <2>4 DEF InStep
    <3> HIDE DEF S
    <3> QED
      BY <1>3, <3>1, <3>2, MatchedWrite
  <2> QED
    BY <2>1, <2>2, <2>3, <2>4, <2>5, <2>6 DEF InStep, RepliesMatch
<1>9. CASE Load
  <2>1. UNCHANGED <<rw, wire, queue, hand, answers>>
    BY <1>9 DEF Load, fields, chans, network, history
  <2>2. After' = After /\ Owed' = Owed
    BY <1>0, <1>1, <1>9 DEF Load, Goto, After, Owed
  <2>3. rw = 1 => Before' = Before
    BY <1>0, <1>1, <1>9 DEF Load, Goto, Before
  <2> QED
    BY <1>5, <2>1, <2>2, <2>3 DEF RepliesMatch
(* What is queued is what was written last.                                *)
<1>10. CASE Push
  <2>1. rw = 1 /\ slot = 1 /\ ~closed[slot] /\ 1 \in Connections
    BY <1>1, <1>2, <1>10 DEF Push, Sending, OneConnection
  <2>2. UNCHANGED <<rw, wire, hand, answers>> /\ queue' = [queue EXCEPT ![1] = Append(@, Owed)]
    BY <1>10, <2>1 DEF Push, fields, network, history, Owed
  <2>3. After = 1 /\ After' = 0
    BY <1>0, <1>1, <1>10, <2>1 DEF Push, Goto, After
  <2>4. Before' = Before
    BY <1>0, <1>1, <1>10, <2>1 DEF Push, Goto, Before
  <2>5. Matched(wire[1], Append(queue[1], Owed), Before, hand[1], 0, Owed')
    <3> DEFINE S == 0..MaxRequests
    <3>1. wire[1] \in Seq(S) /\ queue[1] \in Seq(S) /\ Owed \in S
      BY <1>0, <1>1, <2>1 DEF Owed, Marker
    <3>2. Matched(wire[1], queue[1], Before, hand[1], 1, Owed)
      BY <2>1, <2>3 DEF InStep
    <3> HIDE DEF S
    <3> QED
      BY <1>3, <3>1, <3>2, MatchedPush
  <2>6. queue'[1] = Append(queue[1], Owed)
    BY <1>0, <2>1, <2>2
  <2> QED
    BY <2>1, <2>2, <2>3, <2>4, <2>5, <2>6 DEF InStep, RepliesMatch
<1>11. CASE rw = 1 /\ 1 \in Connections /\ Recv(1)
  <2>1. /\ pc[1] = "recv" /\ queue[1] # <<>> /\ UNCHANGED <<rw, wire, answers>>
        /\ hand' = [hand EXCEPT ![1] = Head(queue[1])] /\ queue' = [queue EXCEPT ![1] = Tail(@)]
        /\ pc' = [pc EXCEPT ![1] = "read"]
    BY <1>11 DEF Recv, Goto, fields, network, history
  <2>2. hand'[1] = Head(queue[1]) /\ queue'[1] = Tail(queue[1]) /\ pc'[1] = "read" /\ pc'[RL] = pc[RL] /\ hand'[RL] = hand[RL]
    BY <1>0, <1>1, <1>11, <2>1
  <2>3. Before = 0 /\ Before' = 1 /\ After' = After /\ Owed' = Owed
    BY <2>1, <2>2 DEF Before, After, Owed
  <2>4. Matched(wire[1], Tail(queue[1]), 1, Head(queue[1]), After, Owed)
    <3> DEFINE S == 0..MaxRequests
    <3>1. wire[1] \in Seq(S) /\ queue[1] \in Seq(S)
      BY <1>0, <1>11
    <3>2. Matched(wire[1], queue[1], 0, hand[1], After, Owed)
      BY <1>11, <2>3 DEF InStep
    <3> HIDE DEF S
    <3> QED
      BY <1>3, <2>1, <3>1, <3>2, MatchedRecv
  <2> QED
    BY <2>1, <2>2, <2>3, <2>4 DEF InStep, RepliesMatch
(* The first answer on the wire belongs to what the listener holds.        *)
<1>12. CASE rw = 1 /\ 1 \in Connections /\ ReadReply(1)
  <2>1. /\ pc[1] = "read" /\ wire[1] # <<>> /\ UNCHANGED <<rw, queue, hand>>
        /\ wire' = [wire EXCEPT ![1] = Tail(@)] /\ pc' = [pc EXCEPT ![1] = "recv"]
        /\ answers' = IF hand[1] = Marker THEN answers ELSE Answered(hand[1], Head(wire[1]))
    BY <1>12 DEF ReadReply, Goto, fields, chans
  <2>2. wire'[1] = Tail(wire[1]) /\ pc'[1] = "recv" /\ pc'[RL] = pc[RL] /\ hand[1] \in 0..MaxRequests
    BY <1>0, <1>1, <1>12, <2>1
  <2>3. Before = 1 /\ Before' = 0 /\ After' = After /\ Owed' = Owed
    BY <2>1, <2>2 DEF Before, After, Owed
  <2>4. Head(wire[1]) = hand[1] /\ Matched(Tail(wire[1]), queue[1], 0, hand[1], After, Owed)
    <3> DEFINE S == 0..MaxRequests
    <3>1. wire[1] \in Seq(S) /\ queue[1] \in Seq(S)
      BY <1>0, <1>12
    <3>2. Matched(wire[1], queue[1], 1, hand[1], After, Owed)
      BY <1>12, <2>3 DEF InStep
    <3> HIDE DEF S
    <3> QED
      BY <1>3, <2>1, <3>1, <3>2, MatchedRead
  <2>5. InStep'
    BY <2>1, <2>2, <2>3, <2>4 DEF InStep
  <2>6. CASE hand[1] = Marker
    BY <2>1, <2>5, <2>6 DEF RepliesMatch
  <2>7. CASE hand[1] # Marker
    <3>1. hand[1] \in Ids /\ answers' = Answered(hand[1], hand[1])
      BY <1>0, <2>1, <2>2, <2>4, <2>7 DEF Ids, Marker
    <3> QED
      BY <1>4, <2>5, <3>1
  <2> QED
    BY <2>6, <2>7
<1>13. ASSUME NEW r \in Inputs, Send(r) PROVE InStep' /\ RepliesMatch'
  <2>1. UNCHANGED <<rw, wire, queue, hand, pc>>
    BY <1>13 DEF Send, fields, threads, network
  <2>2. InStep'
    BY <1>5, <2>1 DEF After, Owed, Before
  <2>3. CASE answers' = answers
    BY <2>2, <2>3 DEF RepliesMatch
  <2>4. CASE answers' # answers
    <3> DEFINE n == Len(reqs) + 1
    <3>1. n \in Ids /\ answers' = [answers EXCEPT ![n] = Append(@, KO)]
      <4>1. Len(reqs) \in Nat
        BY DEF IndInv, TypeOK, HistoryTypes
      <4> QED
        BY <1>0, <1>13, <2>4, <4>1 DEF Send, Ids
    <3> HIDE DEF n
    <3>3. /\ Append(answers[n], KO)[Len(answers[n]) + 1] = KO
          /\ \A k \in 1..Len(answers[n]) : Append(answers[n], KO)[k] = answers[n][k]
          /\ DOMAIN Append(answers[n], KO) = 1..(Len(answers[n]) + 1) /\ DOMAIN answers[n] = 1..Len(answers[n])
          /\ Len(answers[n]) \in Nat
      <4>1. KO \in -1..MaxRequests
        BY <1>0 DEF KO
      <4> QED
        BY <1>0, <3>1, <4>1
    <3>4. \A k \in DOMAIN Append(answers[n], KO) : Append(answers[n], KO)[k] \in {KO, n}
      BY <3>1, <3>3 DEF RepliesMatch
    <3>5. RepliesMatch'
      BY <1>0, <3>1, <3>4 DEF RepliesMatch
    <3> QED
      BY <2>2, <3>5
  <2> QED
    BY <2>3, <2>4
<1>14. CASE (\E m \in Modes : Reload(m)) \/ Elapse
  <2>1. UNCHANGED <<rw, wire, queue, hand, pc, answers>>
    BY <1>14 DEF Reload, Elapse, chans, threads, network, history
  <2> QED
    BY <1>5, <2>1 DEF After, Owed, Before, RepliesMatch
<1> QED
  BY <1>6, <1>7, <1>8, <1>9, <1>10, <1>11, <1>12, <1>13, <1>14, CalmActions

(* The client knows the database its connection is in, and so it runs no   *)
(* command before it has changed to the database of the command.           *)
LEMMA DatabaseStep ==
    ASSUME IndInv, OneConnection, DatabaseKnown, CommandsRunInOwnDatabase, Calm, Next
    PROVE  DatabaseKnown' /\ CommandsRunInOwnDatabase'
<1>r. reqs \in Seq(Inputs) /\ Len(reqs) \in Nat
  BY DEF IndInv, TypeOK, HistoryTypes
<1>0. /\ rw \in 0..MaxConns /\ MaxConns \in Nat /\ MaxRequests \in Nat /\ pc \in [Threads -> Labels]
      /\ hand \in [Threads -> 0..MaxRequests] /\ Threads = 0..MaxConns /\ Connections = 1..MaxConns /\ RL = 0
      /\ session \in [Connections -> Nat] /\ ranIn \in [Ids -> SUBSET Nat]
  BY ClientAssumption DEF IndInv, TypeOK, FieldTypes, ChannelTypes, ThreadTypes, NetworkTypes, HistoryTypes,
     Threads, Connections, RL
<1>1. RL \in Threads /\ RL # 1 /\ (rw = 1 => 1 \in Connections /\ 1 \in Threads)
  BY <1>0
<1>2. pc[RL] \in Sending => rw = 1
  BY DEF IndInv, DialledBeforeWrite, OneConnection
<1>3. rw = 0 \/ rw = 1
  BY DEF OneConnection
<1>4. CASE Start \/ WriteConnects
  <2>1. PICK yes \in {"select", "database"}, no \in {"select", "ko"} : Connect(yes, no)
    BY <1>4 DEF Start, WriteConnects
  <2>2. rw = 0 /\ UNCHANGED <<database, session, reqs, ranIn, hand>>
    BY <1>4, <2>1 DEF Start, WriteConnects, OneConnection, Connect, history
  <2>3. pc'[RL] \in {"select", "database", "ko"}
    BY <1>0, <1>1, <2>1 DEF Connect, Dialled, NotDialled, Goto
  <2>4. rw' = 0 \/ (rw' = 1 /\ session[1] = 0)
    <3>1. CASE NotDialled(no)
      BY <2>2, <3>1 DEF NotDialled
    <3>2. CASE Dialled(yes)
      <4>1. rw' = 1 /\ 1 \in Connections
        BY <1>0, <2>2, <3>2 DEF Dialled
      <4> QED
        BY <1>0, <2>2, <4>1, SMTT(30) DEF OneConnection
    <3> QED
      BY <2>1, <3>1, <3>2 DEF Connect
  <2>5. database = 0
    BY <2>2 DEF DatabaseKnown
  <2> QED
    BY <2>2, <2>3, <2>4, <2>5 DEF DatabaseKnown, CommandsRunInOwnDatabase
<1>5. CASE Receive \/ WriteConnected \/ WriteFailed
  <2>1. /\ UNCHANGED <<rw, database, session, reqs, ranIn>> /\ pc[RL] \in {"select", "write", "ko"}
    BY <1>5 DEF Receive, WriteConnected, WriteFailed, fields, network, history
  <2>2. pc'[RL] \in {"write", "database", "lock"}
    BY <1>0, <1>1, <1>5 DEF Receive, WriteConnected, WriteFailed, CallDisconnect, Goto
  <2> QED
    BY <2>1, <2>2 DEF DatabaseKnown, CommandsRunInOwnDatabase
<1>6. CASE ChooseDatabase
  <2> DEFINE r == reqs[hand[RL]]
  <2>1. /\ pc[RL] = "database" /\ rw = 1 /\ UNCHANGED <<rw, session, hand, reqs, ranIn>>
    BY <1>2, <1>6 DEF ChooseDatabase, Sending, network, history
  <2>2. database = session[1]
    BY <2>1 DEF DatabaseKnown
  <2>3. \/ pc'[RL] = "select" /\ database' = database
        \/ pc'[RL] = "resp" /\ r.sel /\ database' = r.db
        \/ pc'[RL] = "changer" /\ ~r.sel /\ database' = database
        \/ pc'[RL] = "resp" /\ ~r.sel /\ database' = database /\ database = r.db
    BY <1>0, <1>1, <1>6 DEF ChooseDatabase, Goto, NeedsChange
  <2> QED
    BY <2>1, <2>2, <2>3 DEF DatabaseKnown, CommandsRunInOwnDatabase
<1>7. CASE ChangeDB
  <2>1. rw = 1 /\ sock[rw] = "up" /\ 1 \in Connections /\ ~WriteFails /\ pc[RL] = "changer"
    BY <1>1, <1>2, <1>7 DEF OneConnection, ChangeDB, Sending, WriteFails
  <2>2. /\ UNCHANGED <<rw, hand, reqs, ranIn>> /\ pc'[RL] = "loadNil"
        /\ database' = reqs[hand[RL]].db /\ session' = [session EXCEPT ![1] = reqs[hand[RL]].db]
    BY <1>0, <1>1, <1>7, <2>1 DEF ChangeDB, Goto, history
  <2>3. session'[1] = database' /\ ~reqs[hand[RL]].sel
    BY <1>0, <2>1, <2>2 DEF DatabaseKnown
  <2> QED
    BY <2>1, <2>2, <2>3 DEF DatabaseKnown, CommandsRunInOwnDatabase
(* The command runs in the database the session has by now.                *)
<1>8. CASE WriteResp
  <2> DEFINE i == hand[RL]
             r == reqs[i]
  <2>1. rw = 1 /\ sock[rw] = "up" /\ 1 \in Connections /\ ~WriteFails /\ pc[RL] = "resp"
    BY <1>1, <1>2, <1>8 DEF OneConnection, CalmLabels, WriteResp, Sending, WriteFails
  <2>2. /\ UNCHANGED <<rw, database, hand, reqs>> /\ pc'[RL] = "load"
        /\ session' = IF r.sel THEN [session EXCEPT ![1] = r.db] ELSE session
        /\ ranIn' = IF ~r.sel THEN [ranIn EXCEPT ![i] = @ \cup {session[1]}] ELSE ranIn
    BY <1>0, <1>1, <1>8, <2>1 DEF WriteResp, Goto, fields
  <2>3. i \in Ids /\ i \in 1..Len(reqs)
    BY <2>1, HandKnown DEF Handling, Sending
  <2>4. database = r.db /\ (~r.sel => database = session[1])
    BY <2>1 DEF DatabaseKnown
  <2>5. session'[1] = database
    BY <1>0, <2>1, <2>2, <2>4
  <2>6. \A j \in Ids : ranIn'[j] = ranIn[j] \/ (j = i /\ ranIn'[j] = ranIn[j] \cup {r.db})
    BY <1>0, <2>2, <2>3, <2>4
  <2>7. ~(i > Len(reqs))
    BY <1>r, <2>3
  <2>8. DatabaseKnown'
    BY <2>1, <2>2, <2>5, <2>6, <2>7 DEF DatabaseKnown
  <2>9. CommandsRunInOwnDatabase'
    BY <2>2, <2>6 DEF CommandsRunInOwnDatabase
  <2> QED
    BY <2>8, <2>9
<1>9. CASE Load \/ Push
  <2>1. rw = 1 /\ UNCHANGED <<rw, database, session, hand, reqs, ranIn>>
    BY <1>2, <1>9 DEF Load, Push, Sending, fields, network, history
  <2>2. \/ pc[RL] \in {"load", "push"} /\ pc'[RL] \in {"push", "select"}
        \/ pc[RL] \in {"loadNil", "pushNil"} /\ pc'[RL] \in {"pushNil", "resp"}
    BY <1>0, <1>1, <1>9 DEF Load, Push, Goto, OneConnection
  <2> QED
    BY <2>1, <2>2 DEF DatabaseKnown, CommandsRunInOwnDatabase
<1>10. CASE Lock(RL)
  <2>1. rw = 0 /\ queueChan = Nil /\ ret[RL] = "select"
    BY <1>10 DEF Lock, OneConnection, Nil
  <2>2. UNCHANGED <<rw, session, hand, reqs, ranIn>> /\ database' = 0 /\ pc'[RL] = "select"
    BY <1>0, <1>1, <1>10, <2>1 DEF Lock, Goto, network, history
  <2> QED
    BY <2>1, <2>2 DEF DatabaseKnown, CommandsRunInOwnDatabase
<1>11. CASE rw = 1 /\ 1 \in Connections /\ (Recv(1) \/ ReadReply(1))
  <2>1. UNCHANGED <<rw, database, session, reqs, ranIn>> /\ pc'[RL] = pc[RL] /\ hand'[RL] = hand[RL]
    BY <1>0, <1>1, <1>11 DEF Recv, ReadReply, Goto, fields, network, history
  <2> QED
    BY <2>1 DEF DatabaseKnown, CommandsRunInOwnDatabase
<1>12. ASSUME NEW q \in Inputs, Send(q) PROVE DatabaseKnown' /\ CommandsRunInOwnDatabase'
  <2>1. UNCHANGED <<rw, database, session, hand, pc, ranIn>> /\ reqs' = Append(reqs, q)
    BY <1>12 DEF Send, fields, threads, network
  <2>2. Len(reqs') = Len(reqs) + 1 /\ \A j \in 1..Len(reqs) : reqs'[j] = reqs[j]
    BY <1>r, <2>1
  <2>3. pc[RL] \in Sending => reqs'[hand[RL]] = reqs[hand[RL]]
    BY <2>2, HandKnown DEF Handling
  <2>4. \A j \in Ids : j > Len(reqs') => j > Len(reqs)
    BY <1>r, <2>2 DEF Ids
  <2>5. DatabaseKnown'
    BY <2>1, <2>3, <2>4 DEF DatabaseKnown, Sending
  <2>6. \A j \in Ids : j \in 1..Len(reqs) \/ j > Len(reqs)
    BY <1>r DEF Ids
  <2>7. CommandsRunInOwnDatabase'
    BY <2>1, <2>2, <2>6 DEF DatabaseKnown, CommandsRunInOwnDatabase
  <2> QED
    BY <2>5, <2>7
<1>13. CASE (\E m \in Modes : Reload(m)) \/ Elapse
  <2>1. UNCHANGED <<rw, database, session, hand, pc, reqs, ranIn>>
    BY <1>13 DEF Reload, Elapse, threads, network, history
  <2> QED
    BY <2>1 DEF DatabaseKnown, CommandsRunInOwnDatabase
<1> QED
  BY <1>4, <1>5, <1>6, <1>7, <1>8, <1>9, <1>10, <1>11, <1>12, <1>13, CalmActions

(* While only dials may fail the client is always in the calm invariant.   *)
LEMMA CalmInvariance == ASSUME Calm PROVE Spec => []CalmInv
<1>1. Init => CalmInv
  <2> SUFFICES ASSUME Init PROVE CalmInv
    OBVIOUS
  <2>1. /\ rw = 0 /\ queueChan = 0 /\ open /\ lock = Nobody /\ panic = "none" /\ ~connected /\ pc[RL] = "start"
        /\ database = 0 /\ \A i \in Ids : ranIn[i] = {} /\ answers[i] = <<>>
    BY ClientAssumption DEF Init, Threads, RL, Nil
  <2>2. \A g \in Connections : /\ g > 0 /\ ~(g <= 0) /\ ~closed[g] /\ pc[g] = "off" /\ wire[g] = <<>> /\ queue[g] = <<>>
                                /\ session[g] = 0
    BY ClientAssumption DEF Init, Threads, Connections, RL
  <2>3. OneConnection
    BY <2>1, <2>2 DEF OneConnection, CalmLabels
  <2>4. InStep /\ DatabaseKnown
    BY <2>1 DEF InStep, DatabaseKnown
  <2>5. RepliesMatch
    BY <2>1 DEF RepliesMatch
  <2>6. CommandsRunInOwnDatabase
    BY <2>1 DEF CommandsRunInOwnDatabase
  <2> QED
    BY <2>3, <2>4, <2>5, <2>6 DEF CalmInv
<1>2. IndInv /\ CalmInv /\ [Next]_vars => CalmInv'
  <2>1. ASSUME CalmInv, UNCHANGED vars PROVE CalmInv'
    BY <2>1 DEF vars, fields, chans, threads, network, history, CalmInv, OneConnection, InStep, Before, After, Owed,
       DatabaseKnown, RepliesMatch, CommandsRunInOwnDatabase
  <2>2. ASSUME IndInv, CalmInv, Next PROVE CalmInv'
    BY <2>2, ConnectionStep, InStepStep, DatabaseStep DEF CalmInv
  <2> QED
    BY <2>1, <2>2
<1> QED
  BY <1>1, <1>2, Invariance, PTL DEF Spec

(* As long as the connection to Redis holds, what the server answers to a  *)
(* request is written to the local connection that issued it: the entries  *)
(* that requestListener queues after each write, the nil entry of changeDB *)
(* included, stay in step with the answers that redisListener reads.       *)
THEOREM AnswersBelong == ASSUME Calm PROVE Spec => []RepliesMatch
<1>1. CalmInv => RepliesMatch
  BY DEF CalmInv
<1> QED
  BY <1>1, CalmInvariance, PTL

(* As long as the connection to Redis holds, a command runs in the         *)
(* database that the local connection it comes from had selected.          *)
THEOREM RightDatabase == ASSUME Calm PROVE Spec => []CommandsRunInOwnDatabase
<1>1. CalmInv => CommandsRunInOwnDatabase
  BY DEF CalmInv
<1> QED
  BY <1>1, CalmInvariance, PTL

-----------------------------------------------------------------------------
(* The order of the answers, while the connection holds and the relayer    *)
(* forwards every command, as it does outside smart mode: no request that  *)
(* waits for an answer is lost, and the queue holds them in the order they *)
(* were issued.                                                            *)
Plain == Calm /\ Modes \subseteq {FALSE}

Placed(i) == Waiting(i) \/ (Works /\ hand[RL] = i) \/ Queued(i) \/ \E g \in Connections : Reading(g, i)
NoneLost == \A i \in Ids : i <= Len(reqs) /\ reqs[i].sync /\ answers[i] = <<>> => Placed(i)
Sorted ==
    rw = 1 =>
        /\ \A j, k \in 1..Len(queue[1]) :
              j < k /\ queue[1][j] # Marker /\ queue[1][k] # Marker => queue[1][j] < queue[1][k]
        /\ pc[1] = "read" /\ hand[1] # Marker =>
              \A k \in 1..Len(queue[1]) : queue[1][k] # Marker => hand[1] < queue[1][k]
OrderInv == smart = FALSE /\ NoneLost /\ Sorted

(* An answer that is written fills an empty place, if the request waits.   *)
LEMMA AnsweredFills ==
    ASSUME HistoryTypes, NEW i \in Ids, NEW a \in -1..MaxRequests, answers' = Answered(i, a), answers[i] = <<>>
    PROVE  /\ reqs[i].sync => answers'[i] = <<a>> /\ answers'[i] # <<>>
           /\ \A j \in Ids \ {i} : answers'[j] = answers[j]
<1>1. Append(<<>>, a) = <<a>> /\ <<a>> # <<>>
  OBVIOUS
<1>2. CASE reqs[i].sync
  BY <1>1, <1>2 DEF HistoryTypes, Answered
<1>3. CASE ~reqs[i].sync
  BY <1>3 DEF HistoryTypes, Answered
<1> QED
  BY <1>2, <1>3

(* No request is lost and the queue stays in order.                        *)
LEMMA OrderStep == ASSUME IndInv, OnceInv, OneConnection, OrderInv, Plain, Next PROVE OrderInv'
<1>0. /\ rw \in 0..MaxConns /\ MaxConns \in Nat /\ MaxRequests \in Nat /\ pc \in [Threads -> Labels]
      /\ hand \in [Threads -> 0..MaxRequests] /\ Threads = 0..MaxConns /\ Connections = 1..MaxConns /\ RL = 0
      /\ answers \in [Ids -> Seq(-1..MaxRequests)] /\ ret \in [Threads -> Labels]
      /\ queue \in [Connections -> Seq(0..MaxRequests)] /\ Ids = 1..MaxRequests
  BY ClientAssumption DEF IndInv, TypeOK, FieldTypes, ChannelTypes, ThreadTypes, NetworkTypes, HistoryTypes,
     Threads, Connections, RL, Ids
<1>r. reqs \in Seq(Inputs) /\ Len(reqs) \in Nat /\ requestChan \in Seq(Ids) /\ HistoryTypes
  BY DEF IndInv, TypeOK, HistoryTypes, ChannelTypes
<1>1. RL \in Threads /\ RL # 1 /\ Connections \subseteq Threads /\ RL \notin Connections
      /\ (rw = 1 => 1 \in Connections /\ 1 \in Threads)
  BY <1>0
<1>2. pc[RL] \in Sending => rw = 1
  BY DEF IndInv, DialledBeforeWrite, OneConnection
<1>3. Calm /\ ~smart /\ NoneLost /\ Sorted /\ \A m \in Modes : ~Reload(m)
  BY DEF Plain, OrderInv, Reload
(* Where nothing is answered and nothing leaves its place, none is lost.   *)
<1>p. ASSUME UNCHANGED <<reqs, answers>>, \A i \in Ids : Placed(i) => Placed(i)' PROVE NoneLost'
  BY <1>3, <1>p DEF NoneLost
<1>q. ASSUME UNCHANGED <<rw, queue>>, rw = 1 => pc'[1] = pc[1] /\ hand'[1] = hand[1] PROVE Sorted'
  BY <1>3, <1>q DEF Sorted
<1>4. CASE Start \/ WriteConnects
  <2>1. PICK yes \in {"select", "database"}, no \in {"select", "ko"} : Connect(yes, no)
    BY <1>4 DEF Start, WriteConnects
  <2>2. rw = 0 /\ UNCHANGED <<smart, requestChan, queue, ret, hand, reqs, answers>>
    BY <1>4, <2>1 DEF Start, WriteConnects, OneConnection, Connect, history
  <2>3. \A g \in Connections : g > rw /\ pc[g] = "off" /\ queue[g] = <<>>
    BY <1>0, <2>2 DEF OneConnection
  <2>4. Works => Works'
    <3>1. CASE Start
      BY <3>1 DEF Start, Works, Handling, Sending, InDisconnect
    <3>2. CASE WriteConnects
      <4>1. pc'[RL] \in {"database", "ko"}
        BY <1>0, <1>1, <3>2 DEF WriteConnects, Connect, Dialled, NotDialled, Goto
      <4> QED
        BY <4>1 DEF Works, Handling, Sending
    <3> QED
      BY <1>4, <3>1, <3>2
  <2>5. NoneLost'
    <3>1. \A i \in Ids : Placed(i) => Placed(i)'
      BY <2>2, <2>3, <2>4 DEF Placed, Waiting, Queued, Reading
    <3> QED
      BY <1>p, <2>2, <3>1
  <2>6. Sorted'
    <3>1. CASE NotDialled(no)
      BY <2>2, <3>1 DEF NotDialled, Sorted
    <3>2. CASE Dialled(yes)
      <4>1. rw' = 1 /\ 1 \in Connections /\ pc'[1] = "recv"
        BY <1>0, <1>1, <2>2, <3>2 DEF Dialled
      <4>2. Len(queue'[1]) = 0
        BY <2>2, <2>3, <4>1
      <4> QED
        BY <4>1, <4>2 DEF Sorted
    <3> QED
      BY <2>1, <3>1, <3>2 DEF Connect
  <2> QED
    BY <1>3, <2>2, <2>5, <2>6 DEF OrderInv
<1>5. CASE Receive
  <2>1. /\ requestChan # <<>> /\ hand' = [hand EXCEPT ![RL] = Head(requestChan)] /\ requestChan' = Tail(requestChan)
        /\ pc' = [pc EXCEPT ![RL] = "write"] /\ UNCHANGED <<rw, smart, queue, answers, reqs>> /\ pc[RL] = "select"
    BY <1>5 DEF Receive, Goto, history, fields
  <2>2. /\ Len(requestChan') = Len(requestChan) - 1 /\ Len(requestChan) \in Nat /\ Head(requestChan) = requestChan[1]
        /\ \A k \in 1..(Len(requestChan) - 1) : requestChan'[k] = requestChan[k + 1]
    BY <1>r, <2>1, TailFacts
  <2>3. \A i \in Ids : Waiting(i) => Waiting(i)' \/ i = hand'[RL]
    <3> SUFFICES ASSUME NEW i \in Ids, NEW k \in 1..Len(requestChan), requestChan[k] = i, i # hand'[RL]
                 PROVE  Waiting(i)'
      BY DEF Waiting
    <3>1. hand'[RL] = requestChan[1]
      BY <1>0, <1>1, <2>1, <2>2
    <3>2. k - 1 \in 1..Len(requestChan') /\ requestChan'[k - 1] = i
      BY <2>2, <3>1
    <3> QED
      BY <3>2 DEF Waiting
  <2>4. pc'[RL] = "write" /\ \A g \in Connections : pc'[g] = pc[g] /\ hand'[g] = hand[g]
    BY <1>0, <1>1, <2>1
  <2>5. Works' /\ ~Works
    BY <2>1, <2>4 DEF Works, Handling, Sending, InDisconnect
  <2>6. NoneLost'
    <3>1. \A i \in Ids : (Queued(i) => Queued(i)') /\ \A g \in Connections : Reading(g, i) => Reading(g, i)'
      BY <2>1, <2>4 DEF Queued, Reading
    <3>2. \A i \in Ids : Placed(i) => Placed(i)'
      BY <2>3, <2>5, <3>1 DEF Placed
    <3> QED
      BY <1>p, <2>1, <3>2
  <2>7. Sorted'
    BY <1>1, <1>q, <2>1, <2>4
  <2> QED
    BY <1>3, <2>1, <2>6, <2>7 DEF OrderInv
(* In plain mode no command is dropped.                                    *)
<1>6. CASE WriteConnected \/ ChooseDatabase \/ ChangeDB \/ WriteResp \/ Load
  <2>1. UNCHANGED <<rw, smart, requestChan, queue, hand, reqs, answers>>
    BY <1>6 DEF WriteConnected, ChooseDatabase, ChangeDB, WriteResp, Load, fields, chans, history
  <2>2. PICK l \in Handling : pc' = [pc EXCEPT ![RL] = l]
    <3>1. ChangeDB \/ WriteResp => sock[rw] = "up" /\ ~WriteFails
      BY <1>1, <1>2 DEF OneConnection, ChangeDB, WriteResp, Sending, WriteFails
    <3>2. ChooseDatabase => ~Redundant(reqs[hand[RL]])
      BY <1>3 DEF Redundant
    <3> QED
      BY <1>6, <3>1, <3>2 DEF WriteConnected, ChooseDatabase, ChangeDB, WriteResp, Load, Goto, Handling, Sending
  <2>3. pc'[RL] = l /\ \A g \in Connections : pc'[g] = pc[g]
    BY <1>0, <1>1, <2>2 DEF Handling, Sending, Labels
  <2>4. Works'
    BY <2>2, <2>3 DEF Works
  <2>5. \A i \in Ids : Placed(i) => Placed(i)'
    BY <2>1, <2>3, <2>4 DEF Placed, Waiting, Queued, Reading
  <2>6. NoneLost'
    BY <1>p, <2>1, <2>5
  <2>7. Sorted'
    BY <1>1, <1>q, <2>1, <2>3
  <2> QED
    BY <1>3, <2>1, <2>6, <2>7 DEF OrderInv
(* What is queued is later than all that is queued already.                *)
<1>7. CASE Push
  <2> DEFINE x == IF pc[RL] = "push" THEN hand[RL] ELSE Marker
             q == queue[1]
  <2>1. rw = 1 /\ slot = 1 /\ ~closed[slot] /\ 1 \in Connections /\ Works /\ hand[RL] \in Ids
    BY <1>1, <1>2, <1>7, HandKnown DEF Push, Handling, Sending, OneConnection, Works
  <2>2. /\ UNCHANGED <<rw, smart, requestChan, hand, reqs, answers>> /\ queue' = [queue EXCEPT ![1] = Append(q, x)]
        /\ pc' = [pc EXCEPT ![RL] = IF pc[RL] = "push" THEN "select" ELSE "resp"]
    BY <1>7, <2>1 DEF Push, Goto, fields, history
  <2>3. q \in Seq(0..MaxRequests) /\ x \in 0..MaxRequests
    BY <1>0, <2>1 DEF Marker
  <2>4. queue'[1] = Append(q, x) /\ \A g \in Connections \ {1} : queue'[g] = queue[g]
    BY <1>0, <2>1, <2>2
  <2>5. \A g \in Connections : pc'[g] = pc[g]
    BY <1>0, <1>1, <2>2
  <2>x. pc[RL] \in {"push", "pushNil"} /\ (pc[RL] = "pushNil" => Works') /\ (pc[RL] = "push" => x = hand[RL])
        /\ (x # Marker => x = hand[RL])
    <3>1. pc[RL] \in {"push", "pushNil"}
      BY <1>7 DEF Push
    <3>2. pc[RL] = "pushNil" => pc'[RL] = "resp"
      BY <1>0, <1>1, <2>2
    <3> QED
      BY <3>1, <3>2 DEF Works, Handling, Sending
  <2> HIDE DEF x
  <2>6. /\ Len(Append(q, x)) = Len(q) + 1 /\ Append(q, x)[Len(q) + 1] = x /\ Len(q) \in Nat
        /\ \A k \in 1..Len(q) : Append(q, x)[k] = q[k] /\ q[k] \in 0..MaxRequests /\ k \in 1..(Len(q) + 1)
        /\ Len(q) + 1 \in 1..(Len(q) + 1)
    <3> DEFINE S == 0..MaxRequests
    <3>1. q \in Seq(S) /\ x \in S
      BY <2>3
    <3> HIDE DEF S, q
    <3>2. /\ Len(Append(q, x)) = Len(q) + 1 /\ Append(q, x)[Len(q) + 1] = x /\ Len(q) \in Nat
          /\ \A k \in 1..Len(q) : Append(q, x)[k] = q[k] /\ q[k] \in S
      BY <3>1
    <3> QED
      BY <3>2 DEF S
  <2>7. /\ \A k \in 1..Len(q) : q[k] # Marker => q[k] < hand[RL]
        /\ pc[1] = "read" /\ hand[1] # Marker => hand[1] < hand[RL]
    <3>1. \A i \in Ids : Queued(i) \/ Reading(1, i) => i <= hand[RL] /\ i # hand[RL]
      BY <2>1 DEF OnceInv, Rising
    <3>2. \A i \in Ids : i <= hand[RL] /\ i # hand[RL] => i < hand[RL]
      BY <1>0, <2>1
    <3>3. \A k \in 1..Len(q) : q[k] # Marker => q[k] \in Ids /\ Queued(q[k])
      <4>1. \A k \in 1..Len(q) : Queued(q[k])
        BY <2>1 DEF Queued
      <4>2. \A k \in 1..Len(q) : q[k] # 0 => q[k] \in Ids
        BY <1>0, <2>6, SMTT(30)
      <4> QED
        BY <4>1, <4>2 DEF Marker
    <3>4. pc[1] = "read" /\ hand[1] # Marker => hand[1] \in Ids /\ Reading(1, hand[1])
      BY <1>0, <1>1, <2>1 DEF Reading, Marker
    <3> QED
      BY <3>1, <3>2, <3>3, <3>4
  <2>8. Sorted'
    <3> DEFINE p == Append(q, x)
    <3>1. \A k \in 1..(Len(q) + 1) : (k \in 1..Len(q) /\ p[k] = q[k]) \/ (k = Len(q) + 1 /\ p[k] = x)
      BY <2>6
    <3>2. /\ \A j, k \in 1..Len(q) : j < k /\ q[j] # Marker /\ q[k] # Marker => q[j] < q[k]
          /\ pc[1] = "read" /\ hand[1] # Marker => \A k \in 1..Len(q) : q[k] # Marker => hand[1] < q[k]
      BY <1>3, <2>1 DEF Sorted
    <3>3. \A j, k \in 1..(Len(q) + 1) : j < k => j \in 1..Len(q)
      BY <2>6
    <3>4. \A j, k \in 1..(Len(q) + 1) : j < k /\ p[j] # Marker /\ p[k] # Marker => p[j] < p[k]
      <4> HIDE DEF p, q
      <4> SUFFICES ASSUME NEW j \in 1..(Len(q) + 1), NEW k \in 1..(Len(q) + 1), j < k, p[j] # Marker, p[k] # Marker
                   PROVE  p[j] < p[k]
        OBVIOUS
      <4>1. j \in 1..Len(q) /\ p[j] = q[j]
        <5>1. j \in 1..Len(q)
          BY <3>3
        <5> QED
          BY <2>6, <5>1 DEF p
      <4>2. CASE k \in 1..Len(q) /\ p[k] = q[k]
        BY <3>2, <4>1, <4>2
      <4>3. CASE p[k] = x
        BY <2>7, <2>x, <4>1, <4>3
      <4> QED
        BY <3>1, <4>2, <4>3
    <3>5. pc[1] = "read" /\ hand[1] # Marker => \A k \in 1..(Len(q) + 1) : p[k] # Marker => hand[1] < p[k]
      <4> HIDE DEF p, q
      <4> QED
        BY <2>7, <2>x, <3>1, <3>2
    <3>6. Len(queue'[1]) = Len(q) + 1 /\ queue'[1] = p /\ pc'[1] = pc[1] /\ hand'[1] = hand[1]
      BY <2>1, <2>2, <2>4, <2>5, <2>6
    <3> HIDE DEF p, q
    <3> QED
      BY <3>4, <3>5, <3>6 DEF Sorted
  <2>9. \A i \in Ids : Queued(i) => Queued(i)'
    <3>1. \A g \in Connections : \A k \in 1..Len(queue[g]) : k \in 1..Len(queue'[g]) /\ queue'[g][k] = queue[g][k]
      BY <2>4, <2>6
    <3> QED
      BY <3>1 DEF Queued
  <2>10. \A i \in Ids : Placed(i) => Placed(i)'
    <3>1. \A i \in Ids : (Waiting(i) => Waiting(i)') /\ \A g \in Connections : Reading(g, i) => Reading(g, i)'
      BY <2>2, <2>5 DEF Waiting, Reading
    <3>2. \A i \in Ids : Works /\ hand[RL] = i => (Works /\ hand[RL] = i)' \/ Queued(i)'
      <4>1. CASE pc[RL] = "pushNil"
        BY <2>2, <2>x, <4>1
      <4>2. CASE pc[RL] = "push"
        <5>1. \A i \in Ids : i = x => Queued(i)'
          <6>1. \A i \in Ids : i = x => \E k \in 1..Len(queue'[1]) : queue'[1][k] = i
            BY <2>4, <2>6
          <6> QED
            BY <2>1, <6>1 DEF Queued
        <5> QED
          BY <2>x, <4>2, <5>1
      <4> QED
        BY <2>x, <4>1, <4>2
    <3> QED
      BY <2>9, <3>1, <3>2 DEF Placed
  <2>11. NoneLost'
    BY <1>p, <2>2, <2>10
  <2> QED
    BY <1>3, <2>2, <2>8, <2>11 DEF OrderInv
(* The answer to what is not forwarded is the error.                       *)
<1>8. CASE WriteFailed
  <2> DEFINE i == hand[RL]
  <2>1. /\ answers' = Answered(i, KO) /\ UNCHANGED <<rw, smart, requestChan, queue, hand, reqs>> /\ pc[RL] = "ko"
        /\ pc' = [pc EXCEPT ![RL] = "lock"]
    BY <1>8 DEF WriteFailed, CallDisconnect, Goto, fields, chans
  <2>2. i \in Ids /\ Works /\ KO \in -1..MaxRequests
    BY <1>0, <2>1, HandKnown DEF Handling, Works, KO
  <2>3. answers[i] = <<>>
    BY <2>2 DEF OnceInv, Unanswered
  <2> HIDE DEF i
  <2>4. (reqs[i].sync => answers'[i] # <<>>) /\ \A j \in Ids \ {i} : answers'[j] = answers[j]
    BY <1>r, <2>1, <2>2, <2>3, AnsweredFills
  <2>5. \A g \in Connections : pc'[g] = pc[g]
    BY <1>0, <1>1, <2>1
  <2>6. \A j \in Ids : j # i /\ Placed(j) => Placed(j)'
    BY <2>1, <2>5 DEF Placed, Waiting, Queued, Reading, i
  <2>7. NoneLost'
    BY <1>3, <2>1, <2>4, <2>6 DEF NoneLost
  <2>8. Sorted'
    BY <1>1, <1>q, <2>1, <2>5
  <2> QED
    BY <1>3, <2>1, <2>7, <2>8 DEF OrderInv
<1>9. CASE Lock(RL)
  <2>1. UNCHANGED <<rw, smart, requestChan, queue, hand, reqs, answers>> /\ pc[RL] = "lock" /\ ret[RL] = "select"
    BY <1>9 DEF Lock, OneConnection, history
  <2>2. \A g \in Connections : pc'[g] = pc[g]
    BY <1>0, <1>1, <1>9 DEF Lock, Goto
  <2>3. ~Works
    BY <2>1 DEF Works, Handling, Sending
  <2>4. \A i \in Ids : Placed(i) => Placed(i)'
    BY <2>1, <2>2, <2>3 DEF Placed, Waiting, Queued, Reading
  <2>5. NoneLost'
    BY <1>p, <2>1, <2>4
  <2>6. Sorted'
    BY <1>1, <1>q, <2>1, <2>2
  <2> QED
    BY <1>3, <2>1, <2>5, <2>6 DEF OrderInv
(* The listener takes the oldest of what is queued.                        *)
<1>10. CASE rw = 1 /\ 1 \in Connections /\ Recv(1)
  <2> DEFINE q == queue[1]
  <2>1. /\ pc[1] = "recv" /\ q # <<>> /\ UNCHANGED <<rw, smart, requestChan, reqs, answers, ret>>
        /\ hand' = [hand EXCEPT ![1] = Head(q)] /\ queue' = [queue EXCEPT ![1] = Tail(q)]
        /\ pc' = [pc EXCEPT ![1] = "read"] /\ rw = 1
    BY <1>10 DEF Recv, Goto, fields, history
  <2>2. /\ hand'[1] = Head(q) /\ queue'[1] = Tail(q) /\ pc'[1] = "read" /\ pc'[RL] = pc[RL] /\ hand'[RL] = hand[RL]
        /\ \A g \in Connections \ {1} : pc'[g] = pc[g] /\ hand'[g] = hand[g] /\ queue'[g] = queue[g]
    BY <1>0, <1>1, <1>10, <2>1
  <2>3. q \in Seq(0..MaxRequests)
    BY <1>0, <1>10
  <2>4. /\ Len(Tail(q)) = Len(q) - 1 /\ Len(q) \in Nat /\ Len(q) >= 1 /\ Head(q) = q[1]
        /\ \A k \in 1..(Len(q) - 1) : Tail(q)[k] = q[k + 1]
    BY <2>1, <2>3, TailFacts
  <2>5. \A k \in 1..(Len(q) - 1) : k + 1 \in 1..Len(q) /\ 1 < k + 1
    BY <2>4
  <2>6. Sorted'
    <3> DEFINE p == Tail(q)
    <3>1. \A j, k \in 1..Len(q) : j < k /\ q[j] # Marker /\ q[k] # Marker => q[j] < q[k]
      BY <1>3, <1>10 DEF Sorted
    <3>2. \A k \in 1..Len(p) : k + 1 \in 1..Len(q) /\ 1 < k + 1 /\ p[k] = q[k + 1]
      BY <2>4, <2>5
    <3>3. 1 \in 1..Len(q) /\ Len(p) \in Nat
      BY <2>4
    <3> HIDE DEF p, q
    <3>4. \A k \in 1..Len(p) : q[1] # Marker /\ p[k] # Marker => q[1] < p[k]
      BY <3>1, <3>2, <3>3
    <3>5. \A j, k \in 1..Len(p) : j < k /\ p[j] # Marker /\ p[k] # Marker => p[j] < p[k]
      <4>1. \A j, k \in 1..Len(p) : j < k => j + 1 < k + 1
        BY <3>3
      <4> QED
        BY <3>1, <3>2, <4>1
    <3>6. queue'[1] = p /\ hand'[1] = q[1]
      BY <2>2, <2>4 DEF p
    <3> QED
      BY <3>4, <3>5, <3>6 DEF Sorted
  <2>7. \A i \in Ids : Queued(i) => Queued(i)' \/ Reading(1, i)'
    <3> SUFFICES ASSUME NEW i \in Ids, NEW g \in Connections, NEW k \in 1..Len(queue[g]), queue[g][k] = i
                 PROVE  Queued(i)' \/ Reading(1, i)'
      BY DEF Queued
    <3>1. CASE g # 1
      BY <2>2, <3>1 DEF Queued
    <3>2. CASE g = 1 /\ k = 1
      BY <2>2, <2>4, <3>2 DEF Reading
    <3>3. CASE g = 1 /\ k # 1
      <4>1. k - 1 \in 1..(Len(q) - 1) /\ Tail(q)[k - 1] = i
        BY <2>4, <3>3
      <4>2. k - 1 \in 1..Len(queue'[1]) /\ queue'[1][k - 1] = i
        BY <2>2, <2>4, <4>1
      <4> QED
        BY <1>10, <4>2 DEF Queued
    <3> QED
      BY <3>1, <3>2, <3>3
  <2>8. \A i \in Ids : Placed(i) => Placed(i)'
    <3>1. Works' = Works
      BY <2>1, <2>2 DEF Works
    <3>2. \A i \in Ids : (Waiting(i) => Waiting(i)') /\ \A g \in Connections : Reading(g, i) => Reading(g, i)'
      BY <2>1, <2>2 DEF Waiting, Reading
    <3> QED
      BY <1>10, <2>2, <2>7, <3>1, <3>2 DEF Placed
  <2>9. NoneLost'
    BY <1>p, <2>1, <2>8
  <2> QED
    BY <1>3, <2>1, <2>6, <2>9 DEF OrderInv
<1>11. CASE rw = 1 /\ 1 \in Connections /\ ReadReply(1)
  <2> DEFINE i == hand[1]
  <2>1. /\ pc[1] = "read" /\ UNCHANGED <<rw, smart, requestChan, queue, hand, reqs, ret>> /\ rw = 1
        /\ pc' = [pc EXCEPT ![1] = "recv"]
        /\ answers' = IF i = Marker THEN answers ELSE Answered(i, Head(wire[1]))
    BY <1>11 DEF ReadReply, Goto, fields, chans
  <2>2. pc'[1] = "recv" /\ pc'[RL] = pc[RL] /\ i \in 0..MaxRequests /\ \A g \in Connections \ {1} : pc'[g] = pc[g]
    BY <1>0, <1>1, <1>11, <2>1
  <2>3. Sorted'
    BY <1>3, <2>1, <2>2 DEF Sorted
  <2>4. \A j \in Ids : j # i /\ Placed(j) => Placed(j)'
    BY <2>1, <2>2 DEF Placed, Works, Waiting, Queued, Reading
  <2>5. NoneLost'
    <3>1. CASE i = Marker
      BY <1>0, <1>p, <2>1, <2>4, <3>1 DEF Marker
    <3>2. CASE i # Marker
      <4>1. i \in Ids /\ answers' = Answered(i, Head(wire[1])) /\ Reading(1, i)
        BY <1>0, <2>1, <2>2, <3>2 DEF Marker, Reading
      <4>2. answers[i] = <<>>
        BY <1>11, <4>1 DEF OnceInv, Unanswered
      <4>3. Head(wire[1]) \in -1..MaxRequests
        <5> DEFINE S == 0..MaxRequests
        <5>1. S \subseteq -1..MaxRequests /\ wire[1] \in Seq(S) /\ wire[1] # <<>>
          BY <1>0, <1>11 DEF IndInv, TypeOK, NetworkTypes, ReadReply
        <5> HIDE DEF S
        <5>2. Head(wire[1]) \in S
          BY <5>1, TailFacts
        <5> QED
          BY <5>1, <5>2
      <4> HIDE DEF i
      <4>4. (reqs[i].sync => answers'[i] # <<>>) /\ \A j \in Ids \ {i} : answers'[j] = answers[j]
        BY <1>r, <4>1, <4>2, <4>3, AnsweredFills
      <4> QED
        BY <1>3, <2>1, <2>4, <4>4 DEF NoneLost
    <3> QED
      BY <3>1, <3>2
  <2> QED
    BY <1>3, <2>1, <2>3, <2>5 DEF OrderInv
<1>12. ASSUME NEW r \in Inputs, Send(r) PROVE OrderInv'
  <2> DEFINE n == Len(reqs) + 1
  <2>1. UNCHANGED <<rw, smart, queue, hand, pc, ret>> /\ reqs' = Append(reqs, r) /\ n \in Ids
    BY <1>0, <1>r, <1>12 DEF Send, fields, threads
  <2>2. Len(reqs') = n /\ reqs'[n] = r /\ \A j \in 1..Len(reqs) : reqs'[j] = reqs[j]
    BY <1>r, <2>1
  <2>3. \A j \in Ids : j <= n => j = n \/ (j \in 1..Len(reqs) /\ j # n /\ j <= Len(reqs))
    BY <1>r DEF Ids
  <2>4. Sorted'
    BY <1>q, <2>1
  <2>5. NoneLost'
    <3>1. CASE Accepts
      <4>1. requestChan' = Append(requestChan, n) /\ answers' = answers
        BY <1>12, <3>1 DEF Send
      <4>2. /\ Len(requestChan') = Len(requestChan) + 1 /\ requestChan'[Len(requestChan) + 1] = n /\ Len(requestChan) \in Nat
            /\ \A k \in 1..Len(requestChan) : requestChan'[k] = requestChan[k]
        BY <1>r, <2>1, <4>1
      <4> HIDE DEF n
      <4>3. Len(requestChan) + 1 \in 1..Len(requestChan') /\ \A k \in 1..Len(requestChan) : k \in 1..Len(requestChan')
        BY <4>2
      <4>4. \A j \in Ids : (Waiting(j) => Waiting(j)') /\ (j = n => Waiting(j)')
        BY <4>2, <4>3 DEF Waiting
      <4>5. \A j \in Ids : (Placed(j) => Placed(j)') /\ (j = n => Placed(j)')
        BY <2>1, <4>4 DEF Placed, Works, Queued, Reading
      <4> QED
        BY <1>3, <2>2, <2>3, <4>1, <4>5 DEF NoneLost
    <3>2. CASE ~Accepts
      <4>1. requestChan' = requestChan /\ answers' = IF r.sync THEN [answers EXCEPT ![n] = Append(@, KO)] ELSE answers
        BY <1>12, <3>2 DEF Send
      <4>2. Append(answers[n], KO) # <<>>
        <5>1. answers[n] \in Seq(-1..MaxRequests) /\ KO \in -1..MaxRequests
          BY <1>0, <2>1 DEF KO
        <5>2. Len(Append(answers[n], KO)) = Len(answers[n]) + 1 /\ Len(answers[n]) \in Nat
          BY <5>1
        <5> QED
          BY <5>2
      <4>3. (r.sync => answers'[n] # <<>>) /\ \A j \in Ids \ {n} : answers'[j] = answers[j]
        BY <1>0, <2>1, <4>1, <4>2
      <4> HIDE DEF n
      <4>4. \A j \in Ids : Placed(j) => Placed(j)'
        BY <2>1, <4>1 DEF Placed, Works, Waiting, Queued, Reading
      <4> QED
        BY <1>3, <2>2, <2>3, <4>3, <4>4 DEF NoneLost
    <3> QED
      BY <3>1, <3>2
  <2> QED
    BY <1>3, <2>1, <2>4, <2>5 DEF OrderInv
<1>13. CASE Elapse
  <2>1. UNCHANGED <<rw, smart, requestChan, queue, hand, pc, ret, reqs, answers>>
    BY <1>13 DEF Elapse, chans, threads, history
  <2>2. \A i \in Ids : Placed(i) => Placed(i)'
    BY <2>1 DEF Placed, Works, Waiting, Queued, Reading
  <2> QED
    BY <1>3, <1>p, <1>q, <2>1, <2>2 DEF OrderInv
<1> QED
  BY <1>3, <1>4, <1>5, <1>6, <1>7, <1>8, <1>9, <1>10, <1>11, <1>12, <1>13, CalmActions

(* As long as the connection to Redis holds and commands are forwarded,    *)
(* an answer of the server is written only when every earlier request that *)
(* waits has been answered: what redisListener works on is older than what *)
(* is queued, what is queued older than what requestListener works on, and *)
(* that older than what waits in requestChan.                              *)
THEOREM AnswersInOrder == ASSUME Plain PROVE Spec => ServerRepliesInOrder
<1> USE DEF Plain
<1>1. Init => OrderInv
  <2> SUFFICES ASSUME Init PROVE OrderInv
    OBVIOUS
  <2>1. rw = 0 /\ smart = FALSE /\ reqs = <<>>
    BY ClientAssumption DEF Init
  <2>2. \A i \in Ids : ~(i <= Len(reqs))
    BY <2>1, ClientAssumption DEF Ids
  <2> QED
    BY <2>1, <2>2 DEF OrderInv, NoneLost, Sorted
<1>2. IndInv /\ OnceInv /\ CalmInv /\ OrderInv /\ [Next]_vars => OrderInv'
  <2>1. ASSUME OrderInv, UNCHANGED vars PROVE OrderInv'
    BY <2>1 DEF vars, fields, chans, threads, network, history, OrderInv, NoneLost, Sorted, Placed, Works, Waiting,
       Queued, Reading
  <2>2. ASSUME IndInv, OnceInv, CalmInv, OrderInv, Next PROVE OrderInv'
    BY <2>2, OrderStep DEF CalmInv
  <2> QED
    BY <2>1, <2>2
(* Only redisListener writes what the server answered.                     *)
<1>3. ASSUME IndInv, OnceInv, CalmInv, OrderInv, Next,
             NEW j \in Ids, answers[j] = <<>>, answers'[j] \notin {<<>>, <<KO>>},
             NEW i \in 1..(j - 1), reqs[i].sync
      PROVE  answers[i] # <<>>
  <2>0. /\ MaxRequests \in Nat /\ hand \in [Threads -> 0..MaxRequests] /\ Threads = 0..MaxConns /\ HistoryTypes
        /\ MaxConns \in Nat /\ Connections = 1..MaxConns
    BY <1>3, ClientAssumption DEF IndInv, TypeOK, ThreadTypes, Threads, Connections
  <2>1. rw = 1 /\ 1 \in Connections /\ ReadReply(1) /\ hand[1] = j
    <3>1. answers' # answers
      BY <1>3
    <3>2. WriteFailed \/ (rw = 1 /\ 1 \in Connections /\ ReadReply(1)) \/ \E r \in Inputs : Send(r)
      <4>1. \A m \in Modes : ~Reload(m)
        BY <1>3 DEF OrderInv, Reload
      <4>2. ~Start /\ ~WriteConnects /\ ~Receive /\ ~WriteConnected /\ ~ChooseDatabase /\ ~ChangeDB /\ ~WriteResp
            /\ ~Load /\ ~Push /\ ~Lock(RL) /\ ~Recv(1) /\ ~Elapse
        BY <3>1 DEF Start, WriteConnects, Connect, Receive, WriteConnected, ChooseDatabase, ChangeDB, WriteResp,
           Load, Push, Lock, Recv, Elapse, history
      <4> QED
        BY <1>3, <4>1, <4>2, CalmActions DEF CalmInv
    <3>4. ~WriteFailed
      <4> SUFFICES ASSUME WriteFailed PROVE FALSE
        OBVIOUS
      <4>1. hand[RL] \in Ids /\ Works /\ answers' = Answered(hand[RL], KO) /\ KO \in -1..MaxRequests
        BY <1>3, <2>0, HandKnown DEF WriteFailed, Handling, Works, KO
      <4>2. answers[hand[RL]] = <<>>
        BY <1>3, <4>1 DEF OnceInv, Unanswered
      <4> QED
        BY <1>3, <2>0, <4>1, <4>2, AnsweredFills DEF Answered
    <3>5. \A r \in Inputs : ~Send(r)
      <4> SUFFICES ASSUME NEW r \in Inputs, Send(r) PROVE FALSE
        OBVIOUS
      <4>1. answers' = [answers EXCEPT ![Len(reqs) + 1] = Append(@, KO)]
        BY <3>1 DEF Send
      <4>2. answers'[j] = answers[j] \/ answers'[j] = Append(answers[j], KO)
        BY <2>0, <4>1 DEF HistoryTypes
      <4>3. Append(<<>>, KO) = <<KO>>
        OBVIOUS
      <4> QED
        BY <1>3, <4>2, <4>3
    <3>6. rw = 1 /\ 1 \in Connections /\ ReadReply(1)
      BY <3>2, <3>4, <3>5
    <3>7. hand[1] = j
      <4>1. answers' = [answers EXCEPT ![hand[1]] = Append(@, Head(wire[1]))]
        BY <3>1, <3>6 DEF ReadReply, Answered
      <4> QED
        BY <1>3, <2>0, <4>1 DEF HistoryTypes
    <3> QED
      BY <3>6, <3>7
  <2>2. /\ i \in Ids /\ i < j /\ j \in Ids /\ Reading(1, j) /\ hand[1] # Marker /\ i <= Len(reqs)
        /\ j <= hand[RL] /\ hand[RL] \in Nat
    <3>1. i \in Ids /\ i < j /\ hand[1] # Marker /\ Reading(1, j)
      BY <1>3, <2>0, <2>1 DEF Ids, Marker, ReadReply, Reading
    <3>2. j <= hand[RL] /\ hand[RL] <= Len(reqs) /\ hand[RL] \in Nat
      <4>1. j <= hand[RL] /\ hand[RL] <= Len(reqs)
        BY <1>3, <2>1, <3>1 DEF OnceInv, Rising, IndInv, HandIssued
      <4>2. hand[RL] \in 0..MaxRequests
        BY <2>0 DEF RL
      <4> QED
        BY <2>0, <4>1, <4>2
    <3>3. Len(reqs) \in Nat
      BY <2>0 DEF HistoryTypes
    <3> QED
      BY <2>0, <3>1, <3>2, <3>3 DEF Ids
  <2> SUFFICES ASSUME answers[i] = <<>> PROVE FALSE
    OBVIOUS
  <2>3. Placed(i)
    BY <1>3, <2>2 DEF OrderInv, NoneLost
  <2>4. ~Waiting(i)
    <3>1. \A k \in 1..Len(requestChan) : hand[RL] < requestChan[k]
      BY <1>3 DEF OnceInv, Rising
    <3>2. \A k \in 1..Len(requestChan) : requestChan[k] # i
      BY <2>0, <2>2, <3>1 DEF Ids
    <3> QED
      BY <3>2 DEF Waiting
  <2>5. hand[RL] # i
    BY <2>0, <2>2 DEF Ids
  <2>6. \A g \in Connections : g # 1 => queue[g] = <<>> /\ pc[g] = "off"
    <3>1. \A g \in Connections : g # 1 => g > rw
      BY <2>0, <2>1
    <3> QED
      BY <1>3, <3>1 DEF CalmInv, OneConnection
  <2>7. ~Queued(i)
    <3>1. \A k \in 1..Len(queue[1]) : queue[1][k] # Marker => hand[1] < queue[1][k]
      BY <1>3, <2>1, <2>2 DEF OrderInv, Sorted, ReadReply
    <3>2. \A k \in 1..Len(queue[1]) : queue[1][k] # i
      <4>1. i # 0 /\ i < hand[1] /\ i \in Nat /\ hand[1] \in Nat
        BY <2>0, <2>1, <2>2 DEF Ids
      <4>2. \A k \in 1..Len(queue[1]) : queue[1][k] = i => hand[1] < i
        BY <3>1, <4>1 DEF Marker
      <4> QED
        BY <4>1, <4>2
    <3>3. \A g \in Connections : g # 1 => Len(queue[g]) = 0
      BY <2>6
    <3> QED
      BY <3>2, <3>3 DEF Queued
  <2>8. \A g \in Connections : ~Reading(g, i)
    BY <2>0, <2>1, <2>2, <2>6 DEF Reading, Ids
  <2> QED
    BY <2>3, <2>4, <2>5, <2>7, <2>8 DEF Placed
<1> DEFINE InOrder == \A j \in Ids :
                         answers[j] = <<>> /\ answers'[j] \notin {<<>>, <<KO>>}
                             => \A i \in 1..(j - 1) : reqs[i].sync => answers[i] # <<>>
<1>4. IndInv /\ OnceInv /\ CalmInv /\ OrderInv /\ [Next]_vars => [InOrder]_vars
  BY <1>3
<1> HIDE DEF InOrder
<1>5. Spec => [][InOrder]_vars
  BY <1>1, <1>2, <1>4, Invariance, OnceInvariance, CalmInvariance, PTL DEF Spec
<1> QED
  BY <1>5 DEF ServerRepliesInOrder, InOrder
=============================================================================
