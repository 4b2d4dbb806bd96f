--------------------------- MODULE FsServerProofs ---------------------------
(***************************************************************************)
(* Proofs about FsServer, for any requests, shards, writers and            *)
(* configurations: what running counts, and that a message is in one place *)
(* while writers come and go, retry, and drain their channel at the exit.  *)
(***************************************************************************)
EXTENDS FsServer, FiniteSetTheorems, TLAPS

RequestStates == {"none", "inc", "parse", "tmp", "send", "count", "end", "fail", "refused"}

(* What the variables hold; Reload has left numbers for the writers that   *)
(* ReloadShards starts, and a writer has a message only while it writes.   *)
ControlTypes ==
    /\ running \in Int /\ exiting \in BOOLEAN /\ panic \in BOOLEAN
    /\ config \in Configs /\ shards \in 1..MaxShards /\ pool \in 1..MaxShards
    /\ rpc \in [Requests -> RequestStates]
    /\ shard \in [Requests -> Shards] /\ replied \subseteq Requests
    /\ closed \subseteq Shards /\ stop \subseteq Writers
    /\ lpc \in {"idle", "shards"} /\ reloads \in 0..MaxReloads /\ xpc \in {"run", "wait", "join", "done"}
    /\ strayed \in 0..failures /\ missed \in Nat
    /\ epc \in [Writers -> {"off", "check", "drain"}] /\ failures \in 0..MaxFailures
FileTypes ==
    /\ stored \subseteq Requests /\ dropped \subseteq Requests /\ recycled \subseteq stored
    /\ chan \in [Shards -> Seq(Requests)] /\ \A s \in Shards : Len(chan[s]) <= Buffer
Starting == lpc = "shards" /\ xpc \notin {"join", "done"}
WriterTypes ==
    /\ wpc \in [Writers -> {"off", "listen", "write", "retry"}]
    /\ cur \in [Writers -> Requests \cup {NoRequest}]
    /\ \A w \in Writers : IF wpc[w] \in {"write", "retry"} THEN cur[w] \in Requests ELSE cur[w] = NoRequest
    /\ list \in [Shards -> Seq(Writers)]
    /\ Starting => \A s \in Shards : CanStart(s, config.writers)

(* Where the message of a request is.                                      *)
Index(s) == 1..Len(chan[s])
Queued(r) == \E s \in Shards : \E i \in Index(s) : chan[s][i] = r
Held(r) == \E w \in Writers : cur[w] = r
QueuedOnce(r) ==
    \A s, t \in Shards : \A i \in Index(s), j \in Index(t) : chan[s][i] = r /\ chan[t][j] = r => s = t /\ i = j
HeldOnce(r) == \A v, w \in Writers : cur[v] = r /\ cur[w] = r => v = w
Given(r) == rpc[r] \in {"count", "end"}
InOnePlace(r) ==
    /\ QueuedOnce(r) /\ HeldOnce(r)
    /\ Queued(r) => ~Held(r) /\ r \notin recycled /\ r \notin dropped
    /\ Held(r) => r \notin recycled /\ r \notin dropped
    /\ ~(r \in recycled /\ r \in dropped)
    /\ Given(r) <=> Queued(r) \/ Held(r) \/ r \in recycled \/ r \in dropped
OnePlaceEach == \A r \in Requests : InOnePlace(r)

IndInv == ControlTypes /\ FileTypes /\ WriterTypes /\ OnePlaceEach /\ RunningCounts

-----------------------------------------------------------------------------
(* A shard's channel.                                                      *)
LEMMA ChanFacts ==
    ASSUME FileTypes, NEW s \in Shards
    PROVE  chan[s] \in Seq(Requests) /\ Len(chan[s]) \in Nat /\ \A i \in 1..Len(chan[s]) : chan[s][i] \in Requests
<1>1. chan[s] \in Seq(Requests)
  BY DEF FileTypes
<1> QED
  BY <1>1

(* Taking its first message moves the others up.                           *)
LEMMA Popped ==
    ASSUME FileTypes, NEW s \in Shards, chan[s] # <<>>, chan' = [chan EXCEPT ![s] = Tail(@)]
    PROVE  /\ chan' \in [Shards -> Seq(Requests)] /\ \A t \in Shards \ {s} : chan'[t] = chan[t]
           /\ Len(chan'[s]) = Len(chan[s]) - 1 /\ Len(chan[s]) >= 1
           /\ Head(chan[s]) = chan[s][1] /\ Head(chan[s]) \in Requests
           /\ \A i \in 1..(Len(chan[s]) - 1) : chan'[s][i] = chan[s][i + 1]
<1> DEFINE t == Tail(chan[s])
<1>1. chan[s] \in Seq(Requests) /\ chan \in [Shards -> Seq(Requests)]
  BY DEF FileTypes
<1>2. /\ t \in Seq(Requests) /\ Len(t) = Len(chan[s]) - 1 /\ Len(chan[s]) >= 1
      /\ Head(chan[s]) = chan[s][1] /\ Head(chan[s]) \in Requests
      /\ \A i \in 1..(Len(chan[s]) - 1) : t[i] = chan[s][i + 1]
  BY <1>1
<1>3. chan' = [chan EXCEPT ![s] = t]
  OBVIOUS
<1> HIDE DEF t
<1> QED
  BY <1>1, <1>2, <1>3

(* Sending puts a message at the end.                                      *)
LEMMA Pushed ==
    ASSUME FileTypes, NEW s \in Shards, NEW r \in Requests, chan' = [chan EXCEPT ![s] = Append(@, r)]
    PROVE  /\ chan' \in [Shards -> Seq(Requests)] /\ \A t \in Shards \ {s} : chan'[t] = chan[t]
           /\ Len(chan'[s]) = Len(chan[s]) + 1 /\ chan'[s][Len(chan[s]) + 1] = r
           /\ \A i \in 1..Len(chan[s]) : chan'[s][i] = chan[s][i]
<1> DEFINE t == Append(chan[s], r)
<1>1. chan[s] \in Seq(Requests) /\ chan \in [Shards -> Seq(Requests)]
  BY DEF FileTypes
<1>2. /\ t \in Seq(Requests) /\ Len(t) = Len(chan[s]) + 1 /\ t[Len(chan[s]) + 1] = r
      /\ \A i \in 1..Len(chan[s]) : t[i] = chan[s][i]
  BY <1>1
<1>3. chan' = [chan EXCEPT ![s] = t]
  OBVIOUS
<1> HIDE DEF t
<1> QED
  BY <1>1, <1>2, <1>3

(* There are numbers left for the writers a reload starts.                 *)
LEMMA GrownStarts ==
    ASSUME ControlTypes, WriterTypes, NEW s \in Shards, Starting
    PROVE  NewList(s) \in Seq(Writers)
<1> DEFINE n == config.writers
           U == Unused(s)
           m == n - Len(list[s])
<1>1. n \in Nat /\ list[s] \in Seq(Writers) /\ Len(list[s]) \in Nat /\ MaxWriters \in Nat /\ U \subseteq 1..MaxWriters
  BY FsAssumption DEF ControlTypes, WriterTypes, ConfigTypes, Unused
<1>2. IsFiniteSet(U)
  <2>1. IsFiniteSet(1..MaxWriters)
    BY <1>1, FS_Interval
  <2> HIDE DEF U
  <2> QED
    BY <1>1, <2>1, FS_Subset
<1>3. Cardinality(U) \in Nat /\ ExistsBijection(1..Cardinality(U), U)
  BY <1>2, FS_CardinalityType
<1>4. Cardinality(U) + Len(list[s]) >= n
  BY DEF WriterTypes, CanStart
<1>5. CASE Len(list[s]) <= n
  <2>0. NewList(s) = list[s] \o [i \in DOMAIN Grown(s) |-> <<s, Grown(s)[i]>>]
    BY <1>5 DEF NewList
  <2> DEFINE Fit(q) == \A i, j \in DOMAIN q : q[i] = q[j] => i = j
  <2>1. PICK b \in Bijection(1..Cardinality(U), U) : TRUE
    BY <1>3 DEF ExistsBijection
  <2>2. b \in [1..Cardinality(U) -> U] /\ \A i, j \in 1..Cardinality(U) : b[i] = b[j] => i = j
    BY <2>1 DEF Bijection, Injection, IsInjective
  <2>3. m \in Nat /\ 1..m \subseteq 1..Cardinality(U)
    BY <1>1, <1>3, <1>4, <1>5
  <2> HIDE DEF m, U
  <2>4. [i \in 1..m |-> b[i]] \in [1..m -> U] /\ Fit([i \in 1..m |-> b[i]])
    BY <2>2, <2>3
  <2>5. Grown(s) = CHOOSE q \in [1..m -> U] : Fit(q)
    BY DEF Grown, m, U
  <2>6. Grown(s) \in [1..m -> U]
    BY <2>4, <2>5
  <2> HIDE DEF Fit, Grown
  <2>7. \A i \in 1..m : <<s, Grown(s)[i]>> \in Writers
    BY <1>1, <2>6 DEF Writers
  <2>8. [i \in DOMAIN Grown(s) |-> <<s, Grown(s)[i]>>] \in Seq(Writers)
    BY <2>3, <2>6, <2>7
  <2> QED
    BY <1>1, <2>0, <2>8
<1>6. CASE ~(Len(list[s]) <= n)
  <2>0. NewList(s) = SubSeq(list[s], 1 + Len(list[s]) - n, Len(list[s]))
    BY <1>6 DEF NewList
  <2> QED
    BY <1>1, <1>6, <2>0
<1> QED
  BY <1>5, <1>6

-----------------------------------------------------------------------------
LEMMA InitInd == Init => IndInv
<1> SUFFICES ASSUME Init PROVE IndInv
  OBVIOUS
<1> USE DEF Init
<1>0. /\ Initial \in ConfigTypes /\ Initial.shards \in 1..MaxShards /\ Initial.writers \in 1..MaxWriters
      /\ MaxShards \in Nat \ {0} /\ MaxWriters \in Nat \ {0} /\ Buffer \in Nat \ {0} /\ MaxFailures \in Nat
      /\ NoRequest \notin Requests
  BY FsAssumption DEF ConfigTypes, NoRequest
<1>1. ControlTypes
  <2>1. 0 \in Shards /\ 0 \in 0..MaxFailures /\ 0 \in Int /\ 0 \in 0..0 /\ 0 \in Nat /\ 0 \in 0..MaxReloads
    BY <1>0, FsAssumption DEF Shards
  <2>2. config \in Configs /\ shards \in 1..MaxShards /\ pool \in 1..MaxShards
    BY <1>0, FsAssumption
  <2>3. /\ rpc \in [Requests -> RequestStates]
        /\ shard \in [Requests -> Shards] /\ epc \in [Writers -> {"off", "check", "drain"}]
    BY <2>1 DEF RequestStates
  <2> QED
    BY <2>1, <2>2, <2>3 DEF ControlTypes
<1>2. FileTypes
  <2>1. chan \in [Shards -> Seq(Requests)] /\ \A s \in Shards : chan[s] = <<>>
    OBVIOUS
  <2> QED
    BY <1>0, <2>1 DEF FileTypes
<1>3. WriterTypes
  <2>1. /\ wpc \in [Writers -> {"off", "listen", "write", "retry"}] /\ cur \in [Writers -> Requests \cup {NoRequest}]
        /\ \A w \in Writers : wpc[w] \notin {"write", "retry"} /\ cur[w] = NoRequest
    OBVIOUS
  <2>2. ASSUME NEW s \in Shards PROVE FirstWriters(s, Initial.writers) \in Seq(Writers)
    <3>1. \A i \in 1..Initial.writers : <<s, i>> \in Writers
      BY <1>0 DEF Writers
    <3>2. Initial.writers \in Nat
      BY <1>0
    <3> QED
      BY <3>1, <3>2 DEF FirstWriters
  <2>3. list \in [Shards -> Seq(Writers)]
    BY <2>2
  <2> QED
    BY <2>1, <2>3 DEF WriterTypes, Starting
<1>4. OnePlaceEach
  <2>1. \A s \in Shards : Index(s) = {}
    BY DEF Index
  <2> QED
    BY <1>0, <2>1 DEF OnePlaceEach, InOnePlace, QueuedOnce, HeldOnce, Queued, Held, Given
<1>5. RunningCounts
  <2>1. Counted = {}
    BY DEF Counted
  <2>2. Cardinality(Counted) = 0
    BY <2>1, FS_EmptySet
  <2> QED
    BY <2>2 DEF RunningCounts
<1> QED
  BY <1>1, <1>2, <1>3, <1>4, <1>5 DEF IndInv

(* Every step keeps the program counters and the configuration well typed. *)
LEMMA ControlTypeStep == ASSUME IndInv, Next PROVE ControlTypes'
<1>0. ControlTypes /\ WriterTypes /\ FileTypes
  BY DEF IndInv
<1>1. /\ MaxShards \in Nat \ {0} /\ MaxFailures \in Nat /\ \A c \in Configs : c.shards \in 1..MaxShards
      /\ Hash \in [Requests -> Nat] /\ MaxReloads \in Nat
  BY FsAssumption DEF ConfigTypes
<1> USE <1>0 DEF ControlTypes, RequestStates, Goto, Step, Reply, reqs, shares, chans, writers, files, reload, exits
<1>f. ASSUME NEW k, Fault(k) PROVE failures' \in 0..MaxFailures /\ strayed \in 0..failures'
  BY <1>1, <1>f DEF Fault
<1>2. ASSUME NEW r \in Requests, Set(r) PROVE ControlTypes'
  BY <1>2 DEF Set
<1>3. ASSUME NEW r \in Requests, Increment(r) PROVE ControlTypes'
  BY <1>3 DEF Increment
<1>4. ASSUME NEW r \in Requests, Parse(r) PROVE ControlTypes'
  <2>1. CASE ParseFails(r)
    BY <1>4, <1>f, <2>1 DEF Parse, ParseFails
  <2>2. CASE Parsed(r)
    <3>1. Hash[r] % shards \in Shards
      BY <1>1 DEF Shards
    <3> QED
      BY <1>4, <2>2, <3>1 DEF Parse, Parsed
  <2> QED
    BY <1>4, <2>1, <2>2 DEF Parse
<1>5. ASSUME NEW r \in Requests, StoreTmp(r) PROVE ControlTypes'
  <2>1. failures' \in 0..MaxFailures /\ strayed \in 0..failures'
    BY <1>5, <1>f DEF StoreTmp
  <2> QED
    BY <1>5, <2>1 DEF StoreTmp
<1>6. ASSUME NEW r \in Requests, Send(r) PROVE ControlTypes'
  BY <1>6 DEF Send, NoShard, Sent, SendPanics
<1>7. ASSUME NEW r \in Requests, Decrement(r) PROVE ControlTypes'
  <2>1. running' \in Int /\ missed' \in Nat
    BY <1>7 DEF Decrement, Uncount
  <2> QED
    BY <1>7, <2>1 DEF Decrement
<1>8. ASSUME OtherDecrements PROVE ControlTypes'
  <2>1. running' \in Int /\ failures' \in 0..MaxFailures /\ strayed' \in 0..failures'
    BY <1>1, <1>8 DEF OtherDecrements, Uncount
  <2> QED
    BY <1>8, <2>1 DEF OtherDecrements
<1>9. ASSUME NEW w \in Writers, Writer(w) PROVE ControlTypes'
  <2>1. failures' \in 0..MaxFailures /\ strayed \in 0..failures'
    BY <1>9, <1>f DEF Writer, WriterRecv, WriterEnd, WriterWrite, WriterRetry
  <2> QED
    BY <1>9, <2>1 DEF Writer, WriterRecv, WriterEnd, WriterWrite, WriterRetry
<1>10. ASSUME NEW c \in Configs, Reload(c) PROVE ControlTypes'
  <2>1. reloads' \in 0..MaxReloads
    BY <1>1, <1>10 DEF Reload
  <2> QED
    BY <1>1, <1>10, <2>1 DEF Reload
<1>11. ASSUME ReloadShards PROVE ControlTypes'
  BY <1>1, <1>11 DEF ReloadShards, NewPool
<1>12. ASSUME ReloadPanics \/ Exit \/ ExitDone PROVE ControlTypes'
  BY <1>12 DEF ReloadPanics, Exit, ExitDone
<1>13. ASSUME ExitCloses PROVE ControlTypes'
  <2>1. 0..(pool - 1) \subseteq Shards
    BY <1>1 DEF Shards
  <2> QED
    BY <1>13, <2>1 DEF ExitCloses
<1>14. ASSUME NEW w \in Writers, WriterChecks(w) PROVE ControlTypes'
  BY <1>14 DEF WriterChecks
<1>15. ASSUME NEW w \in Writers, WriterDrain(w) PROVE ControlTypes'
  <2>1. failures' \in 0..MaxFailures /\ strayed \in 0..failures'
    BY <1>15, <1>f DEF WriterDrain
  <2> QED
    BY <1>15, <2>1 DEF WriterDrain
<1> QED
  BY <1>2, <1>3, <1>4, <1>5, <1>6, <1>7, <1>8, <1>9, <1>10, <1>11, <1>12, <1>13, <1>14, <1>15
     DEF Next, Proceed, Reloading, Request, Exits

(* Every step keeps the files and the channels well typed, no channel      *)
(* overfull.                                                               *)
LEMMA FileTypeStep == ASSUME IndInv, Next PROVE FileTypes'
<1>0. ControlTypes /\ WriterTypes /\ FileTypes
  BY DEF IndInv
<1>1. /\ stored \subseteq Requests /\ dropped \subseteq Requests /\ recycled \subseteq stored
      /\ chan \in [Shards -> Seq(Requests)] /\ \A s \in Shards : Len(chan[s]) <= Buffer /\ Len(chan[s]) \in Nat
      /\ Buffer \in Nat
  BY <1>0, ChanFacts, FsAssumption DEF FileTypes
<1>w. \A w \in Writers : w[1] \in Shards
  BY DEF Writers
<1> USE DEF Goto, Step, Reply, Queue, reqs, shares, chans, writers, files, reload, exits
<1>p. ASSUME NEW s \in Shards, NEW r \in Requests, Room(s), chan' = [chan EXCEPT ![s] = Append(@, r)]
      PROVE  chan' \in [Shards -> Seq(Requests)] /\ \A t \in Shards : Len(chan'[t]) <= Buffer
  <2>1. /\ chan' \in [Shards -> Seq(Requests)] /\ \A t \in Shards \ {s} : chan'[t] = chan[t]
        /\ Len(chan'[s]) = Len(chan[s]) + 1
    BY <1>0, <1>p, Pushed
  <2> QED
    BY <1>1, <1>p, <2>1 DEF Room
<1>q. ASSUME NEW s \in Shards, chan[s] # <<>>, chan' = [chan EXCEPT ![s] = Tail(@)]
      PROVE  chan' \in [Shards -> Seq(Requests)] /\ (\A t \in Shards : Len(chan'[t]) <= Buffer) /\ Head(chan[s]) \in Requests
  <2>1. /\ chan' \in [Shards -> Seq(Requests)] /\ \A t \in Shards \ {s} : chan'[t] = chan[t]
        /\ Len(chan'[s]) = Len(chan[s]) - 1 /\ Head(chan[s]) \in Requests
    BY <1>0, <1>q, Popped
  <2>2. ASSUME NEW t \in Shards PROVE Len(chan'[t]) <= Buffer
    <3>1. CASE t = s
      <4>1. Len(chan[s]) \in Nat /\ Len(chan[s]) <= Buffer
        BY <1>1
      <4> QED
        BY <1>1, <2>1, <3>1, <4>1
    <3>2. CASE t # s
      BY <1>1, <2>1, <3>2
    <3> QED
      BY <3>1, <3>2
  <2> QED
    BY <2>1, <2>2
<1>k. ASSUME UNCHANGED <<chan, files>> PROVE FileTypes'
  BY <1>1, <1>k DEF FileTypes
<1>2. ASSUME NEW r \in Requests, Set(r) \/ Increment(r) \/ Parse(r) \/ StoreTmp(r) \/ Decrement(r) PROVE FileTypes'
  BY <1>2, <1>k DEF Set, Increment, Parse, StoreTmp, Decrement
<1>3. ASSUME NEW r \in Requests, Send(r) PROVE FileTypes'
  <2>1. UNCHANGED <<stored, recycled>> /\ dropped' \subseteq Requests
    BY <1>1, <1>3 DEF Send, NoShard, Sent, SendPanics
  <2>2. CASE chan' = chan
    BY <1>1, <2>1, <2>2 DEF FileTypes
  <2>3. CASE Sent(r)
    <3>1. shard[r] \in Shards
      BY <1>0 DEF ControlTypes
    <3>2. chan' \in [Shards -> Seq(Requests)] /\ \A t \in Shards : Len(chan'[t]) <= Buffer
      BY <1>p, <2>3, <3>1 DEF Sent
    <3> QED
      BY <1>1, <2>1, <3>2 DEF FileTypes
  <2> QED
    BY <1>3, <2>2, <2>3 DEF Send, NoShard, SendPanics
<1>4. ASSUME OtherDecrements PROVE FileTypes'
  BY <1>4, <1>k DEF OtherDecrements
<1>5. ASSUME NEW w \in Writers, WriterRecv(w) PROVE FileTypes'
  <2>1. chan' \in [Shards -> Seq(Requests)] /\ \A t \in Shards : Len(chan'[t]) <= Buffer
    BY <1>5, <1>q, <1>w DEF WriterRecv
  <2> QED
    BY <1>1, <1>5, <2>1 DEF WriterRecv, FileTypes
<1>6. ASSUME NEW w \in Writers, WriterEnd(w) PROVE FileTypes'
  BY <1>6, <1>k DEF WriterEnd
<1>7. ASSUME NEW w \in Writers, WriterWrite(w) PROVE FileTypes'
  <2>1. cur[w] \in Requests
    BY <1>0, <1>7 DEF WriterWrite, WriterTypes
  <2>2. /\ UNCHANGED <<chan, dropped>>
        /\ \/ UNCHANGED <<stored, recycled>>
           \/ stored' = stored \cup {cur[w]} /\ recycled' = recycled \cup {cur[w]}
           \/ stored' = stored \cup {cur[w]} /\ recycled' = recycled
    BY <1>7 DEF WriterWrite
  <2> QED
    BY <1>1, <2>1, <2>2 DEF FileTypes
<1>8. ASSUME NEW w \in Writers, WriterRetry(w) PROVE FileTypes'
  <2>1. UNCHANGED files
    BY <1>8 DEF WriterRetry
  <2>2. CASE chan' = chan
    BY <1>k, <2>1, <2>2
  <2>3. CASE Room(w[1]) /\ chan' = [chan EXCEPT ![w[1]] = Append(@, cur[w])]
    <3>1. cur[w] \in Requests
      BY <1>0, <1>8 DEF WriterRetry, WriterTypes
    <3>2. chan' \in [Shards -> Seq(Requests)] /\ \A t \in Shards : Len(chan'[t]) <= Buffer
      BY <1>p, <1>w, <2>3, <3>1
    <3> QED
      BY <1>1, <2>1, <3>2 DEF FileTypes
  <2> QED
    BY <1>8, <2>2, <2>3 DEF WriterRetry
<1>9. ASSUME (\E c \in Configs : Reload(c)) \/ ReloadShards \/ ReloadPanics \/ Exit \/ ExitCloses \/ ExitDone PROVE FileTypes'
  BY <1>9, <1>k DEF Reload, ReloadShards, ReloadPanics, Exit, ExitCloses, ExitDone
<1>10. ASSUME NEW w \in Writers, WriterChecks(w) PROVE FileTypes'
  BY <1>10, <1>k DEF WriterChecks
<1>11. ASSUME NEW w \in Writers, WriterDrain(w) PROVE FileTypes'
  <2>1. /\ Queue(w) # <<>> /\ chan' = [chan EXCEPT ![w[1]] = Tail(@)]
        /\ \/ UNCHANGED <<stored, recycled>>
           \/ stored' = stored \cup {Head(Queue(w))} /\ recycled' = recycled \cup {Head(Queue(w))}
           \/ stored' = stored \cup {Head(Queue(w))} /\ recycled' = recycled
        /\ dropped' \subseteq dropped \cup {Head(Queue(w))}
    BY <1>11 DEF WriterDrain
  <2>2. chan' \in [Shards -> Seq(Requests)] /\ (\A t \in Shards : Len(chan'[t]) <= Buffer) /\ Head(Queue(w)) \in Requests
    BY <1>q, <1>w, <2>1
  <2> HIDE DEF Queue
  <2> QED
    BY <1>1, <2>1, <2>2 DEF FileTypes
<1> QED
  BY <1>2, <1>3, <1>4, <1>5, <1>6, <1>7, <1>8, <1>9, <1>10, <1>11
     DEF Next, Proceed, Reloading, Request, Writer, Exits

(* Every step keeps the writers well typed: one that writes has a message, *)
(* and there are numbers for those a reload starts.                        *)
LEMMA WriterTypeStep == ASSUME IndInv, Next PROVE WriterTypes'
<1>0. ControlTypes /\ WriterTypes /\ FileTypes
  BY DEF IndInv
<1>1. /\ wpc \in [Writers -> {"off", "listen", "write", "retry"}]
      /\ cur \in [Writers -> Requests \cup {NoRequest}] /\ list \in [Shards -> Seq(Writers)]
      /\ \A w \in Writers : IF wpc[w] \in {"write", "retry"} THEN cur[w] \in Requests ELSE cur[w] = NoRequest
      /\ epc \in [Writers -> {"off", "check", "drain"}]
  BY <1>0 DEF WriterTypes, ControlTypes
<1>w. /\ \A w \in Writers : w[1] \in Shards
      /\ \A s \in Shards, i \in 1..MaxWriters : <<s, i>> \in Writers
  BY DEF Writers
<1> USE DEF Goto, Step, Reply, Queue, reqs, shares, chans, writers, files, reload, exits, Starting
(* Numbers that are not used stay so, except those ReloadShards uses.      *)
<1>u. ASSUME \A w \in Writers : wpc[w] = "off" /\ epc[w] = "off" => wpc'[w] = "off" /\ epc'[w] = "off",
             UNCHANGED <<list, config>>, Starting' => Starting
      PROVE  Starting' => \A s \in Shards : CanStart(s, config.writers)'
  <2> SUFFICES ASSUME Starting, NEW s \in Shards PROVE CanStart(s, config.writers)'
    BY <1>u
  <2>1. Unused(s) \subseteq Unused(s)'
    BY <1>u, <1>w DEF Unused
  <2>2. IsFiniteSet(Unused(s)') /\ IsFiniteSet(1..MaxWriters)
    <3>1. IsFiniteSet(1..MaxWriters)
      BY FsAssumption, FS_Interval
    <3>2. Unused(s)' \subseteq 1..MaxWriters
      BY DEF Unused
    <3> QED
      BY <3>1, <3>2, FS_Subset
  <2>3. IsFiniteSet(Unused(s)) /\ Cardinality(Unused(s)) <= Cardinality(Unused(s)')
    BY <2>1, <2>2, FS_Subset
  <2>4. Cardinality(Unused(s)) \in Nat /\ Cardinality(Unused(s)') \in Nat
    BY <2>2, <2>3, FS_CardinalityType
  <2>5. CanStart(s, config.writers)
    BY <1>0 DEF WriterTypes
  <2>6. Len(list[s]) \in Nat /\ config.writers \in Nat
    <3>1. list[s] \in Seq(Writers) /\ config \in ConfigTypes /\ MaxWriters \in Nat
      BY <1>0, FsAssumption DEF ControlTypes, WriterTypes
    <3> QED
      BY <3>1 DEF ConfigTypes
  <2> QED
    BY <1>u, <2>3, <2>4, <2>5, <2>6 DEF CanStart
<1>k. ASSUME UNCHANGED <<wpc, epc, cur, list, config>>, Starting' => Starting PROVE WriterTypes'
  BY <1>1, <1>k, <1>u DEF WriterTypes
<1>2. ASSUME NEW r \in Requests, Set(r) \/ Request(r) PROVE WriterTypes'
  BY <1>2, <1>k DEF Set, Request, Increment, Parse, StoreTmp, Send, Decrement
<1>o. ASSUME OtherDecrements PROVE WriterTypes'
  BY <1>o, <1>k DEF OtherDecrements
<1>3. ASSUME NEW w \in Writers, WriterRecv(w) PROVE WriterTypes'
  <2>1. Head(Queue(w)) \in Requests
    BY <1>0, <1>3, <1>w, Popped DEF WriterRecv
  <2>2. /\ cur' = [cur EXCEPT ![w] = Head(Queue(w))] /\ wpc' = [wpc EXCEPT ![w] = "write"] /\ wpc[w] = "listen"
        /\ UNCHANGED <<list, lpc, xpc, config, epc>>
    BY <1>3 DEF WriterRecv
  <2> QED
    BY <1>1, <1>u, <2>1, <2>2 DEF WriterTypes
<1>4. ASSUME NEW w \in Writers, WriterEnd(w) PROVE WriterTypes'
  BY <1>1, <1>4, <1>u DEF WriterEnd, WriterTypes
<1>5. ASSUME NEW w \in Writers, WriterWrite(w) PROVE WriterTypes'
  <2>1. /\ UNCHANGED <<list, lpc, xpc, config, epc>> /\ wpc[w] = "write"
        /\ \/ cur' = [cur EXCEPT ![w] = NoRequest] /\ wpc' = [wpc EXCEPT ![w] = "listen"]
           \/ cur' = cur /\ wpc' = [wpc EXCEPT ![w] = "retry"]
    BY <1>5 DEF WriterWrite
  <2> QED
    BY <1>1, <1>u, <2>1 DEF WriterTypes
<1>6. ASSUME NEW w \in Writers, WriterRetry(w) PROVE WriterTypes'
  <2>1. /\ UNCHANGED <<list, lpc, xpc, config, epc>> /\ wpc[w] = "retry"
        /\ \/ cur' = [cur EXCEPT ![w] = NoRequest] /\ wpc' = [wpc EXCEPT ![w] = "listen"]
           \/ cur' = cur /\ wpc' = wpc
    BY <1>6 DEF WriterRetry
  <2> QED
    BY <1>1, <1>u, <2>1 DEF WriterTypes
<1>7. ASSUME NEW c \in Configs, Reload(c) PROVE WriterTypes'
  <2>1. \A s \in Shards : CanStart(s, config.writers)'
    BY <1>7 DEF Reload, CanStart, Unused
  <2> QED
    BY <1>1, <1>7, <2>1 DEF Reload, WriterTypes
<1>8. ASSUME ReloadShards PROVE WriterTypes'
  <2>1. list' \in [Shards -> Seq(Writers)]
    <3>1. \A s \in Shards : NewList(s) \in Seq(Writers)
      BY <1>0, <1>8, GrownStarts DEF ReloadShards, Starting
    <3> QED
      BY <1>1, <1>8, <3>1 DEF ReloadShards
  <2>2. /\ wpc' \in [Writers -> {"off", "listen", "write", "retry"}] /\ cur' = cur /\ lpc' = "idle"
        /\ \A w \in Writers : wpc'[w] \in {"write", "retry"} <=> wpc[w] \in {"write", "retry"}
    BY <1>1, <1>8 DEF ReloadShards
  <2> QED
    BY <1>1, <2>1, <2>2 DEF WriterTypes
<1>9. ASSUME ReloadPanics \/ Exit \/ ExitDone PROVE WriterTypes'
  BY <1>9, <1>k DEF Exit, ReloadPanics, ExitDone
<1>10. ASSUME NEW w \in Writers, WriterDrain(w) \/ WriterChecks(w) PROVE WriterTypes'
  <2>1. UNCHANGED <<wpc, cur, list, lpc, xpc, config>> /\ \A v \in Writers : epc[v] = "off" => epc'[v] = "off"
    BY <1>1, <1>10 DEF WriterChecks, WriterDrain
  <2> QED
    BY <1>1, <1>u, <2>1 DEF WriterTypes
<1>11. ASSUME ExitCloses PROVE WriterTypes'
  <2>1. UNCHANGED <<wpc, cur, list>> /\ xpc' = "join"
    BY <1>11 DEF ExitCloses
  <2> QED
    BY <1>1, <2>1 DEF WriterTypes
<1> QED
  BY <1>2, <1>o, <1>3, <1>4, <1>5, <1>6, <1>7, <1>8, <1>9, <1>10, <1>11 DEF Next, Proceed, Reloading, Writer, Exits

-----------------------------------------------------------------------------
(* Where messages are after a channel lost its first or got a new last.    *)
LEMMA QueuedOnceNext ==
    ASSUME NEW r \in Requests,
           \A t, u \in Shards : \A i \in 1..Len(chan'[t]), j \in 1..Len(chan'[u]) :
               chan'[t][i] = r /\ chan'[u][j] = r => t = u /\ i = j
    PROVE  QueuedOnce(r)'
BY DEF QueuedOnce, Index

LEMMA TakenOut ==
    ASSUME FileTypes, OnePlaceEach, NEW s \in Shards, chan[s] # <<>>, chan' = [chan EXCEPT ![s] = Tail(@)],
           NEW h \in Requests, h = Head(chan[s])
    PROVE  /\ Queued(h) /\ ~Queued(h)'
           /\ \A r \in Requests : QueuedOnce(r)' /\ (Queued(r)' <=> Queued(r) /\ r # h)
<1> DEFINE Old(t, i) == IF t = s THEN i + 1 ELSE i
<1>1. /\ \A t \in Shards \ {s} : chan'[t] = chan[t]
      /\ Len(chan'[s]) = Len(chan[s]) - 1 /\ Len(chan[s]) >= 1 /\ h = chan[s][1]
      /\ \A i \in 1..(Len(chan[s]) - 1) : chan'[s][i] = chan[s][i + 1]
  BY Popped
<1>2. \A t \in Shards : Len(chan[t]) \in Nat
  BY ChanFacts
<1>3. \A t \in Shards : \A i \in 1..Len(chan'[t]) :
          Old(t, i) \in 1..Len(chan[t]) /\ chan'[t][i] = chan[t][Old(t, i)] /\ i \in Int
  BY <1>1, <1>2
<1>4. \A r \in Requests : \A t, u \in Shards : \A i \in 1..Len(chan[t]), j \in 1..Len(chan[u]) :
          chan[t][i] = r /\ chan[u][j] = r => t = u /\ i = j
  BY DEF OnePlaceEach, InOnePlace, QueuedOnce, Index
<1>5. 1 \in 1..Len(chan[s])
  BY <1>1, <1>2
<1>6. Queued(h)
  BY <1>1, <1>5 DEF Queued, Index
<1>7. ~Queued(h)'
  <2> SUFFICES ASSUME NEW t \in Shards, NEW i \in 1..Len(chan'[t]), chan'[t][i] = h PROVE FALSE
    BY DEF Queued, Index
  <2>1. Old(t, i) \in 1..Len(chan[t]) /\ chan[t][Old(t, i)] = h /\ i \in 1..Len(chan'[t]) /\ i \in Int
    BY <1>3
  <2>2. t = s /\ Old(t, i) = 1
    BY <1>1, <1>4, <1>5, <2>1
  <2>3. i = 0
    BY <2>1, <2>2
  <2> QED
    BY <1>1, <1>2, <2>1, <2>2, <2>3
<1>8. ASSUME NEW r \in Requests PROVE QueuedOnce(r)'
  <2>1. ASSUME NEW t \in Shards, NEW u \in Shards, NEW i \in 1..Len(chan'[t]), NEW j \in 1..Len(chan'[u]),
               chan'[t][i] = r, chan'[u][j] = r
        PROVE  t = u /\ i = j
    <3>1. t = u /\ Old(t, i) = Old(u, j) /\ i \in Int /\ j \in Int
      BY <1>3, <1>4, <2>1
    <3> QED
      BY <3>1
  <2> QED
    BY <2>1, QueuedOnceNext
<1>9. ASSUME NEW r \in Requests, Queued(r)' PROVE Queued(r)
  <2>1. PICK t \in Shards : \E i \in 1..Len(chan'[t]) : chan'[t][i] = r
    BY <1>9 DEF Queued, Index
  <2>2. PICK i \in 1..Len(chan'[t]) : chan'[t][i] = r
    BY <2>1
  <2> QED
    BY <1>3, <2>2 DEF Queued, Index
<1>10. ASSUME NEW r \in Requests, Queued(r), r # h PROVE Queued(r)'
  <2>1. PICK t \in Shards : \E i \in 1..Len(chan[t]) : chan[t][i] = r
    BY <1>10 DEF Queued, Index
  <2>2. PICK i \in 1..Len(chan[t]) : chan[t][i] = r
    BY <2>1
  <2>3. \E i1 \in 1..Len(chan'[t]) : chan'[t][i1] = r
    <3>1. CASE t = s
      <4>1. i # 1 /\ i - 1 \in 1..(Len(chan[s]) - 1) /\ (i - 1) + 1 = i
        BY <1>1, <1>2, <1>10, <2>2, <3>1
      <4>2. chan'[s][i - 1] = chan[s][i] /\ i - 1 \in 1..Len(chan'[s])
        BY <1>1, <4>1
      <4> QED
        BY <2>2, <3>1, <4>2
    <3>2. CASE t # s
      BY <1>1, <2>2, <3>2
    <3> QED
      BY <3>1, <3>2
  <2> QED
    BY <2>3 DEF Queued, Index
<1> QED
  BY <1>6, <1>7, <1>8, <1>9, <1>10

LEMMA PutIn ==
    ASSUME FileTypes, OnePlaceEach, NEW s \in Shards, NEW q \in Requests, ~Queued(q), chan' = [chan EXCEPT ![s] = Append(@, q)]
    PROVE  \A r \in Requests : QueuedOnce(r)' /\ (Queued(r)' <=> Queued(r) \/ r = q)
<1>1. /\ \A t \in Shards \ {s} : chan'[t] = chan[t]
      /\ Len(chan'[s]) = Len(chan[s]) + 1 /\ chan'[s][Len(chan[s]) + 1] = q
      /\ \A i \in 1..Len(chan[s]) : chan'[s][i] = chan[s][i]
  BY Pushed
<1>2. \A t \in Shards : Len(chan[t]) \in Nat
  BY ChanFacts
<1> DEFINE New(t, i) == t = s /\ i = Len(chan[s]) + 1
<1>3. \A t \in Shards : \A i \in 1..Len(chan'[t]) :
          \/ New(t, i) /\ chan'[t][i] = q
          \/ i \in 1..Len(chan[t]) /\ chan'[t][i] = chan[t][i]
  BY <1>1, <1>2
<1>4. \A r \in Requests : \A t, u \in Shards : \A i \in 1..Len(chan[t]), j \in 1..Len(chan[u]) :
          chan[t][i] = r /\ chan[u][j] = r => t = u /\ i = j
  BY DEF OnePlaceEach, InOnePlace, QueuedOnce, Index
<1>5. \A t \in Shards : \A i \in 1..Len(chan[t]) : chan[t][i] # q
  BY DEF Queued, Index
<1>6. ASSUME NEW r \in Requests PROVE QueuedOnce(r)'
  <2> SUFFICES ASSUME NEW t \in Shards, NEW u \in Shards, NEW i \in 1..Len(chan'[t]), NEW j \in 1..Len(chan'[u]),
                      chan'[t][i] = r, chan'[u][j] = r
               PROVE  t = u /\ i = j
    BY DEF QueuedOnce, Index
  <2>1. (New(t, i) /\ r = q) \/ (i \in 1..Len(chan[t]) /\ chan[t][i] = r)
    BY <1>3
  <2>2. (New(u, j) /\ r = q) \/ (j \in 1..Len(chan[u]) /\ chan[u][j] = r)
    BY <1>3
  <2> QED
    BY <1>4, <1>5, <2>1, <2>2
<1>7. ASSUME NEW r \in Requests, Queued(r)' PROVE Queued(r) \/ r = q
  <2>1. PICK t \in Shards : \E i \in 1..Len(chan'[t]) : chan'[t][i] = r
    BY <1>7 DEF Queued, Index
  <2>2. PICK i \in 1..Len(chan'[t]) : chan'[t][i] = r
    BY <2>1
  <2> QED
    BY <1>3, <2>2 DEF Queued, Index
<1>8. ASSUME NEW r \in Requests, Queued(r) PROVE Queued(r)'
  <2>1. PICK t \in Shards : \E i \in 1..Len(chan[t]) : chan[t][i] = r
    BY <1>8 DEF Queued, Index
  <2>2. PICK i \in 1..Len(chan[t]) : chan[t][i] = r
    BY <2>1
  <2>3. i \in 1..Len(chan'[t]) /\ chan'[t][i] = r
    BY <1>1, <1>2, <2>2
  <2> QED
    BY <2>3 DEF Queued, Index
<1>9. Queued(q)'
  <2>1. Len(chan[s]) + 1 \in 1..Len(chan'[s])
    BY <1>1, <1>2
  <2> QED
    BY <1>1, <2>1 DEF Queued, Index
<1> QED
  BY <1>6, <1>7, <1>8, <1>9

(* Every step leaves each message in one place.                            *)
LEMMA OnePlaceStep == ASSUME IndInv, Next PROVE OnePlaceEach'
<1>0. ControlTypes /\ WriterTypes /\ FileTypes /\ OnePlaceEach
  BY DEF IndInv
<1>1. /\ rpc \in [Requests -> RequestStates]
      /\ cur \in [Writers -> Requests \cup {NoRequest}]
      /\ NoRequest \notin Requests /\ \A w \in Writers : w[1] \in Shards
  BY <1>0, FsAssumption DEF ControlTypes, WriterTypes, NoRequest, Writers
<1>p. \A r \in Requests : InOnePlace(r)
  BY <1>0 DEF OnePlaceEach
<1> USE DEF Goto, Step, Reply, Queue, reqs, shares, chans, writers, files, reload, exits
<1>h. ASSUME cur' = cur PROVE \A r \in Requests : HeldOnce(r)' = HeldOnce(r) /\ Held(r)' = Held(r)
  BY <1>h DEF HeldOnce, Held
<1>c. ASSUME chan' = chan PROVE \A r \in Requests : QueuedOnce(r)' = QueuedOnce(r) /\ Queued(r)' = Queued(r)
  BY <1>c DEF QueuedOnce, Queued, Index
<1>r. ASSUME rpc' = rpc PROVE \A r \in Requests : Given(r)' = Given(r)
  BY <1>r DEF Given
(* Steps that move no message.                                             *)
<1>k. ASSUME UNCHANGED <<chan, cur, recycled, dropped>>, \A r \in Requests : Given(r)' <=> Given(r) PROVE OnePlaceEach'
  <2> SUFFICES ASSUME NEW r \in Requests PROVE InOnePlace(r)'
    BY DEF OnePlaceEach
  <2>1. /\ QueuedOnce(r)' = QueuedOnce(r) /\ HeldOnce(r)' = HeldOnce(r)
        /\ Queued(r)' = Queued(r) /\ Held(r)' = Held(r)
    BY <1>k DEF QueuedOnce, HeldOnce, Queued, Held, Index
  <2> QED
    BY <1>k, <1>p, <2>1 DEF InOnePlace
(* A writer that gives its message away holds none.                        *)
<1>g. ASSUME NEW w \in Writers, cur' = [cur EXCEPT ![w] = NoRequest], NEW q \in Requests, cur[w] = q
      PROVE  /\ Held(q) /\ ~Held(q)'
             /\ \A r \in Requests : HeldOnce(r)' /\ (Held(r)' <=> Held(r) /\ r # q)
  <2>1. \A v \in Writers : cur'[v] = IF v = w THEN NoRequest ELSE cur[v]
    BY <1>1, <1>g
  <2>2. \A r \in Requests : HeldOnce(r)
    BY <1>p DEF InOnePlace
  <2>3. Held(q) /\ ~Held(q)'
    BY <1>1, <1>g, <2>1, <2>2 DEF Held, HeldOnce
  <2>4. \A r \in Requests : Held(r) /\ r # q => Held(r)'
    BY <1>g, <2>1 DEF Held
  <2>5. \A r \in Requests : HeldOnce(r)' /\ (Held(r)' => Held(r))
    BY <1>1, <2>1, <2>2 DEF Held, HeldOnce
  <2> QED
    BY <2>3, <2>4, <2>5
<1>2. ASSUME NEW q \in Requests, Set(q) \/ Increment(q) \/ Parse(q) \/ StoreTmp(q) \/ Decrement(q)
      PROVE  OnePlaceEach'
  <2>1. UNCHANGED <<chan, cur, recycled, dropped>>
    BY <1>2 DEF Set, Increment, Parse, StoreTmp, Decrement
  <2>2. \/ Given(q) /\ rpc' = [rpc EXCEPT ![q] = "end"]
        \/ ~Given(q) /\ \E l \in RequestStates \ {"count", "end"} : rpc' = [rpc EXCEPT ![q] = l]
    BY <1>2 DEF Set, Increment, Parse, ParseFails, Parsed, StoreTmp, Decrement, Given, RequestStates
  <2>3. \A r \in Requests : Given(r)' <=> Given(r)
    BY <1>1, <2>2 DEF Given
  <2> QED
    BY <1>k, <2>1, <2>3
<1>3. ASSUME NEW q \in Requests, Send(q) PROVE OnePlaceEach'
  <2>1. UNCHANGED <<cur, recycled>> /\ ~Given(q)
    BY <1>3 DEF Send, Given
  <2>2. ~Queued(q) /\ ~Held(q) /\ q \notin recycled /\ q \notin dropped
    BY <1>p, <2>1 DEF InOnePlace
  <2>3. CASE SendPanics(q)
    <3>1. UNCHANGED <<chan, dropped, rpc>>
      BY <2>3 DEF SendPanics
    <3> QED
      BY <1>k, <1>r, <2>1, <3>1
  <2>4. CASE NoShard(q)
    <3>1. chan' = chan /\ dropped' = dropped \cup {q} /\ rpc' = [rpc EXCEPT ![q] = "count"]
      BY <2>4 DEF NoShard
    <3> SUFFICES ASSUME NEW r \in Requests PROVE InOnePlace(r)'
      BY DEF OnePlaceEach
    <3>2. Given(r)' <=> Given(r) \/ r = q
      BY <1>1, <3>1 DEF Given
    <3>3. /\ QueuedOnce(r)' = QueuedOnce(r) /\ Queued(r)' = Queued(r)
          /\ HeldOnce(r)' = HeldOnce(r) /\ Held(r)' = Held(r)
      BY <1>c, <1>h, <2>1, <3>1
    <3>4. r \in dropped' <=> r \in dropped \/ r = q
      BY <3>1
    <3>5. InOnePlace(r)
      BY <1>p
    <3> QED
      BY <2>1, <2>2, <3>2, <3>3, <3>4, <3>5 DEF InOnePlace
  <2>5. CASE Sent(q)
    <3>1. shard[q] \in Shards /\ rpc' = [rpc EXCEPT ![q] = "count"] /\ dropped' = dropped
      BY <1>0, <2>5 DEF ControlTypes, Sent
    <3>2. \A r \in Requests : QueuedOnce(r)' /\ (Queued(r)' <=> Queued(r) \/ r = q)
      BY <1>0, <2>2, <2>5, <3>1, PutIn DEF Sent
    <3> SUFFICES ASSUME NEW r \in Requests PROVE InOnePlace(r)'
      BY DEF OnePlaceEach
    <3>3. Given(r)' <=> Given(r) \/ r = q
      BY <1>1, <3>1 DEF Given
    <3>4. HeldOnce(r)' = HeldOnce(r) /\ Held(r)' = Held(r)
      BY <1>h, <2>1
    <3>5. InOnePlace(r)
      BY <1>p
    <3> QED
      BY <2>1, <2>2, <3>1, <3>2, <3>3, <3>4, <3>5 DEF InOnePlace
  <2> QED
    BY <1>3, <2>3, <2>4, <2>5 DEF Send
<1>4. ASSUME NEW w \in Writers, WriterRecv(w) PROVE OnePlaceEach'
  <2>1. /\ chan[w[1]] # <<>> /\ chan' = [chan EXCEPT ![w[1]] = Tail(@)] /\ w[1] \in Shards
        /\ cur' = [cur EXCEPT ![w] = Head(chan[w[1]])] /\ UNCHANGED <<rpc, recycled, dropped>>
    BY <1>1, <1>4 DEF WriterRecv
  <2>2. Head(chan[w[1]]) \in Requests /\ cur[w] \notin Requests
    BY <1>0, <1>1, <1>4, <2>1, Popped DEF WriterRecv, WriterTypes
  <2>3. PICK h \in Requests : h = Head(chan[w[1]])
    BY <2>2
  <2>4. Queued(h) /\ ~Queued(h)' /\ \A r \in Requests : QueuedOnce(r)' /\ (Queued(r)' <=> Queued(r) /\ r # h)
    BY <1>0, <2>1, <2>3, TakenOut
  <2>5. ~Held(h) /\ h \notin recycled /\ h \notin dropped /\ Given(h)
    BY <1>p, <2>4 DEF InOnePlace
  <2>6. \A v \in Writers : cur'[v] = IF v = w THEN h ELSE cur[v]
    BY <1>1, <2>1, <2>3
  <2> SUFFICES ASSUME NEW r \in Requests PROVE InOnePlace(r)'
    BY DEF OnePlaceEach
  <2>7. InOnePlace(r) /\ HeldOnce(r)
    BY <1>p DEF InOnePlace
  <2>8. HeldOnce(r)' /\ (Held(r)' <=> Held(r) \/ r = h)
    BY <2>2, <2>5, <2>6, <2>7 DEF HeldOnce, Held
  <2>9. Given(r)' = Given(r)
    BY <1>r, <2>1
  <2> QED
    BY <2>1, <2>4, <2>5, <2>7, <2>8, <2>9 DEF InOnePlace
<1>5. ASSUME NEW w \in Writers, WriterWrite(w) PROVE OnePlaceEach'
  <2>1. UNCHANGED <<chan, rpc, dropped>> /\ cur[w] \in Requests
    BY <1>0, <1>5 DEF WriterWrite, WriterTypes
  <2>2. CASE UNCHANGED <<recycled, cur>>
    BY <1>k, <1>r, <2>1, <2>2
  <2>3. CASE recycled' = recycled \cup {cur[w]} /\ cur' = [cur EXCEPT ![w] = NoRequest]
    <3>1. PICK q \in Requests : q = cur[w]
      BY <2>1
    <3>2. Held(q) /\ ~Held(q)' /\ \A r \in Requests : HeldOnce(r)' /\ (Held(r)' <=> Held(r) /\ r # q)
      BY <1>g, <2>3, <3>1
    <3> SUFFICES ASSUME NEW r \in Requests PROVE InOnePlace(r)'
      BY DEF OnePlaceEach
    <3>3. QueuedOnce(r)' = QueuedOnce(r) /\ Queued(r)' = Queued(r) /\ Given(r)' = Given(r)
      BY <1>c, <1>r, <2>1
    <3>4. r \in recycled' <=> r \in recycled \/ r = q
      BY <2>3, <3>1
    <3>5. InOnePlace(r)
      BY <1>p
    <3> QED
      BY <2>1, <3>2, <3>3, <3>4, <3>5 DEF InOnePlace
  <2> QED
    BY <1>5, <2>2, <2>3 DEF WriterWrite
<1>6. ASSUME NEW w \in Writers, WriterRetry(w) PROVE OnePlaceEach'
  <2>1. UNCHANGED <<rpc, recycled, dropped>> /\ cur[w] \in Requests /\ w[1] \in Shards
    BY <1>0, <1>1, <1>6 DEF WriterRetry, WriterTypes
  <2>2. CASE UNCHANGED <<chan, cur>>
    BY <1>k, <1>r, <2>1, <2>2
  <2>3. CASE chan' = [chan EXCEPT ![w[1]] = Append(@, cur[w])] /\ cur' = [cur EXCEPT ![w] = NoRequest]
    <3>1. PICK q \in Requests : q = cur[w]
      BY <2>1
    <3>2. Held(q) /\ ~Held(q)' /\ \A r \in Requests : HeldOnce(r)' /\ (Held(r)' <=> Held(r) /\ r # q)
      BY <1>g, <2>3, <3>1
    <3>3. ~Queued(q) /\ q \notin recycled /\ q \notin dropped /\ Given(q)
      BY <1>p, <3>2 DEF InOnePlace
    <3>4. \A r \in Requests : QueuedOnce(r)' /\ (Queued(r)' <=> Queued(r) \/ r = q)
      BY <1>0, <2>1, <2>3, <3>1, <3>3, PutIn
    <3> SUFFICES ASSUME NEW r \in Requests PROVE InOnePlace(r)'
      BY DEF OnePlaceEach
    <3>5. InOnePlace(r) /\ Given(r)' = Given(r)
      BY <1>p, <1>r, <2>1
    <3> QED
      BY <2>1, <3>2, <3>3, <3>4, <3>5 DEF InOnePlace
  <2> QED
    BY <1>6, <2>2, <2>3 DEF WriterRetry
<1>7. ASSUME NEW w \in Writers, WriterDrain(w) PROVE OnePlaceEach'
  <2>1. /\ UNCHANGED <<rpc, cur>> /\ w[1] \in Shards
        /\ chan[w[1]] # <<>> /\ chan' = [chan EXCEPT ![w[1]] = Tail(@)]
        /\ \/ recycled' = recycled \cup {Head(chan[w[1]])} /\ dropped' = dropped
           \/ dropped' = dropped \cup {Head(chan[w[1]])} /\ recycled' = recycled
    BY <1>1, <1>7 DEF WriterDrain
  <2>2. Head(chan[w[1]]) \in Requests
    BY <1>0, <2>1, Popped
  <2>3. PICK h \in Requests : h = Head(chan[w[1]])
    BY <2>2
  <2>4. Queued(h) /\ ~Queued(h)' /\ \A r \in Requests : QueuedOnce(r)' /\ (Queued(r)' <=> Queued(r) /\ r # h)
    BY <1>0, <2>1, <2>3, TakenOut
  <2> SUFFICES ASSUME NEW r \in Requests PROVE InOnePlace(r)'
    BY DEF OnePlaceEach
  <2>5. InOnePlace(r) /\ HeldOnce(r)' = HeldOnce(r) /\ Held(r)' = Held(r) /\ Given(r)' = Given(r)
    BY <1>h, <1>p, <1>r, <2>1
  <2>6. \/ (r \in recycled' <=> r \in recycled \/ r = h) /\ (r \in dropped' <=> r \in dropped)
        \/ (r \in dropped' <=> r \in dropped \/ r = h) /\ (r \in recycled' <=> r \in recycled)
    BY <2>1, <2>3
  <2> QED
    BY <2>4, <2>5, <2>6 DEF InOnePlace
<1>8. ASSUME \/ (\E c \in Configs : Reload(c)) \/ ReloadShards \/ ReloadPanics
             \/ OtherDecrements \/ Exit \/ ExitCloses \/ ExitDone
      PROVE  OnePlaceEach'
  <2>1. UNCHANGED <<chan, cur, recycled, dropped, rpc>>
    BY <1>8 DEF Reload, ReloadShards, ReloadPanics, OtherDecrements, Exit, ExitCloses, ExitDone
  <2> QED
    BY <1>k, <1>r, <2>1
<1>9. ASSUME NEW w \in Writers, WriterEnd(w) \/ WriterChecks(w) PROVE OnePlaceEach'
  <2>1. UNCHANGED <<chan, cur, recycled, dropped, rpc>>
    BY <1>9 DEF WriterEnd, WriterChecks
  <2> QED
    BY <1>k, <1>r, <2>1
<1> QED
  BY <1>2, <1>3, <1>4, <1>5, <1>6, <1>7, <1>8, <1>9 DEF Next, Proceed, Reloading, Request, Writer, Exits

-----------------------------------------------------------------------------
(* Every step keeps the account of running.                                *)
LEMMA CountStep == ASSUME IndInv, Next PROVE RunningCounts'
<1>0. ControlTypes /\ RunningCounts
  BY DEF IndInv
<1>1. rpc \in [Requests -> RequestStates] /\ running \in Int /\ strayed \in Int /\ missed \in Int
  BY <1>0 DEF ControlTypes
<1>2. IsFiniteSet(Counted) /\ Cardinality(Counted) \in Nat
  <2>1. IsFiniteSet(Requests) /\ Counted \subseteq Requests
    BY FsAssumption DEF Counted
  <2>2. IsFiniteSet(Counted)
    BY <2>1, FS_Subset
  <2> QED
    BY <2>2, FS_CardinalityType
<1> USE DEF Goto, Step, Reply, reqs, shares, chans, writers, files, reload, exits
<1>k. ASSUME Counted' = Counted, UNCHANGED <<running, shares>> PROVE RunningCounts'
  BY <1>0, <1>k DEF RunningCounts
<1>4. ASSUME NEW r \in Requests, Set(r) \/ Parse(r) \/ StoreTmp(r) \/ Send(r) PROVE RunningCounts'
  <2>1. UNCHANGED <<running, shares>>
    BY <1>4 DEF Set, Parse, StoreTmp, Send
  <2>2. \/ rpc' = rpc
        \/ r \notin Counted /\ \E l \in {"inc", "refused"} : rpc' = [rpc EXCEPT ![r] = l]
        \/ r \in Counted /\ \E l \in {"fail", "tmp", "send", "count"} : rpc' = [rpc EXCEPT ![r] = l]
    BY <1>4 DEF Set, Parse, ParseFails, Parsed, StoreTmp, Send, NoShard, Sent, SendPanics, Counted
  <2>3. Counted' = Counted
    BY <1>1, <2>2 DEF Counted
  <2> QED
    BY <1>k, <2>1, <2>3
<1>5. ASSUME NEW r \in Requests, Increment(r) PROVE RunningCounts'
  <2>1. running' = running + 1 /\ UNCHANGED shares
    BY <1>5 DEF Increment
  <2>2. r \notin Counted /\ Counted' = Counted \cup {r}
    BY <1>1, <1>5 DEF Increment, Counted
  <2>3. Cardinality(Counted') = Cardinality(Counted) + 1
    BY <1>2, <2>2, FS_AddElement
  <2> QED
    BY <1>0, <1>1, <1>2, <2>1, <2>3 DEF RunningCounts
<1>6. ASSUME NEW r \in Requests, Decrement(r) PROVE RunningCounts'
  <2>1. \/ running' = running - 1 /\ missed' = missed /\ strayed' = strayed
        \/ Shared /\ running' = running /\ missed' = missed + 1 /\ strayed' = strayed
    BY <1>6 DEF Decrement, Uncount
  <2>2. r \in Counted /\ Counted' = Counted \ {r}
    BY <1>1, <1>6 DEF Decrement, Counted
  <2>3. Cardinality(Counted') = Cardinality(Counted) - 1
    BY <1>2, <2>2, FS_RemoveElement
  <2> QED
    BY <1>0, <1>1, <1>2, <2>1, <2>3 DEF RunningCounts
<1>o. ASSUME OtherDecrements PROVE RunningCounts'
  <2>1. Shared /\ running' = running - 1 /\ missed' = missed /\ strayed' = strayed + 1 /\ Counted' = Counted
    BY <1>o DEF OtherDecrements, Uncount, Counted
  <2> QED
    BY <1>0, <1>1, <1>2, <2>1 DEF RunningCounts
<1>7. ASSUME UNCHANGED <<rpc, running, shares>> PROVE RunningCounts'
  BY <1>k, <1>7 DEF Counted
<1>8. ASSUME NEW w \in Writers, Writer(w) PROVE RunningCounts'
  BY <1>7, <1>8 DEF Writer, WriterRecv, WriterEnd, WriterWrite, WriterRetry
<1>9. ASSUME (\E c \in Configs : Reload(c)) \/ ReloadShards \/ ReloadPanics \/ Exit \/ ExitCloses \/ ExitDone
      PROVE  RunningCounts'
  BY <1>7, <1>9 DEF Reload, ReloadShards, ReloadPanics, Exit, ExitCloses, ExitDone
<1>10. ASSUME NEW w \in Writers, WriterChecks(w) \/ WriterDrain(w) PROVE RunningCounts'
  BY <1>7, <1>10 DEF WriterChecks, WriterDrain
<1> QED
  BY <1>4, <1>5, <1>6, <1>o, <1>8, <1>9, <1>10 DEF Next, Proceed, Reloading, Request, Exits

LEMMA Invariance == Spec => []IndInv
<1>1. IndInv /\ UNCHANGED vars => IndInv'
  <2> SUFFICES ASSUME IndInv, UNCHANGED vars PROVE IndInv'
    OBVIOUS
  <2> USE DEF vars, reqs, shares, chans, writers, files, reload, exits
  <2>1. ControlTypes' /\ FileTypes'
    BY DEF IndInv, ControlTypes, FileTypes
  <2>2. WriterTypes'
    BY DEF IndInv, WriterTypes, CanStart, Unused, Starting
  <2>3. RunningCounts'
    BY DEF IndInv, RunningCounts, Counted
  <2>4. \A r \in Requests : /\ QueuedOnce(r)' = QueuedOnce(r) /\ HeldOnce(r)' = HeldOnce(r) /\ Given(r)' = Given(r)
                            /\ Queued(r)' = Queued(r) /\ Held(r)' = Held(r)
    BY DEF QueuedOnce, HeldOnce, Given, Queued, Held, Index
  <2>5. OnePlaceEach'
    BY <2>4 DEF IndInv, OnePlaceEach, InOnePlace
  <2> QED
    BY <2>1, <2>2, <2>3, <2>5 DEF IndInv
<1>2. IndInv /\ Next => IndInv'
  BY ControlTypeStep, FileTypeStep, WriterTypeStep, OnePlaceStep, CountStep DEF IndInv
<1> QED
  BY InitInd, <1>1, <1>2, PTL DEF Spec

(* From one place to the count of places.                                  *)
LEMMA AtMostOne == ASSUME NEW S, \A x, y \in S : x = y PROVE Cardinality(S) \in {0, 1} /\ (Cardinality(S) = 1 <=> S # {})
<1>1. CASE S = {}
  BY <1>1, FS_EmptySet
<1>2. ASSUME NEW x \in S PROVE Cardinality(S) = 1
  <2>1. S = {x}
    BY <1>2
  <2> QED
    BY <2>1, FS_Singleton
<1> QED
  BY <1>1, <1>2

LEMMA CountsOne == ASSUME IndInv, NEW r \in Requests PROVE Places(r) = IF rpc[r] \in {"count", "end"} THEN 1 ELSE 0
<1> DEFINE Q == {x \in Shards \X (1..Buffer) : x[2] <= Len(chan[x[1]]) /\ chan[x[1]][x[2]] = r}
           H == {w \in Writers : cur[w] = r}
           F == {f \in {1} : r \in recycled}
           D == {f \in {1} : r \in dropped}
<1>1. InOnePlace(r) /\ FileTypes /\ Buffer \in Nat
  BY FsAssumption DEF IndInv, OnePlaceEach
<1>2. \A x \in Q : x = <<x[1], x[2]>> /\ x[1] \in Shards /\ x[2] \in Index(x[1]) /\ chan[x[1]][x[2]] = r
  <2> SUFFICES ASSUME NEW x \in Q PROVE x = <<x[1], x[2]>> /\ x[1] \in Shards /\ x[2] \in Index(x[1]) /\ chan[x[1]][x[2]] = r
    OBVIOUS
  <2>1. x = <<x[1], x[2]>> /\ x[1] \in Shards /\ x[2] \in 1..Buffer /\ x[2] <= Len(chan[x[1]]) /\ chan[x[1]][x[2]] = r
    OBVIOUS
  <2>2. Len(chan[x[1]]) \in Nat
    BY <1>1, <2>1, ChanFacts
  <2> QED
    BY <1>1, <2>1, <2>2 DEF Index
<1>3. \A x, y \in Q : x = y
  <2> SUFFICES ASSUME NEW x \in Q, NEW y \in Q PROVE x = y
    OBVIOUS
  <2> HIDE DEF Q
  <2>1. x[1] = y[1] /\ x[2] = y[2]
    BY <1>1, <1>2 DEF InOnePlace, QueuedOnce
  <2> QED
    BY <1>2, <2>1
<1>4. \A x, y \in H : x = y
  BY <1>1 DEF InOnePlace, HeldOnce
<1>5. (\A x, y \in F : x = y) /\ (\A x, y \in D : x = y)
  OBVIOUS
<1>6. (Q # {} <=> Queued(r)) /\ (H # {} <=> Held(r)) /\ (F # {} <=> r \in recycled) /\ (D # {} <=> r \in dropped)
  <2>1. Q # {} => Queued(r)
    <3> HIDE DEF Q
    <3> QED
      BY <1>2 DEF Queued
  <2>2. Queued(r) => Q # {}
    <3> SUFFICES ASSUME NEW s \in Shards, NEW i \in Index(s), chan[s][i] = r PROVE <<s, i>> \in Q
      BY DEF Queued
    <3>1. Len(chan[s]) \in Nat /\ Len(chan[s]) <= Buffer
      BY <1>1, ChanFacts DEF FileTypes
    <3> QED
      BY <1>1, <3>1 DEF Index
  <2> QED
    BY <2>1, <2>2 DEF Held
<1> HIDE DEF Q, H, F, D
<1>7. /\ Cardinality(Q) \in {0, 1} /\ (Cardinality(Q) = 1 <=> Q # {})
      /\ Cardinality(H) \in {0, 1} /\ (Cardinality(H) = 1 <=> H # {})
      /\ Cardinality(F) \in {0, 1} /\ (Cardinality(F) = 1 <=> F # {})
      /\ Cardinality(D) \in {0, 1} /\ (Cardinality(D) = 1 <=> D # {})
  BY <1>3, <1>4, <1>5, AtMostOne
<1>8. Cardinality(Q) + Cardinality(H) + Cardinality(F) + Cardinality(D) = IF Given(r) THEN 1 ELSE 0
  <2>1. /\ Q # {} => H = {} /\ F = {} /\ D = {}
        /\ H # {} => F = {} /\ D = {}
        /\ F # {} => D = {}
        /\ Given(r) <=> Q # {} \/ H # {} \/ F # {} \/ D # {}
    BY <1>1, <1>6 DEF InOnePlace
  <2> QED
    BY <1>7, <2>1
<1>9. Places(r) = Cardinality(Q) + Cardinality(H) + Cardinality(F) + Cardinality(D)
  BY DEF Places, Q, H, F, D
<1> QED
  BY <1>8, <1>9 DEF Given

-----------------------------------------------------------------------------
(* running counts exactly the requests that were accepted and whose        *)
(* message is not in a shard's channel yet, and those that failed on the   *)
(* way, but for the decrements that went to another relayer or came from   *)
(* one because a message was recycled before sentToShard's deferred        *)
(* decrement; for any number of requests, relayers and failures.           *)
THEOREM RunningCountsAlways == Spec => []RunningCounts
<1>1. IndInv => RunningCounts
  BY DEF IndInv
<1> QED
  BY Invariance, <1>1, PTL

(* A message given to sentToShard is in exactly one place, in a channel,   *)
(* with a writer, recycled or given up, while writers are started and      *)
(* stopped by reloads, send back what they could not write or remove, and  *)
(* drain the channels at the exit beside the writers that still listen; no *)
(* channel is overfull and the state is well typed.                        *)
THEOREM MessageOnceAlways == Spec => []MessageOnce
<1>1. IndInv => MessageOnce
  <2> SUFFICES ASSUME IndInv PROVE MessageOnce
    OBVIOUS
  <2>1. \A r \in Requests : Places(r) = IF rpc[r] \in {"count", "end"} THEN 1 ELSE 0
    BY CountsOne
  <2>2. ControlTypes /\ FileTypes /\ WriterTypes
    BY DEF IndInv
  <2>3. ASSUME NEW s \in Shards PROVE Len(chan[s]) <= Buffer /\ \A i \in DOMAIN chan[s] : chan[s][i] \in Requests
    BY <2>2, ChanFacts DEF FileTypes
  <2>4. ASSUME NEW s \in Shards PROVE \A i \in DOMAIN list[s] : list[s][i] \in Writers
    <3>1. list[s] \in Seq(Writers)
      BY <2>2 DEF WriterTypes
    <3> QED
      BY <3>1
  <2>5. TypeOK
    <3>1. strayed \in 0..MaxFailures
      <4>1. strayed \in 0..failures /\ failures \in 0..MaxFailures /\ MaxFailures \in Nat
        BY <2>2, FsAssumption DEF ControlTypes
      <4> QED
        BY <4>1
    <3> QED
      BY <2>2, <2>3, <2>4, <3>1 DEF TypeOK, ControlTypes, RequestStates, FileTypes, WriterTypes
  <2> QED
    BY <2>1, <2>5 DEF MessageOnce
<1> QED
  BY Invariance, <1>1, PTL
=============================================================================
