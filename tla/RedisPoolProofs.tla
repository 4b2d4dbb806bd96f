--------------------------- MODULE RedisPoolProofs ---------------------------
(***************************************************************************)
(* Proofs about RedisPool for any connections, clients and configurations: *)
(* Get, Put, monitor, Reload and Reset, which use the channels without a   *)
(* lock, never share a client, lose a live one or keep a terminated one.   *)
(***************************************************************************)
EXTENDS RedisPool, FiniteSetTheorems, TLAPS

Channels == [cap : Nat, q : Seq(Clients)]

(* The channel a reload makes is the last; until its clients are moved     *)
(* p.free points to another one.                                           *)
ChansTyped ==
    /\ chans \in Seq(Channels)
    /\ rpc \in {"drain", "swap"} => free # Len(chans)

(* A connection has a client from Take until Put, and the monitor while it *)
(* sends.                                                                  *)
Holding ==
    /\ \A k \in Conns : cpc[k] \in {"tick", "use", "store"} => mine[k] # NoClient
    /\ \A k \in Conns : cpc[k] \in {"idle", "take", "retry", "expired"} => mine[k] = NoClient
    /\ spare # NoClient <=> mpc = "send"

(* What OneOwner counts, by where a client is: what is queued or held is   *)
(* alive and in one place only, and what is alive is in a place.           *)
Index(g) == 1..Len(chans[g].q)
QueuedOnce ==
    \A g, h \in DOMAIN chans : \A i \in Index(g), j \in Index(h) :
        chans[g].q[i] = chans[h].q[j] => g = h /\ i = j
HeldOnce == \A k, l \in Conns : mine[k] = mine[l] /\ mine[k] # NoClient => k = l
QueuedOrHeld ==
    /\ \A g \in DOMAIN chans : \A i \in Index(g) :
         chans[g].q[i] # spare /\ \A k \in Conns : chans[g].q[i] # mine[k]
    /\ \A k \in Conns : mine[k] = spare => spare = NoClient
PlacedLive ==
    /\ \A g \in DOMAIN chans : \A i \in Index(g) : chans[g].q[i] \in live
    /\ \A k \in Conns : mine[k] # NoClient => mine[k] \in live
    /\ spare # NoClient => spare \in live
LivePlaced ==
    \A c \in live :
        \/ \E g \in DOMAIN chans : \E i \in Index(g) : chans[g].q[i] = c
        \/ \E k \in Conns : mine[k] = c
        \/ spare = c

InOnePlace == QueuedOnce /\ HeldOnce /\ QueuedOrHeld /\ PlacedLive /\ LivePlaced

IndInv == TypeOK /\ ChansTyped /\ Holding /\ InOnePlace

-----------------------------------------------------------------------------
(* A channel has a capacity and a queue of clients.                        *)
LEMMA ChannelFacts ==
    ASSUME ChansTyped
    PROVE  /\ Len(chans) \in Nat /\ DOMAIN chans = 1..Len(chans)
           /\ \A g \in DOMAIN chans :
                /\ chans[g] \in Channels /\ chans[g].cap \in Nat
                /\ chans[g].q \in Seq(Clients) /\ Len(chans[g].q) \in Nat
                /\ chans[g] = [cap |-> chans[g].cap, q |-> chans[g].q]
<1>1. Len(chans) \in Nat /\ DOMAIN chans = 1..Len(chans) /\ \A g \in DOMAIN chans : chans[g] \in Channels
  BY DEF ChansTyped
<1> QED
  BY <1>1 DEF Channels

(* Assigning the queue of a channel leaves its capacity.                   *)
LEMMA SetQueue ==
    ASSUME NEW r \in Channels, NEW t
    PROVE  [r EXCEPT !.q = t] = [cap |-> r.cap, q |-> t]
  BY DEF Channels

(* Taking the first client of a channel moves the others up.               *)
LEMMA Popped ==
    ASSUME ChansTyped, NEW g \in DOMAIN chans, chans[g].q # <<>>, Pop(g)
    PROVE  /\ chans' \in Seq(Channels) /\ DOMAIN chans' = DOMAIN chans /\ Len(chans') = Len(chans)
           /\ \A h \in DOMAIN chans : chans'[h].cap = chans[h].cap
           /\ \A h \in DOMAIN chans \ {g} : chans'[h].q = chans[h].q
           /\ Len(chans'[g].q) = Len(chans[g].q) - 1 /\ Len(chans[g].q) >= 1
           /\ Head(chans[g].q) = chans[g].q[1]
           /\ \A i \in 1..(Len(chans[g].q) - 1) : chans'[g].q[i] = chans[g].q[i + 1]
<1> DEFINE t == Tail(chans[g].q)
<1>1. /\ t \in Seq(Clients) /\ Len(t) = Len(chans[g].q) - 1 /\ Len(chans[g].q) >= 1
      /\ \A i \in 1..(Len(chans[g].q) - 1) : t[i] = chans[g].q[i + 1]
      /\ Head(chans[g].q) = chans[g].q[1]
  BY ChannelFacts
<1>2. chans' = [chans EXCEPT ![g] = [cap |-> chans[g].cap, q |-> t]]
  <2>1. [chans[g] EXCEPT !.q = t] = [cap |-> chans[g].cap, q |-> t]
    BY SetQueue, ChannelFacts
  <2>2. chans' = [chans EXCEPT ![g] = [chans[g] EXCEPT !.q = t]]
    BY DEF Pop
  <2> QED
    BY <2>1, <2>2
<1> HIDE DEF t
<1>3. [cap |-> chans[g].cap, q |-> t] \in Channels
  BY <1>1, ChannelFacts DEF Channels
<1>4. DOMAIN chans' = DOMAIN chans /\ chans' \in Seq(Channels) /\ Len(chans') = Len(chans)
  BY <1>2, <1>3, ChannelFacts DEF ChansTyped
<1> QED
  BY <1>1, <1>2, <1>4, ChannelFacts

(* Storing a client in a channel puts it at the end.                       *)
LEMMA Stored ==
    ASSUME ChansTyped, NEW g \in DOMAIN chans, NEW c \in Clients, Store(g, c)
    PROVE  /\ chans' \in Seq(Channels) /\ DOMAIN chans' = DOMAIN chans /\ Len(chans') = Len(chans)
           /\ \A h \in DOMAIN chans : chans'[h].cap = chans[h].cap
           /\ \A h \in DOMAIN chans \ {g} : chans'[h].q = chans[h].q
           /\ Len(chans'[g].q) = Len(chans[g].q) + 1
           /\ chans'[g].q[Len(chans[g].q) + 1] = c
           /\ \A i \in 1..Len(chans[g].q) : chans'[g].q[i] = chans[g].q[i]
<1> DEFINE t == Append(chans[g].q, c)
<1>1. /\ t \in Seq(Clients) /\ Len(t) = Len(chans[g].q) + 1 /\ t[Len(chans[g].q) + 1] = c
      /\ \A i \in 1..Len(chans[g].q) : t[i] = chans[g].q[i]
  BY ChannelFacts
<1>2. chans' = [chans EXCEPT ![g] = [cap |-> chans[g].cap, q |-> t]]
  <2>1. [chans[g] EXCEPT !.q = t] = [cap |-> chans[g].cap, q |-> t]
    BY SetQueue, ChannelFacts
  <2>2. chans' = [chans EXCEPT ![g] = [chans[g] EXCEPT !.q = t]]
    BY DEF Store
  <2> QED
    BY <2>1, <2>2
<1> HIDE DEF t
<1>3. [cap |-> chans[g].cap, q |-> t] \in Channels
  BY <1>1, ChannelFacts DEF Channels
<1>4. DOMAIN chans' = DOMAIN chans /\ chans' \in Seq(Channels) /\ Len(chans') = Len(chans)
  BY <1>2, <1>3, ChannelFacts DEF ChansTyped
<1> QED
  BY <1>1, <1>2, <1>4, ChannelFacts

(* Draining the old channel into the new one, if that has room.            *)
LEMMA DrainMoves ==
    ASSUME ChansTyped, TypeOK, Drain
    PROVE  LET n == Len(chans)  g == free IN
           /\ chans' \in Seq(Channels) /\ DOMAIN chans' = DOMAIN chans /\ Len(chans') = n
           /\ g \in DOMAIN chans /\ n \in DOMAIN chans /\ g # n
           /\ \A h \in DOMAIN chans : chans'[h].cap = chans[h].cap
           /\ \A h \in DOMAIN chans \ {g, n} : chans'[h].q = chans[h].q
           /\ Len(chans'[g].q) = Len(chans[g].q) - 1 /\ Len(chans[g].q) >= 1
           /\ Head(chans[g].q) = chans[g].q[1]
           /\ \A i \in 1..(Len(chans[g].q) - 1) : chans'[g].q[i] = chans[g].q[i + 1]
           /\ Len(chans'[n].q) = IF Room(n) THEN Len(chans[n].q) + 1 ELSE Len(chans[n].q)
           /\ \A i \in 1..Len(chans[n].q) : chans'[n].q[i] = chans[n].q[i]
           /\ Room(n) => chans'[n].q[Len(chans[n].q) + 1] = chans[g].q[1]
<1> DEFINE n == Len(chans)  g == free
           t == Tail(chans[g].q)  u == Append(chans[n].q, Head(chans[g].q))
<1>0. g \in DOMAIN chans /\ n \in DOMAIN chans /\ g # n /\ chans[g].q # <<>>
  BY ChannelFacts DEF Drain, ChansTyped, TypeOK
<1>1. /\ t \in Seq(Clients) /\ Len(t) = Len(chans[g].q) - 1 /\ Len(chans[g].q) >= 1
      /\ \A i \in 1..(Len(chans[g].q) - 1) : t[i] = chans[g].q[i + 1]
      /\ Head(chans[g].q) = chans[g].q[1] /\ Head(chans[g].q) \in Clients
  BY <1>0, ChannelFacts
<1>2. /\ u \in Seq(Clients) /\ Len(u) = Len(chans[n].q) + 1 /\ u[Len(chans[n].q) + 1] = chans[g].q[1]
      /\ \A i \in 1..Len(chans[n].q) : u[i] = chans[n].q[i]
  BY <1>0, <1>1, ChannelFacts
<1>3. chans' = IF Room(n)
                 THEN [chans EXCEPT ![g] = [cap |-> chans[g].cap, q |-> t],
                                    ![n] = [cap |-> chans[n].cap, q |-> u]]
                 ELSE [chans EXCEPT ![g] = [cap |-> chans[g].cap, q |-> t]]
  <2>1. [chans[g] EXCEPT !.q = t] = [cap |-> chans[g].cap, q |-> t]
    BY <1>0, SetQueue, ChannelFacts
  <2>2. [chans[n] EXCEPT !.q = u] = [cap |-> chans[n].cap, q |-> u]
    BY <1>0, SetQueue, ChannelFacts
  <2>3. chans' = IF Room(n) THEN [chans EXCEPT ![g].q = t, ![n].q = Append(@, Head(chans[g].q))]
                            ELSE [chans EXCEPT ![g].q = t]
    BY DEF Drain, Moved
  <2>4. [chans EXCEPT ![g].q = t, ![n].q = Append(@, Head(chans[g].q))]
          = [chans EXCEPT ![g] = [chans[g] EXCEPT !.q = t], ![n] = [chans[n] EXCEPT !.q = u]]
    BY <1>0
  <2> QED
    BY <2>1, <2>2, <2>3, <2>4
<1> HIDE DEF t, u
<1>4. [cap |-> chans[g].cap, q |-> t] \in Channels /\ [cap |-> chans[n].cap, q |-> u] \in Channels
  BY <1>0, <1>1, <1>2, ChannelFacts DEF Channels
<1>5. DOMAIN chans' = DOMAIN chans /\ chans' \in Seq(Channels) /\ Len(chans') = Len(chans)
  BY <1>0, <1>3, <1>4, ChannelFacts DEF ChansTyped
<1> QED
  BY <1>0, <1>1, <1>2, <1>3, <1>5, ChannelFacts

(* A new client is one that was not alive.                                 *)
LEMMA FreshIsNew == ASSUME TypeOK, live # Clients PROVE Fresh \in Clients \ live
<1> DEFINE S == Clients \ live
<1>1. S \subseteq Nat
  BY PoolAssumption DEF Clients
<1>2. S # {}
  BY Zenon DEF TypeOK
<1> HIDE DEF S
<1>3. PICK m \in S : \A d \in S : <<d, m>> \notin OpToRel(<, Nat)
  BY <1>1, <1>2, WFMin, NatLessThanWellFounded
<1>4. ASSUME NEW d \in S PROVE m <= d
  <2>1. d < m => <<d, m>> \in OpToRel(<, Nat)
    BY <1>1, Zenon DEF OpToRel
  <2>2. ~(d < m)
    BY <1>3, <2>1, Zenon
  <2> QED
    BY <1>1, <2>2
<1> QED
  BY <1>4 DEF Fresh, S

(* Every step keeps the channels well typed and not overfull, the ones the *)
(* goroutines point to among them.                                         *)
Queues ==
    /\ ChansTyped /\ \A g \in DOMAIN chans : Len(chans[g].q) <= chans[g].cap
    /\ free \in DOMAIN chans /\ mslot \in DOMAIN chans /\ slot \in [Conns -> DOMAIN chans]
LEMMA QueueStep == ASSUME IndInv, Next PROVE Queues'
<1>0. /\ TypeOK /\ Holding /\ Queues /\ NoClient \notin Clients
      /\ free \in DOMAIN chans /\ mslot \in DOMAIN chans /\ slot \in [Conns -> DOMAIN chans]
      /\ rpc \in {"idle", "drain", "swap", "reset"}
      /\ mine \in [Conns -> Clients \cup {NoClient}] /\ spare \in Clients \cup {NoClient}
  BY DEF IndInv, Queues, TypeOK, NoClient, Clients
<1>00. /\ Len(chans) \in Nat /\ DOMAIN chans = 1..Len(chans) /\ 1 \in DOMAIN chans /\ Len(chans) \in DOMAIN chans
       /\ \A g \in DOMAIN chans : chans[g].cap \in Nat /\ Len(chans[g].q) \in Nat
  BY <1>0, ChannelFacts DEF Queues
<1> DEFINE Kept == /\ chans' \in Seq(Channels) /\ DOMAIN chans' = DOMAIN chans /\ Len(chans') = Len(chans)
                   /\ \A g \in DOMAIN chans : Len(chans'[g].q) <= chans'[g].cap
<1>p. ASSUME NEW g \in DOMAIN chans, chans[g].q # <<>>, Pop(g) PROVE Kept
  <2>1. ChansTyped /\ \A h \in DOMAIN chans : Len(chans[h].q) <= chans[h].cap
    BY <1>0 DEF Queues
  <2>2. /\ chans' \in Seq(Channels) /\ DOMAIN chans' = DOMAIN chans /\ Len(chans') = Len(chans)
        /\ \A h \in DOMAIN chans : chans'[h].cap = chans[h].cap
        /\ \A h \in DOMAIN chans \ {g} : chans'[h].q = chans[h].q
        /\ Len(chans'[g].q) = Len(chans[g].q) - 1
    BY <1>p, <2>1, Popped
  <2> QED
    BY <1>00, <2>1, <2>2
<1>t. ASSUME NEW g \in DOMAIN chans, NEW c \in Clients, Store(g, c), Room(g) PROVE Kept
  <2>1. ChansTyped /\ \A h \in DOMAIN chans : Len(chans[h].q) <= chans[h].cap
    BY <1>0 DEF Queues
  <2>2. /\ chans' \in Seq(Channels) /\ DOMAIN chans' = DOMAIN chans /\ Len(chans') = Len(chans)
        /\ \A h \in DOMAIN chans : chans'[h].cap = chans[h].cap
        /\ \A h \in DOMAIN chans \ {g} : chans'[h].q = chans[h].q
        /\ Len(chans'[g].q) = Len(chans[g].q) + 1
    BY <1>t, <2>1, Stored
  <2> QED
    BY <1>00, <1>t, <2>1, <2>2 DEF Room
<1>d. ASSUME Drain PROVE Kept
  <2>1. ChansTyped /\ \A h \in DOMAIN chans : Len(chans[h].q) <= chans[h].cap
    BY <1>0 DEF Queues
  <2> DEFINE n == Len(chans)
  <2>2. /\ chans' \in Seq(Channels) /\ DOMAIN chans' = DOMAIN chans /\ Len(chans') = n
        /\ \A h \in DOMAIN chans : chans'[h].cap = chans[h].cap
        /\ \A h \in DOMAIN chans \ {free, n} : chans'[h].q = chans[h].q
        /\ Len(chans'[free].q) = Len(chans[free].q) - 1
        /\ Len(chans'[n].q) = IF Room(n) THEN Len(chans[n].q) + 1 ELSE Len(chans[n].q)
    BY <1>0, <1>d, <2>1, DrainMoves
  <2>3. ASSUME NEW h \in DOMAIN chans PROVE Len(chans'[h].q) <= chans'[h].cap
    <3>1. Len(chans'[h].q) \in {Len(chans[h].q) - 1, Len(chans[h].q)} \/ (h = n /\ Room(n) /\ Len(chans'[h].q) = Len(chans[h].q) + 1)
      BY <2>2
    <3> QED
      BY <1>00, <2>1, <2>2, <3>1 DEF Room
  <2> QED
    BY <2>2, <2>3
<1> HIDE DEF Kept
<1>k. ASSUME Kept, free' = free, mslot' \in {mslot, 1, free}, slot' \in [Conns -> DOMAIN chans], rpc' = rpc
      PROVE  Queues'
  BY <1>0, <1>00, <1>k DEF Kept, Queues, ChansTyped
<1> USE <1>0, <1>00 DEF Queues, ChansTyped, LoadFree, Forget, rel, conns, mon
<1>1. ASSUME NEW k \in Conns, Get(k) PROVE Queues'
  BY <1>1 DEF Get
<1>2. ASSUME NEW k \in Conns, Take(k) PROVE Queues'
  <2>1. CASE Create(k)
    BY <1>2, <2>1 DEF Take, Create
  <2>2. CASE TakeValid(k) \/ TakeInvalid(k)
    <3>1. slot[k] \in DOMAIN chans /\ chans[slot[k]].q # <<>> /\ Pop(slot[k])
      BY <2>2 DEF TakeValid, TakeInvalid
    <3> QED
      BY <1>2, <1>k, <1>p, <3>1 DEF Take
  <2> QED
    BY <1>2, <2>1, <2>2 DEF Take
<1>3. ASSUME NEW k \in Conns, Tick(k) PROVE Queues'
  BY <1>3 DEF Tick
<1>4. ASSUME NEW k \in Conns, Put(k) PROVE Queues'
  BY <1>4 DEF Put, Discard, Keep
<1>5. ASSUME NEW k \in Conns, PutStore(k) PROVE Queues'
  <2>1. CASE Room(slot[k])
    <3>1. slot[k] \in DOMAIN chans /\ mine[k] \in Clients /\ Store(slot[k], mine[k])
      BY <1>5, <2>1 DEF PutStore, Holding
    <3> QED
      BY <1>5, <1>k, <1>t, <2>1, <3>1 DEF PutStore
  <2>2. CASE ~Room(slot[k])
    BY <1>5, <2>2 DEF PutStore
  <2> QED
    BY <2>1, <2>2
<1>6. ASSUME MonitorRecv \/ MonitorCheck \/ MonitorLoad PROVE Queues'
  BY <1>6 DEF MonitorRecv, MonitorCheck, MonitorLoad
<1>7. ASSUME MonitorSend PROVE Queues'
  <2>1. spare \in Clients /\ Store(mslot, spare) /\ Room(mslot)
    BY <1>7 DEF MonitorSend, Holding
  <2> QED
    BY <1>7, <1>k, <1>t, <2>1 DEF MonitorSend
<1>8. ASSUME Drain PROVE Queues'
  BY <1>8, <1>k, <1>d DEF Drain
<1>9. ASSUME DrainEnds \/ Swap PROVE Queues'
  BY <1>9 DEF DrainEnds, Swap
<1>10. ASSUME ResetExit PROVE Queues'
  BY <1>10, <1>k, <1>p DEF ResetExit
<1>11. ASSUME NEW c \in Configs, Reload(c) PROVE Queues'
  <2>1. CASE StartReset(c) \/ Update(c)
    BY <1>11, <2>1 DEF Reload, StartReset, Update
  <2>2. CASE StartResize(c)
    <3> DEFINE d == Channel(c)
    <3>1. c.maxIdle \in Nat
      BY PoolAssumption DEF ConfigTypes
    <3>2. d \in Channels /\ d.cap \in Nat /\ Len(d.q) = 0
      BY <3>1 DEF Channel, Capacity, Channels
    <3> HIDE DEF d
    <3>3. chans' = Append(chans, d) /\ UNCHANGED <<free, mslot, slot>> /\ free # Len(chans) + 1
      BY <1>11, <2>2 DEF Reload, StartResize, d
    <3>4. /\ chans' \in Seq(Channels) /\ Len(chans') = Len(chans) + 1 /\ DOMAIN chans' = 1..(Len(chans) + 1)
          /\ chans'[Len(chans) + 1] = d /\ \A g \in DOMAIN chans : chans'[g] = chans[g]
      BY <3>2, <3>3
    <3> QED
      BY <3>2, <3>3, <3>4
  <2> QED
    BY <1>11, <2>1, <2>2 DEF Reload
<1>12. ASSUME NEW c \in Clients, Connect(c) \/ Lose(c) PROVE Queues'
  BY <1>12 DEF Connect, Lose
<1> QED
  BY <1>1, <1>2, <1>3, <1>4, <1>5, <1>6, <1>7, <1>8, <1>9, <1>10, <1>11, <1>12 DEF Next, Monitor, Reloader

(* Every step keeps the types, and clients with the goroutines where their *)
(* code has one.                                                           *)
LEMMA TypeStep == ASSUME IndInv, Next, Queues' PROVE TypeOK' /\ Holding'
<1> DEFINE Rest == /\ config \in Configs /\ next \in Configs /\ minIdle \in Nat
                   /\ tick \in 0..1 /\ tickClosed \in BOOLEAN
                   /\ live \subseteq Clients /\ valid \subseteq live
                   /\ cpc \in [Conns -> {"idle", "take", "retry", "tick", "use", "store", "expired", "panic"}]
                   /\ mine \in [Conns -> Clients \cup {NoClient}]
                   /\ mpc \in {"recv", "check", "load", "send", "done"} /\ spare \in Clients \cup {NoClient}
                   /\ rpc \in {"idle", "drain", "swap", "reset"} /\ reloads \in 0..MaxReloads
<1> DEFINE P == Rest /\ Holding
<1>0. P /\ TypeOK /\ ChansTyped /\ NoClient \notin Clients /\ free \in DOMAIN chans /\ slot \in [Conns -> DOMAIN chans]
  BY DEF IndInv, TypeOK, NoClient, Clients
<1>q. \A g \in DOMAIN chans : chans[g].q # <<>> => Head(chans[g].q) \in Clients
  BY <1>0, ChannelFacts
<1>m. \A c \in Configs : c.minIdle \in Nat
  BY PoolAssumption DEF ConfigTypes
<1> USE <1>0, <1>q, PoolAssumption DEF Holding, Step, Hold, rel, conns, mon, clients, Exit, NewClient
<1>1. ASSUME NEW k \in Conns, Get(k) PROVE P'
  BY <1>1 DEF Get
<1>2. ASSUME NEW k \in Conns, Take(k) PROVE P'
  <2>1. CASE TakeValid(k)
    BY <1>2, <2>1 DEF Take, TakeValid
  <2>2. CASE TakeInvalid(k)
    BY <1>2, <2>2 DEF Take, TakeInvalid
  <2>3. CASE Create(k)
    BY <1>2, <2>3, FreshIsNew DEF Take, Create
  <2> QED
    BY <1>2, <2>1, <2>2, <2>3 DEF Take
<1>3. ASSUME NEW k \in Conns, Tick(k) PROVE P'
  BY <1>3 DEF Tick
<1>4. ASSUME NEW k \in Conns, Put(k) PROVE P'
  BY <1>4 DEF Put, Discard, Keep
<1>5. ASSUME NEW k \in Conns, PutStore(k) PROVE P'
  BY <1>5 DEF PutStore
<1>6. ASSUME MonitorRecv \/ MonitorCheck PROVE P'
  BY <1>6 DEF MonitorRecv, MonitorCheck
<1>7. ASSUME MonitorLoad PROVE P'
  BY <1>7, FreshIsNew DEF MonitorLoad
<1>8. ASSUME MonitorSend PROVE P'
  BY <1>8 DEF MonitorSend
<1>9. ASSUME Drain PROVE P'
  BY <1>9 DEF Drain
<1>10. ASSUME DrainEnds \/ Swap PROVE P'
  BY <1>10 DEF DrainEnds, Swap
<1>11. ASSUME ResetExit PROVE P'
  BY <1>11 DEF ResetExit
<1>12. ASSUME NEW c \in Configs, Reload(c) PROVE P'
  <2>1. CASE StartReset(c)
    BY <1>12, <2>1 DEF Reload, StartReset
  <2>2. CASE StartResize(c)
    BY <1>12, <1>m, <2>2 DEF Reload, StartResize
  <2>3. CASE Update(c)
    BY <1>12, <1>m, <2>3 DEF Reload, Update
  <2> QED
    BY <1>12, <2>1, <2>2, <2>3 DEF Reload
<1>13. ASSUME NEW c \in Clients, Connect(c) \/ Lose(c) PROVE P'
  BY <1>13 DEF Connect, Lose
<1>14. P'
  BY <1>1, <1>2, <1>3, <1>4, <1>5, <1>6, <1>7, <1>8, <1>9, <1>10, <1>11, <1>12, <1>13 DEF Next, Monitor, Reloader
<1>15. \A g \in DOMAIN chans' : chans'[g].q \in Seq(Clients)
  <2>1. \A g \in DOMAIN chans' : chans'[g] \in Channels
    BY DEF Queues, ChansTyped
  <2> QED
    BY <2>1 DEF Channels
<1> QED
  BY <1>14, <1>15 DEF TypeOK, Queues

-----------------------------------------------------------------------------
(* Where the clients of the channels come from, and where they go, when    *)
(* the first client of a channel is taken,                                 *)
LEMMA PoppedIndex ==
    ASSUME ChansTyped, NEW g \in DOMAIN chans, chans[g].q # <<>>, Pop(g)
    PROVE  /\ DOMAIN chans' = DOMAIN chans /\ 1 \in Index(g) /\ Head(chans[g].q) = chans[g].q[1]
           /\ \A h \in DOMAIN chans : \A i \in Index(h)' : i \in Nat /\
                \/ h = g /\ i + 1 \in Index(h) /\ i + 1 # 1 /\ chans'[h].q[i] = chans[h].q[i + 1]
                \/ h # g /\ i \in Index(h) /\ chans'[h].q[i] = chans[h].q[i]
           /\ \A h \in DOMAIN chans : \A i \in Index(h) :
                (h = g /\ i = 1) \/ \E j \in Index(h)' : chans'[h].q[j] = chans[h].q[i]
<1>1. \A h \in DOMAIN chans : Len(chans[h].q) \in Nat
  BY ChannelFacts
<1>2. /\ DOMAIN chans' = DOMAIN chans /\ \A h \in DOMAIN chans \ {g} : chans'[h].q = chans[h].q
      /\ Len(chans'[g].q) = Len(chans[g].q) - 1 /\ Len(chans[g].q) >= 1
      /\ Head(chans[g].q) = chans[g].q[1]
      /\ \A i \in 1..(Len(chans[g].q) - 1) : chans'[g].q[i] = chans[g].q[i + 1]
  BY Popped
<1>3. ASSUME NEW h \in DOMAIN chans, NEW i \in Index(h)'
      PROVE  i \in Nat /\ \/ h = g /\ i + 1 \in Index(h) /\ i + 1 # 1 /\ chans'[h].q[i] = chans[h].q[i + 1]
                          \/ h # g /\ i \in Index(h) /\ chans'[h].q[i] = chans[h].q[i]
  <2>1. CASE h = g
    BY <1>1, <1>2, <1>3, <2>1 DEF Index
  <2>2. CASE h # g
    BY <1>1, <1>2, <1>3, <2>2 DEF Index
  <2> QED
    BY <2>1, <2>2
<1>4. ASSUME NEW h \in DOMAIN chans, NEW i \in Index(h), ~(h = g /\ i = 1)
      PROVE  \E j \in Index(h)' : chans'[h].q[j] = chans[h].q[i]
  <2>1. CASE h = g
    <3>1. i - 1 \in Index(h)' /\ i - 1 \in 1..(Len(chans[g].q) - 1) /\ (i - 1) + 1 = i
      BY <1>1, <1>2, <1>4, <2>1 DEF Index
    <3>2. chans'[h].q[i - 1] = chans[h].q[i]
      BY <1>2, <2>1, <3>1
    <3> QED
      BY <3>1, <3>2
  <2>2. CASE h # g
    BY <1>2, <1>4, <2>2 DEF Index
  <2> QED
    BY <2>1, <2>2
<1>5. 1 \in Index(g)
  BY <1>1, <1>2 DEF Index
<1> QED
  BY <1>2, <1>3, <1>4, <1>5

(* when a client is stored,                                                *)
LEMMA StoredIndex ==
    ASSUME ChansTyped, NEW g \in DOMAIN chans, NEW c \in Clients, Store(g, c)
    PROVE  LET e == Len(chans[g].q) + 1 IN
           /\ DOMAIN chans' = DOMAIN chans /\ e \in Index(g)' /\ chans'[g].q[e] = c
           /\ \A h \in DOMAIN chans : \A i \in Index(h)' :
                \/ h = g /\ i = e /\ chans'[h].q[i] = c
                \/ i \in Index(h) /\ chans'[h].q[i] = chans[h].q[i]
           /\ \A h \in DOMAIN chans : \A i \in Index(h) : i \in Index(h)' /\ chans'[h].q[i] = chans[h].q[i]
<1>1. \A h \in DOMAIN chans : Len(chans[h].q) \in Nat
  BY ChannelFacts
<1>2. /\ DOMAIN chans' = DOMAIN chans /\ \A h \in DOMAIN chans \ {g} : chans'[h].q = chans[h].q
      /\ Len(chans'[g].q) = Len(chans[g].q) + 1 /\ chans'[g].q[Len(chans[g].q) + 1] = c
      /\ \A i \in 1..Len(chans[g].q) : chans'[g].q[i] = chans[g].q[i]
  BY Stored
<1>3. ASSUME NEW h \in DOMAIN chans, NEW i \in Index(h)'
      PROVE  \/ h = g /\ i = Len(chans[g].q) + 1 /\ chans'[h].q[i] = c
             \/ i \in Index(h) /\ chans'[h].q[i] = chans[h].q[i]
  <2>1. CASE h = g
    BY <1>1, <1>2, <1>3, <2>1 DEF Index
  <2>2. CASE h # g
    BY <1>1, <1>2, <1>3, <2>2 DEF Index
  <2> QED
    BY <2>1, <2>2
<1>4. ASSUME NEW h \in DOMAIN chans, NEW i \in Index(h)
      PROVE  i \in Index(h)' /\ chans'[h].q[i] = chans[h].q[i]
  <2>1. CASE h = g
    BY <1>1, <1>2, <1>4, <2>1 DEF Index
  <2>2. CASE h # g
    BY <1>1, <1>2, <1>4, <2>2 DEF Index
  <2> QED
    BY <2>1, <2>2
<1>5. Len(chans[g].q) + 1 \in Index(g)'
  BY <1>1, <1>2 DEF Index
<1> QED
  BY <1>2, <1>3, <1>4, <1>5

(* and when the first client of the old channel moves to the new one.      *)
LEMMA DrainIndex ==
    ASSUME ChansTyped, TypeOK, Drain, Room(Len(chans))
    PROVE  LET n == Len(chans)  e == Len(chans[Len(chans)].q) + 1 IN
           /\ DOMAIN chans' = DOMAIN chans /\ n \in DOMAIN chans /\ free \in DOMAIN chans /\ free # n
           /\ 1 \in Index(free) /\ e \in 1..Len(chans'[n].q) /\ chans'[n].q[e] = chans[free].q[1]
           /\ \A h \in DOMAIN chans : \A i \in Index(h)' : i \in Nat /\
                \/ h = free /\ i + 1 \in Index(h) /\ i + 1 # 1 /\ chans'[h].q[i] = chans[h].q[i + 1]
                \/ h = n /\ i = e /\ chans'[h].q[i] = chans[free].q[1]
                \/ h # free /\ i \in Index(h) /\ chans'[h].q[i] = chans[h].q[i]
           /\ \A h \in DOMAIN chans : \A i \in Index(h) :
                (h = free /\ i = 1) \/ \E j \in Index(h)' : chans'[h].q[j] = chans[h].q[i]
<1> DEFINE n == Len(chans)  e == Len(chans[n].q) + 1
<1>1. \A h \in DOMAIN chans : Len(chans[h].q) \in Nat
  BY ChannelFacts
<1>2. /\ DOMAIN chans' = DOMAIN chans /\ n \in DOMAIN chans /\ free \in DOMAIN chans /\ free # n
      /\ \A h \in DOMAIN chans \ {free, n} : chans'[h].q = chans[h].q
      /\ Len(chans'[free].q) = Len(chans[free].q) - 1 /\ Len(chans[free].q) >= 1
      /\ \A i \in 1..(Len(chans[free].q) - 1) : chans'[free].q[i] = chans[free].q[i + 1]
      /\ Len(chans'[n].q) = e /\ chans'[n].q[e] = chans[free].q[1]
      /\ \A i \in 1..Len(chans[n].q) : chans'[n].q[i] = chans[n].q[i]
  BY DrainMoves
<1> HIDE DEF n
<1>3. ASSUME NEW h \in DOMAIN chans, NEW i \in Index(h)'
      PROVE  i \in Nat /\ \/ h = free /\ i + 1 \in Index(h) /\ i + 1 # 1 /\ chans'[h].q[i] = chans[h].q[i + 1]
                          \/ h = n /\ i = e /\ chans'[h].q[i] = chans[free].q[1]
                          \/ h # free /\ i \in Index(h) /\ chans'[h].q[i] = chans[h].q[i]
  <2>1. CASE h = free
    BY <1>1, <1>2, <1>3, <2>1, SMTT(30) DEF Index
  <2>2. CASE h = n
    BY <1>1, <1>2, <1>3, <2>2 DEF Index
  <2>3. CASE h \notin {free, n}
    BY <1>1, <1>2, <1>3, <2>3 DEF Index
  <2> QED
    BY <2>1, <2>2, <2>3
<1>4. ASSUME NEW h \in DOMAIN chans, NEW i \in Index(h), ~(h = free /\ i = 1)
      PROVE  \E j \in Index(h)' : chans'[h].q[j] = chans[h].q[i]
  <2>1. CASE h = free
    <3>1. i - 1 \in Index(h)' /\ i - 1 \in 1..(Len(chans[free].q) - 1) /\ (i - 1) + 1 = i
      BY <1>1, <1>2, <1>4, <2>1, SMTT(30) DEF Index
    <3>2. chans'[h].q[i - 1] = chans[h].q[i]
      BY <1>2, <2>1, <3>1
    <3> QED
      BY <3>1, <3>2
  <2>2. CASE h = n
    BY <1>1, <1>2, <1>4, <2>2, SMTT(30) DEF Index
  <2>3. CASE h \notin {free, n}
    BY <1>2, <1>4, <2>3 DEF Index
  <2> QED
    BY <2>1, <2>2, <2>3
<1>5. 1 \in Index(free) /\ e \in 1..Len(chans'[n].q)
  <2>1. Len(chans[free].q) \in Nat /\ Len(chans[n].q) \in Nat
    BY <1>1, <1>2
  <2> QED
    BY <1>2, <2>1 DEF Index
<1> QED
  BY <1>2, <1>3, <1>4, <1>5 DEF n

(* Every step keeps each live client in one place.                         *)
LEMMA PlaceStep == ASSUME IndInv, Next PROVE InOnePlace'
<1>0. /\ TypeOK /\ ChansTyped /\ Holding /\ InOnePlace /\ NoClient \notin Clients
      /\ mine \in [Conns -> Clients \cup {NoClient}] /\ spare \in Clients \cup {NoClient}
      /\ live \subseteq Clients /\ free \in DOMAIN chans /\ mslot \in DOMAIN chans /\ slot \in [Conns -> DOMAIN chans]
  BY DEF IndInv, TypeOK, NoClient, Clients
<1>00. /\ Len(chans) \in Nat /\ DOMAIN chans = 1..Len(chans)
       /\ \A g \in DOMAIN chans : /\ chans[g].q \in Seq(Clients) /\ Len(chans[g].q) \in Nat
                                  /\ \A i \in Index(g) : chans[g].q[i] \in Clients
  BY <1>0, ChannelFacts DEF Index
<1> USE DEF InOnePlace, QueuedOnce, HeldOnce, QueuedOrHeld, PlacedLive, LivePlaced
(* No client moves.                                                        *)
<1>u. ASSUME UNCHANGED <<chans, mine, spare, live>> PROVE InOnePlace'
  BY <1>0, <1>u DEF Index
(* A connection takes the first client of a channel.                       *)
<1>p. ASSUME NEW k \in Conns, NEW g \in DOMAIN chans, chans[g].q # <<>>, Pop(g), mine[k] = NoClient,
             Hold(k, Head(chans[g].q)), UNCHANGED <<spare, live>>
      PROVE  InOnePlace'
  <2> DEFINE c == chans[g].q[1]
  <2>1. /\ DOMAIN chans' = DOMAIN chans /\ 1 \in Index(g)
        /\ \A h \in DOMAIN chans : \A i \in Index(h)' : i \in Nat /\
             \/ h = g /\ i + 1 \in Index(h) /\ i + 1 # 1 /\ chans'[h].q[i] = chans[h].q[i + 1]
             \/ h # g /\ i \in Index(h) /\ chans'[h].q[i] = chans[h].q[i]
        /\ \A h \in DOMAIN chans : \A i \in Index(h) :
             (h = g /\ i = 1) \/ \E j \in Index(h)' : chans'[h].q[j] = chans[h].q[i]
        /\ mine' = [mine EXCEPT ![k] = c]
    BY <1>0, <1>p, PoppedIndex DEF Hold
  <2>2. /\ \A h \in DOMAIN chans : \A i \in Index(h)' :
             chans'[h].q[i] # c /\ \E j \in Index(h) : chans'[h].q[i] = chans[h].q[j]
        /\ c \in live /\ c # spare /\ c # NoClient /\ \A l \in Conns : c # mine[l]
        /\ mine'[k] = c /\ \A l \in Conns \ {k} : mine'[l] = mine[l]
    BY <1>0, <2>1
  <2> HIDE DEF c
  <2>3. QueuedOnce'
    <3> SUFFICES ASSUME NEW f \in DOMAIN chans, NEW h \in DOMAIN chans, NEW i \in Index(f)', NEW j \in Index(h)',
                        chans'[f].q[i] = chans'[h].q[j]
                 PROVE  f = h /\ i = j
      BY <2>1
    <3>1. CASE f = g /\ h = g
      <4>1. i + 1 \in Index(g) /\ j + 1 \in Index(g) /\ chans[g].q[i + 1] = chans[g].q[j + 1] /\ i \in Nat /\ j \in Nat
        BY <2>1, <3>1
      <4>2. i + 1 = j + 1
        BY <1>0, <4>1
      <4> QED
        BY <3>1, <4>1, <4>2
    <3>2. CASE f # g /\ h # g
      BY <1>0, <2>1, <3>2
    <3>3. CASE f = g /\ h # g
      BY <1>0, <2>1, <3>3
    <3>4. CASE f # g /\ h = g
      BY <1>0, <2>1, <3>4
    <3> QED
      BY <3>1, <3>2, <3>3, <3>4
  <2>4. HeldOnce'
    BY <1>0, <2>2
  <2>5. PlacedLive'
    BY <1>0, <1>p, <2>1, <2>2
  <2>6. QueuedOrHeld'
    BY <1>0, <1>p, <2>1, <2>2
  <2>7. ASSUME NEW d \in live
        PROVE  \/ \E h \in DOMAIN chans' : \E i \in Index(h)' : chans'[h].q[i] = d
               \/ \E l \in Conns : mine'[l] = d
               \/ spare' = d
    BY <1>0, <1>p, <2>1, <2>2, <2>7 DEF c
  <2> QED
    BY <1>p, <2>3, <2>4, <2>5, <2>6, <2>7
(* The first client of a channel is terminated.                            *)
<1>x. ASSUME NEW g \in DOMAIN chans, chans[g].q # <<>>, Pop(g), Exit(Head(chans[g].q)), UNCHANGED <<mine, spare>>
      PROVE  InOnePlace'
  <2> DEFINE c == chans[g].q[1]
  <2>1. /\ DOMAIN chans' = DOMAIN chans /\ 1 \in Index(g)
        /\ \A h \in DOMAIN chans : \A i \in Index(h)' : i \in Nat /\
             \/ h = g /\ i + 1 \in Index(h) /\ i + 1 # 1 /\ chans'[h].q[i] = chans[h].q[i + 1]
             \/ h # g /\ i \in Index(h) /\ chans'[h].q[i] = chans[h].q[i]
        /\ \A h \in DOMAIN chans : \A i \in Index(h) :
             (h = g /\ i = 1) \/ \E j \in Index(h)' : chans'[h].q[j] = chans[h].q[i]
        /\ live' = live \ {c}
    BY <1>0, <1>x, PoppedIndex DEF Exit
  <2>2. /\ \A h \in DOMAIN chans : \A i \in Index(h)' :
             chans'[h].q[i] # c /\ \E j \in Index(h) : chans'[h].q[i] = chans[h].q[j]
        /\ c # spare /\ \A l \in Conns : c # mine[l]
    BY <1>0, <2>1
  <2> HIDE DEF c
  <2>3. QueuedOnce'
    <3> SUFFICES ASSUME NEW f \in DOMAIN chans, NEW h \in DOMAIN chans, NEW i \in Index(f)', NEW j \in Index(h)',
                        chans'[f].q[i] = chans'[h].q[j]
                 PROVE  f = h /\ i = j
      BY <2>1
    <3>1. CASE f = g /\ h = g
      <4>1. i + 1 \in Index(g) /\ j + 1 \in Index(g) /\ chans[g].q[i + 1] = chans[g].q[j + 1] /\ i \in Nat /\ j \in Nat
        BY <2>1, <3>1
      <4>2. i + 1 = j + 1
        BY <1>0, <4>1
      <4> QED
        BY <3>1, <4>1, <4>2
    <3>2. CASE f # g /\ h # g
      BY <1>0, <2>1, <3>2
    <3>3. CASE f = g /\ h # g
      BY <1>0, <2>1, <3>3
    <3>4. CASE f # g /\ h = g
      BY <1>0, <2>1, <3>4
    <3> QED
      BY <3>1, <3>2, <3>3, <3>4
  <2>4. HeldOnce'
    BY <1>0, <1>x
  <2>5. PlacedLive'
    BY <1>0, <1>x, <2>1, <2>2
  <2>6. QueuedOrHeld'
    BY <1>0, <1>x, <2>1, <2>2
  <2>7. ASSUME NEW d \in live'
        PROVE  \/ \E h \in DOMAIN chans' : \E i \in Index(h)' : chans'[h].q[i] = d
               \/ \E l \in Conns : mine'[l] = d
               \/ spare' = d
    <3>1. d \in live /\ d # c
      BY <2>1, <2>7
    <3>2. ASSUME NEW h \in DOMAIN chans, NEW i \in Index(h), chans[h].q[i] = d
          PROVE  \E j \in Index(h)' : chans'[h].q[j] = d
      BY <2>1, <3>1, <3>2 DEF c
    <3>3. (\E h \in DOMAIN chans : \E i \in Index(h) : chans[h].q[i] = d) \/ (\E l \in Conns : mine[l] = d) \/ spare = d
      BY <1>0, <3>1
    <3>4. mine' = mine /\ spare' = spare /\ DOMAIN chans' = DOMAIN chans
      BY <1>x, <2>1
    <3>5. CASE \E h \in DOMAIN chans : \E i \in Index(h) : chans[h].q[i] = d
      BY <3>2, <3>4, <3>5
    <3> QED
      BY <3>3, <3>4, <3>5, Zenon
  <2> QED
    BY <2>3, <2>4, <2>5, <2>6, <2>7
(* A new client goes to a connection or to the monitor.                    *)
<1>c. ASSUME NEW k \in Conns, mine[k] = NoClient, live # Clients, NewClient(Fresh), Hold(k, Fresh),
             UNCHANGED <<chans, spare>>
      PROVE  InOnePlace'
  <2>1. Fresh \in Clients \ live /\ live' = live \cup {Fresh} /\ mine' = [mine EXCEPT ![k] = Fresh]
    BY <1>0, <1>c, FreshIsNew DEF NewClient, Hold
  <2>2. QueuedOnce' /\ HeldOnce' /\ PlacedLive'
    BY <1>0, <1>00, <1>c, <2>1 DEF Index
  <2>3. QueuedOrHeld'
    BY <1>0, <1>00, <1>c, <2>1 DEF Index
  <2>4. \A c \in live : \A l \in Conns : mine[l] = c => mine'[l] = c
    BY <1>0, <1>c, <2>1
  <2>5. LivePlaced'
    BY <1>0, <1>c, <2>1, <2>4 DEF Index
  <2> QED
    BY <2>2, <2>3, <2>5
<1>l. ASSUME spare = NoClient, live # Clients, NewClient(Fresh), spare' = Fresh, UNCHANGED <<chans, mine>>
      PROVE  InOnePlace'
  <2>1. Fresh \in Clients \ live /\ live' = live \cup {Fresh}
    BY <1>0, <1>l, FreshIsNew DEF NewClient
  <2> QED
    BY <1>0, <1>00, <1>l, <2>1 DEF Index
(* The client of a connection is terminated.                               *)
<1>e. ASSUME NEW k \in Conns, mine[k] # NoClient, Exit(mine[k]), Hold(k, NoClient), UNCHANGED <<chans, spare>>
      PROVE  InOnePlace'
  <2>1. live' = live \ {mine[k]} /\ mine' = [mine EXCEPT ![k] = NoClient]
    BY <1>e DEF Exit, Hold
  <2>2. \A c \in live' : \A l \in Conns : mine[l] = c => mine'[l] = c
    BY <1>0, <1>e, <2>1
  <2>3. QueuedOnce' /\ HeldOnce' /\ PlacedLive' /\ QueuedOrHeld'
    BY <1>0, <1>00, <1>e, <2>1 DEF Index
  <2>4. LivePlaced'
    BY <1>0, <1>e, <2>1, <2>2 DEF Index
  <2> QED
    BY <2>3, <2>4
(* A held client is stored in a channel.                                   *)
<1>t. ASSUME NEW g \in DOMAIN chans, NEW c \in Clients, Store(g, c), live' = live,
             \A h \in DOMAIN chans : \A i \in Index(h) : chans[h].q[i] # c, c \in live,
             \/ spare = c /\ spare' = NoClient /\ mine' = mine
             \/ spare' = spare /\ \E k \in Conns : mine[k] = c /\ mine' = [mine EXCEPT ![k] = NoClient]
      PROVE  InOnePlace'
  <2> DEFINE e == Len(chans[g].q) + 1
  <2>1. /\ DOMAIN chans' = DOMAIN chans /\ e \in Index(g)' /\ chans'[g].q[e] = c
        /\ \A h \in DOMAIN chans : \A i \in Index(h)' :
             \/ h = g /\ i = e /\ chans'[h].q[i] = c
             \/ i \in Index(h) /\ chans'[h].q[i] = chans[h].q[i]
        /\ \A h \in DOMAIN chans : \A i \in Index(h) : i \in Index(h)' /\ chans'[h].q[i] = chans[h].q[i]
    BY <1>0, <1>t, StoredIndex
  <2> HIDE DEF e
  <2>3. QueuedOnce'
    BY <1>0, <1>t, <2>1
  <2>4. /\ \A k \in Conns : mine'[k] \in {mine[k], NoClient} /\ mine'[k] # c
        /\ spare' \in {spare, NoClient} /\ spare' # c
    BY <1>0, <1>t
  <2>5. HeldOnce'
    BY <1>0, <2>4
  <2>6. PlacedLive'
    BY <1>0, <1>t, <2>1, <2>4
  <2>7. QueuedOrHeld'
    <3>1. \A h \in DOMAIN chans : \A i \in Index(h)' :
            chans'[h].q[i] = c \/ (chans'[h].q[i] \in Clients /\ chans'[h].q[i] # spare /\ \A k \in Conns : chans'[h].q[i] # mine[k])
      BY <1>0, <1>00, <2>1
    <3>2. \A k \in Conns : mine'[k] = spare' => spare' = NoClient
      BY <1>0, <2>4
    <3> QED
      BY <1>0, <2>1, <2>4, <3>1, <3>2
  <2>8. /\ \A d \in live \ {c} : \A k \in Conns : mine[k] = d => mine'[k] = d
        /\ \A d \in live \ {c} : spare = d => spare' = d
    BY <1>0, <1>t
  <2>9. LivePlaced'
    BY <1>0, <1>t, <2>1, <2>8
  <2> QED
    BY <2>3, <2>5, <2>6, <2>7, <2>9
(* A reload makes a channel, or moves the first client to it.              *)
<1>r. ASSUME NEW c \in Configs, chans' = Append(chans, Channel(c)), UNCHANGED <<mine, spare, live>>
      PROVE  InOnePlace'
  <2> DEFINE d == Channel(c)
  <2>1. Len(d.q) = 0
    BY DEF Channel
  <2>2. c.maxIdle \in Nat
    BY PoolAssumption DEF ConfigTypes
  <2>3. d \in Channels
    BY <2>2 DEF Channel, Capacity, Channels
  <2> HIDE DEF d
  <2>4. chans' = Append(chans, d) /\ chans \in Seq(Channels)
    BY <1>0, <1>r DEF d, ChansTyped
  <2>5. /\ DOMAIN chans' = 1..(Len(chans) + 1) /\ chans'[Len(chans) + 1] = d
        /\ \A g \in DOMAIN chans : g \in DOMAIN chans' /\ chans'[g] = chans[g]
    BY <1>00, <2>3, <2>4
  <2>6. /\ \A g \in DOMAIN chans' : \A i \in Index(g)' : g \in DOMAIN chans /\ i \in Index(g) /\ chans'[g] = chans[g]
        /\ \A g \in DOMAIN chans : g \in DOMAIN chans' /\ chans'[g] = chans[g] /\ Index(g)' = Index(g)
    <3>1. \A g \in DOMAIN chans : g \in DOMAIN chans' /\ chans'[g] = chans[g] /\ Index(g)' = Index(g)
      BY <2>5 DEF Index
    <3>2. \A g \in DOMAIN chans' : g \in DOMAIN chans \/ g = Len(chans) + 1
      BY <1>00, <2>5
    <3>3. ASSUME NEW i \in 1..Len(chans'[Len(chans) + 1].q) PROVE FALSE
      BY <2>1, <2>5, <3>3
    <3> QED
      BY <3>1, <3>2, <3>3 DEF Index
  <2>7. QueuedOnce' /\ HeldOnce' /\ PlacedLive' /\ QueuedOrHeld'
    BY <1>0, <1>r, <2>6
  <2>8. LivePlaced'
    BY <1>0, <1>r, <2>6
  <2> QED
    BY <2>7, <2>8
<1>d. ASSUME Drain, Room(Len(chans)) PROVE InOnePlace'
  <2> DEFINE n == Len(chans)  e == Len(chans[n].q) + 1
  <2>1. /\ DOMAIN chans' = DOMAIN chans /\ n \in DOMAIN chans /\ free \in DOMAIN chans /\ free # n
        /\ 1 \in Index(free) /\ e \in 1..Len(chans'[n].q) /\ chans'[n].q[e] = chans[free].q[1]
        /\ \A h \in DOMAIN chans : \A i \in Index(h)' : i \in Nat /\
             \/ h = free /\ i + 1 \in Index(h) /\ i + 1 # 1 /\ chans'[h].q[i] = chans[h].q[i + 1]
             \/ h = n /\ i = e /\ chans'[h].q[i] = chans[free].q[1]
             \/ h # free /\ i \in Index(h) /\ chans'[h].q[i] = chans[h].q[i]
        /\ \A h \in DOMAIN chans : \A i \in Index(h) :
             (h = free /\ i = 1) \/ \E j \in Index(h)' : chans'[h].q[j] = chans[h].q[i]
    BY <1>0, <1>d, DrainIndex
  <2>2. UNCHANGED <<mine, spare, live>>
    BY <1>d DEF Drain, conns, mon, clients
  <2> HIDE DEF n, e
  <2>3. QueuedOnce'
    <3> SUFFICES ASSUME NEW f \in DOMAIN chans, NEW h \in DOMAIN chans, NEW i \in Index(f)', NEW j \in Index(h)',
                        chans'[f].q[i] = chans'[h].q[j]
                 PROVE  f = h /\ i = j
      BY <2>1
    <3>1. CASE f = free /\ h = free
      <4>1. /\ i + 1 \in Index(f) /\ j + 1 \in Index(f) /\ chans[f].q[i + 1] = chans[f].q[j + 1]
            /\ i \in Nat /\ j \in Nat
        BY <2>1, <3>1
      <4>2. i + 1 = j + 1
        BY <1>0, <4>1
      <4> QED
        BY <3>1, <4>1, <4>2
    <3>2. CASE f # free /\ h # free
      BY <1>0, <2>1, <3>2
    <3>3. CASE f = free /\ h # free
      BY <1>0, <2>1, <3>3
    <3>4. CASE f # free /\ h = free
      BY <1>0, <2>1, <3>4
    <3> QED
      BY <3>1, <3>2, <3>3, <3>4
  <2>4. \A h \in DOMAIN chans : \A i \in Index(h)' :
          \E f \in DOMAIN chans : \E j \in Index(f) : chans'[h].q[i] = chans[f].q[j]
    BY <2>1
  <2>5. HeldOnce'
    BY <1>0, <2>2
  <2>6. PlacedLive'
    BY <1>0, <2>1, <2>2, <2>4
  <2>7. QueuedOrHeld'
    BY <1>0, <2>1, <2>2, <2>4
  <2>8. LivePlaced'
    <3>1. ASSUME NEW h \in DOMAIN chans, NEW i \in Index(h)
          PROVE  \E f \in DOMAIN chans' : \E j \in 1..Len(chans'[f].q) : chans'[f].q[j] = chans[h].q[i]
      BY <2>1, <3>1 DEF Index
    <3> QED
      BY <1>0, <2>2, <3>1 DEF Index
  <2> QED
    BY <2>3, <2>5, <2>6, <2>7, <2>8
<1> HIDE DEF InOnePlace, QueuedOnce, HeldOnce, QueuedOrHeld, PlacedLive, LivePlaced
<1> USE DEF clients, conns, mon, rel
<1>1. ASSUME NEW k \in Conns, Get(k) PROVE InOnePlace'
  BY <1>1, <1>u DEF Get
<1>2. ASSUME NEW k \in Conns, Take(k) PROVE InOnePlace'
  <2>0. mine[k] = NoClient /\ slot[k] \in DOMAIN chans
    BY <1>0, <1>2 DEF Take, Holding
  <2>1. CASE TakeValid(k)
    BY <1>2, <1>p, <2>0, <2>1 DEF Take, TakeValid
  <2>2. CASE TakeInvalid(k)
    BY <1>2, <1>x, <2>0, <2>2 DEF Take, TakeInvalid
  <2>3. CASE Create(k)
    BY <1>2, <1>c, <2>0, <2>3 DEF Take, Create
  <2> QED
    BY <1>2, <2>1, <2>2, <2>3 DEF Take
<1>3. ASSUME NEW k \in Conns, Tick(k) PROVE InOnePlace'
  BY <1>3, <1>u DEF Tick
<1>4. ASSUME NEW k \in Conns, Put(k) PROVE InOnePlace'
  <2>1. mine[k] # NoClient
    BY <1>0, <1>4 DEF Put, Holding
  <2> QED
    BY <1>4, <1>u, <1>e, <2>1 DEF Put, Discard, Keep
<1>5. ASSUME NEW k \in Conns, PutStore(k) PROVE InOnePlace'
  <2>1. mine[k] # NoClient /\ mine[k] \in Clients /\ slot[k] \in DOMAIN chans
    BY <1>0, <1>5 DEF PutStore, Holding
  <2>2. CASE Room(slot[k])
    <3>1. Store(slot[k], mine[k]) /\ mine' = [mine EXCEPT ![k] = NoClient] /\ UNCHANGED <<spare, live>>
      BY <1>5, <2>2 DEF PutStore, Hold
    <3>2. mine[k] \in live /\ \A h \in DOMAIN chans : \A i \in Index(h) : chans[h].q[i] # mine[k]
      BY <1>0, <2>1 DEF InOnePlace, PlacedLive, QueuedOrHeld
    <3> QED
      BY <1>t, <2>1, <3>1, <3>2
  <2>3. CASE ~Room(slot[k])
    BY <1>5, <1>e, <2>1, <2>3 DEF PutStore
  <2> QED
    BY <2>2, <2>3
<1>6. ASSUME MonitorRecv \/ MonitorCheck PROVE InOnePlace'
  BY <1>6, <1>u DEF MonitorRecv, MonitorCheck
<1>7. ASSUME MonitorLoad PROVE InOnePlace'
  BY <1>0, <1>7, <1>l DEF MonitorLoad, Holding
<1>8. ASSUME MonitorSend PROVE InOnePlace'
  <2>1. spare # NoClient /\ spare \in Clients
    BY <1>0, <1>8 DEF MonitorSend, Holding
  <2>2. spare \in live /\ \A h \in DOMAIN chans : \A i \in Index(h) : chans[h].q[i] # spare
    BY <1>0, <2>1 DEF InOnePlace, PlacedLive, QueuedOrHeld
  <2> QED
    BY <1>0, <1>8, <1>t, <2>1, <2>2 DEF MonitorSend
<1>9. ASSUME Drain PROVE InOnePlace'
  <2>1. CASE ~Room(Len(chans))
    <3>1. Pop(free) /\ chans[free].q # <<>> /\ Exit(Head(chans[free].q)) /\ UNCHANGED <<mine, spare>>
      BY <1>9, <2>1 DEF Drain, Moved, Pop
    <3> QED
      BY <1>0, <1>x, <3>1
  <2> QED
    BY <1>9, <1>d, <2>1
<1>10. ASSUME DrainEnds \/ Swap PROVE InOnePlace'
  BY <1>10, <1>u DEF DrainEnds, Swap
<1>11. ASSUME ResetExit PROVE InOnePlace'
  BY <1>0, <1>11, <1>x DEF ResetExit
<1>12. ASSUME NEW c \in Configs, Reload(c) PROVE InOnePlace'
  BY <1>12, <1>u, <1>r DEF Reload, StartReset, StartResize, Update
<1>13. ASSUME NEW c \in Clients, Connect(c) \/ Lose(c) PROVE InOnePlace'
  BY <1>13, <1>u DEF Connect, Lose
<1> QED
  BY <1>1, <1>2, <1>3, <1>4, <1>5, <1>6, <1>7, <1>8, <1>9, <1>10, <1>11, <1>12, <1>13 DEF Next, Monitor, Reloader

(* The initial state satisfies the inductive invariant.                    *)
LEMMA InitInd == Init => IndInv
<1> SUFFICES ASSUME Init PROVE IndInv
  OBVIOUS
<1> DEFINE d == Channel(Initial)
<1>1. d \in Channels /\ d.q = <<>> /\ d.cap \in Nat /\ Initial.minIdle \in Nat
  <2>1. Initial.maxIdle \in Nat /\ Initial.minIdle \in Nat
    BY PoolAssumption DEF ConfigTypes
  <2>2. d = [cap |-> Capacity(Initial), q |-> <<>>] /\ Capacity(Initial) \in Nat
    BY <2>1 DEF Channel, Capacity
  <2>3. <<>> \in Seq(Clients)
    OBVIOUS
  <2> QED
    BY <2>1, <2>2, <2>3 DEF Channels
<1>2. chans = <<d>>
  BY DEF Init
<1> HIDE DEF d
<1>3. chans \in Seq(Channels) /\ Len(chans) = 1 /\ DOMAIN chans = {1} /\ chans[1] = d
  BY <1>1, <1>2
<1>4. chans[1].q = <<>> /\ Len(chans[1].q) = 0 /\ Index(1) = {}
  BY <1>1, <1>3 DEF Index
<1>5. ChansTyped /\ Holding
  BY <1>3 DEF Init, ChansTyped, Holding
<1>6. InOnePlace
  BY <1>3, <1>4 DEF Init, InOnePlace, QueuedOnce, HeldOnce, QueuedOrHeld, PlacedLive, LivePlaced
<1>7. TypeOK
  <2>1. \A g \in DOMAIN chans : chans[g].q \in Seq(Clients) /\ Len(chans[g].q) <= chans[g].cap
    <3>1. <<>> \in Seq(Clients)
      OBVIOUS
    <3>2. Len(chans[1].q) <= chans[1].cap
      BY <1>1, <1>3, <1>4
    <3> QED
      BY <1>3, <1>4, <3>1, <3>2
  <2>2. config \in Configs /\ next \in Configs /\ minIdle \in Nat /\ reloads \in 0..MaxReloads
    BY <1>1, PoolAssumption DEF Init
  <2>3. /\ 1 \in DOMAIN chans /\ "idle" \in {"idle", "take", "retry", "tick", "use", "store", "expired", "panic"}
        /\ NoClient \in Clients \cup {NoClient}
    BY <1>3
  <2>4. cpc \in [Conns -> {"idle", "take", "retry", "tick", "use", "store", "expired", "panic"}]
    BY <2>3 DEF Init
  <2>5. mine \in [Conns -> Clients \cup {NoClient}] /\ slot \in [Conns -> DOMAIN chans]
    BY <2>3 DEF Init
  <2>6. /\ free \in DOMAIN chans /\ mslot \in DOMAIN chans /\ spare \in Clients \cup {NoClient}
        /\ live \subseteq Clients /\ valid \subseteq live
    BY <2>3 DEF Init
  <2>7. tick = 0 /\ mpc = "recv" /\ rpc = "idle"
    BY DEF Init
  <2>8. tickClosed \in BOOLEAN
    BY Zenon DEF Init
  <2> QED
    BY <2>1, <2>2, <2>4, <2>5, <2>6, <2>7, <2>8 DEF TypeOK
<1> QED
  BY <1>5, <1>6, <1>7 DEF IndInv

(* The inductive invariant holds of every reachable state.                 *)
LEMMA Invariance == Spec => []IndInv
<1>1. ASSUME IndInv, [Next]_vars PROVE IndInv'
  <2>1. CASE Next
    <3>1. Queues'
      BY <1>1, <2>1, QueueStep
    <3> QED
      BY <1>1, <2>1, <3>1, TypeStep, PlaceStep DEF IndInv, Queues
  <2>2. CASE UNCHANGED vars
    BY <1>1, <2>2 DEF vars, clients, conns, mon, rel, IndInv, TypeOK, ChansTyped, Holding, InOnePlace,
         QueuedOnce, HeldOnce, QueuedOrHeld, PlacedLive, LivePlaced, Index
  <2> QED
    BY <1>1, <2>1, <2>2
<1> QED
  BY <1>1, InitInd, PTL DEF Spec

-----------------------------------------------------------------------------
(* Being in one place is what OneOwner counts.                             *)
LEMMA CountsOne ==
    ASSUME IndInv, NEW c \in Clients
    PROVE  Cardinality({p \in Places : At(p) = c}) = (IF c \in live THEN 1 ELSE 0)
<1> DEFINE S == {p \in Places : At(p) = c}
<1>0. c # NoClient /\ InOnePlace /\ mine \in [Conns -> Clients \cup {NoClient}]
  BY DEF IndInv, TypeOK, Clients, NoClient
<1>1. ASSUME NEW p \in Places
      PROVE  \/ \E k \in Conns : p = <<"conn", k>> /\ At(p) = mine[k]
             \/ p = <<"monitor">> /\ At(p) = spare
             \/ \E g \in DOMAIN chans : \E i \in Index(g) : p = <<"chan", g, i>> /\ At(p) = chans[g].q[i]
  BY DEF Places, At, Index
<1>2. /\ \A k \in Conns : <<"conn", k>> \in Places /\ At(<<"conn", k>>) = mine[k]
      /\ <<"monitor">> \in Places /\ At(<<"monitor">>) = spare
      /\ \A g \in DOMAIN chans : \A i \in Index(g) : <<"chan", g, i>> \in Places /\ At(<<"chan", g, i>>) = chans[g].q[i]
  BY DEF Places, At, Index
<1>3. CASE c \notin live
  <2>1. S = {}
    BY <1>0, <1>1, <1>3 DEF InOnePlace, PlacedLive
  <2> QED
    BY <1>3, <2>1, FS_EmptySet
<1>4. CASE c \in live
  <2>1. PICK p \in Places : At(p) = c
    BY <1>0, <1>2, <1>4, ZenonT(30) DEF InOnePlace, LivePlaced
  <2>2. ASSUME NEW q \in Places, At(q) = c PROVE q = p
    BY <1>0, <1>1, <2>1, <2>2 DEF InOnePlace, QueuedOnce, HeldOnce, QueuedOrHeld
  <2>3. S = {p}
    BY <2>1, <2>2
  <2> QED
    BY <1>4, <2>3, FS_Singleton
<1> QED
  BY <1>3, <1>4

(* For any number of connections, clients and reloads: a client that is    *)
(* alive is in the hands of one connection or of the monitor or once in    *)
(* one channel, one that Exit terminated is nowhere, and no channel is     *)
(* overfull, though Get, Put, monitor, Reload and Reset use the channels   *)
(* without a lock.                                                         *)
THEOREM OneOwnerAlways == Spec => []OneOwner
<1>1. IndInv => OneOwner
  BY CountsOne DEF OneOwner, IndInv
<1> QED
  BY <1>1, Invariance, PTL
=============================================================================
