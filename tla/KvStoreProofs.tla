--------------------------- MODULE KvStoreProofs ---------------------------
(***************************************************************************)
(* Proofs about KvStore, for any number of connections, keys, fields,      *)
(* Hmset values and sends: who may hold an Hmset, what send posts, what a  *)
(* connection reads back and what it leaves unsent, and that Exit waits.   *)
(***************************************************************************)
EXTENDS KvStore, FiniteSetTheorems, NaturalsInduction, WellFoundedInduction, TLAPS

(* What the variables hold.                                                *)
Value == [fields : Seq(Field), sent : BOOLEAN]
Stored == [fields : Seq(Field), sent : BOOLEAN, pack : {"gzip", "snappy", "plain"}]
Maps == UNION {[D -> Hmsets] : D \in SUBSET Keys}
Asked == Keys \X (Names \cup {"all"})

HeapTypes ==
    /\ config \in Configs /\ heap \in [Hmsets -> Value] /\ hmsetPool \in [Hmsets -> Nat]
    /\ pendingPool \subseteq {EmptyMap} /\ doubled \subseteq Hmsets /\ tainted \subseteq Conns
ConnTypes ==
    /\ cpc \in [Conns -> {"new", "read", "fetch", "answer", "close", "send", "end"}]
    /\ pending \in [Conns -> Maps] /\ at \in [Conns -> Asked \cup {None}]
    /\ \A c \in Conns : cpc[c] \in {"fetch", "answer"} => at[c] \in Asked
    /\ got \in [Conns -> Hmsets \cup {Nobody}] /\ \A c \in Conns : got[c] # Nobody <=> cpc[c] = "answer"
    /\ ctries \in [Conns -> 0..(MaxTries - 1)] /\ answer = [c \in Conns |-> answer[c]]
    /\ acked \in [Conns -> [Keys -> Seq(Field)]] /\ handed \in [Conns -> [Keys -> Nat]]
SendTypes ==
    /\ spc \in [Procs -> {"off", "ready", "post", "undo"}] /\ key \in [Procs -> Keys \cup {EmptyKey}]
    /\ hmset \in [Procs -> Hmsets \cup {Nobody}] /\ tries \in [Procs -> 0..(MaxTries - 1)]
    /\ \A p \in Procs : (hmset[p] # Nobody <=> spc[p] # "off") /\ (spc[p] # "off" => key[p] \in Keys)
    /\ body = [p \in Procs |-> body[p]] /\ \A p \in Procs : spc[p] = "post" => body[p] \in Stored
    /\ given = [p \in Procs |-> given[p]]
    /\ store \in [Keys -> Stored \cup {None}]
ExitTypes == running \in Nat /\ xpc \in {"run", "wait", "done"} /\ retry \in 0..MaxRetries

Types == HeapTypes /\ ConnTypes /\ SendTypes /\ ExitTypes

(* running counts the sends that have begun.                               *)
Active == {p \in Procs : spc[p] \in {"post", "undo"}}
Counted == IsFiniteSet(Active) /\ running = Cardinality(Active) /\ ExitWaitsForPosts

(* A connection has what it was answered OK for in its map until it ends;  *)
(* its own send runs while it waits for it.                                *)
Sending(c, k) == cpc[c] = "send" /\ k = key[c]
Keeps(c) ==
    /\ cpc[c] = "send" => key[c] \in DOMAIN pending[c]
    /\ cpc[c] = "new" => pending[c] = EmptyMap
    /\ cpc[c] = "end" => DOMAIN pending[c] = {}
    /\ \A k \in DOMAIN pending[c] : acked[c][k] # <<>>
    /\ cpc[c] \notin {"close", "send", "end"} => \A k \in Keys : acked[c][k] # <<>> => k \in DOMAIN pending[c]
Lifetime ==
    /\ \A c \in Conns : Keeps(c)
    /\ \A c \in Conns : spc[c] # "off" => cpc[c] = "send"
    /\ \A s \in Sends : given[s] = None => spc[s] = "off"

(* An Hmset that was not put in the pool twice is in one place.            *)
Pend(c, k, h) == k \in DOMAIN pending[c] /\ pending[c][k] = h /\ ~Sending(c, k)
Pends(h) == \E c \in Conns : \E k \in Keys : Pend(c, k, h)
Gets(h) == \E c \in Conns : got[c] = h
Posts(h) == \E p \in Procs : hmset[p] = h
InOnePlace(h) ==
    /\ hmsetPool[h] <= 1
    /\ \A c, d \in Conns : \A k, j \in Keys : Pend(c, k, h) /\ Pend(d, j, h) => c = d /\ k = j
    /\ \A c, d \in Conns : got[c] = h /\ got[d] = h => c = d
    /\ \A p, q \in Procs : hmset[p] = h /\ hmset[q] = h => p = q
    /\ hmsetPool[h] > 0 => ~Pends(h) /\ ~Gets(h) /\ ~Posts(h)
    /\ ~(Pends(h) /\ Gets(h)) /\ ~(Pends(h) /\ Posts(h)) /\ ~(Gets(h) /\ Posts(h))
OnePlaceEach == \A h \in Hmsets \ doubled : InOnePlace(h)

(* What a connection holds that was never given a value put twice.         *)
Mirrored(c, k, h) ==
    h \notin doubled /\ heap[h].fields = acked[c][k] /\ (heap[h].sent => handed[c][k] > 0)
Mirrors ==
    \A c \in Conns \ tainted : \A k \in Keys : \A h \in Hmsets : Pend(c, k, h) => Mirrored(c, k, h)
Apart ==
    \A c \in Conns \ tainted : cpc[c] = "send" =>
        \A k \in DOMAIN pending[c] : pending[c][k] = pending[c][key[c]] => k = key[c]
HandedOver ==
    \A c \in Conns \ tainted : \A k \in Keys :
        k \notin DOMAIN pending[c] \/ Sending(c, k) => handed[c][k] = Len(acked[c][k]) \/ handed[c][k] > 0
Snapshots ==
    /\ \A p \in Procs : spc[p] = "ready" /\ tainted = {} /\ hmset[p] \notin doubled => heap[hmset[p]].fields = given[p]
    /\ PostsSnapshot
Absent ==
    \A c \in Conns \ tainted : cpc[c] \in {"fetch", "answer"} /\ acked[c][at[c][1]] # <<>> =>
        at[c][2] # "all" /\ Named(acked[c][at[c][1]], at[c][2]) = {}
Contents == Mirrors /\ Apart /\ HandedOver /\ Snapshots /\ Absent /\ ReadsOwnWrites

IndInv == Types /\ Counted /\ Lifetime /\ OnePlaceEach /\ Contents

-----------------------------------------------------------------------------
(* A set of naturals that has an element has a least one.                  *)
LEMMA MinIn == ASSUME NEW S, S \subseteq Nat, S # {} PROVE Min(S) \in S
<1>1. PICK m \in S : \A d \in S : <<d, m>> \notin OpToRel(<, Nat)
  BY WFMin, NatLessThanWellFounded
<1>2. ASSUME NEW d \in S PROVE m =< d
  <2>1. d < m => <<d, m>> \in OpToRel(<, Nat)
    BY Zenon DEF OpToRel
  <2>2. ~(d < m)
    BY <1>1, <2>1, Zenon
  <2> QED
    BY <2>2
<1> QED
  BY <1>2 DEF Min

(* The map of a connection, with a key added or removed.                   *)
LEMMA MapFacts ==
    ASSUME NEW m \in Maps
    PROVE  /\ DOMAIN m \subseteq Keys /\ \A k \in DOMAIN m : m[k] \in Hmsets
           /\ m = [k \in DOMAIN m |-> m[k]]
  BY DEF Maps
LEMMA MapAdds ==
    ASSUME NEW m \in Maps, NEW k \in Keys, NEW h \in Hmsets
    PROVE  [j \in DOMAIN m \cup {k} |-> IF j = k THEN h ELSE m[j]] \in Maps
<1>1. [j \in DOMAIN m \cup {k} |-> IF j = k THEN h ELSE m[j]] \in [DOMAIN m \cup {k} -> Hmsets]
  BY MapFacts
<1>2. DOMAIN m \cup {k} \in SUBSET Keys
  BY MapFacts
<1> QED
  BY <1>1, <1>2, Zenon DEF Maps
LEMMA MapDrops ==
    ASSUME NEW m \in Maps, NEW k
    PROVE  [j \in DOMAIN m \ {k} |-> m[j]] \in Maps
<1>1. [j \in DOMAIN m \ {k} |-> m[j]] \in [DOMAIN m \ {k} -> Hmsets]
  BY MapFacts
<1> QED
  BY <1>1, MapFacts DEF Maps
LEMMA NoKeys == EmptyMap \in Maps /\ DOMAIN EmptyMap = {}
  BY DEF Maps, EmptyMap

(* What getPoolHMSet returns is nobody's, unless it was put twice.         *)
LEMMA AvailableFree ==
    ASSUME Types, OnePlaceEach, NEW h \in Available
    PROVE  /\ h \in Hmsets /\ Taken(h) \in [Hmsets -> Nat]
           /\ \A g \in Hmsets : Taken(h)[g] <= hmsetPool[g]
           /\ h \notin doubled => ~Pends(h) /\ ~Gets(h) /\ ~Posts(h) /\ Taken(h)[h] = 0
<1> USE DEF Types, HeapTypes
<1>0. Hmsets \subseteq Nat /\ hmsetPool \in [Hmsets -> Nat]
  BY KvAssumption DEF Hmsets
<1>1. h \in Hmsets /\ (hmsetPool[h] > 0 \/ h \in Unused)
  <2>1. CASE Unused = {}
    BY <2>1 DEF Available
  <2>2. CASE Unused # {}
    <3>1. Min(Unused) \in Unused
      BY <1>0, <2>2, MinIn DEF Unused
    <3> QED
      BY <2>2, <3>1 DEF Available, Unused
  <2> QED
    BY <2>1, <2>2
<1>2. Taken(h) \in [Hmsets -> Nat] /\ \A g \in Hmsets : Taken(h)[g] <= hmsetPool[g]
  BY <1>0, <1>1 DEF Taken
<1>3. ASSUME h \notin doubled PROVE ~Pends(h) /\ ~Gets(h) /\ ~Posts(h) /\ Taken(h)[h] = 0
  <2>1. InOnePlace(h)
    BY <1>1, <1>3 DEF OnePlaceEach
  <2>2. CASE hmsetPool[h] > 0
    BY <1>0, <1>1, <2>1, <2>2 DEF InOnePlace, Taken
  <2>3. CASE h \in Unused
    <3>1. hmsetPool[h] = 0 /\ ~Held(h)
      BY <2>3 DEF Unused
    <3>2. ~Pends(h)
      BY <3>1 DEF Held, Pends, Pend
    <3>3. ~Gets(h)
      BY <3>1 DEF Held, Gets
    <3>4. ~Posts(h)
      BY <1>0, <1>1, <3>1, KvAssumption DEF Held, Posts, SendTypes, Hmsets, Nobody
    <3> QED
      BY <1>0, <1>1, <3>1, <3>2, <3>3, <3>4 DEF Taken
  <2> QED
    BY <1>1, <2>2, <2>3
<1> QED
  BY <1>1, <1>2, <1>3

-----------------------------------------------------------------------------
LEMMA InitInd == Init => IndInv
<1> SUFFICES ASSUME Init PROVE IndInv
  OBVIOUS
<1> USE DEF Init
<1>0. /\ Blank \in Value /\ Nobody \notin Hmsets /\ None = <<>> /\ 0 \in Nat
      /\ 0 \in 0..(MaxTries - 1) /\ 0 \in 0..MaxRetries
  BY KvAssumption DEF Blank, Value, Hmsets, Nobody, None
<1>1. HeapTypes
  BY <1>0 DEF HeapTypes
<1>2. ConnTypes
  <2>1. /\ cpc \in [Conns -> {"new", "read", "fetch", "answer", "close", "send", "end"}]
        /\ pending \in [Conns -> Maps] /\ at \in [Conns -> Asked \cup {None}]
        /\ \A c \in Conns : cpc[c] = "new" /\ got[c] = Nobody
    BY NoKeys
  <2>2. /\ got \in [Conns -> Hmsets \cup {Nobody}] /\ ctries \in [Conns -> 0..(MaxTries - 1)]
        /\ answer = [c \in Conns |-> answer[c]]
    BY <1>0
  <2>3. /\ acked \in [Conns -> [Keys -> Seq(Field)]] /\ handed \in [Conns -> [Keys -> Nat]]
    OBVIOUS
  <2> QED
    BY <2>1, <2>2, <2>3 DEF ConnTypes
<1>3. SendTypes
  <2>1. \A p \in Procs : spc[p] = "off" /\ hmset[p] = Nobody
    OBVIOUS
  <2>2. /\ spc \in [Procs -> {"off", "ready", "post", "undo"}] /\ key \in [Procs -> Keys \cup {EmptyKey}]
        /\ hmset \in [Procs -> Hmsets \cup {Nobody}] /\ tries \in [Procs -> 0..(MaxTries - 1)]
        /\ body = [p \in Procs |-> body[p]] /\ given = [p \in Procs |-> given[p]]
        /\ store \in [Keys -> Stored \cup {None}]
    BY <1>0
  <2> QED
    BY <2>1, <2>2 DEF SendTypes
<1>4. ExitTypes
  BY <1>0 DEF ExitTypes
<1>5. Counted
  <2>1. Active = {}
    BY DEF Active
  <2> QED
    BY <2>1, FS_EmptySet DEF Counted, ExitWaitsForPosts
<1>6. Lifetime
  BY NoKeys DEF Lifetime, Keeps, Procs
<1>7. /\ \A c \in Conns : got[c] = Nobody /\ DOMAIN pending[c] = {} /\ cpc[c] = "new" /\ answer[c] = None
      /\ \A p \in Procs : hmset[p] = Nobody /\ spc[p] = "off"
      /\ \A h \in Hmsets : hmsetPool[h] = 0
  BY NoKeys
<1>8. OnePlaceEach
  BY <1>0, <1>7 DEF OnePlaceEach, InOnePlace, Pend, Pends, Gets, Posts
<1>9. Contents
  <2>1. Mirrors /\ Apart /\ Absent
    BY <1>7 DEF Mirrors, Pend, Apart, Absent
  <2>2. HandedOver
    BY <1>7 DEF HandedOver, Sending
  <2>3. Snapshots
    BY <1>7 DEF Snapshots, PostsSnapshot
  <2>4. ReadsOwnWrites
    BY <1>7 DEF ReadsOwnWrites
  <2> QED
    BY <2>1, <2>2, <2>3, <2>4 DEF Contents
<1> QED
  BY <1>1, <1>2, <1>3, <1>4, <1>5, <1>6, <1>8, <1>9 DEF IndInv, Types

-----------------------------------------------------------------------------
(* What the assignments to the heap do.                                    *)
LEMMA FieldsTyped ==
    ASSUME ConnTypes, NEW c \in Conns, NEW k \in Keys, NEW i \in Items, Len(acked[c][k]) + Len(i) <= MaxWrites
    PROVE  /\ Fields(c, k, i) \in Seq(Field) /\ Fields(c, k, i) # <<>>
           /\ acked[c][k] \in Seq(Field) /\ acked[c][k] \o Fields(c, k, i) \in Seq(Field)
           /\ acked[c][k] \o Fields(c, k, i) # <<>>
<1>1. acked[c][k] \in Seq(Field) /\ Len(acked[c][k]) \in Nat
  BY DEF ConnTypes
<1>2. i \in Seq(Names) /\ Len(i) \in Nat \ {0} /\ DOMAIN i = 1..Len(i)
  BY KvAssumption
<1>3. Len(acked[c][k]) + 1 \in 1..MaxWrites
  BY <1>1, <1>2, KvAssumption
<1>4. \A n \in 1..Len(i) : [name |-> i[n], by |-> <<c, k, Len(acked[c][k]) + 1>>] \in Field
  BY <1>2, <1>3 DEF Field
<1>5. Fields(c, k, i) \in Seq(Field) /\ Len(Fields(c, k, i)) = Len(i)
  BY <1>2, <1>4 DEF Fields
<1> HIDE DEF Fields
<1>6. Fields(c, k, i) # <<>>
  BY <1>2, <1>5
<1>7. acked[c][k] \o Fields(c, k, i) \in Seq(Field)
  BY <1>1, <1>5
<1>8. Len(acked[c][k] \o Fields(c, k, i)) # 0
  BY <1>1, <1>2, <1>5
<1>9. acked[c][k] \o Fields(c, k, i) # <<>>
  BY <1>8
<1> QED
  BY <1>1, <1>5, <1>6, <1>7, <1>9

LEMMA ValueExcept ==
    ASSUME NEW v \in Value, NEW t
    PROVE  /\ [v EXCEPT !.fields = t] = [fields |-> t, sent |-> v.sent]
           /\ [v EXCEPT !.sent = t] = [fields |-> v.fields, sent |-> t]
  BY DEF Value

LEMMA HeapAppends ==
    ASSUME HeapTypes, NEW h \in Hmsets, NEW f \in Seq(Field), heap' = [heap EXCEPT ![h].fields = @ \o f]
    PROVE  /\ heap' \in [Hmsets -> Value] /\ \A g \in Hmsets \ {h} : heap'[g] = heap[g]
           /\ heap'[h].fields = heap[h].fields \o f /\ heap'[h].sent = heap[h].sent
<1>1. heap \in [Hmsets -> Value] /\ heap[h].fields \in Seq(Field) /\ heap[h].sent \in BOOLEAN
  BY DEF HeapTypes, Value
<1>2. heap[h].fields \o f \in Seq(Field)
  BY <1>1
<1>3. [heap[h] EXCEPT !.fields = heap[h].fields \o f] = [fields |-> heap[h].fields \o f, sent |-> heap[h].sent]
  BY <1>1, ValueExcept
<1>4. heap' = [heap EXCEPT ![h] = [fields |-> heap[h].fields \o f, sent |-> heap[h].sent]]
  BY <1>3
<1> QED
  BY <1>1, <1>2, <1>4 DEF Value

LEMMA HeapClones ==
    ASSUME HeapTypes, NEW h \in Hmsets, NEW new \in Hmsets, heap' = Clone(h, new)
    PROVE  /\ heap' \in [Hmsets -> Value] /\ \A g \in Hmsets \ {h, new} : heap'[g] = heap[g]
           /\ h # new => /\ heap'[h].fields = heap[h].fields
                         /\ heap'[new].fields = heap[h].fields
<1> DEFINE v == [fields |-> heap[h].fields, sent |-> TRUE]
           w == [heap EXCEPT ![h] = v]
<1>1. heap \in [Hmsets -> Value] /\ heap[h].fields \in Seq(Field) /\ v \in Value /\ Blank \in Value
  BY DEF HeapTypes, Value, Blank
<1>2. [heap[h] EXCEPT !.sent = TRUE] = v
  BY <1>1, ValueExcept
<1>3. [heap EXCEPT ![h].sent = TRUE] = w
  BY <1>2
<1>4. heap' = [[w EXCEPT ![new] = Blank] EXCEPT ![new] = [w EXCEPT ![new] = Blank][h]]
  BY <1>3 DEF Clone
<1>5. w \in [Hmsets -> Value] /\ w[h] = v /\ \A g \in Hmsets \ {h} : w[g] = heap[g]
  BY <1>1
<1>6. v.fields = heap[h].fields
  OBVIOUS
<1> HIDE DEF v, w
<1> QED
  BY <1>1, <1>4, <1>5, <1>6

(* Every step keeps the heap and the pools well typed.                     *)
LEMMA HeapTypeStep == ASSUME IndInv, Next PROVE HeapTypes'
<1>0. HeapTypes /\ ConnTypes /\ SendTypes /\ Types /\ OnePlaceEach
  BY DEF IndInv, Types
<1>1. /\ heap \in [Hmsets -> Value] /\ hmsetPool \in [Hmsets -> Nat] /\ config \in Configs
      /\ pendingPool \subseteq {EmptyMap} /\ doubled \subseteq Hmsets /\ tainted \subseteq Conns
      /\ Blank \in Value
  BY <1>0 DEF HeapTypes, Value, Blank
<1>2. /\ \A c \in Conns : pending[c] \in Maps /\ got[c] \in Hmsets \cup {Nobody} /\ (got[c] # Nobody <=> cpc[c] = "answer")
      /\ \A p \in Procs : hmset[p] \in Hmsets \cup {Nobody} /\ (hmset[p] # Nobody <=> spc[p] # "off")
  BY <1>0 DEF ConnTypes, SendTypes
<1>p. ASSUME NEW h \in Hmsets, Put(h) PROVE heap' \in [Hmsets -> Value] /\ hmsetPool' \in [Hmsets -> Nat]
  BY <1>1, <1>p DEF Put
<1>t. ASSUME NEW h \in Available PROVE h \in Hmsets /\ Taken(h) \in [Hmsets -> Nat]
  BY <1>0, AvailableFree
<1> USE DEF hmsets, history
<1>3. ASSUME NEW c \in Conns, Accept(c) PROVE HeapTypes'
  BY <1>1, <1>3 DEF Accept, HeapTypes
<1>4. ASSUME NEW c \in Conns, Fetch(c) PROVE HeapTypes'
  <2>1. CASE NotFetched(c, at[c][1])
    BY <1>1, <1>4, <2>1 DEF Fetch, NotFetched, HeapTypes
  <2>2. CASE Fetched(c, at[c][1])
    <3>1. at[c][1] \in Keys /\ store \in [Keys -> Stored \cup {None}]
      BY <1>0, <1>4 DEF Fetch, ConnTypes, SendTypes, Asked
    <3> DEFINE s == store[at[c][1]]
    <3>2. s \in Stored
      BY <2>2, <3>1 DEF Fetched
    <3>3. [fields |-> s.fields, sent |-> s.sent] \in Value
      BY <3>2 DEF Stored, Value
    <3>4. PICK h \in Available : hmsetPool' = Taken(h) /\ heap' = [heap EXCEPT ![h] = [fields |-> s.fields, sent |-> s.sent]]
      BY <2>2 DEF Fetched
    <3> HIDE DEF s
    <3>5. heap' \in [Hmsets -> Value] /\ hmsetPool' \in [Hmsets -> Nat]
      BY <1>1, <1>t, <3>3, <3>4
    <3> QED
      BY <1>1, <1>4, <3>5 DEF Fetch, HeapTypes
  <2> QED
    BY <1>4, <2>1, <2>2 DEF Fetch
<1>5. ASSUME NEW c \in Conns, Answer(c) PROVE HeapTypes'
  <2>1. heap' \in [Hmsets -> Value] /\ hmsetPool' \in [Hmsets -> Nat]
    BY <1>2, <1>5, <1>p DEF Answer
  <2> QED
    BY <1>1, <1>5, <2>1 DEF Answer, HeapTypes
<1>6. ASSUME NEW c \in Conns, Close(c) PROVE HeapTypes'
  BY <1>1, <1>6 DEF Close, HeapTypes
<1>7. ASSUME NEW c \in Conns, NEW k \in Keys, CloseSends(c, k) PROVE HeapTypes'
  BY <1>1, <1>7 DEF CloseSends, HeapTypes
<1>8. ASSUME NEW c \in Conns, NEW k \in Keys, CloseRecycles(c, k) PROVE HeapTypes'
  <2>1. heap' \in [Hmsets -> Value] /\ hmsetPool' \in [Hmsets -> Nat]
    BY <1>2, <1>8, <1>p, MapFacts DEF CloseRecycles
  <2> QED
    BY <1>1, <1>8, <2>1 DEF CloseRecycles, HeapTypes
<1>9. ASSUME NEW c \in Conns, ClosePutsAgain(c) PROVE HeapTypes'
  <2>1. pending[c][key[c]] \in Hmsets /\ Others(c, pending[c][key[c]]) \subseteq Conns
    BY <1>2, <1>9, MapFacts DEF ClosePutsAgain, IndInv, Lifetime, Keeps, Others
  <2>2. heap' \in [Hmsets -> Value] /\ hmsetPool' \in [Hmsets -> Nat]
    BY <1>9, <1>p, <2>1 DEF ClosePutsAgain
  <2> QED
    BY <1>1, <1>9, <2>1, <2>2 DEF ClosePutsAgain, HeapTypes
<1>10. ASSUME NEW c \in Conns, ClosePutsMap(c) PROVE HeapTypes'
  <2>1. pending[c] = EmptyMap
    BY <1>2, <1>10, MapFacts DEF ClosePutsMap, EmptyMap
  <2> QED
    BY <1>1, <1>10, <2>1 DEF ClosePutsMap, HeapTypes
<1>11. ASSUME NEW c \in Conns, NEW k \in Keys, Expire(c, k) PROVE HeapTypes'
  <2>1. PICK h \in Available : hmsetPool' = Taken(h) /\ heap' = Clone(pending[c][k], h)
    BY <1>11 DEF Expire
  <2>2. heap' \in [Hmsets -> Value] /\ hmsetPool' \in [Hmsets -> Nat]
    BY <1>0, <1>2, <1>11, <1>t, <2>1, MapFacts, HeapClones DEF Expire
  <2> QED
    BY <1>1, <1>11, <2>2 DEF Expire, HeapTypes
<1>12. ASSUME NEW c \in Conns, NEW k \in Keys, NEW i \in Items, Hmset(c, k, i) PROVE HeapTypes'
  <2> DEFINE f == Fields(c, k, i)
  <2>1. f \in Seq(Field)
    BY <1>0, <1>12, FieldsTyped DEF Hmset
  <2>2. UNCHANGED <<config, pendingPool, doubled>>
    BY <1>12 DEF Hmset
  <2>3. CASE /\ k \in DOMAIN pending[c] /\ heap' = [heap EXCEPT ![pending[c][k]].fields = @ \o f]
             /\ UNCHANGED <<hmsetPool, pending, tainted>>
    <3>1. pending[c][k] \in Hmsets
      BY <1>2, <2>3, MapFacts
    <3> HIDE DEF f
    <3>2. heap' \in [Hmsets -> Value]
      BY <1>0, <2>1, <2>3, <3>1, HeapAppends
    <3> QED
      BY <1>1, <2>2, <2>3, <3>2 DEF HeapTypes
  <2>4. CASE \E h \in Available :
                /\ hmsetPool' = Taken(h) /\ heap' = [heap EXCEPT ![h] = [Blank EXCEPT !.fields = f]]
                /\ tainted' = IF h \in doubled THEN tainted \cup {c} ELSE tainted
    <3>1. [Blank EXCEPT !.fields = f] \in Value
      BY <2>1 DEF Blank, Value
    <3> HIDE DEF f
    <3> QED
      BY <1>1, <1>t, <2>2, <2>4, <3>1 DEF HeapTypes
  <2> QED
    BY <1>12, <2>3, <2>4 DEF Hmset
<1>13. ASSUME NEW c \in Conns, NEW k \in Keys, NEW w, Hget(c, k, w) PROVE HeapTypes'
  BY <1>1, <1>13 DEF Hget, HeapTypes
<1>14. ASSUME NEW p \in Procs, SendStart(p) \/ Post(p) PROVE HeapTypes'
  BY <1>1, <1>14 DEF SendStart, Post, HeapTypes
<1>15. ASSUME NEW p \in Procs, SendEnd(p) PROVE HeapTypes'
  <2>1. heap' \in [Hmsets -> Value] /\ hmsetPool' \in [Hmsets -> Nat]
    BY <1>2, <1>15, <1>p DEF SendEnd
  <2> QED
    BY <1>1, <1>15, <2>1 DEF SendEnd, HeapTypes
<1>16. ASSUME NEW new \in Configs, Reload(new) PROVE HeapTypes'
  BY <1>1, <1>16 DEF Reload, HeapTypes
<1>17. ASSUME Exit \/ ExitChecks PROVE HeapTypes'
  BY <1>1, <1>17 DEF Exit, ExitChecks, HeapTypes
<1> QED
  BY <1>3, <1>4, <1>5, <1>6, <1>7, <1>8, <1>9, <1>10, <1>11, <1>12, <1>13, <1>14, <1>15, <1>16, <1>17
     DEF Next, Connection, Closing, Send

(* Every step keeps the connections well typed.                            *)
LEMMA ConnTypeStep == ASSUME IndInv, Next PROVE ConnTypes'
<1>0. HeapTypes /\ ConnTypes /\ SendTypes /\ Types /\ OnePlaceEach
  BY DEF IndInv, Types
<1>1. /\ cpc \in [Conns -> {"new", "read", "fetch", "answer", "close", "send", "end"}]
      /\ pending \in [Conns -> Maps] /\ at \in [Conns -> Asked \cup {None}]
      /\ got \in [Conns -> Hmsets \cup {Nobody}] /\ ctries \in [Conns -> 0..(MaxTries - 1)]
      /\ answer = [c \in Conns |-> answer[c]]
      /\ acked \in [Conns -> [Keys -> Seq(Field)]] /\ handed \in [Conns -> [Keys -> Nat]]
  BY <1>0 DEF ConnTypes
<1>2. /\ \A c \in Conns : cpc[c] \in {"fetch", "answer"} => at[c] \in Asked
      /\ \A c \in Conns : got[c] # Nobody <=> cpc[c] = "answer"
      /\ Nobody \notin Hmsets
  BY <1>0, KvAssumption DEF ConnTypes, Hmsets, Nobody
<1>3. pendingPool \subseteq {EmptyMap} /\ \A c \in Conns, k \in Keys : Len(acked[c][k]) \in Nat
  BY <1>0, <1>1 DEF HeapTypes
<1>t. ASSUME NEW h \in Available PROVE h \in Hmsets
  BY <1>0, AvailableFree
<1> USE <1>1, <1>2 DEF hmsets, history, reading, Goto
<1>4. ASSUME NEW c \in Conns, Accept(c) PROVE ConnTypes'
  <2>1. \E m \in {EmptyMap} : pending' = [pending EXCEPT ![c] = m]
    BY <1>3, <1>4 DEF Accept
  <2>2. EmptyMap \in Maps
    BY NoKeys
  <2>3. pending' = [pending EXCEPT ![c] = EmptyMap]
    BY <2>1
  <2>4. pending' \in [Conns -> Maps]
    BY <2>2, <2>3
  <2> QED
    BY <1>4, <2>4 DEF Accept, ConnTypes
<1>5. ASSUME NEW c \in Conns, Fetch(c) PROVE ConnTypes'
  <2>1. CASE NotFetched(c, at[c][1])
    <3>0. /\ got' = got
          /\ \/ /\ ctries[c] + 1 < MaxTries /\ ctries' = [ctries EXCEPT ![c] = ctries[c] + 1]
                /\ cpc' = cpc /\ at' = at /\ answer' = answer
             \/ /\ ctries' = [ctries EXCEPT ![c] = 0] /\ cpc' = [cpc EXCEPT ![c] = "read"]
                /\ at' = [at EXCEPT ![c] = None]
                /\ answer' = [answer EXCEPT ![c] = [key |-> at[c][1], what |-> at[c][2], result |-> "error", nth |-> Reads(c) + 1]]
      BY <2>1 DEF NotFetched, Reply
    <3>a. ctries[c] \in 0..(MaxTries - 1) /\ MaxTries \in Nat \ {0}
      BY KvAssumption
    <3>b. ctries[c] + 1 < MaxTries => ctries[c] + 1 \in 0..(MaxTries - 1)
      BY <3>a
    <3>c. 0 \in 0..(MaxTries - 1)
      BY <3>a
    <3>1. ctries' \in [Conns -> 0..(MaxTries - 1)]
      BY <3>0, <3>b, <3>c
    <3>2. /\ got' = got /\ at' \in [Conns -> Asked \cup {None}] /\ answer' = [d \in Conns |-> answer'[d]]
          /\ \/ cpc' = cpc /\ at' = at
             \/ cpc' = [cpc EXCEPT ![c] = "read"] /\ at' = [at EXCEPT ![c] = None]
      BY <3>0
    <3>3. UNCHANGED <<pending, acked, handed>> /\ cpc[c] = "fetch"
      BY <1>5 DEF Fetch
    <3> QED
      BY <3>1, <3>2, <3>3 DEF ConnTypes
  <2>2. CASE Fetched(c, at[c][1])
    <3>1. ctries' \in [Conns -> 0..(MaxTries - 1)]
      BY <1>1, <2>2, KvAssumption DEF Fetched
    <3>2. PICK h \in Hmsets : got' = [got EXCEPT ![c] = h]
      BY <1>t, <2>2 DEF Fetched
    <3>3. cpc' = [cpc EXCEPT ![c] = "answer"] /\ at' = at /\ answer' = answer
      BY <2>2 DEF Fetched
    <3>4. UNCHANGED <<pending, acked, handed>> /\ cpc[c] = "fetch"
      BY <1>5 DEF Fetch
    <3> QED
      BY <3>1, <3>2, <3>3, <3>4 DEF ConnTypes
  <2> QED
    BY <1>5, <2>1, <2>2 DEF Fetch
<1>6. ASSUME NEW c \in Conns, Answer(c) PROVE ConnTypes'
  BY <1>6 DEF Answer, Reply, ConnTypes
<1>7. ASSUME NEW c \in Conns, Close(c) PROVE ConnTypes'
  BY <1>7 DEF Close, ConnTypes
<1>8. ASSUME NEW c \in Conns, NEW k \in Keys, CloseSends(c, k) PROVE ConnTypes'
  <2>1. handed' \in [Conns -> [Keys -> Nat]]
    BY <1>3, <1>8 DEF CloseSends
  <2> QED
    BY <1>8, <2>1 DEF CloseSends, ConnTypes
<1>9. ASSUME NEW c \in Conns, NEW k, Delete(c, k) PROVE pending' \in [Conns -> Maps]
  <2>1. [j \in DOMAIN pending[c] \ {k} |-> pending[c][j]] \in Maps
    BY MapDrops
  <2> QED
    BY <1>9, <2>1 DEF Delete
<1>10. ASSUME NEW c \in Conns, NEW k \in Keys, CloseRecycles(c, k) PROVE ConnTypes'
  <2>1. pending' \in [Conns -> Maps]
    BY <1>9, <1>10 DEF CloseRecycles
  <2> QED
    BY <1>10, <2>1 DEF CloseRecycles, ConnTypes
<1>11. ASSUME NEW c \in Conns, ClosePutsAgain(c) PROVE ConnTypes'
  <2>1. pending' \in [Conns -> Maps]
    BY <1>9, <1>11 DEF ClosePutsAgain
  <2> QED
    BY <1>11, <2>1 DEF ClosePutsAgain, ConnTypes
<1>12. ASSUME NEW c \in Conns, ClosePutsMap(c) PROVE ConnTypes'
  BY <1>12 DEF ClosePutsMap, ConnTypes
<1>13. ASSUME NEW c \in Conns, NEW k \in Keys, Expire(c, k) PROVE ConnTypes'
  <2>1. handed' \in [Conns -> [Keys -> Nat]]
    BY <1>3, <1>13 DEF Expire
  <2> QED
    BY <1>13, <2>1 DEF Expire, ConnTypes
<1>14. ASSUME NEW c \in Conns, NEW k \in Keys, NEW i \in Items, Hmset(c, k, i) PROVE ConnTypes'
  <2>1. acked[c][k] \o Fields(c, k, i) \in Seq(Field)
    BY <1>0, <1>14, FieldsTyped DEF Hmset
  <2>2. acked' \in [Conns -> [Keys -> Seq(Field)]]
    <3>1. acked' = [acked EXCEPT ![c][k] = acked[c][k] \o Fields(c, k, i)]
      BY <1>14 DEF Hmset
    <3> HIDE DEF Fields
    <3> QED
      BY <2>1, <3>1
  <2>3. pending' \in [Conns -> Maps]
    <3>1. ASSUME NEW h \in Available, pending' = [pending EXCEPT ![c] = [j \in DOMAIN @ \cup {k} |-> IF j = k THEN h ELSE @[j]]]
          PROVE  pending' \in [Conns -> Maps]
      <4>1. [j \in DOMAIN pending[c] \cup {k} |-> IF j = k THEN h ELSE pending[c][j]] \in Maps
        <5>1. h \in Hmsets /\ pending[c] \in Maps
          BY <1>t
        <5> QED
          BY <5>1, MapAdds
      <4> QED
        BY <3>1, <4>1
    <3> QED
      BY <1>14, <3>1 DEF Hmset
  <2> QED
    BY <1>14, <2>2, <2>3 DEF Hmset, ConnTypes
<1>15. ASSUME NEW c \in Conns, NEW k \in Keys, NEW w \in Names \cup {"all"}, Hget(c, k, w) PROVE ConnTypes'
  <2>1. <<k, w>> \in Asked
    BY DEF Asked
  <2> QED
    BY <1>15, <2>1, ZenonT(30) DEF Hget, Reply, ConnTypes
<1>16. ASSUME NEW p \in Procs, Send(p) PROVE ConnTypes'
  BY <1>16 DEF Send, SendStart, Post, SendEnd, ConnTypes
<1>17. ASSUME NEW new \in Configs, Reload(new) PROVE ConnTypes'
  BY <1>17 DEF Reload, ConnTypes
<1>18. ASSUME Exit \/ ExitChecks PROVE ConnTypes'
  BY <1>18 DEF Exit, ExitChecks, ConnTypes
<1> QED
  BY <1>4, <1>5, <1>6, <1>7, <1>8, <1>10, <1>11, <1>12, <1>13, <1>14, <1>15, <1>16, <1>17, <1>18
     DEF Next, Connection, Closing

(* Every step keeps the sends and the store well typed.                    *)
LEMMA SendTypeStep == ASSUME IndInv, Next PROVE SendTypes'
<1>0. HeapTypes /\ ConnTypes /\ SendTypes /\ Types /\ OnePlaceEach
  BY DEF IndInv, Types
<1>1. /\ spc \in [Procs -> {"off", "ready", "post", "undo"}] /\ key \in [Procs -> Keys \cup {EmptyKey}]
      /\ hmset \in [Procs -> Hmsets \cup {Nobody}] /\ tries \in [Procs -> 0..(MaxTries - 1)]
      /\ body = [p \in Procs |-> body[p]] /\ given = [p \in Procs |-> given[p]]
      /\ store \in [Keys -> Stored \cup {None}]
  BY <1>0 DEF SendTypes
<1>2. /\ \A p \in Procs : (hmset[p] # Nobody <=> spc[p] # "off") /\ (spc[p] # "off" => key[p] \in Keys)
      /\ \A p \in Procs : spc[p] = "post" => body[p] \in Stored
      /\ Nobody \notin Hmsets
  BY <1>0, KvAssumption DEF SendTypes, Hmsets, Nobody
<1>3. \A c \in Conns : pending[c] \in Maps /\ c \in Procs
  BY <1>0 DEF ConnTypes, Procs
<1>t. ASSUME NEW h \in Available PROVE h \in Hmsets
  BY <1>0, AvailableFree
<1> USE <1>1, <1>2 DEF hmsets, history, sending, Step
<1>c. ASSUME NEW p \in Procs, NEW k \in Keys, NEW h \in Hmsets, NEW f, Call(p, k, h, f), UNCHANGED <<body, tries, store>>
      PROVE  SendTypes'
  BY <1>c DEF Call, SendTypes
<1>4. ASSUME NEW c \in Conns, NEW k \in Keys, Expire(c, k) PROVE SendTypes'
  <2>1. PICK h \in Available, s \in Sends : Call(s, k, h, acked[c][k])
    BY <1>4 DEF Expire
  <2> QED
    BY <1>4, <1>c, <1>t, <2>1 DEF Expire, Procs
<1>5. ASSUME NEW c \in Conns, NEW k \in Keys, CloseSends(c, k) PROVE SendTypes'
  BY <1>3, <1>5, <1>c, MapFacts DEF CloseSends
<1>6. ASSUME NEW p \in Procs, SendStart(p) PROVE SendTypes'
  <2> DEFINE b == [fields |-> heap[hmset[p]].fields, sent |-> heap[hmset[p]].sent, pack |-> Pack]
  <2>1. heap[hmset[p]] \in Value
    BY <1>0, <1>6 DEF SendStart, HeapTypes
  <2>2. b \in Stored
    BY <2>1 DEF Value, Stored, Pack
  <2>3. body' = [body EXCEPT ![p] = b] /\ (spc' = [spc EXCEPT ![p] = "undo"] \/ spc' = [spc EXCEPT ![p] = "post"])
    BY <1>6 DEF SendStart
  <2>4. spc[p] = "ready" /\ UNCHANGED <<key, hmset, tries, given, store>>
    BY <1>6 DEF SendStart
  <2> HIDE DEF b
  <2> QED
    BY <2>2, <2>3, <2>4 DEF SendTypes
<1>7. ASSUME NEW p \in Procs, Post(p) PROVE SendTypes'
  <2>1. store' = store \/ store' = [store EXCEPT ![key[p]] = body[p]]
    BY <1>7 DEF Post
  <2>2. store' \in [Keys -> Stored \cup {None}]
    BY <1>7, <2>1 DEF Post
  <2>3. /\ spc' = [spc EXCEPT ![p] = "undo"] \/ spc' = [spc EXCEPT ![p] = "post"]
        /\ tries' \in [Procs -> 0..(MaxTries - 1)]
    BY <1>7, KvAssumption DEF Post, Failed
  <2>4. spc[p] = "post" /\ UNCHANGED <<key, hmset, body, given>>
    BY <1>7 DEF Post
  <2> QED
    BY <2>2, <2>3, <2>4 DEF SendTypes
<1>8. ASSUME NEW p \in Procs, SendEnd(p) PROVE SendTypes'
  <2>1. 0 \in 0..(MaxTries - 1)
    BY KvAssumption
  <2> QED
    BY <1>8, <2>1 DEF SendEnd, SendTypes
<1>9. ASSUME NEW c \in Conns,
             \/ Accept(c) \/ Fetch(c) \/ Answer(c) \/ Close(c) \/ ClosePutsAgain(c) \/ ClosePutsMap(c)
             \/ \E k \in Keys : \/ CloseRecycles(c, k) \/ \E i \in Items : Hmset(c, k, i)
                                \/ \E w \in Names \cup {"all"} : Hget(c, k, w)
      PROVE  SendTypes'
  BY <1>9 DEF Accept, Fetch, Answer, Close, ClosePutsAgain, ClosePutsMap, CloseRecycles, Hmset, Hget, SendTypes
<1>10. ASSUME (\E new \in Configs : Reload(new)) \/ Exit \/ ExitChecks PROVE SendTypes'
  BY <1>10 DEF Reload, Exit, ExitChecks, SendTypes
<1> QED
  BY <1>4, <1>5, <1>6, <1>7, <1>8, <1>9, <1>10 DEF Next, Connection, Closing, Send

(* A step of a connection starts no post and ends none.                    *)
LEMMA ConnectionActive ==
    ASSUME IndInv, NEW c \in Conns, Connection(c)
    PROVE  Active' = Active /\ UNCHANGED <<running, exits>>
<1>1. /\ spc \in [Procs -> {"off", "ready", "post", "undo"}] /\ c \in Procs /\ Sends \subseteq Procs
      /\ spc[c] # "off" => cpc[c] = "send"
      /\ \A s \in Sends : given[s] = None => spc[s] = "off"
  BY DEF IndInv, Types, SendTypes, Lifetime, Procs
<1>2. ASSUME NEW p \in Procs, spc[p] = "off", spc' = [spc EXCEPT ![p] = "ready"] PROVE Active' = Active
  BY <1>1, <1>2 DEF Active
<1>3. ASSUME NEW k \in Keys, Expire(c, k) PROVE Active' = Active /\ UNCHANGED <<running, exits>>
  BY <1>1, <1>2, <1>3 DEF Expire, Call, Fresh
<1>4. ASSUME NEW k \in Keys, CloseSends(c, k) PROVE Active' = Active /\ UNCHANGED <<running, exits>>
  BY <1>1, <1>2, <1>4 DEF CloseSends, Call
<1>5. ASSUME \/ Accept(c) \/ Fetch(c) \/ Answer(c) \/ Close(c) \/ ClosePutsAgain(c) \/ ClosePutsMap(c)
             \/ \E k \in Keys : \/ CloseRecycles(c, k) \/ \E i \in Items : Hmset(c, k, i)
                                \/ \E w \in Names \cup {"all"} : Hget(c, k, w)
      PROVE  Active' = Active /\ UNCHANGED <<running, exits>>
  BY <1>5 DEF Accept, Fetch, Answer, Close, ClosePutsAgain, ClosePutsMap, CloseRecycles, Hmset, Hget, sending, Active
<1> QED
  BY <1>3, <1>4, <1>5 DEF Connection, Closing

(* running counts the sends that have begun, so that Exit, which waits     *)
(* until it is 0, waits for them.                                          *)
LEMMA CountStep == ASSUME IndInv, Next PROVE ExitTypes' /\ Counted'
<1>0. /\ spc \in [Procs -> {"off", "ready", "post", "undo"}] /\ IsFiniteSet(Active)
      /\ running = Cardinality(Active) /\ running \in Nat /\ retry \in 0..MaxRetries
      /\ xpc \in {"run", "wait", "done"} /\ xpc # "done" /\ MaxRetries \in Nat
  BY KvAssumption DEF IndInv, Types, SendTypes, ExitTypes, Counted, Next
<1> USE DEF exits, Step
<1>k. ASSUME Active' = Active, UNCHANGED <<running, exits>> PROVE ExitTypes' /\ Counted'
  BY <1>0, <1>k DEF ExitTypes, Counted, ExitWaitsForPosts
<1>1. ASSUME NEW c \in Conns, Connection(c) PROVE ExitTypes' /\ Counted'
  BY <1>1, <1>k, ConnectionActive
<1>2. ASSUME NEW p \in Procs, SendStart(p) PROVE ExitTypes' /\ Counted'
  <2>1. p \notin Active
    BY <1>2 DEF SendStart, Active
  <2>2. Active' = Active \cup {p}
    BY <1>0, <1>2 DEF SendStart, Active
  <2>3. IsFiniteSet(Active') /\ Cardinality(Active') = Cardinality(Active) + 1
    BY <1>0, <2>1, <2>2, FS_AddElement
  <2>4. running' = running + 1 /\ UNCHANGED exits
    BY <1>2 DEF SendStart
  <2> QED
    BY <1>0, <2>3, <2>4 DEF ExitTypes, Counted, ExitWaitsForPosts
<1>3. ASSUME NEW p \in Procs, Post(p) PROVE ExitTypes' /\ Counted'
  <2>1. Active' = Active
    BY <1>0, <1>3 DEF Post, Failed, Active
  <2> QED
    BY <1>3, <1>k, <2>1 DEF Post
<1>4. ASSUME NEW p \in Procs, SendEnd(p) PROVE ExitTypes' /\ Counted'
  <2>1. p \in Active
    BY <1>4 DEF SendEnd, Active
  <2>2. Active' = Active \ {p}
    BY <1>0, <1>4 DEF SendEnd, Active
  <2>3. IsFiniteSet(Active') /\ Cardinality(Active') = Cardinality(Active) - 1
    BY <1>0, <2>1, <2>2, FS_RemoveElement
  <2>4. running' = running - 1 /\ UNCHANGED exits /\ Cardinality(Active') \in Nat
    BY <1>4, <2>3, FS_CardinalityType DEF SendEnd
  <2> QED
    BY <1>0, <2>3, <2>4 DEF ExitTypes, Counted, ExitWaitsForPosts
<1>5. ASSUME NEW new \in Configs, Reload(new) PROVE ExitTypes' /\ Counted'
  BY <1>5, <1>k DEF Reload, sending, Active
<1>6. ASSUME Exit PROVE ExitTypes' /\ Counted'
  BY <1>0, <1>6 DEF Exit, sending, Active, ExitTypes, Counted, ExitWaitsForPosts
<1>7. ASSUME ExitChecks PROVE ExitTypes' /\ Counted'
  <2>1. Active' = Active /\ running' = running /\ spc' = spc
    BY <1>7 DEF ExitChecks, sending, Active
  <2>2. ExitTypes'
    BY <1>0, <1>7 DEF ExitChecks, ExitTypes
  <2>3. ASSUME xpc' = "done", retry' < MaxRetries PROVE \A p \in Procs : spc'[p] \in {"off", "ready"}
    <3>1. running = 0
      BY <1>0, <1>7, <2>3 DEF ExitChecks, NoneRunning
    <3>2. Active = {}
      BY <1>0, <3>1, FS_EmptySet
    <3> QED
      BY <1>0, <2>1, <3>2 DEF Active
  <2> QED
    BY <1>0, <2>1, <2>2, <2>3 DEF Counted, ExitWaitsForPosts
<1> QED
  BY <1>1, <1>2, <1>3, <1>4, <1>5, <1>6, <1>7 DEF Next, Send

-----------------------------------------------------------------------------
(* What the steps do to the maps of the connections.                       *)
LEMMA DeleteDoes ==
    ASSUME ConnTypes, NEW c \in Conns, NEW k, Delete(c, k)
    PROVE  /\ \A d \in Conns \ {c} : pending'[d] = pending[d]
           /\ DOMAIN pending'[c] = DOMAIN pending[c] \ {k}
           /\ \A j \in DOMAIN pending[c] \ {k} : pending'[c][j] = pending[c][j]
<1>1. pending'[c] = [j \in DOMAIN pending[c] \ {k} |-> pending[c][j]] /\ \A d \in Conns \ {c} : pending'[d] = pending[d]
  BY DEF ConnTypes, Delete
<1> QED
  BY <1>1

LEMMA HmsetMap ==
    ASSUME IndInv, NEW c \in Conns, NEW k \in Keys, NEW i \in Items, Hmset(c, k, i)
    PROVE  /\ \A d \in Conns \ {c} : pending'[d] = pending[d] /\ acked'[d] = acked[d] /\ answer'[d] = answer[d]
           /\ DOMAIN pending'[c] = DOMAIN pending[c] \cup {k} /\ answer'[c] = None
           /\ \A j \in DOMAIN pending[c] : pending'[c][j] = pending[c][j]
           /\ \A j \in Keys \ {k} : acked'[c][j] = acked[c][j]
           /\ acked'[c][k] = acked[c][k] \o Fields(c, k, i) /\ acked'[c][k] # <<>>
           /\ acked[c][k] \in Seq(Field) /\ Fields(c, k, i) \in Seq(Field)
<1>0. ConnTypes
  BY DEF IndInv, Types
<1>1. acked[c][k] \o Fields(c, k, i) # <<>> /\ acked[c][k] \in Seq(Field) /\ Fields(c, k, i) \in Seq(Field)
  BY <1>0, FieldsTyped DEF Hmset
<1>2. acked' = [acked EXCEPT ![c][k] = acked[c][k] \o Fields(c, k, i)]
  BY DEF Hmset
<1>3. acked \in [Conns -> [Keys -> Seq(Field)]] /\ pending \in [Conns -> Maps]
  BY <1>0 DEF ConnTypes
<1>4. answer'[c] = None /\ \A d \in Conns \ {c} : answer'[d] = answer[d]
  BY <1>0 DEF Hmset, ConnTypes
<1> DEFINE Added == /\ \A d \in Conns \ {c} : pending'[d] = pending[d]
                    /\ DOMAIN pending'[c] = DOMAIN pending[c] \cup {k}
                    /\ \A j \in DOMAIN pending[c] : pending'[c][j] = pending[c][j]
<1>5. Added
  <2>1. CASE k \in DOMAIN pending[c] /\ UNCHANGED pending
    BY <2>1
  <2>2. ASSUME k \notin DOMAIN pending[c], NEW h,
               pending' = [pending EXCEPT ![c] = [j \in DOMAIN @ \cup {k} |-> IF j = k THEN h ELSE @[j]]]
        PROVE  Added
    <3>1. pending'[c] = [j \in DOMAIN pending[c] \cup {k} |-> IF j = k THEN h ELSE pending[c][j]]
      BY <1>3, <2>2
    <3>2. \A d \in Conns \ {c} : pending'[d] = pending[d]
      BY <1>3, <2>2
    <3> QED
      BY <2>2, <3>1, <3>2
  <2> QED
    BY <2>1, <2>2 DEF Hmset
<1> HIDE DEF Fields
<1> QED
  BY <1>1, <1>2, <1>3, <1>4, <1>5

(* Every step keeps what the connections have in their maps.               *)
LEMMA LifetimeStep == ASSUME IndInv, Next PROVE Lifetime'
<1>0. ConnTypes /\ SendTypes /\ Lifetime
  BY DEF IndInv, Types
<1>1. /\ cpc \in [Conns -> {"new", "read", "fetch", "answer", "close", "send", "end"}]
      /\ spc \in [Procs -> {"off", "ready", "post", "undo"}] /\ key = [p \in Procs |-> key[p]]
      /\ given = [p \in Procs |-> given[p]] /\ pending \in [Conns -> Maps]
      /\ \A c \in Conns : c \in Procs /\ c \notin Sends
      /\ \A s \in Sends : s \in Procs
  BY <1>0, KvAssumption DEF ConnTypes, SendTypes, Procs
<1> USE DEF Goto, Step, sending, history, Keeps
<1>3. ASSUME NEW c \in Conns, Accept(c) PROVE Lifetime'
  <2>1. pending' = pending
    <3>1. pending[c] = EmptyMap /\ pendingPool \subseteq {EmptyMap}
      BY <1>0, <1>3 DEF Accept, Lifetime, IndInv, Types, HeapTypes
    <3> QED
      BY <1>1, <1>3, <3>1 DEF Accept
  <2> QED
    BY <1>0, <1>1, <1>3, <2>1, SMTT(30) DEF Accept, Lifetime
<1>4. ASSUME NEW c \in Conns, Fetch(c) PROVE Lifetime'
  BY <1>0, <1>1, <1>4, ZenonT(30) DEF Fetch, Fetched, NotFetched, Lifetime
<1>5. ASSUME NEW c \in Conns, Answer(c) PROVE Lifetime'
  BY <1>0, <1>1, <1>5 DEF Answer, Lifetime
<1>6. ASSUME NEW c \in Conns, Close(c) \/ ClosePutsMap(c) PROVE Lifetime'
  <2>1. /\ UNCHANGED <<spc, key, given, pending, acked>> /\ cpc[c] \in {"read", "close"}
        /\ \/ cpc' = [cpc EXCEPT ![c] = "close"]
           \/ cpc' = [cpc EXCEPT ![c] = "end"] /\ DOMAIN pending[c] = {}
    BY <1>6 DEF Close, ClosePutsMap
  <2>2. /\ cpc'[c] = "close" \/ (cpc'[c] = "end" /\ DOMAIN pending[c] = {})
        /\ \A d \in Conns \ {c} : cpc'[d] = cpc[d]
    BY <1>1, <2>1
  <2> QED
    BY <1>0, <2>1, <2>2 DEF Lifetime
<1>7. ASSUME NEW c \in Conns, NEW k \in Keys, CloseSends(c, k) PROVE Lifetime'
  BY <1>0, <1>1, <1>7 DEF CloseSends, Call, Lifetime
<1>8. ASSUME NEW c \in Conns, NEW k \in Keys, CloseRecycles(c, k) PROVE Lifetime'
  <2>1. Delete(c, k) /\ cpc[c] = "close" /\ UNCHANGED <<cpc, spc, key, acked, given>>
    BY <1>8 DEF CloseRecycles
  <2>2. /\ \A d \in Conns \ {c} : pending'[d] = pending[d]
        /\ DOMAIN pending'[c] = DOMAIN pending[c] \ {k}
    BY <1>0, <2>1, DeleteDoes
  <2>3. spc[c] = "off"
    BY <1>0, <1>1, <2>1 DEF Lifetime
  <2>4. ASSUME NEW d \in Conns, d # c PROVE Keeps(d)'
    BY <1>0, <2>1, <2>2, <2>4 DEF Lifetime
  <2>5. \A j \in DOMAIN pending'[c] : acked'[c][j] # <<>>
    BY <1>0, <2>1, <2>2 DEF Lifetime
  <2>6. /\ \A d \in Conns : spc'[d] # "off" => cpc'[d] = "send"
        /\ \A s \in Sends : given'[s] = None => spc'[s] = "off"
    BY <1>0, <2>1 DEF Lifetime
  <2>7. cpc'[c] = "close"
    BY <2>1
  <2> QED
    BY <2>4, <2>5, <2>6, <2>7 DEF Lifetime
<1>9. ASSUME NEW c \in Conns, ClosePutsAgain(c) PROVE Lifetime'
  <2>1. /\ Delete(c, key[c]) /\ cpc[c] = "send" /\ spc[c] = "off" /\ cpc' = [cpc EXCEPT ![c] = "close"]
        /\ UNCHANGED <<spc, key, acked, given>>
    BY <1>9 DEF ClosePutsAgain
  <2>2. /\ \A d \in Conns \ {c} : pending'[d] = pending[d]
        /\ DOMAIN pending'[c] = DOMAIN pending[c] \ {key[c]}
    BY <1>0, <2>1, DeleteDoes
  <2>3. cpc'[c] = "close" /\ \A d \in Conns \ {c} : cpc'[d] = cpc[d]
    BY <1>1, <2>1
  <2>4. ASSUME NEW d \in Conns, d # c PROVE Keeps(d)'
    BY <1>0, <2>1, <2>2, <2>3, <2>4 DEF Lifetime
  <2>5. \A j \in DOMAIN pending'[c] : acked'[c][j] # <<>>
    BY <1>0, <2>1, <2>2 DEF Lifetime
  <2>6. /\ \A d \in Conns : spc'[d] # "off" => cpc'[d] = "send"
        /\ \A s \in Sends : given'[s] = None => spc'[s] = "off"
    BY <1>0, <2>1, <2>3 DEF Lifetime
  <2> QED
    BY <2>3, <2>4, <2>5, <2>6 DEF Lifetime
<1>10. ASSUME NEW c \in Conns, NEW k \in Keys, Expire(c, k) PROVE Lifetime'
  <2>1. PICK h \in Available, s \in Sends : Call(s, k, h, acked[c][k])
    BY <1>10 DEF Expire
  <2>2. acked[c][k] # None
    BY <1>0, <1>10 DEF Expire, Lifetime, None
  <2>3. UNCHANGED <<cpc, pending, acked>>
    BY <1>10 DEF Expire
  <2> QED
    BY <1>0, <1>1, <2>1, <2>2, <2>3 DEF Call, Lifetime
<1>11. ASSUME NEW c \in Conns, NEW k \in Keys, NEW i \in Items, Hmset(c, k, i) PROVE Lifetime'
  <2>1. cpc[c] = "read" /\ UNCHANGED <<cpc, spc, key, given>>
    BY <1>11 DEF Hmset
  <2>2. \A j \in DOMAIN pending[c] : j \in Keys
    BY <1>1, MapFacts
  <2>3. /\ \A d \in Conns \ {c} : pending'[d] = pending[d] /\ acked'[d] = acked[d]
        /\ DOMAIN pending'[c] = DOMAIN pending[c] \cup {k}
        /\ \A j \in Keys \ {k} : acked'[c][j] = acked[c][j]
        /\ acked'[c][k] # <<>>
    BY <1>11, HmsetMap
  <2>4. ASSUME NEW d \in Conns, d # c PROVE Keeps(d)'
    BY <1>0, <2>1, <2>3, <2>4 DEF Lifetime
  <2>5. /\ \A j \in DOMAIN pending'[c] : acked'[c][j] # <<>>
        /\ \A j \in Keys : acked'[c][j] # <<>> => j \in DOMAIN pending'[c]
    BY <1>0, <2>1, <2>2, <2>3 DEF Lifetime
  <2>6. /\ \A d \in Conns : spc'[d] # "off" => cpc'[d] = "send"
        /\ \A s \in Sends : given'[s] = None => spc'[s] = "off"
    BY <1>0, <2>1 DEF Lifetime
  <2>7. cpc'[c] = "read"
    BY <2>1
  <2> QED
    BY <2>4, <2>5, <2>6, <2>7 DEF Lifetime
<1>12. ASSUME NEW c \in Conns, NEW k \in Keys, NEW w, Hget(c, k, w) PROVE Lifetime'
  BY <1>0, <1>1, <1>12, ZenonT(30) DEF Hget, Lifetime
<1>13. ASSUME NEW p \in Procs, Send(p) PROVE Lifetime'
  <2>1. spc[p] # "off" /\ spc' = [spc EXCEPT ![p] = spc'[p]]
    BY <1>1, <1>13 DEF Send, SendStart, Post, Failed, SendEnd
  <2>2. UNCHANGED <<cpc, key, acked, given, pending>>
    BY <1>13 DEF Send, SendStart, Post, SendEnd
  <2>3. ASSUME NEW c \in Conns PROVE Keeps(c)'
    BY <1>0, <2>2 DEF Lifetime
  <2>4. \A q \in Procs : spc'[q] # "off" => spc[q] # "off"
    BY <1>1, <2>1
  <2> QED
    BY <1>0, <1>1, <2>2, <2>3, <2>4 DEF Lifetime
<1>14. ASSUME (\E new \in Configs : Reload(new)) \/ Exit \/ ExitChecks PROVE Lifetime'
  BY <1>0, <1>14 DEF Reload, Exit, ExitChecks, Lifetime
<1> QED
  BY <1>3, <1>4, <1>5, <1>6, <1>7, <1>8, <1>9, <1>10, <1>11, <1>12, <1>13, <1>14 DEF Next, Connection, Closing

-----------------------------------------------------------------------------
(* The steps that move no Hmset.                                           *)
Quiet ==
    \/ \E c \in Conns : Accept(c) \/ Close(c) \/ ClosePutsMap(c) \/ (Fetch(c) /\ NotFetched(c, at[c][1]))
    \/ \E c \in Conns, k \in Keys, w \in Names \cup {"all"} : Hget(c, k, w)
    \/ \E p \in Procs : SendStart(p) \/ Post(p)
    \/ (\E new \in Configs : Reload(new)) \/ Exit \/ ExitChecks
LEMMA QuietMoves ==
    ASSUME IndInv, Quiet
    PROVE  /\ UNCHANGED <<heap, hmsetPool, pending, got, key, hmset, acked, handed, given, doubled, tainted>>
           /\ \A c \in Conns : cpc'[c] = "send" <=> cpc[c] = "send"
<1>0. /\ cpc \in [Conns -> {"new", "read", "fetch", "answer", "close", "send", "end"}]
      /\ pending \in [Conns -> Maps] /\ pendingPool \subseteq {EmptyMap}
      /\ \A c \in Conns : cpc[c] = "new" => pending[c] = EmptyMap
  BY DEF IndInv, Types, ConnTypes, HeapTypes, Lifetime, Keeps
<1> USE DEF hmsets, history, sending, reading, Goto
<1> DEFINE Still == /\ UNCHANGED <<heap, hmsetPool, pending, got, key, hmset, acked, handed, given, doubled, tainted>>
                    /\ \A c \in Conns : cpc'[c] = "send" <=> cpc[c] = "send"
<1>1. ASSUME NEW c \in Conns, Accept(c) PROVE Still
  <2>1. pending' = pending
    BY <1>0, <1>1 DEF Accept
  <2> QED
    BY <1>0, <1>1, <2>1 DEF Accept
<1>2. ASSUME NEW c \in Conns, Close(c) \/ ClosePutsMap(c) PROVE Still
  BY <1>0, <1>2 DEF Close, ClosePutsMap
<1>3. ASSUME NEW c \in Conns, Fetch(c), NotFetched(c, at[c][1]) PROVE Still
  BY <1>0, <1>3 DEF Fetch, NotFetched
<1>4. ASSUME NEW c \in Conns, NEW k \in Keys, NEW w \in Names \cup {"all"}, Hget(c, k, w) PROVE Still
  BY <1>0, <1>4 DEF Hget
<1>5. ASSUME NEW p \in Procs, SendStart(p) \/ Post(p) PROVE Still
  BY <1>5 DEF SendStart, Post
<1>6. ASSUME (\E new \in Configs : Reload(new)) \/ Exit \/ ExitChecks PROVE Still
  BY <1>6 DEF Reload, Exit, ExitChecks
<1> QED
  BY <1>1, <1>2, <1>3, <1>4, <1>5, <1>6 DEF Quiet

(* The places of an Hmset: a step that adds none, and steps after which it *)
(* has one.                                                                *)
NoPlaceAdded(h) ==
    /\ hmsetPool'[h] <= hmsetPool[h]
    /\ \A c \in Conns : \A k \in Keys : Pend(c, k, h)' => Pend(c, k, h)
    /\ \A c \in Conns : got'[c] = h => got[c] = h
    /\ \A p \in Procs : hmset'[p] = h => hmset[p] = h
LEMMA PlacesShrink ==
    ASSUME NEW h \in Hmsets, hmsetPool[h] \in Nat, hmsetPool'[h] \in Nat, InOnePlace(h), NoPlaceAdded(h)
    PROVE  InOnePlace(h)'
<1> USE DEF NoPlaceAdded
<1>1. (Pends(h)' => Pends(h)) /\ (Gets(h)' => Gets(h)) /\ (Posts(h)' => Posts(h))
  BY DEF Pends, Gets, Posts
<1>2. hmsetPool'[h] <= 1 /\ (hmsetPool'[h] > 0 => hmsetPool[h] > 0)
  BY DEF InOnePlace
<1>3. \A c, d \in Conns : \A k, j \in Keys : Pend(c, k, h)' /\ Pend(d, j, h)' => c = d /\ k = j
  BY DEF InOnePlace
<1>4. /\ \A c, d \in Conns : got'[c] = h /\ got'[d] = h => c = d
      /\ \A p, q \in Procs : hmset'[p] = h /\ hmset'[q] = h => p = q
  BY DEF InOnePlace
<1> QED
  BY <1>1, <1>2, <1>3, <1>4 DEF InOnePlace
LEMMA PlacedPending ==
    ASSUME NEW h \in Hmsets, hmsetPool'[h] = 0, ~Gets(h)', ~Posts(h)', NEW c \in Conns, NEW k \in Keys,
           \A d \in Conns : \A j \in Keys : Pend(d, j, h)' => d = c /\ j = k
    PROVE  InOnePlace(h)'
  BY DEF InOnePlace, Gets, Posts
LEMMA PlacedRead ==
    ASSUME NEW h \in Hmsets, hmsetPool'[h] = 0, ~Pends(h)', ~Posts(h)', NEW c \in Conns, \A d \in Conns : got'[d] = h => d = c
    PROVE  InOnePlace(h)'
  BY DEF InOnePlace, Pends, Posts
LEMMA PlacedSent ==
    ASSUME NEW h \in Hmsets, hmsetPool'[h] = 0, ~Pends(h)', ~Gets(h)', NEW p \in Procs, \A q \in Procs : hmset'[q] = h => q = p
    PROVE  InOnePlace(h)'
  BY DEF InOnePlace, Pends, Gets
LEMMA PlacedPool ==
    ASSUME NEW h \in Hmsets, hmsetPool'[h] \in {0, 1}, ~Pends(h)', ~Gets(h)', ~Posts(h)'
    PROVE  InOnePlace(h)'
  BY DEF InOnePlace, Pends, Gets, Posts

(* Every step leaves an Hmset that was not put twice in one place.         *)
LEMMA OnePlaceStep == ASSUME IndInv, Next PROVE OnePlaceEach'
<1>0. HeapTypes /\ ConnTypes /\ SendTypes /\ Types /\ OnePlaceEach /\ Lifetime
  BY DEF IndInv, Types
<1>1. /\ cpc \in [Conns -> {"new", "read", "fetch", "answer", "close", "send", "end"}]
      /\ pending \in [Conns -> Maps] /\ got \in [Conns -> Hmsets \cup {Nobody}]
      /\ hmset \in [Procs -> Hmsets \cup {Nobody}] /\ key = [p \in Procs |-> key[p]]
      /\ hmsetPool \in [Hmsets -> Nat] /\ Nobody \notin Hmsets
      /\ \A c \in Conns : c \in Procs /\ c \notin Sends
      /\ \A s \in Sends : s \in Procs
  BY <1>0, KvAssumption DEF HeapTypes, ConnTypes, SendTypes, Procs, Hmsets, Nobody
<1>2. \A c \in Conns : DOMAIN pending[c] \subseteq Keys /\ \A k \in DOMAIN pending[c] : pending[c][k] \in Hmsets
  BY <1>1, MapFacts
<1>h. hmsetPool' \in [Hmsets -> Nat]
  BY HeapTypeStep DEF HeapTypes
<1>o. \A h \in Hmsets \ doubled : InOnePlace(h)
  BY <1>0 DEF OnePlaceEach
<1>s. ASSUME NEW h \in Hmsets \ doubled, NoPlaceAdded(h) PROVE InOnePlace(h)'
  BY <1>1, <1>h, <1>o, <1>s, PlacesShrink
<1>t. ASSUME NEW h \in Available
      PROVE  /\ h \in Hmsets /\ \A g \in Hmsets : Taken(h)[g] <= hmsetPool[g]
             /\ h \notin doubled => ~Pends(h) /\ ~Gets(h) /\ ~Posts(h) /\ Taken(h)[h] = 0
  BY <1>0, AvailableFree
<1>p. ASSUME NEW h \in Hmsets, Put(h)
      PROVE  hmsetPool'[h] = hmsetPool[h] + 1 /\ \A g \in Hmsets \ {h} : hmsetPool'[g] = hmsetPool[g]
  BY <1>1, <1>p DEF Put
<1>q. ASSUME NEW h \in Hmsets \ doubled, Pends(h) \/ Gets(h) \/ Posts(h), hmsetPool[h] > 0 PROVE FALSE
  BY <1>o, <1>q DEF InOnePlace
<1>3. ASSUME Quiet PROVE OnePlaceEach'
  <2>1. /\ UNCHANGED <<hmsetPool, pending, got, key, hmset, doubled>>
        /\ \A c \in Conns : cpc'[c] = "send" <=> cpc[c] = "send"
    BY <1>3, QuietMoves
  <2>2. \A h \in Hmsets : NoPlaceAdded(h)
    BY <1>1, <2>1 DEF NoPlaceAdded, Pend, Sending
  <2> QED
    BY <1>s, <2>1, <2>2 DEF OnePlaceEach
<1> USE DEF hmsets, sending, history, reading, Goto, Step
<1>4. ASSUME NEW c \in Conns, Fetch(c), Fetched(c, at[c][1]) PROVE OnePlaceEach'
  <2>1. UNCHANGED <<pending, key, hmset, doubled>> /\ cpc[c] = "fetch" /\ cpc' = [cpc EXCEPT ![c] = "answer"]
    BY <1>4 DEF Fetch, Fetched
  <2>2. PICK h \in Available : hmsetPool' = Taken(h) /\ got' = [got EXCEPT ![c] = h]
    BY <1>4 DEF Fetched
  <2>3. /\ \A d \in Conns, k \in Keys : \A g \in Hmsets : Pend(d, k, g)' => Pend(d, k, g)
        /\ \A d \in Conns \ {c} : got'[d] = got[d]
        /\ got'[c] = h
    BY <1>1, <2>1, <2>2 DEF Pend, Sending
  <2>4. ASSUME NEW g \in Hmsets \ doubled, g # h PROVE InOnePlace(g)'
    <3>1. NoPlaceAdded(g)
      BY <1>t, <2>1, <2>2, <2>3, <2>4 DEF NoPlaceAdded
    <3> QED
      BY <1>s, <3>1
  <2>5. ASSUME h \notin doubled PROVE InOnePlace(h)'
    <3>1. ~Pends(h)' /\ ~Posts(h)' /\ hmsetPool'[h] = 0 /\ \A d \in Conns : got'[d] = h => d = c
      BY <1>t, <2>1, <2>2, <2>3, <2>5 DEF Pends, Posts, Gets
    <3> QED
      BY <1>t, <3>1, PlacedRead
  <2> QED
    BY <2>1, <2>4, <2>5 DEF OnePlaceEach
<1>5. ASSUME NEW c \in Conns, Answer(c) PROVE OnePlaceEach'
  <2>0. PICK h \in Hmsets : h = got[c]
    BY <1>0, <1>1, <1>5 DEF Answer, ConnTypes
  <2>1. /\ UNCHANGED <<pending, key, hmset, doubled>> /\ cpc[c] = "answer" /\ cpc' = [cpc EXCEPT ![c] = "read"]
        /\ got' = [got EXCEPT ![c] = Nobody] /\ Put(h)
    BY <1>5, <2>0 DEF Answer
  <2>2. h \in Hmsets /\ Gets(h) /\ got[c] = h
    BY <2>0 DEF Gets
  <2>3. /\ \A d \in Conns, k \in Keys : \A g \in Hmsets : Pend(d, k, g)' => Pend(d, k, g)
        /\ \A d \in Conns : \A g \in Hmsets : got'[d] = g => got[d] = g /\ d # c
    BY <1>1, <2>1 DEF Pend, Sending
  <2>4. ASSUME NEW g \in Hmsets \ doubled, g # h PROVE InOnePlace(g)'
    <3>1. NoPlaceAdded(g)
      BY <1>1, <1>p, <2>1, <2>2, <2>3, <2>4 DEF NoPlaceAdded
    <3> QED
      BY <1>s, <3>1
  <2>5. ASSUME h \notin doubled PROVE InOnePlace(h)'
    <3>1. InOnePlace(h)
      BY <1>o, <2>2, <2>5
    <3>2. ~Pends(h) /\ ~Posts(h) /\ \A d \in Conns : got[d] = h => d = c
      BY <2>2, <3>1 DEF InOnePlace
    <3>3. hmsetPool'[h] = 1
      BY <1>1, <1>p, <1>q, <2>1, <2>2, <2>5
    <3>4. ~Pends(h)' /\ ~Gets(h)' /\ ~Posts(h)'
      BY <2>1, <2>2, <2>3, <3>2 DEF Pends, Gets, Posts
    <3> QED
      BY <2>2, <3>3, <3>4, PlacedPool
  <2> QED
    BY <2>1, <2>4, <2>5 DEF OnePlaceEach
<1>6. ASSUME NEW p \in Procs, SendEnd(p) PROVE OnePlaceEach'
  <2>0. PICK h \in Hmsets : h = hmset[p]
    BY <1>0, <1>1, <1>6 DEF SendEnd, SendTypes
  <2>1. /\ UNCHANGED <<pending, key, got, cpc, doubled>> /\ spc[p] = "undo"
        /\ hmset' = [hmset EXCEPT ![p] = Nobody] /\ Put(h)
    BY <1>6, <2>0 DEF SendEnd
  <2>2. h \in Hmsets /\ Posts(h) /\ hmset[p] = h
    BY <2>0 DEF Posts
  <2>3. /\ \A d \in Conns, k \in Keys : \A g \in Hmsets : Pend(d, k, g)' => Pend(d, k, g)
        /\ \A q \in Procs : \A g \in Hmsets : hmset'[q] = g => hmset[q] = g /\ q # p
    BY <1>1, <2>1 DEF Pend, Sending
  <2>4. ASSUME NEW g \in Hmsets \ doubled, g # h PROVE InOnePlace(g)'
    <3>1. NoPlaceAdded(g)
      BY <1>1, <1>p, <2>1, <2>2, <2>3, <2>4 DEF NoPlaceAdded
    <3> QED
      BY <1>s, <3>1
  <2>5. ASSUME h \notin doubled PROVE InOnePlace(h)'
    <3>1. InOnePlace(h)
      BY <1>o, <2>2, <2>5
    <3>2. ~Pends(h) /\ ~Gets(h) /\ \A q \in Procs : hmset[q] = h => q = p
      BY <2>2, <3>1 DEF InOnePlace
    <3>3. hmsetPool'[h] = 1
      BY <1>1, <1>p, <1>q, <2>1, <2>2, <2>5
    <3>4. ~Pends(h)' /\ ~Gets(h)' /\ ~Posts(h)'
      BY <2>1, <2>2, <2>3, <3>2 DEF Pends, Gets, Posts
    <3> QED
      BY <2>2, <3>3, <3>4, PlacedPool
  <2> QED
    BY <2>1, <2>4, <2>5 DEF OnePlaceEach
<1>7. ASSUME NEW c \in Conns, NEW k \in Keys, Expire(c, k) PROVE OnePlaceEach'
  <2>1. UNCHANGED <<pending, got, cpc, doubled>>
    BY <1>7 DEF Expire
  <2>2. PICK h \in Available, s \in Sends : hmsetPool' = Taken(h) /\ Fresh(s) /\ Call(s, k, h, acked[c][k])
    BY <1>7 DEF Expire
  <2>3. /\ \A d \in Conns : key'[d] = key[d]
        /\ hmset'[s] = h /\ \A q \in Procs \ {s} : hmset'[q] = hmset[q]
    BY <1>1, <2>2 DEF Call
  <2>4. \A d \in Conns, j \in Keys : \A g \in Hmsets : Pend(d, j, g)' => Pend(d, j, g)
    BY <2>1, <2>3 DEF Pend, Sending
  <2>5. ASSUME NEW g \in Hmsets \ doubled, g # h PROVE InOnePlace(g)'
    <3>1. NoPlaceAdded(g)
      BY <1>1, <1>t, <2>1, <2>2, <2>3, <2>4, <2>5 DEF NoPlaceAdded
    <3> QED
      BY <1>s, <3>1
  <2>6. ASSUME h \notin doubled PROVE InOnePlace(h)'
    <3>1. ~Pends(h)' /\ ~Gets(h)' /\ hmsetPool'[h] = 0 /\ \A q \in Procs : hmset'[q] = h => q = s
      BY <1>t, <2>1, <2>2, <2>3, <2>4, <2>6 DEF Pends, Posts, Gets
    <3> QED
      BY <1>1, <1>t, <3>1, PlacedSent
  <2> QED
    BY <2>1, <2>5, <2>6 DEF OnePlaceEach
<1>8. ASSUME NEW c \in Conns, NEW k \in Keys, CloseSends(c, k) PROVE OnePlaceEach'
  <2>0. PICK h \in Hmsets : h = pending[c][k]
    BY <1>2, <1>8 DEF CloseSends
  <2>1. /\ UNCHANGED <<pending, got, hmsetPool, doubled>> /\ cpc[c] = "close" /\ k \in DOMAIN pending[c]
        /\ cpc' = [cpc EXCEPT ![c] = "send"] /\ Call(c, k, h, acked[c][k])
    BY <1>8, <2>0 DEF CloseSends
  <2>2. h \in Hmsets /\ Pends(h) /\ Pend(c, k, h)
    BY <2>0, <2>1 DEF Pends, Pend, Sending
  <2>3. /\ key'[c] = k /\ \A d \in Conns \ {c} : key'[d] = key[d]
        /\ hmset'[c] = h /\ \A q \in Procs \ {c} : hmset'[q] = hmset[q]
    BY <1>1, <2>1 DEF Call
  <2>4. \A d \in Conns, j \in Keys : \A g \in Hmsets : Pend(d, j, g)' => Pend(d, j, g) /\ ~(d = c /\ j = k)
    BY <1>1, <2>1, <2>3 DEF Pend, Sending
  <2>5. ASSUME NEW g \in Hmsets \ doubled, g # h PROVE InOnePlace(g)'
    <3>1. NoPlaceAdded(g)
      BY <1>1, <2>1, <2>3, <2>4, <2>5 DEF NoPlaceAdded
    <3> QED
      BY <1>s, <3>1
  <2>6. ASSUME h \notin doubled PROVE InOnePlace(h)'
    <3>1. InOnePlace(h)
      BY <1>o, <2>2, <2>6
    <3>2. ~Gets(h) /\ ~Posts(h) /\ \A d \in Conns : \A j \in Keys : Pend(d, j, h) => d = c /\ j = k
      BY <2>2, <3>1 DEF InOnePlace
    <3>3. hmsetPool'[h] = 0
      BY <1>1, <1>q, <2>1, <2>2, <2>6
    <3>4. ~Pends(h)' /\ ~Gets(h)' /\ \A q \in Procs : hmset'[q] = h => q = c
      BY <2>1, <2>2, <2>3, <2>4, <3>2 DEF Pends, Gets, Posts
    <3> QED
      BY <1>1, <2>2, <3>3, <3>4, PlacedSent
  <2> QED
    BY <2>1, <2>5, <2>6 DEF OnePlaceEach
<1>9. ASSUME NEW c \in Conns, NEW k \in Keys, CloseRecycles(c, k) PROVE OnePlaceEach'
  <2>0. PICK h \in Hmsets : h = pending[c][k]
    BY <1>2, <1>9 DEF CloseRecycles
  <2>1. /\ UNCHANGED <<cpc, key, got, hmset, doubled>> /\ cpc[c] = "close" /\ k \in DOMAIN pending[c]
        /\ Delete(c, k) /\ Put(h)
    BY <1>9, <2>0 DEF CloseRecycles
  <2>2. h \in Hmsets /\ Pends(h) /\ Pend(c, k, h)
    BY <2>0, <2>1 DEF Pends, Pend, Sending
  <2>3. /\ \A d \in Conns \ {c} : pending'[d] = pending[d]
        /\ DOMAIN pending'[c] = DOMAIN pending[c] \ {k}
        /\ \A j \in DOMAIN pending[c] \ {k} : pending'[c][j] = pending[c][j]
    BY <1>0, <2>1, DeleteDoes
  <2>4. \A d \in Conns, j \in Keys : \A g \in Hmsets : Pend(d, j, g)' => Pend(d, j, g) /\ ~(d = c /\ j = k)
    BY <2>1, <2>3 DEF Pend, Sending
  <2>5. ASSUME NEW g \in Hmsets \ doubled, g # h PROVE InOnePlace(g)'
    <3>1. NoPlaceAdded(g)
      BY <1>1, <1>p, <2>1, <2>2, <2>4, <2>5 DEF NoPlaceAdded
    <3> QED
      BY <1>s, <3>1
  <2>6. ASSUME h \notin doubled PROVE InOnePlace(h)'
    <3>1. InOnePlace(h)
      BY <1>o, <2>2, <2>6
    <3>2. ~Gets(h) /\ ~Posts(h) /\ \A d \in Conns : \A j \in Keys : Pend(d, j, h) => d = c /\ j = k
      BY <2>2, <3>1 DEF InOnePlace
    <3>3. hmsetPool'[h] = 1
      BY <1>1, <1>p, <1>q, <2>1, <2>2, <2>6
    <3>4. ~Pends(h)' /\ ~Gets(h)' /\ ~Posts(h)'
      BY <2>1, <2>2, <2>4, <3>2 DEF Pends, Gets, Posts
    <3> QED
      BY <2>2, <3>3, <3>4, PlacedPool
  <2> QED
    BY <2>1, <2>5, <2>6 DEF OnePlaceEach
<1>10. ASSUME NEW c \in Conns, ClosePutsAgain(c) PROVE OnePlaceEach'
  <2> DEFINE h == pending[c][key[c]]
  <2>1. /\ UNCHANGED <<key, got, hmset>> /\ cpc[c] = "send" /\ Delete(c, key[c]) /\ Put(h)
        /\ cpc' = [cpc EXCEPT ![c] = "close"] /\ doubled' = doubled \cup {h}
    BY <1>10 DEF ClosePutsAgain
  <2>2. key[c] \in DOMAIN pending[c] /\ h \in Hmsets
    BY <1>0, <1>2, <2>1 DEF Lifetime, Keeps
  <2>3. /\ \A d \in Conns \ {c} : pending'[d] = pending[d]
        /\ DOMAIN pending'[c] = DOMAIN pending[c] \ {key[c]}
        /\ \A j \in DOMAIN pending[c] \ {key[c]} : pending'[c][j] = pending[c][j]
    BY <1>0, <2>1, DeleteDoes
  <2>4. \A d \in Conns, j \in Keys : \A g \in Hmsets : Pend(d, j, g)' => Pend(d, j, g)
    BY <1>1, <2>1, <2>3 DEF Pend, Sending
  <2>5. ASSUME NEW g \in Hmsets \ doubled' PROVE InOnePlace(g)'
    <3>1. g # h /\ g \in Hmsets \ doubled
      BY <2>1
    <3>2. NoPlaceAdded(g)
      BY <1>1, <1>p, <2>1, <2>2, <2>4, <3>1 DEF NoPlaceAdded
    <3> QED
      BY <1>s, <3>1, <3>2
  <2> QED
    BY <2>5 DEF OnePlaceEach
<1>11. ASSUME NEW c \in Conns, NEW k \in Keys, NEW i \in Items, Hmset(c, k, i) PROVE OnePlaceEach'
  <2>1. UNCHANGED <<cpc, key, got, hmset, doubled>> /\ cpc[c] = "read"
    BY <1>11 DEF Hmset
  <2>2. CASE UNCHANGED <<hmsetPool, pending>>
    <3>1. \A g \in Hmsets : NoPlaceAdded(g)
      BY <1>1, <2>1, <2>2 DEF NoPlaceAdded, Pend, Sending
    <3> QED
      BY <1>s, <2>1, <3>1 DEF OnePlaceEach
  <2>3. ASSUME k \notin DOMAIN pending[c], NEW h \in Available, hmsetPool' = Taken(h),
               pending' = [pending EXCEPT ![c] = [j \in DOMAIN @ \cup {k} |-> IF j = k THEN h ELSE @[j]]]
        PROVE  OnePlaceEach'
    <3>1. /\ pending'[c] = [j \in DOMAIN pending[c] \cup {k} |-> IF j = k THEN h ELSE pending[c][j]]
          /\ \A d \in Conns \ {c} : pending'[d] = pending[d]
      BY <1>1, <2>3
    <3>2. \A d \in Conns, j \in Keys : \A g \in Hmsets : Pend(d, j, g)' => (Pend(d, j, g) \/ (d = c /\ j = k /\ g = h))
      BY <2>1, <3>1 DEF Pend, Sending
    <3>3. ASSUME NEW g \in Hmsets \ doubled, g # h PROVE InOnePlace(g)'
      <4>1. NoPlaceAdded(g)
        BY <1>1, <1>t, <2>1, <2>3, <3>2, <3>3 DEF NoPlaceAdded
      <4> QED
        BY <1>s, <4>1
    <3>4. ASSUME h \notin doubled PROVE InOnePlace(h)'
      <4>1. ~Pends(h) /\ ~Gets(h) /\ ~Posts(h) /\ hmsetPool'[h] = 0 /\ h \in Hmsets
        BY <1>t, <2>3, <3>4
      <4>2. ~Gets(h)' /\ ~Posts(h)' /\ \A d \in Conns : \A j \in Keys : Pend(d, j, h)' => d = c /\ j = k
        BY <2>1, <3>2, <4>1 DEF Pends, Posts, Gets
      <4> QED
        BY <4>1, <4>2, PlacedPending
    <3> QED
      BY <2>1, <3>3, <3>4 DEF OnePlaceEach
  <2> QED
    BY <1>11, <2>2, <2>3 DEF Hmset
<1> QED
  BY <1>3, <1>4, <1>5, <1>6, <1>7, <1>8, <1>9, <1>10, <1>11 DEF Next, Connection, Closing, Send, Quiet, Fetch

-----------------------------------------------------------------------------
(* What a connection that never held a value put twice has pending is in   *)
(* no other place, so that no step of another writes it.                   *)
LEMMA CleanPend ==
    ASSUME IndInv, NEW c \in Conns \ tainted, NEW k \in Keys, NEW h \in Hmsets, Pend(c, k, h)
    PROVE  /\ h \notin doubled /\ h \notin Available /\ ~Gets(h) /\ ~Posts(h) /\ Mirrored(c, k, h)
           /\ \A d \in Conns : \A j \in Keys : Pend(d, j, h) => d = c /\ j = k
<1>1. h \notin doubled /\ Mirrored(c, k, h)
  BY DEF IndInv, Contents, Mirrors, Mirrored
<1>2. InOnePlace(h) /\ Pends(h)
  BY <1>1 DEF IndInv, OnePlaceEach, Pends
<1>3. h \notin Available
  BY <1>1, <1>2, AvailableFree DEF IndInv
<1>4. ~Gets(h) /\ ~Posts(h)
  BY <1>2 DEF InOnePlace
<1> QED
  BY <1>1, <1>2, <1>3, <1>4 DEF InOnePlace

(* The same for the value of a send.                                       *)
LEMMA CleanPost ==
    ASSUME IndInv, NEW p \in Procs, NEW h \in Hmsets \ doubled, hmset[p] = h
    PROVE  /\ h \notin Available /\ ~Gets(h) /\ ~Pends(h)
           /\ \A q \in Procs : hmset[q] = h => q = p
<1>1. InOnePlace(h) /\ Posts(h)
  BY DEF IndInv, OnePlaceEach, Posts
<1>2. h \notin Available
  BY <1>1, AvailableFree DEF IndInv
<1> QED
  BY <1>1, <1>2 DEF InOnePlace

(* A value put twice stays so, and so does a connection that held one.     *)
LEMMA TaintStays == ASSUME Next PROVE tainted \subseteq tainted' /\ doubled \subseteq doubled'
<1> USE DEF history
<1>1. ASSUME NEW c \in Conns, Connection(c) PROVE tainted \subseteq tainted' /\ doubled \subseteq doubled'
  <2>1. ASSUME NEW k \in Keys, NEW i \in Items, Hmset(c, k, i) PROVE tainted \subseteq tainted' /\ doubled \subseteq doubled'
    BY <2>1 DEF Hmset
  <2>2. ASSUME \/ Accept(c) \/ Fetch(c) \/ Answer(c) \/ Close(c) \/ ClosePutsAgain(c) \/ ClosePutsMap(c)
               \/ \E k \in Keys : \/ CloseRecycles(c, k) \/ CloseSends(c, k) \/ Expire(c, k)
                                  \/ \E w \in Names \cup {"all"} : Hget(c, k, w)
        PROVE  tainted \subseteq tainted' /\ doubled \subseteq doubled'
    BY <2>2 DEF Accept, Fetch, Answer, Close, ClosePutsAgain, ClosePutsMap, CloseRecycles, CloseSends, Expire, Hget
  <2> QED
    BY <1>1, <2>1, <2>2 DEF Connection, Closing
<1>2. ASSUME NEW p \in Procs, Send(p) PROVE tainted \subseteq tainted' /\ doubled \subseteq doubled'
  BY <1>2 DEF Send, SendStart, Post, SendEnd
<1>3. ASSUME (\E new \in Configs : Reload(new)) \/ Exit \/ ExitChecks PROVE tainted \subseteq tainted' /\ doubled \subseteq doubled'
  BY <1>3 DEF Reload, Exit, ExitChecks
<1> QED
  BY <1>1, <1>2, <1>3 DEF Next

(* Every step leaves in the map of a connection what it was answered OK    *)
(* for.                                                                    *)
LEMMA MirrorStep == ASSUME IndInv, Next PROVE Mirrors'
<1>0. HeapTypes /\ ConnTypes /\ SendTypes /\ Types /\ OnePlaceEach /\ Lifetime /\ Apart
  BY DEF IndInv, Types, Contents
<1>1. /\ cpc \in [Conns -> {"new", "read", "fetch", "answer", "close", "send", "end"}]
      /\ pending \in [Conns -> Maps] /\ got \in [Conns -> Hmsets \cup {Nobody}]
      /\ hmset \in [Procs -> Hmsets \cup {Nobody}] /\ key = [p \in Procs |-> key[p]]
      /\ heap \in [Hmsets -> Value] /\ Nobody \notin Hmsets
      /\ acked \in [Conns -> [Keys -> Seq(Field)]] /\ handed \in [Conns -> [Keys -> Nat]]
      /\ \A c \in Conns : c \in Procs /\ c \notin Sends
      /\ \A s \in Sends : s \in Procs
  BY <1>0, KvAssumption DEF HeapTypes, ConnTypes, SendTypes, Procs, Hmsets, Nobody
<1>2. \A c \in Conns : DOMAIN pending[c] \subseteq Keys /\ \A k \in DOMAIN pending[c] : pending[c][k] \in Hmsets
  BY <1>1, MapFacts
<1>t. ASSUME NEW h \in Available PROVE h \in Hmsets
  BY <1>0, AvailableFree
<1> SUFFICES ASSUME NEW d \in Conns \ tainted', NEW j \in Keys, NEW g \in Hmsets, Pend(d, j, g)'
             PROVE  Mirrored(d, j, g)'
  BY DEF Mirrors
<1>d. d \in Conns \ tainted
  BY TaintStays
<1>k. ASSUME Pend(d, j, g), g \notin doubled', heap'[g] = heap[g], UNCHANGED <<acked, handed>> PROVE Mirrored(d, j, g)'
  BY <1>d, <1>k, CleanPend DEF Mirrored
<1>c. ASSUME Pend(d, j, g)
      PROVE  /\ g \notin doubled /\ g \notin Available /\ ~Gets(g) /\ ~Posts(g) /\ Mirrored(d, j, g)
             /\ \A e \in Conns : \A i \in Keys : Pend(e, i, g) => e = d /\ i = j
  BY <1>d, <1>c, CleanPend
<1>3. ASSUME Quiet PROVE Mirrored(d, j, g)'
  <2>1. /\ UNCHANGED <<heap, pending, key, acked, handed, doubled>>
        /\ \A c \in Conns : cpc'[c] = "send" <=> cpc[c] = "send"
    BY <1>3, QuietMoves
  <2>2. Pend(d, j, g)
    BY <2>1 DEF Pend, Sending
  <2> QED
    BY <1>c, <1>k, <2>1, <2>2
<1> USE DEF hmsets, sending, history, reading, Goto, Step
<1>4. ASSUME NEW c \in Conns, Fetch(c), Fetched(c, at[c][1]) PROVE Mirrored(d, j, g)'
  <2>1. /\ UNCHANGED <<pending, key, acked, handed, doubled>> /\ cpc[c] = "fetch" /\ cpc' = [cpc EXCEPT ![c] = "answer"]
    BY <1>4 DEF Fetch, Fetched
  <2>2. PICK h \in Available : heap' = [heap EXCEPT ![h] = heap'[h]]
    BY <1>1, <1>4, <1>t DEF Fetched
  <2>3. Pend(d, j, g)
    BY <1>1, <2>1 DEF Pend, Sending
  <2>4. g # h
    BY <1>c, <2>3
  <2> QED
    BY <1>c, <1>k, <1>1, <2>1, <2>2, <2>3, <2>4
<1>5. ASSUME NEW c \in Conns, Answer(c) PROVE Mirrored(d, j, g)'
  <2>1. /\ UNCHANGED <<pending, key, acked, handed, doubled>> /\ cpc[c] = "answer" /\ cpc' = [cpc EXCEPT ![c] = "read"]
        /\ heap' = [heap EXCEPT ![got[c]] = Blank]
    BY <1>5 DEF Answer, Put
  <2>2. Pend(d, j, g)
    BY <1>1, <2>1 DEF Pend, Sending
  <2>3. g # got[c]
    BY <1>c, <2>2 DEF Gets
  <2> QED
    BY <1>c, <1>k, <1>1, <2>1, <2>2, <2>3
<1>6. ASSUME NEW p \in Procs, SendEnd(p) PROVE Mirrored(d, j, g)'
  <2>1. /\ UNCHANGED <<pending, key, cpc, acked, handed, doubled>>
        /\ heap' = [heap EXCEPT ![hmset[p]] = Blank]
    BY <1>6 DEF SendEnd, Put
  <2>2. Pend(d, j, g)
    BY <2>1 DEF Pend, Sending
  <2>3. g # hmset[p]
    BY <1>c, <2>2 DEF Posts
  <2> QED
    BY <1>c, <1>k, <1>1, <2>1, <2>2, <2>3
<1>7. ASSUME NEW c \in Conns, NEW k \in Keys, Expire(c, k) PROVE Mirrored(d, j, g)'
  <2>1. /\ UNCHANGED <<pending, cpc, acked, doubled>> /\ cpc[c] = "read" /\ k \in DOMAIN pending[c]
        /\ handed' = [handed EXCEPT ![c][k] = Len(acked[c][k])]
    BY <1>7 DEF Expire
  <2>2. PICK h \in Available, s \in Sends : heap' = Clone(pending[c][k], h) /\ Call(s, k, h, acked[c][k])
    BY <1>7 DEF Expire
  <2>3. \A e \in Conns : key'[e] = key[e]
    BY <1>1, <2>2 DEF Call
  <2>4. Pend(d, j, g)
    BY <2>1, <2>3 DEF Pend, Sending
  <2>5. g # h
    BY <1>c, <2>4
  <2>6. pending[c][k] \in Hmsets /\ Pend(c, k, pending[c][k])
    BY <1>2, <2>1 DEF Pend, Sending
  <2>7. CASE d = c /\ j = k
    <3>1. g = pending[c][k]
      BY <2>4, <2>7 DEF Pend
    <3>2. heap'[g].fields = heap[g].fields
      BY <1>0, <1>t, <2>2, <2>5, <3>1, HeapClones
    <3>3. handed'[d][j] = Len(acked[d][j]) /\ acked[d][j] # <<>> /\ acked[d][j] \in Seq(Field)
      <4>1. handed'[c][k] = Len(acked[c][k])
        BY <1>1, <2>1
      <4>2. acked[c][k] # <<>>
        BY <1>0, <2>1 DEF Lifetime, Keeps
      <4> QED
        BY <1>1, <2>7, <4>1, <4>2
    <3>4. handed'[d][j] > 0
      BY <3>3
    <3> QED
      BY <1>c, <2>1, <2>4, <3>2, <3>4 DEF Mirrored
  <2>8. CASE ~(d = c /\ j = k)
    <3>1. g # pending[c][k]
      BY <1>c, <2>4, <2>6, <2>8
    <3>2. heap'[g] = heap[g]
      BY <1>0, <1>t, <2>2, <2>5, <2>6, <3>1, HeapClones
    <3>3. handed'[d][j] = handed[d][j]
      BY <1>1, <2>1, <2>8
    <3> QED
      BY <1>c, <2>1, <2>4, <3>2, <3>3 DEF Mirrored
  <2> QED
    BY <2>7, <2>8
<1>8. ASSUME NEW c \in Conns, NEW k \in Keys, CloseSends(c, k) PROVE Mirrored(d, j, g)'
  <2>1. /\ UNCHANGED <<heap, pending, acked, doubled>> /\ cpc[c] = "close" /\ cpc' = [cpc EXCEPT ![c] = "send"]
        /\ Call(c, k, pending[c][k], acked[c][k]) /\ handed' = [handed EXCEPT ![c][k] = Len(acked[c][k])]
    BY <1>8 DEF CloseSends
  <2>2. key'[c] = k /\ \A e \in Conns \ {c} : key'[e] = key[e]
    BY <1>1, <2>1 DEF Call
  <2>3. Pend(d, j, g) /\ ~(d = c /\ j = k)
    BY <1>1, <2>1, <2>2 DEF Pend, Sending
  <2>4. handed'[d][j] = handed[d][j]
    BY <1>1, <2>1, <2>3
  <2> QED
    BY <1>c, <2>1, <2>3, <2>4 DEF Mirrored
<1>9. ASSUME NEW c \in Conns, NEW k \in Keys, CloseRecycles(c, k) PROVE Mirrored(d, j, g)'
  <2>1. /\ UNCHANGED <<cpc, key, acked, handed, doubled>> /\ cpc[c] = "close" /\ k \in DOMAIN pending[c]
        /\ Delete(c, k) /\ heap' = [heap EXCEPT ![pending[c][k]] = Blank]
    BY <1>9 DEF CloseRecycles, Put
  <2>2. /\ \A e \in Conns \ {c} : pending'[e] = pending[e]
        /\ DOMAIN pending'[c] = DOMAIN pending[c] \ {k}
        /\ \A i \in DOMAIN pending[c] \ {k} : pending'[c][i] = pending[c][i]
    BY <1>0, <2>1, DeleteDoes
  <2>3. Pend(d, j, g) /\ ~(d = c /\ j = k)
    BY <2>1, <2>2 DEF Pend, Sending
  <2>4. pending[c][k] \in Hmsets /\ Pend(c, k, pending[c][k])
    BY <1>2, <2>1 DEF Pend, Sending
  <2>5. g # pending[c][k]
    BY <1>c, <2>3, <2>4
  <2> QED
    BY <1>c, <1>k, <1>1, <2>1, <2>3, <2>5
<1>10. ASSUME NEW c \in Conns, ClosePutsAgain(c) PROVE Mirrored(d, j, g)'
  <2>1. /\ UNCHANGED <<key, acked, handed>> /\ cpc[c] = "send" /\ cpc' = [cpc EXCEPT ![c] = "close"]
        /\ Delete(c, key[c]) /\ heap' = [heap EXCEPT ![pending[c][key[c]]] = Blank]
        /\ doubled' = doubled \cup {pending[c][key[c]]} /\ tainted' = tainted \cup Others(c, pending[c][key[c]])
    BY <1>10 DEF ClosePutsAgain, Put
  <2>2. /\ \A e \in Conns \ {c} : pending'[e] = pending[e]
        /\ DOMAIN pending'[c] = DOMAIN pending[c] \ {key[c]}
        /\ \A i \in DOMAIN pending[c] \ {key[c]} : pending'[c][i] = pending[c][i]
    BY <1>0, <2>1, DeleteDoes
  <2>3. Pend(d, j, g) /\ j \in DOMAIN pending[d] /\ pending[d][j] = g /\ ~(d = c /\ j = key[c])
    BY <1>1, <2>1, <2>2 DEF Pend, Sending
  <2>4. g # pending[c][key[c]]
    <3>1. CASE d = c
      BY <1>0, <1>d, <2>1, <2>3, <3>1 DEF Apart
    <3>2. CASE d # c
      BY <2>1, <2>3, <3>2 DEF Others
    <3> QED
      BY <3>1, <3>2
  <2> QED
    BY <1>c, <1>k, <1>1, <2>1, <2>3, <2>4
<1>11. ASSUME NEW c \in Conns, NEW k \in Keys, NEW i \in Items, Hmset(c, k, i) PROVE Mirrored(d, j, g)'
  <2> DEFINE f == Fields(c, k, i)
  <2>1. UNCHANGED <<cpc, key, handed, doubled>> /\ cpc[c] = "read"
    BY <1>11 DEF Hmset
  <2>2. /\ \A e \in Conns \ {c} : acked'[e] = acked[e]
        /\ \A n \in Keys \ {k} : acked'[c][n] = acked[c][n]
        /\ acked'[c][k] = acked[c][k] \o f /\ f \in Seq(Field)
    BY <1>11, HmsetMap
  <2>3. ~(d = c /\ j = k) => acked'[d][j] = acked[d][j]
    BY <2>2
  <2>4. CASE /\ k \in DOMAIN pending[c] /\ heap' = [heap EXCEPT ![pending[c][k]].fields = @ \o f]
             /\ UNCHANGED <<hmsetPool, pending, tainted>>
    <3>1. pending[c][k] \in Hmsets /\ Pend(c, k, pending[c][k])
      BY <1>2, <2>1, <2>4 DEF Pend, Sending
    <3>2. Pend(d, j, g)
      BY <2>1, <2>4 DEF Pend, Sending
    <3> HIDE DEF f
    <3>3. /\ \A h \in Hmsets \ {pending[c][k]} : heap'[h] = heap[h]
          /\ heap'[pending[c][k]].fields = heap[pending[c][k]].fields \o f
          /\ heap'[pending[c][k]].sent = heap[pending[c][k]].sent
      BY <1>0, <2>2, <2>4, <3>1, HeapAppends
    <3>4. CASE d = c /\ j = k
      <4>1. g = pending[c][k]
        BY <3>2, <3>4 DEF Pend
      <4> QED
        BY <1>c, <2>1, <2>2, <3>2, <3>3, <3>4, <4>1 DEF Mirrored
    <3>5. CASE ~(d = c /\ j = k)
      <4>1. g # pending[c][k]
        BY <1>c, <3>1, <3>2, <3>5
      <4> QED
        BY <1>c, <2>1, <2>3, <3>2, <3>3, <3>5, <4>1 DEF Mirrored
    <3> QED
      BY <3>4, <3>5
  <2>5. ASSUME k \notin DOMAIN pending[c], NEW h \in Available, heap' = [heap EXCEPT ![h] = [Blank EXCEPT !.fields = f]],
               pending' = [pending EXCEPT ![c] = [n \in DOMAIN @ \cup {k} |-> IF n = k THEN h ELSE @[n]]],
               tainted' = IF h \in doubled THEN tainted \cup {c} ELSE tainted
        PROVE  Mirrored(d, j, g)'
    <3>1. /\ pending'[c] = [n \in DOMAIN pending[c] \cup {k} |-> IF n = k THEN h ELSE pending[c][n]]
          /\ \A e \in Conns \ {c} : pending'[e] = pending[e]
      BY <1>1, <2>5
    <3>2. heap'[h].fields = f /\ heap'[h].sent = FALSE /\ \A n \in Hmsets \ {h} : heap'[n] = heap[n]
      BY <1>1, <1>t, <2>5 DEF Blank
    <3> HIDE DEF f
    <3>3. CASE d = c /\ j = k
      <4>1. g = h
        BY <3>1, <3>3 DEF Pend
      <4>2. g \notin doubled
        BY <2>5, <3>3, <4>1
      <4>3. acked[c][k] = <<>>
        BY <1>0, <2>1, <2>5 DEF Lifetime, Keeps
      <4>4. acked'[c][k] = f
        BY <2>2, <4>3
      <4> QED
        BY <2>1, <3>2, <3>3, <4>1, <4>2, <4>4 DEF Mirrored
    <3>4. CASE ~(d = c /\ j = k)
      <4>1. Pend(d, j, g)
        BY <2>1, <3>1, <3>4 DEF Pend, Sending
      <4>2. g # h
        BY <1>c, <4>1
      <4> QED
        BY <1>c, <2>1, <2>3, <3>2, <3>4, <4>1, <4>2 DEF Mirrored
    <3> QED
      BY <3>3, <3>4
  <2> QED
    BY <1>11, <2>4, <2>5 DEF Hmset
<1> QED
  BY <1>3, <1>4, <1>5, <1>6, <1>7, <1>8, <1>9, <1>10, <1>11 DEF Next, Connection, Closing, Send, Quiet, Fetch

(* While it sends one of its values, a connection has it under one key;    *)
(* what it has in its map no longer, or is sending, was given to a send.   *)
LEMMA HandStep == ASSUME IndInv, Next PROVE Apart' /\ HandedOver'
<1>0. HeapTypes /\ ConnTypes /\ SendTypes /\ Types /\ Lifetime /\ Apart /\ HandedOver
  BY DEF IndInv, Types, Contents
<1>1. /\ cpc \in [Conns -> {"new", "read", "fetch", "answer", "close", "send", "end"}]
      /\ pending \in [Conns -> Maps] /\ key = [p \in Procs |-> key[p]]
      /\ acked \in [Conns -> [Keys -> Seq(Field)]] /\ handed \in [Conns -> [Keys -> Nat]]
      /\ \A c \in Conns : c \in Procs /\ c \notin Sends
      /\ \A s \in Sends : s \in Procs
  BY <1>0, KvAssumption DEF HeapTypes, ConnTypes, SendTypes, Procs
<1>2. \A c \in Conns : DOMAIN pending[c] \subseteq Keys /\ \A k \in DOMAIN pending[c] : pending[c][k] \in Hmsets
  BY <1>1, MapFacts
<1> DEFINE Done(c, k) == handed[c][k] = Len(acked[c][k]) \/ handed[c][k] > 0
<1> SUFFICES ASSUME NEW d \in Conns \ tainted'
             PROVE  /\ cpc'[d] = "send" => \A k \in DOMAIN pending'[d] : pending'[d][k] = pending'[d][key'[d]] => k = key'[d]
                    /\ \A k \in Keys : k \notin DOMAIN pending'[d] \/ Sending(d, k)' => Done(d, k)'
  BY DEF Apart, HandedOver
<1> DEFINE Goal == /\ cpc'[d] = "send" => \A k \in DOMAIN pending'[d] : pending'[d][k] = pending'[d][key'[d]] => k = key'[d]
                   /\ \A k \in Keys : k \notin DOMAIN pending'[d] \/ Sending(d, k)' => Done(d, k)'
<1>d. d \in Conns \ tainted
  BY TaintStays
<1>a. cpc[d] = "send" => \A k \in DOMAIN pending[d] : pending[d][k] = pending[d][key[d]] => k = key[d]
  BY <1>0, <1>d DEF Apart
<1>b. \A k \in Keys : k \notin DOMAIN pending[d] \/ Sending(d, k) => Done(d, k)
  BY <1>0, <1>d DEF HandedOver
(* A step that leaves what d has alone.                                    *)
<1>k. ASSUME pending'[d] = pending[d], key'[d] = key[d], cpc'[d] = "send" <=> cpc[d] = "send",
             acked'[d] = acked[d], handed'[d] = handed[d]
      PROVE  Goal
  BY <1>a, <1>b, <1>k DEF Sending
<1>4. ASSUME Quiet PROVE Goal
  BY <1>k, <1>4, QuietMoves
<1> USE DEF hmsets, sending, history, reading, Goto, Step
<1>5. ASSUME NEW c \in Conns, (Fetch(c) /\ Fetched(c, at[c][1])) \/ Answer(c) PROVE Goal
  <2>1. /\ UNCHANGED <<pending, key, acked, handed>> /\ cpc[c] # "send"
        /\ cpc' = [cpc EXCEPT ![c] = "answer"] \/ cpc' = [cpc EXCEPT ![c] = "read"]
    BY <1>5 DEF Fetch, Fetched, Answer
  <2> QED
    BY <1>k, <1>1, <2>1
<1>6. ASSUME NEW p \in Procs, SendEnd(p) PROVE Goal
  BY <1>k, <1>6 DEF SendEnd
<1>7. ASSUME NEW c \in Conns, NEW k \in Keys, Expire(c, k) PROVE Goal
  <2>1. /\ UNCHANGED <<pending, cpc, acked>> /\ cpc[c] = "read" /\ k \in DOMAIN pending[c]
        /\ handed' = [handed EXCEPT ![c][k] = Len(acked[c][k])]
    BY <1>7 DEF Expire
  <2>2. \A e \in Conns : key'[e] = key[e]
    BY <1>1, <1>7 DEF Expire, Call
  <2>3. CASE d # c
    BY <1>k, <1>1, <2>1, <2>2, <2>3
  <2>4. CASE d = c
    <3>1. handed'[d][k] = Len(acked'[d][k]) /\ \A n \in Keys \ {k} : handed'[d][n] = handed[d][n]
      BY <1>1, <2>1, <2>4
    <3> QED
      BY <1>b, <2>1, <2>4, <3>1 DEF Sending
  <2> QED
    BY <2>3, <2>4
<1>8. ASSUME NEW c \in Conns, NEW k \in Keys, CloseSends(c, k) PROVE Goal
  <2>1. /\ UNCHANGED <<pending, acked>> /\ cpc[c] = "close" /\ cpc' = [cpc EXCEPT ![c] = "send"] /\ k \in DOMAIN pending[c]
        /\ Call(c, k, pending[c][k], acked[c][k]) /\ handed' = [handed EXCEPT ![c][k] = Len(acked[c][k])]
    BY <1>8 DEF CloseSends
  <2>2. key'[c] = k /\ \A e \in Conns \ {c} : key'[e] = key[e]
    BY <1>1, <2>1 DEF Call
  <2>3. CASE d # c
    BY <1>k, <1>1, <2>1, <2>2, <2>3
  <2>4. CASE d = c
    <3>1. handed'[d][k] = Len(acked'[d][k]) /\ \A n \in Keys \ {k} : handed'[d][n] = handed[d][n]
      BY <1>1, <2>1, <2>4
    <3>2. \A n \in Keys : n \notin DOMAIN pending'[d] \/ Sending(d, n)' => Done(d, n)'
      BY <1>b, <2>1, <2>2, <2>4, <3>1 DEF Sending
    <3>3. ASSUME NEW n \in DOMAIN pending[d], pending[d][n] = pending[d][k] PROVE n = k
      <4>1. /\ n \in Keys /\ pending[d][n] \in Hmsets
            /\ Pend(d, n, pending[d][n]) /\ Pend(d, k, pending[d][n])
        BY <1>2, <2>1, <2>4, <3>3 DEF Pend, Sending
      <4> QED
        BY <1>d, <4>1, CleanPend
    <3> QED
      BY <2>1, <2>2, <2>4, <3>2, <3>3
  <2> QED
    BY <2>3, <2>4
<1>9. ASSUME NEW c \in Conns, NEW k \in Keys, CloseRecycles(c, k) PROVE Goal
  <2>1. /\ UNCHANGED <<cpc, key, acked, handed>> /\ cpc[c] = "close" /\ k \in DOMAIN pending[c]
        /\ Delete(c, k) /\ ~Unsent(pending[c][k])
    BY <1>9 DEF CloseRecycles
  <2>2. /\ \A e \in Conns \ {c} : pending'[e] = pending[e]
        /\ DOMAIN pending'[c] = DOMAIN pending[c] \ {k}
    BY <1>0, <2>1, DeleteDoes
  <2>3. CASE d # c
    BY <1>k, <1>1, <2>1, <2>2, <2>3
  <2>4. CASE d = c
    <3>1. pending[c][k] \in Hmsets /\ Pend(c, k, pending[c][k])
      BY <1>2, <2>1 DEF Pend, Sending
    <3>2. Mirrored(d, k, pending[c][k])
      BY <1>d, <2>4, <3>1, CleanPend
    <3>3. acked[d][k] # <<>>
      BY <1>0, <2>1, <2>4 DEF Lifetime, Keeps
    <3>4. handed[d][k] > 0
      BY <2>1, <3>2, <3>3 DEF Mirrored, Unsent
    <3> QED
      BY <1>b, <2>1, <2>2, <2>4, <3>4 DEF Sending
  <2> QED
    BY <2>3, <2>4
<1>10. ASSUME NEW c \in Conns, ClosePutsAgain(c) PROVE Goal
  <2>1. /\ UNCHANGED <<key, acked, handed>> /\ cpc[c] = "send" /\ cpc' = [cpc EXCEPT ![c] = "close"]
        /\ Delete(c, key[c])
    BY <1>10 DEF ClosePutsAgain
  <2>2. /\ \A e \in Conns \ {c} : pending'[e] = pending[e]
        /\ DOMAIN pending'[c] = DOMAIN pending[c] \ {key[c]}
    BY <1>0, <2>1, DeleteDoes
  <2>3. CASE d # c
    BY <1>k, <1>1, <2>1, <2>2, <2>3
  <2>4. CASE d = c
    <3>1. cpc'[d] = "close"
      BY <1>1, <2>1, <2>4
    <3> QED
      BY <1>b, <2>1, <2>2, <2>4, <3>1 DEF Sending
  <2> QED
    BY <2>3, <2>4
<1>11. ASSUME NEW c \in Conns, NEW k \in Keys, NEW i \in Items, Hmset(c, k, i) PROVE Goal
  <2>1. UNCHANGED <<cpc, key, handed>> /\ cpc[c] = "read"
    BY <1>11 DEF Hmset
  <2>2. /\ \A e \in Conns \ {c} : acked'[e] = acked[e] /\ pending'[e] = pending[e]
        /\ DOMAIN pending'[c] = DOMAIN pending[c] \cup {k}
        /\ \A n \in Keys \ {k} : acked'[c][n] = acked[c][n]
    BY <1>11, HmsetMap
  <2>3. CASE d # c
    BY <1>k, <2>1, <2>2, <2>3
  <2>4. CASE d = c
    BY <1>b, <2>1, <2>2, <2>4 DEF Sending
  <2> QED
    BY <2>3, <2>4
<1> QED
  BY <1>4, <1>5, <1>6, <1>7, <1>8, <1>9, <1>10, <1>11 DEF Next, Connection, Closing, Send, Quiet, Fetch

(* What a send has to post is what it was given, whatever the connections  *)
(* and the other sends do.                                                 *)
LEMMA SnapshotStep == ASSUME IndInv, Next PROVE Snapshots'
<1>0. HeapTypes /\ ConnTypes /\ SendTypes /\ Types /\ OnePlaceEach /\ Lifetime /\ Snapshots
  BY DEF IndInv, Types, Contents
<1>1. /\ spc \in [Procs -> {"off", "ready", "post", "undo"}] /\ pending \in [Conns -> Maps]
      /\ hmset \in [Procs -> Hmsets \cup {Nobody}] /\ given = [p \in Procs |-> given[p]] /\ body = [p \in Procs |-> body[p]]
      /\ heap \in [Hmsets -> Value] /\ Nobody \notin Hmsets
      /\ \A c \in Conns : c \in Procs /\ c \notin Sends
      /\ \A s \in Sends : s \in Procs
      /\ \A p \in Procs : hmset[p] # Nobody <=> spc[p] # "off"
  BY <1>0, KvAssumption DEF HeapTypes, ConnTypes, SendTypes, Procs, Hmsets, Nobody
<1>2. \A c \in Conns : DOMAIN pending[c] \subseteq Keys /\ \A k \in DOMAIN pending[c] : pending[c][k] \in Hmsets
  BY <1>1, MapFacts
<1>t. ASSUME NEW h \in Available PROVE h \in Hmsets
  BY <1>0, AvailableFree
<1> SUFFICES ASSUME NEW p \in Procs, tainted' = {}, hmset'[p] \notin doubled'
             PROVE  /\ spc'[p] = "ready" => heap'[hmset'[p]].fields = given'[p]
                    /\ spc'[p] = "post" => body'[p].fields = given'[p]
  BY DEF Snapshots, PostsSnapshot
<1> DEFINE Goal == /\ spc'[p] = "ready" => heap'[hmset'[p]].fields = given'[p]
                   /\ spc'[p] = "post" => body'[p].fields = given'[p]
<1>d. tainted = {} /\ hmset'[p] \notin doubled
  BY TaintStays
<1>f. ASSUME hmset[p] \notin doubled
      PROVE  /\ spc[p] = "ready" => heap[hmset[p]].fields = given[p]
             /\ spc[p] = "post" => body[p].fields = given[p]
  BY <1>0, <1>d, <1>f DEF Snapshots, PostsSnapshot
<1>c. ASSUME spc[p] = "ready", hmset[p] \notin doubled
      PROVE  hmset[p] \in Hmsets /\ hmset[p] \notin Available /\ ~Gets(hmset[p]) /\ ~Pends(hmset[p])
  <2>1. hmset[p] \in Hmsets \ doubled
    BY <1>1, <1>c
  <2> QED
    BY <2>1, CleanPost
(* A step that leaves p and what it holds alone.                           *)
<1>k. ASSUME spc'[p] = spc[p], hmset'[p] = hmset[p], given'[p] = given[p], body'[p] = body[p],
             spc[p] = "ready" => heap'[hmset[p]].fields = heap[hmset[p]].fields
      PROVE  Goal
  BY <1>d, <1>f, <1>k
<1> USE DEF hmsets, sending, history, reading, Goto, Step
<1>3. ASSUME \/ \E c \in Conns : Accept(c) \/ Close(c) \/ ClosePutsMap(c) \/ (Fetch(c) /\ NotFetched(c, at[c][1]))
             \/ \E c \in Conns, k \in Keys, w \in Names \cup {"all"} : Hget(c, k, w)
             \/ (\E new \in Configs : Reload(new)) \/ Exit \/ ExitChecks
      PROVE  Goal
  <2>1. UNCHANGED <<heap, spc, hmset, given, body>>
    BY <1>3 DEF Accept, Close, ClosePutsMap, Fetch, NotFetched, Hget, Reload, Exit, ExitChecks
  <2> QED
    BY <1>k, <2>1
<1>4. ASSUME NEW q \in Procs, SendStart(q) PROVE Goal
  <2>1. /\ UNCHANGED <<heap, hmset, given>> /\ spc[q] = "ready" /\ spc' = [spc EXCEPT ![q] = spc'[q]] /\ spc'[q] # "ready"
        /\ body' = [body EXCEPT ![q] = [fields |-> heap[hmset[q]].fields, sent |-> heap[hmset[q]].sent, pack |-> Pack]]
    BY <1>1, <1>4 DEF SendStart
  <2>2. CASE p # q
    BY <1>k, <1>1, <2>1, <2>2
  <2>3. CASE p = q
    <3>1. body'[p].fields = heap[hmset[p]].fields
      BY <1>1, <2>1, <2>3
    <3> QED
      BY <1>d, <1>f, <2>1, <2>3, <3>1
  <2> QED
    BY <2>2, <2>3
<1>5. ASSUME NEW q \in Procs, Post(q) PROVE Goal
  <2>1. UNCHANGED <<heap, hmset, given, body>> /\ spc[q] = "post" /\ spc' = [spc EXCEPT ![q] = spc'[q]] /\ spc'[q] \in {"post", "undo"}
    BY <1>1, <1>5 DEF Post, Failed
  <2>2. CASE p # q
    BY <1>k, <1>1, <2>1, <2>2
  <2>3. CASE p = q
    BY <1>d, <1>f, <2>1, <2>3
  <2> QED
    BY <2>2, <2>3
<1>6. ASSUME NEW q \in Procs, SendEnd(q) PROVE Goal
  <2>1. /\ given' = given /\ spc' = [spc EXCEPT ![q] = "off"] /\ hmset' = [hmset EXCEPT ![q] = Nobody]
        /\ body' = [body EXCEPT ![q] = None] /\ heap' = [heap EXCEPT ![hmset[q]] = Blank] /\ spc[q] = "undo"
    BY <1>6 DEF SendEnd, Put
  <2>2. CASE p # q
    <3>1. hmset'[p] = hmset[p] /\ spc'[p] = spc[p] /\ body'[p] = body[p]
      BY <1>1, <2>1, <2>2
    <3>2. ASSUME spc[p] = "ready" PROVE heap'[hmset[p]] = heap[hmset[p]]
      <4>1. hmset[p] \in Hmsets \ doubled
        BY <1>c, <1>d, <3>1, <3>2
      <4>2. hmset[p] # hmset[q]
        BY <2>2, <4>1, CleanPost
      <4> QED
        BY <1>1, <2>1, <4>1, <4>2
    <3> QED
      BY <1>k, <2>1, <3>1, <3>2
  <2>3. CASE p = q
    BY <1>1, <2>1, <2>3
  <2> QED
    BY <2>2, <2>3
<1>7. ASSUME NEW c \in Conns, Fetch(c), Fetched(c, at[c][1]) PROVE Goal
  <2>1. UNCHANGED <<spc, hmset, given, body>>
    BY <1>7 DEF Fetch
  <2>2. PICK h \in Available : heap' = [heap EXCEPT ![h] = heap'[h]]
    BY <1>1, <1>7, <1>t, ZenonT(30) DEF Fetched
  <2>3. ASSUME spc[p] = "ready" PROVE heap'[hmset[p]] = heap[hmset[p]]
    BY <1>1, <1>c, <1>d, <2>1, <2>2, <2>3
  <2> QED
    BY <1>k, <2>1, <2>3
<1>8. ASSUME NEW c \in Conns, Answer(c) PROVE Goal
  <2>1. UNCHANGED <<spc, hmset, given, body>> /\ heap' = [heap EXCEPT ![got[c]] = Blank]
    BY <1>8 DEF Answer, Put
  <2>2. ASSUME spc[p] = "ready" PROVE heap'[hmset[p]] = heap[hmset[p]]
    BY <1>1, <1>c, <1>d, <2>1, <2>2 DEF Gets
  <2> QED
    BY <1>k, <2>1, <2>2
<1>9. ASSUME NEW c \in Conns, NEW k \in Keys, Expire(c, k) PROVE Goal
  <2>1. body' = body /\ cpc[c] = "read" /\ k \in DOMAIN pending[c]
    BY <1>9 DEF Expire
  <2>2. PICK h \in Available, s \in Sends : heap' = Clone(pending[c][k], h) /\ Call(s, k, h, acked[c][k])
    BY <1>9 DEF Expire
  <2>3. /\ spc'[s] = "ready" /\ hmset'[s] = h /\ given'[s] = acked[c][k]
        /\ \A q \in Procs \ {s} : spc'[q] = spc[q] /\ hmset'[q] = hmset[q] /\ given'[q] = given[q]
    BY <1>1, <2>2 DEF Call
  <2>4. pending[c][k] \in Hmsets /\ Pend(c, k, pending[c][k]) /\ Pends(pending[c][k])
    BY <1>2, <2>1 DEF Pend, Pends, Sending
  <2>5. Mirrored(c, k, pending[c][k]) /\ h # pending[c][k]
    BY <1>d, <2>4, CleanPend
  <2>6. heap'[h].fields = heap[pending[c][k]].fields /\ \A g \in Hmsets \ {pending[c][k], h} : heap'[g] = heap[g]
    BY <1>0, <1>t, <2>2, <2>4, <2>5, HeapClones
  <2>7. CASE p = s
    BY <2>3, <2>5, <2>6, <2>7 DEF Mirrored
  <2>8. CASE p # s
    <3>1. ASSUME spc[p] = "ready" PROVE heap'[hmset[p]] = heap[hmset[p]]
      BY <1>c, <1>d, <2>3, <2>4, <2>6, <2>8, <3>1
    <3> QED
      BY <1>k, <2>1, <2>3, <2>8, <3>1
  <2> QED
    BY <2>7, <2>8
<1>10. ASSUME NEW c \in Conns, NEW k \in Keys, CloseSends(c, k) PROVE Goal
  <2>1. /\ body' = body /\ heap' = heap /\ cpc[c] = "close" /\ k \in DOMAIN pending[c]
        /\ Call(c, k, pending[c][k], acked[c][k])
    BY <1>10 DEF CloseSends
  <2>2. /\ spc'[c] = "ready" /\ hmset'[c] = pending[c][k] /\ given'[c] = acked[c][k]
        /\ \A q \in Procs \ {c} : spc'[q] = spc[q] /\ hmset'[q] = hmset[q] /\ given'[q] = given[q]
    BY <1>1, <2>1 DEF Call
  <2>3. pending[c][k] \in Hmsets /\ Pend(c, k, pending[c][k])
    BY <1>2, <2>1 DEF Pend, Sending
  <2>4. Mirrored(c, k, pending[c][k])
    BY <1>d, <2>3, CleanPend
  <2>5. CASE p = c
    BY <2>1, <2>2, <2>4, <2>5 DEF Mirrored
  <2>6. CASE p # c
    BY <1>k, <2>1, <2>2, <2>6
  <2> QED
    BY <2>5, <2>6
<1>11. ASSUME NEW c \in Conns, NEW k \in Keys, CloseRecycles(c, k) PROVE Goal
  <2>1. /\ UNCHANGED <<spc, hmset, given, body>> /\ heap' = [heap EXCEPT ![pending[c][k]] = Blank]
        /\ cpc[c] = "close" /\ k \in DOMAIN pending[c]
    BY <1>11 DEF CloseRecycles, Put
  <2>2. Pends(pending[c][k])
    BY <2>1 DEF Pend, Pends, Sending
  <2>3. ASSUME spc[p] = "ready" PROVE heap'[hmset[p]] = heap[hmset[p]]
    BY <1>1, <1>c, <1>d, <2>1, <2>2, <2>3
  <2> QED
    BY <1>k, <2>1, <2>3
<1>12. ASSUME NEW c \in Conns, ClosePutsAgain(c) PROVE Goal
  <2>1. /\ UNCHANGED <<spc, hmset, given, body>> /\ heap' = [heap EXCEPT ![pending[c][key[c]]] = Blank]
        /\ doubled' = doubled \cup {pending[c][key[c]]}
    BY <1>12 DEF ClosePutsAgain, Put
  <2>2. ASSUME spc[p] = "ready" PROVE heap'[hmset[p]] = heap[hmset[p]]
    BY <1>1, <1>c, <1>d, <2>1, <2>2
  <2> QED
    BY <1>k, <2>1, <2>2
<1>13. ASSUME NEW c \in Conns, NEW k \in Keys, NEW i \in Items, Hmset(c, k, i) PROVE Goal
  <2>1. UNCHANGED <<spc, hmset, given, body>> /\ cpc[c] = "read"
    BY <1>13 DEF Hmset
  <2>2. PICK h \in Hmsets : /\ \A g \in Hmsets \ {h} : heap'[g] = heap[g]
                            /\ h \in Available \/ (k \in DOMAIN pending[c] /\ h = pending[c][k])
    <3>1. CASE k \in DOMAIN pending[c] /\ heap' = [heap EXCEPT ![pending[c][k]].fields = @ \o Fields(c, k, i)]
      BY <1>1, <1>2, <3>1
    <3>2. CASE \E h \in Available : heap' = [heap EXCEPT ![h] = [Blank EXCEPT !.fields = Fields(c, k, i)]]
      BY <1>1, <1>t, <3>2
    <3> QED
      BY <1>13, <3>1, <3>2 DEF Hmset
  <2>3. h \in Available \/ Pends(h)
    BY <2>1, <2>2 DEF Pend, Pends, Sending
  <2>4. ASSUME spc[p] = "ready" PROVE heap'[hmset[p]] = heap[hmset[p]]
    BY <1>c, <1>d, <2>1, <2>2, <2>3, <2>4
  <2> QED
    BY <1>k, <2>1, <2>4
<1> QED
  BY <1>3, <1>4, <1>5, <1>6, <1>7, <1>8, <1>9, <1>10, <1>11, <1>12, <1>13 DEF Next, Connection, Closing, Send, Fetch

(* What HGET and HGETALL may answer to a connection.                       *)
Right(c, k, what, result) ==
    acked[c][k] # <<>> =>
        IF what = "all"
          THEN result = GetAllAsRedis(acked[c][k])
          ELSE Named(acked[c][k], what) # {} => \E i \in Named(acked[c][k], what) : result = acked[c][k][i].by
Told(c) == answer[c] # None => Right(c, answer[c].key, answer[c].what, answer[c].result)
LEMMA ToldEach == ReadsOwnWrites <=> \A c \in Conns \ tainted : Told(c)
  BY DEF ReadsOwnWrites, Told, Right, GetAllAsRedis

(* Reading the fields the connection was answered OK for is right.         *)
LEMMA ReadsAcked ==
    ASSUME ConnTypes, NEW c \in Conns, NEW k \in Keys, NEW w
    PROVE  Right(c, k, w, Result(acked[c][k], w))
<1>1. acked[c][k] \in Seq(Field) /\ Named(acked[c][k], w) \subseteq Nat
  BY DEF ConnTypes, Named
<1>2. Named(acked[c][k], w) # {} => Min(Named(acked[c][k], w)) \in Named(acked[c][k], w)
  BY <1>1, MinIn
<1> QED
  BY <1>2 DEF Right, Result, GetOneAsRedis

(* A connection that asks the store has not set what it asks for.          *)
AbsentFor(c) ==
    cpc[c] \in {"fetch", "answer"} /\ acked[c][at[c][1]] # <<>> =>
        at[c][2] # "all" /\ Named(acked[c][at[c][1]], at[c][2]) = {}
LEMMA ReadStep == ASSUME IndInv, Next PROVE Absent' /\ ReadsOwnWrites'
<1>0. HeapTypes /\ ConnTypes /\ SendTypes /\ Types /\ Lifetime /\ Absent /\ \A c \in Conns \ tainted : Told(c)
  BY ToldEach DEF IndInv, Types, Contents
<1>1. /\ cpc \in [Conns -> {"new", "read", "fetch", "answer", "close", "send", "end"}]
      /\ at \in [Conns -> Asked \cup {None}] /\ pending \in [Conns -> Maps]
      /\ answer = [c \in Conns |-> answer[c]] /\ acked \in [Conns -> [Keys -> Seq(Field)]]
  BY <1>0 DEF ConnTypes
<1>2. \A c \in Conns : DOMAIN pending[c] \subseteq Keys /\ \A k \in DOMAIN pending[c] : pending[c][k] \in Hmsets
  BY <1>1, MapFacts
<1> SUFFICES ASSUME NEW d \in Conns \ tainted' PROVE AbsentFor(d)' /\ Told(d)'
  <2>1. (\A c \in Conns \ tainted : Told(c))' <=> ReadsOwnWrites'
    BY ToldEach, PTL
  <2> QED
    BY <2>1 DEF Absent, AbsentFor
<1> DEFINE Goal == AbsentFor(d)' /\ Told(d)'
<1>d. d \in Conns \ tainted /\ AbsentFor(d) /\ Told(d)
  BY <1>0, TaintStays DEF Absent, AbsentFor
(* A step that leaves what d asks for alone.                               *)
<1>k. ASSUME acked'[d] = acked[d], answer'[d] = answer[d] \/ answer'[d] = None,
             \/ cpc'[d] \notin {"fetch", "answer"}
             \/ cpc[d] \in {"fetch", "answer"} /\ at'[d] = at[d]
      PROVE  Goal
  BY <1>d, <1>k DEF AbsentFor, Told, Right, None
(* A step that answers it.                                                 *)
<1>r. ASSUME acked'[d] = acked[d], cpc'[d] \notin {"fetch", "answer"}, NEW k, NEW w, NEW r, NEW n, Right(d, k, w, r),
             answer'[d] = [key |-> k, what |-> w, result |-> r, nth |-> n]
      PROVE  Goal
  <2>1. answer'[d].key = k /\ answer'[d].what = w /\ answer'[d].result = r
    BY <1>r
  <2> QED
    BY <1>r, <2>1 DEF AbsentFor, Told, Right
<1> USE DEF hmsets, sending, history, reading, Goto, Step
<1>3. ASSUME \/ \E p \in Procs : Send(p)
             \/ (\E new \in Configs : Reload(new)) \/ Exit \/ ExitChecks
      PROVE  Goal
  <2>1. UNCHANGED <<acked, answer, cpc, at>>
    BY <1>3 DEF Send, SendStart, Post, SendEnd, Reload, Exit, ExitChecks
  <2> QED
    BY <1>k, <2>1
<1>4. ASSUME NEW c \in Conns, \/ Accept(c) \/ Close(c) \/ ClosePutsMap(c) \/ ClosePutsAgain(c)
                              \/ \E k \in Keys : CloseSends(c, k) \/ CloseRecycles(c, k) \/ Expire(c, k)
      PROVE  Goal
  <2>1. /\ UNCHANGED <<acked, at>>
        /\ answer' = answer \/ answer' = [answer EXCEPT ![c] = None]
        /\ cpc[c] \notin {"fetch", "answer"}
        /\ cpc' = cpc \/ \E l \in {"read", "close", "send", "end"} : cpc' = [cpc EXCEPT ![c] = l]
    BY <1>4 DEF Accept, Close, ClosePutsMap, ClosePutsAgain, CloseSends, CloseRecycles, Expire
  <2> QED
    BY <1>k, <1>1, <2>1
<1>5. ASSUME NEW c \in Conns, Fetch(c) PROVE Goal
  <2>1. acked' = acked /\ cpc[c] = "fetch"
    BY <1>5 DEF Fetch
  <2>2. CASE Fetched(c, at[c][1])
    <3>1. cpc' = [cpc EXCEPT ![c] = "answer"] /\ at' = at /\ answer' = answer
      BY <2>2 DEF Fetched
    <3> QED
      BY <1>k, <1>1, <2>1, <3>1
  <2>3. CASE UNCHANGED <<cpc, at, answer>>
    BY <1>k, <2>1, <2>3
  <2>4. CASE Reply(c, at[c][1], at[c][2], "error") /\ Goto(c, "read") /\ at' = [at EXCEPT ![c] = None]
    <3>1. CASE d # c
      BY <1>k, <1>1, <2>1, <2>4, <3>1 DEF Reply
    <3>2. CASE d = c
      <4>1. Right(d, at[d][1], at[d][2], "error")
        BY <1>d, <2>1, <3>2 DEF Right, AbsentFor
      <4>2. answer'[d] = [key |-> at[d][1], what |-> at[d][2], result |-> "error", nth |-> Reads(d) + 1]
        BY <1>1, <2>4, <3>2 DEF Reply
      <4>3. cpc'[d] = "read"
        BY <1>1, <2>4, <3>2
      <4> QED
        BY <1>r, <2>1, <4>1, <4>2, <4>3
    <3> QED
      BY <3>1, <3>2
  <2> QED
    BY <1>5, <2>2, <2>3, <2>4 DEF Fetch, NotFetched
<1>6. ASSUME NEW c \in Conns, Answer(c) PROVE Goal
  <2> DEFINE r == Result(heap[got[c]].fields, at[c][2])
  <2>1. /\ acked' = acked /\ cpc[c] = "answer" /\ cpc' = [cpc EXCEPT ![c] = "read"] /\ at' = [at EXCEPT ![c] = None]
        /\ Reply(c, at[c][1], at[c][2], r)
    BY <1>6 DEF Answer
  <2> HIDE DEF r
  <2>2. CASE d # c
    BY <1>k, <1>1, <2>1, <2>2 DEF Reply
  <2>3. CASE d = c
    <3>1. Right(d, at[d][1], at[d][2], r)
      BY <1>d, <2>1, <2>3 DEF Right, AbsentFor
    <3>2. answer'[d] = [key |-> at[d][1], what |-> at[d][2], result |-> r, nth |-> Reads(d) + 1]
      BY <1>1, <2>1, <2>3 DEF Reply
    <3>3. cpc'[d] = "read"
      BY <1>1, <2>1, <2>3
    <3> QED
      BY <1>r, <2>1, <3>1, <3>2, <3>3
  <2> QED
    BY <2>2, <2>3
<1>7. ASSUME NEW c \in Conns, NEW k \in Keys, NEW i \in Items, Hmset(c, k, i) PROVE Goal
  <2>1. UNCHANGED <<cpc, at>> /\ cpc[c] = "read"
    BY <1>7 DEF Hmset
  <2>2. CASE d # c
    BY <1>k, <1>7, <2>1, <2>2, HmsetMap
  <2>3. CASE d = c
    <3>1. answer'[d] = None
      BY <1>7, <2>3, HmsetMap
    <3> QED
      BY <2>1, <2>3, <3>1 DEF AbsentFor, Told, None
  <2> QED
    BY <2>2, <2>3
<1>8. ASSUME NEW c \in Conns, NEW k \in Keys, NEW w \in Names \cup {"all"}, Hget(c, k, w) PROVE Goal
  <2>1. acked' = acked /\ cpc[c] = "read"
    BY <1>8 DEF Hget
  <2>2. CASE d # c
    <3>1. answer'[d] = answer[d] /\ cpc'[d] = cpc[d] /\ at'[d] = at[d]
      BY <1>1, <1>8, <2>2 DEF Hget, Reply
    <3> QED
      BY <1>k, <2>1, <3>1
  <2>m. ASSUME d = c, k \in DOMAIN pending[d] PROVE heap[pending[d][k]].fields = acked[d][k]
    <3>1. pending[d][k] \in Hmsets /\ Pend(d, k, pending[d][k])
      BY <1>2, <2>1, <2>m DEF Pend, Sending
    <3> QED
      BY <1>d, <3>1, CleanPend DEF Mirrored
  <2>3. CASE d = c /\ InMemory(c, k, w)
    <3>1. heap[pending[d][k]].fields = acked[d][k]
      BY <2>m, <2>3 DEF InMemory
    <3>2. Right(d, k, w, Result(acked[d][k], w))
      BY <1>0, <1>d, ReadsAcked
    <3>3. UNCHANGED cpc /\ Reply(d, k, w, Result(acked[d][k], w))
      BY <1>8, <2>3, <3>1 DEF Hget
    <3>4. answer'[d] = [key |-> k, what |-> w, result |-> Result(acked[d][k], w), nth |-> Reads(d) + 1]
      BY <1>1, <3>3 DEF Reply
    <3> QED
      BY <1>r, <2>1, <2>3, <3>2, <3>3, <3>4
  <2>4. CASE d = c /\ ~InMemory(c, k, w)
    <3>1. cpc' = [cpc EXCEPT ![d] = "fetch"] /\ at' = [at EXCEPT ![d] = <<k, w>>] /\ UNCHANGED answer
      BY <1>8, <2>4 DEF Hget
    <3>2. at'[d] = <<k, w>> /\ at'[d][1] = k /\ at'[d][2] = w
      BY <1>1, <3>1
    <3>3. ASSUME acked[d][k] # <<>> PROVE w # "all" /\ Named(acked[d][k], w) = {}
      <4>1. k \in DOMAIN pending[d]
        BY <1>0, <2>1, <2>4, <3>3 DEF Lifetime, Keeps
      <4> QED
        BY <2>4, <2>m, <4>1 DEF InMemory
    <3> QED
      BY <1>d, <2>1, <3>1, <3>2, <3>3 DEF AbsentFor, Told, Right
  <2> QED
    BY <2>2, <2>3, <2>4
<1> QED
  BY <1>3, <1>4, <1>5, <1>6, <1>7, <1>8 DEF Next, Connection, Closing

-----------------------------------------------------------------------------
LEMMA Invariance == Spec => []IndInv
<1>1. IndInv /\ [Next]_vars => IndInv'
  <2>1. ASSUME IndInv, Next PROVE IndInv'
    <3>1. Types' /\ Counted'
      BY <2>1, HeapTypeStep, ConnTypeStep, SendTypeStep, CountStep DEF Types
    <3>2. Lifetime' /\ OnePlaceEach'
      BY <2>1, LifetimeStep, OnePlaceStep
    <3>3. Contents'
      BY <2>1, MirrorStep, HandStep, SnapshotStep, ReadStep DEF Contents
    <3> QED
      BY <3>1, <3>2, <3>3 DEF IndInv
  <2>2. ASSUME IndInv, UNCHANGED vars PROVE IndInv'
    <3> USE <2>2 DEF vars, hmsets, reading, sending, exits, history
    <3>1. Types'
      BY DEF IndInv, Types, HeapTypes, ConnTypes, SendTypes, ExitTypes
    <3>2. Counted'
      BY DEF IndInv, Counted, Active, ExitWaitsForPosts
    <3>3. Lifetime'
      BY DEF IndInv, Lifetime, Keeps
    <3>4. OnePlaceEach'
      BY DEF IndInv, OnePlaceEach, InOnePlace, Pends, Pend, Gets, Posts, Sending
    <3>5. Mirrors' /\ Apart' /\ HandedOver'
      BY DEF IndInv, Contents, Mirrors, Mirrored, Apart, HandedOver, Pend, Sending
    <3>6. Snapshots'
      BY DEF IndInv, Contents, Snapshots, PostsSnapshot
    <3>7. Absent'
      BY DEF IndInv, Contents, Absent
    <3>8. ReadsOwnWrites'
      <4>1. ReadsOwnWrites
        BY DEF IndInv, Contents
      <4>2. (\A c \in Conns \ tainted : Told(c)) /\ (ReadsOwnWrites' <=> (\A c \in Conns \ tainted : Told(c))')
        BY <4>1, ToldEach, PTL
      <4>3. (\A c \in Conns \ tainted : Told(c))'
        BY <4>2 DEF Told, Right
      <4> QED
        BY <4>2, <4>3
    <3> QED
      BY <3>1, <3>2, <3>3, <3>4, <3>5, <3>6, <3>7, <3>8 DEF IndInv, Contents
  <2> QED
    BY <2>1, <2>2
<1> QED
  BY <1>1, InitInd, PTL DEF Spec

(* An Hmset in one place is counted once.                                  *)
LEMMA AtMostOne == ASSUME NEW S, \A x, y \in S : x = y PROVE Cardinality(S) \in {0, 1} /\ (Cardinality(S) = 1 => S # {})
<1>1. CASE S = {}
  BY <1>1, FS_EmptySet
<1>2. ASSUME NEW x \in S PROVE Cardinality(S) = 1
  <2>1. S = {x}
    BY <1>2
  <2> QED
    BY <2>1, FS_Singleton
<1> QED
  BY <1>1, <1>2
LEMMA CountsOne == ASSUME IndInv, NEW h \in Hmsets \ doubled PROVE Uses(h) <= 1
<1> DEFINE P == {x \in Conns \X Keys : x[2] \in DOMAIN pending[x[1]] /\ pending[x[1]][x[2]] = h /\ cpc[x[1]] # "send"}
           G == {c \in Conns : got[c] = h}
           S == {p \in Procs : hmset[p] = h}
<1>1. InOnePlace(h) /\ hmsetPool[h] \in Nat
  BY DEF IndInv, OnePlaceEach, Types, HeapTypes
<1>2. \A x \in P : x = <<x[1], x[2]>> /\ x[1] \in Conns /\ x[2] \in Keys /\ Pend(x[1], x[2], h)
  BY DEF Pend, Sending
<1>3. \A x, y \in P : x = y
  <2> SUFFICES ASSUME NEW x \in P, NEW y \in P PROVE x = y
    OBVIOUS
  <2> HIDE DEF P
  <2>1. x[1] = y[1] /\ x[2] = y[2]
    BY <1>1, <1>2 DEF InOnePlace
  <2> QED
    BY <1>2, <2>1
<1>4. (\A x, y \in G : x = y) /\ (\A x, y \in S : x = y)
  BY <1>1 DEF InOnePlace
<1>5. (P # {} => Pends(h)) /\ (G # {} => Gets(h)) /\ (S # {} => Posts(h))
  <2>1. P # {} => Pends(h)
    <3> HIDE DEF P
    <3> QED
      BY <1>2 DEF Pends
  <2> QED
    BY <2>1 DEF Gets, Posts
<1>6. Uses(h) = Cardinality(P) + Cardinality(G) + Cardinality(S) + hmsetPool[h]
  BY DEF Uses
<1> HIDE DEF P, G, S
<1>7. /\ Cardinality(P) \in {0, 1} /\ (Cardinality(P) = 1 => Pends(h))
      /\ Cardinality(G) \in {0, 1} /\ (Cardinality(G) = 1 => Gets(h))
      /\ Cardinality(S) \in {0, 1} /\ (Cardinality(S) = 1 => Posts(h))
  BY <1>3, <1>4, <1>5, AtMostOne
<1>8. /\ hmsetPool[h] <= 1 /\ (hmsetPool[h] > 0 => ~Pends(h) /\ ~Gets(h) /\ ~Posts(h))
      /\ ~(Pends(h) /\ Gets(h)) /\ ~(Pends(h) /\ Posts(h)) /\ ~(Gets(h) /\ Posts(h))
  BY <1>1 DEF InOnePlace
<1> QED
  BY <1>1, <1>6, <1>7, <1>8

(* For any number of connections, keys, values and sends: an Hmset is      *)
(* pending in one connection, read by one, the argument of one send or     *)
(* once in the pool, unless a connection ended with it unsent and put it   *)
(* in the pool a second time.                                              *)
THEOREM OneOwnerAlways == Spec => []OneOwner
<1>1. IndInv => TypeOK
  <2> SUFFICES ASSUME IndInv PROVE TypeOK
    OBVIOUS
  <2>1. HeapTypes /\ ConnTypes /\ SendTypes /\ ExitTypes
    BY DEF IndInv, Types
  <2>2. \A h \in Hmsets : heap[h].sent \in BOOLEAN /\ \A i \in DOMAIN heap[h].fields : heap[h].fields[i] \in Field
    <3>1. \A h \in Hmsets : heap[h].sent \in BOOLEAN /\ heap[h].fields \in Seq(Field)
      BY <2>1 DEF HeapTypes, Value
    <3> QED
      BY <3>1
  <2>3. \A c \in Conns : DOMAIN pending[c] \subseteq Keys /\ \A k \in DOMAIN pending[c] : pending[c][k] \in Hmsets
    BY <2>1, MapFacts DEF ConnTypes
  <2>4. \A p \in Procs : spc[p] # "off" => hmset[p] \in Hmsets /\ key[p] \in Keys
    BY <2>1 DEF SendTypes
  <2> QED
    BY <2>1, <2>2, <2>3, <2>4 DEF TypeOK, HeapTypes, ConnTypes, SendTypes, ExitTypes
<1>2. IndInv => OneOwner
  BY <1>1, CountsOne DEF OneOwner
<1> QED
  BY <1>2, Invariance, PTL

(* What send posts is what the connection had set when it sent EXPIRE or   *)
(* was closed, however many connections set fields, take and put values    *)
(* meanwhile; unless a value was put in the pool twice.                    *)
THEOREM PostsSnapshotAlways == Spec => []PostsSnapshot
<1>1. IndInv => PostsSnapshot
  BY DEF IndInv, Contents, Snapshots
<1> QED
  BY <1>1, Invariance, PTL

(* A connection that never held a value put twice reads what it wrote,     *)
(* from memory or from the store.                                          *)
THEOREM ReadsOwnWritesAlways == Spec => []ReadsOwnWrites
<1>1. IndInv => ReadsOwnWrites
  BY DEF IndInv, Contents
<1> QED
  BY <1>1, Invariance, PTL

(* When handleConnection has ended, some send was given each hash the      *)
(* connection set.                                                         *)
THEOREM NothingForgottenAlways == Spec => []NothingForgotten
<1>1. IndInv => NothingForgotten
  <2> SUFFICES ASSUME IndInv, NEW c \in Conns \ tainted, cpc[c] = "end", NEW k \in Keys
               PROVE  handed[c][k] = Len(acked[c][k]) \/ handed[c][k] > 0
    BY DEF NothingForgotten
  <2>1. k \notin DOMAIN pending[c]
    BY DEF IndInv, Lifetime, Keeps
  <2> QED
    BY <2>1 DEF IndInv, Contents, HandedOver
<1> QED
  BY <1>1, Invariance, PTL

(* If Exit ends before its last attempt no post is under way, for any      *)
(* number of sends: running is the number of those that have begun.        *)
THEOREM ExitWaitsForPostsAlways == Spec => []ExitWaitsForPosts
<1>1. IndInv => ExitWaitsForPosts
  BY DEF IndInv, Counted
<1> QED
  BY <1>1, Invariance, PTL
=============================================================================
