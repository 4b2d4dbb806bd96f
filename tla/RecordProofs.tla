---------------------------- MODULE RecordProofs ----------------------------
(***************************************************************************)
(* Proofs about the relayers that gather commands in records: what the     *)
(* document of a record says (InterRecord), that the messages of the SQS   *)
(* relayer carry what they should and requests are not too long (Rsqs),    *)
(* and that a document of the Firehose and Kinesis relayers is that of one *)
(* transaction (StreamServer), for any connections, commands, clients and  *)
(* configurations.                                                         *)
(***************************************************************************)
EXTENDS Rsqs, StreamServer, FiniteSetTheorems, TLAPS

(* What a record holds of the commands cs it was given: the value of the   *)
(* command that wrote a key first, all values and fields of the commands   *)
(* of the same kind.                                                       *)
AllListed(list, cs, P) ==
    /\ DOMAIN list = 1..Cardinality(P)
    /\ \A i \in P : list[Cardinality({j \in P : j <= i})] = cs[i].value

AllMapped(map, cs, P) ==
    /\ DOMAIN map = UNION {Range(cs[i].fields) : i \in P}
    /\ \A f \in DOMAIN map : \E i \in P :
          /\ f \in Range(cs[i].fields) /\ map[f] = cs[i].value
          /\ \A j \in P : f \in Range(cs[j].fields) => j <= i

Holds(entry, cs, key) ==
    \E first \in Writers(cs, key) :
        /\ \A i \in Writers(cs, key) : first <= i
        /\ entry = Entry(Kind(cs[first]), entry.of)
        /\ entry.kind = "one" => entry.of = cs[first].value
        /\ entry.kind = "list" =>
              /\ entry.of \in Seq(Range(entry.of))
              /\ AllListed(entry.of, cs, {i \in Writers(cs, key) : cs[i].op = cs[first].op})
        /\ entry.kind = "map" => AllMapped(entry.of, cs, {i \in Writers(cs, key) : cs[i].op = cs[first].op})

IsRecord(r) ==
    /\ r = [types |-> r.types, raw |-> r.raw, lent |-> r.lent, compressFields |-> r.compressFields, data |-> r.data]
    /\ r.compressFields \in BOOLEAN
IsValue(value) == value = Value(value.v, value.bytes) /\ value.bytes \in BOOLEAN
Valued(cs) == \A i \in DOMAIN cs : IsValue(cs[i].value) /\ cs[i].op \in {"SET", "SADD", "HMSET"}

Recorded(r, cs) ==
    /\ IsRecord(r) /\ r.types = 0 /\ Valued(cs)
    /\ r.data = [key \in Written(cs) |-> r.data[key]]
    /\ \A key \in Written(cs) :
          /\ Holds(r.data[key], cs, key)
          /\ r.data[key].kind = "one" => IsValue(r.data[key].of) /\ (r.data[key].of.bytes => r.compressFields)

-----------------------------------------------------------------------------
(* Two sequences after each other.                                         *)
LEMMA Joined ==
    ASSUME NEW S, NEW s \in Seq(S), NEW t \in Seq(S)
    PROVE  /\ s \o t \in Seq(S) /\ DOMAIN (s \o t) = 1..(Len(s) + Len(t))
           /\ \A i \in 1..Len(s) : (s \o t)[i] = s[i]
           /\ \A i \in 1..Len(t) : (s \o t)[Len(s) + i] = t[i]
<1>1. s \o t \in Seq(S) /\ Len(s \o t) = Len(s) + Len(t)
  OBVIOUS
<1>2. \A i \in 1..Len(s) : (s \o t)[i] = s[i]
  OBVIOUS
<1>3. ASSUME NEW i \in 1..Len(t) PROVE (s \o t)[Len(s) + i] = t[i]
  OBVIOUS
<1> QED
  BY <1>1, <1>2, <1>3

(* The commands that write a key, when one more is given.                  *)
LEMMA OneMore ==
    ASSUME NEW S, NEW cs \in Seq(S), NEW cmd \in S
    PROVE  /\ Len(cs) \in Nat /\ DOMAIN cs = 1..Len(cs)
           /\ DOMAIN Append(cs, cmd) = 1..(Len(cs) + 1)
           /\ \A i \in 1..Len(cs) : Append(cs, cmd)[i] = cs[i]
           /\ Append(cs, cmd)[Len(cs) + 1] = cmd
  OBVIOUS

LEMMA MoreWriters ==
    ASSUME NEW S, NEW cs \in Seq(S), NEW cmd \in S, NEW key
    PROVE  /\ Writers(cs, key) \subseteq 1..Len(cs)
           /\ Writes(cmd) /\ cmd.key = key =>
                 Writers(Append(cs, cmd), key) = Writers(cs, key) \cup {Len(cs) + 1}
           /\ ~(Writes(cmd) /\ cmd.key = key) =>
                 Writers(Append(cs, cmd), key) = Writers(cs, key)
<1>1. PICK n \in Nat : n = Len(cs)
  BY OneMore
<1>2. PICK ds : ds = Append(cs, cmd)
  OBVIOUS
<1>3. /\ DOMAIN cs = 1..n /\ DOMAIN ds = 1..(n + 1)
      /\ \A i \in 1..n : ds[i] = cs[i]
      /\ ds[n + 1] = cmd
  BY <1>1, <1>2, OneMore
<1>4. Writers(cs, key) \subseteq 1..n
  BY <1>3 DEF Writers
<1>5. ASSUME Writes(cmd), cmd.key = key PROVE Writers(ds, key) = Writers(cs, key) \cup {n + 1}
  BY <1>3, <1>5 DEF Writers
<1>6. ASSUME ~(Writes(cmd) /\ cmd.key = key) PROVE Writers(ds, key) = Writers(cs, key)
  BY <1>3, <1>6 DEF Writers
<1> QED
  BY <1>1, <1>2, <1>4, <1>5, <1>6

LEMMA WrittenKeys == ASSUME NEW cs, NEW key PROVE key \in Written(cs) <=> Writers(cs, key) # {}
  BY DEF Written, Writers

LEMMA MoreWritten ==
    ASSUME NEW S, NEW cs \in Seq(S), NEW cmd \in S
    PROVE  Written(Append(cs, cmd)) = (IF Writes(cmd) THEN Written(cs) \cup {cmd.key} ELSE Written(cs))
<1>1. ASSUME NEW key PROVE key \in Written(Append(cs, cmd)) <=> key \in Written(cs) \/ (Writes(cmd) /\ cmd.key = key)
  <2>1. key \in Written(cs) <=> Writers(cs, key) # {}
    BY WrittenKeys
  <2>2. key \in Written(Append(cs, cmd)) <=> Writers(Append(cs, cmd), key) # {}
    BY WrittenKeys
  <2>3. CASE Writes(cmd) /\ cmd.key = key
    <3>1. Writers(Append(cs, cmd), key) = Writers(cs, key) \cup {Len(cs) + 1}
      BY <2>3, MoreWriters
    <3> QED
      BY <2>2, <2>3, <3>1
  <2>4. CASE ~(Writes(cmd) /\ cmd.key = key)
    <3>1. Writers(Append(cs, cmd), key) = Writers(cs, key)
      BY <2>4, MoreWriters
    <3> QED
      BY <2>1, <2>2, <2>4, <3>1
  <2> QED
    BY <2>3, <2>4
<1> QED
  BY <1>1

(* A list and a map, when the command at the last position is one of those *)
(* they are made of, and when it is not.                                   *)
LEMMA ListsMore ==
    ASSUME NEW S, NEW cs \in Seq(S), NEW cmd \in S, NEW P \in SUBSET (1..Len(cs)),
           NEW list, list \in Seq(Range(list)), AllListed(list, cs, P)
    PROVE  /\ AllListed(list, Append(cs, cmd), P)
           /\ AllListed(Append(list, cmd.value), Append(cs, cmd), P \cup {Len(cs) + 1})
<1>1. PICK n \in Nat : n = Len(cs)
  BY OneMore
<1>2. PICK ds : ds = Append(cs, cmd)
  OBVIOUS
<1>3. (\A i \in 1..n : ds[i] = cs[i]) /\ ds[n + 1] = cmd
  BY <1>1, <1>2, OneMore
<1>4. IsFiniteSet(P) /\ Cardinality(P) \in Nat /\ n + 1 \notin P
  <2>1. IsFiniteSet(1..n)
    BY <1>1, FS_Interval
  <2>2. P \in SUBSET (1..n) /\ n + 1 \notin 1..n
    BY <1>1
  <2> QED
    BY <2>1, <2>2, FS_Subset, FS_CardinalityType
<1>5. Cardinality(P \cup {n + 1}) = Cardinality(P) + 1
  BY <1>4, FS_AddElement
<1>6. DOMAIN list = 1..Cardinality(P) /\ Len(list) = Cardinality(P)
  BY <1>4 DEF AllListed
<1>7. ASSUME NEW i \in P
      PROVE  /\ {j \in P \cup {n + 1} : j <= i} = {j \in P : j <= i}
             /\ Cardinality({j \in P : j <= i}) \in 1..Cardinality(P)
  <2>1. {j \in P \cup {n + 1} : j <= i} = {j \in P : j <= i}
    BY <1>1
  <2> DEFINE Q == {j \in P : j <= i}
  <2>2. Q \in SUBSET P /\ i \in Q
    BY <1>1
  <2> HIDE DEF Q
  <2>3. IsFiniteSet(Q) /\ Cardinality(Q) \in Nat /\ Cardinality(Q) <= Cardinality(P)
    BY <1>4, <2>2, FS_Subset, FS_CardinalityType
  <2>4. Cardinality(Q) # 0
    BY <2>2, <2>3, FS_EmptySet
  <2>5. Cardinality(Q) \in 1..Cardinality(P)
    BY <1>4, <2>3, <2>4
  <2> QED
    BY <2>1, <2>5 DEF Q
<1>8. {j \in P \cup {n + 1} : j <= n + 1} = P \cup {n + 1}
  <2>1. \A j \in P \cup {n + 1} : j <= n + 1
    BY <1>1
  <2> QED
    BY <2>1, Zenon
<1>9. PICK more : more = Append(list, cmd.value)
  OBVIOUS
<1>10. /\ DOMAIN more = 1..(Cardinality(P) + 1)
       /\ \A i \in 1..Cardinality(P) : more[i] = list[i]
       /\ more[Cardinality(P) + 1] = cmd.value
  <2>1. PICK m \in Nat : m = Cardinality(P)
    BY <1>4
  <2>2. PICK v : v = cmd.value
    OBVIOUS
  <2>3. more = Append(list, v) /\ Len(list) = m
    BY <1>6, <1>9, <2>1, <2>2
  <2>4. list \in Seq(Range(list) \cup {v})
    BY <2>3, <1>6
  <2>5. DOMAIN more = 1..(m + 1) /\ (\A i \in 1..m : more[i] = list[i]) /\ more[m + 1] = v
    BY <2>3, <2>4
  <2> QED
    BY <2>1, <2>2, <2>5
<1>11. AllListed(list, ds, P)
  <2>1. \A i \in P : ds[i] = cs[i]
    BY <1>1, <1>3
  <2> QED
    BY <2>1 DEF AllListed
<1>12. AllListed(more, ds, P \cup {n + 1})
  <2>1. ASSUME NEW i \in P PROVE more[Cardinality({j \in P \cup {n + 1} : j <= i})] = ds[i].value
    <3>1. more[Cardinality({j \in P : j <= i})] = list[Cardinality({j \in P : j <= i})]
      BY <1>7, <1>10
    <3>2. list[Cardinality({j \in P : j <= i})] = cs[i].value
      BY DEF AllListed
    <3>3. ds[i] = cs[i]
      BY <1>1, <1>3
    <3> QED
      BY <1>7, <3>1, <3>2, <3>3
  <2>2. more[Cardinality({j \in P \cup {n + 1} : j <= n + 1})] = ds[n + 1].value
    BY <1>3, <1>5, <1>8, <1>10
  <2>3. DOMAIN more = 1..Cardinality(P \cup {n + 1})
    BY <1>5, <1>10
  <2> QED
    BY <2>1, <2>2, <2>3 DEF AllListed
<1> QED
  BY <1>1, <1>2, <1>9, <1>11, <1>12

LEMMA MapsMore ==
    ASSUME NEW S, NEW cs \in Seq(S), NEW cmd \in S, NEW P \in SUBSET (1..Len(cs)), NEW map, AllMapped(map, cs, P)
    PROVE  /\ AllMapped(map, Append(cs, cmd), P)
           /\ AllMapped([f \in DOMAIN map \cup Range(cmd.fields) |-> IF f \in Range(cmd.fields) THEN cmd.value ELSE map[f]],
                   Append(cs, cmd), P \cup {Len(cs) + 1})
<1>1. PICK n \in Nat : n = Len(cs)
  BY OneMore
<1>2. PICK ds : ds = Append(cs, cmd)
  OBVIOUS
<1>3. (\A i \in 1..n : ds[i] = cs[i]) /\ ds[n + 1] = cmd
  BY <1>1, <1>2, OneMore
<1>4. PICK F : F = Range(cmd.fields)
  OBVIOUS
<1>5. PICK more : more = [f \in DOMAIN map \cup F |-> IF f \in F THEN cmd.value ELSE map[f]]
  OBVIOUS
<1>6. PICK G : G = [i \in 1..(n + 1) |-> Range(ds[i].fields)]
  OBVIOUS
<1>7. /\ \A i \in P : i \in 1..n /\ Range(ds[i].fields) = G[i] /\ Range(cs[i].fields) = G[i] /\ ds[i] = cs[i]
      /\ G[n + 1] = F /\ Range(ds[n + 1].fields) = F /\ n + 1 \notin P
  <2>1. ASSUME NEW i \in P PROVE i \in 1..n /\ Range(ds[i].fields) = G[i] /\ ds[i] = cs[i]
    BY <1>1, <1>3, <1>6
  <2>2. G[n + 1] = Range(ds[n + 1].fields) /\ n + 1 \notin P
    BY <1>1, <1>6
  <2> QED
    BY <1>3, <1>4, <2>1, <2>2
<1>8. /\ DOMAIN map = UNION {G[i] : i \in P}
      /\ \A f \in DOMAIN map : \E i \in P :
            /\ f \in G[i] /\ map[f] = cs[i].value
            /\ \A j \in P : f \in G[j] => j <= i
  <2>1. \A i \in P : Range(cs[i].fields) = G[i]
    BY <1>7
  <2>2. DOMAIN map = UNION {Range(cs[i].fields) : i \in P}
    BY Zenon DEF AllMapped
  <2>3. DOMAIN map = UNION {G[i] : i \in P}
    BY <2>1, <2>2, Zenon
  <2>4. \A f \in DOMAIN map : \E i \in P :
           /\ f \in Range(cs[i].fields) /\ map[f] = cs[i].value
           /\ \A j \in P : f \in Range(cs[j].fields) => j <= i
    BY Zenon DEF AllMapped
  <2> QED
    BY <2>1, <2>3, <2>4, Zenon
<1>9. AllMapped(map, ds, P)
  <2>1. \A i \in P : Range(ds[i].fields) = G[i] /\ cs[i].value = ds[i].value
    BY <1>7
  <2>2. DOMAIN map = UNION {Range(ds[i].fields) : i \in P}
    <3>1. (\A i \in P : Range(ds[i].fields) = G[i]) /\ DOMAIN map = UNION {G[i] : i \in P}
      BY <1>8, <2>1
    <3> QED
      BY <3>1, Zenon
  <2>3. \A f \in DOMAIN map : \E i \in P :
           /\ f \in Range(ds[i].fields) /\ map[f] = ds[i].value
           /\ \A j \in P : f \in Range(ds[j].fields) => j <= i
    BY <1>8, <2>1, Zenon
  <2> QED
    BY <2>2, <2>3, Zenon DEF AllMapped
<1>10. AllMapped(more, ds, P \cup {n + 1})
  <2> DEFINE Q == P \cup {n + 1}
  <2>1. DOMAIN more = UNION {G[i] : i \in Q}
    BY <1>5, <1>7, <1>8
  <2>2. ASSUME NEW f \in DOMAIN more
        PROVE  \E i \in Q :
                  /\ f \in G[i] /\ more[f] = ds[i].value
                  /\ \A j \in Q : f \in G[j] => j <= i
    <3>1. CASE f \in F
      <4>1. more[f] = ds[n + 1].value
        BY <1>3, <1>5, <2>2, <3>1
      <4>2. \A j \in Q : j <= n + 1
        BY <1>7
      <4> QED
        BY <1>7, <3>1, <4>1, <4>2, Zenon
    <3>2. CASE f \notin F
      <4>1. f \in DOMAIN map /\ more[f] = map[f]
        BY <1>5, <2>2, <3>2
      <4>2. PICK i \in P : f \in G[i] /\ map[f] = cs[i].value /\ \A j \in P : f \in G[j] => j <= i
        BY <1>8, <4>1
      <4> QED
        BY <1>7, <3>2, <4>1, <4>2, Zenon
    <3> QED
      BY <3>1, <3>2
  <2>3. \A i \in Q : Range(ds[i].fields) = G[i]
    BY <1>7
  <2> HIDE DEF Q
  <2>4. DOMAIN more = UNION {Range(ds[i].fields) : i \in Q}
    BY <2>1, <2>3, Zenon
  <2>5. AllMapped(more, ds, Q)
    BY <2>2, <2>3, <2>4, Zenon DEF AllMapped
  <2> QED
    BY <2>5 DEF Q
<1> QED
  BY <1>1, <1>2, <1>4, <1>5, <1>9, <1>10

(* The entry of a key the command does not write says what it said.        *)
LEMMA HoldsStill ==
    ASSUME NEW S, NEW cs \in Seq(S), NEW cmd \in S, NEW key, NEW entry, Holds(entry, cs, key),
           ~(Writes(cmd) /\ cmd.key = key)
    PROVE  Holds(entry, Append(cs, cmd), key)
<1>1. PICK ds : ds = Append(cs, cmd)
  OBVIOUS
<1>2. Writers(ds, key) = Writers(cs, key) /\ Writers(cs, key) \subseteq 1..Len(cs)
  BY <1>1, MoreWriters
<1>3. \A i \in Writers(cs, key) : ds[i] = cs[i]
  BY <1>1, <1>2, OneMore
<1>4. PICK first \in Writers(cs, key) :
        /\ \A i \in Writers(cs, key) : first <= i
        /\ entry = Entry(Kind(cs[first]), entry.of)
        /\ entry.kind = "one" => entry.of = cs[first].value
        /\ entry.kind = "list" =>
              /\ entry.of \in Seq(Range(entry.of))
              /\ AllListed(entry.of, cs, {i \in Writers(cs, key) : cs[i].op = cs[first].op})
        /\ entry.kind = "map" => AllMapped(entry.of, cs, {i \in Writers(cs, key) : cs[i].op = cs[first].op})
  BY Zenon DEF Holds
<1>5. PICK P : P = {i \in Writers(cs, key) : cs[i].op = cs[first].op}
  OBVIOUS
<1>6. P \in SUBSET (1..Len(cs)) /\ P = {i \in Writers(ds, key) : ds[i].op = ds[first].op} /\ ds[first] = cs[first]
  BY <1>2, <1>3, <1>4, <1>5
<1>7. entry.kind = "list" => AllListed(entry.of, ds, P)
  BY <1>1, <1>4, <1>5, <1>6, ListsMore
<1>8. entry.kind = "map" => AllMapped(entry.of, ds, P)
  BY <1>1, <1>4, <1>5, <1>6, MapsMore
<1>9. Holds(entry, ds, key)
  BY <1>2, <1>4, <1>6, <1>7, <1>8, Zenon DEF Holds
<1> QED
  BY <1>1, <1>9

(* The entry the first command that writes a key makes.                    *)
LEMMA HoldsFirst ==
    ASSUME NEW S, NEW cs \in Seq(S), NEW cmd \in S, NEW key, key \notin Written(cs), Writes(cmd), cmd.key = key
    PROVE  /\ Kind(cmd) = "one" => Holds(Entry("one", cmd.value), Append(cs, cmd), key)
           /\ Kind(cmd) = "list" => Holds(Entry("list", Append(<<>>, cmd.value)), Append(cs, cmd), key)
           /\ Kind(cmd) = "map" =>
                 Holds(Entry("map", [f \in {} \cup Range(cmd.fields) |->
                           IF f \in Range(cmd.fields) THEN cmd.value ELSE [g \in {} |-> cmd.value][f]]),
                       Append(cs, cmd), key)
<1>1. PICK ds : ds = Append(cs, cmd)
  OBVIOUS
<1>2. PICK n \in Nat : n = Len(cs)
  BY OneMore
<1>3. Writers(ds, key) = {n + 1} /\ ds[n + 1] = cmd
  <2>1. Writers(cs, key) = {}
    BY WrittenKeys
  <2>2. Writers(ds, key) = Writers(cs, key) \cup {n + 1}
    BY <1>1, <1>2, MoreWriters
  <2>3. ds[n + 1] = cmd
    BY <1>1, <1>2, OneMore
  <2> QED
    BY <2>1, <2>2, <2>3, Zenon
<1>4. {i \in Writers(ds, key) : ds[i].op = ds[n + 1].op} = {n + 1} /\ \A i \in Writers(ds, key) : n + 1 <= i
  BY <1>3
<1>5. ASSUME NEW of,
             Kind(cmd) = "one" => of = cmd.value,
             Kind(cmd) = "list" => of \in Seq(Range(of)) /\ AllListed(of, ds, {n + 1}),
             Kind(cmd) = "map" => AllMapped(of, ds, {n + 1})
      PROVE  Holds(Entry(Kind(cmd), of), ds, key)
  <2>1. PICK entry : entry = Entry(Kind(cmd), of)
    OBVIOUS
  <2>2. entry.kind = Kind(cmd) /\ entry.of = of
    BY <2>1 DEF Entry
  <2>3. n + 1 \in Writers(ds, key) /\ entry = Entry(Kind(ds[n + 1]), entry.of)
    BY <1>3, <2>1, <2>2, Zenon
  <2>4. /\ entry.kind = "one" => entry.of = ds[n + 1].value
        /\ entry.kind = "list" => entry.of \in Seq(Range(entry.of)) /\ AllListed(entry.of, ds, {n + 1})
        /\ entry.kind = "map" => AllMapped(entry.of, ds, {n + 1})
    BY <1>3, <1>5, <2>2, Zenon
  <2>5. Holds(entry, ds, key)
    BY <1>4, <2>3, <2>4, Zenon DEF Holds
  <2> QED
    BY <2>1, <2>5
<1>6. ASSUME Kind(cmd) = "list" PROVE Holds(Entry("list", Append(<<>>, cmd.value)), ds, key)
  <2>1. PICK none : none = <<>>
    OBVIOUS
  <2>2. DOMAIN none = {} /\ none \in Seq(Range(none)) /\ DOMAIN none = 1..0
    BY <2>1
  <2>3. AllListed(none, cs, {})
    BY <2>2, FS_EmptySet DEF AllListed
  <2>4. AllListed(Append(none, cmd.value), ds, {} \cup {n + 1})
    BY <1>1, <1>2, <2>2, <2>3, ListsMore
  <2>5. PICK v : v = cmd.value
    OBVIOUS
  <2>6. <<v>> \in Seq(Range(<<v>>)) /\ Append(none, v) = <<v>>
    <3>1. Range(<<v>>) = {v}
      BY DEF Range
    <3> QED
      BY <2>1, <3>1
  <2>7. {} \cup {n + 1} = {n + 1}
    OBVIOUS
  <2>8. Holds(Entry(Kind(cmd), <<v>>), ds, key)
    BY <1>5, <1>6, <2>4, <2>5, <2>6, <2>7
  <2> QED
    BY <1>6, <2>1, <2>5, <2>6, <2>8
<1>7. ASSUME Kind(cmd) = "map"
      PROVE  Holds(Entry("map", [f \in {} \cup Range(cmd.fields) |->
                     IF f \in Range(cmd.fields) THEN cmd.value ELSE [g \in {} |-> cmd.value][f]]), ds, key)
  <2>1. PICK none : none = [g \in {} |-> cmd.value]
    OBVIOUS
  <2>2. DOMAIN none = {}
    BY <2>1
  <2>3. AllMapped(none, cs, {})
    BY <2>2 DEF AllMapped
  <2>4. AllMapped([f \in DOMAIN none \cup Range(cmd.fields) |-> IF f \in Range(cmd.fields) THEN cmd.value ELSE none[f]],
             ds, {} \cup {n + 1})
    BY <1>1, <1>2, <2>3, MapsMore
  <2>5. {} \cup {n + 1} = {n + 1}
    OBVIOUS
  <2>6. PICK of : of = [f \in {} \cup Range(cmd.fields) |-> IF f \in Range(cmd.fields) THEN cmd.value ELSE none[f]]
    OBVIOUS
  <2>7. AllMapped(of, ds, {n + 1})
    BY <2>2, <2>4, <2>5, <2>6, Zenon
  <2>8. Holds(Entry(Kind(cmd), of), ds, key)
    BY <1>5, <1>7, <2>7
  <2> QED
    BY <1>7, <2>1, <2>6, <2>8
<1>8. ASSUME Kind(cmd) = "one" PROVE Holds(Entry("one", cmd.value), ds, key)
  <2>1. Holds(Entry(Kind(cmd), cmd.value), ds, key)
    BY <1>5, <1>8
  <2> QED
    BY <1>8, <2>1
<1> QED
  BY <1>1, <1>6, <1>7, <1>8

(* A sequence of anything, with one more.                                  *)
LEMMA AppendRange ==
    ASSUME NEW s, s \in Seq(Range(s)), NEW x
    PROVE  /\ Append(s, x) \in Seq(Range(Append(s, x)))
           /\ Len(s) \in Nat /\ Len(Append(s, x)) = Len(s) + 1
           /\ \A i \in 1..Len(s) : Append(s, x)[i] = s[i]
           /\ Append(s, x)[Len(s) + 1] = x
<1>1. s \in Seq(Range(s) \cup {x})
  OBVIOUS
<1>2. PICK more : more = Append(s, x)
  OBVIOUS
<1>3. /\ more \in Seq(Range(s) \cup {x}) /\ Len(more) = Len(s) + 1 /\ Len(s) \in Nat
      /\ \A i \in 1..Len(s) : more[i] = s[i]
      /\ more[Len(s) + 1] = x
  BY <1>1, <1>2
<1>4. Len(more) \in Nat /\ DOMAIN more = 1..Len(more) /\ more = [i \in 1..Len(more) |-> more[i]]
  BY <1>3
<1>5. \A i \in 1..Len(more) : more[i] \in Range(more)
  BY <1>4 DEF Range
<1>6. more \in Seq(Range(more))
  BY <1>4, <1>5
<1> QED
  BY <1>2, <1>3, <1>6

(* The entry a later command that writes the key makes of it, if it does   *)
(* not panic.                                                              *)
LEMMA HoldsMore ==
    ASSUME NEW S, NEW cs \in Seq(S), NEW cmd \in S, NEW key, Writes(cmd), cmd.key = key,
           NEW entry, Holds(entry, cs, key)
    PROVE  /\ cmd.op = "SET" => Holds(entry, Append(cs, cmd), key)
           /\ cmd.op = "SADD" /\ entry.kind = "list" =>
                 Holds(Entry("list", Append(entry.of, cmd.value)), Append(cs, cmd), key)
           /\ cmd.op = "HMSET" /\ entry.kind = "map" =>
                 Holds(Entry("map", [f \in DOMAIN entry.of \cup Range(cmd.fields) |->
                           IF f \in Range(cmd.fields) THEN cmd.value ELSE entry.of[f]]),
                       Append(cs, cmd), key)
<1>1. PICK ds : ds = Append(cs, cmd)
  OBVIOUS
<1>2. PICK n \in Nat : n = Len(cs)
  BY OneMore
<1>3. /\ Writers(ds, key) = Writers(cs, key) \cup {n + 1} /\ ds[n + 1] = cmd
      /\ Writers(cs, key) \subseteq 1..n
  BY <1>1, <1>2, MoreWriters, OneMore
<1>4. \A i \in Writers(cs, key) : ds[i] = cs[i] /\ i <= n + 1
  BY <1>1, <1>2, <1>3, OneMore
<1>5. PICK first \in Writers(cs, key) :
        /\ \A i \in Writers(cs, key) : first <= i
        /\ entry = Entry(Kind(cs[first]), entry.of)
        /\ entry.kind = "one" => entry.of = cs[first].value
        /\ entry.kind = "list" =>
              /\ entry.of \in Seq(Range(entry.of))
              /\ AllListed(entry.of, cs, {i \in Writers(cs, key) : cs[i].op = cs[first].op})
        /\ entry.kind = "map" => AllMapped(entry.of, cs, {i \in Writers(cs, key) : cs[i].op = cs[first].op})
  BY Zenon DEF Holds
<1>6. PICK P : P = {i \in Writers(cs, key) : cs[i].op = cs[first].op}
  OBVIOUS
<1>7. PICK Q : Q = {i \in Writers(ds, key) : ds[i].op = ds[first].op}
  OBVIOUS
<1>8. /\ P \in SUBSET (1..Len(cs)) /\ first \in Writers(ds, key) /\ ds[first] = cs[first]
      /\ \A i \in Writers(ds, key) : first <= i
      /\ cmd.op # cs[first].op => Q = P
      /\ cmd.op = cs[first].op => Q = P \cup {n + 1}
  <2>1. P \in SUBSET (1..Len(cs)) /\ first \in Writers(ds, key) /\ ds[first] = cs[first]
    BY <1>2, <1>3, <1>4, <1>5, <1>6
  <2>2. \A i \in Writers(ds, key) : first <= i
    BY <1>3, <1>4, <1>5
  <2>3. ASSUME cmd.op # cs[first].op PROVE Q = P
    BY <1>3, <1>4, <1>6, <1>7, <2>1, <2>3
  <2>4. ASSUME cmd.op = cs[first].op PROVE Q = P \cup {n + 1}
    BY <1>3, <1>4, <1>6, <1>7, <2>1, <2>4
  <2> QED
    BY <2>1, <2>2, <2>3, <2>4
<1>9. entry.kind = Kind(cs[first])
  <2>1. PICK k : k = Kind(cs[first])
    OBVIOUS
  <2> QED
    BY <1>5, <2>1 DEF Entry
<1>10. ASSUME NEW of,
              entry.kind = "one" => of = cs[first].value,
              entry.kind = "list" => of \in Seq(Range(of)) /\ AllListed(of, ds, Q),
              entry.kind = "map" => AllMapped(of, ds, Q)
       PROVE  Holds(Entry(entry.kind, of), ds, key)
  <2>1. PICK e : e = Entry(entry.kind, of)
    OBVIOUS
  <2>2. e.kind = entry.kind /\ e.of = of
    BY <2>1 DEF Entry
  <2>3. Holds(e, ds, key)
    BY <1>7, <1>8, <1>9, <1>10, <2>1, <2>2, Zenon DEF Holds
  <2> QED
    BY <2>1, <2>3
<1>11. ASSUME cmd.op = "SET" PROVE Holds(entry, ds, key)
  <2>1. cs[first].op = "SADD" <=> entry.kind = "list"
    BY <1>9 DEF Kind
  <2>2. cs[first].op = "HMSET" <=> entry.kind = "map"
    BY <1>9 DEF Kind
  <2>3. entry.kind = "list" => AllListed(entry.of, ds, Q)
    BY <1>1, <1>5, <1>6, <1>8, <1>11, <2>1, ListsMore
  <2>4. entry.kind = "map" => AllMapped(entry.of, ds, Q)
    BY <1>1, <1>5, <1>6, <1>8, <1>11, <2>2, MapsMore
  <2>5. Holds(Entry(entry.kind, entry.of), ds, key)
    BY <1>5, <1>10, <2>3, <2>4
  <2> QED
    BY <1>5, <1>9, <2>5
<1>12. ASSUME cmd.op = "SADD", entry.kind = "list" PROVE Holds(Entry("list", Append(entry.of, cmd.value)), ds, key)
  <2>1. cs[first].op = "SADD"
    BY <1>9, <1>12 DEF Kind
  <2>2. PICK list : list = entry.of
    OBVIOUS
  <2>0. AllListed(list, cs, P) /\ list \in Seq(Range(list)) /\ Q = P \cup {Len(cs) + 1}
    BY <1>2, <1>5, <1>6, <1>8, <1>12, <2>1, <2>2
  <2>3. AllListed(Append(list, cmd.value), ds, Q)
    BY <1>1, <1>8, <2>0, ListsMore
  <2>4. PICK v : v = cmd.value
    OBVIOUS
  <2>5. Append(list, v) \in Seq(Range(Append(list, v)))
    BY <2>0, AppendRange
  <2>6. Holds(Entry(entry.kind, Append(list, v)), ds, key)
    BY <1>10, <1>12, <2>3, <2>4, <2>5
  <2> QED
    BY <1>12, <2>2, <2>4, <2>6
<1>13. ASSUME cmd.op = "HMSET", entry.kind = "map"
       PROVE  Holds(Entry("map", [f \in DOMAIN entry.of \cup Range(cmd.fields) |->
                     IF f \in Range(cmd.fields) THEN cmd.value ELSE entry.of[f]]), ds, key)
  <2>1. cs[first].op = "HMSET"
    BY <1>9, <1>13 DEF Kind
  <2>2. PICK map : map = entry.of
    OBVIOUS
  <2>3. PICK of : of = [f \in DOMAIN map \cup Range(cmd.fields) |-> IF f \in Range(cmd.fields) THEN cmd.value ELSE map[f]]
    OBVIOUS
  <2>4. AllMapped(map, cs, P) /\ Q = P \cup {Len(cs) + 1}
    BY <1>2, <1>5, <1>6, <1>8, <1>13, <2>1, <2>2
  <2>5. AllMapped(of, ds, Q)
    BY <1>1, <1>8, <2>3, <2>4, MapsMore
  <2>6. Holds(Entry(entry.kind, of), ds, key)
    BY <1>10, <1>13, <2>5
  <2> QED
    BY <1>13, <2>2, <2>3, <2>6
<1> QED
  BY <1>1, <1>11, <1>12, <1>13

(* A record starts empty, and a command changes it as the list of the      *)
(* commands does, unless it panics.                                        *)
LEMMA RecordedEmpty == Recorded(NewInterRecord, <<>>) /\ NewInterRecord.compressFields = FALSE
<1>1. Written(<<>>) = {}
  BY DEF Written
<1>2. IsRecord(NewInterRecord) /\ NewInterRecord.types = 0 /\ NewInterRecord.compressFields = FALSE
  BY DEF IsRecord, NewInterRecord
<1>3. NewInterRecord.data = [key \in {} |-> NewInterRecord.data[key]]
  BY DEF NewInterRecord
<1>4. Valued(<<>>)
  BY DEF Valued
<1> QED
  BY <1>1, <1>2, <1>3, <1>4 DEF Recorded

LEMMA ValuedMore ==
    ASSUME NEW S, NEW cs \in Seq(S), NEW cmd \in S, Valued(cs), IsValue(cmd.value), cmd.op \in {"SET", "SADD", "HMSET"}
    PROVE  Valued(Append(cs, cmd))
<1>1. PICK ds : ds = Append(cs, cmd)
  OBVIOUS
<1>2. PICK n \in Nat : n = Len(cs)
  BY OneMore
<1>3. DOMAIN cs = 1..n /\ DOMAIN ds = 1..(n + 1) /\ (\A i \in 1..n : ds[i] = cs[i]) /\ ds[n + 1] = cmd
  BY <1>1, <1>2, OneMore
<1>4. ASSUME NEW i \in DOMAIN ds PROVE IsValue(ds[i].value) /\ ds[i].op \in {"SET", "SADD", "HMSET"}
  <2>1. CASE i = n + 1
    BY <1>3, <2>1
  <2>2. CASE i # n + 1
    BY <1>3, <2>2 DEF Valued
  <2> QED
    BY <2>1, <2>2
<1> QED
  BY <1>1, <1>4 DEF Valued

LEMMA AssignRecorded ==
    ASSUME NEW S, NEW cs \in Seq(S), NEW cmd \in S, NEW r, Recorded(r, cs), Writes(cmd), IsValue(cmd.value),
           cmd.op \in {"SET", "SADD", "HMSET"}, NEW entry, Holds(entry, Append(cs, cmd), cmd.key), entry.kind = "one" => entry.of = cmd.value
    PROVE  Recorded(Assign(r, cmd.key, entry, cmd.value), Append(cs, cmd))
<1>1. PICK x : x = Assign(r, cmd.key, entry, cmd.value)
  OBVIOUS
<1>2. PICK ds : ds = Append(cs, cmd)
  OBVIOUS
<1>3. Written(ds) = Written(cs) \cup {cmd.key}
  BY <1>2, MoreWritten
<1>4. /\ IsRecord(x) /\ x.types = 0
      /\ (x.compressFields <=> r.compressFields \/ cmd.value.bytes)
      /\ x.data = [k \in Written(ds) |-> IF k = cmd.key THEN entry ELSE r.data[k]]
  <2>1. DOMAIN r.data = Written(cs)
    BY DEF Recorded
  <2>2. /\ IsRecord(x) /\ x.types = r.types
        /\ (x.compressFields <=> r.compressFields \/ cmd.value.bytes)
        /\ x.data = [k \in DOMAIN r.data \cup {cmd.key} |-> IF k = cmd.key THEN entry ELSE r.data[k]]
    <3>1. PICK v : v = cmd.value
      OBVIOUS
    <3>2. IsRecord(r) /\ v.bytes \in BOOLEAN /\ x = Assign(r, cmd.key, entry, v)
      BY <1>1, <3>1 DEF Recorded, IsValue
    <3>5. PICK d : d = [k \in DOMAIN r.data \cup {cmd.key} |-> IF k = cmd.key THEN entry ELSE r.data[k]]
      OBVIOUS
    <3>4. x = [types |-> r.types, raw |-> r.raw, lent |-> r.lent,
               compressFields |-> r.compressFields \/ v.bytes, data |-> d]
      BY <3>2, <3>5 DEF Assign, IsRecord
    <3>3. /\ IsRecord(x) /\ x.types = r.types
          /\ (x.compressFields <=> r.compressFields \/ v.bytes)
          /\ x.data = [k \in DOMAIN r.data \cup {cmd.key} |-> IF k = cmd.key THEN entry ELSE r.data[k]]
      BY <3>2, <3>4, <3>5 DEF IsRecord
    <3> QED
      BY <3>1, <3>3
  <2> QED
    BY <1>3, <2>1, <2>2 DEF Recorded
<1>5. ASSUME NEW k \in Written(ds)
      PROVE  /\ Holds(x.data[k], ds, k)
             /\ x.data[k].kind = "one" => IsValue(x.data[k].of) /\ (x.data[k].of.bytes => x.compressFields)
  <2>1. CASE k = cmd.key
    <3>1. x.data[k] = entry
      BY <1>4, <1>5, <2>1
    <3> QED
      BY <1>2, <1>4, <2>1, <3>1 DEF IsValue
  <2>2. CASE k # cmd.key
    <3>1. x.data[k] = r.data[k] /\ k \in Written(cs)
      BY <1>3, <1>4, <1>5, <2>2
    <3>2. /\ Holds(r.data[k], cs, k)
          /\ r.data[k].kind = "one" => IsValue(r.data[k].of) /\ (r.data[k].of.bytes => r.compressFields)
      BY <3>1 DEF Recorded
    <3>3. Holds(r.data[k], ds, k)
      BY <1>2, <2>2, <3>2, HoldsStill
    <3> QED
      BY <1>4, <3>1, <3>2, <3>3
  <2> QED
    BY <2>1, <2>2
<1>6. x.data = [k \in Written(ds) |-> x.data[k]]
  BY <1>4
<1>7. Valued(ds)
  BY <1>2, ValuedMore DEF Recorded
<1>8. Recorded(x, ds)
  BY <1>4, <1>5, <1>6, <1>7 DEF Recorded
<1> QED
  BY <1>1, <1>2, <1>8

LEMMA RecordedStep ==
    ASSUME NEW S, NEW cs \in Seq(S), NEW cmd \in S, NEW r, Recorded(r, cs), IsValue(cmd.value),
           cmd.op \in {"SET", "SADD", "HMSET"}, ~Panics(r, cmd)
    PROVE  /\ Recorded(Apply(r, cmd), Append(cs, cmd))
           /\ ~r.compressFields /\ ~cmd.value.bytes => ~Apply(r, cmd).compressFields
<1>1. PICK ds : ds = Append(cs, cmd)
  OBVIOUS
<1>2. PICK key : key = cmd.key
  OBVIOUS
<1>3. DOMAIN r.data = Written(cs) /\ IsRecord(r) /\ cmd.value.bytes \in BOOLEAN
  BY DEF Recorded, IsValue
<1>4. ASSUME NEW entry PROVE Assign(r, key, entry, cmd.value).compressFields <=> r.compressFields \/ cmd.value.bytes
  <2>1. PICK v : v = cmd.value
    OBVIOUS
  <2>2. Assign(r, key, entry, v).compressFields <=> r.compressFields \/ v.bytes
    BY <1>3, <2>1 DEF Assign, IsRecord
  <2> QED
    BY <2>1, <2>2
<1>5. ASSUME Written(ds) = Written(cs), \A k \in Written(cs) : Holds(r.data[k], ds, k)
      PROVE  Recorded(r, ds)
  <2>1. Valued(ds)
    BY <1>1, ValuedMore DEF Recorded
  <2> QED
    BY <1>5, <2>1 DEF Recorded
<1>6. ASSUME ~Writes(cmd) PROVE Recorded(r, ds) /\ Apply(r, cmd) = r
  <2>1. Written(ds) = Written(cs)
    BY <1>1, <1>6, MoreWritten
  <2>2. ASSUME NEW k \in Written(cs) PROVE Holds(r.data[k], ds, k)
    <3>1. Holds(r.data[k], cs, k)
      BY DEF Recorded
    <3> QED
      BY <1>1, <1>6, <3>1, HoldsStill
  <2>3. Apply(r, cmd) = r
    BY <1>6 DEF Apply, Writes
  <2> QED
    BY <1>5, <2>1, <2>2, <2>3
<1>7. ASSUME Writes(cmd), cmd.op = "SET", Has(r, key) PROVE Recorded(r, ds) /\ Apply(r, cmd) = r
  <2>1. Written(ds) = Written(cs)
    <3>1. key \in Written(cs)
      BY <1>3, <1>7 DEF Has
    <3>2. Written(ds) = Written(cs) \cup {key}
      BY <1>1, <1>2, <1>7, MoreWritten
    <3> QED
      BY <3>1, <3>2
  <2>2. ASSUME NEW k \in Written(cs) PROVE Holds(r.data[k], ds, k)
    <3>1. Holds(r.data[k], cs, k)
      BY DEF Recorded
    <3>2. CASE k = cmd.key
      BY <1>1, <1>7, <3>1, <3>2, HoldsMore
    <3>3. CASE k # cmd.key
      BY <1>1, <3>1, <3>3, HoldsStill
    <3> QED
      BY <3>2, <3>3
  <2>3. Apply(r, cmd) = r
    BY <1>2, <1>7 DEF Apply, Add
  <2> QED
    BY <1>5, <2>1, <2>2, <2>3
<1>8. ASSUME NEW entry, Writes(cmd), Apply(r, cmd) = Assign(r, key, entry, cmd.value),
             Holds(entry, ds, key), entry.kind = "one" => entry.of = cmd.value
      PROVE  /\ Recorded(Apply(r, cmd), ds)
             /\ ~r.compressFields /\ ~cmd.value.bytes => ~Apply(r, cmd).compressFields
  <2>1. Recorded(Assign(r, key, entry, cmd.value), ds)
    BY <1>1, <1>2, <1>8, AssignRecorded
  <2> QED
    BY <1>3, <1>4, <1>8, <2>1 DEF IsRecord
<1>9. CASE Writes(cmd) /\ ~Has(r, key)
  <2>0. key \notin Written(cs)
    BY <1>3, <1>9 DEF Has
  <2>1. CASE cmd.op = "SET"
    <3>1. PICK e : e = Entry("one", cmd.value)
      OBVIOUS
    <3>2. Apply(r, cmd) = Assign(r, key, e, cmd.value) /\ e.of = cmd.value
      BY <1>2, <1>9, <2>1, <3>1 DEF Apply, Add, Entry
    <3>3. Holds(e, ds, key)
      BY <1>1, <1>2, <1>9, <2>0, <2>1, <3>1, HoldsFirst DEF Kind
    <3> QED
      BY <1>1, <1>8, <1>9, <3>2, <3>3
  <2>2. CASE cmd.op = "SADD"
    <3>1. PICK e : e = Entry("list", Append(<<>>, cmd.value))
      OBVIOUS
    <3>2. Apply(r, cmd) = Assign(r, key, e, cmd.value) /\ e.kind = "list"
      BY <1>2, <1>9, <2>2, <3>1 DEF Apply, Sadd, Entry
    <3>3. Holds(e, ds, key)
      BY <1>1, <1>2, <1>9, <2>0, <2>2, <3>1, HoldsFirst DEF Kind
    <3> QED
      BY <1>1, <1>8, <1>9, <3>2, <3>3
  <2>3. CASE cmd.op = "HMSET"
    <3>1. PICK e : e = Entry("map", [f \in {} \cup Range(cmd.fields) |->
                          IF f \in Range(cmd.fields) THEN cmd.value ELSE [g \in {} |-> cmd.value][f]])
      OBVIOUS
    <3>2. e.kind = "map"
      BY <3>1 DEF Entry
    <3>3. Apply(r, cmd) = Assign(r, key, e, cmd.value)
      <4>1. Apply(r, cmd) = Mhset(r, key, Range(cmd.fields), cmd.value)
        BY <1>2, <1>9, <2>3 DEF Apply, Writes
      <4>2. PICK none : none = [g \in {} |-> cmd.value]
        OBVIOUS
      <4>3. DOMAIN none = {}
        BY <4>2
      <4>4. Apply(r, cmd) =
              Assign(r, key, Entry("map", [f \in DOMAIN none \cup Range(cmd.fields) |->
                                 IF f \in Range(cmd.fields) THEN cmd.value ELSE none[f]]), cmd.value)
        BY <1>9, <4>1, <4>2, Zenon DEF Mhset
      <4> QED
        BY <3>1, <4>2, <4>3, <4>4, Zenon
    <3>4. Holds(e, ds, key)
      BY <1>1, <1>2, <1>9, <2>0, <2>3, <3>1, HoldsFirst DEF Kind
    <3> QED
      BY <1>1, <1>8, <1>9, <3>2, <3>3, <3>4
  <2> QED
    BY <2>1, <2>2, <2>3
<1>10. CASE Writes(cmd) /\ Has(r, key) /\ cmd.op # "SET"
  <2>0. Holds(r.data[key], cs, key)
    BY <1>3, <1>10 DEF Recorded, Has
  <2>1. CASE cmd.op = "SADD"
    <3>1. PICK e : e = Entry("list", Append(r.data[key].of, cmd.value))
      OBVIOUS
    <3>2. Apply(r, cmd) = Assign(r, key, e, cmd.value) /\ e.kind = "list"
      BY <1>2, <1>10, <2>1, <3>1 DEF Apply, Sadd, Entry
    <3>3. r.data[key].kind = "list"
      BY <1>2, <1>10, <2>1 DEF Panics, Asserts
    <3>4. Holds(e, ds, key)
      BY <1>1, <1>2, <1>10, <2>0, <2>1, <3>1, <3>3, HoldsMore
    <3> QED
      BY <1>1, <1>8, <1>10, <3>2, <3>4
  <2>2. CASE cmd.op = "HMSET"
    <3>1. PICK e : e = Entry("map", [f \in DOMAIN r.data[key].of \cup Range(cmd.fields) |->
                          IF f \in Range(cmd.fields) THEN cmd.value ELSE r.data[key].of[f]])
      OBVIOUS
    <3>2. e.kind = "map"
      BY <3>1 DEF Entry
    <3>3. Apply(r, cmd) = Assign(r, key, e, cmd.value)
      <4>1. Apply(r, cmd) = Mhset(r, key, Range(cmd.fields), cmd.value)
        BY <1>2, <1>10, <2>2 DEF Apply, Writes
      <4> QED
        BY <1>10, <3>1, <4>1, Zenon DEF Mhset
    <3>4. r.data[key].kind = "map"
      BY <1>2, <1>10, <2>2 DEF Panics, Asserts, Writes
    <3>5. Holds(e, ds, key)
      BY <1>1, <1>2, <1>10, <2>0, <2>2, <3>1, <3>4, HoldsMore
    <3> QED
      BY <1>1, <1>8, <1>10, <3>2, <3>3, <3>5
  <2> QED
    BY <1>10, <2>1, <2>2
<1> QED
  BY <1>1, <1>6, <1>7, <1>9, <1>10

(* A prefix of the commands, and those of them that write a key.           *)
LEMMA PrefixSeq ==
    ASSUME NEW S, NEW cs \in Seq(S), NEW t \in 0..Len(cs)
    PROVE  /\ SubSeq(cs, 1, t) \in Seq(S) /\ DOMAIN SubSeq(cs, 1, t) = 1..t /\ Len(SubSeq(cs, 1, t)) = t
           /\ \A i \in 1..t : i \in DOMAIN cs /\ SubSeq(cs, 1, t)[i] = cs[i]
<1>1. PICK ps : ps = SubSeq(cs, 1, t)
  OBVIOUS
<1>2. ps \in Seq(S) /\ Len(ps) = t /\ \A i \in 1..t : ps[i] = cs[i]
  BY <1>1
<1>3. \A i \in 1..t : i \in DOMAIN cs
  OBVIOUS
<1>4. DOMAIN ps = 1..t
  BY <1>2
<1> QED
  BY <1>1, <1>2, <1>3, <1>4

LEMMA WholeSeq ==
    ASSUME NEW S, NEW s \in Seq(S)
    PROVE  SubSeq(s, 1, Len(s)) = s
<1>1. PICK t : t = SubSeq(s, 1, Len(s))
  OBVIOUS
<1>2. t \in Seq(S) /\ Len(t) = Len(s) /\ \A i \in 1..Len(s) : t[i] = s[i]
  BY <1>1
<1> QED
  BY <1>1, <1>2

LEMMA PrefixWriters ==
    ASSUME NEW S, NEW cs \in Seq(S), NEW t \in 0..Len(cs), NEW key
    PROVE  /\ Writers(cs, key) \subseteq 1..Len(cs)
           /\ Writers(SubSeq(cs, 1, t), key) = UpTo(Writers(cs, key), t)
           /\ \A op : WritersBy(op, SubSeq(cs, 1, t), key) = UpTo(WritersBy(op, cs, key), t)
<1>1. PICK ps : ps = SubSeq(cs, 1, t)
  OBVIOUS
<1>2. DOMAIN ps = 1..t /\ DOMAIN cs = 1..Len(cs) /\ Len(cs) \in Nat /\ \A i \in 1..t : ps[i] = cs[i]
  BY <1>1, PrefixSeq
<1>3. Writers(cs, key) \subseteq 1..Len(cs)
  BY <1>2 DEF Writers
<1>4. Writers(ps, key) = UpTo(Writers(cs, key), t)
  BY <1>2 DEF Writers, UpTo
<1>5. ASSUME NEW op PROVE WritersBy(op, ps, key) = UpTo(WritersBy(op, cs, key), t)
  <2>1. \A i \in UpTo(Writers(cs, key), t) : ps[i] = cs[i]
    BY <1>2, <1>3 DEF UpTo
  <2> QED
    BY <1>4, <2>1 DEF WritersBy, UpTo
<1> QED
  BY <1>1, <1>3, <1>4, <1>5

LEMMA PrefixWritten ==
    ASSUME NEW S, NEW cs \in Seq(S), NEW t \in 0..Len(cs), NEW n \in 0..t
    PROVE  Written(SubSeq(cs, 1, n)) \subseteq Written(SubSeq(cs, 1, t)) /\ Written(SubSeq(cs, 1, t)) \subseteq Written(cs)
<1>1. ASSUME NEW key PROVE /\ key \in Written(SubSeq(cs, 1, n)) => key \in Written(SubSeq(cs, 1, t))
                           /\ key \in Written(SubSeq(cs, 1, t)) => key \in Written(cs)
  <2>1. n \in 0..Len(cs)
    OBVIOUS
  <2>2. Writers(SubSeq(cs, 1, n), key) = UpTo(Writers(cs, key), n) /\ Writers(SubSeq(cs, 1, t), key) = UpTo(Writers(cs, key), t)
    BY <2>1, PrefixWriters
  <2>3. Writers(cs, key) \subseteq 1..Len(cs)
    BY <2>1, PrefixWriters
  <2>4. UpTo(Writers(cs, key), n) \subseteq UpTo(Writers(cs, key), t) /\ UpTo(Writers(cs, key), t) \subseteq Writers(cs, key)
    BY <2>3 DEF UpTo
  <2> QED
    BY <2>2, <2>4, WrittenKeys
<1> QED
  BY <1>1

(* What a record that holds the first t commands says of the first n.  One *)
(* value may have been compressed, a map may be mixed of several.          *)
LEMMA PrefixTells ==
    ASSUME NEW S, NEW cs \in Seq(S), Valued(cs), NEW n \in 0..Len(cs), NEW t \in n..Len(cs),
           NEW key \in Written(SubSeq(cs, 1, n)), NEW e, Holds(e, SubSeq(cs, 1, t), key), NEW d, d.kind = e.kind,
           e.kind = "one" => d.of.v = e.of.v /\ d.of.gz = (IF e.of.bytes THEN 1 ELSE 0),
           e.kind = "list" => d.of = e.of,
           e.kind = "map" => Maps(d.of, cs, WritersBy("HMSET", cs, key), n)
    PROVE  Tells(d, cs, key, n)
<1>0. t \in 0..Len(cs) /\ Len(cs) \in Nat /\ DOMAIN cs = 1..Len(cs)
  OBVIOUS
<1>1. PICK ps : ps = SubSeq(cs, 1, t)
  OBVIOUS
<1>2. DOMAIN ps = 1..t /\ \A i \in 1..t : i \in DOMAIN cs /\ ps[i] = cs[i]
  BY <1>0, <1>1, PrefixSeq
<1>3. PICK W : W = Writers(cs, key)
  OBVIOUS
<1>4. W \subseteq 1..Len(cs) /\ Writers(ps, key) = UpTo(W, t) /\ Writers(SubSeq(cs, 1, n), key) = UpTo(W, n)
  BY <1>0, <1>1, <1>3, PrefixWriters
<1>5. PICK first \in UpTo(W, t) :
          /\ \A i \in UpTo(W, t) : first <= i
          /\ e = Entry(Kind(ps[first]), e.of)
          /\ e.kind = "one" => e.of = ps[first].value
          /\ e.kind = "list" => AllListed(e.of, ps, {i \in UpTo(W, t) : ps[i].op = ps[first].op})
  BY <1>1, <1>4, ZenonT(30) DEF Holds
<1>6. first \in UpTo(W, n) /\ first \in W /\ first \in 1..t
  <2>1. PICK i \in UpTo(W, n) : TRUE
    BY <1>4, WrittenKeys
  <2>2. i \in W /\ i <= n /\ i \in 1..Len(cs)
    BY <1>4, <2>1 DEF UpTo
  <2>3. i \in UpTo(W, t)
    BY <1>0, <2>2 DEF UpTo
  <2>4. first \in W /\ first \in 1..Len(cs) /\ first <= t
    BY <1>4, <1>5 DEF UpTo
  <2>5. first <= n
    BY <1>5, <2>2, <2>3, <2>4
  <2> QED
    BY <2>4, <2>5 DEF UpTo
<1>7. ps[first] = cs[first] /\ IsValue(cs[first].value) /\ cs[first].op \in {"SET", "SADD", "HMSET"}
  BY <1>2, <1>6 DEF Valued
<1>8. e.kind = Kind(cs[first]) /\ d.kind = Kind(cs[first])
  BY <1>5, <1>7 DEF Entry
<1>9. \E i \in UpTo(Writers(cs, key), n) : d.kind = Kind(cs[i])
  BY <1>3, <1>6, <1>8
<1>10. d.kind = "one" => \E i \in WritersBy("SET", cs, key) :
          d.of.v = cs[i].value.v /\ d.of.gz = IF cs[i].value.bytes THEN 1 ELSE 0
  <2> SUFFICES ASSUME d.kind = "one" PROVE \E i \in WritersBy("SET", cs, key) :
          d.of.v = cs[i].value.v /\ d.of.gz = IF cs[i].value.bytes THEN 1 ELSE 0
    OBVIOUS
  <2>1. cs[first].op = "SET"
    BY <1>7, <1>8 DEF Kind
  <2>2. first \in WritersBy("SET", cs, key)
    BY <1>3, <1>6, <2>1 DEF WritersBy
  <2>3. e.of = cs[first].value
    BY <1>5, <1>7
  <2> QED
    BY <2>2, <2>3
<1>11. d.kind = "list" => \E m \in n..Len(cs) : Lists(d.of, cs, UpTo(WritersBy("SADD", cs, key), m))
  <2> SUFFICES ASSUME d.kind = "list" PROVE Lists(d.of, cs, UpTo(WritersBy("SADD", cs, key), t))
    OBVIOUS
  <2>1. cs[first].op = "SADD"
    BY <1>7, <1>8 DEF Kind
  <2>2. PICK P : P = UpTo(WritersBy("SADD", cs, key), t)
    OBVIOUS
  <2>3. P = {i \in UpTo(W, t) : ps[i].op = ps[first].op}
    <3>1. \A i \in UpTo(W, t) : ps[i] = cs[i]
      BY <1>2, <1>4 DEF UpTo
    <3> QED
      BY <1>3, <1>7, <2>1, <2>2, <3>1 DEF WritersBy, UpTo
  <2>4. AllListed(d.of, ps, P)
    BY <1>5, <2>3
  <2>5. ASSUME NEW i \in P PROVE IsGiven(d.of[Cardinality(UpTo(P, i))], cs[i].value)
    <3>1. i \in 1..t
      BY <1>4, <2>3 DEF UpTo
    <3>2. d.of[Cardinality({j \in P : j <= i})] = cs[i].value /\ IsValue(cs[i].value)
      BY <1>2, <2>4, <3>1 DEF AllListed, Valued
    <3>3. PICK value : value = cs[i].value
      OBVIOUS
    <3>4. value.gz = 0 /\ value.bytes \in BOOLEAN
      BY <3>2, <3>3 DEF IsValue, Value
    <3>5. IsGiven(value, value)
      BY <3>4 DEF IsGiven
    <3> QED
      BY <3>2, <3>3, <3>5 DEF UpTo
  <2> QED
    BY <2>2, <2>4, <2>5 DEF Lists, AllListed
<1>12. d.kind = "map" => Maps(d.of, cs, WritersBy("HMSET", cs, key), n)
  OBVIOUS
<1> QED
  BY <1>9, <1>10, <1>11, <1>12, Zenon DEF Tells

(* A map that is mixed of maps which hold the first n commands, and more   *)
(* of them or less.                                                        *)
LEMMA MixedTells ==
    ASSUME NEW S, NEW cs \in Seq(S), Valued(cs), NEW n \in 0..Len(cs), NEW W, W \subseteq DOMAIN cs, NEW M, M # {},
           \A x \in M : \E t \in n..Len(cs) : AllMapped(x, SubSeq(cs, 1, t), UpTo(W, t)),
           NEW m, DOMAIN m \subseteq Ever(M), \A f \in Ever(M) : (\A x \in M : f \in DOMAIN x) => f \in DOMAIN m,
           \A f \in DOMAIN m : m[f] \in Found(M, f)
    PROVE  Maps(m, cs, W, n)
<1>0. Len(cs) \in Nat /\ DOMAIN cs = 1..Len(cs)
  OBVIOUS
<1>1. ASSUME NEW x \in M
      PROVE  \E t \in n..Len(cs) :
          /\ DOMAIN x = FieldsOf(cs, UpTo(W, t)) /\ UpTo(W, n) \subseteq UpTo(W, t)
          /\ \A f \in DOMAIN x : \E i \in UpTo(W, t) :
                /\ f \in Range(cs[i].fields) /\ x[f] = cs[i].value
                /\ \A j \in UpTo(W, t) : f \in Range(cs[j].fields) => j <= i
  <2>1. PICK t \in n..Len(cs) : AllMapped(x, SubSeq(cs, 1, t), UpTo(W, t))
    OBVIOUS
  <2>2. t \in 0..Len(cs)
    BY <1>0
  <2>3. PICK ps : ps = SubSeq(cs, 1, t)
    OBVIOUS
  <2>4. \A i \in UpTo(W, t) : ps[i] = cs[i]
    <3>1. UpTo(W, t) \subseteq 1..t
      BY <1>0, <2>2 DEF UpTo
    <3> QED
      BY <2>2, <2>3, <3>1, PrefixSeq
  <2>5. UpTo(W, n) \subseteq UpTo(W, t)
    BY <1>0 DEF UpTo
  <2>6. /\ DOMAIN x = UNION {Range(ps[i].fields) : i \in UpTo(W, t)}
        /\ \A f \in DOMAIN x : \E i \in UpTo(W, t) :
              /\ f \in Range(ps[i].fields) /\ x[f] = ps[i].value
              /\ \A j \in UpTo(W, t) : f \in Range(ps[j].fields) => j <= i
    <3>1. PICK P : P = UpTo(W, t)
      OBVIOUS
    <3>2. AllMapped(x, ps, P)
      BY <2>1, <2>3, <3>1
    <3>3. DOMAIN x = UNION {Range(ps[i].fields) : i \in P}
      BY <3>2, Zenon DEF AllMapped
    <3>4. \A f \in DOMAIN x : \E i \in P :
              /\ f \in Range(ps[i].fields) /\ x[f] = ps[i].value
              /\ \A j \in P : f \in Range(ps[j].fields) => j <= i
      BY <3>2, Zenon DEF AllMapped
    <3> QED
      BY <3>1, <3>3, <3>4, Zenon
  <2>7. DOMAIN x = FieldsOf(cs, UpTo(W, t))
    BY <2>4, <2>6 DEF FieldsOf
  <2>8. ASSUME NEW f \in DOMAIN x
        PROVE  \E i \in UpTo(W, t) :
                  /\ f \in Range(cs[i].fields) /\ x[f] = cs[i].value
                  /\ \A j \in UpTo(W, t) : f \in Range(cs[j].fields) => j <= i
    <3>1. PICK i \in UpTo(W, t) :
              /\ f \in Range(ps[i].fields) /\ x[f] = ps[i].value
              /\ \A j \in UpTo(W, t) : f \in Range(ps[j].fields) => j <= i
      BY <2>6, <2>8
    <3>2. f \in Range(cs[i].fields) /\ x[f] = cs[i].value
      BY <2>4, <3>1
    <3>3. \A j \in UpTo(W, t) : f \in Range(cs[j].fields) => j <= i
      BY <2>4, <3>1
    <3> QED
      BY <3>2, <3>3
  <2> QED
    BY <2>5, <2>7, <2>8
<1>2. DOMAIN m \subseteq FieldsOf(cs, W)
  <2>1. ASSUME NEW x \in M PROVE DOMAIN x \subseteq FieldsOf(cs, W)
    <3>1. PICK t \in n..Len(cs) : DOMAIN x = FieldsOf(cs, UpTo(W, t))
      BY <1>1
    <3> QED
      BY <3>1 DEF FieldsOf, UpTo
  <2> QED
    BY <2>1 DEF Ever
<1>3. ASSUME NEW f \in FieldsOf(cs, UpTo(W, n))
      PROVE  /\ f \in DOMAIN m
             /\ \E i \in W : /\ f \in Range(cs[i].fields) /\ IsGiven(m[f], cs[i].value)
                             /\ \A j \in UpTo(W, n) : f \in Range(cs[j].fields) => j <= i
  <2>1. ASSUME NEW x \in M PROVE f \in DOMAIN x
    <3>1. PICK t \in n..Len(cs) : DOMAIN x = FieldsOf(cs, UpTo(W, t)) /\ UpTo(W, n) \subseteq UpTo(W, t)
      BY <1>1
    <3> QED
      BY <1>3, <3>1 DEF FieldsOf
  <2>2. f \in Ever(M) /\ f \in DOMAIN m
    BY <2>1 DEF Ever
  <2>3. PICK x \in M : m[f] = x[f]
    BY <2>1, <2>2 DEF Found
  <2>4. PICK t \in n..Len(cs) :
          /\ UpTo(W, n) \subseteq UpTo(W, t)
          /\ \A g \in DOMAIN x : \E i \in UpTo(W, t) :
                /\ g \in Range(cs[i].fields) /\ x[g] = cs[i].value
                /\ \A j \in UpTo(W, t) : g \in Range(cs[j].fields) => j <= i
    BY <1>1
  <2>5. PICK i \in UpTo(W, t) :
          /\ f \in Range(cs[i].fields) /\ x[f] = cs[i].value
          /\ \A j \in UpTo(W, t) : f \in Range(cs[j].fields) => j <= i
    BY <2>1, <2>4
  <2>6. i \in W /\ IsValue(cs[i].value)
    BY <2>5 DEF UpTo, Valued
  <2>7. PICK value : value = cs[i].value
    OBVIOUS
  <2>8. value.gz = 0 /\ value.bytes \in BOOLEAN
    BY <2>6, <2>7 DEF IsValue, Value
  <2>9. IsGiven(value, value)
    BY <2>8 DEF IsGiven
  <2>10. IsGiven(m[f], cs[i].value)
    BY <2>3, <2>5, <2>7, <2>9
  <2>11. \A j \in UpTo(W, n) : f \in Range(cs[j].fields) => j <= i
    BY <2>4, <2>5
  <2> QED
    BY <2>2, <2>5, <2>6, <2>10, <2>11
<1> QED
  BY <1>2, <1>3, Zenon DEF Maps

(* The maps of a record that holds the first t commands are such.          *)
LEMMA HeldMap ==
    ASSUME NEW S, NEW cs \in Seq(S), Valued(cs), NEW t \in 0..Len(cs), NEW key,
           NEW e, Holds(e, SubSeq(cs, 1, t), key), e.kind = "map"
    PROVE  AllMapped(e.of, SubSeq(cs, 1, t), UpTo(WritersBy("HMSET", cs, key), t))
<1>1. PICK ps : ps = SubSeq(cs, 1, t)
  OBVIOUS
<1>2. PICK first \in Writers(ps, key) :
          /\ e = Entry(Kind(ps[first]), e.of)
          /\ e.kind = "map" => AllMapped(e.of, ps, {i \in Writers(ps, key) : ps[i].op = ps[first].op})
  BY <1>1, Zenon DEF Holds
<1>3. Kind(ps[first]) = "map"
  BY <1>2 DEF Entry
<1>4. ps[first].op = "HMSET"
  BY <1>3 DEF Kind
<1>5. AllMapped(e.of, ps, WritersBy("HMSET", ps, key))
  BY <1>2, <1>4 DEF WritersBy
<1>6. WritersBy("HMSET", ps, key) = UpTo(WritersBy("HMSET", cs, key), t)
  BY <1>1, PrefixWriters
<1> QED
  BY <1>1, <1>5, <1>6

(* The document of a record says what its commands say, and Bytes leaves a *)
(* record without values to compress as it is.                             *)
LEMMA DocumentDescribes ==
    ASSUME NEW S, NEW cs \in Seq(S), NEW r, Recorded(r, cs)
    PROVE  /\ Document(r).kind = "json" /\ Describes(Document(r), cs, Len(cs))
           /\ ~r.compressFields => Compressed(r) = r
<1>1. PICK data : data = Compressed(r).data
  OBVIOUS
<1>2. PICK doc : doc = Document(r)
  OBVIOUS
<1>3. doc.kind = "json" /\ doc.of = data
  BY <1>1, <1>2 DEF Document, Entry, Recorded
<1>4. IsRecord(r) /\ r.types = 0 /\ DOMAIN r.data = Written(cs) /\ Valued(cs)
  BY DEF Recorded
<1>5. ~r.compressFields => Compressed(r) = r
  BY DEF Compressed
<1>6. DOMAIN data = Written(cs) /\ \A key \in Written(cs) :
          /\ r.data[key].kind = "one" /\ r.data[key].of.bytes => data[key] = Gzip(r.data[key])
          /\ ~(r.data[key].kind = "one" /\ r.data[key].of.bytes) => data[key] = r.data[key]
  <2>1. CASE r.compressFields
    <3>1. PICK d : d = [k \in Written(cs) |-> IF r.data[k].kind = "one" /\ r.data[k].of.bytes
                                                THEN Gzip(r.data[k]) ELSE r.data[k]]
      OBVIOUS
    <3>2. Compressed(r) = [r EXCEPT !.data = d]
      <4>1. Compressed(r) = [r EXCEPT !.data = [k \in DOMAIN r.data |->
                               IF r.data[k].kind = "one" /\ r.data[k].of.bytes
                                 THEN Gzip(r.data[k]) ELSE r.data[k]]]
        BY <1>4, <2>1, Zenon DEF Compressed
      <4> QED
        BY <1>4, <3>1, <4>1, Zenon
    <3>3. data = d
      BY <1>1, <1>4, <3>2 DEF IsRecord
    <3> QED
      BY <3>1, <3>3
  <2>2. CASE ~r.compressFields
    <3>1. data = r.data
      BY <1>1, <1>5, <2>2
    <3>2. ASSUME NEW key \in Written(cs), r.data[key].kind = "one" PROVE ~r.data[key].of.bytes
      BY <2>2, <3>2 DEF Recorded
    <3> QED
      BY <1>4, <3>1, <3>2
  <2> QED
    BY <2>1, <2>2
<1>7. PICK n \in 0..Len(cs) : n = Len(cs) /\ SubSeq(cs, 1, n) = cs /\ n \in n..Len(cs)
  <2>1. Len(cs) \in Nat
    OBVIOUS
  <2>2. SubSeq(cs, 1, Len(cs)) = cs
    BY WholeSeq
  <2>3. Len(cs) \in 0..Len(cs) /\ Len(cs) \in Len(cs)..Len(cs)
    BY <2>1
  <2> QED
    BY <2>2, <2>3, Zenon
<1>8. ASSUME NEW key \in Written(cs) PROVE Tells(data[key], cs, key, n)
  <2>1. PICK e : e = r.data[key]
    OBVIOUS
  <2>2. Holds(e, SubSeq(cs, 1, n), key) /\ (e.kind = "one" => IsValue(e.of))
    BY <1>7, <2>1 DEF Recorded
  <2>3. PICK d : d = data[key]
    OBVIOUS
  <2>4. CASE e.kind = "one" /\ e.of.bytes
    <3>1. d = Gzip(e)
      BY <1>6, <2>1, <2>3, <2>4
    <3>2. PICK of : of = e.of
      OBVIOUS
    <3>3. of = [v |-> of.v, bytes |-> of.bytes, gz |-> 0]
      BY <2>2, <2>4, <3>2 DEF IsValue, Value
    <3>4. PICK kind : kind = e.kind
      OBVIOUS
    <3>5. e = [kind |-> kind, of |-> of]
      <4>1. PICK first : e = Entry(Kind(SubSeq(cs, 1, n)[first]), e.of)
        BY <2>2, Zenon DEF Holds
      <4>2. PICK k : k = Kind(SubSeq(cs, 1, n)[first])
        OBVIOUS
      <4> QED
        BY <3>2, <3>4, <4>1, <4>2 DEF Entry
    <3>6. d.kind = e.kind /\ d.of.v = e.of.v /\ d.of.gz = 1
      BY <3>1, <3>2, <3>3, <3>5 DEF Gzip
    <3>7. Tells(d, cs, key, n)
      BY <1>4, <1>7, <1>8, <2>2, <2>4, <3>6, PrefixTells
    <3> QED
      BY <2>3, <3>7
  <2>5. CASE e.kind = "one" /\ ~e.of.bytes
    <3>1. d = e
      BY <1>6, <2>1, <2>3, <2>5
    <3>2. e.of.gz = 0
      BY <2>2, <2>5 DEF IsValue, Value
    <3>3. Tells(d, cs, key, n)
      BY <1>4, <1>7, <1>8, <2>2, <2>5, <3>1, <3>2, PrefixTells
    <3> QED
      BY <2>3, <3>3
  <2>6. CASE e.kind # "one"
    <3>1. d = e
      BY <1>6, <2>1, <2>3, <2>6
    <3>2. ASSUME e.kind = "map" PROVE Maps(e.of, cs, WritersBy("HMSET", cs, key), n)
      <4>1. PICK W : W = WritersBy("HMSET", cs, key)
        OBVIOUS
      <4>2. AllMapped(e.of, SubSeq(cs, 1, n), UpTo(W, n))
        BY <1>4, <2>2, <3>2, <4>1, HeldMap
      <4>3. W \subseteq DOMAIN cs
        BY <4>1 DEF WritersBy, Writers
      <4>4. PICK m : m = e.of
        OBVIOUS
      <4>5. PICK M : M = {m}
        OBVIOUS
      <4>6. Ever(M) = DOMAIN m /\ \A f \in DOMAIN m : m[f] \in Found(M, f)
        BY <4>5 DEF Ever, Found
      <4>7. \A x \in M : \E t \in n..Len(cs) : AllMapped(x, SubSeq(cs, 1, t), UpTo(W, t))
        BY <1>7, <4>2, <4>4, <4>5
      <4>8. M # {} /\ DOMAIN m \subseteq Ever(M) /\ \A f \in Ever(M) : (\A x \in M : f \in DOMAIN x) => f \in DOMAIN m
        BY <4>5, <4>6
      <4>9. Maps(m, cs, W, n)
        BY <1>4, <1>7, <4>3, <4>6, <4>7, <4>8, MixedTells
      <4> QED
        BY <4>1, <4>4, <4>9
    <3>3. Tells(d, cs, key, n)
      BY <1>4, <1>7, <1>8, <2>2, <2>6, <3>1, <3>2, PrefixTells
    <3> QED
      BY <2>3, <3>3
  <2> QED
    BY <2>4, <2>5, <2>6
<1>9. Describes(doc, cs, n)
  BY <1>3, <1>6, <1>7, <1>8 DEF Describes
<1> QED
  BY <1>2, <1>3, <1>5, <1>7, <1>9

(* What is mixed of maps.                                                  *)
LEMMA MixedOf ==
    ASSUME NEW F, NEW V, DOMAIN V = Ever(F), NEW m \in Mixed(F, V)
    PROVE  /\ DOMAIN m \subseteq Ever(F) /\ \A k \in DOMAIN m : m[k] \in V[k]
           /\ \A k \in Ever(F) : (\A f \in F : k \in DOMAIN f) => k \in DOMAIN m
<1>1. PICK D \in SUBSET Ever(F) :
        /\ \A k \in Ever(F) : (\A f \in F : k \in DOMAIN f) => k \in D
        /\ m \in {d \in [D -> UNION Range(V)] : \A k \in D : d[k] \in V[k]}
  BY Zenon DEF Mixed
<1>2. DOMAIN m = D /\ \A k \in D : m[k] \in V[k]
  BY <1>1
<1> QED
  BY <1>1, <1>2

(* A document made while the record is written says what the commands say  *)
(* that were given before.                                                 *)
LEMMA SnapshotDescribes ==
    ASSUME NEW S, NEW cs \in Seq(S), Valued(cs), NEW n \in 0..Len(cs), NEW R, R # {},
           \A r \in R : ~r.compressFields /\ \E t \in n..Len(cs) : Recorded(r, SubSeq(cs, 1, t)),
           NEW doc \in Snapshots({r.data : r \in R})
    PROVE  Describes(doc, cs, n)
<1>1. PICK F : F = {r.data : r \in R}
  OBVIOUS
<1>2. ASSUME NEW f \in F
      PROVE  \E t \in n..Len(cs) :
          /\ DOMAIN f = Written(SubSeq(cs, 1, t))
          /\ \A k \in DOMAIN f : Holds(f[k], SubSeq(cs, 1, t), k) /\ (f[k].kind = "one" => IsValue(f[k].of) /\ ~f[k].of.bytes)
  <2>1. PICK r \in R : f = r.data
    BY <1>1
  <2>2. PICK t \in n..Len(cs) : Recorded(r, SubSeq(cs, 1, t))
    OBVIOUS
  <2>3. ~r.compressFields
    OBVIOUS
  <2> QED
    BY <2>1, <2>2, <2>3 DEF Recorded
<1>3. PICK V : V = [k \in Ever(F) |-> MixedEntries(F, k)]
  OBVIOUS
<1>4. PICK d \in Mixed(F, V) : doc = Entry("json", d)
  BY <1>1, <1>3 DEF Snapshots
<1>5. /\ DOMAIN d \subseteq Ever(F) /\ \A k \in DOMAIN d : d[k] \in MixedEntries(F, k)
      /\ \A k \in Ever(F) : (\A f \in F : k \in DOMAIN f) => k \in DOMAIN d
  BY <1>3, <1>4, MixedOf
<1>6. DOMAIN d \subseteq Written(cs)
  <2>1. ASSUME NEW f \in F PROVE DOMAIN f \subseteq Written(cs)
    <3>1. PICK t \in n..Len(cs) : DOMAIN f = Written(SubSeq(cs, 1, t))
      BY <1>2
    <3>2. t \in 0..Len(cs)
      OBVIOUS
    <3> QED
      BY <3>1, <3>2, PrefixWritten
  <2> QED
    BY <1>5, <2>1 DEF Ever
<1>7. ASSUME NEW key \in Written(SubSeq(cs, 1, n))
      PROVE  key \in DOMAIN d /\ Tells(d[key], cs, key, n)
  <2>1. ASSUME NEW f \in F PROVE key \in DOMAIN f
    <3>1. PICK t \in n..Len(cs) : DOMAIN f = Written(SubSeq(cs, 1, t))
      BY <1>2
    <3>2. t \in 0..Len(cs) /\ n \in 0..t
      OBVIOUS
    <3> QED
      BY <1>7, <3>1, <3>2, PrefixWritten
  <2>2. key \in Ever(F) /\ key \in DOMAIN d
    <3>1. PICK f \in F : TRUE
      BY <1>1
    <3> QED
      BY <1>5, <2>1, <3>1 DEF Ever
  <2>3. Found(F, key) = {f[key] : f \in F}
    BY <2>1 DEF Found
  <2>4. PICK e : e = d[key]
    OBVIOUS
  <2>5. CASE e \in Found(F, key) /\ e.kind # "map"
    <3>1. PICK f \in F : e = f[key]
      BY <2>3, <2>5
    <3>2. PICK t \in n..Len(cs) : Holds(e, SubSeq(cs, 1, t), key) /\ (e.kind = "one" => IsValue(e.of) /\ ~e.of.bytes)
      BY <1>2, <2>1, <3>1
    <3>3. e.kind = "one" => e.of.gz = 0 /\ ~e.of.bytes
      BY <3>2 DEF IsValue, Value
    <3>4. Tells(e, cs, key, n)
      BY <1>7, <2>5, <3>2, <3>3, PrefixTells
    <3> QED
      BY <2>2, <2>4, <3>4
  <2>6. CASE ~(e \in Found(F, key) /\ e.kind # "map")
    <3>1. PICK M : M = Maplike(F, key)
      OBVIOUS
    <3>2. PICK W : W = [f \in Ever(M) |-> Found(M, f)]
      OBVIOUS
    <3>3. PICK m \in Mixed(M, W) : e = Entry("map", m) /\ M # {}
      BY <1>5, <2>2, <2>4, <2>6, <3>1, <3>2 DEF MixedEntries
    <3>4. /\ DOMAIN m \subseteq Ever(M) /\ \A f \in DOMAIN m : m[f] \in Found(M, f)
          /\ \A f \in Ever(M) : (\A x \in M : f \in DOMAIN x) => f \in DOMAIN m
      BY <3>2, <3>3, MixedOf
    <3>5. PICK P : P = WritersBy("HMSET", cs, key)
      OBVIOUS
    <3>6. ASSUME NEW x \in M
          PROVE  \E t \in n..Len(cs) : \E h : /\ Holds(h, SubSeq(cs, 1, t), key) /\ h.kind = "map"
                                              /\ AllMapped(x, SubSeq(cs, 1, t), UpTo(P, t))
      <4>1. PICK h \in Found(F, key) : h.kind = "map" /\ x = h.of
        BY <3>1, <3>6 DEF Maplike
      <4>2. PICK f \in F : h = f[key]
        BY <2>3, <4>1
      <4>3. PICK t \in n..Len(cs) : Holds(h, SubSeq(cs, 1, t), key)
        BY <1>2, <2>1, <4>2
      <4>4. t \in 0..Len(cs)
        OBVIOUS
      <4>5. AllMapped(x, SubSeq(cs, 1, t), UpTo(P, t))
        BY <3>5, <4>1, <4>3, <4>4, HeldMap
      <4> QED
        BY <4>1, <4>3, <4>5
    <3>7. Maps(m, cs, P, n)
      <4>1. P \subseteq DOMAIN cs
        BY <3>5 DEF WritersBy, Writers
      <4>2. \A x \in M : \E t \in n..Len(cs) : AllMapped(x, SubSeq(cs, 1, t), UpTo(P, t))
        BY <3>6
      <4> QED
        BY <3>3, <3>4, <4>1, <4>2, MixedTells
    <3>8. PICK t \in n..Len(cs) : \E h : Holds(h, SubSeq(cs, 1, t), key) /\ h.kind = "map"
      BY <3>3, <3>6
    <3>11. PICK h : Holds(h, SubSeq(cs, 1, t), key) /\ h.kind = "map"
      BY <3>8
    <3>9. e.kind = "map" /\ e.of = m
      BY <3>3 DEF Entry
    <3>10. Tells(e, cs, key, n)
      BY <1>7, <3>5, <3>7, <3>9, <3>11, PrefixTells
    <3> QED
      BY <2>2, <2>4, <3>10
  <2> QED
    BY <2>5, <2>6
<1>8. doc.kind = "json" /\ doc.of = d
  BY <1>4 DEF Entry
<1> QED
  BY <1>6, <1>7, <1>8 DEF Describes

(* What a document says of the first n commands stays true when one more   *)
(* is given.                                                               *)
LEMMA DescribesMore ==
    ASSUME NEW S, NEW cs \in Seq(S), NEW cmd \in S, NEW n \in 0..Len(cs), NEW doc, Describes(doc, cs, n)
    PROVE  Describes(doc, Append(cs, cmd), n)
<1>0. PICK ds : ds = Append(cs, cmd)
  OBVIOUS
<1>1. PICK l \in Nat : l = Len(cs)
  OBVIOUS
<1>2. /\ ds \in Seq(S) /\ Len(ds) = l + 1 /\ n \in 0..Len(ds) /\ l \in 0..Len(ds) /\ n \in 0..l
      /\ SubSeq(ds, 1, l) = cs /\ \A i \in 1..l : ds[i] = cs[i]
  <2>1. ds \in Seq(S) /\ Len(ds) = l + 1 /\ \A i \in 1..l : ds[i] = cs[i]
    BY <1>0, <1>1
  <2>2. PICK ps : ps = SubSeq(ds, 1, l)
    OBVIOUS
  <2>3. ps \in Seq(S) /\ Len(ps) = l /\ \A i \in 1..l : ps[i] = ds[i]
    BY <1>1, <2>1, <2>2
  <2>4. ps = cs
    BY <1>1, <2>1, <2>3
  <2> QED
    BY <1>1, <2>1, <2>2, <2>4
<1>3. Written(cs) \subseteq Written(ds) /\ Written(SubSeq(ds, 1, n)) = Written(SubSeq(cs, 1, n))
  <2>1. SubSeq(ds, 1, n) = SubSeq(cs, 1, n)
    <3>1. PICK p, q : p = SubSeq(ds, 1, n) /\ q = SubSeq(cs, 1, n)
      OBVIOUS
    <3>2. p \in Seq(S) /\ q \in Seq(S) /\ Len(p) = n /\ Len(q) = n /\ \A i \in 1..n : p[i] = ds[i] /\ q[i] = cs[i]
      BY <1>1, <1>2, <3>1
    <3>3. p = q
      BY <1>1, <1>2, <3>2, SMTT(30)
    <3> QED
      BY <3>1, <3>3
  <2>2. Written(SubSeq(ds, 1, l)) \subseteq Written(ds)
    BY <1>2, PrefixWritten
  <2> QED
    BY <1>2, <2>1, <2>2
<1>4. ASSUME NEW key, NEW e, Tells(e, cs, key, n) PROVE Tells(e, ds, key, n)
  <2>1. PICK W : W = [op \in {"SET", "SADD", "HMSET"} |-> WritersBy(op, ds, key)]
    OBVIOUS
  <2>2. PICK A : A = Writers(ds, key)
    OBVIOUS
  <2>3. A \subseteq 1..(l + 1) /\ Writers(cs, key) = UpTo(A, l) /\ \A op : WritersBy(op, cs, key) = UpTo(WritersBy(op, ds, key), l)
    BY <1>2, <2>2, PrefixWriters
  <2>4. \A op : WritersBy(op, ds, key) \subseteq 1..(l + 1)
    BY <2>2, <2>3 DEF WritersBy
  <2>5. ASSUME NEW P, P \subseteq 1..(l + 1)
        PROVE  /\ UpTo(P, l) \subseteq P /\ \A m \in 0..l : UpTo(UpTo(P, l), m) = UpTo(P, m)
               /\ \A m \in 0..l : \A i \in UpTo(P, m) : ds[i] = cs[i] /\ i \in UpTo(P, l)
    <3>1. ASSUME NEW m \in 0..l, NEW i \in UpTo(P, m) PROVE i \in 1..l /\ i \in UpTo(P, l)
      BY <2>5, <3>1 DEF UpTo
    <3>2. ASSUME NEW m \in 0..l PROVE UpTo(UpTo(P, l), m) = UpTo(P, m)
      BY <3>1, <3>2 DEF UpTo
    <3>3. UpTo(P, l) \subseteq P
      BY DEF UpTo
    <3> QED
      BY <1>2, <3>1, <3>2, <3>3
  <2>6. \E i \in UpTo(Writers(ds, key), n) : e.kind = Kind(ds[i])
    <3>1. PICK i \in UpTo(UpTo(A, l), n) : e.kind = Kind(cs[i])
      BY <1>4, <2>3, Zenon DEF Tells
    <3>2. i \in UpTo(A, n)
      BY <1>2, <2>3, <2>5, <3>1
    <3>3. ds[i] = cs[i]
      <4>1. i \in 1..l
        BY <1>1, <1>2, <2>3, <3>2 DEF UpTo
      <4> QED
        BY <1>2, <4>1
    <3> QED
      BY <2>2, <3>1, <3>2, <3>3
  <2>7. e.kind = "one" => \E i \in WritersBy("SET", ds, key) :
          e.of.v = ds[i].value.v /\ e.of.gz = IF ds[i].value.bytes THEN 1 ELSE 0
    <3> SUFFICES ASSUME e.kind = "one"
                 PROVE  \E i \in WritersBy("SET", ds, key) :
                            e.of.v = ds[i].value.v /\ e.of.gz = IF ds[i].value.bytes THEN 1 ELSE 0
      OBVIOUS
    <3>1. PICK i \in WritersBy("SET", cs, key) : e.of.v = cs[i].value.v /\ e.of.gz = IF cs[i].value.bytes THEN 1 ELSE 0
      BY <1>4, Zenon DEF Tells
    <3>2. i \in WritersBy("SET", ds, key) /\ ds[i] = cs[i]
      BY <1>1, <2>3, <2>4, <2>5, <3>1
    <3> QED
      BY <3>1, <3>2
  <2>8. e.kind = "list" => ((\A i \in WritersBy("SADD", ds, key) : ~ds[i].more) =>
            \E m \in n..Len(ds) : Lists(e.of, ds, UpTo(WritersBy("SADD", ds, key), m)))
    <3> SUFFICES ASSUME e.kind = "list", \A i \in WritersBy("SADD", ds, key) : ~ds[i].more
                 PROVE  \E m \in n..Len(ds) : Lists(e.of, ds, UpTo(WritersBy("SADD", ds, key), m))
      OBVIOUS
    <3>1. PICK P : P = WritersBy("SADD", ds, key)
      OBVIOUS
    <3>2. P \subseteq 1..(l + 1) /\ WritersBy("SADD", cs, key) = UpTo(P, l)
      BY <2>3, <2>4, <3>1
    <3>3. \A i \in UpTo(P, l) : ~cs[i].more
      BY <1>1, <2>5, <3>1, <3>2
    <3>4. PICK m \in n..Len(cs) : Lists(e.of, cs, UpTo(UpTo(P, l), m))
      BY <1>4, <3>2, <3>3, Zenon DEF Tells
    <3>5. m \in 0..l /\ m \in n..Len(ds)
      BY <1>1, <1>2, <3>4
    <3>6. UpTo(UpTo(P, l), m) = UpTo(P, m) /\ \A i \in UpTo(P, m) : ds[i] = cs[i]
      BY <2>5, <3>2, <3>5
    <3>7. Lists(e.of, ds, UpTo(P, m))
      BY <3>4, <3>6 DEF Lists
    <3> QED
      BY <3>1, <3>5, <3>7
  <2>9. e.kind = "map" => Maps(e.of, ds, WritersBy("HMSET", ds, key), n)
    <3> SUFFICES ASSUME e.kind = "map" PROVE Maps(e.of, ds, WritersBy("HMSET", ds, key), n)
      OBVIOUS
    <3>1. PICK P : P = WritersBy("HMSET", ds, key)
      OBVIOUS
    <3>2. P \subseteq 1..(l + 1) /\ WritersBy("HMSET", cs, key) = UpTo(P, l)
      BY <2>3, <2>4, <3>1
    <3>3. PICK Q : Q = UpTo(P, l)
      OBVIOUS
    <3>4. Maps(e.of, cs, Q, n)
      BY <1>4, <3>2, <3>3, Zenon DEF Tells
    <3>5. Q \subseteq P /\ UpTo(Q, n) = UpTo(P, n) /\ \A i \in Q : ds[i] = cs[i]
      <4>1. Q \subseteq P /\ UpTo(Q, n) = UpTo(P, n)
        BY <1>2, <2>5, <3>2, <3>3
      <4>2. l \in 0..l
        BY <1>1
      <4>3. \A i \in UpTo(P, l) : ds[i] = cs[i]
        BY <2>5, <3>2, <4>2
      <4> QED
        BY <3>3, <4>1, <4>3
    <3>6. UpTo(P, n) \subseteq Q
      BY <3>5 DEF UpTo
    <3>7. FieldsOf(cs, Q) \subseteq FieldsOf(ds, P) /\ FieldsOf(ds, UpTo(P, n)) = FieldsOf(cs, UpTo(Q, n))
      BY <3>5, <3>6 DEF FieldsOf
    <3>8. DOMAIN e.of \subseteq FieldsOf(ds, P)
      BY <3>4, <3>7 DEF Maps
    <3>9. ASSUME NEW f \in FieldsOf(ds, UpTo(P, n))
          PROVE  /\ f \in DOMAIN e.of
                 /\ \E i \in P : /\ f \in Range(ds[i].fields) /\ IsGiven(e.of[f], ds[i].value)
                                 /\ \A j \in UpTo(P, n) : f \in Range(ds[j].fields) => j <= i
      <4>1. f \in DOMAIN e.of /\ \E i \in Q : /\ f \in Range(cs[i].fields) /\ IsGiven(e.of[f], cs[i].value)
                                              /\ \A j \in UpTo(Q, n) : f \in Range(cs[j].fields) => j <= i
        BY <3>4, <3>7, <3>9, Zenon DEF Maps
      <4>2. PICK i \in Q : /\ f \in Range(cs[i].fields) /\ IsGiven(e.of[f], cs[i].value)
                           /\ \A j \in UpTo(Q, n) : f \in Range(cs[j].fields) => j <= i
        BY <4>1
      <4>3. i \in P /\ f \in Range(ds[i].fields) /\ IsGiven(e.of[f], ds[i].value)
        BY <3>5, <4>2
      <4>4. \A j \in UpTo(P, n) : f \in Range(ds[j].fields) => j <= i
        BY <3>5, <3>6, <4>2
      <4> QED
        BY <4>1, <4>3, <4>4
    <3> QED
      BY <3>1, <3>8, <3>9, Zenon DEF Maps
  <2> QED
    BY <2>6, <2>7, <2>8, <2>9, Zenon DEF Tells
<1>5. Describes(doc, ds, n)
  BY <1>3, <1>4 DEF Describes
<1> QED
  BY <1>0, <1>5

-----------------------------------------------------------------------------
(* The SQS relayer.  The parts of TypeOK.                                  *)
ControlOK ==
    /\ config.smart \in BOOLEAN /\ config.conns > 0 /\ config.records > 0 /\ reloads \in 0..MaxReloads
    /\ status \in {"run", "exiting", "ended"} /\ failing \in BOOLEAN /\ tries \in 0..MaxTries
    /\ rpc \in {"free", "connect", "sleep"} /\ retries \in Nat
QueuesOK ==
    /\ cpc \in [Conns -> {"read", "write", "smart", "sync", "wait", "end"}] /\ owed \subseteq Pushes
    /\ \A c \in Conns : (cpc[c] = "write" <=> todo[c] # <<>>) /\ Len(past[c]) = Len(cmds[c])
    /\ \A ch \in {recordsCh, syncRecordCh} : Len(ch) <= Buffer /\ \A i \in DOMAIN ch : ch[i] \in Pushes
ClientsOK ==
    /\ IsInjective(clients) /\ Range(clients) \subseteq Clients /\ leaving \subseteq Clients
    /\ status = "run" => leaving \cap Range(clients) = {} /\ \A k \in leaving \cup Range(clients) : kpc[k] # "off"
    /\ kpc \in [Clients -> {"off", "listen", "append", "flush"}]
    /\ \A k \in Clients :
          /\ (held[k] # None <=> kpc[k] = "append") /\ (sync[k] # None <=> kpc[k] = "flush")
          /\ kpc[k] = "off" => batch[k] = <<>>

(* What TypeOK leaves out: the configuration is one of those given,        *)
(* channels and lists hold what they should, and writes to be done are     *)
(* those of a command.                                                     *)
Holding == [push : Pushes, since : Nat]
IsWrite(w) == w.op \in {"TYPES", "RAW"} \/ (w.op \in {"SET", "SADD", "HMSET"} /\ IsValue(w.value) /\ ~w.value.bytes)
Line(c) ==
    /\ cmds[c] \in Seq(Range(cmds[c])) /\ past[c] \in Seq(Range(past[c])) /\ todo[c] \in Seq(Range(todo[c]))
    /\ \A i \in 1..Len(todo[c]) : IsWrite(todo[c][i])
    /\ Len(cmds[c]) + Len(todo[c]) <= Len(Commands)
    /\ cpc[c] \in {"smart", "sync"} => Len(cmds[c]) > 0
Lines ==
    /\ rec = [c \in Conns |-> rec[c]] /\ cmds = [c \in Conns |-> cmds[c]]
    /\ past = [c \in Conns |-> past[c]] /\ todo = [c \in Conns |-> todo[c]]
    /\ \A c \in Conns : Line(c)
Shapes ==
    /\ \E c \in Configs : config = Effective(c)
    /\ recordsCh \in Seq(Pushes) /\ syncRecordCh \in Seq(Pushes) /\ clients \in Seq(Clients)
    /\ sync \in [Clients -> Pushes \cup {None}] /\ held \in [Clients -> Holding \cup {None}]
    /\ batch = [k \in Clients |-> batch[k]] /\ \A k \in Clients : batch[k] \in Seq(Range(batch[k]))
    /\ Lines

(* A client that takes records has room for one more, so that it may take  *)
(* a synchronous one, and while it appends one for two.                    *)
InLimit(n) == n <= 2 \/ \E m \in Limits : n <= m
Batches ==
    \A k \in Clients : /\ InLimit(Len(batch[k]))
                       /\ kpc[k] # "flush" => InLimit(Len(batch[k]) + 1)
                       /\ kpc[k] = "append" => InLimit(Len(batch[k]) + 2)

(* A connection whose synchronous record is in the channel, or with a      *)
(* client, waits for it, and has no other there.                           *)
Awaits(p) == cpc[p[1]] = "wait" /\ p[2] = Len(cmds[p[1]])
Waiting ==
    /\ \A i \in 1..Len(syncRecordCh) : Awaits(syncRecordCh[i])
    /\ \A k \in Clients : kpc[k] = "flush" => Awaits(sync[k])
    /\ \A i, j \in 1..Len(syncRecordCh) : syncRecordCh[i][1] = syncRecordCh[j][1] => i = j
    /\ \A k, l \in Clients : kpc[k] = "flush" /\ kpc[l] = "flush" /\ sync[k][1] = sync[l][1] => k = l
    /\ \A k \in Clients : \A i \in 1..Len(syncRecordCh) : kpc[k] = "flush" => sync[k][1] # syncRecordCh[i][1]

(* The record of a connection is that of its writes, as it was before each *)
(* of them too.  A push names one that was done, and so does a record that *)
(* is being appended; a message says what had been set by its push.        *)
PlainRecord(r, cs) == Recorded(r, cs) /\ ~r.compressFields
Plain(c) ==
    /\ PlainRecord(rec[c], cmds[c])
    /\ \A i \in 1..Len(past[c]) : PlainRecord(past[c][i], SubSeq(cmds[c], 1, i - 1))
Gathered == \A c \in Conns : ~HasRaw(c) => Plain(c)
Pushed(p) == p[2] <= Len(cmds[p[1]])
Since(h) == h.push[2] <= h.since /\ h.since <= Len(cmds[h.push[1]])
Made(e) ==
    /\ e.push \in Pushes /\ Pushed(e.push)
    /\ ~HasRaw(e.push[1]) => Describes(e.doc, cmds[e.push[1]], e.push[2])
Carried ==
    /\ \A i \in 1..Len(recordsCh) : Pushed(recordsCh[i])
    /\ \A k \in Clients : kpc[k] = "append" => Since(held[k])
    /\ \A k \in Clients : \A i \in 1..Len(batch[k]) : Made(batch[k][i])

RsqsInv == TypeOK /\ Shapes /\ Batches /\ Waiting /\ Gathered /\ Carried

-----------------------------------------------------------------------------
(* What Reload makes of a configuration.                                   *)
LEMMA Effects ==
    ASSUME NEW c \in Configs
    PROVE  /\ Effective(c).smart \in BOOLEAN
           /\ Effective(c).conns \in Nat \ {0} /\ Effective(c).records \in Nat \ {0}
<1>1. c \in [smart : BOOLEAN, conns : Int, records : Int] /\ {MaxConnections, MaxBatchRecords} \subseteq Nat \ {0}
  BY RsqsAssumption
<1> QED
  BY <1>1 DEF Effective, Positive

LEMMA TypeParts == TypeOK <=> ControlOK /\ QueuesOK /\ ClientsOK
  BY Zenon DEF TypeOK, ControlOK, QueuesOK, ClientsOK

LEMMA SQSStarts == Init => RsqsInv
<1> SUFFICES ASSUME Init PROVE RsqsInv
  OBVIOUS
<1>0. Len(Commands) \in Nat /\ Buffer \in Nat /\ MaxReloads \in Nat /\ MaxTries \in Nat
  BY RsqsAssumption
<1>1. PICK c0 \in Configs : config = Effective(c0)
  BY DEF Init
<1>2. Range(<<>>) = {} /\ IsInjective(<<>>) /\ Len(<<>>) = 0
  BY DEF Range, IsInjective
<1>3. TypeOK
  <2>1. config.smart \in BOOLEAN /\ config.conns > 0 /\ config.records > 0
    BY <1>1, Effects
  <2>2. IsInjective(clients) /\ Range(clients) \subseteq Clients
    BY <1>2 DEF Init
  <2>3. \A ch \in {recordsCh, syncRecordCh} : Len(ch) <= Buffer /\ \A i \in DOMAIN ch : ch[i] \in Pushes
    BY <1>0 DEF Init
  <2>4. ControlOK
    <3>1. reloads = 0 /\ status = "run" /\ failing = FALSE /\ tries = 0 /\ rpc = "free" /\ retries = 1
      BY DEF Init
    <3>2. reloads \in 0..MaxReloads /\ tries \in 0..MaxTries /\ retries \in Nat
      BY <1>0, <3>1
    <3>3. failing \in BOOLEAN
      BY <3>1
    <3> QED
      BY <2>1, <3>1, <3>2, <3>3, Zenon DEF ControlOK
  <2>5. QueuesOK
    BY <2>3 DEF Init, QueuesOK
  <2>6. Range(clients) = {} /\ leaving = {}
    BY <1>2 DEF Init
  <2>7. ClientsOK
    BY <2>2, <2>6 DEF Init, ClientsOK
  <2> QED
    BY <2>4, <2>5, <2>7, TypeParts
<1>4. Shapes
  <2>1. Lines
    BY <1>0, <1>2 DEF Init, Lines, Line
  <2> QED
    BY <1>0, <1>1, <1>2, <2>1 DEF Init, Shapes
<1>5. Batches /\ Waiting
  BY <1>2 DEF Init, Batches, InLimit, Waiting
<1>6. Gathered
  BY RecordedEmpty, <1>2 DEF Init, Gathered, Plain, PlainRecord
<1>7. Carried
  BY <1>2 DEF Init, Carried
<1> QED
  BY <1>3, <1>4, <1>5, <1>6, <1>7 DEF RsqsInv

(* Every step keeps the control of the relayer well typed.                 *)
LEMMA ControlStep == ASSUME RsqsInv, Next PROVE ControlOK' /\ \E c \in Configs : config' = Effective(c)
<1>0. /\ ControlOK /\ MaxReloads \in Nat /\ MaxTries \in Nat
      /\ \E c \in Configs : config = Effective(c)
  BY TypeParts, RsqsAssumption DEF RsqsInv, Shapes
<1> DEFINE Good == ControlOK' /\ \E c \in Configs : config' = Effective(c)
<1>1. ASSUME UNCHANGED state PROVE Good
  BY <1>0, <1>1 DEF state, ControlOK
<1>2. ASSUME NEW c \in Conns, Refuse(c) \/ Close(c) \/ Push(c) PROVE Good
  BY <1>1, <1>2 DEF Refuse, Close, Push
<1>3. ASSUME NEW c \in Conns, Write(c) \/ \E cmd \in Allowed(c) : Command(c, cmd) PROVE Good
  BY <1>0, <1>3 DEF Write, Command, ControlOK
<1>4. ASSUME NEW k \in Clients, Listen(k) PROVE Good
  <2>1. CASE AppendSmart(k)
    BY <1>0, <2>1 DEF AppendSmart, ControlOK
  <2>2. CASE ~AppendSmart(k)
    BY <1>1, <1>4, <2>2 DEF Listen, TakeSync, AnswerSync, TakeSmart, Timer, Done
  <2> QED
    BY <2>1, <2>2
<1>5. ASSUME NEW c \in Configs, Reload(c) PROVE Good
  BY <1>0, <1>5, Effects DEF Reload, ControlOK
<1>6. ASSUME RetryBegins \/ RetryAgain PROVE Good
  BY <1>0, <1>6 DEF RetryBegins, RetryAgain, ControlOK
<1>7. ASSUME RetrySucceeds PROVE Good
  BY <1>0, <1>7 DEF RetrySucceeds, ControlOK
<1>8. ASSUME RetryFails PROVE Good
  <2>1. Min({tries + 1, MaxTries}) \in 0..MaxTries
    <3>1. tries \in Nat /\ tries + 1 \in Nat
      BY <1>0 DEF ControlOK
    <3>2. Min({tries + 1, MaxTries}) \in {tries + 1, MaxTries} /\ Min({tries + 1, MaxTries}) <= MaxTries
      <4>1. \E x \in {tries + 1, MaxTries} : \A y \in {tries + 1, MaxTries} : x <= y
        BY <1>0, <3>1
      <4> QED
        BY <1>0, <3>1, <4>1 DEF Min
    <3> QED
      BY <1>0, <3>1, <3>2
  <2>2. (failing \/ tries + 1 >= MaxTries) \in BOOLEAN
    OBVIOUS
  <2> QED
    BY <1>0, <1>8, <2>1, <2>2 DEF RetryFails, ControlOK
<1>9. ASSUME Exit PROVE Good
  BY <1>0, <1>9 DEF Exit, ControlOK
<1> QED
  BY <1>2, <1>3, <1>4, <1>5, <1>6, <1>7, <1>8, <1>9 DEF Next, Retry

(* The writes of a command.                                                *)
LEMMA AllowedOps ==
    ASSUME NEW c, NEW cmd \in Allowed(c), Len(cmds[c]) \in Nat
    PROVE  cmd.op \in {"SET", "SADD", "HMSET", "RAWSET"} /\ (cmd.op = "HMSET" => cmd.fields \in Seq(Range(cmd.fields)))
<1>1. PICK S : S = SUBSET UNION Range(Commands)
  OBVIOUS
<1>2. Commands \in Seq(S)
  BY <1>1, RsqsAssumption
<1>3. PICK n \in 1..Len(Commands) : cmd \in Commands[n]
  BY <1>2 DEF Allowed
<1>4. Commands[n] \in S
  BY <1>2, <1>3
<1>5. cmd \in UNION Range(Commands)
  BY <1>1, <1>3, <1>4
<1> QED
  BY <1>5, RsqsAssumption

LEMMA PartsAre ==
    ASSUME NEW c, NEW cmd \in Allowed(c), Len(cmds[c]) \in Nat
    PROVE  /\ Parts(c, cmd) \in Seq(Range(Parts(c, cmd))) /\ Parts(c, cmd) # <<>>
           /\ \A i \in 1..Len(Parts(c, cmd)) : IsWrite(Parts(c, cmd)[i])
<1>1. cmd.op \in {"SET", "SADD", "HMSET", "RAWSET"} /\ (cmd.op = "HMSET" => cmd.fields \in Seq(Range(cmd.fields)))
  BY AllowedOps
<1>2. ASSUME cmd.op # "RAWSET", NEW i, NEW fields PROVE IsWrite(Given(c, cmd, i, fields))
  <2>1. PICK v : v = Value(<<c, Len(cmds[c]) + i>>, FALSE)
    OBVIOUS
  <2>2. IsValue(v) /\ ~v.bytes
    BY <2>1 DEF IsValue, Value
  <2>3. PICK m : m = (cmd.op = "SADD" /\ cmd.args > 2)
    OBVIOUS
  <2>4. PICK g : g = [op |-> cmd.op, key |-> cmd.key, fields |-> fields, more |-> m, value |-> v]
    OBVIOUS
  <2>5. g.op = cmd.op /\ g.value = v /\ g = Given(c, cmd, i, fields)
    BY <2>1, <2>3, <2>4 DEF Given
  <2>6. IsWrite(g)
    BY <1>1, <1>2, <2>2, <2>5 DEF IsWrite
  <2> QED
    BY <2>5, <2>6
<1>3. PICK s : s = Parts(c, cmd)
  OBVIOUS
<1>4. ASSUME NEW n \in Nat \ {0}, DOMAIN s = 1..n, s = [i \in 1..n |-> s[i]], \A i \in 1..n : IsWrite(s[i])
      PROVE  s \in Seq(Range(s)) /\ s # <<>> /\ \A i \in 1..Len(s) : IsWrite(s[i])
  <2>1. s \in [1..n -> Range(s)]
    BY <1>4 DEF Range
  <2>2. s \in Seq(Range(s)) /\ Len(s) = n
    BY <1>4, <2>1
  <2> QED
    BY <1>4, <2>2
<1>5. CASE cmd.op = "RAWSET"
  <2>1. PICK raw : raw = cmd.raw
    OBVIOUS
  <2>2. s = <<[op |-> "TYPES"], [op |-> "RAW", raw |-> raw]>>
    BY <1>3, <1>5, <2>1 DEF Parts
  <2>3. DOMAIN s = 1..2 /\ s[1].op = "TYPES" /\ s[2].op = "RAW" /\ s = [i \in 1..2 |-> s[i]]
    BY <2>2
  <2>4. \A i \in 1..2 : IsWrite(s[i])
    BY <2>3 DEF IsWrite
  <2>5. PICK n \in Nat \ {0} : n = 2
    OBVIOUS
  <2>6. DOMAIN s = 1..n /\ s = [i \in 1..n |-> s[i]] /\ \A i \in 1..n : IsWrite(s[i])
    BY <2>3, <2>4, <2>5
  <2> QED
    BY <1>3, <1>4, <2>6
<1>6. CASE cmd.op = "HMSET" /\ cmd.fields # <<>>
  <2>1. PICK n \in Nat \ {0} : n = Len(cmd.fields) /\ DOMAIN cmd.fields = 1..n
    BY <1>1, <1>6
  <2>2. s = [i \in 1..n |-> Given(c, cmd, i, <<cmd.fields[i]>>)]
    BY <1>3, <1>6, <2>1 DEF Parts
  <2>3. DOMAIN s = 1..n /\ s = [i \in 1..n |-> s[i]] /\ \A i \in 1..n : s[i] = Given(c, cmd, i, <<cmd.fields[i]>>)
    BY <2>2
  <2>4. \A i \in 1..n : IsWrite(s[i])
    BY <1>2, <1>6, <2>3
  <2> QED
    BY <1>3, <1>4, <2>1, <2>3, <2>4
<1>7. CASE cmd.op # "RAWSET" /\ ~(cmd.op = "HMSET" /\ cmd.fields # <<>>)
  <2>1. PICK g : g = Given(c, cmd, 1, <<>>)
    OBVIOUS
  <2>2. s = <<g>> /\ IsWrite(g)
    BY <1>2, <1>3, <1>7, <2>1 DEF Parts
  <2>3. DOMAIN s = 1..1 /\ s[1] = g /\ s = [i \in 1..1 |-> s[i]]
    BY <2>2
  <2>4. \A i \in 1..1 : IsWrite(s[i])
    BY <2>2, <2>3
  <2>5. PICK n \in Nat \ {0} : n = 1
    OBVIOUS
  <2>6. DOMAIN s = 1..n /\ s = [i \in 1..n |-> s[i]] /\ \A i \in 1..n : IsWrite(s[i])
    BY <2>3, <2>4, <2>5
  <2> QED
    BY <1>3, <1>4, <2>6
<1> QED
  BY <1>5, <1>6, <1>7

(* A sequence of anything, without its first.                              *)
LEMMA TailRange ==
    ASSUME NEW s, s \in Seq(Range(s)), s # <<>>
    PROVE  /\ Tail(s) \in Seq(Range(Tail(s))) /\ Len(s) \in Nat /\ Len(s) >= 1 /\ Len(Tail(s)) = Len(s) - 1
           /\ \A i \in 1..Len(Tail(s)) : i + 1 \in 1..Len(s) /\ Tail(s)[i] = s[i + 1]
           /\ Head(s) = s[1]
<1>1. PICK t : t = Tail(s)
  OBVIOUS
<1>2. /\ t \in Seq(Range(s)) /\ Len(s) \in Nat /\ Len(s) >= 1 /\ Len(t) = Len(s) - 1
      /\ \A i \in 1..Len(t) : i + 1 \in 1..Len(s) /\ t[i] = s[i + 1]
      /\ Head(s) = s[1]
  BY <1>1
<1>3. Len(t) \in Nat /\ DOMAIN t = 1..Len(t) /\ t = [i \in 1..Len(t) |-> t[i]]
  BY <1>2
<1>4. \A i \in 1..Len(t) : t[i] \in Range(t)
  BY <1>3 DEF Range
<1>5. t \in Seq(Range(t))
  BY <1>3, <1>4
<1> QED
  BY <1>1, <1>2, <1>5

(* Every step keeps the connections and the channels well typed.           *)
LEMMA QueuesStep ==
    ASSUME RsqsInv, Next
    PROVE  QueuesOK' /\ recordsCh' \in Seq(Pushes) /\ syncRecordCh' \in Seq(Pushes) /\ Lines'
<1> DEFINE Pcs == {"read", "write", "smart", "sync", "wait", "end"}
           Channels == /\ owed' \subseteq Pushes /\ recordsCh' \in Seq(Pushes) /\ syncRecordCh' \in Seq(Pushes)
                       /\ Len(recordsCh') <= Buffer /\ Len(syncRecordCh') <= Buffer
           Ends == /\ cpc' \in [Conns -> Pcs] /\ Lines'
                   /\ \A c \in Conns : (cpc'[c] = "write" <=> todo'[c] # <<>>) /\ Len(past'[c]) = Len(cmds'[c])
           Good == QueuesOK' /\ recordsCh' \in Seq(Pushes) /\ syncRecordCh' \in Seq(Pushes) /\ Lines'
<1>0. /\ QueuesOK /\ Len(Commands) \in Nat /\ Buffer \in Nat /\ recordsCh \in Seq(Pushes) /\ syncRecordCh \in Seq(Pushes)
      /\ Lines /\ Waiting
      /\ \A c \in Conns : Len(cmds[c]) \in Nat /\ Len(todo[c]) \in Nat /\ Len(past[c]) = Len(cmds[c])
  BY TypeParts, RsqsAssumption, SMTT(30) DEF RsqsInv, Shapes, Lines, Line, QueuesOK
<1>t. ASSUME NEW ch \in Seq(Pushes), Len(ch) <= Buffer, ch # <<>>
      PROVE  Tail(ch) \in Seq(Pushes) /\ Len(Tail(ch)) <= Buffer /\ Head(ch) \in Pushes
  BY <1>0, <1>t
<1>a. ASSUME NEW ch \in Seq(Pushes), Room(ch), NEW p \in Pushes
      PROVE  Append(ch, p) \in Seq(Pushes) /\ Len(Append(ch, p)) <= Buffer
  BY <1>0, <1>a DEF Room
<1>c. ASSUME Channels, Ends PROVE Good
  <2>1. \A ch \in {recordsCh', syncRecordCh'} : Len(ch) <= Buffer /\ \A i \in DOMAIN ch : ch[i] \in Pushes
    BY <1>c
  <2> QED
    BY <1>c, <2>1 DEF QueuesOK
<1>u. cpc \in [Conns -> Pcs] /\ owed \subseteq Pushes /\ Len(recordsCh) <= Buffer /\ Len(syncRecordCh) <= Buffer
  BY <1>0 DEF QueuesOK
<1>l. ASSUME UNCHANGED <<cmds, past, todo>>, rec' = [c \in Conns |-> rec'[c]], cpc' \in [Conns -> Pcs],
             \A c \in Conns : (cpc'[c] = "write" <=> cpc[c] = "write") /\ (cpc'[c] \in {"smart", "sync"} => cpc[c] \in {"smart", "sync"})
      PROVE  Ends
  BY <1>0, <1>l DEF Lines, Line, QueuesOK
<1>g. ASSUME NEW c \in Conns, NEW l \in {"read", "wait", "end"}, cpc[c] # "write", cpc' = [cpc EXCEPT ![c] = l],
             UNCHANGED <<cmds, past, todo>>, rec' = [d \in Conns |-> rec'[d]]
      PROVE  Ends
  <2>1. cpc' \in [Conns -> Pcs] /\ cpc'[c] = l /\ \A d \in Conns \ {c} : cpc'[d] = cpc[d]
    BY <1>g, <1>u
  <2> QED
    BY <1>g, <1>l, <2>1
<1>v. ASSUME UNCHANGED <<recordsCh, syncRecordCh>>, owed' \subseteq owed PROVE Channels
  BY <1>0, <1>u, <1>v
<1>1. ASSUME UNCHANGED <<connections, channels>>, owed' \subseteq owed PROVE Good
  <2>1. Channels
    BY <1>1, <1>v DEF channels
  <2>2. Ends
    <3>1. UNCHANGED <<cpc, cmds, past, todo, rec>> /\ rec = [c \in Conns |-> rec[c]]
      BY <1>0, <1>1 DEF connections, Lines
    <3> QED
      BY <1>l, <1>u, <3>1
  <2> QED
    BY <1>c, <2>1, <2>2
<1>2. ASSUME NEW c \in Conns, Refuse(c) \/ Close(c) PROVE Good
  <2>1. /\ cpc' = [cpc EXCEPT ![c] = "end"] /\ UNCHANGED <<cmds, past, todo, rec, recordsCh, syncRecordCh, owed>>
        /\ cpc[c] # "write"
    BY <1>2 DEF Refuse, Close, Goto, channels
  <2>2. Ends
    BY <1>0, <1>g, <2>1 DEF Lines
  <2> QED
    BY <1>c, <1>v, <2>1, <2>2
<1>3. ASSUME NEW c \in Conns, Push(c) PROVE Good
  <2>1. PICK p : p = <<c, Len(cmds[c])>>
    OBVIOUS
  <2>2. p \in Pushes
    <3>1. cpc[c] \in {"smart", "sync"}
      BY <1>3 DEF Push
    <3>2. Len(cmds[c]) \in 1..Len(Commands)
      BY <1>0, <3>1 DEF Lines, Line
    <3> QED
      BY <2>1, <3>2 DEF Pushes
  <2>3. Ends
    <3>1. cpc[c] # "write" /\ (Goto(c, "read") \/ Goto(c, "wait")) /\ UNCHANGED <<cmds, past, todo, rec>>
      BY <1>3 DEF Push
    <3> QED
      BY <1>0, <1>g, <3>1 DEF Lines, Goto
  <2>4. CASE /\ Room(recordsCh) /\ recordsCh' = Append(recordsCh, p) /\ owed' = owed \cup {p}
             /\ UNCHANGED syncRecordCh
    BY <1>0, <1>a, <1>c, <1>u, <2>2, <2>3, <2>4
  <2>5. CASE /\ Room(syncRecordCh) /\ syncRecordCh' = Append(syncRecordCh, p)
             /\ UNCHANGED <<recordsCh, owed>>
    BY <1>0, <1>a, <1>c, <1>u, <2>2, <2>3, <2>5
  <2> QED
    BY <1>3, <2>1, <2>4, <2>5 DEF Push
<1>w. ASSUME NEW c \in Conns, \A d \in Conns \ {c} : /\ cpc'[d] = cpc[d] /\ cmds'[d] = cmds[d] /\ past'[d] = past[d]
                                                   /\ todo'[d] = todo[d],
             cpc' \in [Conns -> Pcs], Line(c)', (cpc'[c] = "write" <=> todo'[c] # <<>>), Len(past'[c]) = Len(cmds'[c]),
             rec' = [d \in Conns |-> rec'[d]], cmds' = [d \in Conns |-> cmds'[d]],
             past' = [d \in Conns |-> past'[d]], todo' = [d \in Conns |-> todo'[d]]
      PROVE  Ends
  <2>1. ASSUME NEW d \in Conns
        PROVE  Line(d)' /\ (cpc'[d] = "write" <=> todo'[d] # <<>>) /\ Len(past'[d]) = Len(cmds'[d])
    <3>1. CASE d = c
      BY <1>w, <3>1
    <3>2. CASE d # c
      BY <1>0, <1>w, <3>2 DEF Lines, Line, QueuesOK
    <3> QED
      BY <3>1, <3>2
  <2> QED
    BY <1>w, <2>1 DEF Lines
<1>4. ASSUME NEW c \in Conns, NEW cmd \in Allowed(c), Command(c, cmd) PROVE Good
  <2>1. UNCHANGED <<recordsCh, syncRecordCh, owed, rec, cmds, past>> /\ cpc[c] = "read" /\ Len(cmds[c]) + Len(Parts(c, cmd)) <= Len(Commands)
    BY <1>4 DEF Command, channels
  <2>2. CASE UNCHANGED <<cpc, todo>>
    BY <1>1, <2>1, <2>2 DEF channels, connections
  <2>3. CASE todo' = [todo EXCEPT ![c] = Parts(c, cmd)] /\ Goto(c, "write")
    <3>1. PICK s : s = Parts(c, cmd)
      OBVIOUS
    <3>2. s \in Seq(Range(s)) /\ s # <<>> /\ \A i \in 1..Len(s) : IsWrite(s[i])
      BY <1>0, <3>1, PartsAre
    <3>3. /\ todo' = [d \in Conns |-> todo'[d]] /\ todo'[c] = s /\ cpc'[c] = "write" /\ cpc' \in [Conns -> Pcs]
          /\ \A d \in Conns \ {c} : cpc'[d] = cpc[d] /\ todo'[d] = todo[d]
      BY <1>0, <1>u, <2>3, <3>1 DEF Goto, Lines
    <3>4. Line(c)'
      BY <1>0, <2>1, <3>1, <3>2, <3>3 DEF Lines, Line
    <3>5. Ends
      BY <1>0, <1>w, <2>1, <3>2, <3>3, <3>4 DEF Lines
    <3> QED
      BY <1>c, <1>v, <2>1, <3>5
  <2> QED
    BY <1>4, <2>2, <2>3 DEF Command
<1>10. ASSUME NEW c \in Conns, Write(c) PROVE Good
  <2>1. UNCHANGED <<recordsCh, syncRecordCh, owed>> /\ cpc[c] = "write"
    BY <1>10 DEF Write, channels
  <2>2. CASE UNCHANGED connections
    BY <1>1, <2>1, <2>2 DEF channels
  <2>3. CASE /\ rec' = [rec EXCEPT ![c] = Gather(@, Head(todo[c]))] /\ past' = [past EXCEPT ![c] = Append(@, rec[c])]
             /\ cmds' = [cmds EXCEPT ![c] = Append(@, Head(todo[c]))] /\ todo' = [todo EXCEPT ![c] = Tail(todo[c])]
             /\ Goto(c, IF Tail(todo[c]) # <<>> THEN "write" ELSE IF config.smart THEN "smart" ELSE "sync")
    <3>1. PICK w : w = Head(todo[c])
      OBVIOUS
    <3>2. PICK rest : rest = Tail(todo[c])
      OBVIOUS
    <3>3. /\ rest \in Seq(Range(rest)) /\ Len(todo[c]) >= 1 /\ Len(rest) = Len(todo[c]) - 1
          /\ \A i \in 1..Len(rest) : IsWrite(rest[i])
      <4>1. todo[c] # <<>> /\ todo[c] \in Seq(Range(todo[c])) /\ \A i \in 1..Len(todo[c]) : IsWrite(todo[c][i])
        BY <1>0, <2>1 DEF QueuesOK, Lines, Line
      <4> QED
        BY <3>2, <4>1, TailRange
    <3>4. PICK more : more = Append(cmds[c], w)
      OBVIOUS
    <3>5. PICK old : old = Append(past[c], rec[c])
      OBVIOUS
    <3>6. more \in Seq(Range(more)) /\ Len(more) = Len(cmds[c]) + 1
      BY <1>0, <3>4, AppendRange DEF Lines, Line
    <3>7. old \in Seq(Range(old)) /\ Len(old) = Len(past[c]) + 1
      BY <1>0, <3>5, AppendRange DEF Lines, Line
    <3>8. PICK l \in {"write", "smart", "sync"} : cpc' = [cpc EXCEPT ![c] = l] /\ (l = "write" <=> rest # <<>>)
      BY <2>3, <3>2 DEF Goto
    <3>9. /\ cmds' = [cmds EXCEPT ![c] = more] /\ past' = [past EXCEPT ![c] = old] /\ todo' = [todo EXCEPT ![c] = rest]
      BY <2>3, <3>1, <3>2, <3>4, <3>5
    <3>10. /\ cpc'[c] = l /\ cmds'[c] = more /\ past'[c] = old /\ todo'[c] = rest
           /\ \A d \in Conns \ {c} : /\ cpc'[d] = cpc[d] /\ cmds'[d] = cmds[d] /\ past'[d] = past[d] /\ todo'[d] = todo[d]
      BY <1>0, <1>u, <3>8, <3>9 DEF Lines
    <3>11. /\ rec' = [d \in Conns |-> rec'[d]] /\ cmds' = [d \in Conns |-> cmds'[d]]
           /\ past' = [d \in Conns |-> past'[d]] /\ todo' = [d \in Conns |-> todo'[d]] /\ cpc' \in [Conns -> Pcs]
      BY <1>0, <1>u, <2>3, <3>8, <3>9 DEF Lines
    <3>12. Len(more) + Len(rest) <= Len(Commands) /\ Len(more) > 0 /\ Len(old) = Len(more)
      BY <1>0, <3>3, <3>6, <3>7 DEF Lines, Line
    <3>13. Line(c)'
      BY <3>3, <3>6, <3>7, <3>10, <3>12 DEF Line
    <3>14. Ends
      BY <1>w, <3>8, <3>10, <3>11, <3>12, <3>13
    <3> QED
      BY <1>c, <1>v, <2>1, <3>14
  <2> QED
    BY <1>10, <2>2, <2>3 DEF Write
<1>5. ASSUME NEW k \in Clients, TakeSync(k) PROVE Good
  <2>1. PICK p \in Pushes : p = Head(syncRecordCh)
    BY <1>0, <1>5, <1>t, <1>u DEF TakeSync
  <2>2. syncRecordCh' = Tail(syncRecordCh) /\ UNCHANGED <<cmds, past, todo, recordsCh, owed>>
    BY <1>5 DEF TakeSync
  <2>3. syncRecordCh' \in Seq(Pushes) /\ Len(syncRecordCh') <= Buffer
    BY <1>0, <1>5, <1>t, <1>u, <2>2 DEF TakeSync
  <2>4. (cpc' = cpc \/ cpc' = [cpc EXCEPT ![p[1]] = "read"]) /\ (rec' = rec \/ rec' = [rec EXCEPT ![p[1]] = Lend(@)])
    BY <1>5, <2>1 DEF TakeSync, Goto
  <2>5. p[1] \in Conns /\ cpc[p[1]] # "write"
    <3>1. 1 \in 1..Len(syncRecordCh) /\ syncRecordCh[1] = p
      BY <1>0, <1>5, <2>1 DEF TakeSync
    <3> QED
      BY <1>0, <2>1, <3>1 DEF Waiting, Awaits, Pushes
  <2>6. rec' = [c \in Conns |-> rec'[c]]
    BY <1>0, <2>4 DEF Lines
  <2>7. Ends
    BY <1>g, <1>l, <1>u, <2>2, <2>4, <2>5, <2>6
  <2> QED
    BY <1>0, <1>c, <1>u, <2>2, <2>3, <2>7
<1>6. ASSUME NEW k \in Clients, AnswerSync(k) PROVE Good
  <2>1. /\ cpc' = [cpc EXCEPT ![sync[k][1]] = "read"] /\ owed' \subseteq owed
        /\ UNCHANGED <<rec, cmds, past, todo, recordsCh, syncRecordCh>> /\ kpc[k] = "flush"
    BY <1>6 DEF AnswerSync, Goto, channels
  <2>2. sync[k][1] \in Conns /\ cpc[sync[k][1]] # "write"
    <3>1. sync[k] \in Pushes
      BY <2>1, TypeParts DEF RsqsInv, Shapes, ClientsOK
    <3> QED
      BY <1>0, <2>1, <3>1 DEF Waiting, Awaits, Pushes
  <2>3. Ends
    BY <1>0, <1>g, <2>1, <2>2 DEF Lines
  <2> QED
    BY <1>c, <1>v, <2>1, <2>3
<1>7. ASSUME NEW k \in Clients, TakeSmart(k) PROVE Good
  <2>2. recordsCh' = Tail(recordsCh) /\ UNCHANGED <<cpc, cmds, past, todo, rec, syncRecordCh>> /\ owed' \subseteq owed
    BY <1>7 DEF TakeSmart, connections
  <2>3. recordsCh' \in Seq(Pushes) /\ Len(recordsCh') <= Buffer
    BY <1>0, <1>7, <1>t, <1>u, <2>2 DEF TakeSmart
  <2>4. Ends
    BY <1>0, <1>l, <1>u, <2>2 DEF Lines
  <2> QED
    BY <1>0, <1>c, <1>u, <2>2, <2>3, <2>4
<1>11. ASSUME NEW k \in Clients, AppendSmart(k) PROVE Good
  <2>1. UNCHANGED <<cpc, cmds, past, todo, recordsCh, syncRecordCh>> /\ owed' \subseteq owed
    BY <1>11 DEF AppendSmart, channels
  <2>2. UNCHANGED rec \/ rec' = [rec EXCEPT ![held[k].push[1]] = Lend(@)]
    BY <1>11, Zenon DEF AppendSmart
  <2>3. rec' = [c \in Conns |-> rec'[c]]
    BY <1>0, <2>2 DEF Lines
  <2>4. Ends
    BY <1>l, <1>u, <2>1, <2>3
  <2> QED
    BY <1>c, <1>v, <2>1, <2>4
<1>8. ASSUME NEW k \in Clients, Timer(k) \/ Done(k) PROVE Good
  BY <1>1, <1>8 DEF Timer, Done
<1>9. ASSUME (\E c \in Configs : Reload(c)) \/ Retry \/ Exit PROVE Good
  BY <1>1, <1>9 DEF Reload, Retry, RetryBegins, RetrySucceeds, RetryFails, RetryAgain, Exit
<1> QED
  BY <1>2, <1>3, <1>4, <1>5, <1>6, <1>7, <1>8, <1>9, <1>10, <1>11 DEF Next, Listen

(* A finite set as a sequence without repetitions.                         *)
LEMMA SetAsSeq ==
    ASSUME NEW S, IsFiniteSet(S)
    PROVE  SetToSeq(S) \in Seq(S) /\ \A i, j \in 1..Len(SetToSeq(S)) : SetToSeq(S)[i] = SetToSeq(S)[j] => i = j
<1>1. Cardinality(S) \in Nat /\ ExistsBijection(1..Cardinality(S), S)
  BY FS_CardinalityType
<1>2. PICK n \in Nat : n = Cardinality(S)
  BY <1>1
<1>3. PICK b \in Bijection(1..n, S) : TRUE
  BY <1>1, <1>2 DEF ExistsBijection
<1>4. b \in [1..n -> S] /\ IsInjective(b)
  BY <1>3 DEF Bijection, Injection
<1>5. PICK f : f = CHOOSE g \in [1..n -> S] : IsInjective(g)
  OBVIOUS
<1>6. f \in [1..n -> S] /\ IsInjective(f)
  BY <1>4, <1>5, Zenon
<1>7. f = SetToSeq(S)
  BY <1>2, <1>5 DEF SetToSeq
<1>8. f \in Seq(S) /\ Len(f) = n
  BY <1>6
<1>9. \A i, j \in 1..n : f[i] = f[j] => i = j
  BY <1>6 DEF IsInjective
<1> QED
  BY <1>7, <1>8, <1>9

(* clientsReset with the queue reached: fewer clients, or new ones that    *)
(* were off.                                                               *)
LEMMA ResizeKeeps ==
    ASSUME RsqsInv, Resize
    PROVE  /\ clients' \in Seq(Clients) /\ IsInjective(clients') /\ leaving' \subseteq Clients
           /\ kpc' \in [Clients -> {"off", "listen", "append", "flush"}]
           /\ \A k \in Clients : kpc'[k] = kpc[k] \/ (kpc[k] = "off" /\ kpc'[k] = "listen")
           /\ status = "run" => /\ leaving' \cap Range(clients') = {}
                                /\ \A k \in leaving' \cup Range(clients') : kpc'[k] # "off"
<1>0. /\ ClientsOK /\ clients \in Seq(Clients) /\ Len(clients) \in Nat /\ config.conns \in Nat \ {0}
  BY TypeParts, Effects DEF RsqsInv, Shapes
<1>1. PICK n \in Nat \ {0} : n = config.conns
  BY <1>0
<1>2. PICK len \in Nat : len = Len(clients)
  BY <1>0
<1>3. PICK s \in Seq(Clients) : s = clients
  BY <1>0
<1>4. /\ \A i, j \in 1..len : s[i] = s[j] => i = j
      /\ Range(s) = {s[i] : i \in 1..len} /\ leaving \subseteq Clients /\ kpc \in [Clients -> {"off", "listen", "append", "flush"}]
      /\ status = "run" => leaving \cap Range(s) = {} /\ \A k \in leaving \cup Range(s) : kpc[k] # "off"
  BY <1>0, <1>2, <1>3 DEF ClientsOK, IsInjective, Range
<1>5. CASE /\ len >= n /\ clients' = SubSeq(s, 1, n) /\ UNCHANGED kpc
           /\ leaving' = leaving \cup Range(SubSeq(s, n + 1, len))
  <2>1. PICK keep : keep = SubSeq(s, 1, n)
    OBVIOUS
  <2>2. PICK drop : drop = SubSeq(s, n + 1, len)
    OBVIOUS
  <2>3. keep \in Seq(Clients) /\ DOMAIN keep = 1..n /\ \A i \in 1..n : keep[i] = s[i] /\ i \in 1..len
    BY <1>2, <1>3, <1>5, <2>1
  <2>4. drop \in Seq(Clients) /\ DOMAIN drop = 1..(len - n) /\ \A i \in 1..(len - n) : drop[i] = s[n + i] /\ n + i \in 1..len
    BY <1>2, <1>3, <1>5, <2>2
  <2>5. Range(keep) \subseteq Range(s) /\ Range(drop) \subseteq Range(s)
    <3>1. Range(keep) = {keep[i] : i \in 1..n} /\ Range(drop) = {drop[i] : i \in 1..(len - n)}
      BY <2>3, <2>4 DEF Range
    <3>2. \A i \in 1..n : keep[i] \in {s[j] : j \in 1..len}
      BY <2>3
    <3>3. \A i \in 1..(len - n) : drop[i] \in {s[j] : j \in 1..len}
      BY <2>4
    <3> QED
      BY <1>4, <3>1, <3>2, <3>3
  <2>6. Range(keep) \cap Range(drop) = {}
    <3>1. ASSUME NEW i \in 1..n, NEW j \in 1..(len - n) PROVE keep[i] # drop[j]
      <4>1. keep[i] = s[i] /\ drop[j] = s[n + j] /\ i \in 1..len /\ n + j \in 1..len /\ i # n + j
        BY <2>3, <2>4
      <4> QED
        BY <1>4, <4>1
    <3> QED
      BY <2>3, <2>4, <3>1 DEF Range
  <2>7. IsInjective(keep)
    BY <1>4, <2>3 DEF IsInjective
  <2>8. Range(s) \subseteq Clients
    BY <1>0, <1>3 DEF ClientsOK
  <2>9. clients' = keep /\ leaving' = leaving \cup Range(drop) /\ kpc' = kpc
    BY <1>5, <2>1, <2>2
  <2>10. status = "run" => /\ leaving' \cap Range(clients') = {}
                           /\ \A k \in leaving' \cup Range(clients') : kpc'[k] # "off"
    BY <1>4, <2>5, <2>6, <2>9
  <2> QED
    BY <1>4, <2>3, <2>5, <2>7, <2>8, <2>9, <2>10
<1>6. CASE /\ len < n /\ UNCHANGED leaving
           /\ LET free == SetToSeq({k \in Clients \ Range(s) : kpc[k] = "off"})
                  new == SubSeq(free, 1, n - len) IN
                 /\ Len(free) >= n - len
                 /\ clients' = s \o new /\ kpc' = [k \in Clients |-> IF k \in Range(new) THEN "listen" ELSE kpc[k]]
  <2>1. PICK F : F = {k \in Clients \ Range(s) : kpc[k] = "off"}
    OBVIOUS
  <2>2. IsFiniteSet(F)
    <3>1. F \in SUBSET Clients /\ IsFiniteSet(Clients)
      BY <2>1, RsqsAssumption
    <3> QED
      BY <3>1, FS_Subset
  <2>3. PICK free : free = SetToSeq(F)
    OBVIOUS
  <2>4. free \in Seq(F) /\ \A i, j \in 1..Len(free) : free[i] = free[j] => i = j
    BY <2>2, <2>3, SetAsSeq
  <2>5. PICK d \in Nat : d = n - len
    BY <1>6
  <2>6. PICK new : new = SubSeq(free, 1, d)
    OBVIOUS
  <2>7. /\ Len(free) >= d /\ clients' = s \o new
        /\ kpc' = [k \in Clients |-> IF k \in Range(new) THEN "listen" ELSE kpc[k]]
    BY <1>6, <2>1, <2>3, <2>5, <2>6
  <2>8. new \in Seq(F) /\ Len(new) = d /\ DOMAIN new = 1..d /\ \A i \in 1..d : new[i] = free[i] /\ i \in 1..Len(free)
    BY <2>4, <2>5, <2>6, <2>7
  <2>9. Range(new) = {new[i] : i \in 1..d} /\ Range(new) \subseteq F
    BY <2>8 DEF Range
  <2>10. \A i, j \in 1..d : new[i] = new[j] => i = j
    BY <2>4, <2>8
  <2>11. PICK both : both = s \o new
    OBVIOUS
  <2>12. new \in Seq(Clients)
    BY <2>1, <2>8
  <2>13. /\ both \in Seq(Clients) /\ DOMAIN both = 1..(len + d)
         /\ \A i \in 1..len : both[i] = s[i]
         /\ \A i \in 1..d : both[len + i] = new[i]
    <3>1. s \in Seq(Clients) /\ Len(s) = len /\ Len(new) = d
      BY <1>2, <1>3, <2>8
    <3>2. /\ s \o new \in Seq(Clients) /\ DOMAIN (s \o new) = 1..(Len(s) + Len(new))
          /\ \A i \in 1..Len(s) : (s \o new)[i] = s[i]
          /\ \A i \in 1..Len(new) : (s \o new)[Len(s) + i] = new[i]
      BY <2>12, Joined
    <3> QED
      BY <2>11, <3>1, <3>2, Zenon
  <2>14. \A i \in 1..(len + d) : i \in 1..len \/ (i - len \in 1..d /\ i = len + (i - len))
    BY <2>5
  <2>15. IsInjective(both)
    <3>1. ASSUME NEW i \in 1..(len + d), NEW j \in 1..(len + d), both[i] = both[j] PROVE i = j
      <4>1. CASE i \in 1..len /\ j \in 1..len
        BY <1>4, <2>13, <3>1, <4>1
      <4>2. ASSUME NEW a \in 1..len, NEW b \in 1..d PROVE both[a] # both[len + b]
        <5>1. both[a] \in Range(s) /\ both[len + b] \in F
          BY <1>4, <2>9, <2>13
        <5> QED
          BY <2>1, <5>1
      <4>3. CASE i \notin 1..len /\ j \notin 1..len
        <5>1. i - len \in 1..d /\ j - len \in 1..d /\ both[i] = new[i - len] /\ both[j] = new[j - len]
          BY <2>13, <2>14, <4>3
        <5>2. i - len = j - len
          BY <2>10, <3>1, <5>1
        <5> QED
          BY <5>2
      <4> QED
        BY <2>14, <3>1, <4>1, <4>2, <4>3
    <3> QED
      BY <2>13, <3>1 DEF IsInjective
  <2>16. Range(both) = Range(s) \cup Range(new)
    <3>1. ASSUME NEW x \in Range(both) PROVE x \in Range(s) \cup Range(new)
      <4>1. PICK i \in 1..(len + d) : x = both[i]
        BY <2>13 DEF Range
      <4>2. CASE i \in 1..len
        BY <1>4, <2>13, <4>1, <4>2
      <4>3. CASE i - len \in 1..d /\ i = len + (i - len)
        <5>1. x = new[i - len]
          BY <2>13, <4>1, <4>3
        <5> QED
          BY <2>9, <4>3, <5>1
      <4> QED
        BY <2>14, <4>2, <4>3
    <3>2. ASSUME NEW x \in Range(s) PROVE x \in Range(both)
      <4>1. PICK i \in 1..len : x = s[i]
        BY <1>4
      <4>2. i \in 1..(len + d) /\ both[i] = x
        BY <2>5, <2>13, <4>1
      <4> QED
        BY <2>13, <4>2 DEF Range
    <3>3. ASSUME NEW x \in Range(new) PROVE x \in Range(both)
      <4>1. PICK i \in 1..d : x = new[i]
        BY <2>9
      <4>2. len + i \in 1..(len + d) /\ both[len + i] = x
        BY <2>5, <2>13, <4>1
      <4> QED
        BY <2>13, <4>2 DEF Range
    <3> QED
      BY <3>1, <3>2, <3>3
  <2>17. \A k \in Range(new) : k \in Clients /\ kpc[k] = "off" /\ k \notin Range(s)
    BY <2>1, <2>9
  <2>18. Range(s) \subseteq Clients
    BY <1>0, <1>3 DEF ClientsOK
  <2>19. clients' = both /\ leaving' = leaving
    BY <1>6, <2>7, <2>11
  <2>20. status = "run" => /\ leaving' \cap Range(clients') = {}
                           /\ \A k \in leaving' \cup Range(clients') : kpc'[k] # "off"
    <3> SUFFICES ASSUME status = "run"
                 PROVE  /\ leaving \cap Range(both) = {}
                        /\ \A k \in leaving \cup Range(both) : kpc'[k] # "off"
      BY <2>19
    <3>1. leaving \cap Range(both) = {}
      BY <1>4, <2>16, <2>17
    <3>2. \A k \in leaving \cup Range(both) : kpc'[k] # "off"
      BY <1>4, <2>7, <2>16, <2>17, <2>18
    <3> QED
      BY <3>1, <3>2
  <2> QED
    BY <1>4, <2>7, <2>13, <2>15, <2>17, <2>19, <2>20
<1> QED
  BY <1>1, <1>2, <1>3, <1>5, <1>6 DEF Resize

(* A step takes no limit of the batches away.                              *)
LEMMA LimitsGrow ==
    ASSUME RsqsInv, Next
    PROVE  /\ config.records \in Limits /\ Limits \subseteq Limits' /\ config.records \in Nat
<1>1. PICK c \in Configs : config = Effective(c)
  BY DEF RsqsInv, Shapes
<1>2. config.records \in Nat /\ reloads \in Nat
  BY <1>1, Effects, RsqsAssumption DEF RsqsInv, TypeOK
<1>3. config.records \in Limits /\ Limits \subseteq {Effective(d).records : d \in Configs}
  BY <1>1 DEF Limits
<1>4. CASE UNCHANGED <<config, reloads>>
  BY <1>2, <1>3, <1>4 DEF Limits
<1>5. ASSUME NEW d \in Configs, Reload(d) PROVE Limits \subseteq Limits'
  <2>1. reloads' # 0
    BY <1>2, <1>5 DEF Reload
  <2> QED
    BY <1>3, <2>1 DEF Limits
<1>6. ASSUME NEW d \in Conns, Refuse(d) \/ Close(d) \/ Write(d) \/ Push(d) \/ \E cmd \in Allowed(d) : Command(d, cmd)
      PROVE  UNCHANGED <<config, reloads>>
  BY <1>6 DEF Refuse, Close, Write, Push, Command, state
<1>7. ASSUME NEW k \in Clients, Listen(k) PROVE UNCHANGED <<config, reloads>>
  BY <1>7 DEF Listen, TakeSync, AnswerSync, TakeSmart, AppendSmart, Timer, Done, state
<1>8. ASSUME Retry \/ Exit PROVE UNCHANGED <<config, reloads>>
  BY <1>8 DEF Retry, RetryBegins, RetrySucceeds, RetryFails, RetryAgain, Exit
<1> QED
  BY <1>2, <1>3, <1>4, <1>5, <1>6, <1>7, <1>8 DEF Next

(* Every step keeps the clients well typed and their batches short enough. *)
BatchesOK ==
    /\ sync \in [Clients -> Pushes \cup {None}] /\ held \in [Clients -> Holding \cup {None}]
    /\ batch = [k \in Clients |-> batch[k]] /\ \A k \in Clients : batch[k] \in Seq(Range(batch[k]))
    /\ Batches

LEMMA ClientsStep == ASSUME RsqsInv, Next PROVE ClientsOK' /\ clients' \in Seq(Clients) /\ BatchesOK'
<1> DEFINE Good == ClientsOK' /\ clients' \in Seq(Clients) /\ BatchesOK'
           Pcs == {"off", "listen", "append", "flush"}
           Fit(b, l) == InLimit(Len(b)) /\ (l # "flush" => InLimit(Len(b) + 1)) /\ (l = "append" => InLimit(Len(b) + 2))
<1>0. /\ ClientsOK /\ clients \in Seq(Clients) /\ BatchesOK /\ syncRecordCh \in Seq(Pushes) /\ recordsCh \in Seq(Pushes)
      /\ \A k \in Clients : Len(batch[k]) \in Nat
  BY TypeParts DEF RsqsInv, Shapes, BatchesOK
<1>f. \A n : InLimit(n) => InLimit(n)'
  <2>1. ASSUME NEW n, InLimit(n) PROVE n <= 2 \/ \E m \in Limits' : n <= m
    BY <2>1, LimitsGrow DEF InLimit
  <2> QED
    BY <2>1 DEF InLimit
<1>m. PICK none : none = <<>> /\ none \in Seq(Range(none)) /\ Len(none) = 0 /\ \A l : Fit(none, l)
  <2>1. <<>> \in Seq(Range(<<>>)) /\ Len(<<>>) = 0
    OBVIOUS
  <2>2. \A l : Fit(<<>>, l)
    BY <2>1 DEF InLimit
  <2> QED
    BY <2>1, <2>2
<1>p. (\A p \in Pushes : p # None) /\ \A h \in Holding : h # None
  <2>1. \A p \in Pushes : p # None
    BY DEF Pushes, None
  <2>2. ASSUME NEW h \in Holding PROVE h # None
    <3>1. h = [push |-> h.push, since |-> h.since]
      BY DEF Holding
    <3>2. DOMAIN h = {"push", "since"} /\ DOMAIN <<>> = {}
      BY <3>1
    <3> QED
      BY <3>2 DEF None
  <2> QED
    BY <2>1, <2>2
<1>q. \A k \in Clients : Fit(batch[k], kpc[k])
  BY <1>0 DEF BatchesOK, Batches
<1>s. ASSUME sync' \in [Clients -> Pushes \cup {None}], held' \in [Clients -> Holding \cup {None}],
             batch' = [k \in Clients |-> batch'[k]], \A k \in Clients : batch'[k] \in Seq(Range(batch'[k])),
             \A k \in Clients : Fit(batch'[k], kpc'[k])
      PROVE  BatchesOK'
  <2>1. ASSUME NEW k \in Clients
        PROVE  /\ InLimit(Len(batch[k]))'
               /\ (kpc[k] # "flush" => InLimit(Len(batch[k]) + 1))'
               /\ (kpc[k] = "append" => InLimit(Len(batch[k]) + 2))'
    <3>1. PICK n : n = Len(batch'[k])
      OBVIOUS
    <3>2. /\ InLimit(n)' /\ (kpc'[k] # "flush" => InLimit(n + 1)')
          /\ (kpc'[k] = "append" => InLimit(n + 2)')
      BY <1>f, <1>s, <3>1
    <3> QED
      BY <3>1, <3>2 DEF InLimit
  <2> QED
    BY <1>s, <2>1 DEF BatchesOK, Batches
<1>1. ASSUME UNCHANGED <<clients, workers>>, status = "run" \/ status' # "run" PROVE Good
  <2>1. UNCHANGED <<clients, kpc, batch, held, sync, leaving>>
    BY <1>1 DEF workers
  <2>2. ClientsOK'
    BY <1>0, <1>1, <2>1 DEF ClientsOK
  <2>3. BatchesOK'
    BY <1>0, <1>q, <1>s, <2>1 DEF BatchesOK
  <2> QED
    BY <1>0, <2>1, <2>2, <2>3
<1>b. ASSUME NEW k \in Clients, NEW b, NEW l \in Pcs, NEW p \in Pushes \cup {None}, NEW h \in Holding \cup {None},
             b \in Seq(Range(b)), Fit(b, l), l = "off" => b = <<>>,
             p # None <=> l = "flush", h # None <=> l = "append",
             batch' = [batch EXCEPT ![k] = b], kpc' = [kpc EXCEPT ![k] = l], sync' = [sync EXCEPT ![k] = p],
             held' = [held EXCEPT ![k] = h],
             UNCHANGED <<clients, status>>, leaving' \subseteq leaving, l = "off" => leaving' = leaving \ {k},
             l = "off" => k \in leaving
      PROVE  Good
  <2>1. /\ batch'[k] = b /\ kpc'[k] = l /\ sync'[k] = p /\ held'[k] = h
        /\ \A j \in Clients \ {k} : batch'[j] = batch[j] /\ kpc'[j] = kpc[j] /\ sync'[j] = sync[j] /\ held'[j] = held[j]
        /\ batch' = [j \in Clients |-> batch'[j]] /\ kpc' \in [Clients -> Pcs]
        /\ sync' \in [Clients -> Pushes \cup {None}] /\ held' \in [Clients -> Holding \cup {None}]
    BY <1>0, <1>b DEF ClientsOK, BatchesOK
  <2>2. ASSUME NEW j \in Clients
        PROVE  /\ batch'[j] \in Seq(Range(batch'[j])) /\ Fit(batch'[j], kpc'[j])
               /\ (held'[j] # None <=> kpc'[j] = "append")
               /\ (sync'[j] # None <=> kpc'[j] = "flush") /\ (kpc'[j] = "off" => batch'[j] = <<>>)
    <3>1. CASE j = k
      BY <1>b, <2>1, <3>1
    <3>2. CASE j # k
      BY <1>0, <1>q, <2>1, <3>2 DEF ClientsOK, BatchesOK
    <3> QED
      BY <3>1, <3>2
  <2>3. BatchesOK'
    BY <1>s, <2>1, <2>2
  <2>4. status' = "run" => leaving' \cap Range(clients') = {} /\ \A j \in leaving' \cup Range(clients') : kpc'[j] # "off"
    <3> SUFFICES ASSUME status' = "run"
                 PROVE  leaving' \cap Range(clients) = {} /\ \A j \in leaving' \cup Range(clients) : kpc'[j] # "off"
      BY <1>b
    <3>1. leaving \cap Range(clients) = {} /\ \A j \in leaving \cup Range(clients) : j \in Clients /\ kpc[j] # "off"
      BY <1>0, <1>b DEF ClientsOK
    <3>2. ASSUME NEW j \in leaving' \cup Range(clients) PROVE kpc'[j] # "off"
      <4>1. CASE j = k /\ l = "off"
        BY <1>b, <3>1, <3>2, <4>1
      <4>2. CASE j = k /\ l # "off"
        BY <2>1, <4>2
      <4>3. CASE j # k
        BY <1>b, <2>1, <3>1, <3>2, <4>3
      <4> QED
        BY <4>1, <4>2, <4>3
    <3> QED
      BY <1>b, <3>1, <3>2
  <2>5. ClientsOK'
    BY <1>0, <1>b, <2>1, <2>2, <2>4 DEF ClientsOK
  <2> QED
    BY <1>0, <1>b, <2>3, <2>5
<1>2. ASSUME NEW c \in Conns, Refuse(c) \/ Close(c) \/ Push(c) PROVE Good
  <2>1. UNCHANGED <<clients, workers>> /\ status' = status
    BY <1>2 DEF Refuse, Close, Push, state
  <2> QED
    BY <1>1, <2>1
<1>3. ASSUME NEW c \in Conns, Write(c) \/ \E cmd \in Allowed(c) : Command(c, cmd) PROVE Good
  <2>1. UNCHANGED <<clients, workers>> /\ (status' = status \/ status' = "ended")
    BY <1>3 DEF Command, Write
  <2> QED
    BY <1>1, <2>1
<1>k. ASSUME NEW k \in Clients, kpc[k] # "append" PROVE UNCHANGED held => held' = [held EXCEPT ![k] = None]
  BY <1>0, <1>k DEF ClientsOK, BatchesOK
<1>j. ASSUME NEW k \in Clients, kpc[k] # "flush" PROVE UNCHANGED sync => sync' = [sync EXCEPT ![k] = None]
  BY <1>0, <1>j DEF ClientsOK, BatchesOK
<1>i. ASSUME NEW k \in Clients, kpc[k] = "listen" PROVE UNCHANGED kpc => kpc' = [kpc EXCEPT ![k] = "listen"]
  BY <1>0, <1>i DEF ClientsOK
<1>4. ASSUME NEW k \in Clients, TakeSync(k) PROVE Good
  <2>1. PICK p \in Pushes : p = Head(syncRecordCh)
    BY <1>0, <1>4 DEF TakeSync
  <2>2. UNCHANGED <<clients, status, leaving, held>> /\ kpc[k] = "listen"
    BY <1>4 DEF TakeSync, state
  <2>3. CASE UNCHANGED <<kpc, batch, sync>>
    BY <1>1, <2>2, <2>3 DEF workers
  <2>4. ASSUME NEW doc, batch' = [batch EXCEPT ![k] = Append(@, [push |-> p, doc |-> doc])],
               kpc' = [kpc EXCEPT ![k] = "flush"], sync' = [sync EXCEPT ![k] = p]
        PROVE  Good
    <3>1. PICK e : e = [push |-> p, doc |-> doc]
      OBVIOUS
    <3>2. PICK b : b = Append(batch[k], e)
      OBVIOUS
    <3>3. b \in Seq(Range(b)) /\ Len(b) = Len(batch[k]) + 1
      BY <1>0, <3>2, AppendRange DEF BatchesOK
    <3>4. Fit(b, "flush")
      BY <1>q, <2>2, <3>3
    <3>5. batch' = [batch EXCEPT ![k] = b]
      BY <2>4, <3>1, <3>2
    <3>6. p # None /\ held' = [held EXCEPT ![k] = None]
      BY <1>k, <1>p, <2>2
    <3> QED
      BY <1>b, <2>2, <2>4, <3>3, <3>4, <3>5, <3>6
  <2> QED
    BY <1>4, <2>1, <2>3, <2>4 DEF TakeSync
<1>5. ASSUME NEW k \in Clients, AnswerSync(k) PROVE Good
  <2>1. /\ batch' = [batch EXCEPT ![k] = <<>>] /\ kpc' = [kpc EXCEPT ![k] = "listen"] /\ kpc[k] = "flush"
        /\ sync' = [sync EXCEPT ![k] = None] /\ UNCHANGED <<clients, status, leaving, held>>
    BY <1>5 DEF AnswerSync, state
  <2>2. batch' = [batch EXCEPT ![k] = none] /\ held' = [held EXCEPT ![k] = None]
    BY <1>k, <1>m, <2>1
  <2> QED
    BY <1>b, <1>m, <2>1, <2>2
<1>6. ASSUME NEW k \in Clients, TakeSmart(k) PROVE Good
  <2>1. PICK p \in Pushes : p = Head(recordsCh)
    BY <1>0, <1>6 DEF TakeSmart
  <2>2. UNCHANGED <<clients, status, leaving, sync>> /\ kpc[k] = "listen"
    BY <1>6 DEF TakeSmart, state
  <2>3. CASE UNCHANGED <<kpc, batch, held>>
    BY <1>1, <2>2, <2>3 DEF workers
  <2>4. PICK kept : kept = IF Full(batch[k]) THEN <<>> ELSE batch[k]
    OBVIOUS
  <2>5. kept \in Seq(Range(kept)) /\ Fit(kept, "append")
    <3>1. CASE Full(batch[k])
      BY <1>m, <2>4, <3>1
    <3>2. CASE ~Full(batch[k])
      <4>1. kept = batch[k] /\ Len(batch[k]) + 1 < config.records
        BY <1>0, <2>4, <3>2, LimitsGrow DEF Full
      <4>2. Len(batch[k]) + 2 <= config.records
        BY <1>0, <4>1, LimitsGrow
      <4>3. InLimit(Len(batch[k]) + 2)
        BY <4>2, LimitsGrow DEF InLimit
      <4> QED
        BY <1>0, <1>q, <2>2, <4>1, <4>3 DEF BatchesOK
    <3> QED
      BY <3>1, <3>2
  <2>6. ASSUME kpc' = [kpc EXCEPT ![k] = "append"], held' = [held EXCEPT ![k] = [push |-> p, since |-> Len(cmds[p[1]])]],
               batch' = [batch EXCEPT ![k] = IF Full(batch[k]) THEN <<>> ELSE @]
        PROVE  Good
    <3>1. PICK h : h = [push |-> p, since |-> Len(cmds[p[1]])]
      OBVIOUS
    <3>2. h \in Holding /\ h # None
      <4>1. Len(cmds[p[1]]) \in Nat
        BY DEF RsqsInv, Shapes, Lines, Line, Pushes
      <4> QED
        BY <1>p, <3>1, <4>1 DEF Holding
    <3>3. batch' = [batch EXCEPT ![k] = kept] /\ sync' = [sync EXCEPT ![k] = None] /\ held' = [held EXCEPT ![k] = h]
      BY <1>j, <2>2, <2>4, <2>6, <3>1
    <3> QED
      BY <1>b, <2>2, <2>5, <2>6, <3>2, <3>3
  <2> QED
    BY <1>6, <2>1, <2>3, <2>6 DEF TakeSmart
<1>12. ASSUME NEW k \in Clients, AppendSmart(k) PROVE Good
  <2>1. kpc[k] = "append" /\ UNCHANGED <<clients, leaving, sync>>
    BY <1>12 DEF AppendSmart
  <2>2. CASE UNCHANGED <<kpc, batch, held>> /\ status' = "ended"
    BY <1>1, <2>1, <2>2 DEF workers
  <2>3. CASE kpc' = [kpc EXCEPT ![k] = "listen"] /\ held' = [held EXCEPT ![k] = None] /\ UNCHANGED status
    <3>1. sync' = [sync EXCEPT ![k] = None] /\ None \in Holding \cup {None} /\ None \in Pushes \cup {None}
      BY <1>j, <2>1
    <3>2. CASE UNCHANGED batch
      <4>1. PICK b : b = batch[k]
        OBVIOUS
      <4>2. batch' = [batch EXCEPT ![k] = b] /\ b \in Seq(Range(b)) /\ Fit(b, "listen")
        BY <1>0, <1>q, <2>1, <3>2, <4>1 DEF BatchesOK
      <4> QED
        BY <1>b, <2>1, <2>3, <3>1, <4>2
    <3>3. ASSUME NEW e, batch' = [batch EXCEPT ![k] = Append(batch[k], e)] PROVE Good
      <4>1. PICK b : b = Append(batch[k], e)
        OBVIOUS
      <4>2. b \in Seq(Range(b)) /\ Len(b) = Len(batch[k]) + 1
        BY <1>0, <4>1, AppendRange DEF BatchesOK
      <4>3. Fit(b, "listen")
        <5>1. Len(b) + 1 = Len(batch[k]) + 2
          BY <1>0, <4>2
        <5> QED
          BY <1>q, <2>1, <4>2, <5>1
      <4>4. batch' = [batch EXCEPT ![k] = b]
        BY <3>3, <4>1
      <4> QED
        BY <1>b, <2>1, <2>3, <3>1, <4>2, <4>3, <4>4
    <3> QED
      BY <1>12, <2>3, <3>2, <3>3 DEF AppendSmart
  <2> QED
    BY <1>12, <2>2, <2>3 DEF AppendSmart
<1>7. ASSUME NEW k \in Clients, Timer(k) PROVE Good
  <2>1. /\ batch' = [batch EXCEPT ![k] = <<>>] /\ kpc[k] = "listen" /\ UNCHANGED <<kpc, held, sync, clients, status, leaving>>
    BY <1>7 DEF Timer, state
  <2>2. batch' = [batch EXCEPT ![k] = none] /\ held' = [held EXCEPT ![k] = None] /\ sync' = [sync EXCEPT ![k] = None]
    BY <1>j, <1>k, <1>m, <2>1
  <2>3. kpc' = [kpc EXCEPT ![k] = "listen"]
    BY <1>i, <2>1
  <2> QED
    BY <1>b, <1>m, <2>1, <2>2, <2>3, ZenonT(40)
<1>8. ASSUME NEW k \in Clients, Done(k) PROVE Good
  <2>1. /\ batch' = [batch EXCEPT ![k] = <<>>] /\ kpc' = [kpc EXCEPT ![k] = "off"] /\ kpc[k] = "listen" /\ k \in leaving
        /\ UNCHANGED <<held, sync, clients, status>> /\ leaving' = leaving \ {k}
    BY <1>8 DEF Done, state
  <2>2. batch' = [batch EXCEPT ![k] = none] /\ held' = [held EXCEPT ![k] = None] /\ sync' = [sync EXCEPT ![k] = None]
    BY <1>j, <1>k, <1>m, <2>1
  <2> QED
    BY <1>b, <1>m, <2>1, <2>2
<1>9. ASSUME RetrySucceeds PROVE Good
  <2>1. Resize /\ UNCHANGED <<status, batch, held, sync>>
    BY <1>9 DEF RetrySucceeds
  <2>2. /\ clients' \in Seq(Clients) /\ IsInjective(clients') /\ leaving' \subseteq Clients
        /\ kpc' \in [Clients -> Pcs]
        /\ \A k \in Clients : kpc'[k] = kpc[k] \/ (kpc[k] = "off" /\ kpc'[k] = "listen")
        /\ status = "run" => /\ leaving' \cap Range(clients') = {}
                             /\ \A k \in leaving' \cup Range(clients') : kpc'[k] # "off"
    BY <2>1, ResizeKeeps
  <2>3. Range(clients') \subseteq Clients
    BY <2>2 DEF Range
  <2>4. ASSUME NEW k \in Clients
        PROVE  /\ Fit(batch[k], kpc'[k]) /\ (held[k] # None <=> kpc'[k] = "append")
               /\ (sync[k] # None <=> kpc'[k] = "flush") /\ (kpc'[k] = "off" => batch[k] = <<>>)
    BY <1>0, <1>q, <2>2 DEF ClientsOK
  <2>5. BatchesOK'
    BY <1>0, <1>s, <2>1, <2>4 DEF BatchesOK
  <2>6. ClientsOK'
    BY <2>1, <2>2, <2>3, <2>4 DEF ClientsOK
  <2> QED
    BY <2>2, <2>5, <2>6
<1>10. ASSUME (\E c \in Configs : Reload(c)) \/ RetryBegins \/ RetryFails \/ RetryAgain PROVE Good
  <2>1. UNCHANGED <<clients, workers, status>>
    BY <1>10 DEF Reload, RetryBegins, RetryFails, RetryAgain
  <2> QED
    BY <1>1, <2>1
<1>11. ASSUME Exit PROVE Good
  <2>1. /\ status' = "exiting" /\ leaving' = leaving \cup Range(clients) /\ UNCHANGED <<clients, kpc, batch, held, sync>>
    BY <1>11 DEF Exit
  <2>2. ClientsOK'
    BY <1>0, <2>1 DEF ClientsOK
  <2>3. BatchesOK'
    BY <1>0, <1>q, <1>s, <2>1 DEF BatchesOK
  <2> QED
    BY <1>0, <2>1, <2>2, <2>3
<1> QED
  BY <1>2, <1>3, <1>4, <1>5, <1>6, <1>7, <1>8, <1>9, <1>10, <1>11, <1>12 DEF Next, Listen, Retry

(* Every step keeps who waits for what: a connection that waits does       *)
(* nothing, and is woken for the record it waits for.                      *)
LEMMA WaitingStep == ASSUME RsqsInv, Next PROVE Waiting'
<1> DEFINE Later(p) == cpc'[p[1]] = "wait" /\ p[2] = Len(cmds'[p[1]])
<1>0. /\ Waiting /\ syncRecordCh \in Seq(Pushes) /\ Len(syncRecordCh) \in Nat
      /\ cpc \in [Conns -> {"read", "write", "smart", "sync", "wait", "end"}] /\ cmds = [c \in Conns |-> cmds[c]]
      /\ kpc \in [Clients -> {"off", "listen", "append", "flush"}]
      /\ sync \in [Clients -> Pushes \cup {None}] /\ \A k \in Clients : kpc[k] = "flush" => sync[k] \in Pushes
      /\ \A i \in 1..Len(syncRecordCh) : syncRecordCh[i] \in Pushes
      /\ \A p \in Pushes : p[1] \in Conns
  <2>1. \A p \in Pushes : p[1] \in Conns
    BY DEF Pushes
  <2>2. sync \in [Clients -> Pushes \cup {None}] /\ \A k \in Clients : kpc[k] = "flush" => sync[k] \in Pushes
    BY TypeParts DEF RsqsInv, Shapes, ClientsOK
  <2> QED
    BY <2>1, <2>2, TypeParts DEF RsqsInv, Shapes, Lines, QueuesOK, ClientsOK
<1>k. ASSUME \A p \in Pushes : Awaits(p) => Later(p), UNCHANGED syncRecordCh,
             \A k \in Clients : kpc'[k] = "flush" => kpc[k] = "flush" /\ sync'[k] = sync[k]
      PROVE  Waiting'
  <2>1. \A i \in 1..Len(syncRecordCh) : Awaits(syncRecordCh[i]) /\ syncRecordCh[i] \in Pushes
    BY <1>0 DEF Waiting
  <2>2. \A k \in Clients : kpc[k] = "flush" => Awaits(sync[k]) /\ sync[k] \in Pushes
    BY <1>0 DEF Waiting
  <2> QED
    BY <1>0, <1>k, <2>1, <2>2 DEF Waiting, Awaits
<1>c. ASSUME NEW c \in Conns, cpc[c] # "wait", \A d \in Conns \ {c} : cpc'[d] = cpc[d] /\ cmds'[d] = cmds[d]
      PROVE  \A p \in Pushes : Awaits(p) => Later(p)
  BY <1>0, <1>c DEF Awaits
<1>1. ASSUME UNCHANGED <<cpc, cmds, syncRecordCh>>,
             \A k \in Clients : kpc'[k] = "flush" => kpc[k] = "flush" /\ sync'[k] = sync[k]
      PROVE  Waiting'
  BY <1>1, <1>k DEF Awaits
<1>2. ASSUME NEW c \in Conns, Refuse(c) \/ Close(c) PROVE Waiting'
  <2>1. cpc[c] = "read" /\ cpc' = [cpc EXCEPT ![c] = "end"] /\ UNCHANGED <<cmds, syncRecordCh, kpc, sync>>
    BY <1>2 DEF Refuse, Close, Goto, channels, workers
  <2> QED
    BY <1>0, <1>c, <1>k, <2>1
<1>3. ASSUME NEW c \in Conns, NEW cmd \in Allowed(c), Command(c, cmd) PROVE Waiting'
  <2>1. cpc[c] = "read" /\ UNCHANGED <<syncRecordCh, kpc, sync>>
    BY <1>3 DEF Command, channels, workers
  <2>2. \A d \in Conns \ {c} : cpc'[d] = cpc[d] /\ cmds'[d] = cmds[d]
    BY <1>0, <1>3 DEF Command, Goto
  <2> QED
    BY <1>c, <1>k, <2>1, <2>2
<1>w. ASSUME NEW c \in Conns, Write(c) PROVE Waiting'
  <2>1. cpc[c] = "write" /\ UNCHANGED <<syncRecordCh, kpc, sync>>
    BY <1>w DEF Write, channels, workers
  <2>2. \A d \in Conns \ {c} : cpc'[d] = cpc[d] /\ cmds'[d] = cmds[d]
    BY <1>0, <1>w DEF Write, Goto, connections
  <2> QED
    BY <1>c, <1>k, <2>1, <2>2
<1>4. ASSUME NEW c \in Conns, Push(c) PROVE Waiting'
  <2>1. cpc[c] \in {"smart", "sync"} /\ UNCHANGED <<cmds, kpc, sync>>
    BY <1>4 DEF Push, workers
  <2>2. \A d \in Conns \ {c} : cpc'[d] = cpc[d]
    BY <1>0, <1>4 DEF Push, Goto
  <2>3. CASE UNCHANGED syncRecordCh
    BY <1>c, <1>k, <2>1, <2>2, <2>3
  <2>4. CASE syncRecordCh' = Append(syncRecordCh, <<c, Len(cmds[c])>>) /\ cpc' = [cpc EXCEPT ![c] = "wait"]
    <3>1. PICK p : p = <<c, Len(cmds[c])>>
      OBVIOUS
    <3>2. PICK q \in Seq(Pushes) : q = syncRecordCh
      BY <1>0
    <3>3. PICK n \in Nat : n = Len(q)
      BY <1>0, <3>2
    <3>4. Len(Append(q, p)) = n + 1 /\ Append(q, p)[n + 1] = p /\ \A i \in 1..n : Append(q, p)[i] = q[i]
      BY <3>2, <3>3
    <3>5. PICK r : r = Append(q, p)
      OBVIOUS
    <3>6. syncRecordCh' = r /\ p[1] = c /\ p[2] = Len(cmds[c])
      BY <2>4, <3>1, <3>2, <3>5
    <3>7. \A i \in 1..n : q[i][1] # c /\ Later(q[i]) /\ q[i] \in Pushes
      <4>1. \A i \in 1..n : q[i] \in Pushes /\ Awaits(q[i])
        BY <1>0, <3>2, <3>3 DEF Waiting
      <4>2. \A i \in 1..n : Later(q[i])
        BY <1>c, <2>1, <2>2, <4>1
      <4> QED
        BY <2>1, <4>1, <4>2 DEF Awaits
    <3>8. \A k \in Clients : kpc'[k] = "flush" => Later(sync'[k]) /\ sync'[k][1] # c
      <4>1. \A k \in Clients : kpc[k] = "flush" => sync[k] \in Pushes /\ Awaits(sync[k])
        BY <1>0 DEF Waiting
      <4>2. ASSUME NEW k \in Clients, kpc[k] = "flush" PROVE sync[k][1] \in Conns \ {c} /\ Awaits(sync[k])
        BY <1>0, <2>1, <4>1, <4>2 DEF Awaits
      <4> QED
        BY <2>1, <2>2, <4>2 DEF Awaits
    <3>9. cpc'[c] = "wait" /\ cmds'[c] = cmds[c]
      BY <1>0, <2>1, <2>4
    <3>10. \A i \in 1..(n + 1) : i \in 1..n \/ i = n + 1
      OBVIOUS
    <3>11. Len(r) = n + 1 /\ r[n + 1] = p /\ \A i \in 1..n : r[i] = q[i]
      BY <3>4, <3>5
    <3>12. \A i \in 1..(n + 1) : Later(r[i])
      BY <3>6, <3>7, <3>9, <3>10, <3>11 DEF Awaits
    <3>13. \A i, j \in 1..(n + 1) : r[i][1] = r[j][1] => i = j
      <4>1. \A i, j \in 1..n : q[i][1] = q[j][1] => i = j
        BY <1>0, <3>2, <3>3 DEF Waiting
      <4> QED
        BY <3>6, <3>7, <3>10, <3>11, <4>1
    <3>14. \A k \in Clients : \A i \in 1..(n + 1) : kpc[k] = "flush" => sync[k][1] # r[i][1]
      <4>1. \A k \in Clients : \A i \in 1..n : kpc[k] = "flush" => sync[k][1] # q[i][1]
        BY <1>0, <3>2, <3>3 DEF Waiting
      <4> QED
        BY <2>1, <3>6, <3>8, <3>10, <3>11, <4>1
    <3>15. \A k, l \in Clients : kpc[k] = "flush" /\ kpc[l] = "flush" /\ sync[k][1] = sync[l][1] => k = l
      BY <1>0 DEF Waiting
    <3>16. \A i \in 1..Len(syncRecordCh') : Later(syncRecordCh'[i])
      BY <3>6, <3>11, <3>12
    <3> QED
      BY <2>1, <3>6, <3>8, <3>11, <3>13, <3>14, <3>15, <3>16 DEF Waiting, Awaits
  <2> QED
    BY <1>4, <2>3, <2>4 DEF Push, Goto
<1>t. ASSUME syncRecordCh # <<>>, syncRecordCh' = Tail(syncRecordCh)
      PROVE  /\ Len(syncRecordCh) >= 1 /\ syncRecordCh[1] = Head(syncRecordCh)
             /\ Len(syncRecordCh') = Len(syncRecordCh) - 1
             /\ \A i \in 1..Len(syncRecordCh') : syncRecordCh'[i] = syncRecordCh[i + 1] /\ i + 1 \in 1..Len(syncRecordCh)
             /\ \A i \in 1..Len(syncRecordCh') : syncRecordCh'[i][1] # syncRecordCh[1][1] /\ Awaits(syncRecordCh'[i])
             /\ \A i, j \in 1..Len(syncRecordCh') : syncRecordCh'[i][1] = syncRecordCh'[j][1] => i = j
             /\ \A k \in Clients : \A i \in 1..Len(syncRecordCh') : kpc[k] = "flush" => sync[k][1] # syncRecordCh'[i][1]
             /\ \A i \in 1..Len(syncRecordCh') : syncRecordCh'[i] \in Pushes
  <2>1. /\ Len(syncRecordCh) >= 1 /\ syncRecordCh[1] = Head(syncRecordCh)
        /\ Len(syncRecordCh') = Len(syncRecordCh) - 1
        /\ \A i \in 1..Len(syncRecordCh') : syncRecordCh'[i] = syncRecordCh[i + 1] /\ i + 1 \in 1..Len(syncRecordCh)
    BY <1>0, <1>t
  <2>2. 1 \in 1..Len(syncRecordCh) /\ Len(syncRecordCh') \in Nat /\ \A i \in 1..Len(syncRecordCh') : i + 1 # 1
    BY <1>0, <2>1
  <2>3. \A i \in 1..Len(syncRecordCh') : /\ syncRecordCh'[i][1] # syncRecordCh[1][1] /\ Awaits(syncRecordCh'[i])
                                         /\ syncRecordCh'[i] \in Pushes
    BY <1>0, <2>1, <2>2 DEF Waiting
  <2>4. ASSUME NEW i \in 1..Len(syncRecordCh'), NEW j \in 1..Len(syncRecordCh'), syncRecordCh'[i][1] = syncRecordCh'[j][1]
        PROVE  i = j
    <3>1. i + 1 = j + 1
      BY <1>0, <2>1, <2>4 DEF Waiting
    <3> QED
      BY <2>2, <3>1
  <2>5. \A k \in Clients : \A i \in 1..Len(syncRecordCh') : kpc[k] = "flush" => sync[k][1] # syncRecordCh'[i][1]
    BY <1>0, <2>1 DEF Waiting
  <2> QED
    BY <2>1, <2>3, <2>4, <2>5
<1>5. ASSUME NEW k \in Clients, TakeSync(k) PROVE Waiting'
  <2>0. syncRecordCh # <<>> /\ syncRecordCh' = Tail(syncRecordCh) /\ UNCHANGED cmds /\ kpc[k] = "listen"
    BY <1>5 DEF TakeSync
  <2>1. PICK p \in Pushes : p = Head(syncRecordCh)
    BY <1>0, <2>0
  <2>2. p = syncRecordCh[1] /\ Awaits(p) /\ \A l \in Clients : kpc[l] = "flush" => sync[l][1] # p[1]
    BY <1>0, <1>t, <2>0, <2>1 DEF Waiting
  <2>3. \A l \in Clients : kpc[l] = "flush" => Awaits(sync[l]) /\ sync[l] \in Pushes
    BY <1>0 DEF Waiting
  <2>4. \A l, m \in Clients : kpc[l] = "flush" /\ kpc[m] = "flush" /\ sync[l][1] = sync[m][1] => l = m
    BY <1>0 DEF Waiting
  <2>5. CASE UNCHANGED <<cpc, kpc, sync>>
    BY <1>t, <2>0, <2>3, <2>4, <2>5 DEF Waiting, Awaits
  <2>6. CASE Goto(p[1], "read") /\ UNCHANGED <<kpc, sync>>
    <3>1. \A d \in Conns \ {p[1]} : cpc'[d] = cpc[d]
      BY <1>0, <2>6 DEF Goto
    <3>2. \A i \in 1..Len(syncRecordCh') : Later(syncRecordCh'[i])
      BY <1>0, <1>t, <2>0, <2>2, <3>1 DEF Awaits
    <3>3. \A l \in Clients : kpc[l] = "flush" => Later(sync[l])
      BY <1>0, <2>0, <2>2, <2>3, <2>6, <3>1 DEF Awaits
    <3> QED
      BY <1>t, <2>0, <2>4, <2>6, <3>2, <3>3 DEF Waiting, Awaits
  <2>7. CASE kpc' = [kpc EXCEPT ![k] = "flush"] /\ sync' = [sync EXCEPT ![k] = p] /\ UNCHANGED cpc
    <3>1. kpc'[k] = "flush" /\ sync'[k] = p /\ \A l \in Clients \ {k} : kpc'[l] = kpc[l] /\ sync'[l] = sync[l]
      BY <1>0, <2>7
    <3>2. \A i \in 1..Len(syncRecordCh') : Later(syncRecordCh'[i]) /\ syncRecordCh'[i][1] # p[1]
      BY <1>t, <2>0, <2>2, <2>7 DEF Awaits
    <3>3. \A l \in Clients : kpc'[l] = "flush" => Later(sync'[l])
      BY <2>0, <2>2, <2>3, <2>7, <3>1 DEF Awaits
    <3>4. \A l, m \in Clients : kpc'[l] = "flush" /\ kpc'[m] = "flush" /\ sync'[l][1] = sync'[m][1] => l = m
      BY <2>2, <2>4, <3>1
    <3>5. \A l \in Clients : \A i \in 1..Len(syncRecordCh') : kpc'[l] = "flush" => sync'[l][1] # syncRecordCh'[i][1]
      BY <1>t, <2>0, <3>1, <3>2
    <3> QED
      BY <1>t, <2>0, <3>2, <3>3, <3>4, <3>5 DEF Waiting, Awaits
  <2> QED
    BY <1>5, <2>1, <2>5, <2>6, <2>7 DEF TakeSync
<1>6. ASSUME NEW k \in Clients, AnswerSync(k) PROVE Waiting'
  <2>1. /\ kpc[k] = "flush" /\ kpc' = [kpc EXCEPT ![k] = "listen"] /\ sync' = [sync EXCEPT ![k] = None]
        /\ cpc' = [cpc EXCEPT ![sync[k][1]] = "read"] /\ UNCHANGED <<cmds, syncRecordCh>>
    BY <1>6 DEF AnswerSync, Goto, channels
  <2>2. PICK c \in Conns : c = sync[k][1]
    BY <1>0, <2>1
  <2>3. \A d \in Conns \ {c} : cpc'[d] = cpc[d]
    BY <1>0, <2>1, <2>2
  <2>4. \A l \in Clients : kpc'[l] = "flush" => l # k /\ kpc[l] = "flush" /\ sync'[l] = sync[l]
    BY <1>0, <2>1
  <2>5. ASSUME NEW l \in Clients, kpc'[l] = "flush" PROVE Later(sync'[l])
    <3>1. l # k /\ kpc[l] = "flush" /\ sync'[l] = sync[l] /\ sync[l] \in Pushes /\ Awaits(sync[l])
      BY <1>0, <2>4, <2>5 DEF Waiting
    <3>2. sync[l][1] \in Conns \ {c}
      BY <1>0, <2>1, <2>2, <3>1 DEF Waiting
    <3> QED
      BY <2>1, <2>3, <3>1, <3>2 DEF Awaits
  <2>6. ASSUME NEW i \in 1..Len(syncRecordCh) PROVE Later(syncRecordCh[i])
    <3>1. syncRecordCh[i] \in Pushes /\ Awaits(syncRecordCh[i]) /\ syncRecordCh[i][1] # c
      BY <1>0, <2>1, <2>2 DEF Waiting
    <3> QED
      BY <1>0, <2>1, <2>3, <3>1 DEF Awaits
  <2>7. \A l, m \in Clients : kpc[l] = "flush" /\ kpc[m] = "flush" /\ sync[l][1] = sync[m][1] => l = m
    BY <1>0 DEF Waiting
  <2>8. \A l \in Clients : \A i \in 1..Len(syncRecordCh) : kpc[l] = "flush" => sync[l][1] # syncRecordCh[i][1]
    BY <1>0 DEF Waiting
  <2>9. \A i, j \in 1..Len(syncRecordCh) : syncRecordCh[i][1] = syncRecordCh[j][1] => i = j
    BY <1>0 DEF Waiting
  <2> QED
    BY <2>1, <2>4, <2>5, <2>6, <2>7, <2>8, <2>9 DEF Waiting, Awaits
<1>7. ASSUME NEW k \in Clients, Timer(k) PROVE Waiting'
  <2>1. UNCHANGED <<cpc, cmds, syncRecordCh, kpc, sync>>
    BY <1>7 DEF Timer, connections, channels
  <2> QED
    BY <1>1, <2>1
<1>a. ASSUME NEW k \in Clients, TakeSmart(k) \/ AppendSmart(k) PROVE Waiting'
  <2>1. UNCHANGED <<cpc, cmds, syncRecordCh, sync>>
    BY <1>a DEF TakeSmart, AppendSmart, connections, channels
  <2>2. kpc' = kpc \/ kpc' = [kpc EXCEPT ![k] = "append"] \/ kpc' = [kpc EXCEPT ![k] = "listen"]
    BY <1>a DEF TakeSmart, AppendSmart
  <2>3. \A l \in Clients : kpc'[l] = "flush" => kpc[l] = "flush" /\ sync'[l] = sync[l]
    BY <1>0, <2>1, <2>2
  <2> QED
    BY <1>1, <2>1, <2>3
<1>8. ASSUME NEW k \in Clients, Done(k) PROVE Waiting'
  <2>1. UNCHANGED <<cpc, cmds, syncRecordCh, sync>> /\ kpc' = [kpc EXCEPT ![k] = "off"]
    BY <1>8 DEF Done, connections, channels
  <2>2. \A l \in Clients : kpc'[l] = "flush" => kpc[l] = "flush" /\ sync'[l] = sync[l]
    BY <1>0, <2>1
  <2> QED
    BY <1>1, <2>1, <2>2
<1>9. ASSUME RetrySucceeds PROVE Waiting'
  <2>1. UNCHANGED <<cpc, cmds, syncRecordCh, sync>> /\ Resize
    BY <1>9 DEF RetrySucceeds, connections, channels
  <2>2. \A k \in Clients : kpc'[k] = kpc[k] \/ (kpc[k] = "off" /\ kpc'[k] = "listen")
    BY <2>1, ResizeKeeps
  <2>3. \A l \in Clients : kpc'[l] = "flush" => kpc[l] = "flush" /\ sync'[l] = sync[l]
    BY <2>1, <2>2
  <2> QED
    BY <1>1, <2>1, <2>3
<1>10. ASSUME (\E c \in Configs : Reload(c)) \/ RetryBegins \/ RetryFails \/ RetryAgain \/ Exit PROVE Waiting'
  <2>1. UNCHANGED <<cpc, cmds, syncRecordCh, kpc, sync>>
    BY <1>10 DEF Reload, RetryBegins, RetryFails, RetryAgain, Exit, connections, channels, workers
  <2> QED
    BY <1>1, <2>1
<1> QED
  BY <1>2, <1>3, <1>w, <1>4, <1>5, <1>6, <1>7, <1>a, <1>8, <1>9, <1>10 DEF Next, Listen, Retry

(* Every step keeps the records those of the writes: a write is added to   *)
(* both, and making a document changes nothing, as the relayer sets no     *)
(* value that is to be compressed.                                         *)
LEMMA PrefixStays ==
    ASSUME NEW S, NEW s \in Seq(S), NEW g \in S, NEW m \in 0..Len(s)
    PROVE  SubSeq(Append(s, g), 1, m) = SubSeq(s, 1, m)
<1>1. PICK a : a = Append(s, g)
  OBVIOUS
<1>2. a \in Seq(S) /\ Len(a) = Len(s) + 1 /\ m \in 0..Len(a) /\ \A i \in 1..Len(s) : a[i] = s[i]
  BY <1>1
<1>3. PICK t : t = SubSeq(a, 1, m)
  OBVIOUS
<1>4. PICK u : u = SubSeq(s, 1, m)
  OBVIOUS
<1>5. t \in Seq(S) /\ Len(t) = m /\ \A i \in 1..m : t[i] = a[i]
  BY <1>2, <1>3, PrefixSeq
<1>6. u \in Seq(S) /\ Len(u) = m /\ \A i \in 1..m : u[i] = s[i]
  BY <1>4, PrefixSeq
<1>7. \A i \in 1..m : t[i] = u[i]
  <2>1. \A i \in 1..m : i \in 1..Len(s)
    OBVIOUS
  <2> QED
    BY <1>2, <1>5, <1>6, <2>1
<1>8. t = u
  BY <1>5, <1>6, <1>7
<1> QED
  BY <1>1, <1>3, <1>4, <1>8

LEMMA RawsMore ==
    ASSUME NEW c \in Conns, NEW g, cmds[c] \in Seq(Range(cmds[c])), cmds'[c] = Append(cmds[c], g)
    PROVE  HasRaw(c)' <=> HasRaw(c) \/ g.op \in {"TYPES", "RAW"}
<1>1. PICK s : s = cmds[c]
  OBVIOUS
<1>2. PICK t : t = Append(s, g)
  OBVIOUS
<1>3. /\ Len(s) \in Nat /\ Len(t) = Len(s) + 1 /\ t[Len(s) + 1] = g /\ \A i \in 1..Len(s) : t[i] = s[i]
      /\ t \in Seq(Range(t))
  BY <1>1, <1>2, AppendRange
<1>4. DOMAIN s = 1..Len(s) /\ DOMAIN t = 1..(Len(s) + 1)
  BY <1>1, <1>3
<1>5. \A i \in DOMAIN t : i \in DOMAIN s \/ i = Len(s) + 1
  BY <1>3, <1>4
<1>6. Len(s) + 1 \in DOMAIN t /\ \A i \in DOMAIN s : i \in DOMAIN t
  BY <1>3, <1>4
<1>7. (\E i \in DOMAIN t : t[i].op \in {"TYPES", "RAW"}) <=> (\E i \in DOMAIN s : s[i].op \in {"TYPES", "RAW"}) \/ g.op \in {"TYPES", "RAW"}
  BY <1>3, <1>4, <1>5, <1>6
<1>8. cmds'[c] = t
  BY <1>1, <1>2
<1> QED
  BY <1>1, <1>7, <1>8 DEF HasRaw

(* What a write is and changes, unless it panics.                          *)
LEMMA WriteDoes ==
    ASSUME RsqsInv, NEW c \in Conns, Write(c), ~UNCHANGED connections
    PROVE  /\ cmds[c] \in Seq(Range(cmds[c])) /\ past[c] \in Seq(Range(past[c])) /\ Len(past[c]) = Len(cmds[c])
           /\ IsWrite(Head(todo[c])) /\ ~Panics(rec[c], Head(todo[c]))
           /\ rec'[c] = Gather(rec[c], Head(todo[c])) /\ past'[c] = Append(past[c], rec[c])
           /\ cmds'[c] = Append(cmds[c], Head(todo[c]))
           /\ \A d \in Conns \ {c} : rec'[d] = rec[d] /\ past'[d] = past[d] /\ cmds'[d] = cmds[d]
<1>1. /\ cmds[c] \in Seq(Range(cmds[c])) /\ past[c] \in Seq(Range(past[c])) /\ Len(past[c]) = Len(cmds[c])
      /\ rec = [d \in Conns |-> rec[d]] /\ cmds = [d \in Conns |-> cmds[d]] /\ past = [d \in Conns |-> past[d]]
      /\ todo[c] \in Seq(Range(todo[c])) /\ (cpc[c] = "write" => todo[c] # <<>>)
      /\ \A i \in 1..Len(todo[c]) : IsWrite(todo[c][i])
  BY TypeParts DEF RsqsInv, Shapes, Lines, Line, QueuesOK
<1>2. Head(todo[c]) = todo[c][1] /\ 1 \in 1..Len(todo[c])
  <2>1. cpc[c] = "write"
    BY DEF Write
  <2> QED
    BY <1>1, <2>1, TailRange
<1>3. /\ ~Panics(rec[c], Head(todo[c]))
      /\ rec' = [rec EXCEPT ![c] = Gather(@, Head(todo[c]))] /\ past' = [past EXCEPT ![c] = Append(@, rec[c])]
      /\ cmds' = [cmds EXCEPT ![c] = Append(@, Head(todo[c]))]
  BY Zenon DEF Write
<1> QED
  BY <1>1, <1>2, <1>3

LEMMA PlainGrows ==
    ASSUME RsqsInv, NEW c \in Conns, Write(c), ~UNCHANGED connections, ~HasRaw(c)'
    PROVE  Plain(c)'
<1>1. PICK w : w = Head(todo[c])
  OBVIOUS
<1>2. PICK r : r = rec[c]
  OBVIOUS
<1>3. PICK s : s = cmds[c]
  OBVIOUS
<1>4. PICK p : p = past[c]
  OBVIOUS
<1>5. /\ s \in Seq(Range(s)) /\ p \in Seq(Range(p)) /\ Len(p) = Len(s) /\ IsWrite(w) /\ ~Panics(r, w)
      /\ rec'[c] = Gather(r, w) /\ past'[c] = Append(p, r) /\ cmds'[c] = Append(s, w)
  BY <1>1, <1>2, <1>3, <1>4, WriteDoes
<1>6. ~HasRaw(c) /\ w.op \notin {"TYPES", "RAW"}
  BY <1>3, <1>5, RawsMore
<1>7. w.op \in {"SET", "SADD", "HMSET"} /\ IsValue(w.value) /\ ~w.value.bytes
  BY <1>5, <1>6 DEF IsWrite
<1>8. PlainRecord(r, s) /\ \A i \in 1..Len(p) : PlainRecord(p[i], SubSeq(s, 1, i - 1))
  BY <1>2, <1>3, <1>4, <1>6 DEF RsqsInv, Gathered, Plain
<1>9. PICK S : S = Range(s) \cup {w}
  OBVIOUS
<1>10. w \in S /\ s \in Seq(S) /\ Len(s) \in Nat
  BY <1>5, <1>9
<1>11. Recorded(Apply(r, w), Append(s, w)) /\ ~Apply(r, w).compressFields
  BY <1>5, <1>7, <1>8, <1>10, RecordedStep DEF PlainRecord
<1>12. Gather(r, w) = Apply(r, w)
  BY <1>6 DEF Gather
<1>13. PICK q : q = Append(p, r)
  OBVIOUS
<1>14. Len(q) = Len(s) + 1 /\ q[Len(s) + 1] = r /\ \A i \in 1..Len(s) : q[i] = p[i]
  BY <1>5, <1>13, AppendRange
<1>15. ASSUME NEW i \in 1..Len(q) PROVE PlainRecord(q[i], SubSeq(Append(s, w), 1, i - 1))
  <2>1. i - 1 \in 0..Len(s)
    BY <1>10, <1>14
  <2>2. SubSeq(Append(s, w), 1, i - 1) = SubSeq(s, 1, i - 1)
    BY <1>10, <2>1, PrefixStays
  <2>3. CASE i \in 1..Len(s)
    BY <1>5, <1>8, <1>14, <2>2, <2>3
  <2>4. CASE i = Len(s) + 1
    <3>1. SubSeq(s, 1, i - 1) = s
      BY <1>10, <2>4, WholeSeq
    <3> QED
      BY <1>8, <1>14, <2>2, <2>4, <3>1
  <2> QED
    BY <1>10, <1>14, <2>3, <2>4
<1>16. PlainRecord(rec'[c], cmds'[c])
  BY <1>5, <1>11, <1>12 DEF PlainRecord
<1>17. \A i \in 1..Len(past'[c]) : PlainRecord(past'[c][i], SubSeq(cmds'[c], 1, i - 1))
  BY <1>5, <1>13, <1>15
<1> QED
  BY <1>16, <1>17 DEF Plain, PlainRecord

LEMMA GatheredStep == ASSUME RsqsInv, Next PROVE Gathered'
<1>0. /\ Gathered /\ rec = [c \in Conns |-> rec[c]] /\ recordsCh \in Seq(Pushes) /\ syncRecordCh \in Seq(Pushes)
      /\ \A c \in Conns : cmds[c] \in Seq(Range(cmds[c]))
  BY DEF RsqsInv, Shapes, Lines, Line
<1>s. ASSUME NEW c \in Conns, cmds'[c] = cmds[c], past'[c] = past[c], rec'[c] = rec[c] \/ rec'[c] = Lend(rec[c]), ~HasRaw(c)'
      PROVE  Plain(c)'
  <2>1. ~HasRaw(c)
    BY <1>s DEF HasRaw
  <2>2. PICK r : r = rec[c]
    OBVIOUS
  <2>3. Plain(c) /\ PlainRecord(r, cmds[c]) /\ cmds[c] \in Seq(Range(cmds[c]))
    BY <1>0, <2>1, <2>2 DEF Gathered, Plain
  <2>4. Compressed(r) = r
    BY <2>3, DocumentDescribes DEF PlainRecord
  <2>5. Lend(r) = r
    BY <2>3, <2>4 DEF Lend, PlainRecord, Recorded
  <2>6. rec'[c] = rec[c]
    BY <1>s, <2>2, <2>5
  <2> QED
    BY <1>s, <2>3, <2>6 DEF Plain
<1>1. ASSUME UNCHANGED <<cmds, past>>, \A c \in Conns : rec'[c] = rec[c] \/ rec'[c] = Lend(rec[c]) PROVE Gathered'
  BY <1>1, <1>s DEF Gathered
<1>2. ASSUME NEW c \in Conns, Write(c) PROVE Gathered'
  <2>1. CASE UNCHANGED connections
    BY <1>1, <2>1 DEF connections
  <2>2. CASE ~UNCHANGED connections
    <3>1. ~HasRaw(c)' => Plain(c)'
      BY <1>2, <2>2, PlainGrows
    <3>2. ASSUME NEW d \in Conns \ {c} PROVE ~HasRaw(d)' => Plain(d)'
      <4>1. rec'[d] = rec[d] /\ past'[d] = past[d] /\ cmds'[d] = cmds[d]
        BY <1>2, <2>2, WriteDoes
      <4> QED
        BY <1>s, <4>1
    <3> QED
      BY <3>1, <3>2 DEF Gathered
  <2> QED
    BY <2>1, <2>2
<1>3. ASSUME NEW k \in Clients, TakeSync(k) \/ AppendSmart(k) PROVE Gathered'
  <2>1. PICK c : UNCHANGED rec \/ rec' = [rec EXCEPT ![c] = Lend(@)]
    <3>1. ASSUME TakeSync(k) PROVE UNCHANGED rec \/ rec' = [rec EXCEPT ![Head(syncRecordCh)[1]] = Lend(@)]
      BY <3>1, Zenon DEF TakeSync
    <3>2. ASSUME AppendSmart(k) PROVE UNCHANGED rec \/ rec' = [rec EXCEPT ![held[k].push[1]] = Lend(@)]
      BY <3>2, Zenon DEF AppendSmart
    <3> QED
      BY <1>3, <3>1, <3>2
  <2>2. \A d \in Conns : rec'[d] = rec[d] \/ rec'[d] = Lend(rec[d])
    BY <1>0, <2>1
  <2>3. UNCHANGED <<cmds, past>>
    BY <1>3 DEF TakeSync, AppendSmart
  <2> QED
    BY <1>1, <2>2, <2>3
<1>4. ASSUME UNCHANGED <<rec, past, cmds>> PROVE Gathered'
  BY <1>1, <1>4
<1>5. ASSUME NEW c \in Conns, Refuse(c) \/ Close(c) \/ Push(c) \/ \E cmd \in Allowed(c) : Command(c, cmd)
      PROVE  UNCHANGED <<rec, past, cmds>>
  BY <1>5 DEF Refuse, Close, Push, Command
<1>6. ASSUME NEW k \in Clients, AnswerSync(k) \/ TakeSmart(k) \/ Timer(k) \/ Done(k) PROVE UNCHANGED <<rec, past, cmds>>
  BY <1>6 DEF AnswerSync, TakeSmart, Timer, Done, connections
<1>7. ASSUME (\E c \in Configs : Reload(c)) \/ Retry \/ Exit PROVE UNCHANGED <<rec, past, cmds>>
  BY <1>7 DEF Reload, Retry, RetryBegins, RetrySucceeds, RetryFails, RetryAgain, Exit, connections
<1> QED
  BY <1>2, <1>3, <1>4, <1>5, <1>6, <1>7 DEF Next, Listen

(* Every step keeps what the messages say: the writes they are made of     *)
(* stay where they are in the list, and a new message is made of a record  *)
(* that holds the writes of its push.                                      *)
LEMMA MadeStays ==
    ASSUME RsqsInv, Next
    PROVE  /\ \A c \in Conns : Len(cmds'[c]) \in Nat /\ Len(cmds[c]) <= Len(cmds'[c])
           /\ \A e : Made(e) => Made(e)'
<1>0. \A c \in Conns : cmds[c] \in Seq(Range(cmds[c])) /\ Len(cmds[c]) \in Nat
  BY DEF RsqsInv, Shapes, Lines, Line
<1>1. ASSUME UNCHANGED cmds
      PROVE  (\A c \in Conns : Len(cmds'[c]) \in Nat /\ Len(cmds[c]) <= Len(cmds'[c])) /\ \A e : Made(e) => Made(e)'
  BY <1>0, <1>1 DEF Made, Pushed, HasRaw
<1>2. ASSUME NEW c \in Conns, Write(c)
      PROVE  (\A d \in Conns : Len(cmds'[d]) \in Nat /\ Len(cmds[d]) <= Len(cmds'[d])) /\ \A e : Made(e) => Made(e)'
  <2>1. CASE UNCHANGED connections
    BY <1>1, <2>1 DEF connections
  <2>2. CASE ~UNCHANGED connections
    <3>1. PICK w : w = Head(todo[c])
      OBVIOUS
    <3>2. PICK s : s = cmds[c]
      OBVIOUS
    <3>3. s \in Seq(Range(s)) /\ cmds'[c] = Append(s, w) /\ \A d \in Conns \ {c} : cmds'[d] = cmds[d]
      BY <1>2, <2>2, <3>1, <3>2, WriteDoes
    <3>4. Len(s) \in Nat /\ Len(cmds'[c]) = Len(s) + 1
      BY <3>3, AppendRange
    <3>5. HasRaw(c)' <=> HasRaw(c) \/ w.op \in {"TYPES", "RAW"}
      BY <3>2, <3>3, RawsMore
    <3>6. PICK S : S = Range(s) \cup {w}
      OBVIOUS
    <3>7. w \in S /\ s \in Seq(S)
      BY <3>3, <3>6
    <3>8. \A d \in Conns : Len(cmds'[d]) \in Nat /\ Len(cmds[d]) <= Len(cmds'[d])
      BY <1>0, <3>2, <3>3, <3>4
    <3>9. ASSUME NEW e, Made(e) PROVE Made(e)'
      <4>1. PICK p \in Pushes : p = e.push
        BY <3>9 DEF Made
      <4>2. p[1] \in Conns /\ p[2] \in Nat /\ p[2] <= Len(cmds[p[1]])
        BY <3>9, <4>1, RsqsAssumption DEF Pushes, Made, Pushed
      <4>3. Pushed(p)'
        BY <1>0, <3>8, <4>2 DEF Pushed
      <4>4. CASE p[1] = c
        <5>1. ASSUME ~HasRaw(c)' PROVE Describes(e.doc, cmds'[c], p[2])
          <6>1. ~HasRaw(c)
            BY <3>5, <5>1
          <6>2. Describes(e.doc, s, p[2]) /\ p[2] \in 0..Len(s)
            BY <3>2, <3>4, <3>9, <4>1, <4>2, <4>4, <6>1 DEF Made
          <6> QED
            BY <3>3, <3>7, <6>2, DescribesMore
        <5> QED
          BY <4>1, <4>3, <4>4, <5>1 DEF Made
      <4>5. CASE p[1] # c
        <5>1. cmds'[p[1]] = cmds[p[1]]
          BY <3>3, <4>2, <4>5
        <5>2. ~HasRaw(p[1])' => ~HasRaw(p[1])
          BY <5>1 DEF HasRaw
        <5> QED
          BY <3>9, <4>1, <4>3, <5>1, <5>2 DEF Made
      <4> QED
        BY <4>4, <4>5
    <3> QED
      BY <3>8, <3>9
  <2> QED
    BY <2>1, <2>2
<1>3. UNCHANGED cmds \/ \E c \in Conns : Write(c)
  <2>1. ASSUME NEW c \in Conns, Refuse(c) \/ Close(c) \/ Push(c) \/ \E cmd \in Allowed(c) : Command(c, cmd) PROVE UNCHANGED cmds
    BY <2>1 DEF Refuse, Close, Push, Command
  <2>2. ASSUME NEW k \in Clients, Listen(k) PROVE UNCHANGED cmds
    BY <2>2 DEF Listen, TakeSync, TakeSmart, AppendSmart, AnswerSync, Timer, Done, connections
  <2>3. ASSUME (\E c \in Configs : Reload(c)) \/ Retry \/ Exit PROVE UNCHANGED cmds
    BY <2>3 DEF Reload, Retry, RetryBegins, RetrySucceeds, RetryFails, RetryAgain, Exit, connections
  <2> QED
    BY <2>1, <2>2, <2>3 DEF Next
<1> QED
  BY <1>1, <1>2, <1>3

(* A record that is written by nobody: the connection waits.               *)
LEMMA NewSynchronous ==
    ASSUME RsqsInv, NEW p \in Pushes, p[2] = Len(cmds[p[1]]), NEW doc \in Documents(rec[p[1]])
    PROVE  Made([push |-> p, doc |-> doc])
<1>1. PICK c \in Conns : c = p[1]
  BY DEF Pushes
<1>2. PICK r : r = rec[c]
  OBVIOUS
<1>3. PICK s : s = cmds[c]
  OBVIOUS
<1>4. s \in Seq(Range(s)) /\ Len(s) \in Nat /\ p[2] = Len(s)
  BY <1>1, <1>3 DEF RsqsInv, Shapes, Lines, Line
<1>5. ASSUME ~HasRaw(c) PROVE Describes(doc, s, Len(s))
  <2>1. Recorded(r, s)
    BY <1>2, <1>3, <1>5 DEF RsqsInv, Gathered, Plain, PlainRecord
  <2>2. Describes(Document(r), s, Len(s))
    BY <1>4, <2>1, DocumentDescribes
  <2>3. doc = Document(r)
    BY <1>1, <1>2, <2>1 DEF Documents, Recorded
  <2> QED
    BY <2>2, <2>3
<1>6. PICK e : e = [push |-> p, doc |-> doc]
  OBVIOUS
<1>7. e.push = p /\ e.doc = doc
  BY <1>6
<1>8. Made(e)
  BY <1>1, <1>3, <1>4, <1>5, <1>7 DEF Made, Pushed
<1> QED
  BY <1>6, <1>8

(* A record that is written while the document is made: whatever moment    *)
(* the parts are from, the writes of the push had been done.               *)
LEMMA NewSmart ==
    ASSUME RsqsInv, NEW h \in Holding, Since(h), NEW doc \in Marshalled(Moments(h.push[1], h.since))
    PROVE  Made([push |-> h.push, doc |-> doc])
<1>0. PICK p \in Pushes : p = h.push
  BY DEF Holding
<1>1. PICK c \in Conns : c = p[1]
  BY DEF Pushes
<1>2. PICK n \in Nat : n = h.since
  BY DEF Holding
<1>3. PICK s : s = cmds[c]
  OBVIOUS
<1>4. s \in Seq(Range(s)) /\ Len(s) \in Nat /\ p[2] \in 0..Len(s) /\ p[2] <= n /\ n <= Len(s) /\ Len(past[c]) = Len(s)
  <2>1. p[2] \in Nat
    BY RsqsAssumption DEF Pushes
  <2>2. cmds[c] \in Seq(Range(cmds[c])) /\ Len(cmds[c]) \in Nat /\ Len(past[c]) = Len(cmds[c])
    BY TypeParts DEF RsqsInv, Shapes, Lines, Line, QueuesOK
  <2> QED
    BY <1>0, <1>1, <1>2, <1>3, <2>1, <2>2 DEF Since
<1>5. PICK R : R = Moments(c, n)
  OBVIOUS
<1>6. ASSUME ~HasRaw(c) PROVE Describes(doc, s, p[2])
  <2>1. PlainRecord(rec[c], s) /\ \A i \in 1..Len(s) : PlainRecord(past[c][i], SubSeq(s, 1, i - 1))
    BY <1>3, <1>4, <1>6 DEF RsqsInv, Gathered, Plain
  <2>2. ASSUME NEW r \in R PROVE r.types = 0 /\ ~r.compressFields /\ \E t \in p[2]..Len(s) : Recorded(r, SubSeq(s, 1, t))
    <3>1. CASE r = rec[c]
      <4>1. SubSeq(s, 1, Len(s)) = s /\ Len(s) \in p[2]..Len(s)
        BY <1>4, WholeSeq
      <4> QED
        BY <2>1, <3>1, <4>1, ZenonT(40) DEF PlainRecord, Recorded
    <3>2. CASE \E i \in (n + 1)..Len(past[c]) : r = past[c][i]
      <4>1. PICK i \in (n + 1)..Len(s) : r = past[c][i]
        BY <1>4, <3>2
      <4>2. i \in 1..Len(s) /\ i - 1 \in p[2]..Len(s)
        BY <1>4
      <4>3. PlainRecord(r, SubSeq(s, 1, i - 1))
        BY <2>1, <4>1, <4>2
      <4> QED
        BY <4>2, <4>3 DEF PlainRecord, Recorded
    <3> QED
      BY <1>5, <3>1, <3>2 DEF Moments
  <2>3. R # {}
    BY <1>5 DEF Moments
  <2>4. doc \in Snapshots({r.data : r \in R})
    <3>1. doc \in Marshalled(R)
      BY <1>0, <1>1, <1>2, <1>5
    <3>2. {r \in R : r.types # 0} = {}
      BY <2>2
    <3>3. \/ \E r \in {x \in R : x.types # 0} : doc \in Documents(r)
          \/ doc \in IF {x \in R : x.types # 0} = R THEN {} ELSE Snapshots({x.data : x \in R})
      BY <3>1, Zenon DEF Marshalled
    <3> QED
      BY <2>3, <3>2, <3>3
  <2>5. Valued(s)
    BY <2>1 DEF PlainRecord, Recorded
  <2> QED
    BY <1>4, <2>2, <2>3, <2>4, <2>5, SnapshotDescribes
<1>7. PICK e : e = [push |-> p, doc |-> doc]
  OBVIOUS
<1>8. e.push = p /\ e.doc = doc
  BY <1>7
<1>9. Made(e)
  BY <1>1, <1>3, <1>4, <1>6, <1>8 DEF Made, Pushed
<1> QED
  BY <1>0, <1>7, <1>9

LEMMA CarriedStep == ASSUME RsqsInv, Next PROVE Carried'
<1> DEFINE AllMade(b) == \A i \in 1..Len(b) : Made(b[i])
           AllSince == \A k \in Clients : kpc'[k] = "append" => held'[k] \in Holding /\ Since(held'[k])
           Queued == \A i \in 1..Len(recordsCh') : recordsCh'[i] \in Pushes /\ Pushed(recordsCh'[i])
<1>0. /\ Carried /\ recordsCh \in Seq(Pushes) /\ syncRecordCh \in Seq(Pushes) /\ Waiting
      /\ batch = [k \in Clients |-> batch[k]] /\ \A k \in Clients : batch[k] \in Seq(Range(batch[k]))
      /\ \A c \in Conns : Len(cmds[c]) \in Nat
      /\ kpc \in [Clients -> {"off", "listen", "append", "flush"}] /\ held \in [Clients -> Holding \cup {None}]
      /\ \A k \in Clients : kpc[k] = "append" => held[k] \in Holding
  <2>1. /\ kpc \in [Clients -> {"off", "listen", "append", "flush"}] /\ held \in [Clients -> Holding \cup {None}]
        /\ \A k \in Clients : held[k] # None <=> kpc[k] = "append"
    BY TypeParts DEF RsqsInv, Shapes, ClientsOK
  <2> QED
    BY <2>1 DEF RsqsInv, Shapes, Lines, Line
<1>s. /\ \A c \in Conns : Len(cmds'[c]) \in Nat /\ Len(cmds[c]) <= Len(cmds'[c])
      /\ \A e : Made(e) => Made(e)'
  BY MadeStays
<1>r. \A i \in 1..Len(recordsCh) : recordsCh[i] \in Pushes /\ Pushed(recordsCh[i])
  BY <1>0 DEF Carried
<1>m. \A k \in Clients : AllMade(batch[k])
  BY <1>0 DEF Carried
<1>h. \A k \in Clients : kpc[k] = "append" => held[k] \in Holding /\ Since(held[k])
  BY <1>0 DEF Carried
<1>k. ASSUME Queued, AllSince, \A k \in Clients : AllMade(batch'[k])
      PROVE  Carried'
  <2>1. \A i \in 1..Len(recordsCh') : recordsCh'[i][2] <= Len(cmds'[recordsCh'[i][1]])
    <3>1. ASSUME NEW p \in Pushes, Pushed(p) PROVE p[2] <= Len(cmds'[p[1]])
      <4>1. p[1] \in Conns /\ p[2] \in Nat
        BY RsqsAssumption DEF Pushes
      <4> QED
        BY <1>0, <1>s, <3>1, <4>1 DEF Pushed
    <3> QED
      BY <1>k, <3>1
  <2>2. ASSUME NEW k \in Clients, NEW i \in 1..Len(batch'[k]) PROVE Made(batch[k][i])'
    <3>1. PICK e : e = batch'[k][i]
      OBVIOUS
    <3>2. Made(e)
      BY <1>k, <2>2, <3>1
    <3>3. Made(e)'
      BY <1>s, <3>2
    <3> QED
      BY <3>1, <3>3 DEF Made, Pushed, HasRaw
  <2>3. ASSUME NEW k \in Clients, kpc'[k] = "append"
        PROVE  held'[k].push[2] <= held'[k].since /\ held'[k].since <= Len(cmds'[held'[k].push[1]])
    <3>1. PICK h \in Holding : h = held'[k] /\ Since(h)
      BY <1>k, <2>3
    <3>2. h.push[1] \in Conns /\ h.since \in Nat
      BY DEF Holding, Pushes
    <3> QED
      BY <1>0, <1>s, <3>1, <3>2 DEF Since
  <2> QED
    BY <2>1, <2>2, <2>3 DEF Carried, Pushed, Since
<1>b. ASSUME NEW k \in Clients, NEW b, batch' = [batch EXCEPT ![k] = b], AllMade(b)
      PROVE  \A l \in Clients : AllMade(batch'[l])
  BY <1>0, <1>b, <1>m
<1>e. ASSUME NEW b, b \in Seq(Range(b)), NEW e, AllMade(b), Made(e) PROVE AllMade(Append(b, e))
  <2>1. PICK a : a = Append(b, e)
    OBVIOUS
  <2>2. Len(b) \in Nat /\ Len(a) = Len(b) + 1 /\ a[Len(b) + 1] = e /\ \A i \in 1..Len(b) : a[i] = b[i]
    BY <1>e, <2>1, AppendRange
  <2>3. \A i \in 1..Len(a) : i \in 1..Len(b) \/ i = Len(b) + 1
    BY <2>2
  <2>4. \A i \in 1..Len(a) : Made(a[i])
    BY <1>e, <2>2, <2>3
  <2> QED
    BY <2>1, <2>4
<1>n. Len(<<>>) = 0 /\ AllMade(<<>>)
  OBVIOUS
<1>u. ASSUME \A k \in Clients : kpc'[k] = "append" => kpc[k] = "append" /\ held'[k] = held[k]
      PROVE  AllSince
  BY <1>h, <1>u
<1>1. ASSUME UNCHANGED <<recordsCh, batch, kpc, held>> PROVE Carried'
  BY <1>1, <1>k, <1>m, <1>r, <1>u
<1>2. ASSUME NEW c \in Conns, Push(c) PROVE Carried'
  <2>1. UNCHANGED <<batch, kpc, held>> /\ cpc[c] \in {"smart", "sync"}
    BY <1>2 DEF Push, workers
  <2>2. CASE UNCHANGED recordsCh
    BY <1>1, <2>1, <2>2
  <2>3. CASE recordsCh' = Append(recordsCh, <<c, Len(cmds[c])>>)
    <3>1. PICK p : p = <<c, Len(cmds[c])>>
      OBVIOUS
    <3>2. p \in Pushes /\ Pushed(p)
      <4>0. Line(c) /\ Len(todo[c]) \in Nat /\ Len(Commands) \in Nat
        BY RsqsAssumption, SMTT(30) DEF RsqsInv, Shapes, Lines, Line
      <4>1. Len(cmds[c]) \in 1..Len(Commands)
        <5>1. Len(cmds[c]) > 0 /\ Len(cmds[c]) + Len(todo[c]) <= Len(Commands)
          BY <2>1, <4>0 DEF Line
        <5>2. PICK l \in Nat : l = Len(cmds[c])
          BY <1>0
        <5>3. PICK m \in Nat : m = Len(todo[c])
          BY <4>0
        <5>4. PICK n \in Nat : n = Len(Commands)
          BY <4>0
        <5>5. l > 0 /\ l + m <= n
          BY <5>1, <5>2, <5>3, <5>4
        <5>6. l \in 1..n
          BY <5>5
        <5> QED
          BY <5>2, <5>4, <5>6
      <4>2. p \in Pushes
        BY <3>1, <4>1 DEF Pushes
      <4>3. p[2] <= Len(cmds[p[1]])
        BY <1>0, <3>1
      <4> QED
        BY <4>2, <4>3 DEF Pushed
    <3>3. PICK q \in Seq(Pushes) : q = recordsCh
      BY <1>0
    <3>4. PICK a : a = Append(q, p)
      OBVIOUS
    <3>5. Len(q) \in Nat /\ Len(a) = Len(q) + 1 /\ a[Len(q) + 1] = p /\ \A i \in 1..Len(q) : a[i] = q[i]
      BY <3>2, <3>3, <3>4
    <3>6. \A i \in 1..Len(a) : i \in 1..Len(q) \/ i = Len(q) + 1
      BY <3>5
    <3>7. \A i \in 1..Len(a) : a[i] \in Pushes /\ Pushed(a[i])
      BY <1>r, <3>2, <3>3, <3>5, <3>6
    <3>8. recordsCh' = a
      BY <2>3, <3>1, <3>3, <3>4
    <3> QED
      BY <1>k, <1>m, <1>u, <2>1, <3>7, <3>8
  <2> QED
    BY <1>2, <2>2, <2>3 DEF Push
<1>3. ASSUME NEW k \in Clients, TakeSync(k) PROVE Carried'
  <2>1. syncRecordCh # <<>> /\ UNCHANGED <<recordsCh, held>>
    BY <1>3 DEF TakeSync
  <2>u. \A l \in Clients : kpc'[l] = "append" => kpc[l] = "append" /\ held'[l] = held[l]
    <3>1. kpc' = kpc \/ kpc' = [kpc EXCEPT ![k] = "flush"]
      BY <1>3 DEF TakeSync
    <3> QED
      BY <1>0, <2>1, <3>1
  <2>2. PICK p \in Pushes : p = Head(syncRecordCh)
    BY <1>0, <2>1
  <2>3. 1 \in 1..Len(syncRecordCh) /\ syncRecordCh[1] = p
    BY <1>0, <2>1, <2>2
  <2>4. p[1] \in Conns /\ p[2] = Len(cmds[p[1]])
    BY <1>0, <2>3 DEF Waiting, Awaits, Pushes
  <2>6. CASE UNCHANGED batch
    BY <1>k, <1>m, <1>r, <1>u, <2>1, <2>u, <2>6
  <2>7. ASSUME NEW doc \in Documents(rec[p[1]]), batch' = [batch EXCEPT ![k] = Append(@, [push |-> p, doc |-> doc])]
        PROVE  Carried'
    <3>1. PICK e : e = [push |-> p, doc |-> doc]
      OBVIOUS
    <3>2. Made(e)
      BY <2>4, <3>1, NewSynchronous
    <3>3. PICK b : b = batch[k]
      OBVIOUS
    <3>4. AllMade(Append(b, e))
      BY <1>0, <1>e, <1>m, <3>2, <3>3
    <3>5. batch' = [batch EXCEPT ![k] = Append(b, e)]
      BY <2>7, <3>1, <3>3
    <3>6. \A l \in Clients : AllMade(batch'[l])
      BY <1>b, <3>4, <3>5
    <3> QED
      BY <1>k, <1>r, <1>u, <2>1, <2>u, <3>6
  <2>8. UNCHANGED batch \/ \E doc \in Documents(rec[p[1]]) : batch' = [batch EXCEPT ![k] = Append(@, [push |-> p, doc |-> doc])]
    BY <1>3, <2>2, Zenon DEF TakeSync
  <2> QED
    BY <2>6, <2>7, <2>8
<1>4. ASSUME NEW k \in Clients, TakeSmart(k) PROVE Carried'
  <2>1. recordsCh # <<>> /\ recordsCh' = Tail(recordsCh) /\ kpc[k] = "listen"
    BY <1>4 DEF TakeSmart
  <2>2. PICK p \in Pushes : p = Head(recordsCh)
    BY <1>0, <2>1
  <2>3. Pushed(p)
    <3>1. 1 \in 1..Len(recordsCh) /\ recordsCh[1] = p
      BY <1>0, <2>1, <2>2
    <3> QED
      BY <1>r, <3>1
  <2>4. Queued
    <3>1. PICK q \in Seq(Pushes) : q = recordsCh
      BY <1>0
    <3>2. Len(q) \in Nat /\ Len(Tail(q)) = Len(q) - 1 /\ \A i \in 1..Len(Tail(q)) : Tail(q)[i] = q[i + 1] /\ i + 1 \in 1..Len(q)
      BY <2>1, <3>1
    <3> QED
      BY <1>r, <2>1, <3>1, <3>2
  <2>5. CASE UNCHANGED <<kpc, batch, held>>
    BY <1>k, <1>m, <1>u, <2>4, <2>5
  <2>6. CASE /\ kpc' = [kpc EXCEPT ![k] = "append"]
             /\ held' = [held EXCEPT ![k] = [push |-> p, since |-> Len(cmds[p[1]])]]
             /\ batch' = [batch EXCEPT ![k] = IF Full(batch[k]) THEN <<>> ELSE @]
    <3>1. PICK b : b = IF Full(batch[k]) THEN <<>> ELSE batch[k]
      OBVIOUS
    <3>2. AllMade(b)
      BY <1>m, <1>n, <3>1
    <3>3. batch' = [batch EXCEPT ![k] = b]
      BY <2>6, <3>1
    <3>4. \A l \in Clients : AllMade(batch'[l])
      BY <1>b, <3>2, <3>3
    <3>5. PICK h : h = [push |-> p, since |-> Len(cmds[p[1]])]
      OBVIOUS
    <3>6. p[1] \in Conns /\ p[2] \in Nat
      BY RsqsAssumption DEF Pushes
    <3>7. h \in Holding /\ Since(h)
      BY <1>0, <2>3, <3>5, <3>6 DEF Holding, Since, Pushed
    <3>8. held'[k] = h /\ \A l \in Clients \ {k} : kpc'[l] = kpc[l] /\ held'[l] = held[l]
      BY <1>0, <2>6, <3>5
    <3>9. AllSince
      BY <1>h, <3>7, <3>8
    <3> QED
      BY <1>k, <2>4, <3>4, <3>9
  <2> QED
    BY <1>4, <2>2, <2>5, <2>6 DEF TakeSmart
<1>a. ASSUME NEW k \in Clients, AppendSmart(k) PROVE Carried'
  <2>1. UNCHANGED recordsCh /\ kpc[k] = "append"
    BY <1>a DEF AppendSmart, channels
  <2>2. CASE UNCHANGED <<kpc, batch, held>>
    BY <1>1, <2>1, <2>2
  <2>3. CASE /\ kpc' = [kpc EXCEPT ![k] = "listen"] /\ held' = [held EXCEPT ![k] = None]
             /\ \/ UNCHANGED batch
                \/ \E doc \in Marshalled(Moments(held[k].push[1], held[k].since)) :
                      batch' = [batch EXCEPT ![k] = Append(@, [push |-> held[k].push, doc |-> doc])]
    <3>1. \A l \in Clients : kpc'[l] = "append" => kpc[l] = "append" /\ held'[l] = held[l]
      BY <1>0, <2>3
    <3>2. CASE UNCHANGED batch
      BY <1>k, <1>m, <1>r, <1>u, <2>1, <3>1, <3>2
    <3>3. ASSUME NEW doc \in Marshalled(Moments(held[k].push[1], held[k].since)),
                 batch' = [batch EXCEPT ![k] = Append(@, [push |-> held[k].push, doc |-> doc])]
          PROVE  Carried'
      <4>1. PICK h \in Holding : h = held[k] /\ Since(h)
        BY <1>h, <2>1
      <4>2. PICK e : e = [push |-> h.push, doc |-> doc]
        OBVIOUS
      <4>3. Made(e)
        BY <3>3, <4>1, <4>2, NewSmart
      <4>4. PICK b : b = batch[k]
        OBVIOUS
      <4>5. AllMade(Append(b, e))
        BY <1>0, <1>e, <1>m, <4>3, <4>4
      <4>6. batch' = [batch EXCEPT ![k] = Append(b, e)]
        BY <3>3, <4>1, <4>2, <4>4
      <4>7. \A l \in Clients : AllMade(batch'[l])
        BY <1>b, <4>5, <4>6
      <4> QED
        BY <1>k, <1>r, <1>u, <2>1, <3>1, <4>7
    <3> QED
      BY <2>3, <3>2, <3>3
  <2> QED
    BY <1>a, <2>2, <2>3, Zenon DEF AppendSmart
<1>5. ASSUME NEW k \in Clients, AnswerSync(k) \/ Timer(k) \/ Done(k) PROVE Carried'
  <2>1. /\ UNCHANGED <<recordsCh, held>> /\ batch' = [batch EXCEPT ![k] = <<>>]
        /\ kpc' = kpc \/ kpc' = [kpc EXCEPT ![k] = "listen"] \/ kpc' = [kpc EXCEPT ![k] = "off"]
    BY <1>5 DEF AnswerSync, Timer, Done, channels
  <2>2. \A l \in Clients : AllMade(batch'[l])
    BY <1>b, <1>n, <2>1
  <2>3. \A l \in Clients : kpc'[l] = "append" => kpc[l] = "append" /\ held'[l] = held[l]
    BY <1>0, <2>1
  <2> QED
    BY <1>k, <1>r, <1>u, <2>1, <2>2, <2>3
<1>6. ASSUME NEW c \in Conns, Refuse(c) \/ Close(c) \/ Write(c) \/ \E cmd \in Allowed(c) : Command(c, cmd)
      PROVE  UNCHANGED <<recordsCh, batch, kpc, held>>
  BY <1>6 DEF Refuse, Close, Write, Command, channels, workers
<1>7. ASSUME (\E c \in Configs : Reload(c)) \/ RetryBegins \/ RetryFails \/ RetryAgain \/ Exit
      PROVE  UNCHANGED <<recordsCh, batch, kpc, held>>
  BY <1>7 DEF Reload, RetryBegins, RetryFails, RetryAgain, Exit, channels, workers
<1>8. ASSUME RetrySucceeds PROVE Carried'
  <2>1. UNCHANGED <<recordsCh, batch, held>> /\ Resize
    BY <1>8 DEF RetrySucceeds, channels
  <2>2. \A k \in Clients : kpc'[k] = kpc[k] \/ (kpc[k] = "off" /\ kpc'[k] = "listen")
    BY <2>1, ResizeKeeps
  <2>3. \A l \in Clients : kpc'[l] = "append" => kpc[l] = "append" /\ held'[l] = held[l]
    BY <2>1, <2>2
  <2> QED
    BY <1>k, <1>m, <1>r, <1>u, <2>1, <2>3
<1> QED
  BY <1>1, <1>2, <1>3, <1>4, <1>a, <1>5, <1>6, <1>7, <1>8 DEF Next, Listen, Retry

-----------------------------------------------------------------------------
(* The invariant of the SQS relayer holds always.                          *)
LEMMA RsqsInvariant == Spec => []RsqsInv
<1>1. ASSUME RsqsInv, Next PROVE RsqsInv'
  <2>1. ControlOK' /\ \E c \in Configs : config' = Effective(c)
    BY <1>1, ControlStep
  <2>2. QueuesOK' /\ recordsCh' \in Seq(Pushes) /\ syncRecordCh' \in Seq(Pushes) /\ Lines'
    BY <1>1, QueuesStep
  <2>3. ClientsOK' /\ clients' \in Seq(Clients) /\ BatchesOK'
    BY <1>1, ClientsStep
  <2>4. Waiting'
    BY <1>1, WaitingStep
  <2>5. Gathered'
    BY <1>1, GatheredStep
  <2>6. Carried'
    BY <1>1, CarriedStep
  <2>7. TypeOK'
    BY <2>1, <2>2, <2>3, TypeParts, PTL
  <2>8. Shapes' /\ Batches'
    BY <2>1, <2>2, <2>3 DEF Shapes, Batches, BatchesOK
  <2> QED
    BY <2>4, <2>5, <2>6, <2>7, <2>8 DEF RsqsInv
<1>2. ASSUME RsqsInv, UNCHANGED vars PROVE RsqsInv'
  <2>0. /\ UNCHANGED <<config, reloads, status, failing, tries, rpc, retries, cpc, todo, rec, cmds, past>>
        /\ UNCHANGED <<recordsCh, syncRecordCh, clients, kpc, batch, held, sync, leaving, owed>>
    BY <1>2 DEF vars, state, connections, channels, workers
  <2>1. TypeOK'
    <3>1. ControlOK' /\ QueuesOK' /\ ClientsOK'
      BY <1>2, <2>0, TypeParts DEF RsqsInv, ControlOK, QueuesOK, ClientsOK
    <3> QED
      BY <3>1, TypeParts, PTL
  <2>2. Shapes' /\ Batches'
    BY <1>2, <2>0 DEF RsqsInv, Shapes, Lines, Line, Batches, InLimit, Limits
  <2>3. Waiting' /\ Gathered'
    BY <1>2, <2>0 DEF RsqsInv, Waiting, Awaits, Gathered, Plain, HasRaw
  <2>4. Carried'
    BY <1>2, <2>0 DEF RsqsInv, Carried, Pushed, Since, Made, HasRaw
  <2> QED
    BY <2>1, <2>2, <2>3, <2>4 DEF RsqsInv
<1> QED
  BY <1>1, <1>2, SQSStarts, PTL DEF Spec

(* The batches of the clients, and so the requests, never hold more        *)
(* messages than a configuration allows: a batch is flushed while there is *)
(* room for one more (Full), and with a synchronous record at once.        *)
THEOREM RequestFitsAlways == Spec => []RequestFits
<1>1. RsqsInv => RequestFits
  BY DEF RsqsInv, Batches, InLimit, RequestFits
<1> QED
  BY <1>1, RsqsInvariant, PTL

(* A message says all that the connection had set by the command it was    *)
(* pushed for (TakeSync, AppendSmart, StringUniqID of the shared record,   *)
(* which the connection may be writing), in synchronous mode nothing else, *)
(* unless the connection sent a RAWSET.                                    *)
THEOREM CarriesItsCommandAlways == Spec => []CarriesItsCommand
<1>1. ASSUME RsqsInv PROVE CarriesItsCommand
  <2>1. SUFFICES ASSUME NEW k \in Clients, NEW i \in DOMAIN batch[k], ~HasRaw(batch[k][i].push[1])
                 PROVE  Describes(batch[k][i].doc,
                            IF sync[k] = <<batch[k][i].push[1], batch[k][i].push[2]>>
                              THEN SubSeq(cmds[batch[k][i].push[1]], 1, batch[k][i].push[2])
                              ELSE cmds[batch[k][i].push[1]], batch[k][i].push[2])
    BY Zenon DEF CarriesItsCommand
  <2>2. PICK e : e = batch[k][i]
    OBVIOUS
  <2>3. Made(e)
    <3>1. batch[k] \in Seq(Range(batch[k])) /\ \A j \in 1..Len(batch[k]) : Made(batch[k][j])
      BY <1>1 DEF RsqsInv, Shapes, Carried
    <3> QED
      BY <2>2, <3>1
  <2>4. PICK p \in Pushes : p = e.push
    BY <2>3 DEF Made
  <2>5. PICK c : c = p[1]
    OBVIOUS
  <2>6. PICK n : n = p[2]
    OBVIOUS
  <2>7. c \in Conns /\ cmds[c] \in Seq(Range(cmds[c]))
    BY <1>1, <2>4, <2>5 DEF RsqsInv, Shapes, Lines, Line, Pushes
  <2>8. Describes(e.doc, cmds[c], n)
    BY <2>1, <2>2, <2>3, <2>4, <2>5, <2>6 DEF Made
  <2>9. ASSUME sync[k] = <<c, n>> PROVE SubSeq(cmds[c], 1, n) = cmds[c]
    <3>1. sync[k] # None
      BY <2>9 DEF None
    <3>2. kpc[k] = "flush"
      BY <1>1, <3>1, TypeParts DEF RsqsInv, ClientsOK
    <3>3. Awaits(sync[k])
      BY <1>1, <3>2 DEF RsqsInv, Waiting
    <3>4. n = Len(cmds[c])
      BY <2>9, <3>3 DEF Awaits
    <3> QED
      BY <2>7, <3>4, WholeSeq
  <2>10. (IF sync[k] = <<c, n>> THEN SubSeq(cmds[c], 1, n) ELSE cmds[c]) = cmds[c]
    BY <2>9
  <2> QED
    BY <2>2, <2>4, <2>5, <2>6, <2>8, <2>10
<1> QED
  BY <1>1, RsqsInvariant, PTL

-----------------------------------------------------------------------------
(* The Firehose and Kinesis relayers.                                      *)

(* The parts of StreamTypeOK: the process, the connections, the spooler.   *)
ProcessOK ==
    /\ sconfig \in StreamConfigs /\ xpc \in {"run", "listener", "exit", "workers", "closed"}
    /\ apc \in {"check", "accept", "ended"}
    /\ crash \in {"no", "listener", "closed", "reload", "workers", "command", "args", "fatal"}
    /\ scritical \in BOOLEAN /\ late \in [BOOLEAN -> 0..MaxPending]
LinesOK ==
    /\ scpc \in [StreamConns -> {"new", "read", "send", "end"}] /\ multi \in [StreamConns -> BOOLEAN]
    /\ \A c \in StreamConns :
          (scpc[c] = "send" <=> pend[c] # <<>>) /\ (multi[c] => row[c] # <<>>) /\ done[c] \in 0..Len(Scripts[c])
SpoolerOK ==
    /\ Len(C) <= StreamBuffer /\ IsInjective(C) /\ Range(C) \cup retrying \cup unfit \cup sowed \subseteq Units
    /\ Range(C) \cap retrying = {}

(* A transaction that is open has the record of its commands, a document   *)
(* to be sent is one of theirs.                                            *)
Arrays ==
    /\ row = [c \in StreamConns |-> row[c]] /\ pend = [c \in StreamConns |-> pend[c]]
    /\ done = [c \in StreamConns |-> done[c]] /\ txn = [c \in StreamConns |-> txn[c]]
    /\ stray \in [StreamConns -> BOOLEAN]
Says(p) == IF p.doc.kind = "raw" THEN p.doc.of = p.cmds[1].raw ELSE Describes(p.doc, p.cmds, Len(p.cmds))
Transactions ==
    \A c \in StreamConns :
        /\ txn[c] \in Seq(Range(txn[c]))
        /\ multi[c] => Recorded(row[c], txn[c])
        /\ pend[c] # <<>> /\ ~stray[c] => Says(pend[c])

(* What a connection handed over is older than what it is sending.         *)
Older(u) == u[2] <= done[u[1]] /\ (scpc[u[1]] = "send" => u[2] < done[u[1]])
Handed ==
    /\ C \in Seq(Units) /\ \A u \in Range(C) \cup retrying : Older(u)
    /\ \A c \in StreamConns : scpc[c] = "send" => done[c] >= 1

StreamInv ==
    /\ StreamTypeOK /\ Arrays /\ Transactions /\ Handed
    /\ CrashesExplained

-----------------------------------------------------------------------------
LEMMA StreamTypeParts == StreamTypeOK <=> ProcessOK /\ LinesOK /\ SpoolerOK
  BY Zenon DEF ProcessOK, LinesOK, SpoolerOK, StreamTypeOK, None

-----------------------------------------------------------------------------
(* Records and what is to be sent are not the empty tuple that stands for  *)
(* none.                                                                   *)
LEMMA NotNone ==
    /\ \A a, b, d : [doc |-> a, cmds |-> b, blocks |-> d] # <<>>
    /\ \A r : IsRecord(r) => r # <<>>
    /\ \A raw : SetRaw(NewInterRecord, raw) # <<>>
<1>1. DOMAIN <<>> = {}
  OBVIOUS
<1>2. ASSUME NEW a, NEW b, NEW d PROVE [doc |-> a, cmds |-> b, blocks |-> d] # <<>>
  <2>1. "doc" \in DOMAIN [doc |-> a, cmds |-> b, blocks |-> d]
    OBVIOUS
  <2> QED
    BY <1>1, <2>1
<1>3. ASSUME NEW r, IsRecord(r) PROVE r # <<>>
  <2>1. "types" \in DOMAIN r
    BY <1>3 DEF IsRecord
  <2> QED
    BY <1>1, <2>1
<1>4. ASSUME NEW raw PROVE SetRaw(NewInterRecord, raw) # <<>>
  <2>1. "types" \in DOMAIN SetRaw(NewInterRecord, raw)
    BY DEF SetRaw, NewInterRecord
  <2> QED
    BY <1>1, <2>1
<1> QED
  BY <1>2, <1>3, <1>4

(* What sendRecord leaves: nothing to send, or the document of the record. *)
LEMMA SendLeaves ==
    ASSUME StreamInv, NEW c \in StreamConns, NEW r, NEW cs, scpc[c] = "read", Send(c, r, cs)
    PROVE  \E pc, p :
             /\ pc \in {"read", "send"} /\ scpc' = [scpc EXCEPT ![c] = pc] /\ pend' = [pend EXCEPT ![c] = p]
             /\ (pc = "send" <=> p # <<>>) /\ (pc = "send" => p.doc = Document(r) /\ p.cmds = cs)
             /\ sowed' \subseteq sowed \cup {<<c, done[c] + 1>>} /\ unfit' \subseteq unfit \cup {<<c, done[c] + 1>>}
             /\ (crash' = crash \/ (crash' = "command" /\ r = <<>>))
<1>0. LinesOK /\ pend = [d \in StreamConns |-> pend[d]]
  BY StreamTypeParts DEF StreamInv, Arrays
<1>1. scpc = [scpc EXCEPT ![c] = "read"]
  BY <1>0 DEF LinesOK
<1>2. pend[c] = <<>>
  BY <1>0 DEF LinesOK
<1>3. pend = [pend EXCEPT ![c] = <<>>]
  BY <1>0, <1>2
<1>4. CASE UNCHANGED <<scpc, pend, unfit, sowed>> /\ (crash' = crash \/ (crash' = "command" /\ r = <<>>))
  BY <1>1, <1>3, <1>4
<1>5. CASE /\ pend' = [pend EXCEPT ![c] = [doc |-> Document(r), cmds |-> cs, blocks |-> Blocks]]
           /\ scpc' = [scpc EXCEPT ![c] = "send"] /\ UNCHANGED crash
           /\ sowed' \subseteq sowed \cup {<<c, done[c] + 1>>} /\ unfit' \subseteq unfit \cup {<<c, done[c] + 1>>}
  <2>1. PICK p : p = [doc |-> Document(r), cmds |-> cs, blocks |-> Blocks]
    OBVIOUS
  <2>2. p # <<>> /\ p.doc = Document(r) /\ p.cmds = cs
    BY <2>1, NotNone
  <2> QED
    BY <1>5, <2>1, <2>2
<1> QED
  BY <1>4, <1>5 DEF Send, None

(* What a command does to its connection: the document it leaves to be     *)
(* sent is that of the commands, an open transaction has their record.     *)
Handled(c, pc, p, m, r, s, y) ==
    /\ scpc' = [scpc EXCEPT ![c] = pc] /\ pend' = [pend EXCEPT ![c] = p]
    /\ multi' = [multi EXCEPT ![c] = m] /\ row' = [row EXCEPT ![c] = r]
    /\ txn' = [txn EXCEPT ![c] = s] /\ stray' = [stray EXCEPT ![c] = y]
    /\ (pc = "send" <=> p # <<>>) /\ (pc = "send" /\ ~y => Says(p))
    /\ s \in Seq(Range(s)) /\ (m => Recorded(r, s))
    /\ sowed' \subseteq sowed \cup {<<c, done[c] + 1>>} /\ unfit' \subseteq unfit \cup {<<c, done[c] + 1>>}
    /\ (crash' = crash \/ (crash' = "command" /\ (y \/ m)))

LEMMA CommandHandled ==
    ASSUME StreamInv, NEW c \in StreamConns, StreamCommand(c)
    PROVE  /\ UNCHANGED <<sconfig, xpc, apc, scritical, late, C, retrying>>
           /\ \/ UNCHANGED <<sessions, unfit, sowed>> /\ crash' = "args"
              \/ /\ done[c] + 1 \in 1..Len(Scripts[c]) /\ done' = [done EXCEPT ![c] = done[c] + 1]
                 /\ \E pc \in {"read", "send"}, m \in BOOLEAN, y \in BOOLEAN : \E p, r, s : Handled(c, pc, p, m, r, s, y)
<1>0. /\ LinesOK /\ Arrays /\ Transactions /\ scpc[c] = "read"
      /\ Scripts[c] \in Seq(SUBSET UNION Range(Scripts[c]))
      /\ \A cmd \in UNION Range(Scripts[c]) : cmd.op \in {"SET", "SADD", "HMSET"} => cmd.bytes \in BOOLEAN
  BY StreamTypeParts, StreamAssumption DEF StreamInv, StreamCommand
<1>1. PICK cmd \in StreamAllowed(c) : Handle(c, cmd)
  BY DEF StreamCommand
<1>2. done[c] + 1 \in 1..Len(Scripts[c]) /\ cmd \in Scripts[c][done[c] + 1]
  BY <1>0, <1>1 DEF StreamAllowed, LinesOK
<1>3. cmd.op \in {"SET", "SADD", "HMSET"} => cmd.bytes \in BOOLEAN
  <2>1. PICK S : S = SUBSET UNION Range(Scripts[c])
    OBVIOUS
  <2>2. Scripts[c][done[c] + 1] \in S
    BY <1>0, <1>2, <2>1
  <2> QED
    BY <1>0, <1>2, <2>1, <2>2
<1>4. /\ scpc = [scpc EXCEPT ![c] = "read"] /\ pend = [pend EXCEPT ![c] = <<>>] /\ pend[c] = <<>>
      /\ multi[c] \in BOOLEAN /\ stray[c] \in BOOLEAN
      /\ multi = [multi EXCEPT ![c] = multi[c]] /\ row = [row EXCEPT ![c] = row[c]]
      /\ txn = [txn EXCEPT ![c] = txn[c]] /\ stray = [stray EXCEPT ![c] = stray[c]]
  <2>1. pend[c] = <<>>
    BY <1>0 DEF LinesOK
  <2> QED
    BY <1>0, <2>1 DEF LinesOK, Arrays
<1>5. txn[c] \in Seq(Range(txn[c])) /\ (multi[c] => Recorded(row[c], txn[c])) /\ <<>> \in Seq(Range(<<>>))
  BY <1>0 DEF Transactions
<1>6. UNCHANGED <<sconfig, xpc, apc, scritical, late, C, retrying>>
  BY DEF StreamCommand
<1>d. ASSUME Multi(c) \/ Exec(c) \/ RawSet(c, cmd) \/ Queue(c, cmd) \/ Alone(c, cmd)
      PROVE  done' = [done EXCEPT ![c] = done[c] + 1]
  BY <1>d DEF Multi, Exec, RawSet, Queue, Alone, Counted
<1>s. CASE Short(c, cmd)
  BY <1>6, <1>s DEF Short
<1>7. CASE Multi(c)
  <2>1. Recorded(NewInterRecord, <<>>)
    BY RecordedEmpty
  <2>2. Handled(c, "read", <<>>, TRUE, NewInterRecord, <<>>, stray[c])
    BY <1>4, <1>5, <1>7, <2>1 DEF Handled, Multi
  <2> QED
    BY <1>0, <1>2, <1>4, <1>6, <1>d, <1>7, <2>2
<1>8. CASE Exec(c)
  <2>1. PICK y \in BOOLEAN : y <=> stray[c] \/ ~multi[c]
    BY <1>4
  <2>2. stray' = [stray EXCEPT ![c] = y]
    <3>1. stray' = [stray EXCEPT ![c] = stray[c] \/ ~multi[c]]
      BY <1>8 DEF Exec
    <3>2. y = (stray[c] \/ ~multi[c])
      BY <1>4, <2>1
    <3> QED
      BY <3>1, <3>2
  <2>3. multi' = [multi EXCEPT ![c] = FALSE] /\ txn' = [txn EXCEPT ![c] = <<>>] /\ Send(c, row[c], txn[c])
    BY <1>8 DEF Exec
  <2>4. PICK r : row' = [row EXCEPT ![c] = r]
    BY <1>8 DEF Exec
  <2>5. PICK pc, p :
          /\ pc \in {"read", "send"} /\ scpc' = [scpc EXCEPT ![c] = pc] /\ pend' = [pend EXCEPT ![c] = p]
          /\ (pc = "send" <=> p # <<>>) /\ (pc = "send" => p.doc = Document(row[c]) /\ p.cmds = txn[c])
          /\ sowed' \subseteq sowed \cup {<<c, done[c] + 1>>} /\ unfit' \subseteq unfit \cup {<<c, done[c] + 1>>}
          /\ (crash' = crash \/ (crash' = "command" /\ row[c] = <<>>))
    BY <1>0, <2>3, SendLeaves
  <2>6. ASSUME pc = "send", ~y PROVE Says(p)
    <3>1. Recorded(row[c], txn[c])
      BY <1>5, <2>1, <2>6
    <3>2. Document(row[c]).kind = "json" /\ Describes(Document(row[c]), txn[c], Len(txn[c]))
      BY <1>5, <3>1, DocumentDescribes
    <3> QED
      BY <2>5, <2>6, <3>2 DEF Says
  <2>7. row[c] = <<>> => y
    BY <1>0, <2>1 DEF LinesOK
  <2>8. Handled(c, pc, p, FALSE, r, <<>>, y)
    BY <1>5, <2>2, <2>3, <2>4, <2>5, <2>6, <2>7 DEF Handled
  <2> QED
    BY <1>0, <1>2, <1>6, <1>d, <1>8, <2>5, <2>8
<1>9. CASE RawSet(c, cmd)
  <2>1. CASE UNCHANGED <<scpc, pend, unfit, sowed, crash>>
    <3>1. Handled(c, "read", <<>>, multi[c], row[c], txn[c], stray[c])
      BY <1>4, <1>5, <1>9, <2>1 DEF Handled, RawSet
    <3> QED
      BY <1>0, <1>2, <1>4, <1>6, <1>d, <1>9, <3>1
  <2>2. CASE Send(c, SetRaw(NewInterRecord, cmd.raw), <<cmd>>)
    <3>1. PICK r : r = SetRaw(NewInterRecord, cmd.raw)
      OBVIOUS
    <3>2. Send(c, r, <<cmd>>)
      BY <2>2, <3>1
    <3>3. PICK pc, p :
            /\ pc \in {"read", "send"} /\ scpc' = [scpc EXCEPT ![c] = pc] /\ pend' = [pend EXCEPT ![c] = p]
            /\ (pc = "send" <=> p # <<>>) /\ (pc = "send" => p.doc = Document(r) /\ p.cmds = <<cmd>>)
            /\ sowed' \subseteq sowed \cup {<<c, done[c] + 1>>} /\ unfit' \subseteq unfit \cup {<<c, done[c] + 1>>}
            /\ (crash' = crash \/ (crash' = "command" /\ r = <<>>))
      BY <1>0, <3>2, SendLeaves
    <3>4. r # <<>>
      BY <3>1, NotNone
    <3>5. Document(r) = [kind |-> "raw", of |-> cmd.raw]
      BY <3>1 DEF SetRaw, NewInterRecord, Document, Entry
    <3>6. pc = "send" => Says(p)
      BY <3>3, <3>5 DEF Says
    <3>7. Handled(c, pc, p, multi[c], row[c], txn[c], stray[c])
      BY <1>4, <1>5, <1>9, <3>3, <3>4, <3>6 DEF Handled, RawSet
    <3> QED
      BY <1>0, <1>2, <1>4, <1>6, <1>d, <1>9, <3>3, <3>7
  <2> QED
    BY <1>9, <2>1, <2>2 DEF RawSet
<1>10. ASSUME cmd.op \in {"SET", "SADD", "HMSET"}, NEW g, g = StreamGiven(c, cmd)
       PROVE  /\ IsValue(g.value) /\ g.op = cmd.op /\ \A r : Panics(r, g) <=> Panics(r, cmd)
  <2>1. PICK v : v = Value(<<c, done[c] + 1>>, cmd.bytes)
    OBVIOUS
  <2>2. IsValue(v)
    BY <1>3, <1>10, <2>1 DEF IsValue, Value
  <2>3. g = [op |-> cmd.op, key |-> cmd.key, fields |-> cmd.fields, more |-> cmd.op = "SADD" /\ cmd.args > 2, value |-> v]
    BY <1>10, <2>1 DEF StreamGiven
  <2>4. g.op = cmd.op /\ g.key = cmd.key /\ g.fields = cmd.fields /\ g.value = v
    BY <2>3
  <2> QED
    BY <2>2, <2>4 DEF Panics
<1>11. CASE cmd.op \in {"SET", "SADD", "HMSET"} /\ Queue(c, cmd)
  <2>1. multi[c] /\ UNCHANGED <<scpc, multi, pend, stray, unfit, sowed>>
    BY <1>11 DEF Queue
  <2>2. CASE crash' = "command" /\ UNCHANGED <<row, txn>>
    <3>1. Handled(c, "read", <<>>, multi[c], row[c], txn[c], stray[c])
      BY <1>4, <1>5, <2>1, <2>2 DEF Handled
    <3> QED
      BY <1>0, <1>2, <1>4, <1>6, <1>d, <1>11, <3>1
  <2>3. CASE /\ ~Panics(row[c], cmd) /\ row' = [row EXCEPT ![c] = Apply(@, StreamGiven(c, cmd))]
             /\ txn' = [txn EXCEPT ![c] = Append(@, StreamGiven(c, cmd))] /\ UNCHANGED crash
    <3>1. PICK g : g = StreamGiven(c, cmd)
      OBVIOUS
    <3>2. PICK r : r = row[c]
      OBVIOUS
    <3>3. PICK s : s = txn[c]
      OBVIOUS
    <3>4. PICK S : S = Range(s) \cup {g}
      OBVIOUS
    <3>5. g \in S /\ s \in Seq(S)
      <4>1. s \in [1..Len(s) -> Range(s)] /\ Len(s) \in Nat
        BY <1>5, <3>3
      <4>2. s \in [1..Len(s) -> S]
        BY <3>4, <4>1
      <4> QED
        BY <3>4, <4>1, <4>2
    <3>6. Recorded(Apply(r, g), Append(s, g))
      <4>1. IsValue(g.value) /\ g.op = cmd.op /\ ~Panics(r, g)
        BY <1>10, <1>11, <2>3, <3>1, <3>2
      <4>2. Recorded(r, s)
        BY <1>5, <2>1, <3>2, <3>3
      <4> QED
        BY <1>11, <3>5, <4>1, <4>2, RecordedStep
    <3>7. PICK t : t = Append(s, g)
      OBVIOUS
    <3>8. t \in Seq(Range(t))
      BY <1>5, <3>3, <3>7, AppendRange
    <3>9. PICK x : x = Apply(r, g)
      OBVIOUS
    <3>10. row' = [row EXCEPT ![c] = x] /\ txn' = [txn EXCEPT ![c] = t]
      BY <2>3, <3>1, <3>2, <3>3, <3>7, <3>9
    <3>11. Handled(c, "read", <<>>, multi[c], x, t, stray[c])
      BY <1>4, <2>1, <2>3, <3>6, <3>7, <3>8, <3>9, <3>10 DEF Handled
    <3> QED
      BY <1>0, <1>2, <1>4, <1>6, <1>d, <1>11, <3>11
  <2> QED
    BY <1>11, <2>2, <2>3 DEF Queue
<1>12. CASE cmd.op \in {"SET", "SADD", "HMSET"} /\ Alone(c, cmd)
  <2>1. PICK g : g = StreamGiven(c, cmd)
    OBVIOUS
  <2>2. PICK r : r = Apply(NewInterRecord, g)
    OBVIOUS
  <2>3. ~multi[c] /\ Send(c, r, <<g>>) /\ UNCHANGED <<multi, txn, stray>>
    BY <1>12, <2>1, <2>2 DEF Alone
  <2>4. PICK x : row' = [row EXCEPT ![c] = x]
    BY <1>12 DEF Alone
  <2>5. Recorded(r, <<g>>)
    <3>1. IsValue(g.value) /\ g.op = cmd.op
      BY <1>10, <1>12, <2>1
    <3>2. ~Panics(NewInterRecord, g)
      BY DEF Panics, Asserts, Has, NewInterRecord
    <3>3. <<>> \in Seq({g}) /\ g \in {g} /\ Append(<<>>, g) = <<g>>
      OBVIOUS
    <3>4. Recorded(Apply(NewInterRecord, g), Append(<<>>, g))
      BY <1>12, <3>1, <3>2, <3>3, RecordedEmpty, RecordedStep
    <3> QED
      BY <2>2, <3>3, <3>4
  <2>6. Document(r).kind = "json" /\ Describes(Document(r), <<g>>, Len(<<g>>))
    <3>1. <<g>> \in Seq({g})
      OBVIOUS
    <3> QED
      BY <2>5, <3>1, DocumentDescribes
  <2>7. r # <<>>
    BY <2>5, NotNone DEF Recorded
  <2>8. PICK pc, p :
          /\ pc \in {"read", "send"} /\ scpc' = [scpc EXCEPT ![c] = pc] /\ pend' = [pend EXCEPT ![c] = p]
          /\ (pc = "send" <=> p # <<>>) /\ (pc = "send" => p.doc = Document(r) /\ p.cmds = <<g>>)
          /\ sowed' \subseteq sowed \cup {<<c, done[c] + 1>>} /\ unfit' \subseteq unfit \cup {<<c, done[c] + 1>>}
          /\ (crash' = crash \/ (crash' = "command" /\ r = <<>>))
    BY <1>0, <2>3, SendLeaves
  <2>9. pc = "send" => Says(p)
    BY <2>6, <2>8 DEF Says
  <2>10. Handled(c, pc, p, multi[c], x, txn[c], stray[c])
    BY <1>4, <1>5, <2>3, <2>4, <2>7, <2>8, <2>9 DEF Handled
  <2> QED
    BY <1>0, <1>2, <1>4, <1>6, <1>d, <1>12, <2>8, <2>10
<1> QED
  BY <1>1, <1>7, <1>8, <1>9, <1>11, <1>12, <1>s DEF Handle

-----------------------------------------------------------------------------
LEMMA StreamStarts == ASSUME StreamInit PROVE StreamInv
<1>0. /\ sconfig \in StreamConfigs /\ xpc = "run" /\ apc = "check" /\ crash = "no"
      /\ scpc = [c \in StreamConns |-> "new"] /\ multi = [c \in StreamConns |-> FALSE]
      /\ row = [c \in StreamConns |-> <<>>] /\ pend = [c \in StreamConns |-> <<>>]
      /\ done = [c \in StreamConns |-> 0] /\ txn = [c \in StreamConns |-> <<>>] /\ stray = [c \in StreamConns |-> FALSE]
      /\ C = <<>> /\ retrying = {} /\ unfit = {} /\ sowed = {}
  BY DEF StreamInit, None
<1>1. ProcessOK
  <2>1. sconfig \in [critical : BOOLEAN, smart : BOOLEAN] /\ 0 \in 0..MaxPending
    BY <1>0, StreamAssumption
  <2>2. scritical \in BOOLEAN /\ late \in [BOOLEAN -> 0..MaxPending]
    BY <2>1 DEF StreamInit
  <2> QED
    BY <1>0, <2>2 DEF ProcessOK
<1>2. LinesOK
  <2>1. \A c \in StreamConns : Len(Scripts[c]) \in Nat
    BY StreamAssumption
  <2> QED
    BY <1>0, <2>1 DEF LinesOK
<1>3. Range(<<>>) = {} /\ IsInjective(<<>>) /\ Len(<<>>) = 0
  BY DEF Range, IsInjective
<1>4. SpoolerOK
  <2>1. StreamBuffer \in Nat
    BY StreamAssumption
  <2> QED
    BY <1>0, <1>3, <2>1 DEF SpoolerOK
<1>5. Arrays /\ Transactions
  BY <1>0, <1>3 DEF Arrays, Transactions
<1>6. Handed
  BY <1>0, <1>3 DEF Handed
<1>7. CrashesExplained
  BY <1>0 DEF CrashesExplained
<1> QED
  BY <1>1, <1>2, <1>4, <1>5, <1>6, <1>7, StreamTypeParts DEF StreamInv

(* Every step keeps the process well typed and its crashes explained.      *)
LEMMA ProcessStep ==
    ASSUME StreamInv, StreamNext
    PROVE  ProcessOK' /\ CrashesExplained'
<1> DEFINE Fine == ProcessOK' /\ CrashesExplained'
           Xpcs == {"run", "listener", "exit", "workers", "closed"}
<1>0. /\ ProcessOK /\ crash = "no" /\ MaxPending \in Nat /\ StreamConfigs \subseteq [critical : BOOLEAN, smart : BOOLEAN]
  BY StreamTypeParts, StreamAssumption DEF StreamInv, StreamNext
<1>1. ASSUME UNCHANGED <<crash, scritical, late>>, sconfig' \in StreamConfigs, xpc' \in Xpcs, apc' \in {"check", "accept", "ended"}
      PROVE  Fine
  BY <1>0, <1>1 DEF ProcessOK, CrashesExplained
<1>2. ASSUME UNCHANGED <<sconfig, xpc, apc, scritical, late, crash>> PROVE Fine
  BY <1>0, <1>1, <1>2 DEF ProcessOK
<1>3. ASSUME UNCHANGED <<sconfig, xpc, apc, scritical, late>>, crash' \in {"listener", "closed", "workers"}, xpc # "run" PROVE Fine
  BY <1>0, <1>3 DEF ProcessOK, CrashesExplained, Exiting
<1>4. CASE AcceptChecks
  BY <1>0, <1>1, <1>3, <1>4 DEF AcceptChecks, Listening, ProcessOK, spooler
<1>5. CASE AcceptFails
  <2>1. UNCHANGED <<sconfig, xpc, scritical, late, crash>> /\ apc' = "ended"
    BY <1>5 DEF AcceptFails, Listening, Exiting, spooler
  <2> QED
    BY <1>0, <1>1, <2>1 DEF ProcessOK
<1>6. ASSUME NEW c \in StreamConns, AcceptTakes(c) PROVE Fine
  BY <1>0, <1>1, <1>6 DEF AcceptTakes, ProcessOK, spooler
<1>7. ASSUME NEW c \in StreamConns, StreamCommand(c) PROVE Fine
  <2>1. UNCHANGED <<sconfig, xpc, apc, scritical, late>>
    BY <1>7, CommandHandled
  <2>2. CASE crash' = "args"
    BY <1>0, <2>1, <2>2 DEF ProcessOK, CrashesExplained
  <2>3. ASSUME NEW pc, NEW m, NEW y, NEW p, NEW r, NEW s, Handled(c, pc, p, m, r, s, y) PROVE Fine
    <3>0. CASE crash' = crash
      BY <1>2, <2>1, <3>0
    <3>1. CASE crash' = "command" /\ (y \/ m)
      <4>1. multi' = [multi EXCEPT ![c] = m] /\ stray' = [stray EXCEPT ![c] = y]
        BY <2>3 DEF Handled
      <4>2. LinesOK /\ Arrays
        BY StreamTypeParts DEF StreamInv
      <4>3. multi'[c] = m /\ stray'[c] = y
        BY <4>1, <4>2 DEF LinesOK, Arrays
      <4>4. \E d \in StreamConns : stray'[d] \/ multi'[d]
        BY <3>1, <4>3
      <4>5. ProcessOK'
        BY <1>0, <2>1, <3>1 DEF ProcessOK
      <4> QED
        BY <3>1, <4>4, <4>5 DEF CrashesExplained
    <3> QED
      BY <2>3, <3>0, <3>1 DEF Handled
  <2> QED
    BY <1>7, <2>2, <2>3, CommandHandled
<1>8. ASSUME NEW c \in StreamConns, Offer(c) PROVE Fine
  BY <1>0, <1>2, <1>3, <1>8 DEF Offer, Closed
<1>9. ASSUME NEW c \in StreamConns, StreamClose(c) PROVE Fine
  BY <1>2, <1>9 DEF StreamClose, spooler
<1>10. CASE Deliver \/ Fail
  BY <1>2, <1>10 DEF Deliver, Fail
<1>11. ASSUME NEW u, SendBack(u) PROVE Fine
  BY <1>0, <1>2, <1>3, <1>11 DEF SendBack, Closed
<1>12. CASE SpoolerExits
  BY <1>0, <1>1, <1>3, <1>12 DEF SpoolerExits, ProcessOK, spooler
<1>13. CASE WorkerReadsClosed
  BY <1>0, <1>3, <1>13 DEF WorkerReadsClosed, spooler
<1>14. ASSUME NEW new \in StreamConfigs, StreamReload(new) PROVE Fine
  <2>1. PICK b \in BOOLEAN : b = new.critical
    BY <1>0
  <2>2. late[b] < MaxPending /\ late' = [late EXCEPT ![b] = late[b] + 1] /\ sconfig' = new /\ UNCHANGED <<xpc, apc, scritical, crash>>
    BY <1>14, <2>1 DEF StreamReload
  <2>3. late[b] \in 0..MaxPending
    BY <1>0 DEF ProcessOK
  <2>4. late[b] + 1 \in 0..MaxPending
    BY <1>0, <2>2, <2>3
  <2>5. late' \in [BOOLEAN -> 0..MaxPending]
    BY <1>0, <2>2, <2>4 DEF ProcessOK
  <2> QED
    BY <1>0, <2>2, <2>5 DEF ProcessOK, CrashesExplained
<1>15. ASSUME NEW b \in BOOLEAN, SpoolerReload(b) PROVE Fine
  <2>1. /\ late[b] > 0 /\ late' = [late EXCEPT ![b] = late[b] - 1] /\ scritical' = b /\ UNCHANGED <<sconfig, xpc, apc>>
        /\ crash' = crash \/ (crash' = "reload" /\ xpc # "run")
    BY <1>15 DEF SpoolerReload
  <2>2. late[b] \in 0..MaxPending
    BY <1>0 DEF ProcessOK
  <2>3. late[b] - 1 \in 0..MaxPending
    BY <1>0, <2>1, <2>2
  <2>4. late' \in [BOOLEAN -> 0..MaxPending]
    BY <1>0, <2>1, <2>3 DEF ProcessOK
  <2> QED
    BY <1>0, <2>1, <2>4 DEF ProcessOK, CrashesExplained, Exiting
<1>16. CASE ExitBegins \/ ExitClosesListener \/ ExitsSpooler
  BY <1>0, <1>1, <1>16 DEF ExitBegins, ExitClosesListener, ExitsSpooler, ExitGoes, ProcessOK, spooler
<1> QED
  BY <1>4, <1>5, <1>6, <1>7, <1>8, <1>9, <1>10, <1>11, <1>12, <1>13, <1>14, <1>15, <1>16 DEF StreamNext

(* Every step keeps the connections' records those of their transactions.  *)
LEMMA LinesStep ==
    ASSUME StreamInv, StreamNext
    PROVE  LinesOK' /\ Arrays' /\ Transactions'
<1> DEFINE Fine == LinesOK' /\ Arrays' /\ Transactions'
<1>0. LinesOK /\ Arrays /\ Transactions
  BY StreamTypeParts DEF StreamInv
<1>1. ASSUME UNCHANGED sessions PROVE Fine
  BY <1>0, <1>1 DEF sessions, LinesOK, Arrays, Transactions
<1>2. ASSUME NEW c \in StreamConns, NEW from, NEW to \in {"read", "end"}, from # "send",
             scpc[c] = from, scpc' = [scpc EXCEPT ![c] = to], UNCHANGED <<multi, row, pend, done, txn, stray>>
      PROVE  Fine
  <2>1. LinesOK'
    BY <1>0, <1>2 DEF LinesOK
  <2> QED
    BY <1>0, <1>2, <2>1 DEF Arrays, Transactions
<1>3. ASSUME NEW c \in StreamConns, AcceptTakes(c) \/ StreamClose(c) PROVE Fine
  BY <1>2, <1>3 DEF AcceptTakes, StreamClose
<1>4. ASSUME NEW c \in StreamConns, Offer(c) PROVE Fine
  <2>1. CASE UNCHANGED <<scpc, pend>>
    BY <1>1, <1>4, <2>1 DEF Offer, sessions
  <2>2. CASE scpc' = [scpc EXCEPT ![c] = "read"] /\ pend' = [pend EXCEPT ![c] = <<>>]
    <3>1. UNCHANGED <<multi, row, done, txn, stray>>
      BY <1>4 DEF Offer
    <3>2. scpc'[c] = "read" /\ pend'[c] = <<>> /\ \A d \in StreamConns \ {c} : scpc'[d] = scpc[d] /\ pend'[d] = pend[d]
      BY <1>0, <2>2 DEF LinesOK, Arrays
    <3>3. LinesOK'
      BY <1>0, <2>2, <3>1, <3>2 DEF LinesOK
    <3>4. Arrays'
      BY <1>0, <2>2, <3>1 DEF Arrays
    <3>5. Transactions'
      BY <1>0, <3>1, <3>2 DEF Transactions
    <3> QED
      BY <3>3, <3>4, <3>5
  <2> QED
    BY <1>4, <2>1, <2>2 DEF Offer, None
<1>5. ASSUME NEW c \in StreamConns, StreamCommand(c), ~UNCHANGED sessions PROVE Fine
  <2>1. done[c] + 1 \in 1..Len(Scripts[c]) /\ done' = [done EXCEPT ![c] = done[c] + 1]
    BY <1>5, CommandHandled
  <2>2. PICK pc \in {"read", "send"}, m \in BOOLEAN, y \in BOOLEAN : \E p, r, s : Handled(c, pc, p, m, r, s, y)
    BY <1>5, CommandHandled
  <2>3. PICK p, r, s : Handled(c, pc, p, m, r, s, y)
    BY <2>2
  <2>4. /\ scpc' = [scpc EXCEPT ![c] = pc] /\ pend' = [pend EXCEPT ![c] = p]
        /\ multi' = [multi EXCEPT ![c] = m] /\ row' = [row EXCEPT ![c] = r]
        /\ txn' = [txn EXCEPT ![c] = s] /\ stray' = [stray EXCEPT ![c] = y]
        /\ (pc = "send" <=> p # <<>>) /\ (pc = "send" /\ ~y => Says(p))
        /\ s \in Seq(Range(s)) /\ (m => Recorded(r, s))
    BY <2>3, Zenon DEF Handled
  <2>5. /\ scpc'[c] = pc /\ pend'[c] = p /\ multi'[c] = m /\ row'[c] = r /\ txn'[c] = s /\ stray'[c] = y /\ done'[c] = done[c] + 1
        /\ \A d \in StreamConns \ {c} : /\ scpc'[d] = scpc[d] /\ pend'[d] = pend[d] /\ multi'[d] = multi[d] /\ row'[d] = row[d]
                                        /\ txn'[d] = txn[d] /\ stray'[d] = stray[d] /\ done'[d] = done[d]
    BY <1>0, <2>1, <2>4 DEF LinesOK, Arrays
  <2>6. m => r # <<>>
    BY <2>4, NotNone DEF Recorded
  <2>7. scpc' \in [StreamConns -> {"new", "read", "send", "end"}] /\ multi' \in [StreamConns -> BOOLEAN]
    BY <1>0, <2>4 DEF LinesOK
  <2>8. ASSUME NEW d \in StreamConns
        PROVE  (scpc'[d] = "send" <=> pend'[d] # <<>>) /\ (multi'[d] => row'[d] # <<>>) /\ done'[d] \in 0..Len(Scripts[d])
    <3>1. CASE d = c
      BY <2>1, <2>4, <2>5, <2>6, <3>1
    <3>2. CASE d # c
      BY <1>0, <2>5, <3>2 DEF LinesOK
    <3> QED
      BY <3>1, <3>2
  <2>9. LinesOK'
    BY <2>7, <2>8 DEF LinesOK
  <2>10. Arrays'
    BY <1>0, <2>1, <2>4 DEF Arrays
  <2>11. ASSUME NEW d \in StreamConns
         PROVE  /\ txn'[d] \in Seq(Range(txn'[d])) /\ (multi'[d] => Recorded(row'[d], txn'[d]))
                /\ pend'[d] # <<>> /\ ~stray'[d] => Says(pend'[d])
    <3>1. CASE d = c
      BY <2>4, <2>5, <3>1
    <3>2. CASE d # c
      BY <1>0, <2>5, <3>2 DEF Transactions
    <3> QED
      BY <3>1, <3>2
  <2>12. Transactions'
    BY <2>11 DEF Transactions
  <2> QED
    BY <2>9, <2>10, <2>12
<1>6. CASE UNCHANGED sessions
  BY <1>1, <1>6
<1>7. \/ UNCHANGED sessions
      \/ \E c \in StreamConns : AcceptTakes(c) \/ StreamCommand(c) \/ Offer(c) \/ StreamClose(c)
  BY DEF StreamNext, AcceptChecks, AcceptFails, Deliver, Fail, SendBack, SpoolerExits, WorkerReadsClosed,
         StreamReload, SpoolerReload, ExitBegins, ExitClosesListener, ExitsSpooler, ExitGoes
<1> QED
  BY <1>3, <1>4, <1>5, <1>6, <1>7

(* What is in the channel after one more document, and after one less.     *)
LEMMA ChannelMore ==
    ASSUME NEW U, NEW q \in Seq(U), IsInjective(q), NEW u \in U \ Range(q)
    PROVE  /\ Append(q, u) \in Seq(U) /\ Len(Append(q, u)) = Len(q) + 1
           /\ IsInjective(Append(q, u)) /\ Range(Append(q, u)) = Range(q) \cup {u}
<1>1. PICK a : a = Append(q, u)
  OBVIOUS
<1>2. a \in Seq(U) /\ Len(q) \in Nat /\ Len(a) = Len(q) + 1 /\ a[Len(q) + 1] = u /\ \A i \in 1..Len(q) : a[i] = q[i]
  BY <1>1
<1>3. DOMAIN a = 1..(Len(q) + 1) /\ DOMAIN q = 1..Len(q)
  BY <1>2
<1>4. \A i \in 1..(Len(q) + 1) : i \in 1..Len(q) \/ i = Len(q) + 1
  BY <1>2
<1>5. \A i \in 1..Len(q) : i \in 1..(Len(q) + 1) /\ i # Len(q) + 1 /\ q[i] \in Range(q)
  BY <1>2, <1>3 DEF Range
<1>6. Len(q) + 1 \in 1..(Len(q) + 1)
  BY <1>2
<1>7. \A i, j \in DOMAIN a : a[i] = a[j] => i = j
  <2>1. \A i, j \in DOMAIN q : q[i] = q[j] => i = j
    BY DEF IsInjective
  <2> QED
    BY <1>2, <1>3, <1>4, <1>5, <2>1
<1>8. Range(a) = Range(q) \cup {u}
  <2>1. \A x \in Range(a) : x \in Range(q) \cup {u}
    BY <1>2, <1>3, <1>4, <1>5 DEF Range
  <2>2. \A x \in Range(q) \cup {u} : x \in Range(a)
    BY <1>2, <1>3, <1>5, <1>6 DEF Range
  <2> QED
    BY <2>1, <2>2
<1>9. IsInjective(a)
  BY <1>7 DEF IsInjective
<1> QED
  BY <1>1, <1>2, <1>8, <1>9

LEMMA ChannelLess ==
    ASSUME NEW U, NEW q \in Seq(U), IsInjective(q), q # <<>>
    PROVE  /\ Tail(q) \in Seq(U) /\ Len(Tail(q)) = Len(q) - 1 /\ Len(q) \in Nat /\ Head(q) \in Range(q)
           /\ IsInjective(Tail(q)) /\ Range(Tail(q)) \subseteq Range(q) \ {Head(q)}
<1>1. PICK t : t = Tail(q)
  OBVIOUS
<1>2. t \in Seq(U) /\ Len(q) \in Nat /\ Len(q) >= 1 /\ Len(t) = Len(q) - 1 /\ Head(q) = q[1] /\ \A i \in 1..Len(t) : t[i] = q[i + 1]
  BY <1>1
<1>3. DOMAIN t = 1..Len(t) /\ DOMAIN q = 1..Len(q)
  BY <1>2
<1>4. 1 \in DOMAIN q /\ \A i \in DOMAIN t : i + 1 \in DOMAIN q /\ i + 1 # 1
  BY <1>2, <1>3
<1>5. \A i, j \in DOMAIN q : q[i] = q[j] => i = j
  BY DEF IsInjective
<1>6. ASSUME NEW i \in DOMAIN t, NEW j \in DOMAIN t, t[i] = t[j] PROVE i = j
  <2>1. i + 1 = j + 1
    BY <1>2, <1>3, <1>4, <1>5, <1>6
  <2>2. i \in Nat /\ j \in Nat
    BY <1>2, <1>3
  <2> QED
    BY <2>1, <2>2
<1>7. Head(q) \in Range(q)
  BY <1>2, <1>4 DEF Range
<1>8. \A x \in Range(t) : x \in Range(q) /\ x # Head(q)
  BY <1>2, <1>3, <1>4, <1>5 DEF Range
<1>9. IsInjective(t)
  BY <1>6 DEF IsInjective
<1> QED
  BY <1>1, <1>2, <1>7, <1>8, <1>9

(* Every step keeps each document in one place, with room for those in the *)
(* channel: what a connection sends is newer than all it sent before.      *)
LEMMA SpoolerStep ==
    ASSUME StreamInv, StreamNext
    PROVE  SpoolerOK' /\ Handed'
<1> DEFINE Fine == SpoolerOK' /\ Handed'
<1>0. /\ LinesOK /\ SpoolerOK /\ Handed /\ StreamBuffer \in Nat /\ done = [c \in StreamConns |-> done[c]]
      /\ C \in Seq(Units) /\ Len(C) \in Nat
      /\ \A c \in StreamConns : Len(Scripts[c]) \in Nat /\ done[c] \in 0..Len(Scripts[c])
  BY StreamTypeParts, StreamAssumption DEF StreamInv, Handed, LinesOK, Arrays
<1>c. PICK q \in Seq(Units) : q = C
  BY <1>0
<1>d. PICK U : U = Units
  OBVIOUS
<1>u. /\ \A u \in U : u[1] \in StreamConns /\ u[2] \in Nat /\ u = <<u[1], u[2]>>
      /\ \A c \in StreamConns : \A n \in 1..Len(Scripts[c]) : <<c, n>> \in U
  <2>1. ASSUME NEW u \in U PROVE u[1] \in StreamConns /\ u[2] \in Nat /\ u = <<u[1], u[2]>>
    <3>1. PICK c \in StreamConns : u \in {c} \X (1..Len(Scripts[c]))
      BY <1>d DEF Units
    <3>2. 1..Len(Scripts[c]) \subseteq Nat
      BY <1>0
    <3> QED
      BY <3>1, <3>2
  <2>2. ASSUME NEW c \in StreamConns, NEW n \in 1..Len(Scripts[c]) PROVE <<c, n>> \in U
    BY <1>d DEF Units
  <2> QED
    BY <2>1, <2>2
<1>r. /\ q \in Seq(U) /\ Len(q) <= StreamBuffer /\ IsInjective(q) /\ Len(q) \in Nat
      /\ Range(q) \subseteq U /\ retrying \subseteq U /\ unfit \cup sowed \subseteq U /\ Range(q) \cap retrying = {}
      /\ \A u \in Range(q) \cup retrying : Older(u)
      /\ \A c \in StreamConns : scpc[c] = "send" => done[c] >= 1
  BY <1>0, <1>c, <1>d DEF SpoolerOK, Handed
<1>k. ASSUME C' \in Seq(U), Len(C') <= StreamBuffer, IsInjective(C'), Range(C') \subseteq U, retrying' \subseteq U,
             unfit' \cup sowed' \subseteq U, Range(C') \cap retrying' = {},
             \A u \in Range(C') \cup retrying' : u[2] <= done'[u[1]] /\ (scpc'[u[1]] = "send" => u[2] < done'[u[1]]),
             \A c \in StreamConns : scpc'[c] = "send" => done'[c] >= 1
      PROVE  Fine
  BY <1>d, <1>k DEF SpoolerOK, Handed, Older, Range, IsInjective
<1>l. ASSUME UNCHANGED <<scpc, done>>, C' \in Seq(U), Len(C') <= StreamBuffer, IsInjective(C'),
             retrying' \cap Range(C') = {}, Range(C') \cup retrying' \subseteq Range(q) \cup retrying, UNCHANGED unfit, sowed' \subseteq sowed
      PROVE  Fine
  BY <1>k, <1>l, <1>r DEF Older
<1>1. ASSUME UNCHANGED <<scpc, done, C, retrying, unfit>>, sowed' \subseteq sowed PROVE Fine
  BY <1>1, <1>c, <1>l, <1>r
<1>2. ASSUME NEW c \in StreamConns, NEW to \in {"read", "end"}, scpc' = [scpc EXCEPT ![c] = to],
             UNCHANGED <<done, C, retrying, unfit, sowed>>
      PROVE  Fine
  <2>1. \A d \in StreamConns : scpc'[d] = "send" => scpc[d] = "send"
    BY <1>0, <1>2 DEF LinesOK
  <2>2. \A u \in Range(q) \cup retrying : u[2] <= done'[u[1]] /\ (scpc'[u[1]] = "send" => u[2] < done'[u[1]])
    BY <1>2, <1>r, <1>u, <2>1 DEF Older
  <2> QED
    BY <1>2, <1>c, <1>k, <1>r, <2>1, <2>2
<1>3. ASSUME NEW c \in StreamConns, AcceptTakes(c) \/ StreamClose(c) PROVE Fine
  BY <1>2, <1>3 DEF AcceptTakes, StreamClose, spooler
<1>4. ASSUME NEW c \in StreamConns, StreamCommand(c), UNCHANGED <<sessions, unfit, sowed>> PROVE Fine
  <2>1. UNCHANGED <<scpc, done, C, retrying>>
    BY <1>4, CommandHandled DEF sessions
  <2> QED
    BY <1>1, <1>4, <2>1
<1>11. ASSUME NEW c \in StreamConns, StreamCommand(c), ~UNCHANGED <<sessions, unfit, sowed>> PROVE Fine
  <2>1. done[c] + 1 \in 1..Len(Scripts[c]) /\ done' = [done EXCEPT ![c] = done[c] + 1] /\ UNCHANGED <<C, retrying>>
    BY <1>11, CommandHandled
  <2>2. PICK pc, m, y, p, r, s : Handled(c, pc, p, m, r, s, y)
    BY <1>11, CommandHandled
  <2>3. scpc' = [scpc EXCEPT ![c] = pc] /\ sowed' \subseteq sowed \cup {<<c, done[c] + 1>>} /\ unfit' \subseteq unfit \cup {<<c, done[c] + 1>>}
    BY <2>2 DEF Handled
  <2>4. unfit' \cup sowed' \subseteq U
    BY <1>r, <1>u, <2>1, <2>3
  <2>5. done'[c] = done[c] + 1 /\ \A d \in StreamConns \ {c} : scpc'[d] = scpc[d] /\ done'[d] = done[d]
    BY <1>0, <2>1, <2>3 DEF LinesOK
  <2>6. ASSUME NEW u \in Range(q) \cup retrying
        PROVE  u[2] <= done'[u[1]] /\ (scpc'[u[1]] = "send" => u[2] < done'[u[1]])
    <3>1. u[1] \in StreamConns /\ u[2] \in Nat /\ Older(u)
      BY <1>r, <1>u
    <3>2. CASE u[1] = c
      <4>1. u[2] <= done[c] /\ done[c] \in Nat
        BY <1>0, <3>1, <3>2 DEF Older
      <4> QED
        BY <2>5, <3>1, <3>2, <4>1
    <3>3. CASE u[1] # c
      BY <2>5, <3>1, <3>3 DEF Older
    <3> QED
      BY <3>2, <3>3
  <2>7. ASSUME NEW d \in StreamConns, scpc'[d] = "send" PROVE done'[d] >= 1
    <3>1. CASE d = c
      BY <2>1, <2>5, <3>1
    <3>2. CASE d # c
      BY <1>r, <2>5, <2>7, <3>2
    <3> QED
      BY <3>1, <3>2
  <2> QED
    BY <1>c, <1>k, <1>r, <2>1, <2>4, <2>6, <2>7
<1>5. ASSUME NEW c \in StreamConns, Offer(c) PROVE Fine
  <2>0. scpc[c] = "send" /\ UNCHANGED <<done, retrying, unfit, sowed>>
    BY <1>5 DEF Offer
  <2>1. CASE UNCHANGED <<C, scpc>>
    BY <1>1, <2>0, <2>1
  <2>2. CASE UNCHANGED C /\ scpc' = [scpc EXCEPT ![c] = "read"]
    BY <1>2, <2>0, <2>2
  <2>3. CASE Len(C) < StreamBuffer /\ C' = Append(C, <<c, done[c]>>) /\ scpc' = [scpc EXCEPT ![c] = "read"]
    <3>1. PICK u : u = <<c, done[c]>>
      OBVIOUS
    <3>2. u[1] = c /\ u[2] = done[c] /\ done[c] \in 1..Len(Scripts[c]) /\ done[c] \in Nat
      BY <1>0, <1>r, <2>0, <3>1
    <3>3. u \in U
      BY <1>u, <3>1, <3>2
    <3>4. u \notin Range(q) \cup retrying
      <4>1. ASSUME Older(u) PROVE FALSE
        BY <2>0, <3>2, <4>1 DEF Older
      <4> QED
        BY <1>r, <4>1
    <3>5. PICK a : a = Append(q, u)
      OBVIOUS
    <3>6. a \in Seq(U) /\ Len(a) = Len(q) + 1 /\ IsInjective(a) /\ Range(a) = Range(q) \cup {u}
      BY <1>r, <3>3, <3>4, <3>5, ChannelMore
    <3>7. C' = a /\ Len(a) <= StreamBuffer
      BY <1>0, <1>c, <1>r, <2>3, <3>1, <3>5, <3>6
    <3>8. scpc'[c] = "read" /\ \A d \in StreamConns : scpc'[d] = "send" => scpc[d] = "send"
      BY <1>0, <2>3 DEF LinesOK
    <3>9. ASSUME NEW v \in Range(a) \cup retrying
          PROVE  v[2] <= done'[v[1]] /\ (scpc'[v[1]] = "send" => v[2] < done'[v[1]])
      <4>1. CASE v = u
        BY <2>0, <3>2, <3>8, <4>1
      <4>2. CASE v # u
        <5>1. v \in U /\ Older(v)
          BY <1>r, <3>6, <3>9, <4>2
        <5> QED
          BY <1>u, <2>0, <3>8, <5>1 DEF Older
      <4> QED
        BY <4>1, <4>2
    <3>10. Range(a) \subseteq U /\ Range(a) \cap retrying = {}
      BY <1>r, <3>3, <3>4, <3>6
    <3> QED
      BY <1>k, <1>r, <2>0, <3>6, <3>7, <3>8, <3>9, <3>10
  <2> QED
    BY <1>5, <2>1, <2>2, <2>3 DEF Offer, StreamRoom, Unit
<1>6. CASE Deliver \/ Fail
  <2>0. /\ C # <<>> /\ C' = Tail(C) /\ UNCHANGED <<scpc, done, unfit>> /\ sowed' \subseteq sowed
        /\ retrying' \subseteq retrying \cup {Head(C)}
    BY <1>6 DEF Deliver, Fail, sessions
  <2>1. PICK t : t = Tail(q)
    OBVIOUS
  <2>2. t \in Seq(U) /\ Len(t) = Len(q) - 1 /\ Head(q) \in Range(q) /\ IsInjective(t) /\ Range(t) \subseteq Range(q) \ {Head(q)}
    BY <1>c, <1>r, <2>0, <2>1, ChannelLess
  <2>3. C' = t /\ Len(t) <= StreamBuffer
    BY <1>0, <1>c, <1>r, <2>0, <2>1, <2>2
  <2>4. retrying' \cap Range(t) = {} /\ Range(t) \cup retrying' \subseteq Range(q) \cup retrying
    BY <1>c, <1>r, <2>0, <2>2
  <2> QED
    BY <1>l, <2>0, <2>2, <2>3, <2>4
<1>7. ASSUME NEW u, SendBack(u) PROVE Fine
  <2>0. UNCHANGED <<scpc, done, unfit, sowed>> /\ u \in retrying
    BY <1>7 DEF SendBack, sessions
  <2>1. CASE UNCHANGED <<C, retrying>>
    BY <1>1, <2>0, <2>1
  <2>2. CASE Len(C) < StreamBuffer /\ C' = Append(C, u) /\ retrying' = retrying \ {u}
    <3>1. u \in U \ Range(q)
      BY <1>r, <2>0
    <3>2. PICK a : a = Append(q, u)
      OBVIOUS
    <3>3. a \in Seq(U) /\ Len(a) = Len(q) + 1 /\ IsInjective(a) /\ Range(a) = Range(q) \cup {u}
      BY <1>r, <3>1, <3>2, ChannelMore
    <3>4. C' = a /\ Len(a) <= StreamBuffer
      BY <1>0, <1>c, <1>r, <2>2, <3>2, <3>3
    <3>5. retrying' \cap Range(a) = {} /\ Range(a) \cup retrying' \subseteq Range(q) \cup retrying
      BY <1>r, <2>0, <2>2, <3>3
    <3> QED
      BY <1>l, <2>0, <3>3, <3>4, <3>5
  <2> QED
    BY <1>7, <2>1, <2>2 DEF SendBack
<1>8. ASSUME NEW critical \in BOOLEAN, SpoolerReload(critical) PROVE Fine
  <2>1. UNCHANGED <<scpc, done, C, retrying, unfit, sowed>>
    BY <1>8 DEF SpoolerReload, sessions
  <2> QED
    BY <1>1, <2>1
<1>9. ASSUME NEW new \in StreamConfigs, StreamReload(new) PROVE Fine
  <2>1. UNCHANGED <<scpc, done, C, retrying, unfit>> /\ sowed' \subseteq sowed
    BY <1>9 DEF StreamReload, sessions
  <2> QED
    BY <1>1, <2>1
<1>10. CASE \/ AcceptChecks \/ AcceptFails \/ SpoolerExits \/ WorkerReadsClosed
            \/ ExitBegins \/ ExitClosesListener \/ ExitsSpooler
  <2>1. UNCHANGED <<scpc, done, C, retrying, unfit, sowed>>
    BY <1>10 DEF AcceptChecks, AcceptFails, SpoolerExits, WorkerReadsClosed, ExitBegins, ExitClosesListener, ExitsSpooler,
                 ExitGoes, sessions, spooler
  <2> QED
    BY <1>1, <2>1
<1> QED
  BY <1>3, <1>4, <1>5, <1>6, <1>7, <1>8, <1>9, <1>10, <1>11 DEF StreamNext

-----------------------------------------------------------------------------
(* The invariant of the Firehose and Kinesis relayers holds always.        *)
LEMMA StreamInvariant == StreamSpec => []StreamInv
<1>1. StreamInit => StreamInv
  BY StreamStarts
<1>2. ASSUME StreamInv, StreamNext PROVE StreamInv'
  <2>1. ProcessOK' /\ CrashesExplained'
    BY <1>2, ProcessStep
  <2>2. LinesOK' /\ Arrays' /\ Transactions'
    BY <1>2, LinesStep
  <2>3. SpoolerOK' /\ Handed'
    BY <1>2, SpoolerStep
  <2>4. StreamTypeOK'
    BY <2>1, <2>2, <2>3, StreamTypeParts, PTL
  <2> QED
    BY <2>1, <2>2, <2>3, <2>4 DEF StreamInv
<1>3. ASSUME StreamInv, UNCHANGED streamVars PROVE StreamInv'
  <2>0. /\ UNCHANGED <<sconfig, xpc, apc, crash, scpc, multi, row, pend, done, txn, stray>>
        /\ UNCHANGED <<scritical, late, C, retrying, unfit, sowed>>
    BY <1>3 DEF streamVars, sessions, spooler
  <2>1. StreamTypeOK'
    BY <1>3, <2>0 DEF StreamInv, StreamTypeOK
  <2>2. Arrays' /\ Transactions'
    BY <1>3, <2>0 DEF StreamInv, Arrays, Transactions
  <2>3. Handed' /\ CrashesExplained'
    BY <1>3, <2>0 DEF StreamInv, Handed, Older, CrashesExplained, Exiting
  <2> QED
    BY <2>1, <2>2, <2>3 DEF StreamInv
<1> QED
  BY <1>1, <1>2, <1>3, PTL DEF StreamSpec

(* A document on its way to the stream is that of one transaction or of    *)
(* one command alone (Multi, Exec, sendRecord), and the types are kept, C  *)
(* among them: no document is in it twice or in it and on its way back.    *)
THEOREM OneTransactionEachAlways == StreamSpec => []OneTransactionEach
<1>1. StreamInv => OneTransactionEach
  BY DEF StreamInv, Transactions, Says, OneTransactionEach, None
<1> QED
  BY <1>1, StreamInvariant, PTL

(* The process comes down only for a command without its arguments, an     *)
(* EXEC without MULTI, a transaction that mixes kinds, or what the exit    *)
(* has closed under a goroutine; the closing of the listener is never      *)
(* taken for an emergency (Start, Exit).                                   *)
THEOREM CrashesExplainedAlways == StreamSpec => []CrashesExplained
<1>1. StreamInv => CrashesExplained
  BY DEF StreamInv
<1> QED
  BY <1>1, StreamInvariant, PTL
=============================================================================
