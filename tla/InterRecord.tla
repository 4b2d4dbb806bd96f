---------------------------- MODULE InterRecord ----------------------------
(***************************************************************************)
(* lib/record.go: the record in which the Firehose, Kinesis and SQS        *)
(* relayers gather what a connection sets, and the document made of it.    *)
(* A value is told apart by the command that brought it; bytes says that   *)
(* it is to be compressed (the commands CSET, CSADD and CHMSET), gz how    *)
(* often it was.                                                           *)
(***************************************************************************)
EXTENDS Integers, Sequences, SequencesExt

Value(v, bytes) == [v |-> v, bytes |-> bytes, gz |-> 0]

(* A pointer to none, and to a new record.                                 *)
None == <<>>
NewInterRecord ==
    [types |-> 0, raw |-> <<>>, lent |-> FALSE, compressFields |-> FALSE, data |-> [k \in {} |-> <<>>]]

Has(r, key) == key \in DOMAIN r.data

(* An entry is one value, a list or a map.                                 *)
Entry(kind, of) == [kind |-> kind, of |-> of]
Assign(r, key, entry, value) ==
    [r EXCEPT !.data = [k \in DOMAIN @ \cup {key} |-> IF k = key THEN entry ELSE @[k]],
              !.compressFields = @ \/ value.bytes]

(* The first value of a key stays.                                         *)
Add(r, key, value) == IF Has(r, key) THEN r ELSE Assign(r, key, Entry("one", value), value)

Sadd(r, key, value) ==
    Assign(r, key, Entry("list", Append(IF Has(r, key) THEN r.data[key].of ELSE <<>>, value)), value)

(* Called for each of the fields.                                          *)
Mhset(r, key, fields, value) ==
    LET map == IF Has(r, key) THEN r.data[key].of ELSE [f \in {} |-> value]
    IN  Assign(r, key, Entry("map", [f \in DOMAIN map \cup fields |-> IF f \in fields THEN value ELSE map[f]]), value)

(* The type assertions of Sadd and Mhset, which panic.                     *)
Asserts(r, key, kind) == Has(r, key) => r.data[key].kind = kind

SetRaw(r, raw) == [r EXCEPT !.types = 1, !.raw = raw, !.lent = FALSE]

(* Bytes: what it leaves in the record and the document it returns.  Only  *)
(* values that are alone in their entry are compressed: the elements of    *)
(* lists and maps are assigned to a loop variable.                         *)
Gzip(entry) == [entry EXCEPT !.of.gz = @ + 1]
Compressed(r) ==
    IF r.types # 0 \/ ~r.compressFields THEN r
    ELSE [r EXCEPT !.data = [k \in DOMAIN @ |->
            IF @[k].kind = "one" /\ @[k].of.bytes THEN Gzip(@[k]) ELSE @[k]]]
Document(r) == IF r.types # 0 THEN Entry("raw", r.raw) ELSE Entry("json", Compressed(r).data)

(* StringUniqID gives the bytes to the buffers of the JSON encoder: raw    *)
(* ones belong to the record still and may have changed when used again.   *)
Overwritten == Entry("raw", <<"overwritten">>)
Documents(r) == {Document(r)} \cup (IF r.types # 0 /\ r.lent THEN {Overwritten} ELSE {})
Lend(r) == IF r.types # 0 THEN [r EXCEPT !.lent = TRUE] ELSE Compressed(r)

(* Len: a document of JSON is never empty.                                 *)
Empty(r) == r.types # 0 /\ r.raw = <<>>

(* The length of a document, counted in values.                            *)
Size(doc) ==
    IF doc.kind = "raw" THEN Len(doc.of)
    ELSE FoldSet(LAMBDA k, n : n + IF doc.of[k].kind = "one" THEN 1
                                   ELSE Cardinality(DOMAIN doc.of[k].of), 0, DOMAIN doc.of)

-----------------------------------------------------------------------------
(* The JSON encoder walks through the maps without a lock.  If they are    *)
(* written meanwhile, every key is found as it was at some moment: F are   *)
(* the maps as they were one after the other.  A key that is new may be    *)
(* missed, or found before it has its value.                               *)
Unset == Entry("unset", <<>>)
Ever(F) == UNION {DOMAIN f : f \in F}
Found(F, k) == {f[k] : f \in {g \in F : k \in DOMAIN g}} \cup {Unset : f \in {g \in F : k \notin DOMAIN g}}

Mixed(F, V) ==
    UNION {{d \in [D -> UNION Range(V)] : \A k \in D : d[k] \in V[k]} :
              D \in {S \in SUBSET Ever(F) : \A k \in Ever(F) : (\A f \in F : k \in DOMAIN f) => k \in S}}

(* The maps inside are walked through in the same way.                     *)
Maplike(F, k) == {e.of : e \in {x \in Found(F, k) : x.kind = "map"}}
MixedEntries(F, k) ==
    {e \in Found(F, k) : e.kind # "map"} \cup
    IF Maplike(F, k) = {} THEN {}
    ELSE {Entry("map", m) : m \in Mixed(Maplike(F, k), [f \in Ever(Maplike(F, k)) |-> Found(Maplike(F, k), f)])}
Snapshots(F) == {Entry("json", d) : d \in Mixed(F, [k \in Ever(F) |-> MixedEntries(F, k)])}

-----------------------------------------------------------------------------
(* A command as the relayers apply it to a record.  args is the number of  *)
(* its arguments; a value behind the second is ignored.  The arguments of  *)
(* HMSET are pairs, a name that has no value is ignored.                   *)
Apply(r, cmd) ==
    IF cmd.op = "SET" THEN Add(r, cmd.key, cmd.value)
    ELSE IF cmd.op = "SADD" THEN Sadd(r, cmd.key, cmd.value)
    ELSE IF cmd.fields = <<>> THEN r ELSE Mhset(r, cmd.key, Range(cmd.fields), cmd.value)

Panics(r, cmd) ==
    \/ cmd.op = "SADD" /\ ~Asserts(r, cmd.key, "list")
    \/ cmd.op = "HMSET" /\ cmd.fields # <<>> /\ ~Asserts(r, cmd.key, "map")

(* The arguments are read without a look at their number.                  *)
Lacks(cmd) == (cmd.op \in {"SET", "SADD"} /\ cmd.args < 2) \/ (cmd.op = "RAWSET" /\ cmd.args < 1)

-----------------------------------------------------------------------------
(* What a document of the record should say of the commands that wrote it, *)
(* stated of the list of commands: surely what the first n of them say,    *)
(* and no key or field that none of the commands names.                    *)
Writes(cmd) == cmd.op # "HMSET" \/ cmd.fields # <<>>
Writers(cmds, key) == {i \in DOMAIN cmds : cmds[i].key = key /\ Writes(cmds[i])}
WritersBy(op, cmds, key) == {i \in Writers(cmds, key) : cmds[i].op = op}
Written(cmds) == {cmds[i].key : i \in {j \in DOMAIN cmds : Writes(cmds[j])}}

UpTo(S, n) == {i \in S : i <= n}
FieldsOf(cmds, S) == UNION {Range(cmds[i].fields) : i \in S}
Kind(cmd) == IF cmd.op = "SADD" THEN "list" ELSE IF cmd.op = "HMSET" THEN "map" ELSE "one"

(* Whether x is the value given: of lists and maps it may be compressed or *)
(* not, if it is to be.                                                    *)
IsGiven(x, value) == x.v = value.v /\ x.gz <= (IF value.bytes THEN 1 ELSE 0)

(* Of the commands at the positions S: a value stands behind those of the  *)
(* commands before.                                                        *)
Lists(list, cmds, S) ==
    /\ DOMAIN list = 1..Cardinality(S)
    /\ \A i \in S : IsGiven(list[Cardinality(UpTo(S, i))], cmds[i].value)

(* A field has the value of a command that names it, and no other of the   *)
(* first n names it after that.                                            *)
Maps(map, cmds, S, n) ==
    /\ DOMAIN map \subseteq FieldsOf(cmds, S)
    /\ \A f \in FieldsOf(cmds, UpTo(S, n)) :
          /\ f \in DOMAIN map
          /\ \E i \in S : /\ f \in Range(cmds[i].fields) /\ IsGiven(map[f], cmds[i].value)
                          /\ \A j \in UpTo(S, n) : f \in Range(cmds[j].fields) => j <= i

(* An entry is of the kind of one of the commands.  One value is that of a *)
(* SET (which, is left open), compressed once if it is to be.  A list has  *)
(* the values of the SADDs (if none has more than one), a map the fields   *)
(* of the HMSETs.                                                          *)
Tells(entry, cmds, key, n) ==
    /\ \E i \in UpTo(Writers(cmds, key), n) : entry.kind = Kind(cmds[i])
    /\ entry.kind = "one" => \E i \in WritersBy("SET", cmds, key) :
          entry.of.v = cmds[i].value.v /\ entry.of.gz = IF cmds[i].value.bytes THEN 1 ELSE 0
    /\ entry.kind = "list" => LET S == WritersBy("SADD", cmds, key) IN
          (\A i \in S : ~cmds[i].more) => \E m \in n..Len(cmds) : Lists(entry.of, cmds, UpTo(S, m))
    /\ entry.kind = "map" => Maps(entry.of, cmds, WritersBy("HMSET", cmds, key), n)

Describes(doc, cmds, n) ==
    /\ doc.kind = "json" /\ DOMAIN doc.of \subseteq Written(cmds)
    /\ \A key \in Written(SubSeq(cmds, 1, n)) : key \in DOMAIN doc.of /\ Tells(doc.of[key], cmds, key, n)
=============================================================================
