------------------------------- MODULE MCRsqs -------------------------------
(* Small instances of Rsqs for TLC.                                        *)
EXTENDS Rsqs

Cmd(op, key, fields, args) == [op |-> op, key |-> key, fields |-> fields, args |-> args]
Raw(bytes) == [op |-> "RAWSET", raw |-> bytes, args |-> 1]

Set == Cmd("SET", "k", <<>>, 2)
SetAdd(args) == Cmd("SADD", "k", <<>>, args)
HmSet(key, fields) == Cmd("HMSET", key, fields, 5)
SomeCommands ==
    <<{SetAdd(2), Raw(<<"x">>)}, {Set, HmSet("h", <<"f", "g">>), Raw(<<>>)}, {SetAdd(1), SetAdd(3), HmSet("k", <<"f">>)}>>

(* The configurations have two different limits of a request.              *)
SmartAndSync == {[smart |-> TRUE, conns |-> 2, records |-> 2], [smart |-> FALSE, conns |-> 0, records |-> 0]}
=============================================================================
