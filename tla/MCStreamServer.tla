--------------------------- MODULE MCStreamServer ---------------------------
(* Small instances of StreamServer for TLC.                                *)
EXTENDS StreamServer

Cmd(op, key, fields, args, bytes) == [op |-> op, key |-> key, fields |-> fields, args |-> args, bytes |-> bytes]
Begin == [op |-> "MULTI"]
End == [op |-> "EXEC"]
Raw(bytes, args) == [op |-> "RAWSET", raw |-> bytes, args |-> args]
Set(args, bytes) == Cmd("SET", "k", <<>>, args, bytes)
SetAdd(args, bytes) == Cmd("SADD", "k", <<>>, args, bytes)
HmSet(fields, bytes) == Cmd("HMSET", "k", fields, 5, bytes)

(* Transactions, single records, and an EXEC that may be alone.            *)
SomeScripts ==
    [c |-> <<{Begin},
             {HmSet(<<"f", "g">>, TRUE), SetAdd(2, FALSE), SetAdd(3, FALSE), Set(2, TRUE), End},
             {SetAdd(2, TRUE), HmSet(<<"g">>, FALSE), Begin, Raw(<<>>, 1), Set(1, TRUE)},
             {End}>>]

Critical == [critical |-> TRUE, smart |-> TRUE]
SomeConfigs == {Critical, [Critical EXCEPT !.critical = FALSE]}
=============================================================================
