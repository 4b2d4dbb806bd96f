---------------------------- MODULE InOrderRelay ----------------------------
(***************************************************************************)
(* What the cluster relayer promises for one client connection, whatever   *)
(* it answers in advance: the server executes the connection's commands    *)
(* one at a time, in the order they were issued. Some may never get there  *)
(* (they are rejected), none overtakes another.                            *)
(***************************************************************************)
EXTENDS Naturals, Sequences

CONSTANT MaxCommands   \* bound: commands the connection issues

VARIABLES issued,      \* how many commands the connection has issued
          executed     \* the commands the server executed, in its order

Init == issued = 0 /\ executed = <<>>

Issue == issued < MaxCommands /\ issued' = issued + 1 /\ UNCHANGED executed

Newer(i) == \A k \in 1..Len(executed) : executed[k] < i

Execute(i) ==
    /\ i <= issued /\ Newer(i)
    /\ executed' = Append(executed, i)
    /\ UNCHANGED issued

Next == Issue \/ \E i \in 1..MaxCommands : Execute(i)

Spec == Init /\ [][Next]_<<issued, executed>>
=============================================================================
