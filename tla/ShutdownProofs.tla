--------------------------- MODULE ShutdownProofs ---------------------------
(***************************************************************************)
(* Proofs about what is shut down while it is in use.  Daemon, for any set *)
(* of endpoints and any number of relayers and signals: main waits for the *)
(* right number of relayers, and does not stop before the relayers in the  *)
(* map have ended.  ConnPool, for any set of users, any capacity and any   *)
(* number of connections: no connection is shared, lost or closed under    *)
(* its user, and what Empty leaves behind is bounded by the goroutines it  *)
(* raced.                                                                  *)
(***************************************************************************)
EXTENDS Daemon, ConnPool, FiniteSetTheorems, TLAPS

Mapped == {e \in Endpoints : relayers[e] # None}
Unended == {e \in Mapped : relayers[e] \notin ended}

(* Relayers are numbered as they are made, and each has one endpoint.      *)
Numbered ==
    /\ \A e \in Endpoints : relayers[e] <= made
    /\ \A e, f \in Endpoints : relayers[e] = relayers[f] /\ e \in Mapped => e = f
    /\ old <= made /\ cur <= made
    /\ \A r \in ended \cup lost : r <= made

(* startOrReload has a deleted relayer in hand, and the exit goroutine the *)
(* one it visits, while they end it; the latter runs only once asked.      *)
InHand ==
    /\ old # None <=> lpc \in {"exit", "done"}
    /\ xpc = "exit" => cur # None
    /\ xpc # "idle" => asked
    /\ xpc = "idle" => left = {}

(* Until an exit is asked for no relayer in the map has ended.             *)
Alive == ~asked => \A e \in Mapped : relayers[e] \notin ended \cup {old}

(* If no reload meets it, the first visit of the map takes each relayer    *)
(* from left to cur to ended, and main still has a value to receive for    *)
(* every one of them that has not ended, and for the one that just has.    *)
Untouched == asked /\ ~overlapped
Visiting ==
    Untouched =>
        /\ lpc = "idle"
        /\ xpc = "exit" => \E e \in Endpoints \ left : relayers[e] = cur
        /\ Unended # {} =>
             /\ \A e \in Mapped : e \in Unended <=> (e \in left \/ (xpc = "exit" /\ relayers[e] = cur))
             /\ total - count >= Cardinality(Unended) + (IF xpc = "done" THEN 1 ELSE 0)

StoppedAfter == stopped /\ ~overlapped => Unended = {}

IndInv ==
    /\ TypeOK /\ Numbered /\ InHand /\ total = made
    /\ CountMatches /\ Alive /\ Visiting /\ StoppedAfter

-----------------------------------------------------------------------------
(* The sets that are counted are finite.                                   *)
LEMMA Counting ==
    ASSUME TypeOK
    PROVE  /\ IsFiniteSet(Mapped) /\ Cardinality(Mapped) \in Nat
           /\ IsFiniteSet(Unended) /\ Cardinality(Unended) \in Nat
           /\ IsFiniteSet(lost) /\ Cardinality(lost) \in Nat
<1>1. Mapped \in SUBSET Endpoints /\ Unended \in SUBSET Endpoints
  BY DEF Mapped, Unended
<1>2. lost \in SUBSET (1..MaxRelayers) /\ IsFiniteSet(1..MaxRelayers)
  <2>1. IsFiniteSet(1..MaxRelayers)
    BY DaemonAssumption, FS_Interval
  <2> QED
    BY <2>1 DEF TypeOK, Relayers
<1> QED
  BY <1>1, <1>2, DaemonAssumption, FS_Subset, FS_CardinalityType

Basic == TypeOK /\ Numbered /\ InHand /\ total = made

(* Every step keeps the types and the numbering of the relayers.           *)
LEMMA BasicStep == ASSUME IndInv, Next PROVE Basic'
<1> USE DaemonAssumption DEF IndInv, Basic, TypeOK, Numbered, InHand, Mapped, Relayers, None, reload, exit, notes
<1>1. ASSUME NEW es \in SUBSET Endpoints, ReloadSignal(es) PROVE Basic'
  BY <1>1 DEF ReloadSignal
<1>2. ASSUME NEW e \in Endpoints, Configure(e) PROVE Basic'
  <2>1. CASE relayers[e] = None /\ Start(e)
    <3>1. CASE relayers' = [relayers EXCEPT ![e] = made + 1] /\ UNCHANGED lost
      BY <1>2, <2>1, <3>1 DEF Configure, Start
    <3>2. CASE lost' = lost \cup {made + 1} /\ UNCHANGED relayers
      BY <1>2, <2>1, <3>2 DEF Configure, Start
    <3> QED
      BY <2>1, <3>1, <3>2 DEF Start
  <2>2. CASE UNCHANGED <<relayers, made, total, lost>>
    BY <1>2, <2>2 DEF Configure
  <2> QED
    BY <1>2, <2>1, <2>2 DEF Configure
<1>3. ASSUME Configured PROVE Basic'
  BY <1>3 DEF Configured
<1>4. ASSUME NEW e \in Endpoints, Delete(e) PROVE Basic'
  BY <1>4 DEF Delete
<1>5. ASSUME DeletedExit PROVE Basic'
  BY <1>5 DEF DeletedExit
<1>6. ASSUME DeletedDone PROVE Basic'
  BY <1>6 DEF DeletedDone, Receives
<1>7. ASSUME Purged PROVE Basic'
  BY <1>7 DEF Purged
<1>8. ASSUME ExitSignal PROVE Basic'
  BY <1>8 DEF ExitSignal
<1>9. ASSUME NEW e \in Endpoints, Visit(e) PROVE Basic'
  BY <1>9 DEF Visit
<1>10. ASSUME RelayerExit PROVE Basic'
  BY <1>10 DEF RelayerExit
<1>11. ASSUME RelayerDone PROVE Basic'
  BY <1>11 DEF RelayerDone, Receives
<1>12. ASSUME Visited PROVE Basic'
  BY <1>12 DEF Visited
<1>13. ASSUME Stop PROVE Basic'
  BY <1>13 DEF Stop
<1> QED
  BY <1>1, <1>2, <1>3, <1>4, <1>5, <1>6, <1>7, <1>8, <1>9, <1>10, <1>11, <1>12, <1>13
     DEF Next, Reload, Exit

Waiting == Cardinality(Mapped) + Cardinality(lost) + (IF old = None THEN 0 ELSE 1)
CountAlive == CountMatches /\ Alive

(* Every step keeps main waiting for the right number of relayers: one is  *)
(* counted as it is made, and received as it ends.                         *)
LEMMA CountStep == ASSUME IndInv, Next PROVE CountAlive'
<1>0. /\ TypeOK /\ Numbered /\ InHand /\ Alive /\ (~asked => total - count = Waiting)
      /\ total \in Nat /\ count \in Nat /\ made \in Nat
      /\ relayers = [e \in Endpoints |-> relayers[e]]
      /\ Mapped \subseteq Endpoints /\ \A e \in Mapped : relayers[e] # None
  <2>1. TypeOK /\ Numbered /\ InHand /\ Alive
    BY DEF IndInv
  <2>2. ~asked => total - count = Waiting
    BY DEF IndInv, CountMatches, Waiting, Mapped
  <2> QED
    BY <2>1, <2>2, DaemonAssumption DEF TypeOK, Mapped
<1>00. /\ IsFiniteSet(Mapped) /\ Cardinality(Mapped) \in Nat
       /\ IsFiniteSet(lost) /\ Cardinality(lost) \in Nat
  BY <1>0, Counting
<1>a. ASSUME ~asked' => total' - count' = Waiting' PROVE CountMatches'
  BY <1>a DEF CountMatches, Waiting, Mapped
<1>b. ASSUME UNCHANGED <<relayers, total, count, lost, old>>, ~asked' => ~asked PROVE CountMatches'
  <2>1. Waiting' = Waiting
    BY <1>b DEF Waiting, Mapped
  <2> QED
    BY <1>0, <1>a, <1>b, <2>1
<1> USE DEF CountAlive, reload, exit, notes
<1>1. ASSUME NEW es \in SUBSET Endpoints, ReloadSignal(es) PROVE CountAlive'
  BY <1>0, <1>1, <1>b DEF ReloadSignal, Alive, Mapped
<1>2. ASSUME NEW e \in Endpoints, Configure(e) PROVE CountAlive'
  <2>1. CASE relayers[e] = None /\ Start(e)
    <3>1. total' = total + 1 /\ made' = made + 1 /\ UNCHANGED <<count, old, asked, ended>>
      BY <1>2, <2>1 DEF Configure, Start
    <3>2. CASE relayers' = [relayers EXCEPT ![e] = made + 1] /\ UNCHANGED lost
      <4>1. Mapped' = Mapped \cup {e} /\ e \notin Mapped
        BY <1>0, <2>1, <3>2 DEF Mapped, None
      <4>2. Cardinality(Mapped') = Cardinality(Mapped) + 1
        BY <1>00, <4>1, FS_AddElement
      <4>3. Waiting' = Waiting + 1
        BY <1>00, <3>1, <3>2, <4>2 DEF Waiting
      <4>4. CountMatches'
        BY <1>0, <1>a, <3>1, <4>3
      <4>5. Alive'
        <5>1. made + 1 \notin ended \cup {old}
          BY <1>0 DEF Numbered
        <5> QED
          BY <1>0, <2>1, <3>1, <3>2, <4>1, <5>1 DEF Alive
      <4> QED
        BY <4>4, <4>5
    <3>3. CASE lost' = lost \cup {made + 1} /\ UNCHANGED relayers
      <4>1. made + 1 \notin lost
        BY <1>0 DEF Numbered
      <4>2. Cardinality(lost') = Cardinality(lost) + 1
        BY <1>00, <3>3, <4>1, FS_AddElement
      <4>3. Mapped' = Mapped
        BY <3>3 DEF Mapped
      <4>4. Waiting' = Waiting + 1
        BY <1>00, <3>1, <3>3, <4>2, <4>3 DEF Waiting
      <4>5. CountMatches'
        BY <1>0, <1>a, <3>1, <4>4
      <4> QED
        BY <1>0, <3>1, <3>3, <4>3, <4>5 DEF Alive
    <3> QED
      BY <2>1, <3>2, <3>3 DEF Start
  <2>2. CASE UNCHANGED <<relayers, made, total, lost>>
    BY <1>0, <1>2, <1>b, <2>2 DEF Configure, Alive, Mapped
  <2> QED
    BY <1>2, <2>1, <2>2 DEF Configure
<1>3. ASSUME Configured PROVE CountAlive'
  BY <1>0, <1>3, <1>b DEF Configured, Alive, Mapped
<1>4. ASSUME NEW e \in Endpoints, Delete(e) PROVE CountAlive'
  <2>1. /\ old = None /\ old' = relayers[e] /\ old' # None /\ relayers' = [relayers EXCEPT ![e] = None]
        /\ UNCHANGED <<total, count, lost, asked, ended>>
    BY <1>0, <1>4 DEF Delete, InHand
  <2>2. Mapped' = Mapped \ {e} /\ e \in Mapped
    BY <1>0, <2>1 DEF Mapped
  <2>3. Cardinality(Mapped') = Cardinality(Mapped) - 1
    BY <1>00, <2>2, FS_RemoveElement
  <2>4. Waiting' = Waiting
    BY <1>00, <2>1, <2>3 DEF Waiting
  <2>5. CountMatches'
    BY <1>0, <1>a, <2>1, <2>4
  <2>6. Alive'
    BY <1>0, <2>1, <2>2 DEF Alive, Numbered
  <2> QED
    BY <2>5, <2>6
<1>5. ASSUME DeletedExit PROVE CountAlive'
  BY <1>0, <1>5, <1>b DEF DeletedExit, Alive, Mapped
<1>6. ASSUME DeletedDone PROVE CountAlive'
  <2>1. old # None /\ old' = None /\ count' = count + 1 /\ UNCHANGED <<relayers, total, lost, asked, ended>>
    BY <1>0, <1>6 DEF DeletedDone, InHand
  <2>2. Mapped' = Mapped
    BY <2>1 DEF Mapped
  <2>3. Waiting' = Waiting - 1
    BY <1>00, <2>1, <2>2 DEF Waiting
  <2>4. CountMatches'
    BY <1>0, <1>a, <2>1, <2>3
  <2> QED
    BY <1>0, <2>1, <2>2, <2>4 DEF Alive
<1>7. ASSUME Purged PROVE CountAlive'
  BY <1>0, <1>7, <1>b DEF Purged, Alive, Mapped
<1>8. ASSUME ExitSignal PROVE CountAlive'
  BY <1>8 DEF ExitSignal, CountMatches, Alive
<1>9. ASSUME NEW e \in Endpoints, Visit(e) PROVE CountAlive'
  BY <1>0, <1>9, <1>b DEF Visit, Alive, Mapped
<1>10. ASSUME RelayerExit PROVE CountAlive'
  BY <1>0, <1>10 DEF RelayerExit, InHand, CountMatches, Alive
<1>11. ASSUME RelayerDone PROVE CountAlive'
  BY <1>0, <1>11 DEF RelayerDone, InHand, CountMatches, Alive
<1>12. ASSUME Visited PROVE CountAlive'
  BY <1>0, <1>12, <1>b DEF Visited, Alive, Mapped
<1>13. ASSUME Stop PROVE CountAlive'
  BY <1>0, <1>13, <1>b DEF Stop, Alive, Mapped
<1> QED
  BY <1>1, <1>2, <1>3, <1>4, <1>5, <1>6, <1>7, <1>8, <1>9, <1>10, <1>11, <1>12, <1>13
     DEF Next, Reload, Exit

(* Every step keeps the first visit of the map in order, and the program   *)
(* from stopping before it is over.                                        *)
LEMMA VisitStep == ASSUME IndInv, Next PROVE Visiting' /\ StoppedAfter'
<1>0. /\ TypeOK /\ Numbered /\ InHand /\ Alive /\ Visiting /\ StoppedAfter
      /\ total \in Nat /\ count \in Nat /\ Unended \subseteq Mapped /\ Mapped \subseteq Endpoints
      /\ asked \in BOOLEAN /\ overlapped \in BOOLEAN
  BY DaemonAssumption DEF IndInv, TypeOK, Unended, Mapped
<1>00. IsFiniteSet(Unended) /\ Cardinality(Unended) \in Nat
  BY <1>0, Counting
<1>s. ~stopped
  BY DEF Next, Reload, Exit, ReloadSignal, Configure, Configured, Delete, DeletedExit, DeletedDone, Purged,
     ExitSignal, Visit, RelayerExit, RelayerDone, Visited, Stop
<1>a. ASSUME UNCHANGED <<relayers, ended>> PROVE Mapped' = Mapped /\ Unended' = Unended
  BY <1>a DEF Mapped, Unended
<1> USE <1>0, <1>s DEF Untouched, reload, exit, notes
<1>1. ASSUME NEW es \in SUBSET Endpoints, ReloadSignal(es) PROVE Visiting' /\ StoppedAfter'
  BY <1>1 DEF ReloadSignal, Visiting, StoppedAfter
<1>b. ASSUME lpc # "idle", UNCHANGED <<asked, overlapped, stopped>> PROVE Visiting' /\ StoppedAfter'
  BY <1>b DEF Visiting, StoppedAfter
<1>2. ASSUME NEW e \in Endpoints, Configure(e) PROVE Visiting' /\ StoppedAfter'
  BY <1>2, <1>b DEF Configure
<1>3. ASSUME Configured PROVE Visiting' /\ StoppedAfter'
  BY <1>3, <1>b DEF Configured
<1>4. ASSUME NEW e \in Endpoints, Delete(e) PROVE Visiting' /\ StoppedAfter'
  BY <1>4, <1>b DEF Delete
<1>5. ASSUME DeletedExit PROVE Visiting' /\ StoppedAfter'
  BY <1>5, <1>b DEF DeletedExit
<1>6. ASSUME DeletedDone PROVE Visiting' /\ StoppedAfter'
  BY <1>6, <1>b DEF DeletedDone
<1>7. ASSUME Purged PROVE Visiting' /\ StoppedAfter'
  BY <1>7, <1>b DEF Purged
<1>8. ASSUME ExitSignal PROVE Visiting' /\ StoppedAfter'
  <2>0. /\ xpc = "idle" /\ left = {} /\ xpc' = "iter" /\ left' = Endpoints /\ asked'
        /\ UNCHANGED <<relayers, ended, total, count, stopped, lpc>>
        /\ overlapped' = (overlapped \/ lpc # "idle")
    BY <1>8 DEF ExitSignal, InHand
  <2>1. Mapped' = Mapped /\ Unended' = Unended
    BY <2>0, <1>a
  <2>2. CASE ~Untouched'
    BY <2>0, <2>2 DEF Visiting, StoppedAfter
  <2>3. CASE Untouched' /\ asked
    <3>1. Unended = {}
      BY <2>0, <2>3 DEF Visiting
    <3> QED
      BY <2>0, <2>1, <2>3, <3>1 DEF Visiting, StoppedAfter
  <2>4. CASE Untouched' /\ ~asked
    <3>1. Unended = Mapped
      BY <2>4 DEF Alive, Unended
    <3>2. old = None
      BY <2>0, <2>4 DEF InHand
    <3>3. total - count = Cardinality(Mapped) + Cardinality(lost)
      BY <2>4, <3>2, Counting DEF IndInv, CountMatches, Mapped
    <3>4. total - count >= Cardinality(Unended') /\ Cardinality(Unended') \in Nat
      BY <2>1, <3>1, <3>3, Counting
    <3>5. lpc = "idle" /\ lpc' = "idle"
      BY <2>0, <2>4, Zenon
    <3>6. \A e \in Mapped' : e \in Unended' /\ e \in left'
      BY <2>0, <2>1, <3>1
    <3> QED
      BY <2>0, <3>4, <3>5, <3>6 DEF Visiting, StoppedAfter
  <2> QED
    BY <2>2, <2>3, <2>4
<1>9. ASSUME NEW e \in Endpoints, Visit(e) PROVE Visiting' /\ StoppedAfter'
  <2>0. /\ xpc = "iter" /\ e \in left /\ left' = left \ {e} /\ cur' = relayers[e]
        /\ xpc' = IF relayers[e] = None THEN "iter" ELSE "exit"
        /\ UNCHANGED <<relayers, ended, total, count, stopped, lpc, asked, overlapped>>
    BY <1>9 DEF Visit
  <2>1. Mapped' = Mapped /\ Unended' = Unended
    BY <2>0, <1>a
  <2>2. \A f \in Mapped : relayers[f] = relayers[e] => f = e
    BY DEF Numbered
  <2>3. \A f \in Endpoints : f \in Mapped <=> relayers[f] # None
    BY DEF Mapped
  <2>4. ASSUME Untouched, Unended # {}, NEW f \in Mapped
        PROVE  f \in Unended <=> (f \in left' \/ (xpc' = "exit" /\ relayers[f] = cur'))
    BY <2>0, <2>2, <2>3, <2>4 DEF Visiting
  <2> QED
    BY <2>0, <2>1, <2>4 DEF Visiting, StoppedAfter
<1>10. ASSUME RelayerExit PROVE Visiting' /\ StoppedAfter'
  <2>0. /\ xpc = "exit" /\ xpc' = "done" /\ ended' = ended \cup {cur}
        /\ UNCHANGED <<relayers, total, left, cur, count, stopped, lpc, asked, overlapped>>
    BY <1>10 DEF RelayerExit
  <2>1. Mapped' = Mapped
    BY <2>0 DEF Mapped
  <2>2. CASE ~Untouched
    BY <2>0, <2>2 DEF Visiting, StoppedAfter
  <2>3. CASE Untouched
    <3>1. PICK e \in Endpoints \ left : relayers[e] = cur
      BY <2>0, <2>3 DEF Visiting
    <3>2. e \in Mapped
      BY <2>0, <3>1 DEF InHand, Mapped
    <3>3. \A f \in Mapped : relayers[f] = cur <=> f = e
      BY <3>1, <3>2 DEF Numbered
    <3>4. Unended' = Unended \ {e}
      BY <2>0, <2>1, <3>3 DEF Unended
    <3>5. CASE Unended = {}
      BY <2>0, <2>3, <3>4, <3>5 DEF Visiting, StoppedAfter
    <3>6. CASE Unended # {}
      <4>1. e \in Unended
        BY <2>0, <2>3, <3>1, <3>2, <3>6 DEF Visiting
      <4>2. Cardinality(Unended') = Cardinality(Unended) - 1
        BY <1>00, <3>4, <4>1, FS_RemoveElement
      <4>3. total' - count' >= Cardinality(Unended') + 1
        BY <1>00, <2>0, <2>3, <3>6, <4>2 DEF Visiting
      <4> QED
        BY <2>0, <2>1, <2>3, <3>3, <3>4, <3>6, <4>3 DEF Visiting, StoppedAfter
    <3> QED
      BY <3>5, <3>6
  <2> QED
    BY <2>2, <2>3
<1>11. ASSUME RelayerDone PROVE Visiting' /\ StoppedAfter'
  <2>0. /\ xpc = "done" /\ xpc' = "iter" /\ count' = count + 1
        /\ UNCHANGED <<relayers, ended, total, left, stopped, lpc, asked, overlapped>>
    BY <1>11 DEF RelayerDone
  <2>1. Mapped' = Mapped /\ Unended' = Unended
    BY <2>0, <1>a
  <2> QED
    BY <1>00, <2>0, <2>1 DEF Visiting, StoppedAfter
<1>12. ASSUME Visited PROVE Visiting' /\ StoppedAfter'
  <2>0. /\ xpc = "iter" /\ xpc' = "idle"
        /\ UNCHANGED <<relayers, ended, total, left, cur, count, stopped, lpc, asked, overlapped>>
    BY <1>12 DEF Visited
  <2>1. Mapped' = Mapped /\ Unended' = Unended
    BY <2>0, <1>a
  <2> QED
    BY <2>0, <2>1 DEF Visiting, StoppedAfter
<1>13. ASSUME Stop PROVE Visiting' /\ StoppedAfter'
  <2>0. /\ count = total
        /\ UNCHANGED <<relayers, ended, total, left, cur, xpc, count, lpc, asked, overlapped>>
    BY <1>13 DEF Stop
  <2>1. Mapped' = Mapped /\ Unended' = Unended
    BY <2>0, <1>a
  <2>2. CASE asked
    <3>1. ~overlapped => Unended = {}
      <4> SUFFICES ASSUME ~overlapped, Unended # {} PROVE FALSE
        OBVIOUS
      <4>1. Cardinality(Unended) # 0
        BY <1>00, FS_EmptySet
      <4> QED
        BY <1>00, <2>0, <2>2, <4>1 DEF Visiting
    <3> QED
      BY <2>0, <2>1, <3>1 DEF Visiting, StoppedAfter
  <2>3. CASE ~asked
    <3>1. Cardinality(Mapped) = 0
      BY <2>0, <2>3, Counting DEF IndInv, CountMatches, Mapped
    <3>2. Unended = {}
      BY <3>1, Counting, FS_EmptySet
    <3> QED
      BY <2>0, <2>1, <2>3, <3>2 DEF Visiting, StoppedAfter
  <2> QED
    BY <2>2, <2>3
<1> QED
  BY <1>1, <1>2, <1>3, <1>4, <1>5, <1>6, <1>7, <1>8, <1>9, <1>10, <1>11, <1>12, <1>13
     DEF Next, Reload, Exit

-----------------------------------------------------------------------------
(* The program starts in the invariant.                                    *)
LEMMA InitInd == Init => IndInv
<1> SUFFICES ASSUME Init PROVE IndInv
  OBVIOUS
<1>1. TypeOK
  <2>1. stopped \in BOOLEAN /\ asked \in BOOLEAN /\ overlapped \in BOOLEAN
    BY DEF Init
  <2>2. relayers \in [Endpoints -> Relayers \cup {None}]
    BY DEF Init
  <2> QED
    BY <2>1, <2>2, DaemonAssumption DEF Init, TypeOK, Relayers
<1>2. Mapped = {} /\ Unended = {}
  BY DEF Init, Mapped, Unended
<1>3. CountMatches
  BY <1>2, FS_EmptySet DEF Init, CountMatches, Mapped
<1>4. Numbered /\ InHand
  BY <1>2 DEF Init, Numbered, InHand, None
<1> QED
  BY <1>1, <1>2, <1>3, <1>4 DEF Init, IndInv, Alive, Visiting, Untouched, StoppedAfter

(* The invariant holds in every state of the program.                      *)
LEMMA Invariance == Spec => []IndInv
<1>1. IndInv /\ [Next]_vars => IndInv'
  <2> SUFFICES ASSUME IndInv, [Next]_vars PROVE IndInv'
    OBVIOUS
  <2>1. CASE Next
    BY <2>1, BasicStep, CountStep, VisitStep DEF IndInv, Basic, CountAlive
  <2>2. CASE UNCHANGED vars
    BY <2>2 DEF vars, reload, exit, notes, IndInv, TypeOK, Numbered, InHand, CountMatches, Alive,
       Visiting, Untouched, StoppedAfter, Unended, Mapped, Relayers
  <2> QED
    BY <2>1, <2>2
<1> QED
  BY <1>1, InitInd, PTL DEF Spec

(* main waits for exactly the relayers that are up or counted in vain, and *)
(* it stops, if no exit met a reload, only after the Exit of every relayer *)
(* in the map got to its end.                                              *)
THEOREM StopsAfterExitAlways == Spec => []StopsAfterExit
<1>1. IndInv => StopsAfterExit
  BY DEF IndInv, StopsAfterExit, StoppedAfter, Unended, Mapped
<1> QED
  BY <1>1, Invariance, PTL
-----------------------------------------------------------------------------
(* The pool of connections.                                                *)

(* A goroutine has a connection from Get until Put closes or pushes it.    *)
Holding == \A a \in Actors : mine[a] # NoConn <=> pc[a] \in {"use", "put", "check", "push"}

(* What OneOwner counts, by where a connection is: what is pooled or held  *)
(* is open, in one place only, and what is open is in a place.             *)
PooledOnce == \A i, j \in 1..Len(pool) : pool[i] = pool[j] => i = j
HeldOnce == \A a, b \in Actors : mine[a] = mine[b] /\ mine[a] # NoConn => a = b
PooledOrHeld == \A i \in 1..Len(pool) : \A a \in Actors : pool[i] # mine[a]
PlacedOpen ==
    /\ \A i \in 1..Len(pool) : pool[i] \in open
    /\ \A a \in Actors : mine[a] # NoConn => mine[a] \in open
OpenPlaced == \A c \in open : (\E i \in 1..Len(pool) : pool[i] = c) \/ \E a \in Actors : mine[a] = c

Places == PooledOnce /\ HeldOnce /\ PooledOrHeld /\ PlacedOpen /\ OpenPlaced

(* After stopCh is closed nobody gets past the check of Put any more, so   *)
(* those about to push are among the racers.                               *)
Pushers == {a \in Actors : pc[a] = "push"}
StoppedWhen == stopCh <=> epc \in {"drain", "done"}
PushersRace == stopCh => Pushers \subseteq racers

Racing == StoppedWhen /\ PushersRace /\ LeftByRacers

PoolInv == PoolTypeOK /\ Holding /\ Places /\ Racing

-----------------------------------------------------------------------------
(* Goroutines are finitely many, and so are those about to push.           *)
LEMMA FinitelyMany ==
    /\ IsFiniteSet(Actors)
    /\ \A S \in SUBSET Actors : IsFiniteSet(S) /\ Cardinality(S) \in Nat
<1>1. IsFiniteSet(Actors)
  BY PoolAssumption, FS_AddElement DEF Actors
<1> QED
  BY <1>1, FS_Subset, FS_CardinalityType

(* Dialling makes a connection that was not open.                          *)
LEMMA FreshIsNew == ASSUME PoolTypeOK, open # Conns PROVE Fresh \in Conns \ open
<1> DEFINE S == Conns \ open
<1>1. S \subseteq Nat
  BY PoolAssumption DEF Conns
<1>4. S # {}
  BY Zenon DEF PoolTypeOK
<1> HIDE DEF S
<1>2. PICK m \in S : \A d \in S : <<d, m>> \notin OpToRel(<, Nat)
  BY <1>1, <1>4, WFMin, NatLessThanWellFounded
<1>3. ASSUME NEW d \in S PROVE m <= d
  <2>1. d < m => <<d, m>> \in OpToRel(<, Nat)
    BY <1>1, Zenon DEF OpToRel
  <2>2. ~(d < m)
    BY <1>2, <2>1, Zenon
  <2> QED
    BY <1>1, <2>2
<1> QED
  BY <1>3 DEF Fresh, S

(* The pool starts in the invariant.                                       *)
LEMMA PoolStarts == PoolInit => PoolInv
<1> SUFFICES ASSUME PoolInit PROVE PoolInv
  OBVIOUS
<1>1. \/ pool = <<>> /\ open = {}
      \/ pool = <<1>> /\ open = {1}
  BY DEF PoolInit
<1>2. stopCh = FALSE /\ closeCh = FALSE
  BY DEF PoolInit
<1>3. pc = [a \in Actors |-> "idle"] /\ mine = [a \in Actors |-> NoConn]
  BY DEF PoolInit
<1>4. pool \in Seq(Conns) /\ Len(pool) <= Size /\ open \subseteq Conns
  <2>1. 1 \in Conns
    BY PoolAssumption DEF Conns
  <2>2. <<1>> \in Seq(Conns) /\ Len(<<1>>) = 1
    BY <2>1
  <2>3. <<>> \in Seq(Conns) /\ Len(<<>>) = 0
    OBVIOUS
  <2>4. pool \in Seq(Conns) /\ Len(pool) \in {0, 1}
    BY <1>1, <2>2, <2>3, Zenon
  <2>5. open \subseteq Conns
    BY <1>1, <2>1, Zenon
  <2> QED
    BY <2>4, <2>5, PoolAssumption
<1>5. PoolTypeOK
  BY <1>2, <1>3, <1>4 DEF PoolInit, PoolTypeOK
<1>6. Holding
  BY <1>3 DEF Holding
<1>7. Places
  BY <1>1, <1>3 DEF Places, PooledOnce, HeldOnce, PooledOrHeld, PlacedOpen, OpenPlaced, NoConn
<1>8. Racing
  BY <1>2 DEF PoolInit, Racing, StoppedWhen, PushersRace, LeftByRacers
<1> QED
  BY <1>5, <1>6, <1>7, <1>8 DEF PoolInv

(* Every step keeps the types, and a goroutine that holds a connection at  *)
(* the places in its code where it must.                                   *)
LEMMA TypeStep == ASSUME PoolInv, PoolNext PROVE PoolTypeOK' /\ Holding'
<1> USE PoolAssumption DEF PoolInv, PoolTypeOK, Holding, Goto, Hold, NoConn, Conns, Actors
<1>1. ASSUME PingerWakes PROVE PoolTypeOK' /\ Holding'
  BY <1>1 DEF PingerWakes, PingerChecks, PingerDivides, PingerAsks
<1>2. ASSUME NEW u \in Users, Ask(u) PROVE PoolTypeOK' /\ Holding'
  BY <1>2 DEF Ask
<1>3. ASSUME NEW a \in Actors, Get(a) PROVE PoolTypeOK' /\ Holding'
  <2>1. CASE GetPooled(a)
    <3>1. Head(pool) \in Conns /\ Tail(pool) \in Seq(Conns) /\ Len(Tail(pool)) <= Size
      BY <2>1 DEF GetPooled
    <3> QED
      BY <1>3, <2>1, <3>1 DEF Get, GetPooled
  <2>2. CASE GetStopped(a)
    BY <1>3, <2>2 DEF Get, GetStopped
  <2>3. CASE GetDials(a)
    <3>1. CASE open # Conns /\ Hold(a, Fresh) /\ Goto(a, "use") /\ open' = open \cup {Fresh}
      <4>1. Fresh \in Conns
        BY <3>1, FreshIsNew
      <4> QED
        BY <1>3, <2>3, <3>1, <4>1 DEF Get, GetDials
    <3>2. CASE Goto(a, "idle") /\ UNCHANGED <<mine, open>>
      BY <1>3, <2>3, <3>2 DEF Get, GetDials
    <3> QED
      BY <2>3, <3>1, <3>2 DEF GetDials
  <2> QED
    BY <1>3, <2>1, <2>2, <2>3 DEF Get
<1>4. ASSUME NEW a \in Actors, Use(a) PROVE PoolTypeOK' /\ Holding'
  <2>1. mine[a] \in open
    BY <1>4 DEF Use, Places, PlacedOpen
  <2> QED
    BY <1>4, <2>1 DEF Use
<1>5. ASSUME NEW a \in Actors, Put(a) PROVE PoolTypeOK' /\ Holding'
  BY <1>5 DEF Put, Discard, Close
<1>6. ASSUME NEW a \in Actors, PutCheck(a) PROVE PoolTypeOK' /\ Holding'
  BY <1>6 DEF PutCheck, Discard, Close
<1>7. ASSUME NEW a \in Actors, PutPush(a) PROVE PoolTypeOK' /\ Holding'
  <2>1. CASE Room
    <3>1. mine[a] \in Conns
      BY <1>7 DEF PutPush
    <3>2. Append(pool, mine[a]) \in Seq(Conns) /\ Len(Append(pool, mine[a])) <= Size
      BY <2>1, <3>1 DEF Room
    <3> QED
      BY <1>7, <2>1, <3>2 DEF PutPush
  <2>2. CASE ~Room
    BY <1>7, <2>2 DEF PutPush, Discard, Close
  <2> QED
    BY <2>1, <2>2
<1>8. ASSUME EmptyClose PROVE PoolTypeOK' /\ Holding'
  BY <1>8 DEF EmptyClose
<1>9. ASSUME EmptyStop PROVE PoolTypeOK' /\ Holding'
  BY <1>9 DEF EmptyStop
<1>10. ASSUME EmptyDrain PROVE PoolTypeOK' /\ Holding'
  <2>1. Tail(pool) \in Seq(Conns) /\ Len(Tail(pool)) <= Size
    BY <1>10 DEF EmptyDrain
  <2> QED
    BY <1>10, <2>1 DEF EmptyDrain, Close
<1>11. ASSUME EmptyReturns PROVE PoolTypeOK' /\ Holding'
  BY <1>11 DEF EmptyReturns
<1> QED
  BY <1>1, <1>2, <1>3, <1>4, <1>5, <1>6, <1>7, <1>8, <1>9, <1>10, <1>11 DEF PoolNext, Actor, Empty

(* Every step keeps each open connection in one place.                     *)
LEMMA PlacesStep == ASSUME PoolInv, PoolNext PROVE Places'
<1> USE DEF Places, PooledOnce, HeldOnce, PooledOrHeld, PlacedOpen, OpenPlaced
<1>0. /\ pool \in Seq(Conns) /\ Len(pool) \in Nat /\ NoConn \notin Conns
      /\ mine \in [Actors -> Conns \cup {NoConn}] /\ open \subseteq Conns
      /\ Holding /\ Places /\ PoolTypeOK
  BY DEF PoolInv, PoolTypeOK, NoConn, Conns
<1>a. ASSUME NEW a \in Actors, mine[a] # NoConn, Hold(a, NoConn), Close(mine[a]), UNCHANGED pool
      PROVE  Places'
  BY <1>0, <1>a DEF Hold, Close
<1>1. ASSUME PingerWakes PROVE Places'
  BY <1>0, <1>1 DEF PingerWakes
<1>2. ASSUME NEW u \in Users, Ask(u) PROVE Places'
  BY <1>0, <1>2 DEF Ask
<1>3. ASSUME NEW a \in Actors, Get(a) PROVE Places'
  <2>0. mine[a] = NoConn
    BY <1>0, <1>3 DEF Get, Holding
  <2>1. CASE GetPooled(a)
    <3>1. /\ Len(Tail(pool)) = Len(pool) - 1 /\ Head(pool) = pool[1] /\ Len(pool) >= 1
          /\ \A i \in 1..Len(Tail(pool)) : Tail(pool)[i] = pool[i + 1]
      BY <1>0, <2>1 DEF GetPooled
    <3>2. pool' = Tail(pool) /\ open' = open /\ mine' = [mine EXCEPT ![a] = pool[1]]
      BY <2>1, <3>1 DEF GetPooled, Hold
    <3>3. PooledOnce' /\ HeldOnce' /\ PooledOrHeld' /\ PlacedOpen'
      BY <1>0, <2>0, <3>1, <3>2
    <3>4. ASSUME NEW c \in open PROVE (\E i \in 1..Len(pool') : pool'[i] = c) \/ \E b \in Actors : mine'[b] = c
      <4>1. CASE \E i \in 1..Len(pool) : pool[i] = c
        <5>1. PICK i \in 1..Len(pool) : pool[i] = c
          BY <4>1
        <5>2. i # 1 => i - 1 \in 1..Len(pool') /\ pool'[i - 1] = c
          BY <1>0, <3>1, <3>2, <5>1
        <5> QED
          BY <1>0, <3>2, <5>1, <5>2
      <4>2. CASE \E b \in Actors : mine[b] = c
        BY <1>0, <2>0, <3>2, <4>2
      <4> QED
        BY <1>0, <4>1, <4>2
    <3> QED
      BY <3>2, <3>3, <3>4
  <2>2. CASE GetStopped(a)
    BY <1>0, <2>2 DEF GetStopped
  <2>3. CASE GetDials(a)
    <3>1. CASE open # Conns /\ Hold(a, Fresh) /\ Goto(a, "use") /\ open' = open \cup {Fresh}
      <4>1. Fresh \in Conns \ open
        BY <1>0, <3>1, FreshIsNew
      <4> QED
        <5>1. pool' = pool /\ open' = open \cup {Fresh} /\ mine' = [mine EXCEPT ![a] = Fresh]
          BY <2>3, <3>1 DEF GetDials, Hold
        <5>2. PooledOnce' /\ HeldOnce' /\ PooledOrHeld' /\ PlacedOpen'
          BY <1>0, <2>0, <4>1, <5>1
        <5>3. OpenPlaced'
          BY <1>0, <2>0, <4>1, <5>1
        <5> QED
          BY <5>2, <5>3
    <3>2. CASE Goto(a, "idle") /\ UNCHANGED <<mine, open>>
      BY <1>0, <2>3, <3>2 DEF GetDials
    <3> QED
      BY <2>3, <3>1, <3>2 DEF GetDials
  <2> QED
    BY <1>3, <2>1, <2>2, <2>3 DEF Get
<1>4. ASSUME NEW a \in Actors, Use(a) PROVE Places'
  BY <1>0, <1>4 DEF Use
<1>5. ASSUME NEW a \in Actors, Put(a) PROVE Places'
  BY <1>0, <1>5, <1>a DEF Put, Discard, Holding
<1>6. ASSUME NEW a \in Actors, PutCheck(a) PROVE Places'
  BY <1>0, <1>6, <1>a DEF PutCheck, Discard, Holding
<1>7. ASSUME NEW a \in Actors, PutPush(a) PROVE Places'
  <2>0. mine[a] # NoConn /\ mine[a] \in Conns
    BY <1>0, <1>7 DEF PutPush, Holding
  <2>1. CASE Room
    <3>1. /\ Len(Append(pool, mine[a])) = Len(pool) + 1
          /\ \A i \in 1..Len(pool) : Append(pool, mine[a])[i] = pool[i]
          /\ Append(pool, mine[a])[Len(pool) + 1] = mine[a]
      BY <1>0, <2>0
    <3>2. pool' = Append(pool, mine[a]) /\ open' = open /\ mine' = [mine EXCEPT ![a] = NoConn]
      BY <1>7, <2>1 DEF PutPush, Hold
    <3> QED
      BY <1>0, <2>0, <3>1, <3>2
  <2>2. CASE ~Room
    BY <1>7, <1>a, <2>0, <2>2 DEF PutPush, Discard
  <2> QED
    BY <2>1, <2>2
<1>8. ASSUME EmptyClose PROVE Places'
  BY <1>0, <1>8 DEF EmptyClose
<1>9. ASSUME EmptyStop PROVE Places'
  BY <1>0, <1>9 DEF EmptyStop
<1>10. ASSUME EmptyDrain PROVE Places'
  <2>1. /\ Len(Tail(pool)) = Len(pool) - 1 /\ Head(pool) = pool[1] /\ Len(pool) >= 1
        /\ \A i \in 1..Len(Tail(pool)) : Tail(pool)[i] = pool[i + 1]
    BY <1>0, <1>10 DEF EmptyDrain
  <2>2. pool' = Tail(pool) /\ open' = open \ {pool[1]} /\ mine' = mine
    BY <1>10, <2>1 DEF EmptyDrain, Close
  <2>3. PooledOnce' /\ HeldOnce' /\ PooledOrHeld' /\ PlacedOpen'
    BY <1>0, <2>1, <2>2
  <2>4. ASSUME NEW c \in open \ {pool[1]}
        PROVE  (\E i \in 1..Len(pool') : pool'[i] = c) \/ \E b \in Actors : mine'[b] = c
    <3>1. CASE \E i \in 1..Len(pool) : pool[i] = c
      <4>1. PICK i \in 1..Len(pool) : pool[i] = c
        BY <3>1
      <4>2. i - 1 \in 1..Len(pool') /\ pool'[i - 1] = c
        BY <1>0, <2>1, <2>2, <4>1
      <4> QED
        BY <4>2
    <3>2. CASE \E b \in Actors : mine[b] = c
      BY <2>2, <3>2
    <3> QED
      BY <1>0, <3>1, <3>2
  <2> QED
    BY <2>2, <2>3, <2>4
<1>11. ASSUME EmptyReturns PROVE Places'
  BY <1>0, <1>11 DEF EmptyReturns
<1> QED
  BY <1>1, <1>2, <1>3, <1>4, <1>5, <1>6, <1>7, <1>8, <1>9, <1>10, <1>11 DEF PoolNext, Actor, Empty

(* Every step keeps the bound on what is left behind: a push takes one     *)
(* from the goroutines about to push, and none joins them.                 *)
LEMMA RacingStep == ASSUME PoolInv, PoolNext PROVE Racing'
<1> USE DEF Pushers
<1>0. /\ PoolTypeOK /\ Racing /\ Len(pool) \in Nat /\ racers \subseteq Actors /\ pc = [a \in Actors |-> pc[a]]
      /\ Cardinality(Pushers) \in Nat /\ Cardinality(racers) \in Nat /\ IsFiniteSet(Pushers)
  <2>1. PoolTypeOK /\ Racing /\ Len(pool) \in Nat /\ racers \subseteq Actors /\ pc = [a \in Actors |-> pc[a]]
    BY DEF PoolInv, PoolTypeOK
  <2>2. Pushers \in SUBSET Actors /\ racers \in SUBSET Actors
    BY <2>1
  <2> HIDE DEF Pushers
  <2> QED
    BY <2>1, <2>2, FinitelyMany
<1>a. ASSUME Pushers' = Pushers, UNCHANGED <<stopCh, epc, racers>>, Len(pool') \in 0..Len(pool)
      PROVE  Racing'
  <2>1. Cardinality(Pushers') = Cardinality(Pushers)
    BY <1>a
  <2> QED
    BY <1>0, <1>a, <2>1 DEF Racing, StoppedWhen, PushersRace, LeftByRacers
<1>b. ASSUME NEW a \in Pushers, Pushers' = Pushers \ {a}, UNCHANGED <<stopCh, epc, racers>>,
             Len(pool') \in 0..(Len(pool) + 1)
      PROVE  Racing'
  <2>1. Cardinality(Pushers') = Cardinality(Pushers) - 1
    BY <1>0, <1>b, FS_RemoveElement
  <2>2. StoppedWhen' /\ PushersRace'
    BY <1>0, <1>b DEF Racing, StoppedWhen, PushersRace
  <2>3. LeftByRacers'
    BY <1>0, <1>b, <2>1 DEF Racing, LeftByRacers
  <2> QED
    BY <2>2, <2>3 DEF Racing
<1>1. ASSUME PingerWakes PROVE Racing'
  <2>1. Pushers' = Pushers
    BY <1>0, <1>1 DEF PingerWakes, PingerChecks, PingerDivides, PingerAsks, Goto
  <2> QED
    BY <1>0, <1>1, <1>a, <2>1 DEF PingerWakes
<1>2. ASSUME NEW u \in Users, Ask(u) PROVE Racing'
  <2>1. Pushers' = Pushers
    BY <1>0, <1>2 DEF Ask, Goto
  <2> QED
    BY <1>0, <1>2, <1>a, <2>1 DEF Ask
<1>3. ASSUME NEW a \in Actors, Get(a) PROVE Racing'
  <2>1. Pushers' = Pushers
    BY <1>0, <1>3 DEF Get, GetPooled, GetStopped, GetDials, Goto
  <2>2. Len(pool') \in 0..Len(pool)
    BY <1>0, <1>3 DEF Get, GetPooled, GetStopped, GetDials, PoolTypeOK
  <2> QED
    BY <1>3, <1>a, <2>1, <2>2 DEF Get
<1>4. ASSUME NEW a \in Actors, Use(a) PROVE Racing'
  <2>1. Pushers' = Pushers
    BY <1>0, <1>4 DEF Use, Goto
  <2> QED
    BY <1>0, <1>4, <1>a, <2>1 DEF Use
<1>5. ASSUME NEW a \in Actors, Put(a) PROVE Racing'
  <2>1. Pushers' = Pushers
    BY <1>0, <1>5 DEF Put, Discard, Goto
  <2> QED
    BY <1>0, <1>5, <1>a, <2>1 DEF Put
<1>6. ASSUME NEW a \in Actors, PutCheck(a) PROVE Racing'
  <2>1. CASE MustClose(a)
    <3>1. Pushers' = Pushers
      BY <1>0, <1>6, <2>1 DEF PutCheck, Discard, Goto
    <3> QED
      BY <1>0, <1>6, <1>a, <3>1 DEF PutCheck
  <2>2. CASE ~MustClose(a)
    <3>1. ~stopCh /\ UNCHANGED <<stopCh, epc>>
      BY <1>6, <2>2 DEF PutCheck, MustClose
    <3> QED
      BY <1>0, <3>1 DEF Racing, StoppedWhen, PushersRace, LeftByRacers
  <2> QED
    BY <2>1, <2>2
<1>7. ASSUME NEW a \in Actors, PutPush(a) PROVE Racing'
  <2>1. a \in Pushers /\ Pushers' = Pushers \ {a}
    BY <1>0, <1>7 DEF PutPush, Discard, Goto
  <2>2. Len(pool') \in 0..(Len(pool) + 1)
    BY <1>0, <1>7 DEF PutPush, PoolTypeOK
  <2> QED
    BY <1>7, <1>b, <2>1, <2>2 DEF PutPush
<1> USE DEF Racing, StoppedWhen, PushersRace, LeftByRacers
<1>8. ASSUME EmptyClose PROVE Racing'
  BY <1>0, <1>8 DEF EmptyClose
<1>9. ASSUME EmptyStop PROVE Racing'
  BY <1>0, <1>9 DEF EmptyStop
<1>10. ASSUME EmptyDrain PROVE Racing'
  BY <1>0, <1>10 DEF EmptyDrain
<1>11. ASSUME EmptyReturns PROVE Racing'
  <2>1. Cardinality(Pushers) <= Cardinality(racers) /\ Cardinality(Pushers) \in Nat
    <3>1. Pushers \in SUBSET racers /\ IsFiniteSet(racers)
      BY <1>0, <1>11, FinitelyMany DEF EmptyReturns
    <3> QED
      BY <3>1, FS_Subset, FS_CardinalityType
  <2>2. Len(pool) = 0
    BY <1>11 DEF EmptyReturns
  <2> QED
    BY <1>0, <1>11, <2>1, <2>2 DEF EmptyReturns
<1> QED
  BY <1>1, <1>2, <1>3, <1>4, <1>5, <1>6, <1>7, <1>8, <1>9, <1>10, <1>11 DEF PoolNext, Actor, Empty

-----------------------------------------------------------------------------
(* A connection in one place is counted once, and one in none not at all.  *)
LEMMA CountsPlaces == PoolInv => OneOwner
<1> SUFFICES ASSUME PoolInv, NEW c \in Conns
             PROVE  Cardinality({i \in 1..Len(pool) : pool[i] = c}) + Cardinality({a \in Actors : mine[a] = c})
                        = (IF c \in open THEN 1 ELSE 0)
  BY DEF PoolInv, OneOwner
<1> DEFINE I == {i \in 1..Len(pool) : pool[i] = c}
           A == {a \in Actors : mine[a] = c}
<1>0. c # NoConn
  BY DEF Conns, NoConn
<1> USE DEF PoolInv, Places, PooledOnce, HeldOnce, PooledOrHeld, PlacedOpen, OpenPlaced
<1>1. CASE c \notin open
  <2>1. I = {} /\ A = {}
    BY <1>0, <1>1
  <2>2. Cardinality(I) = 0 /\ Cardinality(A) = 0
    BY <2>1, FS_EmptySet
  <2> QED
    BY <2>2, <1>1
<1>2. ASSUME NEW i \in I, c \in open PROVE Cardinality(I) = 1 /\ Cardinality(A) = 0
  <2>1. I = {i} /\ A = {}
    BY <1>2
  <2> QED
    BY <2>1, FS_EmptySet, FS_Singleton
<1>3. ASSUME NEW a \in A, c \in open PROVE Cardinality(I) = 0 /\ Cardinality(A) = 1
  <2>1. I = {} /\ A = {a}
    BY <1>0, <1>3
  <2> QED
    BY <2>1, FS_EmptySet, FS_Singleton
<1>4. c \in open => I # {} \/ A # {}
  OBVIOUS
<1>5. CASE c \in open
  <2>1. CASE I # {}
    <3>1. Cardinality(I) = 1 /\ Cardinality(A) = 0
      BY <1>2, <1>5, <2>1
    <3> QED
      BY <1>5, <3>1
  <2>2. CASE A # {}
    <3>1. Cardinality(I) = 0 /\ Cardinality(A) = 1
      BY <1>3, <1>5, <2>2
    <3> QED
      BY <1>5, <3>1
  <2> QED
    BY <1>4, <1>5, <2>1, <2>2
<1> QED
  BY <1>1, <1>5

(* The invariant holds in every state of the pool.                         *)
LEMMA PoolInvariance == PoolSpec => []PoolInv
<1>1. PoolInv /\ [PoolNext]_poolVars => PoolInv'
  <2> SUFFICES ASSUME PoolInv, [PoolNext]_poolVars PROVE PoolInv'
    OBVIOUS
  <2>1. CASE PoolNext
    BY <2>1, TypeStep, PlacesStep, RacingStep DEF PoolInv
  <2>2. CASE UNCHANGED poolVars
    BY <2>2 DEF poolVars, PoolInv, PoolTypeOK, Holding, Places, PooledOnce, HeldOnce, PooledOrHeld,
       PlacedOpen, OpenPlaced, Racing, StoppedWhen, PushersRace, Pushers, LeftByRacers
  <2> QED
    BY <2>1, <2>2
<1> QED
  BY <1>1, PoolStarts, PTL DEF PoolSpec

(* Get, Put, the pinger and Empty never share a connection, lose one that  *)
(* is open, or leave a closed one in the pool or with a goroutine.         *)
THEOREM OneOwnerAlways == PoolSpec => []OneOwner
<1> QED
  BY PoolInvariance, CountsPlaces, PTL

(* What is in the pool after Empty has returned was pushed by a goroutine  *)
(* that had passed the check of stopCh before Empty closed it.             *)
THEOREM LeftByRacersAlways == PoolSpec => []LeftByRacers
<1>1. PoolInv => LeftByRacers
  BY DEF PoolInv, Racing
<1> QED
  BY <1>1, PoolInvariance, PTL
=============================================================================
