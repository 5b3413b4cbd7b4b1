--------------------------- MODULE MCCoordinator ---------------------------
(***************************************************************************)
(* Small instances of Coordinator: one pool of one cell, and clients that  *)
(* send the requests of a few identities in any order, any number of times.*)
(***************************************************************************)
EXTENDS Coordinator, MCPromiseEngine

CONSTANTS c1, c2, c3, c4

Left == At(0)
Empty == [t \in Time |-> 0]
Full == [t \in Time |-> 1]
Send(identity, op) == [identity |-> identity, op |-> op]

Create == [name |-> "CreateResourcePool", pool |-> p1, curve |-> Full]
Revise(curve, mode) ==
  [name |-> "ReviseCapacity", pool |-> p1, curve |-> curve, mode |-> mode]
Place(deadline) == [name |-> "Hold", promise |-> 1, bundle |-> Left, deadline |-> deadline]
Pick == [name |-> "HoldOneOf", promise |-> 1, choice |-> <<Left>>, deadline |-> 2]
Find == [name |-> "HoldFirstSlot", promise |-> 1, deadline |-> 2,
         query |-> Query(0, 0, 1, [a \in {0} |-> Left])]
Keep == [name |-> "Commit", promise |-> 1, version |-> 1]
Drop == [name |-> "Release", promise |-> 1, version |-> 1]
Move == [name |-> "Replace", promise |-> 1, version |-> 1, bundle |-> Left,
         target |-> [state |-> "Committed", deadline |-> 0]]
Sweep == [name |-> "ProcessExpirations"]

LedgerBundle == {Left}
LedgerChoice == {Pick.choice}
LedgerQuery == {Find.query}
LedgerCurves == {Empty, Full}
LedgerCurve == LedgerCurves

\* A hold that is committed or expires; c2 is used twice, for different commands.
FewRequests ==
  {Send(c1, Create), Send(c2, Place(2)), Send(c2, Keep), Send(c3, Keep),
   Send(c3, Revise(Empty, "Force")), Send(c4, Sweep)}

\* Every kind of command; c2 and c3 are used for different ones.
EveryRequest ==
  {Send(c1, Create), Send(c2, Place(2)), Send(c2, Pick), Send(c2, Find)}
    \cup {Send(c3, op) : op \in {Keep, Drop, Move, Revise(Empty, "Force")}}
    \cup {Send(c4, Sweep)}
AllRequests == EveryRequest

\* Two revisions, the second of which undoes the first.
UndoRequests ==
  {Send(c1, Create), Send(c2, Revise(Empty, "Force")), Send(c3, Revise(Full, "Force"))}

\* The databases of the runs: a loss of power only where everything answered was
\* synchronized, and no restart before it (see the run reopen_unsynced).
EveryDeployment ==
  {[durability |-> "Sync", crashes |-> {"Power"}],
   [durability |-> "Flush", crashes |-> {"Process"}]}
CrashedAndSynced == {[durability |-> "Sync", crashes |-> {"Process"}]}
EveryCrash == {[durability |-> "Sync", crashes |-> {"Process", "Power"}]}
=============================================================================
