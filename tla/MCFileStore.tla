--------------------------- MODULE MCFileStore ---------------------------
(***************************************************************************)
(* Small instances of FileStore.                                           *)
(***************************************************************************)
EXTENDS FileStore

CONSTANTS a, b

\* A loss of power only where everything answered was synchronized, and no restart
\* before it (see README, findings); otherwise crashes and restarts of the process.
EveryDeployment ==
  {[durability |-> "Sync", restarts |-> {"Power"}],
   [durability |-> "Flush", restarts |-> {"Close", "Process"}]}

\* A database that is closed properly each time.
ClosedDeployment == {[durability |-> "Sync", restarts |-> {"Close"}]}
==========================================================================
