------------------------------ MODULE Database ------------------------------
(***************************************************************************)
(* api/_pkg/db/connection.go: what one server process keeps for its        *)
(* requests, a handle opened once and a pool of connections.  A statement  *)
(* waits for a connection with no deadline and gives it back when its rows *)
(* are closed, before its handler goes on.  A process that dies does not   *)
(* come back; the platform starts another.                                 *)
(***************************************************************************)
EXTENDS Naturals, FiniteSets

CONSTANTS
  Procs,    \* server processes
  Requests, \* the requests they serve
  MaxOpen   \* SetMaxOpenConns(10)

ASSUME DatabaseAssumption == MaxOpen \in Nat \ {0}

VARIABLES
  handle,  \* handle[p]: dbOnce not done, or done with dbInstance or dbErr
  conns    \* conns[p]: the requests that hold a connection of the pool of p

databaseVars == <<handle, conns>>

HandleStates == {"unopened", "open", "broken"}

DatabaseTypeOK ==
  /\ handle \in [Procs -> HandleStates]
  /\ conns \in [Procs -> SUBSET Requests]

DatabaseInit ==
  /\ handle = [p \in Procs |-> "unopened"]
  /\ conns = [p \in Procs |-> {}]

\* GetDB: the first call opens the handle or fails, every later one repeats it.
GetDB(p, result) ==
  /\ result \in {"open", "broken"}
  /\ handle[p] \in {"unopened", result}
  /\ handle' = [handle EXCEPT ![p] = result]

\* A statement of q starts, once fewer than MaxOpen are running.
Acquire(p, q) ==
  /\ Cardinality(conns[p]) < MaxOpen
  /\ conns' = [conns EXCEPT ![p] = @ \cup {q}]

Release(p, q) == conns' = [conns EXCEPT ![p] = @ \ {q}]
=============================================================================
