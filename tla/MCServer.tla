------------------------------ MODULE MCServer ------------------------------
(* Model-checking instance of Server.  A temporal property rules symmetry     *)
(* out, so the instance starts from one of each set of initial states that    *)
(* differ by a renaming of the accounts.                                      *)
EXTENDS Server

CONSTANTS l1, p1

MCServerInit == ServerInit /\ account[l1] = p1

MCServerSpec == MCServerInit /\ [][ServerNext]_serverVars /\ ServerFairness
=============================================================================
