---------------------------- MODULE SessionLedger ----------------------------
(***************************************************************************)
(* What the sessions table promises to everyone who reads it, with the     *)
(* steps of a login taken away.  A token is in force from the one moment   *)
(* it is issued to the moment everything its player holds is revoked; it   *)
(* is issued once, so it never comes back, and revoking the tokens of one  *)
(* player leaves the tokens of every other player alone.                   *)
(***************************************************************************)
CONSTANTS
  Tokens,    \* session tokens
  Accounts   \* the players they are issued to

VARIABLES
  live,      \* live[p]: the tokens in force for player p
  used       \* every token issued so far

LedgerInit ==
  /\ live = [p \in Accounts |-> {}]
  /\ used = {}

Revoke(p) ==
  /\ live' = [live EXCEPT ![p] = {}]
  /\ UNCHANGED used

Issue(p, t) ==
  /\ t \notin used
  /\ live' = [live EXCEPT ![p] = @ \cup {t}]
  /\ used' = used \cup {t}

LedgerNext ==
  \E p \in Accounts : Revoke(p) \/ \E t \in Tokens : Issue(p, t)

LedgerSpec == LedgerInit /\ [][LedgerNext]_<<live, used>>
=============================================================================
