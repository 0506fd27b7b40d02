------------------------------ MODULE Postgres ------------------------------
(***************************************************************************)
(* How one SQL statement sent through database/sql ends, as the handlers   *)
(* under api/ see it.  No handler opens a transaction: every statement     *)
(* commits on its own, and the statements of one handler interleave with   *)
(* those of every other.  A handler only ever looks at the error value,    *)
(* which does not tell a statement that never ran from one that committed  *)
(* before its reply was lost.                                              *)
(***************************************************************************)

\* "ok": committed, no error.  "lost": committed, but an error comes back.
\* "failed": nothing happened, an error comes back.
Outcomes == {"ok", "lost", "failed"}

\* The statement took effect.
Applied(o) == o # "failed"

\* The handler's `if err != nil` is taken.
Errs(o) == o # "ok"
=============================================================================
