---------------------------- MODULE SlidingWindow ----------------------------
(***************************************************************************)
(* The limiter a caller of Allow is meant to see: it grants a request       *)
(* exactly when fewer than Limit of those it counts for the key came within *)
(* the last Window.  It counts every request it grants, and stops counting *)
(* those of a key only when Room other keys were granted one since: nothing *)
(* else, such as tidying up, ever shows in an answer.                      *)
(***************************************************************************)
EXTENDS Naturals, FiniteSets

CONSTANTS
  Keys,     \* what requests are counted by
  Limit,    \* requests granted to a key per Window
  Window,
  Room      \* keys that are sure to be remembered

VARIABLES
  now,      \* the instant of the last event
  counted,  \* counted[k]: the instants of the requests of k that count
  answer    \* the last request and what it was told

windowVars == <<now, counted, answer>>

NoAnswer == {}
AnswerTo(k, t, ok) == {[key |-> k, at |-> t, ok |-> ok]}

CountedRecently(k, t) == {u \in counted[k] : u + Window > t}

WindowInit ==
  /\ now = 0
  /\ counted = [k \in Keys |-> {}]
  /\ answer = NoAnswer

\* The keys with requests in c, one of them later than any of k.
ServedSince(c, k) == {j \in Keys : c[j] # {} /\ \A v \in c[k] : \E u \in c[j] : u > v}

\* What may be left of c: all of it, or all but a key that Room others followed.
MayRemain(c) ==
  {c} \cup {[c EXCEPT ![k] = {}] : k \in {j \in Keys : Cardinality(ServedSince(c, j)) >= Room}}

Grant(k, t) ==
  /\ Cardinality(CountedRecently(k, t)) < Limit
  /\ counted' \in MayRemain([counted EXCEPT ![k] = @ \cup {t}])
  /\ answer' = AnswerTo(k, t, TRUE)

Refuse(k, t) ==
  /\ Cardinality(CountedRecently(k, t)) >= Limit
  /\ answer' = AnswerTo(k, t, FALSE)
  /\ UNCHANGED counted

Elapse == UNCHANGED <<counted, answer>>

WindowNext ==
  /\ now' = now + 1
  /\ Elapse \/ \E k \in Keys : Grant(k, now') \/ Refuse(k, now')

WindowSpec == WindowInit /\ [][WindowNext]_windowVars
=============================================================================
