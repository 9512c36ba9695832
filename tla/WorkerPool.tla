----------------------------- MODULE WorkerPool -----------------------------
(***************************************************************************)
(* What a concurrency limiter promises its callers, without saying how it  *)
(* keeps count or in which order it wakes them: jobs ask for a place, at   *)
(* most Limit of them hold one at a time, and a place that is free is      *)
(* never left unused while somebody waits for it.                          *)
(***************************************************************************)
EXTENDS Naturals, FiniteSets

CONSTANTS Job,      \* the jobs that may ask for a place
          Limit     \* how many may hold one at the same time

VARIABLES waiting,  \* the jobs that asked and were not served yet
          running   \* the jobs that hold a place

poolVars == <<waiting, running>>

PoolInit ==
  /\ waiting = {}
  /\ running = {}

(* A job asks and is served at once.                                       *)
Enter(j) ==
  /\ j \notin waiting \cup running
  /\ Cardinality(running) < Limit
  /\ running' = running \cup {j}
  /\ UNCHANGED waiting

(* A job asks while every place is taken.                                  *)
Wait(j) ==
  /\ j \notin waiting \cup running
  /\ Cardinality(running) = Limit
  /\ waiting' = waiting \cup {j}
  /\ UNCHANGED running

(* A job gives its place back; if anybody waits, one of them takes it in   *)
(* the same step.                                                          *)
Leave(j) ==
  /\ j \in running
  /\ IF waiting = {}
     THEN /\ running' = running \ {j}
          /\ UNCHANGED waiting
     ELSE \E w \in waiting :
            /\ waiting' = waiting \ {w}
            /\ running' = (running \ {j}) \cup {w}

PoolNext == \E j \in Job : Enter(j) \/ Wait(j) \/ Leave(j)

PoolSpec == PoolInit /\ [][PoolNext]_poolVars
=============================================================================
