----------------------------- MODULE LeaseQueue -----------------------------
(***************************************************************************)
(* What the job queue promises, without tables, statuses and batches: an   *)
(* item is added once, and from then on it is queued, held by one worker,  *)
(* stuck until the next restart, or settled, until it is deleted.  Nothing *)
(* leaves `settled` but by deletion, and nothing that is held or stuck is  *)
(* given to another worker.                                                *)
(***************************************************************************)
EXTENDS FiniteSets

CONSTANTS Item, Worker

VARIABLES
  given,    \* the items ever added
  queued,   \* those that wait for a worker
  held,     \* held[w]: those that worker w works on
  stuck,    \* those that nobody works on and nobody will before a restart
  settled   \* those that are done, or given up

vars == <<given, queued, held, stuck, settled>>

Init ==
  /\ given = {}
  /\ queued = {}
  /\ held = [w \in Worker |-> {}]
  /\ stuck = {}
  /\ settled = {}

Add(items) ==
  /\ items \cap given = {}
  /\ given' = given \cup items
  /\ queued' = queued \cup items
  /\ UNCHANGED <<held, stuck, settled>>

Lease(w, items) ==
  /\ held[w] = {}
  /\ queued' = queued \ items
  /\ held' = [held EXCEPT ![w] = items]
  /\ UNCHANGED <<given, stuck, settled>>

\* The worker is done with what it held: some of it is to be tried again.
Release(w, again) ==
  /\ held' = [held EXCEPT ![w] = {}]
  /\ queued' = queued \cup again
  /\ settled' = settled \cup (held[w] \ again)
  /\ UNCHANGED <<given, stuck>>

\* The worker lost what it held, but for what was settled already.
Lose(w, lost) ==
  /\ held' = [held EXCEPT ![w] = {}]
  /\ stuck' = stuck \cup lost
  /\ settled' = settled \cup (held[w] \ lost)
  /\ UNCHANGED <<given, queued>>

AllHeld == UNION {held[w] : w \in Worker}

Crash(lost) ==
  /\ held' = [w \in Worker |-> {}]
  /\ stuck' = stuck \cup lost
  /\ settled' = settled \cup (AllHeld \ lost)
  /\ UNCHANGED <<given, queued>>

Restart ==
  /\ AllHeld = {}
  /\ queued' = queued \cup stuck
  /\ stuck' = {}
  /\ UNCHANGED <<given, held, settled>>

Delete(items) ==
  /\ queued' = queued \ items
  /\ held' = [w \in Worker |-> held[w] \ items]
  /\ stuck' = stuck \ items
  /\ settled' = settled \ items
  /\ UNCHANGED given

Next ==
  \/ \E items \in SUBSET Item : Add(items)
  \/ \E w \in Worker :
       \/ \E items \in SUBSET queued : Lease(w, items)
       \/ \E again \in SUBSET held[w] : Release(w, again)
       \/ \E lost \in SUBSET held[w] : Lose(w, lost)
  \/ \E lost \in SUBSET AllHeld : Crash(lost)
  \/ Restart
  \/ \E items \in SUBSET given : Delete(items)

Spec == Init /\ [][Next]_vars
=============================================================================
