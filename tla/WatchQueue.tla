----------------------------- MODULE WatchQueue -----------------------------
(***************************************************************************)
(* The per-path chain of watch and unwatch calls                             *)
(* (src/src/store/repoWatchQueue.ts): the calls of one path are sent one at  *)
(* a time, in the order they were asked for, however each of them ends.       *)
(***************************************************************************)
EXTENDS Sequences

CONSTANT Paths  \* tab paths

VARIABLE queue  \* per path, the calls asked for; the head is in flight

Ops == {"watch", "unwatch"}

\* Mutant: the call is linked behind the one in flight.
AskNext(p, op) ==
  queue' = [queue EXCEPT ![p] = IF @ = <<>> THEN <<op>> ELSE <<Head(@), op>> \o Tail(@)]

\* enqueue: the call is linked behind the last one of its path.
Ask(p, op) == queue' = [queue EXCEPT ![p] = Append(@, op)]

InFlight(p, op) == queue[p] # <<>> /\ Head(queue[p]) = op

\* A link settles, well or badly, and the next one of the path is sent.
Settles(p) == queue' = [queue EXCEPT ![p] = Tail(@)]
=============================================================================
