---------------------------- MODULE SyncPromise ----------------------------
(* What a live object promises the pages of a session: an append-only log   *)
(* of writes that every page reads in order, possibly skipping ahead, and a *)
(* call that is done only when its write is in the log.  A write may be     *)
(* there more than once: delivery is at least once.                         *)
EXTENDS Integers, Sequences, Functions

CONSTANTS Pages, Other

VARIABLES
    log,    \* writes of the live object
    seen,   \* per page: the prefix it has confirmed
    done    \* per page: its calls that succeeded, their writes not astray

vars == <<log, seen, done>>

Author == Pages \cup {Other}

Init ==
    /\ log = <<>>
    /\ seen = [p \in Pages |-> <<>>]
    /\ done = [p \in Pages |-> {}]

(* One envelope's worth of writes.                                         *)
Extend ==
    /\ Len(log') > Len(log)
    /\ SubSeq(log', 1, Len(log)) = log
    /\ \A i \in Len(log) + 1 .. Len(log') : log'[i].by \in Author
    /\ UNCHANGED <<seen, done>>

(* A page catches up with part of the log, and may learn of calls done.    *)
Learn(p) ==
    /\ \E k \in Len(seen[p]) .. Len(log) : seen' = [seen EXCEPT ![p] = SubSeq(log, 1, k)]
    /\ \E n \in {0} \cup {w.n : w \in {v \in Range(log) : v.by = p}} :
         done' = [done EXCEPT ![p] = @ \cup ({n} \ {0})]
    /\ UNCHANGED log

Next == Extend \/ \E p \in Pages : Learn(p)

Spec == Init /\ [][Next]_vars
=============================================================================
