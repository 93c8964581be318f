----------------------------- MODULE Persistence -----------------------------
(***************************************************************************)
(* The snapshot row of one session and page: who writes and deletes it as  *)
(* mounts, evictions, a change of login, the shutdown of `rpxd start` and  *)
(* crashes follow each other.  mountInstance, buildInstance, evictEntry    *)
(* and dispose of server-bun/src/handler.ts, create and dispose of         *)
(* core/src/instance.ts, the four storage adapters and cli/src/shutdown.ts.*)
(*                                                                         *)
(* Abstraction.  A session is its principal: authenticate's result, which  *)
(* handlers do not write.  An adapter applies its calls in the order they  *)
(* are made, or fails.  A warm reuse does not touch the row.  Of the       *)
(* handlers of an instance that wait, one is enough.                       *)
(***************************************************************************)
EXTENDS Naturals, FiniteSets

CONSTANTS
    Insts,      \* the instances of a behaviour, numbered from 1
    Principals, \* the sessions authenticate may return
    MaxSeq      \* bound: emissions of an instance

(* They are numbered from 1: 0 is none of them. *)
PersistConstantsOK == Insts \subseteq Nat \ {0}

VARIABLES
    adapter,  \* "memory", "session", "sqlite" or "redis"
    row,      \* the stored snapshot: NoRow, or of an instance
    entry,    \* the registered instance of the key, or 0
    inst,     \* per instance: see Unborn
    login,    \* what authenticate returns now
    proc,     \* "up", or where the shutdown is; "down" with `code`
    code,     \* the exit code
    saving,   \* the instances handler.dispose waits for
    owner,    \* history: whose row it should be, or 0 for none
    late      \* history, of this process: an instance was made beside another one
              \* of the key, or when handler.dispose had begun; one that was gone
              \* wrote over its successor's row or the last one; or a write failed

persistVars == <<adapter, row, entry, inst, login, proc, code, saving, owner, late>>

Durable == {"sqlite", "redis"}
NoRow == [by |-> 0]
RowOf(i) == [by |-> i, who |-> inst[i].who, seq |-> inst[i].seq, old |-> FALSE]

(* at          "unborn", "evicting" its predecessor, "reading", "creating",*)
(*             "loading", "live", "draining", "dropping" the row, "gone"   *)
(* who, seq    of the instance;   asked   who asked for it                 *)
(* unsaved     whether it emitted after its last write                     *)
(* parked      whether a handler of it may wait when it is disposed of     *)
(* persist     whether dispose writes a last snapshot;                     *)
(* thenDelete  whether the row is deleted after that                       *)
(* after       the instance it replaces, or 0                              *)
Unborn == [at |-> "unborn", who |-> CHOOSE p \in Principals : TRUE,
           asked |-> CHOOSE p \in Principals : TRUE, seq |-> 0, unsaved |-> FALSE,
           parked |-> FALSE, attached |-> FALSE, persist |-> FALSE, thenDelete |-> FALSE,
           after |-> 0]

Init ==
    /\ adapter \in {"memory", "session", "sqlite", "redis"}
    /\ row = NoRow /\ entry = 0 /\ login \in Principals
    /\ inst = [i \in Insts |-> Unborn]
    /\ proc = "up" /\ code = 0 /\ saving = {}
    /\ owner = 0 /\ late = FALSE

At(i, step) == inst[i].at = step
InMotion(i) == inst[i].at \in {"creating", "loading", "draining", "dropping"}
Making(i) == inst[i].at \in {"evicting", "reading", "creating", "loading"}
Beside(i) == \E j \in Insts \ {i} : inst[j].at \notin {"unborn", "gone"}
Running == proc # "down"

Closed == proc = "closed" /\ adapter = "sqlite"    \* its calls throw

(* A write or delete whose failure is caught, as that of #writeThrough is; *)
(* `upset` says that the row is not this one's to write any more.          *)
Store(r, upset) ==
    \/ ~Closed /\ row' = r /\ late' = (late \/ upset)
    \/ row' = row /\ late' = (late \/ upset \/ proc # "closed")

Draining(q, persist, thenDelete) ==
    [q EXCEPT !.at = "draining", !.persist = persist, !.thenDelete = thenDelete,
              !.parked = q.at = "live", !.attached = FALSE, !.unsaved = FALSE]

-----------------------------------------------------------------------------
(* A mount *)

(* mountInstance: nothing is registered, or what is was made for another   *)
(* session: it is unregistered and disposed of first.  A request that was  *)
(* under way goes on through a shutdown.                                   *)
Mount(i) ==
    /\ Running /\ At(i, "unborn")
    /\ entry # 0 => inst[entry].who # login
    /\ \A j \in Insts : j < i => ~At(j, "unborn")
    /\ LET me == [inst EXCEPT ![i].at = IF entry = 0 THEN "reading" ELSE "evicting",
                              ![i].asked = login, ![i].after = entry] IN
       inst' = IF entry = 0 THEN me ELSE [me EXCEPT ![entry] = Draining(@, TRUE, FALSE)]
    /\ entry' = 0 /\ late' = (late \/ proc \notin {"up", "stopping"})
    /\ UNCHANGED <<adapter, row, login, proc, code, saving, owner>>

(* Mutant: the row is kept when the session has changed.                   *)
ForgottenNot(i) ==
    /\ Running /\ At(i, "evicting") /\ At(inst[i].after, "gone")
    /\ inst' = [inst EXCEPT ![i].at = "reading"]
    /\ owner' = 0 /\ late' = (late \/ Beside(i))
    /\ UNCHANGED <<adapter, row, entry, login, proc, code, saving>>
(* The old principal's row is deleted once its instance is disposed of; a  *)
(* delete that throws is not caught, and the mount fails.                  *)
Forgotten(i) ==
    /\ Running /\ At(i, "evicting") /\ At(inst[i].after, "gone")
    /\ \/ /\ ~Closed /\ row' = NoRow
          /\ inst' = [inst EXCEPT ![i].at = "reading"]
          /\ owner' = 0 /\ late' = (late \/ Beside(i))
       \/ /\ inst' = [inst EXCEPT ![i].at = "gone"]
          /\ UNCHANGED <<row, owner, late>>
    /\ UNCHANGED <<adapter, entry, login, proc, code, saving>>

(* LiveInstance.create: a snapshot of the definition's own version brings  *)
(* its session and seq with it.                                            *)
Restores == row # NoRow /\ ~row.old

Read(i) ==
    /\ Running /\ At(i, "reading")
    /\ inst' = [inst EXCEPT ![i].at = "creating",
                   ![i].who = IF Restores THEN row.who ELSE inst[i].asked,
                   ![i].seq = IF Restores THEN row.seq ELSE 0]
    /\ late' = (late \/ Beside(i))
    /\ UNCHANGED <<adapter, row, entry, login, proc, code, saving, owner>>

(* setup, the first full, and the first write-through.                     *)
Create(i) ==
    /\ Running /\ At(i, "creating")
    /\ inst[i].seq < MaxSeq
    /\ LET made == [inst[i] EXCEPT !.at = "loading", !.seq = @ + 1] IN
       /\ inst' = [inst EXCEPT ![i] = made]
       /\ Store([by |-> i, who |-> made.who, seq |-> made.seq, old |-> FALSE], Beside(i))
    /\ owner' = i
    /\ UNCHANGED <<adapter, entry, login, proc, code, saving>>

(* The guard denies, the snapshot cannot be read, or setup throws.         *)
Bail(i) ==
    /\ Running /\ inst[i].at \in {"reading", "creating"}
    /\ inst' = [inst EXCEPT ![i].at = "gone"]
    /\ UNCHANGED <<adapter, row, entry, login, proc, code, saving, owner, late>>

(* The loader settles: it may bail out, which disposes of what was built;  *)
(* so does a registry that has an instance of the key by now.              *)
Register(i) ==
    /\ Running /\ At(i, "loading")
    /\ \/ /\ entry = 0 /\ entry' = i /\ owner' = i
          /\ inst' = [inst EXCEPT ![i].at = "live"]
       \/ /\ inst' = [inst EXCEPT ![i] = Draining(@, FALSE, FALSE)]
          /\ UNCHANGED <<entry, owner>>
    /\ UNCHANGED <<adapter, row, login, proc, code, saving, late>>

-----------------------------------------------------------------------------
(* An instance at work, and its end *)

Attach ==
    /\ Running /\ entry # 0 /\ ~inst[entry].attached
    /\ inst' = [inst EXCEPT ![entry].attached = TRUE]
    /\ UNCHANGED <<adapter, row, entry, login, proc, code, saving, owner, late>>

Work(i) ==
    /\ Running /\ At(i, "live") /\ inst[i].seq < MaxSeq
    /\ inst' = [inst EXCEPT ![i].seq = @ + 1, ![i].unsaved = TRUE]
    /\ UNCHANGED <<adapter, row, entry, login, proc, code, saving, owner, late>>

WriteThrough(i) ==
    /\ Running /\ At(i, "live") /\ inst[i].unsaved
    /\ inst' = [inst EXCEPT ![i].unsaved = FALSE]
    /\ Store(RowOf(i), FALSE)
    /\ UNCHANGED <<adapter, entry, login, proc, code, saving, owner>>

(* A handler that waited throws.  #ackError applies what it wrote, writes  *)
(* it through and acks it, without a look at #disposed: over whatever row  *)
(* there is by then.  (Of one that is live it is WriteThrough, then Work.) *)
AckError(i) ==
    /\ Running /\ inst[i].parked /\ inst[i].seq < MaxSeq
    /\ inst' = [inst EXCEPT ![i].parked = FALSE, ![i].seq = @ + 1]
    /\ Store(RowOf(i), At(i, "gone") /\ (owner # i \/ proc # "up"))
    /\ UNCHANGED <<adapter, entry, login, proc, code, saving, owner>>

(* evictEntry: an adopted instance is saved, one never attached leaves no  *)
(* row behind.                                                             *)
Evict ==
    /\ Running /\ entry # 0
    /\ inst' = [inst EXCEPT ![entry] = Draining(@, inst[entry].attached, ~inst[entry].attached)]
    /\ owner' = IF inst[entry].attached THEN entry ELSE 0
    /\ entry' = 0
    /\ UNCHANGED <<adapter, row, login, proc, code, saving, late>>

(* dispose: the queue has gone idle, and the last snapshot is written.     *)
Drained(i) ==
    /\ Running /\ At(i, "draining")
    /\ inst' = [inst EXCEPT ![i].at = IF inst[i].thenDelete THEN "dropping" ELSE "gone"]
    /\ IF inst[i].persist THEN Store(RowOf(i), FALSE) ELSE UNCHANGED <<row, late>>
    /\ UNCHANGED <<adapter, entry, login, proc, code, saving, owner>>

Dropped(i) ==
    /\ Running /\ At(i, "dropping")
    /\ inst' = [inst EXCEPT ![i].at = "gone"]
    /\ Store(NoRow, FALSE)
    /\ UNCHANGED <<adapter, entry, login, proc, code, saving, owner>>

-----------------------------------------------------------------------------
(* The world, and the process *)

SignIn ==
    /\ proc = "up" /\ \E p \in Principals : p # login /\ login' = p
    /\ UNCHANGED <<adapter, row, entry, inst, proc, code, saving, owner, late>>

(* A row of the session adapter lapses some time after its last write.     *)
Lapse ==
    /\ adapter = "session" /\ row # NoRow /\ row' = NoRow
    /\ UNCHANGED <<adapter, entry, inst, login, proc, code, saving, owner, late>>

Phase(p, q) ==
    /\ proc = p /\ proc' = q
    /\ UNCHANGED <<adapter, row, entry, inst, login, code, saving, owner, late>>

Signal == Phase("up", "stopping")

(* The listener has stopped: handler.dispose clears the registries and     *)
(* disposes of what they held, saving it.  It knows nothing of the mounts  *)
(* that are under way.                                                     *)
Dispose ==
    /\ proc = "stopping" /\ proc' = "disposing"
    /\ saving' = IF entry = 0 THEN {} ELSE {entry}
    /\ inst' = IF entry = 0 THEN inst ELSE [inst EXCEPT ![entry] = Draining(@, TRUE, FALSE)]
    /\ entry' = 0 /\ late' = (late \/ \E i \in Insts : Making(i))
    /\ UNCHANGED <<adapter, row, login, code, owner>>

(* runCloseSequence: each step after the one before it; the app's hook     *)
(* with the storage still open.                                            *)
Disposed == (\A i \in saving : At(i, "gone")) /\ Phase("disposing", "hooking")
CloseStorage == Phase("hooking", "closed")

Exit(c) ==
    /\ proc' = "down" /\ code' = c
    /\ UNCHANGED <<adapter, row, entry, inst, login, saving, owner, late>>

Exited == proc = "closed" /\ Exit(0)
(* A step fails, the time is up, or a second signal comes; or a crash.     *)
Forced == Running /\ Exit(1)

(* What the adapter keeps outlives the process; the definition may come    *)
(* back with another version.                                              *)
Restart ==
    /\ proc = "down" /\ proc' = "up" /\ code' = 0 /\ saving' = {}
    /\ \E deployed \in BOOLEAN :
         row' = IF adapter \notin Durable \/ row = NoRow THEN NoRow
                ELSE [row EXCEPT !.old = row.old \/ deployed]
    /\ owner' = row'.by /\ late' = FALSE
    /\ entry' = 0
    /\ inst' = [i \in Insts |->
                   [Unborn EXCEPT !.at = IF At(i, "unborn") THEN @ ELSE "gone"]]
    /\ UNCHANGED <<adapter, login>>

Next ==
    \/ \E i \in Insts :
         \/ Mount(i) \/ Forgotten(i) \/ Read(i) \/ Create(i) \/ Register(i)
         \/ Bail(i) \/ Work(i) \/ WriteThrough(i) \/ AckError(i)
         \/ Drained(i) \/ Dropped(i)
    \/ Attach \/ Evict \/ SignIn \/ Lapse
    \/ Signal \/ Dispose \/ Disposed \/ CloseStorage \/ Exited \/ Forced \/ Restart

Spec == Init /\ [][Next]_persistVars
-----------------------------------------------------------------------------
Quiet == proc = "up" /\ \A i \in Insts : ~InMotion(i)

(* The row is the snapshot of the instance it should be of (evictEntry,    *)
(* "must not clobber the winner's slot or row"): the one registered, or    *)
(* the last one that was adopted; none after one that never was, or after  *)
(* the login changed, so that what replaces an instance starts afresh; and *)
(* a clean exit has saved the last state of what was registered.  Unless,  *)
(* in this process, two instances of the key were there at once, one was   *)
(* made while handler.dispose was at it, a handler of one that was gone    *)
(* threw and wrote the row of its successor or a last one, or the adapter  *)
(* failed: those are the cases of `late`, and nothing in the code orders   *)
(* or repairs them.                                                        *)
RowFollowsInstance ==
    late \/
    /\ Quiet => row.by = owner \/ (adapter = "session" /\ row = NoRow)
    /\ \A i \in Insts : (inst[i].after # 0 /\ InMotion(i)) => inst[i].who = inst[i].asked
    /\ (proc = "down" /\ code = 0 /\ adapter \in Durable) =>
           \A i \in saving : row.by = i /\ row.seq = inst[i].seq

(* routes-and-auth.md:216 (docs-site guides), "a normal navigation re-runs  *)
(* `setup` with the new principal": an instance is made for the session    *)
(* that asked for it, whatever became of the one before it.                *)
MadeForWhoAsked ==
    ~late => \A i \in Insts : At(i, "live") => inst[i].who = inst[i].asked
=============================================================================
