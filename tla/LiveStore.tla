----------------------------- MODULE LiveStore -----------------------------
(***************************************************************************)
(* The client's store of one live object: what packages/client/src/store.ts*)
(* does with a call and with an envelope, as operators on a store record.  *)
(*                                                                         *)
(* Abstraction.  Confirmed state is the sequence of writes it reflects; an *)
(* envelope carries the writes it adds (patches) or the whole sequence     *)
(* (full).  A pending op is the number in its rpc id `c<n>`; its calls     *)
(* settle together.  Ids, optimistic replay and errors' texts are left out.*)
(***************************************************************************)
EXTENDS Integers, Sequences, Functions, Filter

NoAck == 0     \* the rpc number of an envelope that acks nothing

Store(Write) == [confirmed : Seq(Write), seq : Nat, awaiting : BOOLEAN, ops : Seq(Nat)]
Envelope(Write) ==
    [full : BOOLEAN, seq : Nat, writes : Seq(Write), ack : Nat, ok : BOOLEAN]

(* A new LiveStore waits for its first full snapshot.                      *)
FreshStore == [confirmed |-> <<>>, seq |-> 0, awaiting |-> TRUE, ops |-> <<>>]

Full(n, writes) == [full |-> TRUE, seq |-> n, writes |-> writes, ack |-> NoAck, ok |-> TRUE]
Patches(n, writes, ack, ok) ==
    [full |-> FALSE, seq |-> n, writes |-> writes, ack |-> ack, ok |-> ok]

(* #flush: the calls of the tick become one pending op.                    *)
Submit(s, n) == [s EXCEPT !.ops = Append(@, n)]

(* #settleOp: success or error, the op leaves the pending list.            *)
Settles(s, env) == env.ack # NoAck /\ \E i \in DOMAIN s.ops : s.ops[i] = env.ack
SettleOp(s, env) == [s EXCEPT !.ops = Only(@, Range(@) \ {env.ack})]

(* Mutant: the last envelope counts as a new one.                          *)
StaleOffByOne(s, env) == ~env.full /\ env.seq < s.seq

Stale(s, env) == ~env.full /\ env.seq <= s.seq

(* Mutant: patches are applied whatever they follow.                       *)
GapUnchecked(s, env) == FALSE

Gap(s, env) == ~env.full /\ ~Stale(s, env) /\ (s.awaiting \/ env.seq > s.seq + 1)

InOrder(s, env) == ~env.full /\ ~Stale(s, env) /\ ~Gap(s, env)

(* Mutant: a frame that cannot be applied is skipped.                      *)
ConfirmSkips(s, env, corrupt) ==
    CASE env.full -> [s EXCEPT !.confirmed = env.writes, !.seq = env.seq, !.awaiting = FALSE]
      [] Stale(s, env) -> s
      [] Gap(s, env) -> [s EXCEPT !.awaiting = TRUE]
      [] InOrder(s, env) /\ corrupt -> [s EXCEPT !.seq = env.seq]
      [] InOrder(s, env) /\ ~corrupt ->
            [s EXCEPT !.confirmed = @ \o env.writes, !.seq = env.seq]

(* The confirmed part of a store after an envelope; `corrupt` says that the*)
(* patches cannot be applied (#recoverFromBadFrame).                       *)
Confirm(s, env, corrupt) ==
    CASE env.full -> [s EXCEPT !.confirmed = env.writes, !.seq = env.seq, !.awaiting = FALSE]
      [] Stale(s, env) -> s
      [] Gap(s, env) -> [s EXCEPT !.awaiting = TRUE]
      [] InOrder(s, env) /\ corrupt -> [s EXCEPT !.awaiting = TRUE]
      [] InOrder(s, env) /\ ~corrupt ->
            [s EXCEPT !.confirmed = @ \o env.writes, !.seq = env.seq]

ApplyEnvelope(s, env, corrupt) == SettleOp(Confirm(s, env, corrupt), env)

(* Whether applying the envelope asks the server for a full snapshot.      *)
AsksResync(s, env, corrupt) ==
    \/ Gap(s, env) /\ ~s.awaiting
    \/ InOrder(s, env) /\ corrupt

(* resendUnacked *)
Unacked(s) == s.ops
=============================================================================
