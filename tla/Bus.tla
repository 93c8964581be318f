--------------------------------- MODULE Bus ---------------------------------
(***************************************************************************)
(* One topic of the pubsub bus: the instances of several nodes subscribe   *)
(* in setup, publish, and unsubscribe when they are disposed of.           *)
(* RedisBus of storage-redis/src/index.ts, which shares one subscription   *)
(* of the client between the local subscribers of a channel, and LocalBus  *)
(* of core/src/storage.ts; #subscribeTopic and dispose of                  *)
(* core/src/instance.ts.                                                   *)
(*                                                                         *)
(* Abstraction.  The client keeps one listener per call of subscribe, and  *)
(* redis sends a message to the listeners it knows of at that moment, in   *)
(* order.  An instance never comes back: its id is random.                 *)
(***************************************************************************)
EXTENDS Naturals, Sequences, FiniteSets

CONSTANTS
    Insts,       \* the instances
    Home,        \* the node of each instance
    Entries,     \* the channel entries of a behaviour, numbered from 1
    Messages     \* the messages of a behaviour

(* They are numbered from 1: 0 is none of them. *)
BusConstantsOK == Entries \subseteq Nat \ {0}

VARIABLES
    bus,       \* "local" or "redis"
    current,   \* per node: the entry of the channel, or 0
    channel,   \* per entry: see Unused
    at,        \* per instance: "new", "in", "out"; "lost" when its setup threw
    link,      \* per instance: the entry it joined
    message,   \* per message: see Unsent
    heard      \* history: per instance, the messages it was given, in order

busVars == <<bus, current, channel, at, link, message, heard>>

Nodes == {Home[i] : i \in Insts}

(* wire    the listener: "none", "asked" of redis, "known" to redis,       *)
(*         "ready" when the client has said so, "failed", "removed"        *)
(* inbox   the messages redis has sent it                                  *)
Unused == [subscribers |-> {}, wire |-> "none", cancelled |-> FALSE, inbox |-> <<>>]
Unsent == [state |-> "unsent", from |-> CHOOSE i \in Insts : TRUE, self |-> FALSE]

Init ==
    /\ bus \in {"local", "redis"}
    /\ current = [n \in Nodes |-> 0]
    /\ channel = [e \in Entries |-> Unused]
    /\ at = [i \in Insts |-> "new"] /\ link = [i \in Insts |-> 0]
    /\ message = [m \in Messages |-> Unsent]
    /\ heard = [i \in Insts |-> <<>>]

(* Excluded only when the sender did not ask to hear itself.               *)
Hears(e, m) ==
    {i \in channel[e].subscribers : message'[m].self \/ i # message'[m].from}

Give(is, m) ==
    heard' = [i \in Insts |-> IF i \in is THEN Append(heard[i], m) ELSE heard[i]]

(* subscribe: the first local subscriber of a channel asks the client.     *)
(* setup may throw afterwards, and nothing unsubscribes then.              *)
Subscribe(i) ==
    /\ at[i] = "new"
    /\ \E outcome \in {"in", "lost"} : at' = [at EXCEPT ![i] = outcome]
    /\ LET old == current[Home[i]] IN
       \E e \in Entries :
         /\ IF old # 0 THEN e = old
            ELSE \A f \in Entries : f < e <=> channel[f] # Unused
         /\ current' = [current EXCEPT ![Home[i]] = e]
         /\ link' = [link EXCEPT ![i] = e]
         /\ channel' = [channel EXCEPT
                ![e].subscribers = @ \cup {i},
                ![e].wire = IF @ # "none" THEN @
                            ELSE IF bus = "local" THEN "ready" ELSE "asked"]
    /\ UNCHANGED <<bus, message, heard>>

WireTo(e, from, to) ==
    /\ channel[e].wire = from
    /\ channel' = [channel EXCEPT ![e].wire = to]
    /\ UNCHANGED <<bus, current, at, link, message, heard>>

(* Redis takes the subscription, or it never will.                         *)
Known(e) == WireTo(e, "asked", "known")
Failed(e) == WireTo(e, "asked", "failed")

(* Mutant: the subscription is kept although everyone has left.            *)
ResolvedKeeps(e) == WireTo(e, "known", "ready")
(* subscribe's promise: what everyone has left meanwhile is taken down.    *)
Resolved(e) ==
    /\ channel[e].wire = "known"
    /\ channel' = [channel EXCEPT
           ![e].wire = IF channel[e].cancelled THEN "removed" ELSE "ready",
           ![e].inbox = IF channel[e].cancelled THEN <<>> ELSE @]
    /\ UNCHANGED <<bus, current, at, link, message, heard>>

(* dispose: the last local subscriber takes the listener down, or has it   *)
(* taken down once the client answers.                                     *)
Unsubscribe(i) ==
    /\ at[i] = "in" /\ at' = [at EXCEPT ![i] = "out"]
    /\ LET e == link[i] c == channel[e] left == c.subscribers \ {i} IN
       IF left # {}
       THEN channel' = [channel EXCEPT ![e].subscribers = left] /\ UNCHANGED current
       ELSE /\ current' = [current EXCEPT ![Home[i]] = IF @ = e THEN 0 ELSE @]
            /\ channel' = [channel EXCEPT ![e] = [c EXCEPT
                   !.subscribers = left,
                   !.wire = IF @ = "ready" THEN "removed" ELSE @,
                   !.inbox = IF c.wire = "ready" THEN <<>> ELSE @,
                   !.cancelled = c.wire # "ready"]]
    /\ UNCHANGED <<bus, link, message, heard>>

(* publish: within the process at once, or through redis; it is not awaited *)
(* and nothing tries again when it fails.                                  *)
Publish(i, m) ==
    /\ at[i] = "in" /\ message[m].state = "unsent"
    /\ \E self \in BOOLEAN :
         message' = [message EXCEPT ![m] = [state |-> IF bus = "local" THEN "sent" ELSE "asked",
                                            from |-> i, self |-> self]]
    /\ IF bus = "local" THEN Give(Hears(current[Home[i]], m), m) ELSE UNCHANGED heard
    /\ UNCHANGED <<bus, current, channel, at, link>>

PublishFails(m) ==
    /\ message[m].state = "asked"
    /\ message' = [message EXCEPT ![m].state = "lost"]
    /\ UNCHANGED <<bus, current, channel, at, link, heard>>

Route(m) ==
    /\ message[m].state = "asked"
    /\ message' = [message EXCEPT ![m].state = "sent"]
    /\ channel' = [e \in Entries |->
           IF channel[e].wire \in {"known", "ready"}
           THEN [channel[e] EXCEPT !.inbox = Append(@, m)] ELSE channel[e]]
    /\ UNCHANGED <<bus, current, at, link, heard>>

(* The listener: one message, given to every local subscriber.             *)
Deliver(e) ==
    /\ channel[e].wire \in {"known", "ready"} /\ channel[e].inbox # <<>>
    /\ UNCHANGED <<bus, current, at, link, message>>
    /\ channel' = [channel EXCEPT ![e].inbox = Tail(@)]
    /\ LET m == Head(channel[e].inbox) IN Give(Hears(e, m), m)

Next ==
    \/ \E i \in Insts : Subscribe(i) \/ Unsubscribe(i) \/ \E m \in Messages : Publish(i, m)
    \/ \E e \in Entries : Known(e) \/ Failed(e) \/ Resolved(e) \/ Deliver(e)
    \/ \E m \in Messages : PublishFails(m) \/ Route(m)

Spec == Init /\ [][Next]_busVars
-----------------------------------------------------------------------------
Range(s) == {s[k] : k \in 1 .. Len(s)}

(* The listeners redis keeps are the ones in use (storage-redis/src/       *)
(* index.ts:46): each is its node's only one and has a subscriber, or goes *)
(* as soon as the client has answered; whoever is subscribed is found in   *)
(* the entry of its node.  No instance is given a message twice, or its    *)
(* own unless it asked.                                                    *)
SubscriptionsUsed ==
    /\ \A e \in Entries : channel[e].wire = "ready" =>
           /\ channel[e].subscribers # {}
           /\ \E n \in Nodes : current[n] = e
    /\ \A i \in Insts : at[i] = "in" =>
           current[Home[i]] = link[i] /\ i \in channel[link[i]].subscribers
    /\ \A i \in Insts : \A j, k \in 1 .. Len(heard[i]) :
           j # k => heard[i][j] # heard[i][k]
    /\ \A i \in Insts : \A m \in Range(heard[i]) :
           message[m].from = i => message[m].self
=============================================================================
