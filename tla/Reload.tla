------------------------------- MODULE Reload -------------------------------
(***************************************************************************)
(* A route edited while the dev server runs: each save of the file loads   *)
(* the module again, and its definition is swapped into the registration   *)
(* and the mounted instances.  cli/src/reload-serializer.ts and            *)
(* onRouteFileChange of dev-server.ts, updateRoute of                      *)
(* server-bun/src/handler.ts, replaceDef of core/src/instance.ts.          *)
(* A definition is the version of the file it was read from.               *)
(***************************************************************************)
EXTENDS Naturals, FiniteSets

CONSTANTS
    Builds,    \* the instances of a behaviour
    MaxSaves   \* bound: saves of the file

VARIABLES
    saved,       \* the version on disk, and the newest tag
    loads,       \* the reloads in flight: the tag, and what was read, or 0
    registered,  \* the registration's definition
    mount,       \* per instance: its definition, and whether it is mounted
    across,      \* history: the instances that were being built at a swap
    broken       \* history: the newest load that failed

reloadVars == <<saved, loads, registered, mount, across, broken>>

Init ==
    /\ saved = 1 /\ loads = {} /\ registered = 1
    /\ mount = [i \in Builds |-> [at |-> "no", def |-> 0]]
    /\ across = {} /\ broken = 0

(* Every save claims the next tag and starts a load.                       *)
Save ==
    /\ saved < MaxSaves /\ saved' = saved + 1
    /\ loads' = loads \cup {[tag |-> saved', read |-> 0]}
    /\ UNCHANGED <<registered, mount, across, broken>>

(* The import reads what is on disk by then.                               *)
ReadFile(l) ==
    /\ l.read = 0
    /\ loads' = (loads \ {l}) \cup {[l EXCEPT !.read = saved]}
    /\ UNCHANGED <<saved, registered, mount, across, broken>>

(* Mutant: a load is applied whenever it comes.                            *)
WinsAlways(l) == TRUE
(* createLatestWinsReloader: only the newest tag is applied.               *)
Wins(l) == l.tag = saved

(* updateRoute: the registration and every mounted instance.               *)
Apply(l) ==
    /\ l.read # 0 /\ loads' = loads \ {l}
    /\ IF Wins(l)
       THEN /\ registered' = l.read
            /\ mount' = [i \in Builds |->
                   IF mount[i].at = "mounted" THEN [mount[i] EXCEPT !.def = l.read] ELSE mount[i]]
            /\ across' = {i \in Builds : mount[i].at = "building" \/ (i \in across /\ mount[i].at # "mounted")}
       ELSE UNCHANGED <<registered, mount, across>>
    /\ UNCHANGED <<saved, broken>>

(* A file that does not load is reported, and its tag stays claimed.       *)
Fail(l) ==
    /\ loads' = loads \ {l} /\ broken' = IF l.tag > broken THEN l.tag ELSE broken
    /\ UNCHANGED <<saved, registered, mount, across>>

(* mountInstance: the definition is taken before the instance is built,    *)
(* which is mounted once its loader has settled.                           *)
Begin(i) ==
    /\ mount[i].at = "no"
    /\ mount' = [mount EXCEPT ![i] = [at |-> "building", def |-> registered]]
    /\ UNCHANGED <<saved, loads, registered, across, broken>>

Mounted(i) ==
    /\ mount[i].at = "building"
    /\ mount' = [mount EXCEPT ![i].at = "mounted"]
    /\ UNCHANGED <<saved, loads, registered, across, broken>>

Next ==
    \/ Save
    \/ \E l \in loads : ReadFile(l) \/ Apply(l) \/ Fail(l)
    \/ \E i \in Builds : Begin(i) \/ Mounted(i)

Spec == Init /\ [][Next]_reloadVars
-----------------------------------------------------------------------------
(* "its def is the one on disk" (reload-serializer.ts:31): two saves may   *)
(* load in any order, and once nothing is loading the registration and the *)
(* mounted instances run what is on disk, unless the newest load failed;   *)
(* an instance that was being built at the swap keeps the definition it    *)
(* began with.                                                             *)
NewestDefinition ==
    (loads = {} /\ broken # saved) =>
        /\ registered = saved
        /\ \A i \in Builds : (mount[i].at = "mounted" /\ i \notin across) => mount[i].def = saved
=============================================================================
