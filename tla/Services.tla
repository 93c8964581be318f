------------------------------ MODULE Services ------------------------------
(***************************************************************************)
(* The services around the live objects, side by side.  Their modules      *)
(* share no variable, so a behaviour is of one of them: `part` says which, *)
(* and the others rest in one of their initial states.  Of the principals  *)
(* it does not matter which one is logged in first.                        *)
(***************************************************************************)
EXTENDS RateLimit

CONSTANTS
    Requests, Inputs, Burst, MaxBatch,               \* of Ingress
    Streams, Sources, Budget, Sizes, MaxSends,       \* of Egress
    Insts, Principals, MaxSeq,                       \* of Persistence
    Listeners, Home, Entries, Messages,              \* of Bus
    Files, Place, Kind, Url, Contents, MaxEdits,     \* of Boot
    Builds, MaxSaves                                 \* of Reload

VARIABLES
    part,
    rq, tokens, holder,
    conn, sends,
    adapter, row, entry, inst, login, proc, code, saving, owner, late,
    bus, current, channel, at, wire, message, heard,
    include, disk, gen, waiting, dev, bundle, prod, edits, stale,
    saved, loads, registered, mount, across, broken

In == INSTANCE Ingress
Out == INSTANCE Egress
Rows == INSTANCE Persistence
Topic == INSTANCE Bus WITH Insts <- Listeners, link <- wire
Tree == INSTANCE Boot WITH pending <- waiting
Edit == INSTANCE Reload

ASSUME PipelineConstants == In!IngressConstantsOK
ASSUME StreamConstants == Out!EgressConstantsOK
ASSUME RowConstants == Rows!PersistConstantsOK
ASSUME TopicConstants == Topic!BusConstantsOK
ASSUME TreeConstants == Tree!BootConstantsOK

-----------------------------------------------------------------------------
ingressVars == <<rq, tokens, holder>>
egressVars == <<conn, sends>>
persistVars == <<adapter, row, entry, inst, login, proc, code, saving, owner, late>>
busVars == <<bus, current, channel, at, wire, message, heard>>
bootVars == <<include, disk, gen, waiting, dev, bundle, prod, edits, stale>>
reloadVars == <<saved, loads, registered, mount, across, broken>>
allVars == <<part, rateVars, ingressVars, egressVars, persistVars, busVars, bootVars, reloadVars>>

ServicesInit ==
    /\ part \in {"rate", "ingress", "egress", "rows", "bus", "boot", "reload"}
    /\ RateInit /\ (part # "rate" => clock = CHOOSE t \in Times : TRUE)
    /\ In!Init /\ (part # "ingress" => holder = "us")
    /\ Out!Init /\ (part # "egress" => \A s \in DOMAIN conn : conn[s].kind = "sse")
    /\ Rows!Init /\ login = (CHOOSE p \in Principals : TRUE) /\ (part # "rows" => adapter = "redis")
    /\ Topic!Init /\ (part # "bus" => bus = "local")
    /\ Tree!Init /\ (part # "boot" => ~include)
    /\ Edit!Init

ServicesNext ==
    \/ /\ part = "rate" /\ RateNext
       /\ UNCHANGED <<part, ingressVars, egressVars, persistVars, busVars, bootVars, reloadVars>>
    \/ /\ part = "ingress" /\ In!Next
       /\ UNCHANGED <<part, rateVars, egressVars, persistVars, busVars, bootVars, reloadVars>>
    \/ /\ part = "egress" /\ Out!Next
       /\ UNCHANGED <<part, rateVars, ingressVars, persistVars, busVars, bootVars, reloadVars>>
    \/ /\ part = "rows" /\ Rows!Next
       /\ UNCHANGED <<part, rateVars, ingressVars, egressVars, busVars, bootVars, reloadVars>>
    \/ /\ part = "bus" /\ Topic!Next
       /\ UNCHANGED <<part, rateVars, ingressVars, egressVars, persistVars, bootVars, reloadVars>>
    \/ /\ part = "boot" /\ Tree!Next
       /\ UNCHANGED <<part, rateVars, ingressVars, egressVars, persistVars, busVars, reloadVars>>
    \/ /\ part = "reload" /\ Edit!Next
       /\ UNCHANGED <<part, rateVars, ingressVars, egressVars, persistVars, busVars, bootVars>>

ServicesSpec == ServicesInit /\ [][ServicesNext]_allVars
-----------------------------------------------------------------------------
(* What each of them promises: see its module. *)

(* An answer says what became of the request (Ingress).                    *)
AnswersAreTrue == part = "ingress" => In!AnswersAreTrue
(* Slow, killed and gone clients cost little (Egress).                     *)
StreamsCostLittle == part = "egress" => Out!StreamsCostLittle
(* The stored row is of the instance it should be of (Persistence).        *)
RowFollowsInstance == part = "rows" => Rows!RowFollowsInstance
(* The listeners redis keeps are those in use (Bus).                       *)
SubscriptionsUsed == part = "bus" => Topic!SubscriptionsUsed
(* Both servers serve what the files on disk say (Boot).                   *)
TablesFollowDisk == part = "boot" => Tree!TablesFollowDisk
(* The client gets no server-only step and no import too few (Boot).       *)
ClientIsStripped == part = "boot" => Tree!ClientIsStripped
(* Once nothing is loading, what is registered is on disk (Reload).        *)
NewestDefinition == part = "reload" => Edit!NewestDefinition
=============================================================================
