----------------------------- MODULE MCServices -----------------------------
(***************************************************************************)
(* The services on small instances, for TLC; and, beside them, requests    *)
(* that meet on one instance: page loads and controls that reconcile it    *)
(* (Reconcile), or the calls of a page over requests, of which one may be  *)
(* lost and an ack forgotten (LiveSync).  These share no variable, so a    *)
(* behaviour is of one of them: `of` says which, and the others rest in an *)
(* initial state.                                                          *)
(***************************************************************************)
EXTENDS Services, MCReconcile, LiveSync

VARIABLE of

allOf == <<of, allVars, vars, syncVars>>

RestingServices == part = "rate" /\ clock = CHOOSE t \in Times : TRUE
RestingReconcile == loader[First] = "over" /\ wrote

SideInit ==
    /\ of \in {"services", "reconcile", "sync"}
    /\ ServicesInit /\ (of # "services" => RestingServices)
    /\ Init /\ (of # "reconcile" => RestingReconcile)
    /\ SyncInit

(* Bound: of a process that has met what RowFollowsInstance exempts, only  *)
(* the crash and the restart are looked at.                                *)
Exempt == part = "rows" /\ late

(* Bound: a page that is closed is not followed any further.               *)
Followed == \A p \in Pages : document[p] # "closed"

SideNext ==
    \/ of = "services" /\ ServicesNext /\ UNCHANGED <<of, vars, syncVars>>
       /\ (Exempt => "down" \in {proc, proc'})
    \/ of = "reconcile" /\ Next /\ UNCHANGED <<of, allVars, syncVars>>
    \/ of = "sync" /\ Followed /\ SyncNext /\ UNCHANGED <<of, allVars, vars>>

SideSpec == SideInit /\ [][SideNext]_allOf
-----------------------------------------------------------------------------

(* Requests of every kind, with bodies good and bad. *)
Kinds(planes, origins, news, bodies, sizes) ==
    [plane : planes, sameOrigin : origins, isNew : news, body : bodies, size : sizes]

SomeInputs ==
    Kinds({"rpc"}, {TRUE}, {FALSE}, {"good", "over", "garbled", "odd"}, {0})
    \cup Kinds({"page"}, {TRUE}, {TRUE}, {"good"}, {1})
    \cup Kinds({"route"}, BOOLEAN, {TRUE}, {"good"}, {1})
    \cup Kinds({"batch"}, {TRUE}, {TRUE}, {"good"}, {0, 2, 3})
    \cup Kinds({"batch"}, {TRUE}, {FALSE}, {"good", "odd"}, {1})
    \cup Kinds({"mount"}, {TRUE}, {TRUE}, {"good", "odd"}, {1})
    \cup Kinds({"release", "resync"}, {TRUE}, {FALSE}, {"good"}, {0})
    \cup Kinds({"url"}, {TRUE}, {FALSE}, {"good", "odd"}, {0})
    \cup Kinds({"stream"}, BOOLEAN, {TRUE}, {"good"}, {0})
    \cup Kinds({"other"}, {TRUE}, {TRUE}, {"good"}, {0})

(* Of three subscribers of a topic two are on one node. *)
TwoNodes == <<"n", "n", "o">>

Node(kind) == [kind |-> kind, binds |-> FALSE]
Binding(kind) == [kind |-> kind, binds |-> TRUE]
UseIn(step, path) == [step |-> step, path |-> path]

(* The import is used in the first step only, by a local of its name, by a *)
(* computed name, by a decorator of a parameter, or by the client's code.  *)
InFirst == UseIn(1, <<Node("function")>>)
Shadowed == {InFirst, UseIn(0, <<Node("block"), Binding("function")>>),
             UseIn(0, <<Binding("block"), Node("function")>>)}
Computed == {InFirst, UseIn(0, <<Node("name"), Binding("function")>>)}
Decorated == {InFirst, UseIn(0, <<Node("other"), Node("decorator"), Node("parameter"),
                                  Binding("function"), Node("block")>>)}
Shared == {InFirst, UseIn(0, <<Node("function")>>)}
OfTwo == {InFirst, UseIn(3, <<Node("function")>>)}

Module(calls, pattern, uses) ==
    [calls |-> calls, exported |-> TRUE, pattern |-> pattern,
     chain |-> <<"server", "kept", "server">>, uses |-> uses]
Bare(m) == [m EXCEPT !.chain = <<"kept">>]
Broken(m) == [m EXCEPT !.chain = <<"server", "break", "server">>]
Unstripped(m) == [m EXCEPT !.chain = <<"break", "server">>]

(* Two pages and two http routes that claim one path, two modules outside  *)
(* routes, and one that only an include glob brings in.                    *)
FilePlace == <<"routes", "routes", "source", "source", "excluded", "routes", "routes">>
FileKind == <<"page", "page", "none", "none", "none", "http", "http">>
FileUrl == <<"/a", "/a", "none", "none", "none", "/h", "/h">>
None == [calls |-> 0]
FileContents == <<
    {Module(1, "/a", {InFirst}), Module(1, "/b", Shared), Bare(Module(2, "/a", {})), None},
    {Module(1, "/a", Decorated)},
    {Bare(Module(1, "/a", {})), Module(1, "/b", Computed), None,
     [Module(1, "/b", {}) EXCEPT !.exported = FALSE]},
    {Broken(Module(1, "/b", OfTwo)), Module(2, "/b", {})},
    {Module(1, "/b", Shadowed), Unstripped(Module(1, "/c", {}))},
    {Module(1, "/x", {}), None},
    {Module(1, "/h", {})}>>
=============================================================================
