-------------------------------- MODULE Boot --------------------------------
(***************************************************************************)
(* From the files of an app to the tables of a running server: codegen and *)
(* the watcher of the Vite plugin (vite-plugin/src: scanRoutes,            *)
(* scanLiveModules, ensurePathLiteral, runCodegen, stripLiveModule), and   *)
(* the three that use them: createDevServer, buildApp and startApp         *)
(* (cli/src), with the checks of createRpxdHandler.                        *)
(*                                                                         *)
(* Abstraction.  A file is what a scan sees of it: its place, the path and *)
(* the kind its name gives, how many live() calls it has, whether the      *)
(* object is the default export, its pattern, the steps chained to the     *)
(* call, and the uses of an import only the server can load.  Files are    *)
(* numbered in the order of their names.  A bundle holds what its          *)
(* generated modules import.                                               *)
(***************************************************************************)
EXTENDS Naturals, Sequences, FiniteSets, FiniteSetsExt

CONSTANTS
    Files,
    Place,     \* "routes", "below" it, "source", "excluded" by a glob, or in
               \* a directory the walk "prunes"
    Kind,      \* of a file in routes: "page", "http" or "shell"
    Url,       \* the path its name gives, or which shell
    Contents,  \* what may be in each file, Absent if it is not there
    MaxEdits   \* bound: files saved

VARIABLES
    include,  \* whether the user's globs bring back what others exclude
    disk,     \* what is in each file
    gen,      \* the generated tables
    pending,  \* whether the watcher has an event to handle
    dev,      \* the dev server: its state and its tables
    bundle,   \* the tables of the last build, {} before the first
    prod,     \* the production server
    edits,    \* how many files were saved
    stale     \* history: of "gen", "dev", "bundle" and "prod", those made
              \* before the last save

bootVars == <<include, disk, gen, pending, dev, bundle, prod, edits, stale>>

Absent == [calls |-> 0]
Nothing == [pages |-> {}, https |-> {}, shells |-> {}, slots |-> {}]
Off == [state |-> "off", tables |-> Nothing]

(* The files are finitely many and numbered, what a scan sees of one that  *)
(* is there has these fields, and the steps of a chain and the nodes       *)
(* around a use are in a sequence.                                         *)
BootConstantsOK ==
    /\ Files \subseteq Nat /\ IsFiniteSet(Files)
    /\ \A f \in Files : \A c \in Contents[f] :
          \/ c = Absent
          \/ /\ c = [calls |-> c.calls, exported |-> c.exported, pattern |-> c.pattern,
                     chain |-> c.chain, uses |-> c.uses]
             /\ c.chain \in Seq({"server", "kept", "break"})
             /\ \A use \in c.uses : use.path \in Seq([kind : STRING, binds : BOOLEAN])

There(d, f) == d[f] # Absent
RouteFiles(d, kind) ==
    {f \in Files : Place[f] = "routes" /\ There(d, f) /\ Kind[f] = kind}

(* A table is a set of pairs; of several files for one key, the first or   *)
(* the last one wins.                                                      *)
TableOf(fs, key, wins) ==
    {<<k, LET same == {f \in fs : key[f] = k} IN IF wins = "first" THEN Min(same) ELSE Max(same)>>
        : k \in {key[f] : f \in fs}}
PatternOf(d) == [f \in Files |-> IF There(d, f) THEN d[f].pattern ELSE ""]

-----------------------------------------------------------------------------
(* Codegen *)

(* ensurePathLiteral: in a routed file the name is the truth, and the      *)
(* literal is rewritten to it.                                             *)
Maintained(d) ==
    [f \in Files |-> IF f \in RouteFiles(d, "page") \cup RouteFiles(d, "http")
                     THEN [d[f] EXCEPT !.pattern = Url[f]] ELSE d[f]]

(* scanLiveModules: the modules outside routes.  An include glob does not  *)
(* reach into a pruned directory.                                          *)
Scanned(d, inc) ==
    {f \in Files : There(d, f) /\ (Place[f] = "source" \/ (inc /\ Place[f] = "excluded"))}

(* LiveScanError, assertNoUnionConflicts: one exported live object in each *)
(* module, and no pattern claimed twice.                                   *)
ScanFails(d, inc) ==
    \E f \in Scanned(d, inc) :
       \/ d[f].calls > 1 \/ ~d[f].exported
       \/ \E g \in Scanned(d, inc) \ {f} : d[g].pattern = d[f].pattern
       \/ \E g \in RouteFiles(d, "page") : Url[g] = d[f].pattern

Slots(d, inc) == TableOf(Scanned(d, inc), PatternOf(d), "last")

(* The generated modules are object literals, whose last key wins; of the  *)
(* shells the first file is taken.                                         *)
Generated(d, inc) ==
    [pages |-> TableOf(RouteFiles(d, "page"), Url, "last"),
     https |-> TableOf(RouteFiles(d, "http"), Url, "last"),
     shells |-> TableOf(RouteFiles(d, "shell"), Url, "first"),
     slots |-> Slots(d, inc)]

(* runCodegen rewrites the literals, then scans; it throws before it has   *)
(* written any table.                                                      *)
Codegen ==
    /\ disk' = Maintained(disk)
    /\ gen' = IF ScanFails(disk', include) THEN gen ELSE Generated(disk', include)

(* isRouteFilePath, isLiveScanCandidate: the files whose events run        *)
(* codegen, and whose code the client gets stripped.                       *)
Watched(f) ==
    Place[f] \in {"routes", "below", "source"} \/ include

(* A developer saves, creates or deletes a file.                           *)
Save(f) ==
    /\ edits < MaxEdits /\ edits' = edits + 1
    /\ \E c \in Contents[f] \ {disk[f]} : disk' = [disk EXCEPT ![f] = c]
    /\ pending' = (pending \/ (dev.state = "up" /\ Watched(f)))
    /\ stale' = {"gen", "dev", "bundle", "prod"}
    /\ UNCHANGED <<include, gen, dev, bundle, prod>>

(* onFileEvent: a scan that fails is reported and changes nothing; what    *)
(* codegen rewrites is an event again.                                     *)
Watch ==
    /\ dev.state = "up" /\ pending
    /\ Codegen /\ pending' = (disk' # disk)
    /\ stale' = IF ScanFails(disk', include) THEN stale ELSE stale \ {"gen"}
    /\ UNCHANGED <<include, dev, bundle, prod, edits>>

-----------------------------------------------------------------------------
(* The servers *)

(* createRpxdHandler: no pattern of two registrations.                     *)
Refused(patterns) == \E p, q \in patterns : p # q /\ p[1] = q[1]

(* createDevServer registers every route file it finds, and does its own   *)
(* scan with no globs of the user; an http route is found by its path, the *)
(* first of two, and a later shell replaces an earlier one.                *)
DevTables(d) ==
    [pages |-> {<<Url[f], f>> : f \in RouteFiles(d, "page")},
     https |-> TableOf(RouteFiles(d, "http"), Url, "first"),
     shells |-> TableOf(RouteFiles(d, "shell"), Url, "last"),
     slots |-> Slots(d, FALSE)]

BootDev ==
    /\ dev.state # "up"
    /\ Codegen /\ pending' = FALSE
    /\ LET t == DevTables(disk')
           fails == ScanFails(disk', include) \/ ScanFails(disk', FALSE) IN
       /\ dev' = IF fails \/ Refused(t.pages \cup t.slots)
                 THEN [state |-> "refused", tables |-> Nothing]
                 ELSE [state |-> "up", tables |-> t]
       /\ stale' = (stale \ {"dev"}) \ (IF fails THEN {} ELSE {"gen"})
    /\ UNCHANGED <<include, bundle, prod, edits>>

(* Mutant: a build takes the tables it finds.                              *)
BuildFound ==
    /\ ~pending /\ bundle' = {gen} /\ stale' = stale \ {"bundle"}
    /\ UNCHANGED <<include, disk, gen, pending, dev, prod, edits>>
(* buildApp runs codegen first; when that throws, what was built stays.    *)
Build ==
    /\ ~pending /\ Codegen /\ pending' = (dev.state = "up" /\ disk' # disk)
    /\ IF ScanFails(disk', include) THEN UNCHANGED <<bundle, stale>>
       ELSE bundle' = {gen'} /\ stale' = stale \ {"bundle", "gen"}
    /\ UNCHANGED <<include, dev, prod, edits>>

(* startApp: the tables of the bundle; it refuses without one.             *)
Start ==
    /\ prod' = IF \E t \in bundle : ~Refused(t.pages \cup t.slots)
               THEN [state |-> "up", tables |-> CHOOSE t \in bundle : TRUE]
               ELSE [state |-> "refused", tables |-> Nothing]
    /\ stale' = IF "bundle" \in stale THEN stale \cup {"prod"} ELSE stale \ {"prod"}
    /\ UNCHANGED <<include, disk, gen, pending, dev, bundle, edits>>

Init ==
    /\ include \in BOOLEAN
    /\ disk = [f \in Files |-> Absent]
    /\ gen = Nothing /\ pending = FALSE /\ bundle = {}
    /\ dev = Off /\ prod = Off
    /\ edits = 0 /\ stale = {"gen", "dev", "bundle", "prod"}

Next == (\E f \in Files : Save(f)) \/ Watch \/ BootDev \/ Build \/ Start
Spec == Init /\ [][Next]_bootVars
-----------------------------------------------------------------------------
(* The client's copy of a module *)

(* The chain of a module: what follows its live() call outward, a "server" *)
(* step (setup, guard, load, on, or an rpc's handler), one the client      *)
(* keeps, or a "break", which is not a call of the chain: a parenthesis, a *)
(* variable.  A use of the import's name is in the argument of the server  *)
(* step `step`, or of none (0); `path` are the nodes around it, innermost  *)
(* first, and which of them bind the name.  A for and a catch are blocks.  *)
ServerSteps(m) == {k \in DOMAIN m.chain : m.chain[k] = "server"}

(* stripChain: it goes along the chain until that breaks.                  *)
Spans(m) == {k \in ServerSteps(m) : \A j \in 1 .. k : m.chain[j] # "break"}

(* isShadowedLocally: a decorator of a parameter is met at path[d], and    *)
(* the next function is skipped.                                           *)
Decorates(path, d) == path[d - 1].kind = "decorator" /\ path[d].kind = "parameter"
(* Mutant: the walk forgets that it has met one.                           *)
SkipsNone(path, k) == FALSE
Skips(path, k) ==
    /\ path[k].kind = "function"
    /\ \E d \in 2 .. k - 1 :
          Decorates(path, d) /\ \A j \in d + 1 .. k - 1 : path[j].kind # "function"

(* inParentOwnScope: neither a decorator nor a function's computed name is *)
(* in the scope of its parent.                                             *)
InParentOwnScope(path, k) ==
    k > 1 => /\ path[k - 1].kind # "decorator"
             /\ ~(path[k].kind = "function" /\ path[k - 1].kind = "name")

ScopeIntroduces(node) == node.binds /\ node.kind \in {"function", "block"}

ShadowedLocally(use) ==
    \E k \in DOMAIN use.path :
       ~Skips(use.path, k) /\ InParentOwnScope(use.path, k) /\ ScopeIntroduces(use.path[k])

(* removableNames: the import is removed when uses of it are, and all.     *)
ImportPruned(m) ==
    LET own == {u \in m.uses : ~ShadowedLocally(u)} IN
    own # {} /\ \A u \in own : u.step \in Spans(m)

(* transform, stripLiveModule: of a module with one live() call, and with  *)
(* something to strip, these steps become stubs.                           *)
Stripped(f) == Watched(f) /\ disk[f].calls = 1 /\ Spans(disk[f]) # {}
Removed(f) == IF Stripped(f) THEN Spans(disk[f]) ELSE {}

(* What JavaScript means by the name: a local, if a scope around the use   *)
(* binds it.  Computed names, decorators and decorators of parameters are  *)
(* evaluated before there is a scope of the function.                      *)
BeforeScope(path, k) ==
    /\ path[k].kind = "function"
    /\ \/ k > 1 /\ path[k - 1].kind \in {"name", "decorator"}
       \/ k > 2 /\ path[k - 1].kind = "parameter" /\ path[k - 2].kind = "decorator"
MeansLocal(use) ==
    \E k \in DOMAIN use.path : use.path[k].binds /\ ~BeforeScope(use.path, k)

-----------------------------------------------------------------------------
Twice(kind) ==
    \E f, g \in RouteFiles(disk, kind) : f # g /\ Url[f] = Url[g]
Ambiguous == Twice("page") \/ Twice("http") \/ Twice("shell")

(* "dev and prod share one code path" (strip.ts): from the same files, two *)
(* of which do not claim one path, both servers refuse or both serve the   *)
(* same modules under the same patterns; and while the dev server watches, *)
(* the generated tables and the literals are what the files on disk say,   *)
(* once its events are handled and the scan succeeds.                      *)
TablesFollowDisk ==
    /\ (~include /\ ~Ambiguous /\ {"dev", "prod"} \cap stale = {}
          /\ dev.state # "off" /\ prod.state # "off") => dev = prod
    /\ (dev.state = "up" /\ ~pending /\ ~ScanFails(disk, include)) =>
           gen = Generated(disk, include) /\ disk = Maintained(disk)

Registered(t) == {p[2] : p \in t.pages \cup t.slots}

(* "the set of modules registered/served as slots and the set stripped for *)
(* the client are computed identically" (index.ts:83): of a registered     *)
(* module with one live() call the client gets no server-only step, if the *)
(* chain does not break (stripChain stops where it does: README); and it   *)
(* keeps every import its code still means ("no false strips", strip.ts).  *)
ClientIsStripped ==
    "gen" \notin stale => \A f \in Registered(gen) : disk[f].calls = 1 =>
        /\ (\A k \in DOMAIN disk[f].chain : disk[f].chain[k] # "break")
              => ServerSteps(disk[f]) \subseteq Removed(f)
        /\ (Stripped(f) /\ ImportPruned(disk[f])) =>
               \A u \in disk[f].uses : u.step \notin Removed(f) => MeansLocal(u)
=============================================================================
