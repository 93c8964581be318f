----------------------------- MODULE SlotMounts -----------------------------
(***************************************************************************)
(* The instances one page holds over its one connection: the page itself,  *)
(* swapped by navigation (packages/client/src/navigation.ts, app.tsx), and *)
(* the slots embedded in it (slot.tsx), both through the queue, the store  *)
(* table and the mount, release, url and resync messages of connection.ts, *)
(* down to the stream's set of joined instances in handler.ts.             *)
(*                                                                         *)
(* Abstraction.  An instance is named by its path: the identity is the key *)
(* and the warm TTL is longer than a behaviour here (Registry has the      *)
(* eviction).  A mount, of a slot or of a page, is named by its number,    *)
(* and so is the store it registers; 0 is the page the server rendered.    *)
(* The envelopes of a joined instance reach the stores bound to it at any  *)
(* time (LiveSync has how); a deny is the one that matters here.  Props    *)
(* are a value.                                                            *)
(***************************************************************************)
EXTENDS Naturals, Sequences, FiniteSets, SequencesExt, Filter

CONSTANTS
    Slots,       \* LiveSlot elements
    Page,        \* the page: the owner of a remount
    Paths,       \* identities; also their instances
    Home,        \* the path of the rendered page
    Props,       \* props records, in canonical form
    Transports,  \* those to consider of "sse" and "ws"
    Budgets      \* bounds to consider: how many slot mounts, changes of
                 \* location, changes of a slot's props, denied or failed
                 \* mounts and patches, and dropped streams

(* What the constants are assumed to be.                                   *)
SlotConstantsOK ==
    /\ Page \notin Slots /\ Home \in Paths /\ Props # {}
    /\ Transports \subseteq {"sse", "ws"}
    /\ Budgets \subseteq [mount : Nat, nav : Nat, patch : Nat, deny : Nat, drop : Nat]

VARIABLES
    transport,
    mount,     \* the mounts made: owner, path, props, ticket, stage, `live`,
               \* the store of the handle, the props last sent
    releases,  \* #pendingReleases: the mounts whose handle was released
    bound,     \* #stores: the registered stores
    sink,      \* #denySinks: a store to the mount whose onDeny it calls
    told,      \* #slotProps: an instance to the props the server was told
    primary,   \* #primaryStore
    shown,     \* the page stores a navigation has seen confirmed
    screen,    \* current.pathname
    location, ticket,
    runs,      \* the remounts in order; #remountRunId is the last
    link,      \* the stream: "down", "opening", "open"
    frames,    \* messages on the socket, in order
    posts,     \* requests on their way, a bag
    back,      \* answers to requests, and denies on the socket
    built,     \* instances of the session
    joined,    \* `unsubs` of this stream
    named,     \* whether streamRegistry has this stream's id
    aborts,    \* dropped streams whose abort has not fired
    joining,   \* mount frames at an await: mounts
    heard,     \* per instance: the props the server last heard
    missed,    \* history: stores nobody will join (see JoinedOnSockets)
    loose,     \* history: instances told of props out of order, or in vain
    left       \* what is left of the budget

pageVars == <<primary, shown, screen, location, ticket, runs>>
table == <<bound, sink, told>>
server == <<built, joined, named, aborts, joining, heard>>
wire == <<link, frames, posts, loose, back>>
sent == <<frames, posts, loose>>
slotVars == <<transport, mount, releases, table, pageVars, wire, server, missed, left>>

Issued == DOMAIN mount
PathOf(s) == IF s = 0 THEN Home ELSE mount[s].path
StoresOf(p) == {s \in bound : PathOf(s) = p}
InStage(st) == {m \in Issued : mount[m].stage = st}
Owned(c) == {m \in Issued : mount[m].by = c}
Queued == InStage("queued")
InOrder(ms) == Only([n \in 1 .. Len(mount) |-> n], ms)
Use(what) == left[what] > 0 /\ left' = [left EXCEPT ![what] = @ - 1]

(* No microtask is waiting: the queues are drained and promises resumed.   *)
Idle == Queued = {} /\ releases = <<>> /\ InStage("settled") = {}

SlotInit ==
    /\ transport \in Transports
    /\ mount = <<>> /\ releases = <<>>
    /\ bound = {0} /\ sink = <<>> /\ told = <<>> /\ shown = {0}
    /\ primary = 0 /\ screen = Home /\ location = Home /\ ticket = 0
    /\ runs = <<>>
    /\ link = "down" /\ frames = <<>> /\ posts = EmptyBag /\ back = {}
    /\ built = {Home} /\ joined = {} /\ named = FALSE /\ aborts = 0
    /\ joining = {} /\ heard = <<>> /\ missed = {} /\ loose = {}
    /\ left \in Budgets

Put(f, k, v) == [x \in DOMAIN f \cup {k} |-> IF x = k THEN v ELSE f[x]]
Drop(f, ks) == [x \in DOMAIN f \ ks |-> f[x]]

(* Each mount in its order notes its props, so the last of an instance     *)
(* stays.                                                                  *)
Noted(f, ms) ==
    LET of(p) == {m \in ms : mount[m].path = p}
    IN  [p \in DOMAIN f \cup {mount[m].path : m \in ms} |->
            IF of(p) = {} THEN f[p] ELSE mount[Max(of(p))].props]

NewMount(c, p, pr, st) ==
    [by |-> c, path |-> p, props |-> pr, my |-> ticket', stage |-> st,
     live |-> TRUE, store |-> 0, sent |-> pr]

-----------------------------------------------------------------------------
(* Messages *)

OnSocket == transport = "ws" /\ link = "open"

Msg(kind, p, pr) == [kind |-> kind, path |-> p, props |-> pr, ms |-> {}]
ReleaseMsg(p) == Msg("release", p, {})
Url(p, pr) == Msg("url", p, {pr})
(* #mountRequest, #mountBatchRequest: one request for the mounts of a tick.*)
MountPost(ms) == [kind |-> "mount", path |-> Home, props |-> {}, ms |-> ms]

(* #flushRelease, once for each instance nobody has a store of any more.   *)
Releases(ps) == [i \in 1 .. Cardinality(ps) |-> ReleaseMsg(SetToSeq(ps)[i])]

(* #control, #sendUrl: over the socket when it is open, else as requests.  *)
(* A mount is always a request.  A request for a snapshot joins nothing    *)
(* and is not followed further.                                            *)
Send(msgs) ==
    LET framed == {x \in Range(msgs) : OnSocket /\ x.kind # "mount"}
        asked == {i \in DOMAIN msgs : msgs[i] \notin framed}
        kept == {i \in asked : msgs[i].kind # "resync"}
    IN /\ frames' = frames \o Only(msgs, framed)
       /\ posts' = [x \in DOMAIN posts \cup {msgs[i] : i \in kept} |->
                       (IF BagIn(x, posts) THEN posts[x] ELSE 0)
                           + Cardinality({i \in kept : msgs[i] = x})]
       /\ loose' = loose \cup {msgs[i].path : i \in {k \in asked : msgs[k].kind # "mount"}}

(* The frame that joins a mounted instance to the socket.  Without an open *)
(* socket a request for a snapshot goes instead (#buildSlotHandle, remount)*)
JoinMsg(m) ==
    IF OnSocket
    THEN [kind |-> "frame", path |-> mount[m].path, props |-> {mount[m].props}, ms |-> {m}]
    ELSE Msg("resync", mount[m].path, {})

(* The server has subscribed the socket, the page does not know it is open.*)
Missing(m) == IF transport = "ws" /\ link = "opening" THEN {m} ELSE {}

-----------------------------------------------------------------------------
(* LiveSlot *)

(* The mount effect: the call is queued for the microtask.                 *)
MountSlot(c, p, pr) ==
    /\ InStage("settled") = {} /\ Use("mount")
    /\ \A m \in Owned(c) : ~mount[m].live
    /\ ticket' = ticket
    /\ mount' = Append(mount, NewMount(c, p, pr, "queued"))
    /\ UNCHANGED <<transport, releases, table, primary, shown, screen, location, runs, wire, server, missed>>

(* Its cleanup: an unmount, or the old identity of a slot whose params     *)
(* changed.                                                                *)
Unmount(m) ==
    /\ InStage("settled") = {}
    /\ mount[m].by # Page /\ mount[m].live
    /\ LET held == mount[m].stage = "held" IN
         /\ mount' = [mount EXCEPT ![m].live = FALSE,
                                   ![m].stage = IF held THEN "over" ELSE @]
         /\ releases' = IF held THEN Append(releases, m) ELSE releases
    /\ UNCHANGED <<transport, table, pageVars, wire, server, missed, left>>

(* The continuation of mountSlot.  A superseded mount releases itself.     *)
Resume(m) ==
    /\ mount[m].stage = "settled"
    /\ IF mount[m].live
       THEN /\ mount' = [mount EXCEPT ![m].stage = "held"]
            /\ sink' = Put(sink, mount[m].store, m)
            /\ UNCHANGED releases
       ELSE /\ mount' = [mount EXCEPT ![m].stage = "over"]
            /\ releases' = Append(releases, m)
            /\ UNCHANGED sink
    /\ UNCHANGED <<transport, bound, told, pageVars, wire, server, missed, left>>

(* sendIfChanged after a commit: patchProps of the handle, if the props    *)
(* differ from those last sent.                                            *)
Patch(m, pr) ==
    /\ Idle /\ mount[m].by # Page /\ mount[m].stage = "held"
    /\ pr # mount[m].sent
    /\ Use("patch")
    /\ mount' = [mount EXCEPT ![m].sent = pr]
    /\ told' = Put(told, mount[m].path, pr)
    /\ Send(<<Url(mount[m].path, pr)>>)
    /\ UNCHANGED <<transport, releases, bound, sink, pageVars, link, back, server, missed>>

-----------------------------------------------------------------------------
(* The microtask of the connection: #flushSlotMounts *)

SamePath(seq, p) == Only(seq, {m \in Issued : mount[m].path = p})

(* The release a queued mount cancels: the n-th queued mount of a path     *)
(* takes the n-th pending release of it, if that store is registered.      *)
RelOf(m) ==
    LET nth == Cardinality({k \in Queued : k <= m /\ mount[k].path = mount[m].path})
        rels == SamePath(releases, mount[m].path)
    IN IF nth <= Len(rels) /\ mount[rels[nth]].store \in bound THEN {rels[nth]} ELSE {}
Rebound == {m \in Queued : RelOf(m) # {}}
(* Mutant: the release of a cancelled pair goes out all the same.          *)
CancelledNone == {}
Cancelled == UNION {RelOf(m) : m \in Queued}
StoreKept(m) == mount[CHOOSE r \in RelOf(m) : TRUE].store

(* #rebindCancelledPair: one url patch where the props differ from what    *)
(* the server was told, or by the rebind before this one of the instance.  *)
Stale ==
    LET before(m) == {k \in Rebound : k < m /\ mount[k].path = mount[m].path}
        known(m) == IF before(m) = {} THEN told[mount[m].path]
                    ELSE mount[Max(before(m))].props
    IN  {m \in Rebound : mount[m].props # known(m)}
RebindUrls ==
    [i \in 1 .. Len(InOrder(Stale)) |->
        LET m == InOrder(Stale)[i] IN Url(mount[m].path, mount[m].props)]

(* Mutant: the props baseline is left behind.                              *)
ToldAfterNot(ms) == told
ToldAfter(ms) == Noted(told, ms)

(* Mutant: the first store to go takes the instance with it.               *)
FreedEager(gone) == {PathOf(s) : s \in gone}
(* #flushRelease: a wire release when the last store of an instance goes.  *)
Freed(gone) == {PathOf(s) : s \in gone} \ {PathOf(s) : s \in bound \ gone}

FlushSlots ==
    /\ InStage("settled") = {} /\ (Queued # {} \/ releases # <<>>)
    /\ LET gone == {mount[r].store : r \in Range(releases) \ Cancelled}
           freed == Freed(gone)
           asked == Queued \ Rebound
       IN /\ bound' = bound \ gone
          /\ sink' = Drop(sink, gone \cup {mount[r].store : r \in Cancelled})
          /\ told' = Drop(ToldAfter(Stale), freed)
          /\ mount' = [m \in Issued |->
                 IF m \in Rebound
                 THEN [mount[m] EXCEPT !.stage = "settled", !.store = StoreKept(m)]
                 ELSE IF m \in asked THEN [mount[m] EXCEPT !.stage = "posted"]
                 ELSE mount[m]]
          /\ releases' = <<>>
          /\ Send(RebindUrls \o Releases(freed)
                    \o (IF asked = {} THEN <<>> ELSE <<MountPost(asked)>>))
    /\ UNCHANGED <<transport, pageVars, link, back, server, missed, left>>

(* #settleSlotMount: a handle, or a redirect or an error for the caller.   *)
SettleSlotMount(m, ok) ==
    IF m \in ok THEN [mount[m] EXCEPT !.stage = "settled", !.store = m]
    ELSE [mount[m] EXCEPT !.stage = "over"]

(* #sendSurvivingMounts, after its await: each mount of the request on its *)
(* own.                                                                    *)
SettleSlots(ms, ok) ==
    /\ mount' = [m \in Issued |-> IF m \in ms THEN SettleSlotMount(m, ok) ELSE mount[m]]
    /\ bound' = bound \cup ok
    /\ told' = Noted(told, ok)
    /\ Send([i \in 1 .. Len(InOrder(ok)) |-> JoinMsg(InOrder(ok)[i])])
    /\ missed' = missed \cup UNION {Missing(m) : m \in ok}
    /\ UNCHANGED <<releases, sink, pageVars>>
-----------------------------------------------------------------------------
(* Navigation *)

(* claimNavigationTicket: the way back to the page on screen takes one too.*)
ClaimTicket == ticket' = ticket + 1

(* The effect of a change of location: a navigation, unless it leads back  *)
(* to the page on screen.                                                  *)
Navigate(p) ==
    /\ Idle /\ p # location
    /\ Use("nav")
    /\ location' = p /\ ClaimTicket
    /\ mount' = IF p = screen THEN mount
                ELSE Append(mount, NewMount(Page, p, CHOOSE pr \in Props : TRUE, "loading"))
    /\ UNCHANGED <<transport, releases, table, primary, shown, screen, runs, wire, server, missed>>

(* The route module has loaded: remount claims its run and asks.           *)
Loaded(m) ==
    /\ Idle /\ mount[m].stage = "loading"
    /\ mount' = [mount EXCEPT ![m].stage = "posted"]
    /\ runs' = Append(runs, m)
    /\ Send(<<MountPost({m})>>)
    /\ UNCHANGED <<transport, releases, table, primary, shown, screen, location, ticket,
                   link, back, server, missed, left>>

(* remount has returned; the navigation waits for the primary's snapshot.  *)
Awaits(m, s) == [mount EXCEPT ![m].stage = "waiting", ![m].store = s]

(* A remount overtaken by a newer one keeps its hands off the primary, and *)
(* releases its instance unless a store is bound to it.                    *)
Overtaken(m, ok) ==
    /\ Last(runs) # m
    /\ mount' = Awaits(m, primary)
    /\ Send(IF ok /\ StoresOf(mount[m].path) = {} THEN <<ReleaseMsg(mount[m].path)>> ELSE <<>>)
    /\ UNCHANGED <<bound, primary, missed>>

(* A deny or a failure of the newest: the navigation it asks for, or the   *)
(* reload, is a Navigate or the end of this page.                          *)
Denied(m, ok) ==
    /\ Last(runs) = m /\ ~ok
    /\ mount' = [mount EXCEPT ![m].stage = "over"]
    /\ UNCHANGED <<bound, primary, sent, missed>>

(* Mutant: whoever is answered last wins.                                  *)
SwapAlways(m, ok) ==
    /\ ok
    /\ LET gone == IF PathOf(primary) = mount[m].path THEN {} ELSE {primary}
           free == {p \in {PathOf(s) : s \in gone} : StoresOf(p) \ gone = {}}
       IN /\ bound' = (bound \cup {m}) \ gone
          /\ Send(<<JoinMsg(m)>> \o Releases(free))
    /\ primary' = m
    /\ mount' = Awaits(m, m)
    /\ missed' = missed \cup Missing(m)

(* The swap: bind the new primary, then drop the old one's store, and its  *)
(* instance if that was the last.                                          *)
Swap(m, ok) ==
    /\ Last(runs) = m /\ ok
    /\ LET gone == IF PathOf(primary) = mount[m].path THEN {} ELSE {primary}
           free == {p \in {PathOf(s) : s \in gone} : StoresOf(p) \ gone = {}}
       IN /\ bound' = (bound \cup {m}) \ gone
          /\ Send(<<JoinMsg(m)>> \o Releases(free))
    /\ primary' = m
    /\ mount' = Awaits(m, m)
    /\ missed' = missed \cup Missing(m)

SettlePage(m, ok) ==
    /\ Overtaken(m, ok) \/ Denied(m, ok) \/ Swap(m, ok)
    /\ UNCHANGED <<releases, sink, told, shown, screen, location, ticket, runs>>

(* The store has confirmed state, at once or with its snapshot.            *)
StateReady(s) == s \in shown \/ (s \in bound /\ PathOf(s) \in joined /\ link = "open")

(* performNavigation commits then, unless its ticket is out of date.  (The *)
(* effect runs again for the new page and claims a ticket for no one.)     *)
Commit(m) ==
    /\ Idle /\ mount[m].stage = "waiting"
    /\ StateReady(mount[m].store)
    /\ shown' = shown \cup {mount[m].store}
    /\ mount' = [mount EXCEPT ![m].stage = "over"]
    /\ screen' = IF mount[m].my = ticket THEN mount[m].path ELSE screen
    /\ UNCHANGED <<transport, releases, table, primary, location, ticket, runs,
                   wire, server, missed, left>>

-----------------------------------------------------------------------------
(* What reaches the page *)

(* #routeRedirect: the deny sinks of every store of the instance.  A slot  *)
(* whose sink fires releases its handle.  Without a sink it is the page's  *)
(* to navigate.                                                            *)
RouteRedirect(p) ==
    LET hit == {m \in {sink[s] : s \in StoresOf(p) \cap DOMAIN sink} :
                  mount[m].live /\ mount[m].stage = "held"}
    IN /\ mount' = [m \in Issued |-> IF m \in hit THEN [mount[m] EXCEPT !.stage = "over"]
                                     ELSE mount[m]]
       /\ releases' = releases \o InOrder(hit)

(* The answer to a request, or a deny envelope (#dispatchEnvelope).        *)
Receive(b) ==
    /\ Idle /\ b \in back /\ (b.kind = "deny" /\ b.socket => link = "open")
    /\ back' = back \ {b}
    /\ \/ b.kind = "slots" /\ SettleSlots(b.ms, b.ok)
       \/ b.kind = "page" /\ \E m \in b.ms : SettlePage(m, b.ok # {})
       \/ b.kind = "deny" /\ RouteRedirect(b.path)
          /\ UNCHANGED <<table, pageVars, sent, missed>>
    /\ UNCHANGED <<transport, link, server, left>>

-----------------------------------------------------------------------------
(* The server *)

(* handleControl, mount and mount-batch: each entry on its own.            *)
ServeMount(ok) ==
    /\ built' = built \cup {mount[m].path : m \in ok}
    /\ heard' = Noted(heard, ok)
    /\ joined' = IF transport = "sse" /\ named
                 THEN joined \cup {mount[m].path : m \in ok} ELSE joined

MountAnswer(ms, ok) ==
    [kind |-> IF \E m \in ms : mount[m].by = Page THEN "page" ELSE "slots",
     ms |-> ms, ok |-> ok]

(* The release control finds the stream by its id; on a socket it is the   *)
(* socket's own.                                                           *)
ServeRelease(p, socket) ==
    joined' = IF socket \/ (transport = "sse" /\ named) THEN joined \ {p} ELSE joined

(* A patch is reconciled; or denied, or refused, and changes nothing.      *)
ServeUrl(msg, socket) ==
    /\ heard' = Put(heard, msg.path, CHOOSE pr \in msg.props : TRUE)
    /\ \/ UNCHANGED <<back, left>>
       \/ /\ Use("deny")
          /\ back' = back \cup {[kind |-> "deny", path |-> msg.path, socket |-> socket]}

Serve(msg, socket) ==
    \/ /\ msg.kind = "mount"
       /\ \E ok \in SUBSET msg.ms :
            /\ IF ok = msg.ms THEN UNCHANGED left ELSE Use("deny")
            /\ ServeMount(ok)
            /\ back' = back \cup {MountAnswer(msg.ms, ok)}
       /\ UNCHANGED joining
    \/ /\ msg.kind = "frame"
       /\ joining' = joining \cup msg.ms
       /\ heard' = Put(heard, msg.path, CHOOSE pr \in msg.props : TRUE)
       /\ UNCHANGED <<built, joined, back, left>>
    \/ /\ msg.kind = "release"
       /\ ServeRelease(msg.path, socket)
       /\ UNCHANGED <<built, joining, heard, back, left>>
    \/ /\ msg.kind = "url"
       /\ ServeUrl(msg, socket)
       /\ UNCHANGED <<built, joined, joining>>

(* One copy of a request has arrived.                                      *)
OneLess(bag, msg) ==
    [x \in {y \in DOMAIN bag : y # msg \/ bag[y] > 1} |->
        IF x = msg THEN bag[x] - 1 ELSE bag[x]]

(* Requests arrive in any order, the messages of a socket in theirs.       *)
Arrive ==
    /\ Idle
    /\ \/ /\ frames # <<>>
          /\ Serve(Head(frames), TRUE)
          /\ frames' = Tail(frames) /\ UNCHANGED posts
       \/ \E msg \in BagToSet(posts) :
            /\ Serve(msg, FALSE)
            /\ posts' = OneLess(posts, msg) /\ UNCHANGED frames
    /\ UNCHANGED <<transport, mount, releases, table, pageVars, link, loose, named, aborts, missed>>

(* A mount frame after its await: the socket joins; or the mount is        *)
(* refused, denied or throttled, and nobody tells the store.               *)
JoinFrame(m) ==
    /\ Idle /\ m \in joining
    /\ joining' = joining \ {m}
    /\ \/ joined' = joined \cup {mount[m].path} /\ UNCHANGED <<missed, left>>
       \/ Use("deny") /\ missed' = missed \cup {m} /\ UNCHANGED joined
    /\ UNCHANGED <<transport, mount, releases, table, pageVars, wire, built, named, aborts, heard>>

(* subscribeSession: a stream joins every instance of the session.         *)
Connect ==
    /\ Idle /\ link = "down"
    /\ link' = "opening"
    /\ joined' = built
    /\ named' = (transport = "sse")
    /\ UNCHANGED <<transport, mount, releases, table, pageVars, sent, back, built, aborts,
                   joining, heard, missed, left>>

Opened ==
    /\ Idle /\ link = "opening"
    /\ link' = "open"
    /\ UNCHANGED <<transport, mount, releases, table, pageVars, sent, back, server, missed, left>>

(* The stream breaks.  The server is told of an SSE stream's end later.    *)
Break ==
    /\ Idle /\ link # "down"
    /\ Use("drop")
    /\ link' = "down"
    /\ loose' = loose \cup {x.path : x \in Range(frames)}
    /\ frames' = <<>> /\ back' = {b \in back : b.kind = "deny" => ~b.socket}
    /\ joining' = {} /\ joined' = {}
    /\ missed' = missed \ bound
    /\ aborts' = IF transport = "sse" THEN aborts + 1 ELSE aborts
    /\ UNCHANGED <<transport, mount, releases, table, pageVars, posts, built, named, heard>>

(* The abort of a dropped stream takes the id's entry out of the registry, *)
(* whoever holds it by now (unregisterStream).                             *)
Abort ==
    /\ Idle /\ aborts > 0
    /\ aborts' = aborts - 1
    /\ named' = FALSE
    /\ UNCHANGED <<transport, mount, releases, table, pageVars, wire, built, joined,
                   joining, heard, missed, left>>
-----------------------------------------------------------------------------
SlotNext ==
    \/ \E c \in Slots, p \in Paths, pr \in Props : MountSlot(c, p, pr)
    \/ \E p \in Paths : Navigate(p)
    \/ \E m \in Issued :
         \/ Unmount(m) \/ Resume(m) \/ Loaded(m) \/ Commit(m) \/ JoinFrame(m)
         \/ \E pr \in Props : Patch(m, pr)
    \/ \E b \in back : Receive(b)
    \/ FlushSlots \/ Arrive
    \/ Connect \/ Opened \/ Break \/ Abort

SlotSpec == SlotInit /\ [][SlotNext]_slotVars
-----------------------------------------------------------------------------
(* Properties *)

(* Nothing is on its way between the page and the server.                  *)
WireQuiet == Idle /\ link = "open" /\ frames = <<>> /\ posts = EmptyBag /\ back = {} /\ joining = {}

(* "One wire `release` at zero client refs is exactly right"               *)
(* (connection.ts:832): a store the page keeps is on an instance the       *)
(* stream has joined, so that envelopes reach it.                          *)
BoundIsJoined == WireQuiet => \A s \in bound : PathOf(s) \in joined

(* Over a socket that is so, the release and the join being messages of    *)
(* one order, but for a store bound while the socket was opening, or whose *)
(* join frame was refused (buildSlotHandle, remount, #flushRelease).       *)
JoinedOnSockets == transport = "ws" /\ WireQuiet => \A s \in bound \ missed : PathOf(s) \in joined

(* A slot on screen has a registered store of its identity, and the deny   *)
(* sink of that store is its own: two mounts of one identity do not share  *)
(* one, and a remount that took over a store took its sink with it         *)
(* (#flushSlotMounts, #rebindCancelledPair, LiveSlot).                     *)
HandleOwned ==
    Idle => \A m \in InStage("held") :
        /\ mount[m].store \in bound
        /\ PathOf(mount[m].store) = mount[m].path
        /\ mount[m].store \in DOMAIN sink /\ sink[mount[m].store] = m

(* No store outlives its use: what is registered is the primary, or the    *)
(* store of a slot on screen or about to be, or an old primary whose       *)
(* instance was mounted again (remount, #deregisterStore).                 *)
StoresUsed ==
    Idle => \A s \in bound \ {primary} :
        \/ \E m \in InStage("held") : mount[m].store = s
        \/ (s = 0 \/ mount[s].by = Page) /\ \E t \in Range(runs) : PathOf(t) = PathOf(s)

(* Handles and stores match, both ways.                                    *)
StoresMatchHandles == HandleOwned /\ StoresUsed

(* What the page takes for the props the server last heard is that, so a   *)
(* remount that takes over a store patches exactly when it must; unless    *)
(* a store was bound or a patch sent without a socket, when answers and    *)
(* requests overtake each other; one was lost with the socket, for         *)
(* nobody repeats it; or a page was mounted on the instance (#slotProps,   *)
(* #rebindCancelledPair).                                                  *)
GivenIsTold ==
    transport = "ws" /\ WireQuiet =>
        \A p \in DOMAIN told \ (loose \cup {mount[m].path : m \in Owned(Page)}) :
            heard[p] = told[p]

(* Navigation has come to rest.                                            *)
Settled == Idle /\ \A m \in Owned(Page) : mount[m].stage = "over"

(* When the newest navigation is also the newest remount and is not denied *)
(* its page is on screen and its store is primary, whatever older answers  *)
(* come late.  The ticket guards the commit, the run tag the swap.         *)
NewestWins ==
    Settled /\ runs # <<>> =>
        LET m == Last(runs) IN
        mount[m].my = ticket /\ mount[m].store # 0 => primary = m /\ screen = mount[m].path
=============================================================================
