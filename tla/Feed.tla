-------------------------------- MODULE Feed --------------------------------
(***************************************************************************)
(* What a device shows of the community.  Two ways bring rows into its       *)
(* SQLite: the delta of POST /sync (backend sync.service.ts, the engine's    *)
(* flush), which gives it the rows of its user that changed since a mark,    *)
(* and the pages of GET /posts, a search or a detail (PostsController),      *)
(* which give it posts of anybody.  The feed on the screen is read from      *)
(* SQLite page by page.  Rows of the user are written meanwhile by other     *)
(* requests, and the listing of an author ends and is renewed.               *)
(*                                                                          *)
(* Abstractions: a post is its place in the order of createdAt and id; the   *)
(* content of a row is the number of its writes; messages stand for every    *)
(* collection that is only created; the device has nothing queued            *)
(* (SyncClient has the queue); the rows of a page are cached in one step;    *)
(* the feed is the sequence of its pages, each shown from the newest post.   *)
(***************************************************************************)
EXTENDS Naturals, Sequences, FiniteSets

CONSTANTS
    MaxPost,     \* posts: 1..MaxPost, from the oldest to the newest
    Mine,        \* the posts of the user of the device
    Message,     \* messages of the user's conversations
    PageLimit,   \* the limit of a page
    DeltaLimit,  \* SYNC_DELTA_LIMIT
    Mixes,       \* bound: what a behaviour mixes, see Part
    MaxTime,     \* bound: last millisecond of the server's clock
    MaxWrites,   \* bound: writes and deletions of the user's rows
    MaxTurns,    \* bound: changes of what is listed
    MaxLoads,    \* bound: refreshes, pages, lookups and flushes
    MaxFaults,   \* bound: failed calls and deaths of the app
    None

Part == {"flush", "write", "page", "look", "list"}
Post == 1..MaxPost
Row  == Post \cup Message

ASSUME FeedAssumption ==
    /\ MaxPost \in Nat /\ Mine \subseteq Post
    /\ Message \cap Nat = {}
    /\ PageLimit \in Nat \ {0} /\ DeltaLimit \in Nat \ {0}
    /\ Mixes \subseteq SUBSET Part
    /\ MaxTime \in Nat /\ MaxWrites \in Nat /\ MaxTurns \in Nat
    /\ MaxLoads \in Nat /\ MaxFaults \in Nat
    /\ None \notin Nat

VARIABLES
    \* the server
    ver,      \* posts and messages: Row -> number of writes, 0 when there is no row
    stamp,    \* updatedAt, createdAt of a message: Row -> Nat
    listed,   \* the posts whose author is activa or en_gracia
    writing,  \* writes that took their timestamp and have not committed
    now,      \* the clock of the server
    \* the device
    local,    \* SQLite: Row -> the write it shows, 0 when there is no row
    since,    \* sync_meta of the user: a server time or None
    pull,     \* the POST of SyncEngine.flush
    load,     \* the loads of PostsController: Load -> record
    feed,     \* PostsController.feed: the sets of posts of its pages
    page,     \* its feedCursor, _remoteCursor and _remoteExhausted; 0 is null
    \* history
    seen,     \* instants at which the server took the first and the last POST answered
    late,     \* rows committed after a pull that is dated after their stamp read them
    cut,      \* rows that did not fit in a delta
    old,      \* rows an answer in flight overwrote with an older write
    brought,  \* posts of the remote pages since the last refresh
    torn,     \* since it began another load overlapped, a page was not fetched, or it threw
    fresh,    \* the last refresh read the server, and nothing changed there since
    \* bounds
    mix, writes, turns, loads, faults

server  == <<ver, stamp, listed, writing, now>>
screen  == <<feed, page>>
sync    == <<since, pull, seen, late, cut>>
history == <<brought, torn, fresh>>
vars    == <<server, local, sync, load, screen, old, history, mix, writes, turns, loads, faults>>

Load == {"refresh", "again", "more", "look"}
Coll == {"posts", "messages"}
Rows(c) == IF c = "posts" THEN Mine ELSE Message

Resting == [pc |-> "idle", since |-> None, at |-> 0, began |-> 0, left |-> {}, got |-> {}, over |-> {}]
Waiting == [pc |-> "idle", cursor |-> 0, got |-> {}, next |-> 0]
Top     == [cursor |-> 0, remote |-> 0, exhausted |-> FALSE]

Init ==
    /\ mix \in Mixes
    /\ listed \in IF "list" \in mix THEN SUBSET Post ELSE {Post}
    /\ ver = [x \in Row |-> IF x \in Post \ Mine THEN 1 ELSE 0] /\ stamp = [x \in Row |-> 0]
    /\ writing = {} /\ now = 1
    /\ local = [x \in Row |-> 0] /\ since = None /\ pull = Resting
    /\ load = [l \in Load |-> Waiting] /\ feed = << >> /\ page = Top
    /\ seen = [first |-> 0, last |-> 0] /\ late = {} /\ cut = {} /\ old = {}
    /\ brought = {} /\ torn = FALSE /\ fresh = FALSE
    /\ writes = 0 /\ turns = 0 /\ loads = 0 /\ faults = 0

Fault == faults < MaxFaults /\ faults' = faults + 1
Begin(part) == part \in mix /\ loads < MaxLoads /\ loads' = loads + 1

----------------------------------------------------------------------------
(* The server: writes of the user's rows from elsewhere, and the listing *)

Tick ==
    /\ "write" \in mix /\ now < MaxTime /\ now' = now + 1
    /\ UNCHANGED <<ver, stamp, listed, writing, local, sync, load, screen, old, history,
                   mix, writes, turns, loads, faults>>

\* The row of a create or an update gets its date before it is committed.
Stamp(x) ==
    /\ "write" \in mix /\ writes < MaxWrites /\ writes' = writes + 1
    /\ x \in Mine \/ ver[x] = 0          \* a message is written once
    /\ \A w \in writing : w.row # x
    /\ writing' = writing \cup {[row |-> x, stamp |-> now]}
    /\ UNCHANGED <<ver, stamp, listed, now, local, sync, load, screen, old, history,
                   mix, turns, loads, faults>>

\* A pull that began no sooner than the stamp has already read the collection of the row.
Missed(w) ==
    \/ w.stamp <= seen.last
    \/ /\ pull.pc \in {"reading", "apply", "mark"} /\ w.stamp <= pull.began
       /\ \E c \in Coll \ pull.left : w.row \in Rows(c)

Commit(w) ==
    /\ w \in writing /\ writing' = writing \ {w}
    /\ ver' = [ver EXCEPT ![w.row] = @ + 1]
    /\ stamp' = [stamp EXCEPT ![w.row] = w.stamp]
    /\ late' = IF Missed(w) THEN late \cup {w.row} ELSE late \ {w.row}
    /\ fresh' = FALSE
    /\ UNCHANGED <<listed, now, local, since, pull, seen, cut, load, screen, old, brought, torn,
                   mix, writes, turns, loads, faults>>

\* The subscription of the author lapses or is paid again, or somebody posts.
Relist(p) ==
    /\ "list" \in mix /\ turns < MaxTurns /\ turns' = turns + 1
    /\ listed' = IF p \in listed THEN listed \ {p} ELSE listed \cup {p}
    /\ fresh' = FALSE
    /\ UNCHANGED <<ver, stamp, writing, now, local, sync, load, screen, old, brought, torn,
                   mix, writes, loads, faults>>

----------------------------------------------------------------------------
(* SyncEngine.flush with nothing queued, and the delta of SyncService *)

Pulling(pc) == pull.pc = pc
PullTo(pc)  == pull' = [pull EXCEPT !.pc = pc]

Push ==
    /\ Begin("flush") /\ Pulling("idle")
    /\ pull' = [Resting EXCEPT !.pc = "sent", !.since = since]
    /\ UNCHANGED <<server, local, since, seen, late, cut, load, screen, old, history,
                   mix, writes, turns, faults>>

\* Mutant: serverTime is read from a clock that runs ahead of the one that stamps rows.
ApplyAhead ==
    /\ Pulling("sent")
    /\ pull' = [pull EXCEPT !.pc = "reading", !.at = now + 1, !.began = now,
                            !.left = IF pull.since = None THEN {} ELSE Coll]
    /\ UNCHANGED <<server, local, since, seen, late, cut, load, screen, old, history,
                   mix, writes, turns, loads, faults>>

\* apply: serverTime is taken first; without `since` the delta is empty.
Apply ==
    /\ Pulling("sent")
    /\ pull' = [pull EXCEPT !.pc = "reading", !.at = now, !.began = now,
                            !.left = IF pull.since = None THEN {} ELSE Coll]
    /\ UNCHANGED <<server, local, since, seen, late, cut, load, screen, old, history,
                   mix, writes, turns, loads, faults>>

\* The first rows of S by their stamp; rows of one stamp come in any order.
Firsts(S) ==
    {T \in SUBSET S :
        /\ \A x \in T, y \in S \ T : stamp[x] <= stamp[y]
        /\ Cardinality(T) = IF Cardinality(S) < DeltaLimit THEN Cardinality(S) ELSE DeltaLimit}

\* delta: each collection is read on its own, from the oldest change.
ReadDelta(c) ==
    /\ Pulling("reading") /\ c \in pull.left
    /\ LET changed == {x \in Rows(c) : ver[x] # 0 /\ stamp[x] > pull.since} IN
       \E T \in Firsts(changed) :
          pull' = [pull EXCEPT !.left = @ \ {c},
                               !.got = @ \cup {<<x, ver[x]>> : x \in T},
                               !.over = @ \cup (changed \ T)]
    /\ UNCHANGED <<server, local, since, seen, late, cut, load, screen, old, history,
                   mix, writes, turns, loads, faults>>

\* Mutant: serverTime is taken when the answer is put together.
RespondLate ==
    /\ Pulling("reading") /\ pull.left = {}
    /\ pull' = [pull EXCEPT !.pc = "apply", !.at = now]
    /\ UNCHANGED <<server, local, since, seen, late, cut, load, screen, old, history,
                   mix, writes, turns, loads, faults>>

Respond ==
    /\ Pulling("reading") /\ pull.left = {}
    /\ PullTo("apply")
    /\ UNCHANGED <<server, local, since, seen, late, cut, load, screen, old, history,
                   mix, writes, turns, loads, faults>>

\* The POST or its answer is lost: flush throws and `since` stays.
Lose ==
    /\ pull.pc \in {"sent", "reading"} /\ Fault
    /\ pull' = Resting
    /\ UNCHANGED <<server, local, since, seen, late, cut, load, screen, old, history,
                   mix, writes, turns, loads>>

Current(l) == {x \in Row : l[x] = ver[x]}

\* History: a row the device now has as the server does is behind no more.
Excuses ==
    /\ old' = (old \cup {x \in Row : local'[x] < local[x]}) \ Current(local')
    /\ late' = late \ Current(local') /\ cut' = cut \ Current(local')

Shown(got, l) == [x \in Row |-> IF \E g \in got : g[1] = x
                               THEN (CHOOSE g \in got : g[1] = x)[2] ELSE l[x]]

\* applyDelta awaits one upsert after another.
ApplyDelta ==
    /\ Pulling("apply")
    /\ \/ \E g \in pull.got :
            /\ local' = Shown({g}, local)
            /\ pull' = [pull EXCEPT !.got = @ \ {g}]
       \/ pull.got = {} /\ PullTo("mark") /\ UNCHANGED local
    /\ Excuses
    /\ UNCHANGED <<server, since, seen, load, screen, history, mix, writes, turns, loads, faults>>

WriteSince ==
    /\ Pulling("mark")
    /\ since' = pull.at /\ pull' = Resting
    /\ seen' = [first |-> IF since = None THEN pull.began ELSE seen.first, last |-> pull.began]
    /\ cut' = cut \cup (pull.over \ Current(local))
    /\ UNCHANGED <<server, local, late, load, screen, old, history, mix, writes, turns, loads, faults>>

----------------------------------------------------------------------------
(* Pages *)

\* The newest rows below the cursor, which is null or the last row of the page before.
Paginate(S, cursor) ==
    LET below == {p \in S : cursor = 0 \/ p < cursor}
        items == {p \in below : Cardinality({q \in below : q > p}) < PageLimit}
    IN  [items |-> items,
         next  |-> IF items = below THEN 0 ELSE CHOOSE p \in items : \A q \in items : p <= q]

\* PostsStore.listListed and PostsService.list
List(cursor) == Paginate({p \in listed : ver[p] # 0}, cursor)

\* LocalStore.listPostsPage
ListPostsPage(cursor) == Paginate({p \in Post : local[p] # 0}, cursor)

----------------------------------------------------------------------------
(* PostsController *)

On(l, pc)    == load[l].pc = pc
Goto(l, pc)  == load' = [load EXCEPT ![l].pc = pc]
Feeding      == {l \in Load \ {"look"} : ~On(l, "idle")}

\* refreshFeed up to the await of flushNow; nothing keeps two of them apart.
RefreshFeed(l) ==
    /\ l \in {"refresh", "again"} /\ Begin("page") /\ On(l, "idle")
    /\ load' = [load EXCEPT ![l] = [Waiting EXCEPT !.pc = "flush"]]
    /\ page' = [page EXCEPT !.remote = 0, !.exhausted = FALSE]
    /\ brought' = {} /\ torn' = (Feeding # {}) /\ fresh' = FALSE
    /\ UNCHANGED <<server, local, sync, feed, old, mix, writes, turns, faults>>

\* flushNow resumes it; the radio may be there or not.
Flushed(l) ==
    /\ On(l, "flush")
    /\ Goto(l, "list") \/ Goto(l, "local")
    /\ UNCHANGED <<server, local, sync, screen, old, history, mix, writes, turns, loads, faults>>

\* loadMore up to its first await: without radio it stays on SQLite.
LoadMore ==
    /\ Begin("page") /\ On("more", "idle") /\ page.cursor # 0
    /\ LET ask == ~page.exhausted /\ page.remote # 0 IN
       \E online \in BOOLEAN :
         /\ load' = [load EXCEPT !["more"] = [Waiting EXCEPT
                        !.pc = IF online /\ ask THEN "list" ELSE "local", !.cursor = page.remote]]
         /\ torn' = (torn \/ Feeding # {} \/ (ask /\ ~online))
    /\ UNCHANGED <<server, local, sync, screen, old, brought, fresh, mix, writes, turns, faults>>

\* search and loadDetail: whatever they find among the listed posts.
Look ==
    /\ Begin("look") /\ On("look", "idle")
    /\ \E found \in SUBSET {p \in listed : ver[p] # 0} :
         load' = [load EXCEPT !["look"] = [Waiting EXCEPT !.pc = "cache",
                                             !.got = {<<p, ver[p]>> : p \in found}]]
    /\ UNCHANGED <<server, local, sync, screen, old, history, mix, writes, turns, faults>>

\* PostsApi.list.  A NetworkException keeps the cursor of the remote list, an
\* ApiException ends it; both go on with SQLite.
Fetch(l) ==
    /\ On(l, "list")
    /\ \/ LET p == List(load[l].cursor) IN
          /\ load' = [load EXCEPT ![l].pc = "cache", ![l].next = p.next,
                                  ![l].got = {<<x, ver[x]>> : x \in p.items}]
          /\ UNCHANGED <<page, torn, faults>>
       \/ /\ Fault /\ Goto(l, "local")                          \* NetworkException
          /\ torn' = (torn \/ l = "more") /\ UNCHANGED page
       \/ /\ Fault /\ Goto(l, "local")                          \* ApiException
          /\ page' = [page EXCEPT !.exhausted = @ \/ l = "more"] /\ UNCHANGED torn
    /\ UNCHANGED <<server, local, sync, feed, old, brought, fresh, mix, writes, turns, loads>>

\* An answer that does not parse: flushNow or list throws what neither method
\* catches, and the load ends with the feed as it was.
Escape(l) ==
    /\ load[l].pc \in {"flush", "list"} /\ Fault
    /\ load' = [load EXCEPT ![l] = Waiting]
    /\ torn' = (torn \/ l # "more")
    /\ UNCHANGED <<server, local, sync, feed, page, old, brought, fresh, mix, writes, turns, loads>>

\* cachePosts, and the cursor of the remote list.
CachePosts(l) ==
    /\ On(l, "cache")
    /\ local' = Shown(load[l].got, local)
    /\ Excuses
    /\ IF l = "look"
       THEN load' = [load EXCEPT ![l] = Waiting] /\ UNCHANGED <<page, brought, fresh>>
       ELSE /\ load' = [load EXCEPT ![l] = [Waiting EXCEPT !.pc = "local"]]
            /\ page' = [page EXCEPT !.remote = load[l].next, !.exhausted = (load[l].next = 0)]
            /\ brought' = brought \cup {g[1] : g \in load[l].got}
            /\ fresh' = (fresh \/ l # "more")
    /\ UNCHANGED <<server, since, pull, seen, feed, torn, mix, writes, turns, loads, faults>>

\* The read of SQLite: the first page, or the one at feedCursor.
ReadPage(l) ==
    /\ On(l, "local")
    /\ LET p == ListPostsPage(IF l = "more" THEN page.cursor ELSE 0) IN
       load' = [load EXCEPT ![l] = [Waiting EXCEPT !.pc = "show", !.next = p.next,
                                      !.got = {<<x, local[x]>> : x \in p.items}]]
    /\ UNCHANGED <<server, local, sync, screen, old, history, mix, writes, turns, loads, faults>>

OnScreen == UNION {feed[n] : n \in DOMAIN feed}

\* Mutant: posts that are on the screen already are appended again.
ShowTwice(l) ==
    /\ On(l, "show")
    /\ LET items == {g[1] : g \in load[l].got} IN
       feed' = IF l = "more" THEN Append(feed, items) ELSE <<items>>
    /\ page' = [page EXCEPT !.cursor = load[l].next]
    /\ load' = [load EXCEPT ![l] = Waiting]
    /\ UNCHANGED <<server, local, sync, old, history, mix, writes, turns, loads, faults>>

Show(l) ==
    /\ On(l, "show")
    /\ LET items == {g[1] : g \in load[l].got} IN
       feed' = IF l = "more" THEN Append(feed, items \ OnScreen) ELSE <<items>>
    /\ page' = [page EXCEPT !.cursor = load[l].next]
    /\ load' = [load EXCEPT ![l] = Waiting]
    /\ UNCHANGED <<server, local, sync, old, history, mix, writes, turns, loads, faults>>

\* The app dies: SQLite is what is left.
Kill ==
    /\ Fault
    /\ pull' = Resting /\ load' = [l \in Load |-> Waiting]
    /\ feed' = << >> /\ page' = Top /\ brought' = {} /\ torn' = FALSE /\ fresh' = FALSE
    /\ UNCHANGED <<server, local, since, seen, late, cut, old, mix, writes, turns, loads>>

----------------------------------------------------------------------------
Sync == Push \/ Apply \/ Respond \/ Lose \/ ApplyDelta \/ WriteSince \/ \E c \in Coll : ReadDelta(c)

Controller ==
    \/ LoadMore \/ Look
    \/ \E l \in Load : \/ RefreshFeed(l) \/ Flushed(l) \/ Fetch(l) \/ Escape(l)
                      \/ CachePosts(l) \/ ReadPage(l) \/ Show(l)

Others ==
    \/ Tick \/ Kill
    \/ \E x \in Mine \cup Message : Stamp(x)
    \/ \E w \in writing : Commit(w)
    \/ \E p \in Post : Relist(p)

Next == Sync \/ Controller \/ Others

Spec == Init /\ [][Next]_vars

----------------------------------------------------------------------------
(* Properties *)

Copy == Row \X Nat

\* Rows, copies of rows and cursors keep their types across every await.
TypeOK ==
    /\ ver \in [Row -> Nat] /\ stamp \in [Row -> Nat] /\ listed \subseteq Post
    /\ \A w \in writing : w.row \in Row /\ w.stamp \in 0..now
    /\ local \in [Row -> Nat] /\ since \in Nat \cup {None}
    /\ pull.pc \in {"idle", "sent", "reading", "apply", "mark"} /\ pull.at \in 0..now
    /\ pull.began \in 0..now /\ seen \in [first : 0..now, last : 0..now]
    /\ pull.left \subseteq Coll /\ pull.over \subseteq Row
    /\ \A g \in pull.got : g \in Copy
    /\ \A l \in Load : /\ load[l].pc \in {"idle", "flush", "list", "cache", "local", "show"}
                       /\ load[l].next \in 0..MaxPost /\ \A g \in load[l].got : g \in Copy
    /\ feed \in Seq(SUBSET Post) /\ page.cursor \in 0..MaxPost /\ page.remote \in 0..MaxPost
    /\ late \subseteq Row /\ cut \subseteq Row /\ old \subseteq Row /\ brought \subseteq Post

\* A row of the user that changed after the first mark and before the current one
\* is on the device as it is on the server, though the collections are read at
\* different instants, POSTs are lost and the app dies half way through a delta.
\* The exceptions are the ones this code has: a write that committed after a pull
\* dated after its stamp had read its collection, a row beyond DeltaLimit, and an
\* answer, of a page or of a delta, that arrives after a later one of the other.
DeltaComplete ==
    \A x \in Mine \cup Message :
        /\ ver[x] # 0 /\ since # None /\ seen.first < stamp[x] /\ stamp[x] <= since
        => local[x] = ver[x] \/ x \in late \cup cut \cup old

\* The feed is whole.  No post is in it twice, whatever refreshes and pages overlap.
\* Scrolling down shows every post the remote pages brought, newest first and with
\* no hole above the end of the feed, though remote and local pages have cursors of
\* their own and SQLite has posts the server no longer lists; not when two loads
\* overlapped, the feed advanced past a remote page that was not fetched, or a
\* refresh threw and left the feed of before.
FeedIsWhole ==
    /\ \A m, n \in DOMAIN feed : m # n => feed[m] \cap feed[n] = {}
    /\ Feeding = {} /\ ~torn =>
         /\ \A p \in brought : p \in OnScreen \/ page.cursor > p
         /\ \A m, n \in DOMAIN feed : m < n => \A p \in feed[m], q \in feed[n] : p > q

----------------------------------------------------------------------------
(* What the documentation says and the code does not keep: no run checks it, *)
(* TLC refutes it (see the README).                                          *)

\* What the documentation says of the feed, "Lista cursor (GET /posts al haber
\* radio; SQLite si no)": with radio, the end of the feed is the end of the list.
EndIsTheEnd ==
    Feeding = {} /\ ~torn /\ fresh /\ faults = 0 /\ page.cursor = 0 =>
        \A p \in listed : ver[p] # 0 => p \in OnScreen

=============================================================================
