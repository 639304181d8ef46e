----------------------------- MODULE FeedProofs -----------------------------
(***************************************************************************)
(* What a device shows of the community, for any number of posts, messages   *)
(* and loads and for any limits: the delta leaves nothing behind the mark,    *)
(* and the feed has no post twice and no hole.  And the pages it scrolls      *)
(* through, a walk of a backend listing (Pages): it skips no row and, where    *)
(* Prisma stamps the rows, repeats none and moves on.  The two modules share   *)
(* no name, and the proofs about one do not use the variables of the other.    *)
(***************************************************************************)
EXTENDS Feed, Pages, FiniteSetTheorems, WellFoundedInduction, TLAPS

(***************************************************************************)
(* TypeOK, with the shapes of the POST, of the loads and of the page.        *)
(***************************************************************************)
Pulls   == [pc: {"idle", "sent", "reading", "apply", "mark"}, since: Nat \cup {None},
            at: Nat, began: Nat, left: SUBSET Coll, got: SUBSET Copy, over: SUBSET Row]
Loads   == [pc: {"idle", "flush", "list", "cache", "local", "show"},
            cursor: 0..MaxPost, got: SUBSET (Post \X Nat), next: 0..MaxPost]
Screens == [cursor: 0..MaxPost, remote: 0..MaxPost, exhausted: BOOLEAN]

Typed ==
    /\ ver \in [Row -> Nat] /\ stamp \in [Row -> Nat] /\ listed \subseteq Post /\ now \in Nat
    /\ \A w \in writing : w.row \in Row /\ w.stamp \in 0..now
    /\ local \in [Row -> Nat] /\ since \in Nat \cup {None}
    /\ pull \in Pulls /\ pull.at \in 0..now /\ pull.began \in 0..now
    /\ seen \in [first : 0..now, last : 0..now]
    /\ load \in [Load -> Loads] /\ page \in Screens /\ feed \in Seq(SUBSET Post)
    /\ load["look"].pc \in {"idle", "cache"} /\ ~On("more", "flush")
    /\ late \subseteq Row /\ cut \subseteq Row /\ old \subseteq Row
    /\ brought \subseteq Post /\ torn \in BOOLEAN

(***************************************************************************)
(* A copy of a row is never ahead of the server, and is of a row.            *)
(***************************************************************************)
Copies(got) == \A g \in got : 0 < g[2] /\ g[2] <= ver[g[1]]

Behind ==
    /\ \A x \in Row : local[x] <= ver[x]
    /\ Copies(pull.got) /\ \A l \in Load : Copies(load[l].got)

(***************************************************************************)
(* DeltaComplete is not inductive: the mark that WriteSince is about to move *)
(* must leave nothing behind.  Answered: a row of a collection that was read *)
(* and that changed between the mark and the pull is on the device, on its   *)
(* way, or known to be left out.                                             *)
(***************************************************************************)
Marked ==
    /\ since # None => since = seen.last
    /\ pull.pc # "idle" => pull.since = since
    /\ pull.at = pull.began
    /\ pull.pc = "sent" => pull.got = {}
    /\ pull.pc \in {"apply", "mark"} => pull.left = {}
    /\ pull.pc = "mark" => pull.got = {}

Reading == pull.pc \in {"reading", "apply", "mark"}

OneCopy ==
    /\ \A g, h \in pull.got : g[1] = h[1] => g = h
    /\ pull.pc = "reading" => \A g \in pull.got, c \in pull.left : g[1] \notin Rows(c)

Known(x) == local[x] = ver[x] \/ x \in late \cup cut \cup old

Answered ==
    Reading /\ pull.since # None =>
        \A c \in Coll \ pull.left : \A x \in Rows(c) :
            ver[x] # 0 /\ pull.since < stamp[x] /\ stamp[x] <= pull.began
            => Known(x) \/ <<x, ver[x]>> \in pull.got \/ x \in pull.over

Delta == Marked /\ OneCopy /\ Answered /\ DeltaComplete

(***************************************************************************)
(* FeedIsWhole is not inductive: what keeps a scroll whole is that the remote *)
(* list is never behind the local one, whose next page therefore covers what *)
(* the remote page brought.                                                  *)
(***************************************************************************)
Below(c)   == {p \in Post : local[p] # 0 /\ (c = 0 \/ p < c)}
Start(l)   == IF l = "more" THEN page.cursor ELSE 0
Items(l)   == {g[1] : g \in load[l].got}
Asking     == ~page.exhausted /\ page.remote # 0
Covered(c) == Asking => \E B \in SUBSET Below(c) :
                            Cardinality(B) >= PageLimit /\ \A p \in B : page.remote <= p

Distinct == \A m, n \in DOMAIN feed : m # n => feed[m] \cap feed[n] = {}
Ordered  == \A m, n \in DOMAIN feed : m < n => \A p \in feed[m], q \in feed[n] : p > q

Scrolled ==
    /\ Ordered
    /\ \A p \in OnScreen : page.cursor <= p
    /\ \A p \in brought : p \in OnScreen \/ p < page.cursor

\* What a load that nothing disturbs knows between its awaits.
Fetching(l) ==
    IF l = "more"
    THEN Asking /\ load[l].cursor = page.remote /\ page.remote <= page.cursor
    ELSE page.remote = 0 /\ ~page.exhausted /\ load[l].cursor = 0

Within(l) ==
    /\ \A p \in Items(l) : (Start(l) = 0 \/ p < Start(l)) /\ load[l].next <= p
    /\ load[l].next # 0 => load[l].next \in Items(l)

Fetched(l) ==
    /\ Within(l)
    /\ load[l].next # 0 => Cardinality(Items(l)) >= PageLimit

Listed(l) ==
    /\ Within(l)
    /\ load[l].next # 0 /\ Asking => page.remote <= load[l].next
    /\ \A p \in brought : \/ p \in Items(l) \/ p < load[l].next
                          \/ l = "more" /\ p \in OnScreen

Alone ==
    /\ \A k, l \in Feeding : k = l
    /\ Feeding \subseteq {"more"} => Scrolled
    /\ Feeding = {} /\ Asking /\ page.cursor # 0 => page.remote <= page.cursor
    /\ \A l \in Feeding :
          /\ l = "more" => page.cursor # 0
          /\ l # "more" /\ load[l].pc \in {"flush", "list", "cache"} => brought = {}
          /\ load[l].pc \in {"flush", "list"} => Fetching(l)
          /\ On(l, "cache") => Fetched(l)
          /\ On(l, "local") => Covered(Start(l))
          /\ On(l, "show") => Listed(l)

Screen ==
    /\ \A p \in brought : local[p] # 0
    /\ Distinct
    /\ ~torn => Alone

IInv == Typed /\ Behind /\ Delta /\ Screen

USE FeedAssumption

----------------------------------------------------------------------------
(* Pages of a finite listing *)

LEMMA Least ==
    ASSUME NEW S \in SUBSET Nat, S # {}
    PROVE  \E n \in S : \A m \in S : n <= m
  <1> DEFINE T == {1..n : n \in S}
             R == StrictSubsetOrdering(Nat)
  <1>1. T \subseteq FiniteSubsetsOf(Nat) /\ T # {}
    <2>1. \A n \in S : IsFiniteSet(1..n) /\ 1..n \subseteq Nat
      BY FS_Interval
    <2> QED BY <2>1 DEF FiniteSubsetsOf
  <1>2. IsWellFoundedOn(R, FiniteSubsetsOf(Nat))
    BY FS_StrictSubsetOrderingWellFounded
  <1>3. \E x \in T : \A y \in T : ~ (<<y, x>> \in R)
    <2> HIDE DEF T, R
    <2> QED BY <1>1, <1>2, WFMin
  <1>4. PICK n \in S : \A m \in S : <<1..m, 1..n>> \notin R
    BY <1>3
  <1>5. ASSUME NEW m \in S, m < n PROVE FALSE
    <2>1. 1..m \subseteq 1..n /\ n \in 1..n /\ n \notin 1..m /\ 1..n \subseteq Nat
      BY <1>5
    <2>2. <<1..m, 1..n>> \in R
      BY <2>1 DEF StrictSubsetOrdering
    <2> QED BY <1>4, <2>2
  <1>6. \A m \in S : n <= m
    BY <1>5
  <1> QED BY <1>6

LEMMA Greatest ==
    ASSUME NEW S \in SUBSET Post, S # {}
    PROVE  \E n \in S : \A m \in S : m <= n
  <1> DEFINE D == {MaxPost - n : n \in S}
  <1>0. \A n \in S : MaxPost - n \in Nat
    BY DEF Post
  <1>1. D \in SUBSET Nat /\ D # {}
    BY <1>0
  <1>2. PICK d \in D : \A e \in D : d <= e
    BY <1>1, Least
  <1>3. PICK n \in S : d = MaxPost - n
    BY <1>2
  <1>4. ASSUME NEW m \in S PROVE m <= n
    <2>1. MaxPost - m \in D
      OBVIOUS
    <2>2. MaxPost - n <= MaxPost - m
      BY <1>2, <1>3, <2>1
    <2> QED BY <2>2 DEF Post
  <1> QED BY <1>4

LEMMA PostsFinite ==
    ASSUME NEW S \in SUBSET Post
    PROVE  IsFiniteSet(S) /\ Cardinality(S) \in Nat
  <1>1. IsFiniteSet(Post)
    BY FS_Interval DEF Post
  <1>2. IsFiniteSet(S)
    BY <1>1, FS_Subset
  <1> QED BY <1>2, FS_CardinalityType

LEMMA MorePosts ==
    ASSUME NEW S \in SUBSET Post, NEW T \in SUBSET S
    PROVE  Cardinality(T) <= Cardinality(S)
  BY PostsFinite, FS_Subset

\* What a page is of the listing S, after the cursor c.
After(S, c) == {p \in S : c = 0 \/ p < c}

LEMMA PageOf ==
    ASSUME NEW S \in SUBSET Post, NEW c \in 0..MaxPost
    PROVE  /\ Paginate(S, c).items \subseteq After(S, c) /\ Paginate(S, c).next \in 0..MaxPost
           /\ \A p \in Paginate(S, c).items : Paginate(S, c).next <= p
           /\ \A p \in After(S, c) : p \in Paginate(S, c).items \/ p < Paginate(S, c).next
           /\ Paginate(S, c).next # 0 =>
                 /\ Paginate(S, c).next \in Paginate(S, c).items
                 /\ Cardinality(Paginate(S, c).items) >= PageLimit
                 /\ Cardinality({q \in After(S, c) : q > Paginate(S, c).next}) < PageLimit
  <1> DEFINE below == After(S, c)
             items == Paginate(S, c).items
             next == Paginate(S, c).next
             Over(p) == {q \in below : q > p}
  <1>1. /\ items = {p \in below : Cardinality(Over(p)) < PageLimit}
        /\ next = IF items = below THEN 0 ELSE CHOOSE p \in items : \A q \in items : p <= q
    BY DEF Paginate, After
  <1>2. below \subseteq Post
    BY DEF After
  <1> HIDE DEF below, items, next
  <1>3. \A p \in below : Over(p) \in SUBSET below /\ \A q \in below : q \in Over(p) <=> q > p
    OBVIOUS
  <1>4. Over(next) = {q \in below : q > next}
    OBVIOUS
  <1> HIDE DEF Over
  <1>5. below \subseteq Post /\ items \subseteq below /\ Post \subseteq Nat /\ below \subseteq Nat
    <2>1. items \subseteq below
      BY <1>1
    <2> QED BY <1>2, <2>1 DEF Post
  <1>6. \A p \in below : Cardinality(Over(p)) \in Nat
    BY <1>5, <1>3, PostsFinite
  <1>7. ASSUME items = below PROVE next = 0
    BY <1>1, <1>7
  <1>8. ASSUME items # below
        PROVE  /\ next \in 1..MaxPost /\ next \in items /\ \A p \in items : next <= p
               /\ \A p \in below : p \in items \/ p < next
               /\ Cardinality(items) >= PageLimit
               /\ Cardinality({q \in below : q > next}) < PageLimit
    <2>1. PICK g \in below \ items : \A m \in below \ items : m <= g
      <3>1. below \ items \in SUBSET Post /\ below \ items # {}
        BY <1>5, <1>8
      <3> QED BY <3>1, Greatest
    <2>2. Over(g) \in SUBSET items /\ Cardinality(Over(g)) >= PageLimit
      <3>1. Cardinality(Over(g)) >= PageLimit
        BY <1>1, <1>6, <2>1
      <3>2. \A q \in below : q > g => q \in items
        BY <1>5, <2>1
      <3> QED BY <1>3, <2>1, <3>1, <3>2
    <2>3. Cardinality(items) \in Nat /\ Cardinality(items) >= PageLimit
      <3>1. items \in SUBSET Post
        BY <1>5
      <3>2. Cardinality(Over(g)) <= Cardinality(items) /\ Cardinality(items) \in Nat
        BY <2>2, <3>1, MorePosts, PostsFinite
      <3> QED BY <1>6, <2>1, <2>2, <3>2
    <2>4. items # {}
      <3>1. Cardinality({}) = 0
        BY FS_EmptySet
      <3>2. ASSUME items = {} PROVE FALSE
        <4>1. Cardinality(items) = 0
          BY <3>1, <3>2
        <4> QED BY <2>3, <4>1
      <3> QED BY <3>2
    <2>5. \E p \in items : \A q \in items : p <= q
      BY <1>5, <2>4, Least
    <2>6. next \in items /\ \A q \in items : next <= q
      BY <1>1, <1>8, <2>5
    <2>7. ASSUME NEW p \in below, p \notin items PROVE p < next
      <3>0. p \in Nat /\ next \in Nat /\ p # next /\ next \in below
        BY <1>5, <2>6, <2>7
      <3>1. ASSUME p > next PROVE FALSE
        <4>1. \A q \in below : q > p => q > next
          <5> SUFFICES ASSUME NEW q \in below, q > p PROVE q > next
            OBVIOUS
          <5>1. q \in Nat
            BY <1>5
          <5> QED BY <3>0, <3>1, <5>1
        <4>2. Over(p) \in SUBSET Over(next) /\ Over(next) \in SUBSET Post
          BY <1>5, <1>3, <2>7, <3>0, <4>1
        <4>3. Cardinality(Over(p)) <= Cardinality(Over(next))
          BY <4>2, MorePosts
        <4>4. Cardinality(Over(next)) < PageLimit /\ ~(Cardinality(Over(p)) < PageLimit)
          BY <1>1, <2>6, <2>7
        <4> QED BY <1>6, <2>7, <3>0, <4>3, <4>4
      <3> QED BY <3>0, <3>1
    <2>8. next \in 1..MaxPost
      BY <1>5, <2>6 DEF Post
    <2>9. Cardinality(Over(next)) < PageLimit
      BY <1>1, <2>6
    <2> QED BY <1>5, <1>4, <2>3, <2>6, <2>7, <2>8, <2>9
  <1>9. /\ items \subseteq below /\ next \in 0..MaxPost
        /\ \A p \in items : next <= p
        /\ \A p \in below : p \in items \/ p < next
        /\ next # 0 => /\ next \in items /\ Cardinality(items) >= PageLimit
                       /\ Cardinality({q \in below : q > next}) < PageLimit
    <2>1. CASE items = below
      BY <1>5, <1>7, <2>1
    <2>2. CASE items # below
      BY <1>5, <1>8, <2>2
    <2> QED BY <2>1, <2>2
  <1> QED BY <1>9 DEF below, items, next

----------------------------------------------------------------------------
(* Types *)

LEMMA ShownIs ==
    ASSUME Typed, NEW got \in SUBSET Copy, NEW l, l = Shown(got, local)
    PROVE  /\ l \in [Row -> Nat]
           /\ \A x \in Row : <<x, l[x]>> \in got \/ l[x] = local[x]
           /\ \A x \in Row : (\A g \in got : g[1] # x) => l[x] = local[x]
           /\ \A g \in got : <<g[1], l[g[1]]>> \in got
  <1>1. l = [x \in Row |-> IF \E g \in got : g[1] = x
                           THEN (CHOOSE g \in got : g[1] = x)[2] ELSE local[x]]
    BY DEF Shown
  <1>2. \A g \in got : g = <<g[1], g[2]>> /\ g[1] \in Row /\ g[2] \in Nat
    BY DEF Copy
  <1>3. ASSUME NEW x \in Row, \E g \in got : g[1] = x
        PROVE  <<x, l[x]>> \in got /\ l[x] \in Nat
    <2> DEFINE h == CHOOSE g \in got : g[1] = x
    <2>1. h \in got /\ h[1] = x
      BY <1>3
    <2>2. l[x] = h[2]
      BY <1>1, <1>3
    <2> HIDE DEF h
    <2> QED BY <1>2, <2>1, <2>2
  <1>4. ASSUME NEW x \in Row, ~ \E g \in got : g[1] = x
        PROVE  l[x] = local[x] /\ l[x] \in Nat
    BY <1>1, <1>4 DEF Typed
  <1>5. l \in [Row -> Nat]
    BY <1>1, <1>3, <1>4
  <1> QED BY <1>2, <1>3, <1>4, <1>5

LEMMA Initials == Resting \in Pulls /\ Waiting \in Loads /\ Top \in Screens
  BY DEF Resting, Waiting, Top, Pulls, Loads, Screens

LEMMA TypedInitially == Init => Typed
  <1> SUFFICES ASSUME Init PROVE Typed
    OBVIOUS
  <1>1. << >> \in Seq(SUBSET Post)
    OBVIOUS
  <1>2. \A l \in Load : load[l] = Waiting
    BY DEF Init
  <1>3. load["look"].pc = "idle" /\ load["more"].pc = "idle"
    BY <1>2 DEF Load, Waiting
  <1>4. listed \subseteq Post /\ ver \in [Row -> Nat] /\ stamp \in [Row -> Nat]
        /\ local \in [Row -> Nat]
    BY DEF Init
  <1>5. pull \in Pulls /\ pull.at = 0 /\ pull.began = 0
    BY Initials DEF Init, Resting
  <1>6. load \in [Load -> Loads] /\ page \in Screens /\ feed \in Seq(SUBSET Post)
    BY <1>1, Initials DEF Init
  <1>7. now = 1 /\ 0 \in 0..now /\ seen \in [first : 0..now, last : 0..now]
    BY DEF Init
  <1>8. writing = {} /\ since = None /\ late = {} /\ cut = {} /\ old = {} /\ brought = {}
        /\ torn = FALSE
    BY DEF Init
  <1>9. ~On("more", "flush")
    BY <1>3 DEF On
  <1> QED BY <1>9, <1>3, <1>4, <1>5, <1>6, <1>7, <1>8 DEF Typed

LEMMA RowsIn == \A c \in Coll : Rows(c) \subseteq Row
  BY DEF Coll, Rows, Row

LEMMA ServerTyped ==
    ASSUME Typed, \/ Tick \/ (\E x \in Mine \cup Message : Stamp(x))
                  \/ (\E w \in writing : Commit(w)) \/ (\E p \in Post : Relist(p))
    PROVE  Typed'
  <1> USE DEF server, screen, sync, history
  <1>1. CASE Tick
    BY <1>1 DEF Tick, Typed, On
  <1>2. ASSUME NEW x \in Mine \cup Message, Stamp(x) PROVE Typed'
    <2>1. x \in Row
      BY DEF Row
    <2>2. \A w \in writing' : w.row \in Row /\ w.stamp \in 0..now
      BY <1>2, <2>1 DEF Stamp, Typed
    <2> QED BY <1>2, <2>2 DEF Stamp, Typed, On
  <1>3. ASSUME NEW w \in writing, Commit(w) PROVE Typed'
    <2>1. w.row \in Row /\ w.stamp \in Nat
      BY DEF Typed
    <2>2. ver' \in [Row -> Nat]
      BY <1>3, <2>1 DEF Commit, Typed
    <2>3. stamp' \in [Row -> Nat]
      BY <1>3, <2>1 DEF Commit, Typed
    <2>4. late' \subseteq Row
      BY <1>3, <2>1 DEF Commit, Typed
    <2> QED BY <1>3, <2>2, <2>3, <2>4 DEF Commit, Typed, On
  <1>4. ASSUME NEW p \in Post, Relist(p) PROVE Typed'
    BY <1>4 DEF Relist, Typed, On
  <1> QED BY <1>1, <1>2, <1>3, <1>4

LEMMA SyncTyped ==
    ASSUME Typed, Sync
    PROVE  Typed'
  <1> USE DEF server, screen, sync, history
  <1>1. CASE Push
    <2>1. pull' \in Pulls /\ pull'.at = 0 /\ pull'.began = 0
      BY <1>1, Initials DEF Push, Pulls, Resting, Typed
    <2>2. UNCHANGED <<ver, stamp, listed, writing, now, local, since, seen, load, feed, page,
                      late, cut, old, brought, torn>> /\ now \in Nat
      BY <1>1 DEF Push, Typed
    <2>3. 0 \in 0..now
      BY <2>2
    <2> QED BY <2>1, <2>2, <2>3 DEF Typed, On
  <1>2. CASE Apply
    <2>1. pull' \in Pulls /\ pull'.at = now /\ pull'.began = now
      BY <1>2 DEF Apply, Pulls, Typed
    <2>2. now \in 0..now
      BY DEF Typed
    <2> QED BY <1>2, <2>1, <2>2 DEF Apply, Typed, On
  <1>3. ASSUME NEW c \in Coll, ReadDelta(c) PROVE Typed'
    <2> DEFINE changed == {x \in Rows(c) : ver[x] # 0 /\ stamp[x] > pull.since}
    <2>1. changed \subseteq Row
      BY RowsIn
    <2> HIDE DEF changed
    <2>2. PICK T \in Firsts(changed) :
              pull' = [pull EXCEPT !.left = @ \ {c}, !.got = @ \cup {<<x, ver[x]>> : x \in T},
                                   !.over = @ \cup (changed \ T)]
      BY <1>3 DEF ReadDelta, changed
    <2>3. T \subseteq changed
      BY <2>2 DEF Firsts
    <2>4. {<<x, ver[x]>> : x \in T} \in SUBSET Copy
      BY <2>1, <2>3 DEF Copy, Typed
    <2>5. pull' \in Pulls /\ pull'.at = pull.at /\ pull'.began = pull.began
      BY <2>1, <2>2, <2>4 DEF Pulls, Typed
    <2> QED BY <1>3, <2>5 DEF ReadDelta, Typed, On
  <1>4. CASE Respond
    <2>1. pull' \in Pulls /\ pull'.at = pull.at /\ pull'.began = pull.began
      BY <1>4 DEF Respond, PullTo, Pulls, Typed
    <2> QED BY <1>4, <2>1 DEF Respond, Typed, On
  <1>5. CASE Lose
    <2>1. pull' \in Pulls /\ pull'.at = 0 /\ pull'.began = 0
      BY <1>5, Initials DEF Lose, Resting
    <2> QED BY <1>5, <2>1 DEF Lose, Typed, On
  <1>6. CASE ApplyDelta
    <2>1. pull' \in Pulls /\ pull'.at = pull.at /\ pull'.began = pull.began
      <3>0. pull \in Pulls
        BY DEF Typed
      <3>1. ASSUME NEW g \in pull.got, pull' = [pull EXCEPT !.got = @ \ {g}]
            PROVE  pull' \in Pulls /\ pull'.at = pull.at /\ pull'.began = pull.began
        BY <3>0, <3>1 DEF Pulls
      <3>2. CASE PullTo("mark")
        BY <3>2 DEF PullTo, Pulls, Typed
      <3> QED BY <1>6, <3>1, <3>2 DEF ApplyDelta
    <2>2. local' \in [Row -> Nat]
      <3>1. ASSUME NEW g \in pull.got, local' = Shown({g}, local) PROVE local' \in [Row -> Nat]
        <4>1. {g} \in SUBSET Copy
          BY DEF Typed, Pulls
        <4> QED BY <3>1, <4>1, ShownIs
      <3> QED BY <1>6, <3>1 DEF ApplyDelta, Typed
    <2>3. late' \subseteq Row /\ cut' \subseteq Row /\ old' \subseteq Row
      BY <1>6 DEF ApplyDelta, Excuses, Typed
    <2> QED BY <1>6, <2>1, <2>2, <2>3 DEF ApplyDelta, Typed, On
  <1>7. CASE WriteSince
    <2>1. pull' \in Pulls /\ pull'.at = 0 /\ pull'.began = 0
      BY <1>7, Initials DEF WriteSince, Resting
    <2>2. since' \in Nat /\ seen' \in [first : 0..now, last : 0..now] /\ cut' \subseteq Row
      BY <1>7 DEF WriteSince, Typed, Pulls
    <2> QED BY <1>7, <2>1, <2>2 DEF WriteSince, Typed, On
  <1> QED BY <1>1, <1>2, <1>3, <1>4, <1>5, <1>6, <1>7 DEF Sync

\* A load that becomes another of its shape.
LEMMA LoadTyped ==
    ASSUME Typed, NEW l \in Load, NEW q \in Loads, load' = [load EXCEPT ![l] = q],
           l = "look" => q.pc \in {"idle", "cache"}, l = "more" => q.pc # "flush"
    PROVE  /\ load' \in [Load -> Loads] /\ load'["look"].pc \in {"idle", "cache"}
           /\ ~On("more", "flush")'
           /\ load'[l] = q /\ \A k \in Load : k # l => load'[k] = load[k]
  BY DEF Typed, On, Load

LEMMA ControllerTyped ==
    ASSUME Typed, Controller
    PROVE  Typed'
  <1> USE DEF server, screen, sync, history
  <1>0. Post \subseteq Row /\ (\A l \in Load : load[l] \in Loads) /\ page \in Screens
    BY DEF Row, Typed
  <1>1. ASSUME NEW l \in Load, RefreshFeed(l) PROVE Typed'
    <2> DEFINE q == [Waiting EXCEPT !.pc = "flush"]
    <2>1. q \in Loads /\ q.pc = "flush" /\ l # "look" /\ l # "more"
      BY <1>1, Initials DEF Loads, RefreshFeed, Waiting
    <2>2. load' = [load EXCEPT ![l] = q]
      BY <1>1 DEF RefreshFeed
    <2> HIDE DEF q
    <2>3. page' \in Screens
      <3>1. page' = [page EXCEPT !.remote = 0, !.exhausted = FALSE] /\ 0 \in 0..MaxPost
        BY <1>1 DEF RefreshFeed
      <3> QED BY <1>0, <3>1 DEF Screens
    <2>4. brought' = {} /\ torn' \in BOOLEAN
      BY <1>1 DEF RefreshFeed
    <2> QED BY <1>1, <2>1, <2>2, <2>3, <2>4, LoadTyped DEF RefreshFeed, Typed, On
  <1>2. ASSUME NEW l \in Load, Flushed(l) PROVE Typed'
    <2>1. PICK pc \in {"list", "local"} : load' = [load EXCEPT ![l].pc = pc]
      BY <1>2 DEF Flushed, Goto
    <2> DEFINE q == [load[l] EXCEPT !.pc = pc]
    <2>2. q \in Loads /\ q.pc = pc /\ load' = [load EXCEPT ![l] = q] /\ l # "look"
      BY <1>0, <1>2, <2>1 DEF Loads, Flushed, On, Typed
    <2> HIDE DEF q
    <2> QED BY <1>2, <2>2, LoadTyped DEF Flushed, Typed, On
  <1>3. CASE LoadMore
    <2>1. PICK pc \in {"list", "local"} :
              load' = [load EXCEPT !["more"] = [Waiting EXCEPT !.pc = pc, !.cursor = page.remote]]
      BY <1>3 DEF LoadMore
    <2> DEFINE q == [Waiting EXCEPT !.pc = pc, !.cursor = page.remote]
    <2>2. q \in Loads /\ q.pc = pc /\ load' = [load EXCEPT !["more"] = q] /\ "more" \in Load
      BY <2>1, Initials DEF Loads, Waiting, Typed, Screens, Load
    <2> HIDE DEF q
    <2>3. torn' \in BOOLEAN
      BY <1>3 DEF LoadMore
    <2> QED BY <1>3, <2>2, <2>3, LoadTyped DEF LoadMore, Typed, On
  <1>4. CASE Look
    <2>1. PICK found \in SUBSET {p \in listed : ver[p] # 0} :
              load' = [load EXCEPT !["look"] = [Waiting EXCEPT !.pc = "cache",
                                                   !.got = {<<p, ver[p]>> : p \in found}]]
      BY <1>4 DEF Look
    <2> DEFINE got == {<<p, ver[p]>> : p \in found}
               q == [Waiting EXCEPT !.pc = "cache", !.got = got]
    <2>2. got \in SUBSET (Post \X Nat)
      BY <1>0 DEF Typed
    <2> HIDE DEF got
    <2>3. q \in Loads /\ q.pc = "cache" /\ "look" \in Load
      BY <2>2, Initials DEF Loads, Waiting, Load
    <2>4. load' = [load EXCEPT !["look"] = q]
      BY <2>1 DEF got
    <2> HIDE DEF q
    <2> QED BY <1>4, <2>3, <2>4, LoadTyped DEF Look, Typed, On
  <1>5. ASSUME NEW l \in Load, Fetch(l) PROVE Typed'
    <2>0. l # "look"
      BY <1>5 DEF Fetch, On, Typed
    <2>1. ASSUME load' = [load EXCEPT ![l].pc = "cache", ![l].next = List(load[l].cursor).next,
                             ![l].got = {<<x, ver[x]>> : x \in List(load[l].cursor).items}],
                 UNCHANGED <<page, torn>>
          PROVE  Typed'
      <3> DEFINE S == {p \in listed : ver[p] # 0}
                 c == load[l].cursor
                 items == Paginate(S, c).items
                 next == Paginate(S, c).next
                 got == {<<x, ver[x]>> : x \in items}
                 q == [load[l] EXCEPT !.pc = "cache", !.next = next, !.got = got]
      <3>1. S \in SUBSET Post /\ c \in 0..MaxPost
        BY <1>0 DEF Typed, Loads
      <3>2. items \in SUBSET Post /\ next \in 0..MaxPost
        <4> HIDE DEF S, c
        <4> QED BY <3>1, PageOf DEF After
      <3>3. load' = [load EXCEPT ![l] = q]
        BY <1>0, <2>1 DEF List, Typed
      <3> HIDE DEF items, next
      <3>4. got \in SUBSET (Post \X Nat)
        BY <1>0, <3>2 DEF Typed
      <3> HIDE DEF got
      <3>5. q \in Loads /\ q.pc = "cache"
        BY <1>0, <3>2, <3>4 DEF Loads
      <3> HIDE DEF q
      <3> QED BY <1>5, <2>0, <2>1, <3>3, <3>5, LoadTyped DEF Fetch, Typed, On
    <2>2. ASSUME Goto(l, "local"), page' \in Screens, torn' \in BOOLEAN PROVE Typed'
      <3> DEFINE q == [load[l] EXCEPT !.pc = "local"]
      <3>1. q \in Loads /\ q.pc = "local" /\ load' = [load EXCEPT ![l] = q]
        BY <1>0, <2>2 DEF Loads, Goto, Typed
      <3> HIDE DEF q
      <3> QED BY <1>5, <2>0, <2>2, <3>1, LoadTyped DEF Fetch, Typed, On
    <2>3. [page EXCEPT !.exhausted = @ \/ l = "more"] \in Screens /\ page \in Screens
          /\ (torn \/ l = "more") \in BOOLEAN /\ torn \in BOOLEAN
      BY DEF Screens, Typed
    <2> QED BY <1>5, <2>1, <2>2, <2>3 DEF Fetch
  <1>6. ASSUME NEW l \in Load, CachePosts(l) PROVE Typed'
    <2>1. load[l].got \in SUBSET (Post \X Nat) /\ load[l].got \in SUBSET Copy
          /\ load[l].next \in 0..MaxPost
      BY <1>0 DEF Loads, Copy
    <2>2. local' \in [Row -> Nat]
      BY <1>6, <2>1, ShownIs DEF CachePosts
    <2>3. late' \subseteq Row /\ cut' \subseteq Row /\ old' \subseteq Row
      BY <1>6 DEF CachePosts, Excuses, Typed
    <2>4. CASE l = "look"
      <3>1. load' = [load EXCEPT ![l] = Waiting] /\ UNCHANGED <<page, brought>>
        BY <1>6, <2>4 DEF CachePosts
      <3>2. Waiting.pc = "idle"
        BY DEF Waiting
      <3> QED BY <1>6, <2>2, <2>3, <3>1, <3>2, Initials, LoadTyped DEF CachePosts, Typed, On
    <2>5. CASE l # "look"
      <3> DEFINE q == [Waiting EXCEPT !.pc = "local"]
      <3>1. q \in Loads /\ q.pc = "local" /\ load' = [load EXCEPT ![l] = q]
        BY <1>6, <2>5, Initials DEF CachePosts, Loads, Waiting
      <3> HIDE DEF q
      <3>2. page' \in Screens
        BY <1>0, <1>6, <2>1, <2>5 DEF CachePosts, Screens
      <3>3. brought' \subseteq Post
        BY <1>6, <2>1, <2>5 DEF CachePosts, Typed
      <3> QED BY <1>6, <2>2, <2>3, <2>5, <3>1, <3>2, <3>3, LoadTyped DEF CachePosts, Typed, On
    <2> QED BY <2>4, <2>5
  <1>7. ASSUME NEW l \in Load, ReadPage(l) PROVE Typed'
    <2> DEFINE S == {p \in Post : local[p] # 0}
               c == Start(l)
               items == Paginate(S, c).items
               next == Paginate(S, c).next
               got == {<<x, local[x]>> : x \in items}
               q == [Waiting EXCEPT !.pc = "show", !.next = next, !.got = got]
    <2>1. S \in SUBSET Post /\ c \in 0..MaxPost
      BY <1>0 DEF Start, Screens
    <2>2. items \in SUBSET Post /\ next \in 0..MaxPost
      <3> HIDE DEF S, c
      <3> QED BY <2>1, PageOf DEF After
    <2>3. load' = [load EXCEPT ![l] = q]
      BY <1>7 DEF ReadPage, ListPostsPage, Start
    <2> HIDE DEF items, next
    <2>4. got \in SUBSET (Post \X Nat)
      BY <1>0, <2>2 DEF Typed
    <2> HIDE DEF got
    <2>5. q \in Loads /\ q.pc = "show" /\ l # "look"
      BY <1>7, <2>2, <2>4, Initials DEF Loads, Waiting, ReadPage, On, Typed
    <2> HIDE DEF q
    <2>6. /\ load' \in [Load -> Loads] /\ load'["look"].pc \in {"idle", "cache"}
          /\ ~On("more", "flush")'
      BY <2>3, <2>5, LoadTyped
    <2> QED BY <1>7, <2>6 DEF ReadPage, Typed
  <1>8. ASSUME NEW l \in Load, Show(l) PROVE Typed'
    <2>1. load' = [load EXCEPT ![l] = Waiting] /\ Waiting.pc = "idle"
      BY <1>8 DEF Show, Waiting
    <2>2. Items(l) \in SUBSET Post /\ load[l].next \in 0..MaxPost
      BY <1>0 DEF Items, Loads
    <2>3. feed' = IF l = "more" THEN Append(feed, Items(l) \ OnScreen) ELSE <<Items(l)>>
      BY <1>8 DEF Show, Items
    <2>4. feed' \in Seq(SUBSET Post)
      <3>1. feed \in Seq(SUBSET Post) /\ Items(l) \ OnScreen \in SUBSET Post
        BY <2>2 DEF Typed
      <3>2. Append(feed, Items(l) \ OnScreen) \in Seq(SUBSET Post)
        BY <3>1
      <3>3. <<Items(l)>> \in Seq(SUBSET Post)
        BY <2>2
      <3> QED BY <2>3, <3>2, <3>3
    <2>5. page' \in Screens
      BY <1>0, <1>8, <2>2 DEF Show, Screens
    <2> QED BY <1>8, <2>1, <2>4, <2>5, Initials, LoadTyped DEF Show, Typed, On
  <1>9. ASSUME NEW l \in Load, Escape(l) PROVE Typed'
    <2>1. Waiting \in Loads /\ Waiting.pc = "idle" /\ torn' \in BOOLEAN
      BY <1>9, Initials DEF Escape, Waiting, Typed
    <2> QED BY <1>9, <2>1, LoadTyped DEF Escape, Typed, On
  <1> QED BY <1>1, <1>2, <1>3, <1>4, <1>5, <1>6, <1>7, <1>8, <1>9 DEF Controller

LEMMA KillTyped ==
    ASSUME Typed, Kill
    PROVE  Typed'
  <1>1. pull' \in Pulls /\ pull'.at = 0 /\ pull'.began = 0
    BY Initials DEF Kill, Resting
  <1>2. load' \in [Load -> Loads] /\ load'["look"].pc = "idle" /\ ~On("more", "flush")'
    BY Initials DEF Kill, Waiting, Load, On
  <1>3. page' \in Screens /\ feed' = << >> /\ << >> \in Seq(SUBSET Post)
    BY Initials DEF Kill
  <1>4. 0 \in 0..now
    BY DEF Typed
  <1> QED BY <1>1, <1>2, <1>3, <1>4 DEF Kill, Typed, server

LEMMA TypedInductive == Typed /\ [Next]_vars => Typed'
  <1> SUFFICES ASSUME Typed, [Next]_vars PROVE Typed'
    OBVIOUS
  <1>1. CASE UNCHANGED vars
    BY <1>1 DEF vars, server, sync, screen, history, Typed, On
  <1> QED BY <1>1, ServerTyped, SyncTyped, ControllerTyped, KillTyped DEF Next, Others

----------------------------------------------------------------------------
(* Copies of rows *)

LEMMA PullIs ==
    ASSUME Typed
    PROVE  pull \in Pulls /\ pull.got \in SUBSET Copy /\ \A l \in Load :
               load[l] \in Loads /\ load[l].got \in SUBSET Copy /\ Items(l) \subseteq Post
  <1>1. pull \in Pulls /\ load \in [Load -> Loads]
    BY DEF Typed
  <1>2. pull.got \in SUBSET Copy
    BY <1>1 DEF Pulls
  <1>3. \A l \in Load : load[l] \in Loads /\ load[l].got \in SUBSET (Post \X Nat)
    BY <1>1 DEF Loads
  <1>4. Post \X Nat \subseteq Copy
    BY DEF Copy, Row
  <1>5. \A l \in Load : Items(l) \subseteq Post
    BY <1>3 DEF Items
  <1> QED BY <1>1, <1>2, <1>3, <1>4, <1>5

\* Rows that a delta or a page brings are as old as the server's at most, and there.
LEMMA ShownBehind ==
    ASSUME Typed, Behind, NEW got \in SUBSET Copy, Copies(got), local' = Shown(got, local)
    PROVE  \A x \in Row : local'[x] <= ver[x] /\ (local[x] # 0 => local'[x] # 0)
  <1> SUFFICES ASSUME NEW x \in Row
               PROVE  local'[x] <= ver[x] /\ (local[x] # 0 => local'[x] # 0)
    OBVIOUS
  <1>1. CASE <<x, local'[x]>> \in got
    <2>1. 0 < local'[x] /\ local'[x] <= ver[x]
      BY <1>1 DEF Copies
    <2> QED BY <2>1
  <1>2. CASE local'[x] = local[x]
    BY <1>2 DEF Behind
  <1> QED BY <1>1, <1>2, ShownIs

LEMMA BehindAside ==
    ASSUME Typed, Behind, UNCHANGED <<ver, local, load>>, Copies(pull'.got)
    PROVE  Behind'
  BY DEF Behind, Copies

LEMMA BehindLoads ==
    ASSUME Typed, Behind, UNCHANGED <<ver, local, pull>>, NEW l \in Load,
           \A k \in Load \ {l} : load'[k] = load[k], Copies(load'[l].got)
    PROVE  Behind'
  BY DEF Behind, Copies

LEMMA BehindInductive == Typed /\ Behind /\ [Next]_vars => Behind'
  <1> SUFFICES ASSUME Typed, Behind, [Next]_vars PROVE Behind'
    OBVIOUS
  <1> USE DEF server, screen, sync, history
  <1>0. Copies(Resting.got) /\ Copies(Waiting.got) /\ Copies({})
    BY DEF Copies, Resting, Waiting
  <1>00. load \in [Load -> Loads] /\ Waiting.got = {}
         /\ \A pc, c : /\ [Waiting EXCEPT !.pc = pc].got = {}
                       /\ [Waiting EXCEPT !.pc = pc, !.cursor = c].got = {}
    BY DEF Typed, Waiting
  <1>1. CASE UNCHANGED vars
    BY <1>1 DEF vars, Behind, Copies
  <1>2. ASSUME NEW w \in writing, Commit(w) PROVE Behind'
    <2>1. \A x \in Row : ver[x] \in Nat /\ ver'[x] \in Nat /\ ver[x] <= ver'[x]
      BY <1>2 DEF Commit, Typed
    <2>2. \A x \in Row : local'[x] <= ver'[x]
      BY <1>2, <2>1 DEF Commit, Behind, Typed
    <2>3. ASSUME NEW got \in SUBSET Copy, Copies(got)
          PROVE  \A g \in got : 0 < g[2] /\ g[2] <= ver'[g[1]]
      <3> SUFFICES ASSUME NEW g \in got PROVE g[2] <= ver'[g[1]]
        BY <2>3 DEF Copies
      <3>1. g[1] \in Row /\ g[2] \in Nat /\ g[2] <= ver[g[1]]
        BY <2>3 DEF Copies, Copy
      <3> QED BY <2>1, <3>1
    <2>4. \A g \in pull.got : 0 < g[2] /\ g[2] <= ver'[g[1]]
      BY <2>3, PullIs DEF Behind
    <2>5. \A l \in Load : \A g \in load[l].got : 0 < g[2] /\ g[2] <= ver'[g[1]]
      BY <2>3, PullIs DEF Behind
    <2> QED BY <1>2, <2>2, <2>4, <2>5 DEF Commit, Behind, Copies
  <1>3. CASE Tick \/ (\E x \in Mine \cup Message : Stamp(x)) \/ (\E p \in Post : Relist(p))
    BY <1>3 DEF Tick, Stamp, Relist, Behind, Copies
  <1>4. CASE Push \/ Apply \/ Respond \/ Lose \/ WriteSince
    <2>1. pull'.got = pull.got \/ pull'.got = {}
      <3>1. CASE Lose \/ WriteSince
        BY <3>1 DEF Lose, WriteSince, Resting
      <3>4. CASE Push
        BY <3>4 DEF Push, Resting
      <3>2. CASE Apply
        BY <3>2, PullIs DEF Apply, Pulls
      <3>3. CASE Respond
        BY <3>3, PullIs DEF Respond, PullTo, Pulls
      <3> QED BY <1>4, <3>1, <3>2, <3>3, <3>4
    <2>2. Copies(pull'.got)
      BY <1>0, <2>1 DEF Behind
    <2>3. UNCHANGED <<ver, local, load>>
      BY <1>4 DEF Push, Apply, Respond, Lose, WriteSince
    <2> QED BY <2>2, <2>3, BehindAside
  <1>5. ASSUME NEW c \in Coll, ReadDelta(c) PROVE Behind'
    <2> DEFINE changed == {x \in Rows(c) : ver[x] # 0 /\ stamp[x] > pull.since}
    <2>1. PICK T \in Firsts(changed) : pull' = [pull EXCEPT !.left = @ \ {c},
              !.got = @ \cup {<<x, ver[x]>> : x \in T}, !.over = @ \cup (changed \ T)]
      BY <1>5 DEF ReadDelta
    <2>2. pull'.got = pull.got \cup {<<x, ver[x]>> : x \in T}
      BY <2>1, PullIs DEF Pulls
    <2>3. \A x \in T : x \in Row /\ ver[x] # 0 /\ ver[x] \in Nat
      BY <2>1, RowsIn DEF Firsts, Typed
    <2>4. Copies(pull'.got)
      BY <2>2, <2>3 DEF Behind, Copies
    <2> QED BY <1>5, <2>4, BehindAside DEF ReadDelta
  <1>6. CASE ApplyDelta
    <2>1. UNCHANGED <<ver, load>>
      BY <1>6 DEF ApplyDelta
    <2>2. pull'.got \subseteq pull.got
      <3>1. ASSUME NEW g \in pull.got, pull' = [pull EXCEPT !.got = @ \ {g}]
            PROVE  pull'.got \subseteq pull.got
        BY <3>1, PullIs DEF Pulls
      <3>2. CASE PullTo("mark")
        BY <3>2, PullIs DEF PullTo, Pulls
      <3> QED BY <1>6, <3>1, <3>2 DEF ApplyDelta
    <2>3. \A x \in Row : local'[x] <= ver[x]
      <3>1. ASSUME NEW g \in pull.got, local' = Shown({g}, local)
            PROVE  \A x \in Row : local'[x] <= ver[x]
        <4>1. {g} \in SUBSET Copy /\ Copies({g})
          BY PullIs DEF Behind, Copies
        <4> QED BY <3>1, <4>1, ShownBehind
      <3> QED BY <1>6, <3>1 DEF ApplyDelta, Behind
    <2> QED BY <2>1, <2>2, <2>3 DEF Behind, Copies
  <1>7. ASSUME NEW l \in Load, RefreshFeed(l) \/ Show(l) \/ Escape(l) PROVE Behind'
    <2>1. load'[l].got = {} /\ \A k \in Load \ {l} : load'[k] = load[k]
      BY <1>00, <1>7 DEF RefreshFeed, Show, Escape
    <2> QED BY <1>0, <1>7, <2>1, BehindLoads DEF RefreshFeed, Show, Escape
  <1>8. ASSUME NEW l \in Load, Flushed(l) PROVE Behind'
    <2>1. load'[l].got = load[l].got /\ \A k \in Load \ {l} : load'[k] = load[k]
      <3>1. PICK pc \in {"list", "local"} : load' = [load EXCEPT ![l].pc = pc]
        BY <1>8 DEF Flushed, Goto
      <3>2. load[l] \in Loads
        BY <1>00
      <3> QED BY <1>00, <3>1, <3>2 DEF Loads
    <2> QED BY <1>8, <2>1, BehindLoads DEF Flushed, Behind
  <1>9. CASE LoadMore
    <2>1. "more" \in Load /\ load'["more"].got = {} /\ \A k \in Load \ {"more"} : load'[k] = load[k]
      BY <1>00, <1>9 DEF LoadMore, Load
    <2> QED BY <1>0, <1>9, <2>1, BehindLoads DEF LoadMore
  <1>10. CASE Look
    <2>1. PICK found \in SUBSET {p \in listed : ver[p] # 0} :
              load' = [load EXCEPT !["look"] = [Waiting EXCEPT !.pc = "cache",
                                                   !.got = {<<p, ver[p]>> : p \in found}]]
      BY <1>10 DEF Look
    <2>2. "look" \in Load /\ load'["look"].got = {<<p, ver[p]>> : p \in found}
          /\ \A k \in Load \ {"look"} : load'[k] = load[k]
      BY <1>00, <2>1 DEF Waiting, Typed, Load
    <2>3. \A p \in found : p \in Row /\ ver[p] \in Nat /\ ver[p] # 0
      BY DEF Typed, Row
    <2>4. Copies(load'["look"].got)
      BY <2>2, <2>3 DEF Copies
    <2> QED BY <1>10, <2>2, <2>4, BehindLoads DEF Look
  <1>11. ASSUME NEW l \in Load, Fetch(l) PROVE Behind'
    <2>1. \A k \in Load \ {l} : load'[k] = load[k]
      BY <1>11 DEF Fetch, Goto, Typed
    <2>2. CASE Goto(l, "local")
      <3>1. load'[l].got = load[l].got
        BY <2>2, PullIs DEF Goto, Typed, Loads
      <3> QED BY <1>11, <2>1, <3>1, BehindLoads DEF Fetch, Behind
    <2>3. CASE load' = [load EXCEPT ![l].pc = "cache", ![l].next = List(load[l].cursor).next,
                            ![l].got = {<<x, ver[x]>> : x \in List(load[l].cursor).items}]
      <3>1. load'[l].got = {<<x, ver[x]>> : x \in List(load[l].cursor).items}
        BY <2>3, PullIs DEF Typed, Loads
      <3>2. \A x \in List(load[l].cursor).items : x \in Row /\ ver[x] \in Nat /\ ver[x] # 0
        BY DEF List, Paginate, Typed, Row
      <3>3. Copies(load'[l].got)
        BY <3>1, <3>2 DEF Copies
      <3> QED BY <1>11, <2>1, <3>3, BehindLoads DEF Fetch
    <2> QED BY <1>11, <2>2, <2>3 DEF Fetch
  <1>12. ASSUME NEW l \in Load, CachePosts(l) PROVE Behind'
    <2>1. load'[l].got = {} /\ (\A k \in Load \ {l} : load'[k] = load[k]) /\ UNCHANGED <<ver, pull>>
      BY <1>00, <1>12 DEF CachePosts
    <2>2. \A x \in Row : local'[x] <= ver[x]
      BY <1>12, PullIs, ShownBehind DEF CachePosts, Behind
    <2> QED BY <2>1, <2>2 DEF Behind, Copies
  <1>13. ASSUME NEW l \in Load, ReadPage(l) PROVE Behind'
    <2>1. load'[l].got = {<<x, local[x]>> : x \in ListPostsPage(Start(l)).items}
          /\ \A k \in Load \ {l} : load'[k] = load[k]
      BY <1>00, <1>13 DEF ReadPage, Start, Waiting, Typed
    <2>2. \A x \in ListPostsPage(Start(l)).items : x \in Row /\ local[x] \in Nat /\ local[x] # 0
      BY DEF ListPostsPage, Paginate, Typed, Row
    <2>3. Copies(load'[l].got)
      BY <2>1, <2>2 DEF Copies, Behind
    <2> QED BY <1>13, <2>1, <2>3, BehindLoads DEF ReadPage
  <1>14. CASE Kill
    <2>1. pull'.got = {} /\ \A l \in Load : load'[l].got = {}
      BY <1>14 DEF Kill, Resting, Waiting
    <2> QED BY <1>14, <2>1 DEF Kill, Behind, Copies
  <1> QED BY <1>1, <1>2, <1>3, <1>4, <1>5, <1>6, <1>7, <1>8, <1>9, <1>10, <1>11, <1>12, <1>13, <1>14
          DEF Next, Sync, Controller, Others

----------------------------------------------------------------------------
(* The delta *)

LEMMA OwnRows ==
    /\ Mine \cup Message = UNION {Rows(c) : c \in Coll}
    /\ Mine \cup Message \subseteq Row
    /\ \A c, d \in Coll : c # d => Rows(c) \cap Rows(d) = {}
  <1>1. Coll = {"posts", "messages"} /\ Rows("posts") = Mine /\ Rows("messages") = Message
    BY DEF Coll, Rows
  <1>2. Mine \subseteq Nat /\ Mine \cap Message = {} /\ Mine \cup Message \subseteq Row
    <2>1. Mine \subseteq Post /\ Message \cap Nat = {}
      OBVIOUS
    <2>2. Post \subseteq Nat
      BY DEF Post
    <2> QED BY <2>1, <2>2 DEF Row
  <1> QED BY <1>1, <1>2

\* Neither the POST nor what it is about changes.
LEMMA DeltaStill ==
    ASSUME Delta, UNCHANGED <<ver, stamp, local, since, pull, seen, late, cut, old>>
    PROVE  Delta'
  BY DEF Delta, Marked, OneCopy, Answered, DeltaComplete, Known, Reading

\* Copies reach SQLite: whoever falls behind is known to.
LEMMA KnownGrows ==
    ASSUME Typed, Behind, NEW got \in SUBSET Copy, Copies(got), local' = Shown(got, local),
           Excuses, UNCHANGED ver
    PROVE  \A x \in Row :
              /\ x \in late \cup cut \cup old => Known(x)'
              /\ Known(x) => Known(x)'
              /\ <<x, ver[x]>> \in got /\ (\A g \in got : g[1] = x => g[2] = ver[x]) => Known(x)'
  <1> TAKE x \in Row
  <1>1. /\ local[x] \in Nat /\ local'[x] \in Nat /\ ver[x] \in Nat
        /\ local[x] <= ver[x] /\ local'[x] <= ver[x]
    <2>1. local' \in [Row -> Nat]
      BY ShownIs
    <2>2. local'[x] <= ver[x]
      BY ShownBehind
    <2> QED BY <2>1, <2>2 DEF Typed, Behind
  <1>2. Current(local') = {y \in Row : local'[y] = ver[y]}
    BY DEF Current
  <1>3. /\ old' = (old \cup {y \in Row : local'[y] < local[y]}) \ Current(local')
        /\ late' = late \ Current(local') /\ cut' = cut \ Current(local')
    BY DEF Excuses
  <1>4. x \in late \cup cut \cup old => Known(x)'
    BY <1>2, <1>3 DEF Known
  <1>5. Known(x) => Known(x)'
    <2>1. ASSUME local[x] = ver[x], local'[x] # ver[x] PROVE x \in old'
      BY <1>1, <1>2, <1>3, <2>1
    <2> QED BY <1>4, <2>1 DEF Known
  <1>6. <<x, ver[x]>> \in got /\ (\A g \in got : g[1] = x => g[2] = ver[x]) => Known(x)'
    <2> SUFFICES ASSUME <<x, ver[x]>> \in got, \A g \in got : g[1] = x => g[2] = ver[x]
                 PROVE  local'[x] = ver[x]
      BY DEF Known
    <2>1. <<x, local'[x]>> \in got
      <3>1. <<x, ver[x]>>[1] = x
        OBVIOUS
      <3> QED BY <3>1, ShownIs
    <2>2. <<x, local'[x]>>[1] = x /\ <<x, local'[x]>>[2] = local'[x]
      OBVIOUS
    <2> QED BY <2>1, <2>2
  <1> QED BY <1>4, <1>5, <1>6

LEMMA CommitDelta ==
    ASSUME Typed, Delta, NEW w \in writing, Commit(w)
    PROVE  Delta'
  <1>1. UNCHANGED <<local, since, pull, seen, cut, old>>
    BY DEF Commit
  <1>2. w.row \in Row /\ w.stamp \in Nat
    BY DEF Typed
  <1>3. /\ stamp'[w.row] = w.stamp
        /\ \A x \in Row : x # w.row => stamp'[x] = stamp[x] /\ ver'[x] = ver[x]
    BY <1>2 DEF Commit, Typed
  <1>4. late' = IF Missed(w) THEN late \cup {w.row} ELSE late \ {w.row}
    BY DEF Commit
  <1>5. \A x \in Row : x # w.row /\ Known(x) => Known(x)'
    BY <1>1, <1>3, <1>4 DEF Known
  <1>6. Missed(w) => Known(w.row)'
    BY <1>4 DEF Known
  <1>7. Marked' /\ OneCopy'
    BY <1>1 DEF Delta, Marked, OneCopy
  <1>8. DeltaComplete'
    <2> SUFFICES ASSUME NEW x \in Mine \cup Message, ver'[x] # 0, since # None,
                        seen.first < stamp'[x], stamp'[x] <= since
                 PROVE  Known(x)'
      BY <1>1 DEF DeltaComplete, Known
    <2>1. x \in Row
      BY OwnRows
    <2>2. CASE x = w.row
      <3>1. w.stamp <= seen.last
        BY <1>3, <2>2 DEF Delta, Marked
      <3> QED BY <1>6, <2>2, <3>1 DEF Missed
    <2>3. CASE x # w.row
      <3>1. stamp'[x] = stamp[x] /\ ver'[x] = ver[x]
        BY <1>3, <2>1, <2>3
      <3>2. Known(x)
        BY <3>1 DEF Delta, DeltaComplete, Known
      <3> QED BY <1>5, <2>1, <2>3, <3>2
    <2> QED BY <2>2, <2>3
  <1>9. Answered'
    <2> SUFFICES ASSUME Reading, pull.since # None, NEW c \in Coll \ pull.left, NEW x \in Rows(c),
                        ver'[x] # 0, pull.since < stamp'[x], stamp'[x] <= pull.began
                 PROVE  Known(x)' \/ <<x, ver'[x]>> \in pull.got \/ x \in pull.over
      BY <1>1 DEF Answered, Reading
    <2>1. x \in Row
      BY RowsIn
    <2>2. CASE x = w.row
      <3>1. w.stamp <= pull.began
        BY <1>3, <2>2
      <3> QED BY <1>6, <2>2, <3>1 DEF Missed, Reading
    <2>3. CASE x # w.row
      <3>1. stamp'[x] = stamp[x] /\ ver'[x] = ver[x]
        BY <1>3, <2>1, <2>3
      <3>2. Known(x) \/ <<x, ver[x]>> \in pull.got \/ x \in pull.over
        BY <3>1 DEF Delta, Answered
      <3> QED BY <1>5, <2>1, <2>3, <3>1, <3>2
    <2> QED BY <2>2, <2>3
  <1> QED BY <1>7, <1>8, <1>9 DEF Delta

\* The POST moves on, and the rows stay.
LEMMA PullDelta ==
    ASSUME Delta, UNCHANGED <<ver, stamp, local, since, seen, late, cut, old>>,
           Marked', OneCopy', Answered'
    PROVE  Delta'
  BY DEF Delta, DeltaComplete

LEMMA RestingDelta ==
    ASSUME Delta, UNCHANGED <<ver, stamp, local, since, seen, late, cut, old>>, pull' = Resting
    PROVE  Delta'
  <1>1. pull'.pc = "idle" /\ pull'.at = pull'.began /\ pull'.got = {}
    BY DEF Resting
  <1>2. Marked' /\ OneCopy' /\ Answered'
    BY <1>1 DEF Delta, Marked, OneCopy, Answered, Reading
  <1> QED BY <1>2, PullDelta

LEMMA PushDelta ==
    ASSUME Delta, Push
    PROVE  Delta'
  <1>1. UNCHANGED <<ver, stamp, local, since, seen, late, cut, old>>
    BY DEF Push, server
  <1>2. pull'.pc = "sent" /\ pull'.since = since /\ pull'.at = pull'.began /\ pull'.got = {}
    BY DEF Push, Resting
  <1>3. Marked' /\ OneCopy' /\ Answered'
    BY <1>1, <1>2 DEF Delta, Marked, OneCopy, Answered, Reading
  <1> QED BY <1>1, <1>3, PullDelta

LEMMA ApplyStepDelta ==
    ASSUME Typed, Delta, Apply
    PROVE  Delta'
  <1>1. UNCHANGED <<ver, stamp, local, since, seen, late, cut, old>>
    BY DEF Apply, server
  <1>2. /\ pull'.pc = "reading" /\ pull'.since = pull.since /\ pull'.at = pull'.began
        /\ pull'.got = pull.got /\ pull'.left = IF pull.since = None THEN {} ELSE Coll
    BY PullIs DEF Apply, Pulls
  <1>3. pull.got = {} /\ pull.since = since
    BY DEF Apply, Pulling, Delta, Marked
  <1>4. Marked' /\ OneCopy' /\ Answered'
    BY <1>1, <1>2, <1>3 DEF Delta, Marked, OneCopy, Answered, Reading
  <1> QED BY <1>1, <1>4, PullDelta

LEMMA ReadDeltaDelta ==
    ASSUME Typed, Delta, NEW c \in Coll, ReadDelta(c)
    PROVE  Delta'
  <1>1. UNCHANGED <<ver, stamp, local, since, seen, late, cut, old>>
    BY DEF ReadDelta, server
  <1> DEFINE changed == {x \in Rows(c) : ver[x] # 0 /\ stamp[x] > pull.since}
  <1>2. PICK T \in Firsts(changed) : pull' = [pull EXCEPT !.left = @ \ {c},
            !.got = @ \cup {<<x, ver[x]>> : x \in T}, !.over = @ \cup (changed \ T)]
    BY DEF ReadDelta
  <1>3. /\ pull'.pc = pull.pc /\ pull'.since = pull.since /\ pull'.at = pull.at
        /\ pull'.began = pull.began /\ pull'.left = pull.left \ {c}
        /\ pull'.got = pull.got \cup {<<x, ver[x]>> : x \in T}
        /\ pull'.over = pull.over \cup (changed \ T)
    BY <1>2, PullIs DEF Pulls
  <1>4. T \subseteq changed /\ pull.pc = "reading" /\ c \in pull.left /\ pull.left \subseteq Coll
    BY <1>2, PullIs DEF Firsts, ReadDelta, Pulling, Pulls
  <1>5. \A g \in pull.got : g[1] \notin Rows(c)
    BY <1>4 DEF Delta, OneCopy
  <1>6. Marked'
    BY <1>1, <1>3, <1>4 DEF Delta, Marked
  <1>7. OneCopy'
    <2>1. \A g \in {<<x, ver[x]>> : x \in T} : g[1] \in Rows(c) /\ g = <<g[1], ver[g[1]]>>
      BY <1>4
    <2>2. ASSUME NEW g \in pull'.got, NEW h \in pull'.got, g[1] = h[1] PROVE g = h
      <3>1. CASE g \in pull.got /\ h \in pull.got
        BY <2>2, <3>1 DEF Delta, OneCopy
      <3>2. CASE g \in {<<x, ver[x]>> : x \in T} /\ h \in {<<x, ver[x]>> : x \in T}
        BY <2>1, <2>2, <3>2
      <3>3. CASE g \in pull.got /\ h \in {<<x, ver[x]>> : x \in T}
        BY <1>5, <2>1, <2>2, <3>3
      <3>4. CASE h \in pull.got /\ g \in {<<x, ver[x]>> : x \in T}
        BY <1>5, <2>1, <2>2, <3>4
      <3> QED BY <1>3, <2>2, <3>1, <3>2, <3>3, <3>4
    <2>3. ASSUME NEW g \in pull'.got, NEW d \in pull'.left PROVE g[1] \notin Rows(d)
      <3>1. CASE g \in pull.got
        BY <1>3, <1>4, <2>3, <3>1 DEF Delta, OneCopy
      <3>2. CASE g \in {<<x, ver[x]>> : x \in T}
        <4>1. g[1] \in Rows(c) /\ c # d /\ d \in Coll
          BY <1>3, <1>4, <2>1, <2>3, <3>2
        <4> QED BY <4>1, OwnRows
      <3> QED BY <1>3, <2>3, <3>1, <3>2
    <2> QED BY <2>2, <2>3 DEF OneCopy
  <1>8. Answered'
    <2> SUFFICES ASSUME Reading, pull.since # None, NEW d \in Coll \ pull'.left, NEW x \in Rows(d),
                        ver[x] # 0, pull.since < stamp[x], stamp[x] <= pull.began
                 PROVE  Known(x) \/ <<x, ver[x]>> \in pull'.got \/ x \in pull'.over
      BY <1>1, <1>3 DEF Answered, Reading, Known
    <2>1. CASE d = c
      <3>1. x \in changed
        <4>1. stamp[x] \in Nat /\ pull.since \in Nat
          BY RowsIn, PullIs DEF Typed, Pulls
        <4> QED BY <2>1, <4>1
      <3> QED BY <1>3, <3>1
    <2>2. CASE d # c
      <3>1. d \in Coll \ pull.left
        BY <1>3, <2>2
      <3> QED BY <1>3, <3>1 DEF Delta, Answered
    <2> QED BY <2>1, <2>2
  <1> QED BY <1>1, <1>6, <1>7, <1>8, PullDelta

LEMMA RespondDelta ==
    ASSUME Typed, Delta, Respond
    PROVE  Delta'
  <1>1. UNCHANGED <<ver, stamp, local, since, seen, late, cut, old>>
    BY DEF Respond, server
  <1>2. /\ pull'.pc = "apply" /\ pull'.since = pull.since /\ pull'.at = pull.at
        /\ pull'.began = pull.began /\ pull'.left = pull.left /\ pull'.got = pull.got
        /\ pull'.over = pull.over /\ pull.pc = "reading" /\ pull.left = {}
    BY PullIs DEF Respond, PullTo, Pulling, Pulls
  <1>3. Marked' /\ OneCopy'
    BY <1>1, <1>2 DEF Delta, Marked, OneCopy
  <1>4. Answered'
    BY <1>1, <1>2 DEF Delta, Answered, Reading, Known
  <1> QED BY <1>1, <1>3, <1>4, PullDelta

\* SQLite takes rows, and nobody is forgotten.
LEMMA DeltaKept ==
    ASSUME Delta, UNCHANGED <<ver, stamp, since, seen>>, Marked', OneCopy',
           \A x \in Row : Known(x) => Known(x)',
           Reading' => Reading, pull'.since = pull.since, pull'.began = pull.began,
           pull'.left = pull.left, pull'.over = pull.over,
           \A x \in Row : <<x, ver[x]>> \in pull.got => Known(x)' \/ <<x, ver[x]>> \in pull'.got
    PROVE  Delta'
  <1>1. DeltaComplete'
    <2> SUFFICES ASSUME NEW x \in Mine \cup Message, ver[x] # 0, since # None,
                        seen.first < stamp[x], stamp[x] <= since
                 PROVE  Known(x)'
      BY DEF DeltaComplete, Known
    <2>1. x \in Row /\ Known(x)
      BY OwnRows DEF Delta, DeltaComplete, Known
    <2> QED BY <2>1
  <1>2. Answered'
    <2> SUFFICES ASSUME Reading, pull.since # None, NEW c \in Coll \ pull.left, NEW x \in Rows(c),
                        ver[x] # 0, pull.since < stamp[x], stamp[x] <= pull.began
                 PROVE  Known(x)' \/ <<x, ver[x]>> \in pull'.got \/ x \in pull.over
      BY DEF Answered
    <2>1. x \in Row /\ (Known(x) \/ <<x, ver[x]>> \in pull.got \/ x \in pull.over)
      BY RowsIn DEF Delta, Answered
    <2> QED BY <2>1
  <1> QED BY <1>1, <1>2 DEF Delta

LEMMA ApplyDeltaDelta ==
    ASSUME Typed, Behind, Delta, ApplyDelta
    PROVE  Delta'
  <1>1. UNCHANGED <<ver, stamp, since, seen>> /\ pull.pc = "apply"
    BY DEF ApplyDelta, server, Pulling
  <1>2. ASSUME NEW g \in pull.got, local' = Shown({g}, local), pull' = [pull EXCEPT !.got = @ \ {g}]
        PROVE  Delta'
    <2>1. /\ pull'.pc = pull.pc /\ pull'.since = pull.since /\ pull'.at = pull.at
          /\ pull'.began = pull.began /\ pull'.left = pull.left /\ pull'.over = pull.over
          /\ pull'.got = pull.got \ {g}
      BY <1>2, PullIs DEF Pulls
    <2>2. Marked' /\ OneCopy' /\ (Reading' => Reading)
      BY <1>1, <2>1 DEF Delta, Marked, OneCopy, Reading
    <2>3. {g} \in SUBSET Copy /\ Copies({g})
      BY PullIs DEF Behind, Copies
    <2>4. \A x \in Row : /\ Known(x) => Known(x)'
                         /\ <<x, ver[x]>> \in {g} /\ (\A h \in {g} : h[1] = x => h[2] = ver[x])
                               => Known(x)'
      BY <1>1, <1>2, <2>3, KnownGrows DEF ApplyDelta
    <2>5. ASSUME NEW x \in Row, <<x, ver[x]>> \in pull.got
          PROVE  Known(x)' \/ <<x, ver[x]>> \in pull'.got
      <3>1. CASE g = <<x, ver[x]>>
        <4>1. g[2] = ver[x]
          BY <3>1
        <4> QED BY <2>4, <3>1, <4>1
      <3>2. CASE g # <<x, ver[x]>>
        BY <2>1, <2>5, <3>2
      <3> QED BY <3>1, <3>2
    <2>6. \A x \in Row : Known(x) => Known(x)'
      BY <2>4
    <2> QED BY <1>1, <2>1, <2>2, <2>5, <2>6, DeltaKept
  <1>3. ASSUME pull.got = {}, PullTo("mark"), UNCHANGED local PROVE Delta'
    <2>1. /\ pull'.pc = "mark" /\ pull'.since = pull.since /\ pull'.at = pull.at
          /\ pull'.began = pull.began /\ pull'.left = pull.left /\ pull'.over = pull.over
          /\ pull'.got = {}
      BY <1>3, PullIs DEF Pulls, PullTo
    <2>2. Marked' /\ OneCopy' /\ Reading
      BY <1>1, <2>1 DEF Delta, Marked, OneCopy, Reading
    <2>3. ASSUME NEW x \in Row, Known(x) PROVE Known(x)'
      <3>1. CASE local[x] = ver[x]
        BY <1>1, <1>3, <3>1 DEF Known
      <3>2. CASE local[x] # ver[x]
        <4>1. x \notin Current(local') /\ x \in late \cup cut \cup old
          BY <1>3, <2>3, <3>2 DEF Current, Known
        <4> QED BY <4>1 DEF ApplyDelta, Excuses, Known
      <3> QED BY <3>1, <3>2
    <2> QED BY <1>1, <1>3, <2>1, <2>2, <2>3, DeltaKept
  <1> QED BY <1>2, <1>3 DEF ApplyDelta

LEMMA CacheDelta ==
    ASSUME Typed, Behind, Delta, NEW l \in Load, CachePosts(l)
    PROVE  Delta'
  <1>1. UNCHANGED <<ver, stamp, since, seen, pull>>
    BY DEF CachePosts, server
  <1>2. load[l].got \in SUBSET Copy /\ Copies(load[l].got)
    BY PullIs DEF Behind
  <1>3. \A x \in Row : Known(x) => Known(x)'
    BY <1>1, <1>2, KnownGrows DEF CachePosts
  <1>4. Marked' /\ OneCopy' /\ (Reading' => Reading)
    BY <1>1 DEF Delta, Marked, OneCopy, Reading
  <1> QED BY <1>1, <1>3, <1>4, DeltaKept

\* The mark moves past what the delta brought.
LEMMA WriteSinceDelta ==
    ASSUME Typed, Delta, WriteSince
    PROVE  Delta'
  <1>1. UNCHANGED <<ver, stamp, local, late, old>> /\ pull.pc = "mark"
    BY DEF WriteSince, server, Pulling
  <1>2. /\ since' = pull.began /\ seen'.last = pull.began
        /\ seen'.first = IF since = None THEN pull.began ELSE seen.first
        /\ cut' = cut \cup (pull.over \ Current(local))
    BY DEF WriteSince, Delta, Marked
  <1>3. pull' = Resting /\ pull'.pc = "idle" /\ pull'.at = pull'.began /\ pull'.got = {}
    BY DEF WriteSince, Resting
  <1>4. pull.left = {} /\ pull.got = {} /\ pull.since = since /\ pull.began \in Nat
    BY <1>1, PullIs DEF Delta, Marked, Pulls
  <1>5. Marked' /\ OneCopy' /\ Answered'
    BY <1>2, <1>3 DEF Marked, OneCopy, Answered, Reading
  <1>6. DeltaComplete'
    <2> SUFFICES ASSUME NEW x \in Mine \cup Message, ver[x] # 0, seen'.first < stamp[x],
                        stamp[x] <= pull.began
                 PROVE  Known(x)'
      BY <1>1, <1>2 DEF DeltaComplete, Known
    <2>1. x \in Row /\ stamp[x] \in Nat
      BY OwnRows DEF Typed
    <2>2. since # None /\ seen.first < stamp[x] /\ since \in Nat
      <3>1. since # None
        BY <1>2, <1>4, <2>1
      <3> QED BY <1>2, <3>1 DEF Typed
    <2>3. Known(x) \/ x \in pull.over
      <3>1. CASE stamp[x] <= since
        BY <2>2, <3>1 DEF Delta, DeltaComplete, Known
      <3>2. CASE since < stamp[x]
        <4>1. PICK c \in Coll : x \in Rows(c)
          BY OwnRows
        <4>2. Reading /\ pull.since # None
          BY <1>1, <1>4, <2>2 DEF Reading
        <4> QED BY <1>4, <3>2, <4>1, <4>2 DEF Delta, Answered
      <3> QED BY <2>1, <2>2, <3>1, <3>2
    <2>4. Known(x) => Known(x)'
      BY <1>1, <1>2 DEF Known
    <2>5. x \in pull.over => Known(x)'
      BY <1>1, <1>2, <2>1 DEF Known, Current
    <2> QED BY <2>3, <2>4, <2>5
  <1> QED BY <1>5, <1>6 DEF Delta

LEMMA DeltaInductive == Typed /\ Behind /\ Delta /\ [Next]_vars => Delta'
  <1> SUFFICES ASSUME Typed, Behind, Delta, [Next]_vars PROVE Delta'
    OBVIOUS
  <1> USE DEF server, screen, sync, history
  <1>1. CASE Lose \/ Kill
    BY <1>1, RestingDelta DEF Lose, Kill
  <1>2. CASE LoadMore \/ Look \/ Tick \/ UNCHANGED vars
    BY <1>2, DeltaStill DEF LoadMore, Look, Tick, vars
  <1>3. ASSUME NEW l \in Load,
               RefreshFeed(l) \/ Flushed(l) \/ Fetch(l) \/ Escape(l) \/ ReadPage(l) \/ Show(l)
        PROVE  Delta'
    BY <1>3, DeltaStill DEF RefreshFeed, Flushed, Fetch, Escape, ReadPage, Show
  <1>4. CASE (\E x \in Mine \cup Message : Stamp(x)) \/ (\E p \in Post : Relist(p))
    BY <1>4, DeltaStill DEF Stamp, Relist
  <1>5. CASE Sync
    BY <1>1, <1>5, PushDelta, ApplyStepDelta, ReadDeltaDelta, RespondDelta, ApplyDeltaDelta,
       WriteSinceDelta DEF Sync
  <1> QED BY <1>1, <1>2, <1>3, <1>4, <1>5, CommitDelta, CacheDelta DEF Next, Controller, Others

----------------------------------------------------------------------------
(* The feed *)

LEMMA FeedPages ==
    ASSUME Typed, NEW items \in SUBSET Post
    PROVE  /\ \A n \in DOMAIN feed : feed[n] \subseteq OnScreen
           /\ OnScreen \subseteq Post
           /\ feed' = Append(feed, items) =>
                 /\ DOMAIN feed' = DOMAIN feed \cup {Len(feed) + 1}
                 /\ DOMAIN feed = 1..Len(feed) /\ Len(feed) \in Nat
                 /\ feed'[Len(feed) + 1] = items /\ \A n \in DOMAIN feed : feed'[n] = feed[n]
                 /\ OnScreen' = OnScreen \cup items
           /\ feed' = <<items>> => DOMAIN feed' = {1} /\ feed'[1] = items /\ OnScreen' = items
  <1>1. feed \in Seq(SUBSET Post) /\ DOMAIN feed = 1..Len(feed) /\ Len(feed) \in Nat
    BY DEF Typed
  <1>2. (\A n \in DOMAIN feed : feed[n] \subseteq OnScreen) /\ OnScreen \subseteq Post
    BY <1>1 DEF OnScreen
  <1>3. ASSUME feed' = Append(feed, items)
        PROVE  /\ DOMAIN feed' = DOMAIN feed \cup {Len(feed) + 1}
               /\ feed'[Len(feed) + 1] = items /\ \A n \in DOMAIN feed : feed'[n] = feed[n]
               /\ OnScreen' = OnScreen \cup items
    <2>1. /\ DOMAIN feed' = 1..(Len(feed) + 1) /\ feed'[Len(feed) + 1] = items
          /\ \A n \in 1..Len(feed) : feed'[n] = feed[n]
      BY <1>1, <1>3
    <2>2. 1..(Len(feed) + 1) = 1..Len(feed) \cup {Len(feed) + 1}
      BY <1>1
    <2>3. OnScreen' = OnScreen \cup items
      BY <1>1, <2>1, <2>2 DEF OnScreen
    <2> QED BY <1>1, <2>1, <2>2, <2>3
  <1>4. ASSUME feed' = <<items>>
        PROVE  DOMAIN feed' = {1} /\ feed'[1] = items /\ OnScreen' = items
    <2>1. DOMAIN feed' = {1} /\ feed'[1] = items
      BY <1>4
    <2> QED BY <2>1 DEF OnScreen
  <1> QED BY <1>1, <1>2, <1>3, <1>4

\* SQLite only gains posts, and no load of the feed moves.
LEMMA ScreenAside ==
    ASSUME Typed, Screen, UNCHANGED <<feed, page, brought, torn>>,
           \A k \in Load \ {"look"} : load'[k] = load[k],
           \A x \in Row : local[x] # 0 => local'[x] # 0
    PROVE  Screen'
  <1>1. Feeding' = Feeding /\ \A l \in Feeding : l \in Load \ {"look"} /\ load'[l] = load[l]
    BY DEF Feeding, On
  <1>2. Post \subseteq Row /\ \A c : Below(c) \subseteq Below(c)'
    BY DEF Row, Below
  <1>3. Scrolled' = Scrolled /\ Asking' = Asking /\ OnScreen' = OnScreen
    BY DEF Scrolled, Asking, Ordered, OnScreen
  <1>4. \A c : Covered(c) => Covered(c)'
    <2> SUFFICES ASSUME NEW c, Asking, NEW B \in SUBSET Below(c),
                        Cardinality(B) >= PageLimit /\ \A p \in B : page.remote <= p
                 PROVE  Covered(c)'
      BY <1>3 DEF Covered
    <2>1. B \in SUBSET Below(c)'
      BY <1>2
    <2> QED BY <2>1 DEF Covered
  <1>5. \A p \in brought' : local'[p] # 0
    BY <1>2 DEF Screen, Typed
  <1>6. Distinct'
    BY DEF Screen, Distinct
  <1>7. ASSUME ~torn PROVE Alone'
    <2>1. Alone
      BY <1>7 DEF Screen
    <2>2. ASSUME NEW l \in Feeding
          PROVE  /\ Fetching(l)' = Fetching(l)
                 /\ Fetched(l)' = Fetched(l)
                 /\ Listed(l)' = Listed(l)
                 /\ Start(l)' = Start(l)
      <3>1. load'[l] = load[l]
        BY <1>1
      <3>2. Start(l)' = Start(l) /\ Items(l)' = Items(l)
        BY <3>1 DEF Start, Items
      <3>3. Within(l)' = Within(l)
        BY <3>1, <3>2 DEF Within
      <3> QED BY <1>3, <3>1, <3>2, <3>3 DEF Fetching, Fetched, Listed
    <2>3. \A l \in Feeding :
             /\ l = "more" => page'.cursor # 0
             /\ l # "more" /\ load'[l].pc \in {"flush", "list", "cache"} => brought' = {}
             /\ load'[l].pc \in {"flush", "list"} => Fetching(l)'
             /\ On(l, "cache")' => Fetched(l)'
             /\ On(l, "local")' => Covered(Start(l))'
             /\ On(l, "show")' => Listed(l)'
      <3> TAKE l \in Feeding
      <3>1. load'[l] = load[l] /\ \A pc : On(l, pc)' = On(l, pc)
        BY <1>1 DEF On
      <3>2. Covered(Start(l)) => Covered(Start(l))'
        BY <1>4, <2>2
      <3> QED BY <2>1, <2>2, <3>1, <3>2 DEF Alone
    <2> QED BY <1>1, <1>3, <2>1, <2>3 DEF Alone
  <1> QED BY <1>5, <1>6, <1>7 DEF Screen

\* The load that nothing disturbs is the only one.
LEMMA OnlyOne ==
    ASSUME Screen, ~torn, NEW l \in Feeding
    PROVE  Alone /\ Feeding = {l}
  BY DEF Screen, Alone

LEMMA FeedingIs ==
    ASSUME Typed, NEW l \in Load \ {"look"}, Feeding \subseteq {l}, NEW q,
           load' = [load EXCEPT ![l] = q]
    PROVE  /\ load'[l] = q
           /\ Feeding' = IF q.pc = "idle" THEN {} ELSE {l}
           /\ \A pc : On(l, pc)' <=> q.pc = pc
  <1>1. load'[l] = q /\ \A k \in Load : k # l => load'[k] = load[k]
    BY DEF Typed
  <1>2. \A k \in Load \ {"look"} : k # l => load'[k].pc = "idle"
    BY <1>1 DEF Feeding, On
  <1> QED BY <1>1, <1>2 DEF Feeding, On

LEMMA RefreshScreen ==
    ASSUME Typed, Screen, NEW l \in Load, RefreshFeed(l)
    PROVE  Screen'
  <1>1. l \in Load \ {"look"} /\ l # "more" /\ brought' = {} /\ UNCHANGED <<local, feed>>
    BY DEF RefreshFeed, server, Load
  <1>2. Distinct'
    BY <1>1 DEF Screen, Distinct
  <1>3. ASSUME ~torn' PROVE Alone'
    <2>1. Feeding = {}
      BY <1>3 DEF RefreshFeed
    <2> DEFINE q == [Waiting EXCEPT !.pc = "flush"]
    <2>2. load' = [load EXCEPT ![l] = q] /\ q.pc = "flush" /\ q.cursor = 0
      BY DEF RefreshFeed, Waiting
    <2> HIDE DEF q
    <2>3. Feeding' = {l} /\ load'[l] = q /\ \A pc : On(l, pc)' <=> pc = "flush"
      BY <1>1, <2>1, <2>2, FeedingIs
    <2>4. page'.remote = 0 /\ ~page'.exhausted
      BY DEF RefreshFeed, Typed, Screens
    <2>5. Fetching(l)'
      BY <1>1, <2>2, <2>3, <2>4 DEF Fetching
    <2> QED BY <1>1, <2>2, <2>3, <2>5 DEF Alone
  <1> QED BY <1>1, <1>2, <1>3 DEF Screen

LEMMA FlushedScreen ==
    ASSUME Typed, Screen, NEW l \in Load, Flushed(l)
    PROVE  Screen'
  <1>1. UNCHANGED <<local, feed, page, brought, torn>> /\ On(l, "flush")
    BY DEF Flushed, server, screen, history
  <1>2. l \in Load \ {"look"} /\ l # "more" /\ l \in Feeding
    BY <1>1 DEF Typed, On, Feeding, Load
  <1>3. Distinct' /\ \A p \in brought' : local'[p] # 0
    BY <1>1 DEF Screen, Distinct
  <1>4. ASSUME ~torn PROVE Alone'
    <2>1. Alone /\ Feeding = {l}
      BY <1>2, <1>4, OnlyOne
    <2>2. Fetching(l) /\ brought = {}
      BY <1>1, <1>2, <2>1 DEF Alone, On
    <2>3. PICK pc \in {"list", "local"} : load' = [load EXCEPT ![l].pc = pc]
      BY DEF Flushed, Goto
    <2> DEFINE q == [load[l] EXCEPT !.pc = pc]
    <2>4. load' = [load EXCEPT ![l] = q] /\ q.pc = pc /\ q.cursor = load[l].cursor
      BY <2>3, PullIs DEF Typed, Loads
    <2> HIDE DEF q
    <2>5. Feeding' = {l} /\ load'[l] = q /\ \A x : On(l, x)' <=> pc = x
      BY <1>2, <2>1, <2>3, <2>4, FeedingIs
    <2>6. Fetching(l)'
      BY <1>1, <1>2, <2>2, <2>4, <2>5 DEF Fetching
    <2>7. Covered(Start(l))'
      BY <1>1, <1>2, <2>2 DEF Covered, Asking, Fetching
    <2> QED BY <1>1, <1>2, <2>2, <2>3, <2>4, <2>5, <2>6, <2>7 DEF Alone
  <1> QED BY <1>1, <1>3, <1>4 DEF Screen

\* A page that does not come leaves the feed and its cursors; a refresh that throws
\* leaves a feed nothing is said of.
LEMMA EscapeScreen ==
    ASSUME Typed, Screen, NEW l \in Load, Escape(l)
    PROVE  Screen'
  <1>1. UNCHANGED <<local, feed, page, brought>> /\ load[l].pc \in {"flush", "list"}
    BY DEF Escape, server
  <1>2. l \in Load \ {"look"} /\ l \in Feeding
    BY <1>1 DEF Typed, On, Feeding, Load
  <1>3. Distinct' /\ \A p \in brought' : local'[p] # 0
    BY <1>1 DEF Screen, Distinct
  <1>4. ASSUME ~torn' PROVE Alone'
    <2>1. ~torn /\ l = "more"
      BY <1>4 DEF Escape, Typed
    <2>2. Alone /\ Feeding = {l}
      BY <1>2, <2>1, OnlyOne
    <2>3. Fetching(l) /\ Scrolled
      BY <1>1, <1>2, <2>1, <2>2 DEF Alone, On
    <2>4. Feeding' = {}
      <3>1. load' = [load EXCEPT ![l] = Waiting] /\ Waiting.pc = "idle"
        BY DEF Escape, Waiting
      <3> QED BY <1>2, <2>2, <3>1, FeedingIs
    <2>5. Scrolled' /\ page'.remote <= page'.cursor
      BY <1>1, <2>1, <2>3 DEF Scrolled, Ordered, OnScreen, Fetching
    <2> QED BY <2>4, <2>5 DEF Alone
  <1> QED BY <1>1, <1>3, <1>4 DEF Screen

LEMMA MoreScreen ==
    ASSUME Typed, Screen, LoadMore
    PROVE  Screen'
  <1>1. UNCHANGED <<local, feed, page, brought>> /\ page.cursor # 0
    BY DEF LoadMore, server, screen
  <1>2. Distinct' /\ \A p \in brought' : local'[p] # 0
    BY <1>1 DEF Screen, Distinct
  <1>3. ASSUME ~torn' PROVE Alone'
    <2>0. PICK online \in BOOLEAN :
            /\ load' = [load EXCEPT !["more"] = [Waiting EXCEPT
                           !.pc = IF online /\ Asking THEN "list" ELSE "local",
                           !.cursor = page.remote]]
            /\ torn' = (torn \/ Feeding # {} \/ (Asking /\ ~online))
      BY DEF LoadMore, Asking
    <2>1. ~torn /\ Feeding = {} /\ (Asking => online) /\ "more" \in Load \ {"look"}
      BY <1>3, <2>0 DEF Load
    <2>2. Alone
      BY <2>1 DEF Screen
    <2>3. PICK q : /\ load' = [load EXCEPT !["more"] = q] /\ q.cursor = page.remote
                   /\ q.pc = IF Asking THEN "list" ELSE "local"
      <3> DEFINE q == [Waiting EXCEPT !.pc = IF online /\ Asking THEN "list" ELSE "local",
                                      !.cursor = page.remote]
      <3>1. load' = [load EXCEPT !["more"] = q]
        BY <2>0
      <3>2. q.cursor = page.remote /\ q.pc = IF online /\ Asking THEN "list" ELSE "local"
        BY DEF Waiting
      <3> HIDE DEF q
      <3> QED BY <2>1, <3>1, <3>2
    <2>4. Feeding' = {"more"} /\ load'["more"] = q /\ \A pc : On("more", pc)' <=> q.pc = pc
      BY <2>1, <2>3, FeedingIs
    <2>5. Scrolled' /\ Asking' = Asking
      BY <1>1, <2>1, <2>2 DEF Alone, Scrolled, Ordered, OnScreen, Asking
    <2>6. CASE Asking
      <3>1. page.remote <= page.cursor
        BY <1>1, <2>1, <2>2, <2>6 DEF Alone
      <3>2. Fetching("more")'
        BY <1>1, <2>3, <2>4, <2>5, <2>6, <3>1 DEF Fetching
      <3> QED BY <1>1, <2>3, <2>4, <2>5, <2>6, <3>2 DEF Alone
    <2>7. CASE ~Asking
      <3>1. Covered(Start("more"))'
        BY <2>5, <2>7 DEF Covered
      <3> QED BY <1>1, <2>3, <2>4, <2>5, <2>7, <3>1 DEF Alone
    <2> QED BY <2>6, <2>7
  <1> QED BY <1>1, <1>2, <1>3 DEF Screen

LEMMA ItemsAre ==
    ASSUME NEW l \in Load, NEW S, NEW f,
           \A x \in S : <<x, f[x]>> \in load'[l].got,
           \A g \in load'[l].got : \E x \in S : g = <<x, f[x]>>
    PROVE  Items(l)' = S
  <1>1. \A g \in load'[l].got : g[1] \in S
    OBVIOUS
  <1>2. \A x \in S : \E g \in load'[l].got : g[1] = x
    OBVIOUS
  <1> QED BY <1>1, <1>2 DEF Items

LEMMA FetchScreen ==
    ASSUME Typed, Screen, NEW l \in Load, Fetch(l)
    PROVE  Screen'
  <1>1. UNCHANGED <<local, feed, brought, ver, listed>> /\ On(l, "list")
    BY DEF Fetch, server
  <1>2. l \in Load \ {"look"} /\ l \in Feeding
    BY <1>1 DEF Typed, On, Feeding, Load
  <1>3. Distinct' /\ \A p \in brought' : local'[p] # 0
    BY <1>1 DEF Screen, Distinct
  <1>4. page'.cursor = page.cursor /\ (torn => torn')
    BY DEF Fetch, Typed, Screens
  <1>5. ASSUME ~torn' PROVE Alone'
    <2>1. ~torn /\ Alone /\ Feeding = {l}
      BY <1>2, <1>4, <1>5, OnlyOne
    <2>2. /\ Fetching(l)
          /\ l # "more" => brought = {}
          /\ l = "more" => page.cursor # 0
          /\ Feeding \subseteq {"more"} => Scrolled
      BY <1>1, <1>2, <2>1 DEF Alone, On
    <2>3. Start(l)' = Start(l) /\ Scrolled' = Scrolled
      BY <1>1, <1>4 DEF Start, Scrolled, Ordered, OnScreen
    <2>4. ASSUME NEW q, load' = [load EXCEPT ![l] = q], q.pc \in {"cache", "local"},
                 q.pc = "cache" => Fetched(l)', q.pc = "local" => ~Asking'
          PROVE  Alone'
      <3>1. Feeding' = {l} /\ load'[l] = q /\ \A x : On(l, x)' <=> q.pc = x
        BY <1>2, <2>1, <2>4, FeedingIs
      <3>2. q.pc = "local" => Covered(Start(l))'
        BY <2>4 DEF Covered
      <3> QED BY <1>1, <1>2, <1>4, <2>1, <2>2, <2>3, <2>4, <3>1, <3>2 DEF Alone
    <2>5. ASSUME load' = [load EXCEPT ![l].pc = "cache", ![l].next = List(load[l].cursor).next,
                             ![l].got = {<<x, ver[x]>> : x \in List(load[l].cursor).items}]
          PROVE  Alone'
      <3> DEFINE S == {p \in listed : ver[p] # 0}
                 c == load[l].cursor
                 q == [load[l] EXCEPT !.pc = "cache", !.next = List(c).next,
                                      !.got = {<<x, ver[x]>> : x \in List(c).items}]
      <3>1. load' = [load EXCEPT ![l] = q] /\ q.pc = "cache" /\ q.next = List(c).next
            /\ q.got = {<<x, ver[x]>> : x \in List(c).items}
        BY <2>5, PullIs DEF Typed, Loads
      <3>2. load'[l] = q
        BY <3>1 DEF Typed
      <3>4. S \in SUBSET Post /\ c \in 0..MaxPost /\ List(c) = Paginate(S, c)
        BY PullIs DEF Typed, Loads, List
      <3> HIDE DEF q, S
      <3>3. Items(l)' = List(c).items /\ load'[l].next = List(c).next
        <4>1. load'[l].got = {<<x, ver[x]>> : x \in List(c).items}
          BY <3>1, <3>2
        <4>2. /\ \A x \in List(c).items : <<x, ver[x]>> \in load'[l].got
              /\ \A g \in load'[l].got : \E x \in List(c).items : g = <<x, ver[x]>>
          BY <4>1
        <4>3. Items(l)' = List(c).items
          BY <4>2, ItemsAre
        <4> QED BY <3>1, <3>2, <4>3
      <3>5. /\ List(c).items \subseteq After(S, c) /\ List(c).next \in 0..MaxPost
            /\ \A p \in List(c).items : List(c).next <= p
            /\ List(c).next # 0 =>
                 List(c).next \in List(c).items /\ Cardinality(List(c).items) >= PageLimit
        BY <3>4, PageOf
      <3>6. ASSUME NEW p \in List(c).items PROVE Start(l) = 0 \/ p < Start(l)
        <4>0. page.cursor \in Nat /\ c \in Nat
          BY <3>4 DEF Typed, Screens
        <4>1. p \in Nat /\ page.cursor \in Nat /\ c \in Nat /\ (c = 0 \/ p < c)
          <5>1. p \in Post /\ (c = 0 \/ p < c)
            BY <3>4, <3>5 DEF After
          <5> QED BY <4>0, <5>1 DEF Post
        <4>2. l = "more" => c # 0 /\ c <= page.cursor
          BY <2>2 DEF Fetching, Asking
        <4> QED BY <4>1, <4>2 DEF Start
      <3>7. Fetched(l)'
        BY <2>3, <3>3, <3>5, <3>6 DEF Fetched, Within
      <3> QED BY <2>4, <3>1, <3>7
    <2>6. ASSUME load' = [load EXCEPT ![l].pc = "local"], ~Asking' PROVE Alone'
      <3> DEFINE q == [load[l] EXCEPT !.pc = "local"]
      <3>1. load' = [load EXCEPT ![l] = q] /\ q.pc = "local"
        BY <2>6, PullIs DEF Typed, Loads
      <3> HIDE DEF q
      <3> QED BY <2>4, <2>6, <3>1
    <2>7. ASSUME torn' = (torn \/ l = "more"), UNCHANGED page PROVE ~Asking'
      BY <1>5, <2>2, <2>7 DEF Fetching, Asking
    <2>8. ASSUME page' = [page EXCEPT !.exhausted = @ \/ l = "more"] PROVE ~Asking'
      BY <2>2, <2>8 DEF Fetching, Asking, Typed, Screens
    <2> QED BY <2>5, <2>6, <2>7, <2>8 DEF Fetch, Goto
  <1> QED BY <1>1, <1>3, <1>5 DEF Screen

\* What a page brings is in SQLite from then on.
LEMMA CacheScreen ==
    ASSUME Typed, Behind, Screen, NEW l \in Load, CachePosts(l)
    PROVE  Screen'
  <1>1. /\ UNCHANGED <<feed, torn>> /\ On(l, "cache") /\ local' = Shown(load[l].got, local)
        /\ load[l].got \in SUBSET Copy /\ Copies(load[l].got) /\ load[l] \in Loads
    BY PullIs DEF CachePosts, Behind
  <1>2. \A x \in Row : local[x] # 0 => local'[x] # 0
    BY <1>1, ShownBehind
  <1>3. Items(l) \subseteq Post /\ \A p \in Items(l) : local'[p] # 0
    <2>1. \A g \in load[l].got : <<g[1], local'[g[1]]>> \in load[l].got
      BY <1>1, ShownIs
    <2>2. \A g \in load[l].got : local'[g[1]] # 0
      <3> SUFFICES ASSUME NEW g \in load[l].got PROVE local'[g[1]] # 0
        OBVIOUS
      <3>1. 0 < local'[g[1]]
        BY <1>1, <2>1 DEF Copies
      <3> QED BY <3>1
    <2> QED BY <2>2, PullIs DEF Items
  <1>4. CASE l = "look"
    <2>1. UNCHANGED <<page, brought>> /\ \A k \in Load \ {"look"} : load'[k] = load[k]
      BY <1>4 DEF CachePosts, Typed
    <2> QED BY <1>1, <1>2, <2>1, ScreenAside
  <1>5. CASE l # "look"
    <2> DEFINE q == [Waiting EXCEPT !.pc = "local"]
    <2>1. /\ load' = [load EXCEPT ![l] = q] /\ q.pc = "local"
          /\ brought' = brought \cup Items(l)
          /\ page'.remote = load[l].next /\ page'.exhausted = (load[l].next = 0)
          /\ page'.cursor = page.cursor
      <3>1. /\ load' = [load EXCEPT ![l] = q]
            /\ page' = [page EXCEPT !.remote = load[l].next, !.exhausted = (load[l].next = 0)]
            /\ brought' = brought \cup {g[1] : g \in load[l].got}
        BY <1>5 DEF CachePosts
      <3>2. q.pc = "local"
        BY DEF Waiting
      <3>3. page \in Screens
        BY DEF Typed
      <3>4. /\ page'.remote = load[l].next /\ page'.exhausted = (load[l].next = 0)
            /\ page'.cursor = page.cursor
        BY <3>1, <3>3 DEF Screens
      <3> QED BY <3>1, <3>2, <3>4 DEF Items
    <2> HIDE DEF q
    <2>2. l \in Load \ {"look"} /\ l \in Feeding
      BY <1>1, <1>5 DEF On, Feeding
    <2>3. Distinct' /\ \A p \in brought' : local'[p] # 0
      <3>1. \A p \in brought : p \in Row /\ local[p] # 0
        BY DEF Screen, Typed, Row
      <3> QED BY <1>1, <1>2, <1>3, <2>1, <3>1 DEF Screen, Distinct
    <2>4. ASSUME ~torn PROVE Alone'
      <3>1. Alone /\ Feeding = {l}
        BY <2>2, <2>4, OnlyOne
      <3>2. /\ Fetched(l)
            /\ l = "more" => page.cursor # 0
            /\ Feeding \subseteq {"more"} => Scrolled
        BY <1>1, <2>2, <3>1 DEF Alone
      <3>3. Feeding' = {l} /\ load'[l] = q /\ \A x : On(l, x)' <=> q.pc = x
        BY <2>1, <2>2, <3>1, FeedingIs
      <3>4. Start(l)' = Start(l) /\ Start(l) \in Nat
        BY <2>1 DEF Start, Typed, Screens
      <3>5. \A p \in Items(l) : (Start(l) = 0 \/ p < Start(l)) /\ load[l].next <= p
        BY <3>2 DEF Fetched, Within
      <3>6. Covered(Start(l))'
        <4> SUFFICES ASSUME Asking'
                     PROVE  \E B \in SUBSET Below(Start(l))' :
                                Cardinality(B) >= PageLimit /\ \A p \in B : page'.remote <= p
          BY DEF Covered
        <4>1. Cardinality(Items(l)) >= PageLimit
          BY <2>1, <3>2 DEF Asking, Fetched
        <4>2. Items(l) \in SUBSET Below(Start(l))'
          BY <1>3, <3>4, <3>5 DEF Below
        <4> QED BY <2>1, <3>5, <4>1, <4>2
      <3>7. ASSUME l = "more" PROVE Scrolled'
        <4>1. Scrolled /\ page.cursor # 0 /\ Start(l) = page.cursor
          BY <3>1, <3>2, <3>7 DEF Start
        <4>2. \A p \in Items(l) : p < page.cursor
          BY <3>5, <4>1
        <4>3. OnScreen' = OnScreen /\ Ordered' = Ordered
          BY <1>1 DEF OnScreen, Ordered
        <4> QED BY <2>1, <4>1, <4>2, <4>3 DEF Scrolled
      <3> QED BY <2>1, <3>2, <3>3, <3>6, <3>7 DEF Alone
    <2> QED BY <1>1, <2>3, <2>4 DEF Screen
  <1> QED BY <1>4, <1>5

\* The page of SQLite reaches as far as the one of the server did.
LEMMA ReadScreen ==
    ASSUME Typed, Screen, NEW l \in Load, ReadPage(l)
    PROVE  Screen'
  <1>1. UNCHANGED <<local, feed, page, brought, torn>> /\ On(l, "local")
    BY DEF ReadPage, server, screen, history
  <1>2. l \in Load \ {"look"} /\ l \in Feeding
    BY <1>1 DEF Typed, On, Feeding, Load
  <1>3. Distinct' /\ \A p \in brought' : local'[p] # 0
    BY <1>1 DEF Screen, Distinct
  <1>4. ASSUME ~torn PROVE Alone'
    <2>1. Alone /\ Feeding = {l}
      BY <1>2, <1>4, OnlyOne
    <2>2. /\ Covered(Start(l))
          /\ l = "more" => page.cursor # 0 /\ Scrolled
      BY <1>1, <1>2, <2>1 DEF Alone
    <2> DEFINE S == {p \in Post : local[p] # 0}
               c == Start(l)
               P == ListPostsPage(c)
               q == [Waiting EXCEPT !.pc = "show", !.next = P.next,
                                    !.got = {<<x, local[x]>> : x \in P.items}]
    <2>3. /\ load' = [load EXCEPT ![l] = q]
          /\ q.pc = "show" /\ q.next = P.next /\ q.got = {<<x, local[x]>> : x \in P.items}
      BY DEF ReadPage, Start, Waiting
    <2>4. S \in SUBSET Post /\ c \in 0..MaxPost /\ P = Paginate(S, c) /\ After(S, c) = Below(c)
      <3>1. 0 \in 0..MaxPost
        BY DEF FeedAssumption
      <3>2. c \in 0..MaxPost
        BY <3>1 DEF Start, Typed, Screens
      <3> QED BY <3>2 DEF ListPostsPage, After, Below
    <2> HIDE DEF q, S
    <2>5. Feeding' = {l} /\ load'[l] = q /\ \A x : On(l, x)' <=> q.pc = x
      BY <1>2, <2>1, <2>3, FeedingIs
    <2>6. Items(l)' = P.items
      <3>1. load'[l].got = {<<x, local[x]>> : x \in P.items}
        BY <2>3, <2>5
      <3>2. /\ \A x \in P.items : <<x, local[x]>> \in load'[l].got
            /\ \A g \in load'[l].got : \E x \in P.items : g = <<x, local[x]>>
        BY <3>1
      <3> QED BY <3>2, ItemsAre
    <2>7. /\ P.items \subseteq Below(c) /\ P.next \in 0..MaxPost
          /\ \A p \in P.items : P.next <= p
          /\ \A p \in Below(c) : p \in P.items \/ p < P.next
          /\ P.next # 0 =>
               P.next \in P.items /\ Cardinality({x \in Below(c) : x > P.next}) < PageLimit
      BY <2>4, PageOf
    <2> HIDE DEF P
    <2>8. load'[l].next = P.next /\ Start(l)' = c
      BY <1>1, <2>3, <2>5 DEF Start
    <2>9. Within(l)'
      BY <2>6, <2>7, <2>8 DEF Within, Below
    <2>10. ASSUME P.next # 0, Asking PROVE page.remote <= P.next
      <3>1. PICK B \in SUBSET Below(c) :
                Cardinality(B) >= PageLimit /\ \A p \in B : page.remote <= p
        BY <2>2, <2>10 DEF Covered
      <3>2. page.remote \in Nat /\ P.next \in Nat /\ Below(c) \subseteq Nat
        BY <2>7 DEF Typed, Screens, Below, Post
      <3> DEFINE T == {x \in Below(c) : x > P.next}
      <3>3. ASSUME page.remote > P.next PROVE FALSE
        <4>1. B \in SUBSET T
          <5> SUFFICES ASSUME NEW p \in B PROVE p \in T
            OBVIOUS
          <5>1. p \in Below(c) /\ p \in Nat /\ page.remote <= p
            BY <3>1, <3>2
          <5>2. p > P.next
            BY <3>2, <3>3, <5>1
          <5> QED BY <5>1, <5>2
        <4>2. T \in SUBSET Post
          BY DEF Below
        <4>3. Cardinality(T) < PageLimit
          BY <2>7, <2>10
        <4> HIDE DEF T
        <4>4. B \in SUBSET Post
          BY <4>1, <4>2
        <4>5. Cardinality(B) <= Cardinality(T)
          BY <4>1, <4>2, MorePosts
        <4>6. Cardinality(B) \in Nat /\ Cardinality(T) \in Nat /\ PageLimit \in Nat
          BY <4>2, <4>4, PostsFinite DEF FeedAssumption
        <4> QED BY <3>1, <4>3, <4>5, <4>6
      <3> QED BY <3>2, <3>3
    <2>11. ASSUME NEW p \in brought
           PROVE  p \in P.items \/ p < P.next \/ (l = "more" /\ p \in OnScreen)
      <3>1. p \in Post /\ local[p] # 0
        BY DEF Typed, Screen
      <3>2. CASE l = "more" /\ p \in OnScreen
        BY <3>2
      <3>3. CASE ~(l = "more" /\ p \in OnScreen)
        <4>1. c = 0 \/ p < c
          BY <2>2, <3>3 DEF Scrolled, Start
        <4>2. p \in Below(c)
          BY <3>1, <4>1 DEF Below
        <4> QED BY <2>7, <4>2
      <3> QED BY <3>2, <3>3
    <2>12. OnScreen' = OnScreen /\ Ordered' = Ordered /\ Asking' = Asking
      BY <1>1 DEF OnScreen, Ordered, Asking
    <2>13. Listed(l)'
      BY <1>1, <2>6, <2>8, <2>9, <2>10, <2>11, <2>12 DEF Listed
    <2>14. l = "more" => Scrolled'
      BY <1>1, <2>2, <2>12 DEF Scrolled
    <2> QED BY <1>1, <2>2, <2>3, <2>5, <2>13, <2>14 DEF Alone
  <1> QED BY <1>1, <1>3, <1>4 DEF Screen

LEMMA ShowScreen ==
    ASSUME Typed, Screen, NEW l \in Load, Show(l)
    PROVE  Screen'
  <1> DEFINE shown == Items(l) \ OnScreen
  <1>1. UNCHANGED <<local, brought, torn>> /\ On(l, "show")
    BY DEF Show, server, history
  <1>2. l \in Load \ {"look"} /\ l \in Feeding
    BY <1>1 DEF Typed, On, Feeding, Load
  <1>3. feed' = IF l = "more" THEN Append(feed, shown) ELSE <<Items(l)>>
    BY DEF Show, Items
  <1>4. /\ page'.cursor = load[l].next /\ load[l].next \in Nat
        /\ Asking' = Asking /\ page'.remote = page.remote
        /\ page.cursor \in Nat
    <2>1. page' = [page EXCEPT !.cursor = load[l].next] /\ page \in Screens /\ load[l] \in Loads
      BY PullIs DEF Show, Typed
    <2> QED BY <2>1 DEF Screens, Loads, Asking
  <1>5. Items(l) \in SUBSET Post /\ shown \in SUBSET Post /\ shown \cap OnScreen = {}
    BY PullIs
  <1> HIDE DEF shown
  <1>6. \A p \in brought' : local'[p] # 0
    BY <1>1 DEF Screen
  <1>7. /\ \A n \in DOMAIN feed : feed[n] \subseteq OnScreen
        /\ OnScreen \subseteq Post
    BY <1>5, FeedPages
  <1>8. ASSUME l = "more"
        PROVE  /\ DOMAIN feed' = DOMAIN feed \cup {Len(feed) + 1}
               /\ DOMAIN feed = 1..Len(feed) /\ Len(feed) \in Nat
               /\ feed'[Len(feed) + 1] = shown /\ \A n \in DOMAIN feed : feed'[n] = feed[n]
               /\ OnScreen' = OnScreen \cup shown
    BY <1>3, <1>5, <1>8, FeedPages
  <1>9. l # "more" => DOMAIN feed' = {1} /\ feed'[1] = Items(l) /\ OnScreen' = Items(l)
    BY <1>3, <1>5, FeedPages
  <1>10. Distinct'
    <2>1. ASSUME l = "more", NEW m \in DOMAIN feed', NEW n \in DOMAIN feed', m # n
          PROVE  feed'[m] \cap feed'[n] = {}
      <3>1. CASE m \in DOMAIN feed /\ n \in DOMAIN feed
        BY <1>8, <2>1, <3>1 DEF Screen, Distinct
      <3>2. CASE m = Len(feed) + 1
        BY <1>5, <1>7, <1>8, <2>1, <3>2
      <3>3. CASE n = Len(feed) + 1
        BY <1>5, <1>7, <1>8, <2>1, <3>3
      <3> QED BY <1>8, <2>1, <3>1, <3>2, <3>3
    <2> QED BY <1>9, <2>1 DEF Distinct
  <1>11. ASSUME ~torn PROVE Alone'
    <2>1. Alone /\ Feeding = {l}
      BY <1>2, <1>11, OnlyOne
    <2>2. /\ Listed(l)
          /\ l = "more" => page.cursor # 0 /\ Scrolled
      BY <1>1, <1>2, <2>1 DEF Alone
    <2>3. Feeding' = {}
      <3>1. load' = [load EXCEPT ![l] = Waiting] /\ Waiting.pc = "idle"
        BY DEF Show, Waiting
      <3> QED BY <1>2, <2>1, <3>1, FeedingIs
    <2>4. /\ \A p \in Items(l) : (Start(l) = 0 \/ p < Start(l)) /\ load[l].next <= p
          /\ load[l].next # 0 => load[l].next \in Items(l)
      BY <2>2 DEF Listed, Within
    <2>5. ASSUME l = "more" PROVE Scrolled'
      <3>1. /\ page.cursor # 0 /\ Start(l) = page.cursor /\ Ordered
            /\ \A p \in OnScreen : page.cursor <= p
        BY <2>2, <2>5 DEF Scrolled, Start
      <3>2. Post \subseteq Nat /\ shown \subseteq Items(l)
        BY DEF Post, shown
      <3>3. \A p \in shown : p < page.cursor /\ load[l].next <= p
        BY <2>4, <3>1, <3>2
      <3>4. load[l].next <= page.cursor
        BY <1>4, <2>4, <3>1
      <3>5. Ordered'
        <4> SUFFICES ASSUME NEW m \in DOMAIN feed', NEW n \in DOMAIN feed', m < n,
                            NEW p \in feed'[m], NEW q \in feed'[n]
                     PROVE  p > q
          BY DEF Ordered
        <4>1. CASE n \in DOMAIN feed
          <5>1. m \in DOMAIN feed
            BY <1>8, <2>5, <4>1
          <5> QED BY <1>8, <2>5, <3>1, <4>1, <5>1 DEF Ordered
        <4>2. CASE n = Len(feed) + 1
          <5>1. m \in DOMAIN feed
            BY <1>8, <2>5, <4>2
          <5>2. p \in OnScreen /\ q \in shown
            BY <1>7, <1>8, <2>5, <4>2, <5>1
          <5>3. p \in Nat /\ q \in Nat /\ q < page.cursor /\ page.cursor <= p
            BY <1>5, <1>7, <3>1, <3>2, <3>3, <5>2
          <5> QED BY <1>4, <5>3
        <4> QED BY <1>8, <2>5, <4>1, <4>2
      <3>6. ASSUME NEW p \in OnScreen' PROVE page'.cursor <= p
        <4>1. p \in Nat /\ (p \in OnScreen \/ p \in shown)
          BY <1>5, <1>7, <1>8, <2>5, <3>2
        <4> QED BY <1>4, <3>1, <3>3, <3>4, <4>1
      <3>7. \A p \in brought' : p \in OnScreen' \/ p < page'.cursor
        BY <1>1, <1>4, <1>8, <2>2, <2>5 DEF Listed, shown
      <3> QED BY <3>5, <3>6, <3>7 DEF Scrolled
    <2>6. ASSUME l # "more" PROVE Scrolled'
      <3>1. Ordered'
        BY <1>9, <2>6 DEF Ordered
      <3> QED BY <1>1, <1>4, <1>9, <2>2, <2>4, <2>6, <3>1 DEF Scrolled, Listed
    <2>7. Asking' /\ page'.cursor # 0 => page'.remote <= page'.cursor
      BY <1>4, <2>2 DEF Listed
    <2> QED BY <2>3, <2>5, <2>6, <2>7 DEF Alone
  <1> QED BY <1>1, <1>6, <1>10, <1>11 DEF Screen

LEMMA KillScreen ==
    ASSUME Typed, Screen, Kill
    PROVE  Screen'
  <1>1. feed' = << >> /\ brought' = {} /\ page' = Top /\ load' = [l \in Load |-> Waiting]
    BY DEF Kill
  <1>2. DOMAIN feed' = {} /\ page'.remote = 0 /\ page'.cursor = 0
    BY <1>1 DEF Top
  <1>3. Feeding' = {}
    BY <1>1 DEF Feeding, On, Waiting
  <1>4. Distinct' /\ Ordered' /\ OnScreen' = {}
    BY <1>2 DEF Distinct, Ordered, OnScreen
  <1>5. Scrolled' /\ ~Asking'
    BY <1>1, <1>2, <1>4 DEF Scrolled, Asking
  <1> QED BY <1>1, <1>3, <1>4, <1>5 DEF Screen, Alone

LEMMA ScreenInitially == Init => Screen
  <1> SUFFICES ASSUME Init PROVE Screen
    OBVIOUS
  <1>1. feed = << >> /\ brought = {} /\ page = Top /\ load = [l \in Load |-> Waiting]
    BY DEF Init
  <1>2. DOMAIN feed = {} /\ page.remote = 0 /\ page.cursor = 0
    BY <1>1 DEF Top
  <1>3. Feeding = {}
    BY <1>1 DEF Feeding, On, Waiting
  <1>4. Distinct /\ Ordered /\ OnScreen = {}
    BY <1>2 DEF Distinct, Ordered, OnScreen
  <1>5. Scrolled /\ ~Asking
    BY <1>1, <1>2, <1>4 DEF Scrolled, Asking
  <1> QED BY <1>1, <1>3, <1>4, <1>5 DEF Screen, Alone

LEMMA ScreenInductive == Typed /\ Behind /\ Screen /\ [Next]_vars => Screen'
  <1> SUFFICES ASSUME Typed, Behind, Screen, [Next]_vars PROVE Screen'
    OBVIOUS
  <1> USE DEF server, screen, sync, history
  <1>1. CASE UNCHANGED vars
    BY <1>1, ScreenAside DEF vars
  <1>2. CASE \/ Tick \/ (\E x \in Mine \cup Message : Stamp(x))
             \/ (\E w \in writing : Commit(w)) \/ (\E p \in Post : Relist(p))
    BY <1>2, ScreenAside DEF Tick, Stamp, Commit, Relist
  <1>3. CASE Push \/ Apply \/ Respond \/ Lose \/ WriteSince \/ (\E c \in Coll : ReadDelta(c))
    BY <1>3, ScreenAside DEF Push, Apply, Respond, Lose, WriteSince, ReadDelta
  <1>4. CASE ApplyDelta
    <2>1. UNCHANGED <<feed, page, brought, torn, load>>
      BY <1>4 DEF ApplyDelta
    <2>2. \A x \in Row : local[x] # 0 => local'[x] # 0
      <3>1. ASSUME NEW g \in pull.got, local' = Shown({g}, local)
            PROVE  \A x \in Row : local[x] # 0 => local'[x] # 0
        <4>1. {g} \in SUBSET Copy /\ Copies({g})
          BY PullIs DEF Behind, Copies
        <4> QED BY <3>1, <4>1, ShownBehind
      <3> QED BY <1>4, <3>1 DEF ApplyDelta
    <2> QED BY <2>1, <2>2, ScreenAside
  <1>5. CASE Look
    <2>1. \A k \in Load \ {"look"} : load'[k] = load[k]
      BY <1>5 DEF Look, Typed
    <2> QED BY <1>5, <2>1, ScreenAside DEF Look
  <1>6. CASE \E l \in Load : \/ RefreshFeed(l) \/ Flushed(l) \/ Fetch(l) \/ Escape(l)
                             \/ CachePosts(l) \/ ReadPage(l) \/ Show(l)
    BY <1>6, RefreshScreen, FlushedScreen, FetchScreen, EscapeScreen, CacheScreen, ReadScreen,
       ShowScreen
  <1>7. CASE LoadMore
    BY <1>7, MoreScreen
  <1>8. CASE Kill
    BY <1>8, KillScreen
  <1> QED BY <1>1, <1>2, <1>3, <1>4, <1>5, <1>6, <1>7, <1>8 DEF Next, Sync, Controller, Others

----------------------------------------------------------------------------
(* The inductive invariant *)

LEMMA Initially == Init => IInv
  <1> SUFFICES ASSUME Init PROVE IInv
    OBVIOUS
  <1>1. Typed
    BY TypedInitially
  <1>2. Behind
    <2>1. local = [x \in Row |-> 0] /\ \A x \in Row : ver[x] \in Nat
      BY <1>1 DEF Init, Typed
    <2>2. pull.got = {} /\ \A l \in Load : load[l].got = {}
      BY DEF Init, Resting, Waiting
    <2> QED BY <2>1, <2>2 DEF Behind, Copies
  <1>3. Delta
    BY DEF Init, Resting, Delta, Marked, OneCopy, Answered, DeltaComplete, Reading
  <1>4. Screen
    BY ScreenInitially
  <1> QED BY <1>1, <1>2, <1>3, <1>4 DEF IInv

LEMMA Inductive == IInv /\ [Next]_vars => IInv'
  BY TypedInductive, BehindInductive, DeltaInductive, ScreenInductive DEF IInv

LEMMA Always == Spec => []IInv
  BY Initially, Inductive, PTL DEF Spec

----------------------------------------------------------------------------
(* Theorems *)

\* Rows, copies of rows and cursors keep their types across every await, for any
\* number of posts, any limits, and however writes, deltas and pages interleave.
THEOREM FeedTypeCorrect == Spec => []TypeOK
  <1>1. Typed => TypeOK
    <2> SUFFICES ASSUME Typed PROVE TypeOK
      OBVIOUS
    <2>1. /\ pull.pc \in {"idle", "sent", "reading", "apply", "mark"}
          /\ pull.left \subseteq Coll /\ pull.over \subseteq Row /\ \A g \in pull.got : g \in Copy
      BY PullIs DEF Pulls
    <2>2. \A l \in Load : /\ load[l].pc \in {"idle", "flush", "list", "cache", "local", "show"}
                          /\ load[l].next \in 0..MaxPost /\ \A g \in load[l].got : g \in Copy
      BY PullIs DEF Loads
    <2>3. page.cursor \in 0..MaxPost /\ page.remote \in 0..MaxPost
      BY DEF Typed, Screens
    <2> QED BY <2>1, <2>2, <2>3 DEF Typed, TypeOK
  <1> QED BY <1>1, Always, PTL DEF IInv

\* A row of the user is on the device as the server has it as soon as the mark is
\* past it, but for the writes that commit late, the rows beyond DeltaLimit and the
\* answers that arrive out of order: whatever is lost, and for every limit.
THEOREM DeltaIsComplete == Spec => []DeltaComplete
  BY Always, PTL DEF IInv, Delta

\* No post is on the screen twice, and a scroll that nothing tears leaves no hole:
\* for every number of posts and every size of a page.
THEOREM FeedStaysWhole == Spec => []FeedIsWhole
  <1>1. Typed /\ Screen => FeedIsWhole
    <2> SUFFICES ASSUME Typed, Screen PROVE FeedIsWhole
      OBVIOUS
    <2>1. \A m, n \in DOMAIN feed : m # n => feed[m] \cap feed[n] = {}
      BY DEF Screen, Distinct
    <2>2. ASSUME Feeding = {}, ~torn PROVE Scrolled
      BY <2>2 DEF Screen, Alone
    <2>3. \A p \in brought : p \in Nat /\ page.cursor \in Nat
      BY DEF Typed, Post, Screens
    <2> QED BY <2>1, <2>2, <2>3 DEF FeedIsWhole, Scrolled, Ordered
  <1> QED BY <1>1, Always, PTL DEF IInv

----------------------------------------------------------------------------
(* The walks of the backend (Pages): the pages a Load asks for, one by one    *)

\* The rows there are, those a listing no longer has too, and the rows served so far.
Existing == {i \in Id : rows[i] # Null}

Served == UNION {served[n] : n \in DOMAIN served}

\* The condition of the queries, by which a row lies after the cursor.
Beyond(i) == IF listing \in Descending THEN BeforeCursor(i) ELSE AfterCursor(i)

\* Prisma's stamps are whole milliseconds.
Whole ==
    listing \notin Raw =>
        \A i \in Existing : (rows[i].t \div Micro) * Micro = rows[i].t

\* Each page comes whole after the pages before it.
InOrder ==
    \A m, n \in DOMAIN served :
        m < n => \A i \in served[m], j \in served[n] : Ahead(i, j)

(***************************************************************************)
(* WalkIsExact is not inductive: what a page leaves out, and nothing that    *)
(* was served, must lie beyond its cursor.                                   *)
(***************************************************************************)
Walked ==
    /\ walk = "idle" \/ (walk = "on" /\ cursor = Null) => served = << >> /\ cursor = Null
    /\ walk = "on" => \A i \in steady : i \in Served \/ Beyond(i)
    /\ walk = "done" => steady \subseteq Served
    /\ listing \notin Raw => InOrder /\ (cursor # Null => \A i \in Served : ~Beyond(i))

WInv ==
    /\ WalkTypeOK /\ IsFiniteSet(Existing)
    /\ steady \subseteq Inside /\ Served \subseteq Existing
    /\ Whole /\ Walked

USE PagesAssumption

----------------------------------------------------------------------------
(* The order of a listing *)

LEMMA RowIs ==
    ASSUME WalkTypeOK
    PROVE  /\ Existing \subseteq Id /\ Id \subseteq Nat
           /\ Inside \subseteq Stored /\ Stored \subseteq Existing
           /\ \A i \in Existing : rows[i] \in Entry /\ rows[i].t \in Nat
  <1>1. \A i \in Existing : rows[i] \in Entry
    BY DEF WalkTypeOK, Existing
  <1> QED BY <1>1 DEF WalkTypeOK, Entry, Existing, Stored, Inside

LEMMA AheadOrders ==
    ASSUME WalkTypeOK
    PROVE  /\ \A i \in Existing : ~Ahead(i, i)
           /\ \A i, j, k \in Existing : Ahead(i, j) /\ Ahead(j, k) => Ahead(i, k)
           /\ \A i, j \in Existing : i = j \/ Ahead(i, j) \/ Ahead(j, i)
  <1>1. \A i \in Existing : rows[i].t \in Nat /\ i \in Nat
    BY RowIs
  <1>2. \A i \in Existing : ~Ahead(i, i)
    BY <1>1 DEF Ahead
  <1>3. \A i, j, k \in Existing : Ahead(i, j) /\ Ahead(j, k) => Ahead(i, k)
    BY <1>1 DEF Ahead
  <1>4. \A i, j \in Existing : i = j \/ Ahead(i, j) \/ Ahead(j, i)
    BY <1>1 DEF Ahead
  <1> QED BY <1>2, <1>3, <1>4

LEMMA Smallest ==
    ASSUME NEW S, IsFiniteSet(S), S # {}, NEW f \in [S -> SUBSET S]
    PROVE  \E i \in S : \A j \in S : ~(f[j] \subseteq f[i] /\ f[j] # f[i])
  <1> DEFINE R == StrictSubsetOrdering(S)
             F == FiniteSubsetsOf(S)
             A == {f[i] : i \in S}
  <1>1. IsWellFoundedOn(R, F)
    BY FS_StrictSubsetOrderingWellFounded
  <1>2. F = SUBSET S
    BY FS_FiniteSubsetsOfFinite
  <1>3. A \subseteq SUBSET S /\ A # {}
    OBVIOUS
  <1>4. \E x \in A : \A y \in A : ~ (<<y, x>> \in R)
    <2>1. A \subseteq F /\ A # {}
      BY <1>2, <1>3
    <2> HIDE DEF A, F, R
    <2> QED BY <1>1, <2>1, WFMin
  <1>5. PICK i \in S : \A j \in S : <<f[j], f[i]>> \notin R
    BY <1>4
  <1>6. ASSUME NEW j \in S, f[j] \subseteq f[i], f[j] # f[i] PROVE FALSE
    <2>1. <<f[j], f[i]>> \in R
      BY <1>6 DEF StrictSubsetOrdering
    <2> QED BY <1>5, <2>1
  <1> QED BY <1>6

\* A finite set of rows has a first one and a last one.
LEMMA Ends ==
    ASSUME WalkTypeOK, NEW S \in SUBSET Existing, IsFiniteSet(S), S # {}
    PROVE  /\ \E i \in S : \A j \in S : ~Ahead(j, i)
           /\ \E i \in S : \A j \in S : ~Ahead(i, j)
  <1>1. \E i \in S : \A j \in S : ~Ahead(j, i)
    <2> DEFINE f == [i \in S |-> {j \in S : Ahead(j, i)}]
    <2>1. PICK i \in S : \A j \in S : ~(f[j] \subseteq f[i] /\ f[j] # f[i])
      <3>1. f \in [S -> SUBSET S]
        OBVIOUS
      <3> HIDE DEF f
      <3> QED BY <3>1, Smallest
    <2>2. ASSUME NEW j \in S, Ahead(j, i) PROVE FALSE
      <3>1. f[j] \subseteq f[i] /\ j \in f[i] /\ j \notin f[j]
        BY <2>2, AheadOrders
      <3> QED BY <2>1, <3>1
    <2> QED BY <2>2
  <1>2. \E i \in S : \A j \in S : ~Ahead(i, j)
    <2> DEFINE f == [i \in S |-> {j \in S : Ahead(i, j)}]
    <2>1. PICK i \in S : \A j \in S : ~(f[j] \subseteq f[i] /\ f[j] # f[i])
      <3>1. f \in [S -> SUBSET S]
        OBVIOUS
      <3> HIDE DEF f
      <3> QED BY <3>1, Smallest
    <2>2. ASSUME NEW j \in S, Ahead(i, j) PROVE FALSE
      <3>1. f[j] \subseteq f[i] /\ j \in f[i] /\ j \notin f[j]
        BY <2>2, AheadOrders
      <3> QED BY <2>1, <3>1
    <2> QED BY <2>2
  <1> QED BY <1>1, <1>2

\* The first n rows of S: at least n of them if any is left out, and all before it.
LEMMA FirstIs ==
    ASSUME WalkTypeOK, NEW S \in SUBSET Existing, IsFiniteSet(S), NEW n \in Nat
    PROVE  /\ First(S, n) \subseteq S
           /\ \A i \in First(S, n), j \in S \ First(S, n) : Ahead(i, j)
           /\ First(S, n) # S => Cardinality(First(S, n)) >= n
           /\ S # {} /\ n # 0 => First(S, n) # {}
  <1> DEFINE F == First(S, n)
             P(i) == {j \in S : Ahead(j, i)}
  <1>1. \A i \in S : P(i) \in SUBSET S /\ IsFiniteSet(P(i)) /\ Cardinality(P(i)) \in Nat
    <2> SUFFICES ASSUME NEW i \in S PROVE IsFiniteSet(P(i)) /\ Cardinality(P(i)) \in Nat
      OBVIOUS
    <2>1. P(i) \subseteq S
      OBVIOUS
    <2> HIDE DEF P
    <2> QED BY <2>1, FS_Subset, FS_CardinalityType
  <1>2. F \subseteq S /\ \A i \in S : i \in F <=> Cardinality(P(i)) < n
    BY DEF First
  <1>3. ASSUME NEW i \in F, NEW j \in S \ F PROVE Ahead(i, j)
    <2>1. ASSUME Ahead(j, i) PROVE FALSE
      <3>1. P(j) \subseteq P(i)
        BY <1>2, <1>3, <2>1, AheadOrders
      <3>2. Cardinality(P(j)) <= Cardinality(P(i))
        <4> HIDE DEF P
        <4> QED BY <1>1, <1>2, <1>3, <3>1, FS_Subset
      <3> HIDE DEF P, F
      <3> QED BY <1>1, <1>2, <1>3, <3>2
    <2>2. i \in Existing /\ j \in Existing /\ i # j
      BY <1>2, <1>3
    <2> QED BY <2>1, <2>2, AheadOrders
  <1>4. ASSUME F # S PROVE Cardinality(F) >= n
    <2>1. PICK g \in S \ F : \A j \in S \ F : ~Ahead(j, g)
      <3>1. S \ F \in SUBSET Existing /\ IsFiniteSet(S \ F) /\ S \ F # {}
        BY <1>2, <1>4, FS_Subset
      <3> HIDE DEF F
      <3> QED BY <3>1, Ends
    <2>2. P(g) \subseteq F
      BY <2>1
    <2>3. IsFiniteSet(F) /\ Cardinality(F) \in Nat
      BY <1>2, FS_Subset, FS_CardinalityType
    <2> HIDE DEF P, F
    <2>4. Cardinality(P(g)) <= Cardinality(F)
      BY <2>2, <2>3, FS_Subset
    <2> QED BY <1>1, <1>2, <2>1, <2>3, <2>4
  <1>5. ASSUME S # {}, n # 0 PROVE F # {}
    <2>1. PICK i \in S : \A j \in S : ~Ahead(j, i)
      BY <1>5, Ends
    <2>2. P(i) = {}
      BY <2>1
    <2>3. Cardinality({}) = 0
      BY FS_EmptySet
    <2> HIDE DEF P, F
    <2>4. Cardinality(P(i)) = 0
      BY <2>2, <2>3
    <2> QED BY <1>2, <1>5, <2>4
  <1> QED BY <1>2, <1>3, <1>4, <1>5

\* A page of the rows Q that match a query: what it leaves out lies after its last row.
LEMMA PageIs ==
    ASSUME WalkTypeOK, NEW Q \in SUBSET Existing, IsFiniteSet(Q)
    PROVE  LET answer == Paginated(Take(Q)) IN
           /\ answer.items \subseteq Q
           /\ \/ answer.next = Null /\ answer.items = Q
              \/ \E l \in answer.items :
                    /\ answer.next = CursorAt(l)
                    /\ \A i \in answer.items : i = l \/ Ahead(i, l)
                    /\ \A i \in Q \ answer.items : Ahead(l, i)
  <1> DEFINE S == Take(Q)
             items == First(S, limit)
             answer == Paginated(Take(Q))
  <1>1. limit \in Nat /\ limit # 0 /\ limit + 1 \in Nat
    BY DEF WalkTypeOK
  <1>2. /\ S \subseteq Q /\ \A i \in S, j \in Q \ S : Ahead(i, j)
        /\ S # Q => Cardinality(S) >= limit + 1
    BY <1>1, FirstIs DEF Take
  <1>3. answer = IF Cardinality(S) > limit
               THEN [items |-> items, next |-> CursorAt(LastOf(items))]
               ELSE [items |-> S, next |-> Null]
    BY DEF Paginated
  <1>4. S \in SUBSET Existing /\ IsFiniteSet(S) /\ Cardinality(S) \in Nat
    BY <1>2, FS_Subset, FS_CardinalityType
  <1> HIDE DEF S
  <1>5. /\ items \subseteq S /\ \A i \in items, j \in S \ items : Ahead(i, j)
        /\ S # {} => items # {}
    BY <1>1, <1>4, FirstIs
  <1> HIDE DEF items, answer
  <1>6. CASE ~(Cardinality(S) > limit)
    <2>1. S = Q
      BY <1>1, <1>2, <1>4, <1>6
    <2> QED BY <1>3, <1>6, <2>1 DEF answer
  <1>7. CASE Cardinality(S) > limit
    <2>1. S # {}
      <3>1. Cardinality({}) = 0
        BY FS_EmptySet
      <3>2. Cardinality(S) # 0
        BY <1>1, <1>4, <1>7
      <3> QED BY <3>1, <3>2
    <2>2. items \in SUBSET Existing /\ IsFiniteSet(items) /\ items # {}
      BY <1>4, <1>5, <2>1, FS_Subset
    <2> DEFINE l == LastOf(items)
    <2>3. l \in items /\ \A j \in items : ~Ahead(l, j)
      <3>1. \E i \in items : \A j \in items : ~Ahead(i, j)
        BY <2>2, Ends
      <3> QED BY <3>1 DEF LastOf
    <2> HIDE DEF l
    <2>4. answer.items = items /\ answer.next = CursorAt(l)
      BY <1>3, <1>7 DEF l
    <2>5. \A i \in items : i = l \/ Ahead(i, l)
      BY <2>2, <2>3, AheadOrders
    <2>6. \A i \in Q \ items : Ahead(l, i)
      <3> SUFFICES ASSUME NEW i \in Q \ items PROVE Ahead(l, i)
        OBVIOUS
      <3>1. l \in S
        BY <1>5, <2>3
      <3> QED BY <1>2, <1>5, <2>3, <3>1
    <2>7. answer.items \subseteq Q
      BY <1>2, <1>5, <2>4
    <2> QED BY <2>3, <2>4, <2>5, <2>6, <2>7 DEF answer
  <1> QED BY <1>6, <1>7

----------------------------------------------------------------------------
(* Stamps and cursors *)

LEMMA Truncates ==
    ASSUME NEW t \in Nat, NEW m \in Nat \ {0}
    PROVE  /\ t \div m \in Nat /\ (t \div m) * m \in 0..t
           /\ ((t \div m) * m) \div m = t \div m
  <1> DEFINE q == t \div m
  <1>1. q \in Nat /\ t = q * m + (t % m) /\ t % m \in Nat /\ t % m < m
    OBVIOUS
  <1>2. q * m \in Nat /\ q * m <= t
    BY <1>1
  <1>3. (q * m) \div m = q
    BY <1>1
  <1> QED BY <1>1, <1>2, <1>3

LEMMA CursorTyped ==
    ASSUME WalkTypeOK, NEW l \in Existing
    PROVE  CursorAt(l) \in Cursor /\ CursorAt(l) # Null
  <1>1. l \in Id /\ rows[l].t \in Nat /\ Micro \in Nat \ {0}
    BY RowIs DEF WalkTypeOK
  <1> DEFINE T == rows[l].t \div Micro
  <1>2. T \in Nat
    BY <1>1, Truncates, Zenon
  <1>3. CursorAt(l) = [id |-> l, t |-> T]
    BY DEF CursorAt
  <1> HIDE DEF T
  <1>4. CursorAt(l) \in Cursor
    BY <1>1, <1>2, <1>3 DEF Cursor
  <1> QED BY <1>4 DEF WalkTypeOK

\* A row that lies after another lies beyond its cursor, and where the stamps are
\* whole milliseconds no other row does.
LEMMA CursorIs ==
    ASSUME WalkTypeOK, Whole, NEW l \in Existing,
           cursor' = CursorAt(l), UNCHANGED <<listing, rows>>
    PROVE  /\ CursorAt(l) \in Cursor
           /\ \A i \in Existing : Ahead(l, i) => Beyond(i)'
           /\ listing \notin Raw => \A i \in Existing : Beyond(i)' => Ahead(l, i)
  <1>1. l \in Id /\ l \in Nat /\ rows[l].t \in Nat /\ Micro \in Nat \ {0}
    BY RowIs DEF WalkTypeOK
  <1> DEFINE T == rows[l].t \div Micro
  <1>2. T \in Nat /\ T * Micro \in Nat /\ T * Micro <= rows[l].t
    <2>1. T \in Nat /\ T * Micro \in 0..rows[l].t
      BY <1>1, Truncates, Zenon
    <2> HIDE DEF T
    <2> QED BY <1>1, <2>1
  <1>3. listing \notin Raw => T * Micro = rows[l].t
    BY DEF Whole
  <1>4. cursor' = [id |-> l, t |-> T] /\ [id |-> l, t |-> T] = CursorAt(l)
    BY DEF CursorAt
  <1> HIDE DEF T
  <1>5. CursorAt(l) \in Cursor /\ CursorAt(l) # Null
    BY CursorTyped
  <1>6. \A i \in Existing : i \in Nat /\ rows[i].t \in Nat
    BY RowIs
  <1>7. cursor' # Null /\ cursor'.id = l /\ cursor'.t = T
    BY <1>4, <1>5
  <1>8. CASE listing \in Descending
    <2>1. listing \notin Raw
      BY <1>8 DEF Descending, Raw
    <2>2. \A i \in Existing :
            Beyond(i)' <=> rows[i].t < T * Micro \/ (rows[i].t = T * Micro /\ i < l)
      BY <1>7, <1>8 DEF Beyond, BeforeCursor
    <2>3. \A i \in Existing :
            Ahead(l, i) <=> rows[i].t < rows[l].t \/ (rows[i].t = rows[l].t /\ i < l)
      BY <1>8 DEF Ahead
    <2> QED BY <1>3, <1>5, <2>1, <2>2, <2>3
  <1>9. CASE listing \notin Descending
    <2>1. \A i \in Existing :
            Beyond(i)' <=> rows[i].t > T * Micro \/ (rows[i].t = T * Micro /\ i > l)
      BY <1>7, <1>9 DEF Beyond, AfterCursor
    <2>2. \A i \in Existing :
            Ahead(l, i) <=> rows[l].t < rows[i].t \/ (rows[l].t = rows[i].t /\ l < i)
      BY <1>9 DEF Ahead
    <2>3. \A i \in Existing : Ahead(l, i) => Beyond(i)'
      BY <1>1, <1>2, <1>6, <2>1, <2>2
    <2>4. listing \notin Raw => \A i \in Existing : Beyond(i)' => Ahead(l, i)
      BY <1>1, <1>2, <1>3, <1>6, <2>1, <2>2
    <2> QED BY <1>5, <2>3, <2>4
  <1> QED BY <1>8, <1>9

\* What lies beyond a cursor comes after what does not.
LEMMA BeyondAhead ==
    ASSUME WalkTypeOK, NEW i \in Existing, NEW j \in Existing,
           cursor # Null, ~Beyond(i), Beyond(j)
    PROVE  Ahead(i, j)
  <1>1. i \in Nat /\ j \in Nat /\ rows[i].t \in Nat /\ rows[j].t \in Nat
    BY RowIs
  <1>2. cursor.id \in Nat /\ cursor.t * Micro \in Nat
    <2>1. cursor \in Cursor
      BY DEF WalkTypeOK
    <2>2. cursor.t \in Nat /\ cursor.id \in Nat /\ Micro \in Nat
      BY <2>1 DEF Cursor
    <2> QED BY <2>2
  <1> DEFINE c == cursor.t * Micro
  <1>3. CASE listing \in Descending
    <2>1. /\ ~(rows[i].t < c \/ (rows[i].t = c /\ i < cursor.id))
          /\ rows[j].t < c \/ (rows[j].t = c /\ j < cursor.id)
      BY <1>3 DEF Beyond, BeforeCursor
    <2> HIDE DEF c
    <2>2. rows[j].t < rows[i].t \/ (rows[j].t = rows[i].t /\ j < i)
      BY <1>1, <1>2, <2>1 DEF c
    <2> QED BY <1>3, <2>2 DEF Ahead
  <1>4. CASE listing \notin Descending
    <2>1. /\ ~(rows[i].t > c \/ (rows[i].t = c /\ i > cursor.id))
          /\ rows[j].t > c \/ (rows[j].t = c /\ j > cursor.id)
      BY <1>4 DEF Beyond, AfterCursor
    <2> HIDE DEF c
    <2>2. rows[i].t < rows[j].t \/ (rows[i].t = rows[j].t /\ i < j)
      BY <1>1, <1>2, <2>1 DEF c
    <2> QED BY <1>4, <2>2 DEF Ahead
  <1> QED BY <1>3, <1>4

\* A query finds every row of the listing beyond the cursor, and rows beyond it only.
LEMMA ListedIs ==
    ASSUME WalkTypeOK, IsFiniteSet(Existing)
    PROVE  \E Q \in SUBSET Existing :
              /\ Found = Take(Q) /\ IsFiniteSet(Q)
              /\ \A i \in Q : Beyond(i)
              /\ \A i \in Inside : Beyond(i) => i \in Q
  <1> DEFINE A == {i \in Inside : AfterCursor(i)}
             B == {i \in Stored : AfterCursor(i)}
             C == {i \in Inside : BeforeCursor(i)}
             D == {i \in Stored : BeforeCursor(i)}
  <1>1. /\ A \in SUBSET Existing /\ B \in SUBSET Existing
        /\ C \in SUBSET Existing /\ D \in SUBSET Existing
    BY RowIs
  <1>2. IsFiniteSet(A) /\ IsFiniteSet(B) /\ IsFiniteSet(C) /\ IsFiniteSet(D)
    <2> HIDE DEF A, B, C, D
    <2> QED BY <1>1, FS_Subset
  <1>3. Inside \subseteq Stored
    BY RowIs
  <1>4. listing \in {"pending", "deletions", "guias", "posts", "messages"}
    BY DEF WalkTypeOK
  <1>5. CASE listing \in {"pending", "guias"}
    <2>1. Found = Take(A) /\ \A i : Beyond(i) <=> AfterCursor(i)
      BY <1>5 DEF Found, ListPendingJuridica, ListGuias, Beyond, Descending
    <2> QED BY <1>1, <1>2, <2>1
  <1>6. CASE listing = "deletions"
    <2>1. Found = Take(B) /\ \A i : Beyond(i) <=> AfterCursor(i)
      BY <1>6 DEF Found, ListDeletions, Beyond, Descending
    <2> QED BY <1>1, <1>2, <1>3, <2>1
  <1>7. CASE listing = "posts"
    <2>1. Found = Take(C) /\ \A i : Beyond(i) <=> BeforeCursor(i)
      BY <1>7 DEF Found, ListListed, Beyond, Descending
    <2> QED BY <1>1, <1>2, <2>1
  <1>8. CASE listing = "messages"
    <2>1. Found = Take(D) /\ \A i : Beyond(i) <=> BeforeCursor(i)
      BY <1>8 DEF Found, ListMessages, Beyond, Descending
    <2> QED BY <1>1, <1>2, <1>3, <2>1
  <1> QED BY <1>4, <1>5, <1>6, <1>7, <1>8

----------------------------------------------------------------------------
(* The steps *)

LEMMA WInitially == WalkInit => WInv
  <1> SUFFICES ASSUME WalkInit PROVE WInv
    OBVIOUS
  <1>1. Existing = {} /\ DOMAIN served = {} /\ Served = {} /\ steady = {}
    BY DEF WalkInit, Existing, Served
  <1>2. WalkTypeOK
    BY DEF WalkInit, WalkTypeOK
  <1>3. IsFiniteSet(Existing)
    BY <1>1, FS_EmptySet
  <1>4. Whole /\ Walked
    BY <1>1 DEF WalkInit, Whole, Walked, InOrder
  <1> QED BY <1>1, <1>2, <1>3, <1>4 DEF WInv

\* Steps of others keep the stamps, and with them the order and what lies beyond the cursor.
LEMMA OthersKeep ==
    ASSUME WInv, WalkTypeOK', IsFiniteSet(Existing'),
           UNCHANGED <<listing, walk, cursor, served>>,
           Existing \subseteq Existing', \A i \in Existing : rows'[i].t = rows[i].t,
           steady' \subseteq steady, steady' \subseteq Inside', Whole'
    PROVE  WInv'
  <1>1. \A i, j \in Existing : Ahead(i, j)' = Ahead(i, j)
    BY DEF Ahead
  <1>2. \A i \in Existing : Beyond(i)' = Beyond(i)
    BY DEF Beyond, AfterCursor, BeforeCursor
  <1>3. Served' = Served /\ Served \subseteq Existing /\ steady \subseteq Existing
    BY RowIs DEF WInv, Served
  <1>4. \A n \in DOMAIN served : served[n] \subseteq Existing
    BY <1>3 DEF Served
  <1>5. InOrder => InOrder'
    BY <1>1, <1>4 DEF InOrder
  <1>6. Walked'
    BY <1>2, <1>3, <1>5 DEF WInv, Walked
  <1> QED BY <1>3, <1>6 DEF WInv

LEMMA InsertKeeps ==
    ASSUME WInv, NEW i \in Id, Insert(i)
    PROVE  WInv'
  <1> DEFINE r == [t |-> Stamped, at |-> "in"]
  <1>1. clock \in Nat /\ Micro \in Nat \ {0} /\ WalkTypeOK
    BY DEF WInv, WalkTypeOK
  <1>2. /\ Stamped \in 0..clock
        /\ listing \notin Raw => (Stamped \div Micro) * Micro = Stamped
    <2>1. CASE listing \in Raw
      BY <1>1, <2>1 DEF Stamped
    <2>2. CASE listing \notin Raw
      <3> DEFINE s == (clock \div Micro) * Micro
      <3>1. s \in 0..clock /\ s \div Micro = clock \div Micro
        BY <1>1, Truncates, Zenon
      <3>2. Stamped = s
        BY <2>2 DEF Stamped
      <3>3. (s \div Micro) * Micro = s
        BY <3>1, Zenon
      <3> HIDE DEF s
      <3> QED BY <2>2, <3>1, <3>2, <3>3
    <2> QED BY <2>1, <2>2
  <1>3. r \in Entry
    BY <1>1, <1>2 DEF Entry, WalkTypeOK
  <1>4. /\ rows[i] = Null /\ rows' = [rows EXCEPT ![i] = r]
        /\ UNCHANGED <<listing, limit, clock, walk, cursor, served, steady, pages, changes>>
    BY DEF Insert
  <1>5. r.t = Stamped /\ r.at = "in" /\ r # Null
    BY <1>1, <1>3 DEF WalkTypeOK
  <1> HIDE DEF r
  <1>6. WalkTypeOK'
    BY <1>1, <1>3, <1>4 DEF WalkTypeOK
  <1>7. rows'[i] = r /\ i \notin Existing /\ \A j \in Id : j # i => rows'[j] = rows[j]
    BY <1>1, <1>4 DEF WalkTypeOK, Existing
  <1>8. Existing' = Existing \cup {i}
    BY <1>5, <1>7 DEF Existing
  <1>9. IsFiniteSet(Existing')
    BY <1>8, FS_AddElement DEF WInv
  <1>10. steady' \subseteq Inside'
    <2>1. Inside \subseteq Inside'
      BY <1>7, <1>8, RowIs DEF WInv, Inside, Stored, Existing
    <2> QED BY <1>4, <2>1 DEF WInv
  <1>11. Whole'
    BY <1>2, <1>4, <1>5, <1>7, <1>8 DEF WInv, Whole, Existing
  <1>12. \A j \in Existing : rows'[j].t = rows[j].t
    BY <1>7 DEF Existing
  <1> QED BY <1>4, <1>6, <1>8, <1>9, <1>10, <1>11, <1>12, OthersKeep

LEMMA MoveKeeps ==
    ASSUME WInv, NEW i \in Id, rows[i] # Null,
           NEW at \in {"in", "out", "gone"}, Move(i, at)
    PROVE  WInv'
  <1> DEFINE r == [rows[i] EXCEPT !.at = at]
  <1>1. WalkTypeOK /\ rows[i] \in Entry
    BY DEF WInv, WalkTypeOK
  <1>2. r \in Entry /\ r.t = rows[i].t
    BY <1>1 DEF Entry
  <1>3. rows' = [rows EXCEPT ![i] = r] /\ steady' = steady \ {i}
        /\ UNCHANGED <<listing, limit, clock, walk, cursor, served, pages>>
        /\ changes' = changes + 1 /\ changes < MaxChanges
    BY DEF Move
  <1>4. r # Null
    BY <1>1, <1>2 DEF WalkTypeOK
  <1> HIDE DEF r
  <1>5. WalkTypeOK'
    BY <1>1, <1>2, <1>3 DEF WalkTypeOK
  <1>6. rows'[i] = r /\ \A j \in Id : j # i => rows'[j] = rows[j]
    BY <1>1, <1>3 DEF WalkTypeOK
  <1>7. Existing' = Existing /\ i \in Existing
    BY <1>4, <1>6 DEF Existing
  <1>8. \A j \in Existing : rows'[j].t = rows[j].t
    BY <1>2, <1>6 DEF Existing
  <1>9. steady' \subseteq Inside'
    BY <1>3, <1>6 DEF WInv, Inside, Stored
  <1>10. Whole'
    BY <1>3, <1>7, <1>8 DEF WInv, Whole
  <1> QED BY <1>3, <1>5, <1>7, <1>8, <1>9, <1>10, OthersKeep DEF WInv

LEMMA BeginKeeps ==
    ASSUME WInv, BeginWalk
    PROVE  WInv'
  <1>1. /\ walk = "idle" /\ walk' = "on" /\ steady' = Inside /\ WalkTypeOK
        /\ UNCHANGED <<listing, limit, rows, clock, cursor, served, pages, changes>>
    BY DEF BeginWalk, WInv
  <1>2. served = << >> /\ cursor = Null
    BY <1>1 DEF WInv, Walked
  <1>3. WalkTypeOK'
    BY <1>1, RowIs DEF WalkTypeOK
  <1>4. Existing' = Existing /\ Inside' = Inside /\ Served' = Served
    BY <1>1 DEF Existing, Inside, Stored, Served
  <1>5. \A i : Beyond(i)'
    BY <1>1, <1>2 DEF Beyond, AfterCursor, BeforeCursor
  <1>6. Whole' /\ InOrder'
    BY <1>1, <1>2, <1>4 DEF WInv, Whole, InOrder
  <1>7. Walked'
    BY <1>1, <1>2, <1>5, <1>6 DEF Walked
  <1> QED BY <1>1, <1>3, <1>4, <1>6, <1>7 DEF WInv

LEMMA PageKeeps ==
    ASSUME WInv, Page
    PROVE  WInv'
  <1> DEFINE answer == Paginated(Found)
             items == answer.items
  <1>1. /\ walk = "on" /\ pages < MaxPages /\ pages' = pages + 1
        /\ served' = Append(served, items) /\ cursor' = answer.next
        /\ walk' = IF answer.next = Null THEN "done" ELSE "on"
        /\ UNCHANGED <<listing, limit, rows, clock, steady, changes>>
    BY DEF Page
  <1>2. WalkTypeOK /\ IsFiniteSet(Existing) /\ Whole /\ Walked /\ Served \subseteq Existing
        /\ steady \subseteq Inside
    BY DEF WInv
  <1>3. PICK Q \in SUBSET Existing :
          /\ Found = Take(Q) /\ IsFiniteSet(Q)
          /\ \A i \in Q : Beyond(i)
          /\ \A i \in Inside : Beyond(i) => i \in Q
    BY <1>2, ListedIs
  <1>4. /\ items \subseteq Q
        /\ \/ answer.next = Null /\ items = Q
           \/ \E l \in items : /\ answer.next = CursorAt(l)
                               /\ \A i \in items : i = l \/ Ahead(i, l)
                               /\ \A i \in Q \ items : Ahead(l, i)
    BY <1>2, <1>3, PageIs
  <1> HIDE DEF answer
  <1>5. items \subseteq Existing /\ Existing \subseteq Id
    BY <1>2, <1>3, <1>4, RowIs
  <1>6. served \in Seq(SUBSET Id) /\ items \in SUBSET Id
    BY <1>2, <1>5 DEF WalkTypeOK
  <1> HIDE DEF items
  <1>7. /\ Len(served) \in Nat
        /\ DOMAIN served = 1..Len(served) /\ DOMAIN served' = 1..(Len(served) + 1)
        /\ \A n \in DOMAIN served : served'[n] = served[n] /\ served[n] \subseteq Served
        /\ served'[Len(served) + 1] = items /\ served' \in Seq(SUBSET Id)
    BY <1>1, <1>6 DEF Served
  <1>8. Served' = Served \cup items
    <2>1. 1..(Len(served) + 1) = DOMAIN served \cup {Len(served) + 1}
      BY <1>7
    <2> QED BY <1>7, <2>1 DEF Served
  <1>9. /\ Existing' = Existing /\ Inside' = Inside /\ Whole'
        /\ \A i, j : Ahead(i, j)' = Ahead(i, j)
    BY <1>1, <1>2 DEF Existing, Inside, Stored, Whole, Ahead
  <1>10. ASSUME NEW i \in Served, listing \notin Raw
         PROVE  cursor # Null /\ ~Beyond(i) /\ i \in Existing
    <2>1. cursor = Null => Served = {}
      BY <1>1, <1>2 DEF Walked, Served
    <2> QED BY <1>2, <1>10, <2>1 DEF Walked
  <1>11. listing \notin Raw => \A i \in Served, j \in items : Ahead(i, j)
    BY <1>2, <1>3, <1>4, <1>5, <1>10, BeyondAhead
  <1>12. listing \notin Raw => InOrder'
    <2> SUFFICES ASSUME listing \notin Raw,
                        NEW m \in DOMAIN served', NEW n \in DOMAIN served', m < n,
                        NEW i \in served'[m], NEW j \in served'[n]
                 PROVE  Ahead(i, j)
      BY <1>9 DEF InOrder
    <2>1. m \in DOMAIN served /\ i \in served[m]
      BY <1>7
    <2>2. CASE n \in DOMAIN served
      BY <1>2, <1>7, <2>1, <2>2 DEF Walked, InOrder
    <2>3. CASE n = Len(served) + 1
      BY <1>7, <1>11, <2>1, <2>3
    <2> QED BY <1>7, <2>2, <2>3
  <1>13. CASE answer.next = Null
    <2>1. items = Q
      <3>1. ASSUME NEW l \in items, answer.next = CursorAt(l) PROVE FALSE
        <4>1. CursorAt(l) # Null
          BY <1>2, <1>5, <3>1, CursorTyped DEF WalkTypeOK
        <4> QED BY <1>13, <3>1, <4>1
      <3> QED BY <1>4, <3>1
    <2>2. walk' = "done" /\ cursor' = Null
      BY <1>1, <1>13
    <2>3. steady' \subseteq Served'
      BY <1>1, <1>2, <1>3, <1>8, <2>1 DEF Walked
    <2>4. Walked'
      BY <1>12, <1>1, <2>2, <2>3 DEF Walked
    <2>5. WalkTypeOK'
      BY <1>1, <1>2, <1>7, <2>2 DEF WalkTypeOK
    <2> QED BY <1>1, <1>2, <1>5, <1>8, <1>9, <2>4, <2>5 DEF WInv
  <1>14. ASSUME answer.next # Null PROVE WInv'
    <2>1. PICK l \in items : /\ answer.next = CursorAt(l)
                             /\ \A i \in items : i = l \/ Ahead(i, l)
                             /\ \A i \in Q \ items : Ahead(l, i)
      BY <1>4, <1>14
    <2>2. l \in Existing /\ cursor' = CursorAt(l) /\ walk' = "on" /\ cursor' # Null
      BY <1>1, <1>5, <1>14, <2>1
    <2>3. /\ CursorAt(l) \in Cursor
          /\ \A i \in Existing : Ahead(l, i) => Beyond(i)'
          /\ listing \notin Raw => \A i \in Existing : Beyond(i)' => Ahead(l, i)
      BY <1>1, <1>2, <2>2, CursorIs
    <2>4. ASSUME NEW i \in steady PROVE i \in Served' \/ Beyond(i)'
      <3>1. i \in Inside /\ i \in Existing /\ (i \in Served \/ Beyond(i))
        BY <1>1, <1>2, <2>4, RowIs DEF Walked
      <3> QED BY <1>3, <1>8, <2>1, <2>3, <3>1
    <2>5. ASSUME listing \notin Raw, NEW i \in Served' PROVE ~Beyond(i)'
      <3>1. i \in Existing /\ (i = l \/ Ahead(i, l))
        BY <1>2, <1>5, <1>8, <1>11, <2>1, <2>5
      <3>2. ~Ahead(l, i)
        BY <1>2, <2>2, <3>1, AheadOrders
      <3> QED BY <2>3, <2>5, <3>1, <3>2
    <2>6. Walked'
      BY <1>1, <1>12, <2>2, <2>4, <2>5 DEF Walked
    <2>7. WalkTypeOK'
      BY <1>1, <1>2, <1>7, <2>2, <2>3 DEF WalkTypeOK
    <2> QED BY <1>1, <1>2, <1>5, <1>8, <1>9, <2>6, <2>7 DEF WInv
  <1> QED BY <1>13, <1>14

LEMMA WInductive == WInv /\ [WalkNext]_walkVars => WInv'
  <1> SUFFICES ASSUME WInv, [WalkNext]_walkVars PROVE WInv'
    OBVIOUS
  <1>1. CASE UNCHANGED walkVars
    BY <1>1 DEF walkVars, WInv, WalkTypeOK, Existing, Served,
                Inside, Stored, Whole, Walked, InOrder, Ahead, Beyond,
                AfterCursor, BeforeCursor
  <1>2. CASE BeginWalk
    BY <1>2, BeginKeeps
  <1>3. CASE Page
    BY <1>3, PageKeeps
  <1>4. CASE TickClock
    <2>1. UNCHANGED <<listing, limit, rows, walk, cursor, served, steady, pages, changes>>
          /\ clock' = clock + 1 /\ clock < MaxClock
      BY <1>4 DEF TickClock
    <2>2. WalkTypeOK'
      BY <2>1 DEF WInv, WalkTypeOK
    <2>3. Existing' = Existing /\ Inside' = Inside /\ Whole'
      BY <2>1 DEF WInv, Existing, Inside, Stored, Whole
    <2> QED BY <2>1, <2>2, <2>3, OthersKeep DEF WInv
  <1>5. ASSUME NEW i \in Id, Insert(i) PROVE WInv'
    BY <1>5, InsertKeeps
  <1>6. ASSUME NEW i \in Id, Flip(i) PROVE WInv'
    BY <1>6, MoveKeeps DEF Flip
  <1>7. ASSUME NEW i \in Id, Delete(i) PROVE WInv'
    BY <1>7, MoveKeeps DEF Delete
  <1> QED BY <1>1, <1>2, <1>3, <1>4, <1>5, <1>6, <1>7
      DEF WalkNext, SetVerified, UpdateGuia, Subscription

LEMMA WAlways == WalkSpec => []WInv
  BY WInitially, WInductive, PTL DEF WalkSpec

\* A walk of a backend listing keeps its types, whatever rows come and go, for any
\* number of rows and any size of a page.
THEOREM WalkTypeCorrect == WalkSpec => []WalkTypeOK
  BY WAlways, PTL DEF WInv, WalkTypeOK

\* A client that follows nextCursor to the end is served every row that was in the
\* listing all the while, and, where Prisma stamps the rows, each page comes whole after
\* the pages before it: for any number of rows, of changes and of pages of any size.
THEOREM WalksAreExact == WalkSpec => []WalkIsExact
  <1>1. WInv => WalkIsExact
    BY DEF WInv, Walked, Served, InOrder, WalkIsExact
  <1> QED BY <1>1, WAlways, PTL

(* Where Prisma stamps the rows a walk moves on: a page that is not the last  *)
(* has a row that no page before it had.  (Where raw SQL does, a cursor cut to *)
(* the millisecond may bring the same page again and again.)                 *)
WalkMovesOn ==
    [][Page /\ listing \notin Raw /\ cursor' # Null => Served' \ Served # {}]_walkVars

LEMMA PageMovesOn ==
    ASSUME WInv, Page, listing \notin Raw, cursor' # Null
    PROVE  Served' \ Served # {}
  <1> DEFINE answer == Paginated(Found)
             items == answer.items
  <1>1. /\ walk = "on" /\ served' = Append(served, items) /\ cursor' = answer.next
    BY DEF Page
  <1>2. WalkTypeOK /\ IsFiniteSet(Existing) /\ Walked /\ Served \subseteq Existing
    BY DEF WInv
  <1>3. PICK Q \in SUBSET Existing : /\ Found = Take(Q) /\ IsFiniteSet(Q)
                                     /\ \A i \in Q : Beyond(i)
    BY <1>2, ListedIs
  <1>4. items \subseteq Q /\ items # {}
    <2>1. /\ items \subseteq Q
          /\ \/ answer.next = Null /\ items = Q
             \/ \E l \in items : /\ answer.next = CursorAt(l)
                                 /\ \A i \in items : i = l \/ Ahead(i, l)
                                 /\ \A i \in Q \ items : Ahead(l, i)
      BY <1>2, <1>3, PageIs
    <2> HIDE DEF answer
    <2> QED BY <1>1, <2>1
  <1> HIDE DEF answer
  <1>5. served \in Seq(SUBSET Id) /\ items \in SUBSET Id
    BY <1>2, <1>3, <1>4, RowIs DEF WalkTypeOK
  <1> HIDE DEF items
  <1>6. items \subseteq Served'
    <2>1. Len(served) + 1 \in DOMAIN served' /\ served'[Len(served) + 1] = items
      BY <1>1, <1>5
    <2> QED BY <2>1 DEF Served
  <1>7. ASSUME NEW i \in Served PROVE i \notin items
    <2>1. cursor = Null => Served = {}
      BY <1>1, <1>2 DEF Walked, Served
    <2> QED BY <1>2, <1>3, <1>4, <1>7, <2>1 DEF Walked
  <1> QED BY <1>4, <1>6, <1>7

\* In the listings whose rows Prisma stamps every page but the last brings a row the
\* client was not served before, so that a walk cannot go round in circles: for any
\* number of rows, changes and pages of any size.
THEOREM WalksMoveOn == WalkSpec => WalkMovesOn
  <1>1. WInv /\ [WalkNext]_walkVars
           => [Page /\ listing \notin Raw /\ cursor' # Null => Served' \ Served # {}]_walkVars
    BY PageMovesOn
  <1> QED BY <1>1, WAlways, PTL DEF WalkSpec, WalkMovesOn

=============================================================================
