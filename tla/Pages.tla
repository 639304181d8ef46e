------------------------------- MODULE Pages -------------------------------
(***************************************************************************)
(* The cursor pages of the backend (shared/pagination/cursor.ts): a client  *)
(* walks a listing, each page asking the database anew for the rows after   *)
(* the cursor of the page before, while rows are inserted, leave the        *)
(* listing, come back and are deleted.  Five listings page this way:         *)
(*   pending     the JURIDICA accounts to judge    (users.repository.ts)    *)
(*   deletions   the requests to be forgotten      (deletion-request.store) *)
(*   guias       the guides of a category          (guias.store.ts)         *)
(*   posts       the feed                          (posts.store.ts)         *)
(*   messages    a conversation, latest first      (conversations.store.ts) *)
(* A cursor names the last row served and the millisecond it was created.    *)
(* Prisma stamps rows to the millisecond; the rows that raw SQL inserts are   *)
(* stamped by NOW() and keep the microseconds (TIMESTAMPTZ(6)).              *)
(*                                                                          *)
(* Abstractions: an id is a number, Micro instants make a millisecond, the    *)
(* rows of an answer are a set that the order of its listing sorts, and the   *)
(* fields the clients see are left out.  The names are those of a module that *)
(* is extended beside Feed, whose Load asks for such pages.                   *)
(***************************************************************************)
EXTENDS Naturals, Sequences, FiniteSets

CONSTANTS
    Listing,    \* the listings walked
    Id,         \* ids of rows, naturals
    Limit,      \* sizes of page a client asks for
    Micro,      \* instants in a millisecond
    MaxClock,   \* bound: last instant of the clock
    MaxChanges, \* bound: rows that leave, return or are deleted
    MaxPages,   \* bound: pages of a walk
    Null

Entry  == [t: 0..MaxClock, at: {"in", "out", "gone"}]
Cursor == [id: Id, t: Nat]

ASSUME PagesAssumption ==
    /\ Listing \subseteq {"pending", "deletions", "guias", "posts", "messages"}
    /\ Id \subseteq Nat /\ Limit \subseteq Nat \ {0} /\ Micro \in Nat \ {0}
    /\ MaxClock \in Nat /\ MaxChanges \in Nat /\ MaxPages \in Nat
    /\ Null \notin Entry \cup Cursor

\* The listings whose rows raw SQL stamps.
Raw == {"pending", "deletions"}

\* The listings that go from the latest row to the oldest.
Descending == {"posts", "messages"}

VARIABLES
    listing,  \* the listing walked
    limit,    \* the size of its pages
    rows,     \* Id -> [t, at]: when it was created, and where it is; or Null
    clock,    \* the clock
    walk,     \* "idle", "on", "done"
    cursor,   \* nextCursor of the last page: [id, t], or Null
    served,   \* the ids the client was served, page by page
    steady,   \* history: the rows in the listing ever since the walk began
    pages, changes

walkVars == <<listing, limit, rows, clock, walk, cursor, served, steady, pages, changes>>

WalkInit ==
    /\ listing \in Listing /\ limit \in Limit
    /\ rows = [i \in Id |-> Null]
    /\ clock = 0
    /\ walk = "idle" /\ cursor = Null /\ served = << >> /\ steady = {}
    /\ pages = 0 /\ changes = 0

\* The rows of the table, and those that pass the filter of the listing.
Stored == {i \in Id : rows[i] # Null /\ rows[i].at # "gone"}

Inside == {i \in Stored : rows[i].at = "in"}

----------------------------------------------------------------------------
(* The queries *)

\* ORDER BY created_at, id: row j comes before row i.
Ahead(j, i) ==
    LET older(k, l) == rows[k].t < rows[l].t \/ (rows[k].t = rows[l].t /\ k < l)
    IN  IF listing \in Descending THEN older(i, j) ELSE older(j, i)

\* The first n rows of S.
First(S, n) == {i \in S : Cardinality({j \in S : Ahead(j, i)}) < n}

\* Every query asks for one row more than the page has.
Take(S) == First(S, limit + 1)

\* createdAt > cursor, or the same instant and a greater id.
AfterCursor(i) ==
    \/ cursor = Null
    \/ rows[i].t > cursor.t * Micro
    \/ rows[i].t = cursor.t * Micro /\ i > cursor.id

BeforeCursor(i) ==
    \/ cursor = Null
    \/ rows[i].t < cursor.t * Micro
    \/ rows[i].t = cursor.t * Micro /\ i < cursor.id

\* The accounts that are not verified, oldest first.
ListPendingJuridica == Take({i \in Inside : AfterCursor(i)})

ListDeletions == Take({i \in Stored : AfterCursor(i)})

\* The guides of the category asked for, oldest first.
ListGuias == Take({i \in Inside : AfterCursor(i)})

\* The posts of the authors listed now, latest first.
ListListed == Take({i \in Inside : BeforeCursor(i)})

ListMessages == Take({i \in Stored : BeforeCursor(i)})

Found == CASE listing = "pending"   -> ListPendingJuridica
           [] listing = "deletions" -> ListDeletions
           [] listing = "guias"     -> ListGuias
           [] listing = "posts"     -> ListListed
           [] listing = "messages"  -> ListMessages

\* encodeCursor: Date.getTime() has milliseconds.
CursorAt(i) == [id |-> i, t |-> rows[i].t \div Micro]

LastOf(S) == CHOOSE i \in S : \A j \in S : ~Ahead(i, j)

\* Mutant: the cursor is the row that showed there is more.
PaginatedSkipping(S) ==
    IF Cardinality(S) > limit THEN [items |-> First(S, limit), next |-> CursorAt(LastOf(S))]
    ELSE [items |-> S, next |-> Null]

Paginated(S) ==
    LET items == First(S, limit) IN
    IF Cardinality(S) > limit THEN [items |-> items, next |-> CursorAt(LastOf(items))]
    ELSE [items |-> S, next |-> Null]

----------------------------------------------------------------------------
(* The client *)

BeginWalk ==
    /\ walk = "idle"
    /\ walk' = "on" /\ steady' = Inside
    /\ UNCHANGED <<listing, limit, rows, clock, cursor, served, pages, changes>>

Page ==
    LET answer == Paginated(Found) IN
    /\ walk = "on" /\ pages < MaxPages
    /\ served' = Append(served, answer.items)
    /\ cursor' = answer.next
    /\ walk' = IF answer.next = Null THEN "done" ELSE "on"
    /\ pages' = pages + 1
    /\ UNCHANGED <<listing, limit, rows, clock, steady, changes>>

----------------------------------------------------------------------------
(* The other requests *)

\* The stamp of a row: NOW() or the clock of Prisma.
Stamped == IF listing \in Raw THEN clock ELSE (clock \div Micro) * Micro

Insert(i) ==
    /\ rows[i] = Null
    /\ rows' = [rows EXCEPT ![i] = [t |-> Stamped, at |-> "in"]]
    /\ UNCHANGED <<listing, limit, clock, walk, cursor, served, steady, pages, changes>>

\* Mutant: a type of change that no query knows.
MoveHidden(i, at) ==
    /\ changes < MaxChanges /\ changes' = changes + 1
    /\ rows' = [rows EXCEPT ![i].at = "hidden"] /\ steady' = steady \ {i}
    /\ UNCHANGED <<listing, limit, clock, walk, cursor, served, pages>>

Move(i, at) ==
    /\ changes < MaxChanges /\ changes' = changes + 1
    /\ rows' = [rows EXCEPT ![i].at = at] /\ steady' = steady \ {i}
    /\ UNCHANGED <<listing, limit, clock, walk, cursor, served, pages>>

Flip(i) ==
    /\ rows[i] # Null /\ rows[i].at # "gone"
    /\ Move(i, IF rows[i].at = "in" THEN "out" ELSE "in")

\* An administrator verifies the account, or takes that back.
SetVerified(i) == listing = "pending" /\ Flip(i)

\* A guide moves to another category, or back.
UpdateGuia(i) == listing = "guias" /\ Flip(i)

\* The subscription of the author lapses, or is paid again.
Subscription(i) == listing = "posts" /\ Flip(i)

Delete(i) ==
    /\ listing \in {"guias", "posts"}
    /\ rows[i] # Null /\ rows[i].at # "gone"
    /\ Move(i, "gone")

TickClock ==
    /\ clock < MaxClock /\ clock' = clock + 1
    /\ UNCHANGED <<listing, limit, rows, walk, cursor, served, steady, pages, changes>>

----------------------------------------------------------------------------
WalkNext ==
    \/ BeginWalk \/ Page \/ TickClock
    \/ \E i \in Id : Insert(i) \/ SetVerified(i) \/ UpdateGuia(i) \/ Subscription(i) \/ Delete(i)

WalkSpec == WalkInit /\ [][WalkNext]_walkVars

----------------------------------------------------------------------------
(* Every variable has its type. *)
WalkTypeOK ==
    /\ listing \in Listing /\ limit \in Limit
    /\ rows \in [Id -> Entry \cup {Null}]
    /\ clock \in 0..MaxClock
    /\ walk \in {"idle", "on", "done"}
    /\ cursor \in Cursor \cup {Null}
    /\ served \in Seq(SUBSET Id) /\ steady \subseteq Id
    /\ pages \in 0..MaxPages /\ changes \in 0..MaxChanges

(* A walk is exact, whatever is inserted, leaves, returns or is deleted      *)
(* between its pages, and however many rows share a millisecond.  At its end *)
(* it has served every row that was in the listing all the while, and each   *)
(* page comes whole after the pages before it: no row twice and none out of   *)
(* its place.  Where raw SQL stamps the rows the cursor of a page falls       *)
(* before its last row, which the next page serves again: there only the     *)
(* first half holds.                                                         *)
WalkIsExact ==
    /\ walk = "done" => \A i \in steady : \E n \in DOMAIN served : i \in served[n]
    /\ listing \notin Raw =>
          \A m, n \in DOMAIN served : m < n => \A i \in served[m], j \in served[n] : Ahead(i, j)
============================================================================
