---------------------------- MODULE CatalogProofs ----------------------------
(***************************************************************************)
(* What the guides and the prices guarantee for every number of requests,   *)
(* files, sizes, failures and crashes: rows and objects match, a range is    *)
(* served as it was asked for, a cached price is the reported one, and the   *)
(* meter counts what the rows and the downloads add up to.                   *)
(***************************************************************************)
EXTENDS Catalog, FiniteSetTheorems, TLAPS

(***************************************************************************)
(* The types, but for the meter's: its bytes are a sum over the rows.        *)
(***************************************************************************)
Typed ==
    /\ row \in [Guia -> Size \cup {None}] /\ object \subseteq Guia
    /\ tmp \in Nat
    /\ price \in [Product -> Price \cup {None}] /\ cache \in [Product -> Price \cup {None}]
    /\ req \in [Req -> Request]
    /\ broken \subseteq Guia /\ leaked \subseteq Guia
    /\ used \in Nat /\ calls \in 0..MaxCalls

\* What a request has learnt by the await it is at.
Sized   == {"mkdtemp", "ffmpeg", "rm", "quota", "put", "row"}
OfGuia  == {"put", "row", "undo", "add", "find", "deleteObject", "deleteRow", "subtract",
            "open", "get"}
OfPrice == {"upsert", "invalidate", "cached", "select", "fill"}

Shaped == \A r \in Req :
    /\ req[r].pc \in Sized => req[r].size # None
    /\ req[r].pc \in OfGuia => req[r].guia # None
    /\ req[r].pc \in OfPrice => req[r].product # None

(***************************************************************************)
(* ObjectsMatchRows is not inductive: an upload may undo what it did, and a  *)
(* removal deletes, because nobody else has the id of an upload before its   *)
(* row is there.  Nor can ids run out, for every id was an upload received,  *)
(* or an audio leave a directory the disk does not have.                     *)
(***************************************************************************)
Identity ==
    /\ \A r \in Req : req[r].guia \in {None} \cup 1..used
    /\ Rows \subseteq 1..used
    /\ \A r \in At({"put", "row"}) :
          /\ req[r].guia \notin Rows
          /\ \A s \in Req \ {r} : req[s].guia # req[r].guia

Backed ==
    /\ Rows \subseteq object \cup broken \cup {req[r].guia : r \in At({"deleteRow"})}
    /\ object \subseteq Rows \cup leaked \cup {req[r].guia : r \in At({"row", "undo"})}
    /\ \A r \in At({"row"}) : req[r].guia \in object
    /\ \A r \in At({"undo"}) : req[r].guia \in Rows => req[r].guia \in broken
    /\ \A r \in At({"deleteRow"}) : req[r].guia \notin object

Compressing == {"ffmpeg", "rm"}
Unnamed     == {"mkdtemp", "ffmpeg", "rm", "quota"}

Counted ==
    /\ Cardinality(At(Compressing)) <= tmp
    /\ mishaps \cap {"crash", "rm"} = {} => tmp = Cardinality(At(Compressing))
    /\ used + Cardinality(At(Unnamed)) <= calls

(***************************************************************************)
(* Nor is PriceFresh: what is about to fill the cache must be as fresh.      *)
(***************************************************************************)
Invalidating(p) == \E r \in At({"invalidate"}) : req[r].product = p

FillsFresh == \A r \in At({"fill"}) :
    LET p == req[r].product IN
    req[r].price = price[p] \/ p \in stale \/ Invalidating(p)

Guides == Shaped /\ Identity /\ Backed
Prices == PriceFresh /\ FillsFresh

IInv == Typed /\ Guides /\ Counted /\ RangeServed /\ Prices

USE CatalogAssumption

----------------------------------------------------------------------------
(* A step changes one request *)

LEMMA FreeType == Free \in Request /\ Free.pc = "free" /\ Free.guia = None
  BY DEF Free, Request, Pc, Position

LEMMA Slot ==
    ASSUME Typed, NEW r \in Req, NEW q \in Request, req' = [req EXCEPT ![r] = q]
    PROVE  /\ req' \in [Req -> Request]
           /\ req'[r] = q
           /\ \A s \in Req \ {r} : req'[s] = req[s]
  BY DEF Typed

LEMMA AtSlot ==
    ASSUME NEW pcs, NEW r \in Req, \A s \in Req \ {r} : req'[s] = req[s]
    PROVE  At(pcs)' = IF req'[r].pc \in pcs THEN At(pcs) \cup {r} ELSE At(pcs) \ {r}
  BY DEF At

LEMMA AtFinite ==
    ASSUME NEW pcs
    PROVE  IsFiniteSet(At(pcs)) /\ Cardinality(At(pcs)) \in Nat
  <1>1. At(pcs) \in SUBSET Req
    BY DEF At
  <1> QED BY <1>1, FS_Subset, FS_CardinalityType

\* How many requests are at some awaits, after one of them moved.
LEMMA AtCount ==
    ASSUME NEW pcs, NEW r \in Req, \A s \in Req \ {r} : req'[s] = req[s]
    PROVE  /\ Cardinality(At(pcs)) \in Nat /\ Cardinality(At(pcs)') \in Nat
           /\ Cardinality(At(pcs)') = Cardinality(At(pcs))
                  + (IF req'[r].pc \in pcs THEN 1 ELSE 0)
                  - (IF req[r].pc \in pcs THEN 1 ELSE 0)
  <1>1. IsFiniteSet(At(pcs)) /\ Cardinality(At(pcs)) \in Nat
    BY AtFinite
  <1>2. r \in At(pcs) <=> req[r].pc \in pcs
    BY DEF At
  <1>3. At(pcs)' = IF req'[r].pc \in pcs THEN At(pcs) \cup {r} ELSE At(pcs) \ {r}
    BY AtSlot
  <1>4. Cardinality(At(pcs) \cup {r}) = IF r \in At(pcs) THEN Cardinality(At(pcs))
                                        ELSE Cardinality(At(pcs)) + 1
    BY <1>1, FS_AddElement
  <1>5. Cardinality(At(pcs) \ {r}) = IF r \in At(pcs) THEN Cardinality(At(pcs)) - 1
                                     ELSE Cardinality(At(pcs))
    BY <1>1, FS_RemoveElement
  <1>6. Cardinality(At(pcs)') \in Nat
    <2>1. At(pcs)' \in SUBSET Req
      BY DEF At
    <2> QED BY <2>1, FS_Subset, FS_CardinalityType
  <1> QED BY <1>1, <1>2, <1>3, <1>4, <1>5, <1>6

----------------------------------------------------------------------------
(* What a step does not touch *)

\* The counts, when a request neither enters nor leaves the counted awaits.
LEMMA CountedKept ==
    ASSUME Typed, Counted, NEW r \in Req, NEW q \in Request, req' = [req EXCEPT ![r] = q],
           q.pc \in Compressing <=> req[r].pc \in Compressing,
           q.pc \in Unnamed => req[r].pc \in Unnamed,
           mishaps \subseteq mishaps', UNCHANGED <<tmp, used>>, calls' >= calls, calls' \in Nat
    PROVE  Counted'
  <1>1. req'[r] = q /\ \A s \in Req \ {r} : req'[s] = req[s]
    BY Slot
  <1>2. Cardinality(At(Compressing)') = Cardinality(At(Compressing))
    BY <1>1, AtCount
  <1>3. /\ Cardinality(At(Unnamed)) \in Nat /\ Cardinality(At(Unnamed)') \in Nat
        /\ Cardinality(At(Unnamed)') = Cardinality(At(Unnamed))
               + (IF q.pc \in Unnamed THEN 1 ELSE 0) - (IF req[r].pc \in Unnamed THEN 1 ELSE 0)
    BY <1>1, AtCount
  <1>4. Cardinality(At(Unnamed)') <= Cardinality(At(Unnamed))
    BY <1>3
  <1>5. used \in Nat /\ calls \in Nat
    BY DEF Typed
  <1> QED BY <1>2, <1>3, <1>4, <1>5 DEF Counted

\* The ranges, when no request gets one.
LEMMA RangesKept ==
    ASSUME Typed, RangeServed, NEW r \in Req, NEW q \in Request, req' = [req EXCEPT ![r] = q],
           q.pc # "get"
    PROVE  RangeServed'
  <1>1. req'[r] = q /\ \A s \in Req \ {r} : req'[s] = req[s]
    BY Slot
  <1>2. \A s \in At({"get"})' : s \in At({"get"}) /\ req'[s] = req[s]
    BY <1>1 DEF At
  <1> QED BY <1>2 DEF RangeServed

\* The prices, when a request that is no report and fills nothing moves.
LEMMA PricesKept ==
    ASSUME Typed, Prices, NEW r \in Req, NEW q \in Request, req' = [req EXCEPT ![r] = q],
           req[r].pc # "invalidate", q.pc \notin {"invalidate", "fill"},
           UNCHANGED <<price, cache, stale>>
    PROVE  Prices'
  <1>1. req'[r] = q /\ \A s \in Req \ {r} : req'[s] = req[s]
    BY Slot
  <1>2. At({"invalidate"})' = At({"invalidate"})
    BY <1>1 DEF At
  <1>3. \A s \in At({"invalidate"}) : s # r /\ req'[s] = req[s]
    BY <1>1 DEF At
  <1>4. \A s \in At({"fill"})' : s \in At({"fill"}) /\ req'[s] = req[s]
    BY <1>1 DEF At
  <1>5. \A p : Invalidating(p)' <=> Invalidating(p)
    BY <1>2, <1>3 DEF Invalidating
  <1>6. PriceFresh'
    BY <1>2, <1>3 DEF Prices, PriceFresh
  <1>7. FillsFresh'
    BY <1>4, <1>5 DEF Prices, FillsFresh
  <1> QED BY <1>6, <1>7 DEF Prices

\* The guides, when a request that has done nothing to one moves and does nothing.
Owning == {"put", "row", "undo", "deleteRow"}

LEMMA GuidesKept ==
    ASSUME Typed, Guides, NEW r \in Req, NEW q \in Request, req' = [req EXCEPT ![r] = q],
           req[r].pc \notin Owning, q.pc \notin Owning,
           q.guia \in Rows \cup {None, req[r].guia},
           q.pc \in Sized => q.size # None,
           q.pc \in OfGuia => q.guia # None,
           q.pc \in OfPrice => q.product # None,
           UNCHANGED <<row, object, broken, leaked, used>>
    PROVE  Guides'
  <1>1. req'[r] = q /\ \A s \in Req \ {r} : req'[s] = req[s]
    BY Slot
  <1>2. Rows' = Rows
    BY DEF Rows
  <1>3. \A pcs \in SUBSET Owning :
           At(pcs)' = At(pcs) /\ \A s \in At(pcs) : s \in Req /\ s # r /\ req'[s] = req[s]
    BY <1>1 DEF At
  <1>4. Shaped'
    BY <1>1 DEF Guides, Shaped
  <1>5. Identity'
    <2>1. At({"put", "row"})' = At({"put", "row"})
          /\ \A s \in At({"put", "row"}) : s \in Req /\ s # r /\ req'[s] = req[s]
      BY <1>3 DEF Owning
    <2>2. \A s \in At({"put", "row"}) : req'[r].guia # req[s].guia
      <3> SUFFICES ASSUME NEW s \in At({"put", "row"}) PROVE q.guia # req[s].guia
        BY <1>1
      <3>1. req[s].guia # None /\ req[s].guia \notin Rows /\ req[r].guia # req[s].guia
        BY <2>1 DEF Guides, Shaped, Identity, At, OfGuia
      <3> QED BY <3>1
    <2>3. \A s \in Req : req'[s].guia \in {None} \cup 1..used
      BY <1>1 DEF Guides, Identity
    <2> QED BY <1>1, <1>2, <2>1, <2>2, <2>3 DEF Guides, Identity
  <1>6. Backed'
    <2>1. At({"row"})' = At({"row"}) /\ At({"undo"})' = At({"undo"})
          /\ At({"deleteRow"})' = At({"deleteRow"}) /\ At({"row", "undo"})' = At({"row", "undo"})
      BY <1>3 DEF Owning
    <2>2. \A s \in At({"row"}) \cup At({"undo"}) \cup At({"deleteRow"}) \cup At({"row", "undo"}) :
             req'[s] = req[s]
      BY <1>3 DEF Owning
    <2> QED BY <1>2, <2>1, <2>2 DEF Guides, Backed
  <1> QED BY <1>4, <1>5, <1>6 DEF Guides

\* What a request must be to move without a trace on the tables.
Traceless(r, q) ==
    /\ req' = [req EXCEPT ![r] = q]
    /\ req[r].pc \notin Owning \cup {"invalidate"}
    /\ q.pc \notin Owning \cup {"invalidate", "fill", "get"}
    /\ q.guia \in Rows \cup {None, req[r].guia}
    /\ q.pc \in Sized => q.size # None
    /\ q.pc \in OfGuia => q.guia # None
    /\ q.pc \in OfPrice => q.product # None

LEMMA Moves ==
    ASSUME IInv, NEW r \in Req, NEW q \in Request, Traceless(r, q),
           UNCHANGED <<row, object, tmp, price, cache, broken, leaked, stale, used>>,
           calls' \in 0..MaxCalls
    PROVE  Typed' /\ Guides' /\ RangeServed' /\ Prices'
  <1>1. Typed'
    BY Slot DEF IInv, Typed, Traceless
  <1>2. Guides'
    BY GuidesKept DEF IInv, Traceless
  <1>3. RangeServed'
    BY RangesKept DEF IInv, Traceless
  <1>4. Prices'
    BY PricesKept DEF IInv, Traceless
  <1> QED BY <1>1, <1>2, <1>3, <1>4

LEMMA MovesOn ==
    ASSUME IInv, NEW r \in Req, NEW q \in Request, Traceless(r, q),
           UNCHANGED <<row, object, tmp, price, cache, broken, leaked, stale, used, calls, mishaps>>,
           q.pc \in Compressing <=> req[r].pc \in Compressing,
           q.pc \in Unnamed => req[r].pc \in Unnamed
    PROVE  IInv'
  <1>1. calls \in 0..MaxCalls /\ calls \in Nat /\ calls' = calls /\ calls' >= calls
    BY DEF IInv, Typed
  <1>2. Typed' /\ Guides' /\ RangeServed' /\ Prices'
    BY <1>1, Moves
  <1>3. Counted'
    BY <1>1, CountedKept DEF IInv, Traceless
  <1> QED BY <1>2, <1>3 DEF IInv

\* The end of a request, whatever it had to do.
LEMMA Ends ==
    ASSUME IInv, NEW r \in Req, End(r), req[r].pc \notin Owning \cup Compressing \cup {"invalidate"},
           UNCHANGED <<row, object, tmp, price, cache, broken, leaked, stale, used, calls, mishaps>>
    PROVE  IInv'
  <1>1. Traceless(r, Free)
    BY FreeType DEF End, Traceless, Owning, Sized, OfGuia, OfPrice
  <1>2. Free.pc \notin Compressing /\ Free.pc \notin Unnamed
    BY FreeType DEF Compressing, Unnamed
  <1> QED BY <1>1, <1>2, FreeType, MovesOn

LEMMA GotoIs ==
    ASSUME Typed, NEW r \in Req, NEW pc \in Pc, Goto(r, pc)
    PROVE  \E q \in Request :
           /\ q.pc = pc /\ q.guia = req[r].guia /\ q.size = req[r].size
           /\ q.product = req[r].product /\ q.price = req[r].price
           /\ req' = [req EXCEPT ![r] = q]
  <1> DEFINE q == [req[r] EXCEPT !.pc = pc]
  <1>1. req[r] \in Request
    BY DEF Typed
  <1>2. /\ q \in Request /\ q.pc = pc /\ q.guia = req[r].guia /\ q.size = req[r].size
        /\ q.product = req[r].product /\ q.price = req[r].price
    BY <1>1 DEF Request
  <1>3. req' = [req EXCEPT ![r] = q]
    BY DEF Goto, Typed
  <1> QED BY <1>2, <1>3

----------------------------------------------------------------------------
(* Uploads *)

LEMMA ReceiveStep ==
    ASSUME IInv, NEW kind, NEW q \in Request, Receive(kind, q),
           q.pc \in {"quota", "mkdtemp", "find", "open", "upsert", "cached"},
           q.guia \in Rows \cup {None},
           q.pc \in Sized => q.size # None,
           q.pc \in OfGuia => q.guia # None,
           q.pc \in OfPrice => q.product # None
    PROVE  IInv'
  <1>1. /\ calls' = calls + 1 /\ calls' \in 0..MaxCalls
        /\ UNCHANGED <<row, object, tmp, price, cache, broken, leaked, stale, used>>
        /\ mishaps \subseteq mishaps'
    BY DEF Receive, guias, prices, IInv, Typed
  <1>2. PICK r \in Req : On(r, "free") /\ req' = [req EXCEPT ![r] = q]
    BY DEF Receive
  <1>3. Traceless(r, q)
    BY <1>2 DEF Traceless, On, Owning
  <1>4. Typed' /\ Guides' /\ RangeServed' /\ Prices'
    BY <1>1, <1>3, Moves
  <1>5. Counted'
    <2>1. req'[r] = q /\ \A s \in Req \ {r} : req'[s] = req[s]
      BY <1>2, Slot DEF IInv
    <2>2. req[r].pc \notin Compressing /\ q.pc \notin Compressing /\ req[r].pc \notin Unnamed
      BY <1>2 DEF On, Compressing, Unnamed
    <2>3. Cardinality(At(Compressing)') = Cardinality(At(Compressing))
      BY <2>1, <2>2, AtCount
    <2>4. /\ Cardinality(At(Unnamed)) \in Nat /\ Cardinality(At(Unnamed)') \in Nat
          /\ Cardinality(At(Unnamed)') = Cardinality(At(Unnamed))
                 + (IF q.pc \in Unnamed THEN 1 ELSE 0) - (IF req[r].pc \in Unnamed THEN 1 ELSE 0)
      BY <2>1, AtCount
    <2>5. Cardinality(At(Unnamed)') <= Cardinality(At(Unnamed)) + 1
      BY <2>2, <2>4
    <2>6. used \in Nat /\ calls \in Nat
      BY DEF IInv, Typed
    <2> QED BY <1>1, <2>3, <2>4, <2>5, <2>6 DEF IInv, Counted
  <1> QED BY <1>4, <1>5 DEF IInv

LEMMA ArriveStep ==
    ASSUME IInv, Arrive
    PROVE  IInv'
  <1>1. ASSUME NEW sz \in Size, NEW pc \in {"quota", "mkdtemp"},
               Receive("upload", [Free EXCEPT !.pc = pc, !.size = sz])
        PROVE  IInv'
    <2> DEFINE q == [Free EXCEPT !.pc = pc, !.size = sz]
    <2>1. q \in Request /\ q.pc = pc /\ q.size = sz /\ q.guia = None
      BY DEF Free, Request, Pc, Position
    <2>2. sz # None
      OBVIOUS
    <2>4. Receive("upload", q)
      BY <1>1
    <2> HIDE DEF q
    <2> QED BY <2>1, <2>2, <2>4, ReceiveStep DEF OfGuia, OfPrice
  <1>2. ASSUME NEW g \in Rows, Receive("remove", [Free EXCEPT !.pc = "find", !.guia = g])
        PROVE  IInv'
    <2> DEFINE q == [Free EXCEPT !.pc = "find", !.guia = g]
    <2>0. g \in Guia /\ g # None
      BY DEF Rows, Guia
    <2>1. q \in Request /\ q.pc = "find" /\ q.guia = g
      BY <2>0 DEF Free, Request, Pc, Position
    <2>4. Receive("remove", q)
      BY <1>2
    <2> HIDE DEF q
    <2> QED BY <2>0, <2>1, <2>4, ReceiveStep DEF Sized, OfPrice
  <1>3. ASSUME NEW g \in Rows, NEW first \in {None} \cup 0..Max(Size),
               NEW last \in {None} \cup 0..Max(Size),
               Receive("open", [Free EXCEPT !.pc = "open", !.guia = g, !.first = first, !.last = last])
        PROVE  IInv'
    <2> DEFINE q == [Free EXCEPT !.pc = "open", !.guia = g, !.first = first, !.last = last]
    <2>1. first \in Position /\ last \in Position
      BY DEF Position
    <2>0. g \in Guia /\ g # None
      BY DEF Rows, Guia
    <2>2. q \in Request /\ q.pc = "open" /\ q.guia = g
      BY <2>0, <2>1 DEF Free, Request, Pc
    <2>4. Receive("open", q)
      BY <1>3
    <2> HIDE DEF q
    <2> QED BY <2>0, <2>2, <2>4, ReceiveStep DEF Sized, OfPrice
  <1>4. ASSUME NEW p \in Product,
               Receive("report", [Free EXCEPT !.pc = "upsert", !.product = p, !.price = calls + 1])
        PROVE  IInv'
    <2> DEFINE q == [Free EXCEPT !.pc = "upsert", !.product = p, !.price = calls + 1]
    <2>1. calls + 1 \in Price
      BY <1>4 DEF Receive, Price, IInv, Typed
    <2>2. q \in Request /\ q.pc = "upsert" /\ q.guia = None /\ q.product = p
      BY <2>1 DEF Free, Request, Pc, Position
    <2>3. p # None
      OBVIOUS
    <2>4. Receive("report", q)
      BY <1>4
    <2> HIDE DEF q
    <2> QED BY <2>2, <2>3, <2>4, ReceiveStep DEF Sized, OfGuia
  <1>5. ASSUME NEW p \in Product,
               Receive("price", [Free EXCEPT !.pc = "cached", !.product = p])
        PROVE  IInv'
    <2> DEFINE q == [Free EXCEPT !.pc = "cached", !.product = p]
    <2>1. q \in Request /\ q.pc = "cached" /\ q.guia = None /\ q.product = p
      BY DEF Free, Request, Pc, Position
    <2>2. p # None
      OBVIOUS
    <2>4. Receive("price", q)
      BY <1>5
    <2> HIDE DEF q
    <2> QED BY <2>1, <2>2, <2>4, ReceiveStep DEF Sized, OfGuia
  <1> QED BY <1>1, <1>2, <1>3, <1>4, <1>5 DEF Arrive

\* How the counts move with a request.
LEMMA Counts ==
    ASSUME IInv, NEW r \in Req, NEW q \in Request, req' = [req EXCEPT ![r] = q]
    PROVE  /\ \A pcs : Cardinality(At(pcs)) \in Nat /\ Cardinality(At(pcs)') \in Nat
           /\ \A pcs : q.pc \in pcs /\ req[r].pc \in pcs =>
                 Cardinality(At(pcs)') = Cardinality(At(pcs))
           /\ \A pcs : q.pc \notin pcs /\ req[r].pc \notin pcs =>
                 Cardinality(At(pcs)') = Cardinality(At(pcs))
           /\ \A pcs : q.pc \in pcs /\ req[r].pc \notin pcs =>
                 Cardinality(At(pcs)') = Cardinality(At(pcs)) + 1
           /\ \A pcs : q.pc \notin pcs /\ req[r].pc \in pcs =>
                 Cardinality(At(pcs)') = Cardinality(At(pcs)) - 1
  <1>1. req'[r] = q /\ \A s \in Req \ {r} : req'[s] = req[s]
    BY Slot DEF IInv
  <1>2. \A pcs : /\ Cardinality(At(pcs)) \in Nat /\ Cardinality(At(pcs)') \in Nat
                 /\ Cardinality(At(pcs)') = Cardinality(At(pcs))
                        + (IF q.pc \in pcs THEN 1 ELSE 0) - (IF req[r].pc \in pcs THEN 1 ELSE 0)
    BY <1>1, AtCount
  <1> QED BY <1>2

LEMMA MkdtempStep ==
    ASSUME IInv, NEW r \in Req, Mkdtemp(r)
    PROVE  IInv'
  <1>1. /\ req[r].pc = "mkdtemp"
        /\ UNCHANGED <<row, object, price, cache, broken, leaked, stale, mishaps, used, calls>>
    BY DEF Mkdtemp, On, prices, history, bounds
  <1>2. CASE tmp' = tmp + 1 /\ Goto(r, "ffmpeg")
    <2>0. "ffmpeg" \in Pc
      BY DEF Pc
    <2>1. PICK q \in Request : /\ q.pc = "ffmpeg" /\ q.guia = req[r].guia /\ q.size = req[r].size
                               /\ req' = [req EXCEPT ![r] = q]
      BY <1>2, <2>0, GotoIs DEF IInv
    <2>2. tmp' \in Nat /\ calls' \in 0..MaxCalls
      BY <1>1, <1>2 DEF IInv, Typed
    <2>3. Typed'
      BY <1>1, <2>1, <2>2, Slot DEF IInv, Typed
    <2>4. Guides'
      BY <1>1, <2>1, GuidesKept DEF IInv, Owning, Sized, OfGuia, OfPrice, Guides, Shaped
    <2>5. RangeServed' /\ Prices'
      BY <1>1, <2>1, RangesKept, PricesKept DEF IInv
    <2>6. Counted'
      <3>0. /\ q.pc \in Compressing /\ req[r].pc \notin Compressing
            /\ q.pc \in Unnamed /\ req[r].pc \in Unnamed
        BY <1>1, <2>1 DEF Compressing, Unnamed
      <3>1. Cardinality(At(Compressing)') = Cardinality(At(Compressing)) + 1
        BY <2>1, <3>0, Counts
      <3>2. Cardinality(At(Unnamed)') = Cardinality(At(Unnamed))
        BY <2>1, <3>0, Counts
      <3>3. Cardinality(At(Compressing)) \in Nat
        BY <2>1, Counts
      <3>4. tmp \in Nat
        BY DEF IInv, Typed
      <3> QED BY <1>1, <1>2, <3>1, <3>2, <3>3, <3>4 DEF IInv, Counted
    <2> QED BY <2>3, <2>4, <2>5, <2>6 DEF IInv
  <1>3. CASE End(r) /\ UNCHANGED tmp
    BY <1>1, <1>3, Ends DEF Owning, Compressing
  <1> QED BY <1>2, <1>3 DEF Mkdtemp

LEMMA FfmpegStep ==
    ASSUME IInv, NEW r \in Req, Ffmpeg(r)
    PROVE  IInv'
  <1>1. /\ req[r].pc = "ffmpeg" /\ req[r].size # None
        /\ UNCHANGED <<row, object, tmp, price, cache, broken, leaked, stale, used, calls, mishaps>>
    BY DEF Ffmpeg, On, guias, prices, history, bounds, IInv, Guides, Shaped, Sized
  <1>2. PICK sz \in Size :
           \/ req' = [req EXCEPT ![r].pc = "rm", ![r].size = sz]
           \/ req' = [req EXCEPT ![r].pc = "rm", ![r].ok = FALSE]
    BY DEF Ffmpeg
  <1>3. PICK q \in Request : /\ req' = [req EXCEPT ![r] = q] /\ q.pc = "rm"
                             /\ q.guia = req[r].guia /\ q.size # None
    <2>1. req[r] \in Request /\ sz # None
      BY DEF IInv, Typed
    <2> DEFINE p == [req[r] EXCEPT !.pc = "rm", !.size = sz]
               e == [req[r] EXCEPT !.pc = "rm", !.ok = FALSE]
    <2>2. /\ p \in Request /\ p.pc = "rm" /\ p.guia = req[r].guia /\ p.size # None
          /\ e \in Request /\ e.pc = "rm" /\ e.guia = req[r].guia /\ e.size # None
      BY <1>1, <2>1 DEF Request, Pc
    <2>3. req' = [req EXCEPT ![r] = p] \/ req' = [req EXCEPT ![r] = e]
      BY <1>2 DEF IInv, Typed
    <2> QED BY <2>2, <2>3
  <1>4. Traceless(r, q)
    BY <1>1, <1>3 DEF Traceless, Owning, OfGuia, OfPrice
  <1> QED BY <1>1, <1>3, <1>4, MovesOn DEF Compressing, Unnamed

LEMMA RmStep ==
    ASSUME IInv, NEW r \in Req, Rm(r)
    PROVE  IInv'
  <1>1. /\ req[r].pc = "rm" /\ req[r].size # None
        /\ \/ tmp' = tmp - 1 /\ mishaps' = mishaps
           \/ tmp' = tmp /\ mishaps' = mishaps \cup {"rm"}
        /\ UNCHANGED <<row, object, price, cache, broken, leaked, stale, used, calls>>
    BY DEF Rm, On, prices, bounds, IInv, Guides, Shaped, Sized
  <1>2. PICK q \in Request :
          /\ req' = [req EXCEPT ![r] = q] /\ q.pc \in {"quota", "free"}
          /\ q.guia \in {None, req[r].guia}
          /\ q.pc = "quota" => q.size # None
    <2>0. "quota" \in Pc
      BY DEF Pc
    <2>1. CASE Goto(r, "quota")
      BY <1>1, <2>0, <2>1, GotoIs DEF IInv
    <2>2. CASE End(r)
      BY <2>2, FreeType DEF End
    <2> QED BY <2>1, <2>2 DEF Rm
  <1>3. req[r].pc \in Compressing /\ q.pc \notin Compressing
        /\ req[r].pc \in Unnamed
    BY <1>1, <1>2 DEF Compressing, Unnamed
  <1>4. /\ Cardinality(At(Compressing)) \in Nat /\ Cardinality(At(Compressing)') \in Nat
        /\ Cardinality(At(Compressing)') = Cardinality(At(Compressing)) - 1
    <2>1. req'[r] = q /\ \A s \in Req \ {r} : req'[s] = req[s]
      BY <1>2, Slot DEF IInv
    <2> QED BY <1>3, <2>1, AtCount
  <1>5. /\ Cardinality(At(Unnamed)) \in Nat /\ Cardinality(At(Unnamed)') \in Nat
        /\ Cardinality(At(Unnamed)') <= Cardinality(At(Unnamed))
    <2>1. req'[r] = q /\ \A s \in Req \ {r} : req'[s] = req[s]
      BY <1>2, Slot DEF IInv
    <2>2. /\ Cardinality(At(Unnamed)) \in Nat /\ Cardinality(At(Unnamed)') \in Nat
          /\ Cardinality(At(Unnamed)') = Cardinality(At(Unnamed))
                 + (IF q.pc \in Unnamed THEN 1 ELSE 0) - (IF req[r].pc \in Unnamed THEN 1 ELSE 0)
      BY <2>1, AtCount
    <2> QED BY <1>3, <2>2
  <1>6. tmp \in Nat /\ used \in Nat /\ calls \in 0..MaxCalls
    BY DEF IInv, Typed
  <1>7. tmp' \in Nat /\ Counted'
    BY <1>1, <1>4, <1>5, <1>6 DEF IInv, Counted
  <1>8. Typed'
    BY <1>1, <1>2, <1>6, <1>7, Slot DEF IInv, Typed
  <1>9. Guides'
    <2>1. /\ req[r].pc \notin Owning /\ q.pc \notin Owning /\ q.pc \notin OfGuia
          /\ q.pc \notin OfPrice
          /\ q.pc \in Sized => q.size # None
      BY <1>1, <1>2 DEF Owning, Sized, OfGuia, OfPrice
    <2> QED BY <1>1, <1>2, <2>1, GuidesKept DEF IInv
  <1>10. RangeServed' /\ Prices'
    BY <1>1, <1>2, RangesKept, PricesKept DEF IInv
  <1> QED BY <1>7, <1>8, <1>9, <1>10 DEF IInv

\* The new id is nobody's.
LEMMA QuotaStep ==
    ASSUME IInv, NEW r \in Req, Quota(r)
    PROVE  IInv'
  <1>1. /\ req[r].pc = "quota" /\ req[r].size # None /\ req[r] \in Request
        /\ UNCHANGED <<row, object, tmp, price, cache, broken, leaked, stale, mishaps, calls>>
    BY DEF Quota, On, guias, prices, history, bounds, IInv, Guides, Shaped, Sized, Typed
  <1>2. CASE End(r) /\ UNCHANGED used
    BY <1>1, <1>2, Ends DEF Owning, Compressing
  <1>3. CASE used' = used + 1 /\ req' = [req EXCEPT ![r].pc = "put", ![r].guia = used + 1]
    <2> DEFINE q == [req[r] EXCEPT !.pc = "put", !.guia = used + 1]
    <2>1. req' = [req EXCEPT ![r] = q] /\ q.pc = "put" /\ q.guia = used + 1 /\ q.size # None
      BY <1>1, <1>3 DEF IInv, Typed, Request
    <2>2. /\ IsFiniteSet(At(Unnamed)) /\ Cardinality(At(Unnamed)) \in Nat
          /\ Cardinality(At(Unnamed)) >= 1
      <3>1. IsFiniteSet(At(Unnamed)) /\ Cardinality(At(Unnamed)) \in Nat
        BY AtFinite
      <3>2. At(Unnamed) # {}
        BY <1>1 DEF At, Unnamed
      <3> QED BY <3>1, <3>2, FS_EmptySet
    <2>3. used \in Nat /\ calls \in Nat /\ calls <= MaxCalls /\ used + 1 \in Guia
      BY <2>2 DEF IInv, Typed, Counted, Guia
    <2>4. q \in Request
      BY <1>1, <2>3 DEF Request, Pc
    <2> HIDE DEF q
    <2>5. req' \in [Req -> Request] /\ req'[r] = q /\ \A s \in Req \ {r} : req'[s] = req[s]
      BY <2>1, <2>4, Slot DEF IInv
    <2>6. Typed'
      BY <1>1, <1>3, <2>3, <2>5 DEF IInv, Typed
    <2>7. Shaped'
      BY <1>1, <2>1, <2>3, <2>5 DEF IInv, Guides, Shaped, OfGuia, OfPrice, Guia
    <2>8. Identity'
      <3>1. Rows' = Rows
        BY <1>1 DEF Rows
      <3>2. \A s \in At({"put", "row"})' : s = r \/ s \in At({"put", "row"})
        BY <2>5 DEF At
      <3>3. \A s \in Req : req[s].guia # used + 1 /\ used + 1 \notin Rows
        BY <2>3 DEF IInv, Guides, Identity
      <3>4. \A s \in Req : req'[s].guia \in {None} \cup 1..used'
        BY <1>3, <2>1, <2>3, <2>5 DEF IInv, Guides, Identity
      <3>5. \A s \in At({"put", "row"})' :
               req'[s].guia \notin Rows /\ \A t \in Req \ {s} : req'[t].guia # req'[s].guia
        <4> SUFFICES ASSUME NEW s \in At({"put", "row"})', NEW t \in Req \ {s}
                     PROVE  req'[s].guia \notin Rows /\ req'[t].guia # req'[s].guia
          BY <3>3, <2>1, <2>5, <3>2 DEF IInv, Guides, Identity, At
        <4> QED BY <3>2, <3>3, <2>1, <2>5 DEF IInv, Guides, Identity, At
      <3>6. Rows \subseteq 1..used'
        BY <1>3, <2>3 DEF IInv, Guides, Identity
      <3> QED BY <3>1, <3>4, <3>5, <3>6 DEF Identity
    <2>9. Backed'
      <3>1. /\ At({"row"})' = At({"row"}) /\ At({"undo"})' = At({"undo"})
            /\ At({"deleteRow"})' = At({"deleteRow"}) /\ At({"row", "undo"})' = At({"row", "undo"})
        BY <1>1, <2>1, <2>5 DEF At
      <3>2. \A s \in At({"row"}) \cup At({"undo"}) \cup At({"deleteRow"}) \cup At({"row", "undo"}) :
               req'[s] = req[s]
        BY <1>1, <2>5 DEF At
      <3>3. Rows' = Rows
        BY <1>1 DEF Rows
      <3> QED BY <1>1, <3>1, <3>2, <3>3 DEF IInv, Guides, Backed
    <2>10. RangeServed' /\ Prices'
      BY <1>1, <2>1, <2>4, RangesKept, PricesKept DEF IInv
    <2>11. Counted'
      <3>0. /\ q.pc \notin Compressing /\ req[r].pc \notin Compressing
            /\ q.pc \notin Unnamed /\ req[r].pc \in Unnamed
        BY <1>1, <2>1 DEF Compressing, Unnamed
      <3>1. Cardinality(At(Compressing)') = Cardinality(At(Compressing))
        BY <2>1, <2>4, <3>0, Counts
      <3>2. Cardinality(At(Unnamed)') = Cardinality(At(Unnamed)) - 1
        BY <2>1, <2>4, <3>0, Counts
      <3> QED BY <1>1, <1>3, <2>2, <2>3, <3>1, <3>2 DEF IInv, Counted
    <2> QED BY <2>6, <2>7, <2>8, <2>9, <2>10, <2>11 DEF IInv, Guides
  <1> QED BY <1>2, <1>3 DEF Quota

\* What the calls to R2 and to the table of guides leave alone.
LEMMA Elsewhere ==
    ASSUME IInv, NEW r \in Req, NEW q \in Request, req' = [req EXCEPT ![r] = q],
           req[r].pc \notin Compressing \cup Unnamed \cup {"invalidate"},
           q.pc \notin Compressing \cup Unnamed \cup {"invalidate", "fill", "get"},
           UNCHANGED <<tmp, price, cache, stale, used, calls>>, mishaps \subseteq mishaps',
           row' \in [Guia -> Size \cup {None}], object' \subseteq Guia,
           broken' \subseteq Guia, leaked' \subseteq Guia
    PROVE  Typed' /\ Counted' /\ RangeServed' /\ Prices'
  <1>1. calls \in Nat /\ calls' >= calls /\ calls' \in Nat
    BY DEF IInv, Typed
  <1>2. Typed'
    BY Slot DEF IInv, Typed
  <1>3. Counted'
    BY <1>1, CountedKept DEF IInv
  <1>4. RangeServed' /\ Prices'
    BY RangesKept, PricesKept DEF IInv
  <1> QED BY <1>2, <1>3, <1>4

\* What an upload that has its id knows.
LEMMA Owned ==
    ASSUME IInv, NEW r \in Req, req[r].pc \in {"put", "row"}
    PROVE  /\ req[r].guia \in Guia /\ req[r].guia # None
           /\ req[r].size \in Size /\ req[r].size # None
           /\ req[r].guia \in 1..used /\ req[r].guia \notin Rows
           /\ \A s \in Req \ {r} : req[s].guia # req[r].guia
  <1>1. r \in At({"put", "row"}) /\ req[r] \in Request
    BY DEF At, IInv, Typed
  <1>2. req[r].guia # None /\ req[r].size # None
    BY DEF IInv, Guides, Shaped, OfGuia, Sized
  <1> QED BY <1>1, <1>2 DEF IInv, Guides, Identity, Request

LEMMA PutStep ==
    ASSUME IInv, NEW r \in Req, Put(r)
    PROVE  IInv'
  <1> DEFINE g == req[r].guia
  <1>1. /\ req[r].pc = "put"
        /\ UNCHANGED <<row, tmp, price, cache, broken, stale, mishaps, used, calls>>
    BY DEF Put, On, prices, bounds
  <1>2. /\ g \in Guia /\ g # None /\ req[r].size \in Size /\ req[r].size # None
        /\ g \in 1..used /\ g \notin Rows
        /\ \A s \in Req \ {r} : req[s].guia # g
    BY <1>1, Owned
  <1>3. PICK out \in Outcome :
          /\ object' = IF out = "failed" THEN object ELSE WithObject(g)
          /\ leaked' = IF out = "unheard" THEN leaked \cup {g} ELSE leaked
          /\ IF out = "done" THEN Goto(r, "row") ELSE End(r)
    BY DEF Put
  <1>4. PICK q \in Request :
          /\ req' = [req EXCEPT ![r] = q]
          /\ out = "done" => q.pc = "row" /\ q.guia = g /\ q.size = req[r].size
          /\ out # "done" => q.pc = "free" /\ q.guia = None
    <2>1. "row" \in Pc
      BY DEF Pc
    <2>2. CASE out = "done"
      BY <1>3, <2>1, <2>2, GotoIs DEF IInv
    <2>3. CASE out # "done"
      BY <1>3, <2>3, FreeType DEF End
    <2> QED BY <2>2, <2>3
  <1>5. req' \in [Req -> Request] /\ req'[r] = q /\ \A s \in Req \ {r} : req'[s] = req[s]
    BY <1>4, Slot DEF IInv
  <1>6. object' \subseteq Guia /\ leaked' \subseteq Guia
    BY <1>2, <1>3 DEF IInv, Typed, WithObject
  <1>7. Typed' /\ Counted' /\ RangeServed' /\ Prices'
    <2>1. q.pc \in {"row", "free"}
      BY <1>4
    <2>2. row \in [Guia -> Size \cup {None}] /\ broken \subseteq Guia
      BY DEF IInv, Typed
    <2>3. /\ req[r].pc \notin Compressing \cup Unnamed \cup {"invalidate"}
          /\ q.pc \notin Compressing \cup Unnamed \cup {"invalidate", "fill", "get"}
      BY <1>1, <2>1 DEF Compressing, Unnamed
    <2> QED BY <1>1, <1>4, <1>6, <2>2, <2>3, Elsewhere
  <1>8. Shaped'
    <2>1. (q.pc = "row" /\ q.guia # None /\ q.size # None) \/ q.pc = "free"
      BY <1>2, <1>4
    <2>2. /\ q.pc \in Sized => q.size # None
          /\ q.pc \in OfGuia => q.guia # None
          /\ q.pc \notin OfPrice
      BY <2>1 DEF Sized, OfGuia, OfPrice
    <2> QED BY <1>5, <2>2 DEF IInv, Guides, Shaped
  <1>9. Rows' = Rows
    BY <1>1 DEF Rows
  <1>10. Identity'
    <2>1. \A s \in At({"put", "row"})' : (s = r /\ q.pc = "row") \/ (s # r /\ s \in At({"put", "row"}))
      BY <1>4, <1>5 DEF At
    <2>2. \A s \in At({"put", "row"})' :
             req'[s].guia \notin Rows /\ \A t \in Req \ {s} : req'[t].guia # req'[s].guia
      <3> SUFFICES ASSUME NEW s \in At({"put", "row"})', NEW t \in Req \ {s}
                   PROVE  req'[s].guia \notin Rows /\ req'[t].guia # req'[s].guia
        BY <1>2, <1>4, <1>5, <2>1 DEF IInv, Guides, Identity, At
      <3>1. CASE s = r
        BY <1>2, <1>4, <1>5, <2>1, <3>1
      <3>2. CASE s # r
        <4>1. s \in Req /\ req'[s] = req[s] /\ req[s].guia # None
          BY <1>5, <2>1, <3>2 DEF At, IInv, Guides, Shaped, OfGuia
        <4> QED BY <1>4, <1>5, <2>1, <3>2, <4>1 DEF IInv, Guides, Identity
      <3> QED BY <3>1, <3>2
    <2>3. \A s \in Req : req'[s].guia \in {None} \cup 1..used
      BY <1>2, <1>4, <1>5 DEF IInv, Guides, Identity
    <2> QED BY <1>1, <1>9, <2>2, <2>3 DEF IInv, Guides, Identity
  <1>11. Backed'
    <2>1. At({"deleteRow"})' = At({"deleteRow"}) /\ At({"undo"})' = At({"undo"})
          /\ \A s \in At({"deleteRow"}) \cup At({"undo"}) : s \in Req /\ s # r /\ req'[s] = req[s]
      BY <1>1, <1>4, <1>5 DEF At
    <2>2. \A s \in At({"row", "undo"}) : s \in At({"row", "undo"})' /\ req'[s] = req[s]
      BY <1>1, <1>5 DEF At
    <2>3. \A s \in At({"row"})' : (s = r /\ out = "done") \/ (s \in At({"row"}) /\ req'[s] = req[s])
      BY <1>1, <1>4, <1>5 DEF At
    <2>4. Rows' \subseteq object' \cup broken' \cup {req'[s].guia : s \in At({"deleteRow"})'}
      BY <1>1, <1>3, <1>9, <2>1 DEF IInv, Guides, Backed, WithObject
    <2>5. object' \subseteq Rows' \cup leaked' \cup {req'[s].guia : s \in At({"row", "undo"})'}
      <3>1. out = "done" => r \in At({"row", "undo"})' /\ req'[r].guia = g
        BY <1>4, <1>5 DEF At
      <3> QED BY <1>3, <1>9, <2>2, <3>1 DEF IInv, Guides, Backed, WithObject, Outcome
    <2>6. \A s \in At({"row"})' : req'[s].guia \in object'
      BY <1>3, <1>4, <1>5, <2>3 DEF IInv, Guides, Backed, WithObject
    <2>7. \A s \in At({"undo"})' : req'[s].guia \in Rows' => req'[s].guia \in broken'
      BY <1>1, <1>9, <2>1 DEF IInv, Guides, Backed
    <2>8. \A s \in At({"deleteRow"})' : req'[s].guia \notin object'
      BY <1>2, <1>3, <2>1 DEF IInv, Guides, Backed, WithObject
    <2> QED BY <2>4, <2>5, <2>6, <2>7, <2>8 DEF Backed
  <1> QED BY <1>7, <1>8, <1>10, <1>11 DEF IInv, Guides

\* A request that no longer is about to store or to insert.
LEMMA NamesKept ==
    ASSUME IInv, NEW r \in Req, NEW q \in Request, req' = [req EXCEPT ![r] = q],
           req[r].guia # None, q.pc \notin {"put", "row"}, q.guia \in {None, req[r].guia},
           Rows' \subseteq Rows \cup {req[r].guia}, used' = used,
           q.pc \in OfGuia => q.guia # None,
           q.pc \notin Sized \cup OfPrice
    PROVE  Shaped' /\ Identity'
  <1>1. req'[r] = q /\ \A s \in Req \ {r} : req'[s] = req[s]
    BY Slot DEF IInv
  <1>2. Shaped'
    BY <1>1 DEF IInv, Guides, Shaped
  <1>3. \A s \in At({"put", "row"})' : s # r /\ s \in At({"put", "row"}) /\ req'[s] = req[s]
    BY <1>1 DEF At
  <1>4. \A s \in At({"put", "row"})' :
           /\ req'[s].guia \notin Rows'
           /\ \A t \in Req \ {s} : req'[t].guia # req'[s].guia
    <2> SUFFICES ASSUME NEW s \in At({"put", "row"})'
                 PROVE  /\ req'[s].guia \notin Rows'
                        /\ \A t \in Req \ {s} : req'[t].guia # req'[s].guia
      OBVIOUS
    <2>1. /\ s \in Req \ {r} /\ req'[s] = req[s] /\ req[s].guia # None
          /\ req[s].guia \notin Rows /\ \A t \in Req \ {s} : req[t].guia # req[s].guia
      BY <1>3 DEF At, IInv, Guides, Shaped, Identity, OfGuia
    <2> QED BY <1>1, <2>1
  <1>5. \A s \in Req : req'[s].guia \in {None} \cup 1..used'
    BY <1>1 DEF IInv, Guides, Identity
  <1>6. Rows' \subseteq 1..used'
    <2>1. req[r].guia \in 1..used
      BY DEF IInv, Guides, Identity
    <2> QED BY <2>1 DEF IInv, Guides, Identity
  <1>7. Identity'
    BY <1>4, <1>5, <1>6 DEF Identity
  <1> QED BY <1>2, <1>7

LEMMA CreateRowStep ==
    ASSUME IInv, NEW r \in Req, CreateRow(r)
    PROVE  IInv'
  <1> DEFINE g == req[r].guia
  <1>1. /\ req[r].pc = "row"
        /\ UNCHANGED <<object, tmp, price, cache, leaked, stale, used, calls>>
    BY DEF CreateRow, On, prices, bounds
  <1>2. /\ g \in Guia /\ g # None /\ req[r].size \in Size /\ req[r].size # None
        /\ g \in 1..used /\ g \notin Rows
        /\ \A s \in Req \ {r} : req[s].guia # g
    BY <1>1, Owned
  <1>3. PICK out \in Outcome :
          /\ row' = IF out = "failed" THEN row ELSE WithRow(g, req[r].size)
          /\ broken' = IF out = "unheard" THEN broken \cup {g} ELSE broken
          /\ mishaps' = Unsaid(out)
          /\ Goto(r, IF out = "done" THEN "add" ELSE "undo")
    BY DEF CreateRow
  <1>4. PICK q \in Request :
          /\ req' = [req EXCEPT ![r] = q] /\ q.guia = g
          /\ q.pc = IF out = "done" THEN "add" ELSE "undo"
    <2>1. (IF out = "done" THEN "add" ELSE "undo") \in Pc
      BY DEF Pc
    <2> QED BY <1>3, <2>1, GotoIs DEF IInv
  <1>5. req' \in [Req -> Request] /\ req'[r] = q /\ \A s \in Req \ {r} : req'[s] = req[s]
    BY <1>4, Slot DEF IInv
  <1>6. /\ row' \in [Guia -> Size \cup {None}] /\ object' \subseteq Guia
        /\ broken' \subseteq Guia /\ leaked' \subseteq Guia /\ mishaps \subseteq mishaps'
    BY <1>1, <1>2, <1>3 DEF IInv, Typed, WithRow, Unsaid
  <1>7. Typed' /\ Counted' /\ RangeServed' /\ Prices'
    <2>1. /\ req[r].pc \notin Compressing \cup Unnamed \cup {"invalidate"}
          /\ q.pc \notin Compressing \cup Unnamed \cup {"invalidate", "fill", "get"}
      BY <1>1, <1>4 DEF Compressing, Unnamed
    <2> QED BY <1>1, <1>4, <1>6, <2>1, Elsewhere
  <1>8. Rows' = IF out = "failed" THEN Rows ELSE Rows \cup {g}
    <2>1. row \in [Guia -> Size \cup {None}]
      BY DEF IInv, Typed
    <2>2. CASE out = "failed"
      BY <1>3, <2>2 DEF Rows
    <2>3. CASE out # "failed"
      <3>1. row' = [row EXCEPT ![g] = req[r].size]
        BY <1>3, <2>3 DEF WithRow
      <3> QED BY <1>2, <2>1, <2>3, <3>1 DEF Rows
    <2> QED BY <2>2, <2>3
  <1>9. Shaped' /\ Identity'
    <2>1. q.pc \notin {"put", "row"} /\ q.pc \notin Sized \cup OfPrice
      BY <1>4 DEF Sized, OfPrice
    <2> QED BY <1>1, <1>2, <1>4, <1>8, <2>1, NamesKept
  <1>10. Backed'
    <2>1. At({"deleteRow"})' = At({"deleteRow"})
          /\ \A s \in At({"deleteRow"}) : s \in Req /\ s # r /\ req'[s] = req[s]
      BY <1>1, <1>4, <1>5 DEF At
    <2>2. \A s \in At({"row", "undo"}) : (s = r) \/ (s \in At({"row", "undo"})' /\ req'[s] = req[s])
      BY <1>1, <1>5 DEF At
    <2>3. \A s \in At({"row"})' : s \in At({"row"}) /\ req'[s] = req[s]
      BY <1>1, <1>4, <1>5 DEF At
    <2>4. \A s \in At({"undo"})' :
             (s = r /\ out # "done") \/ (s \in Req \ {r} /\ s \in At({"undo"}) /\ req'[s] = req[s])
      BY <1>1, <1>4, <1>5 DEF At
    <2>5. g \in object
      BY <1>1 DEF At, IInv, Guides, Backed
    <2>6. Rows' \subseteq object' \cup broken' \cup {req'[s].guia : s \in At({"deleteRow"})'}
      BY <1>1, <1>3, <1>8, <2>1, <2>5 DEF IInv, Guides, Backed
    <2>7. object' \subseteq Rows' \cup leaked' \cup {req'[s].guia : s \in At({"row", "undo"})'}
      <3>1. out # "done" => r \in At({"row", "undo"})' /\ req'[r].guia = g
        BY <1>4, <1>5 DEF At
      <3>2. out = "done" => g \in Rows'
        BY <1>8
      <3> QED BY <1>1, <1>8, <2>2, <3>1, <3>2 DEF IInv, Guides, Backed
    <2>8. \A s \in At({"row"})' : req'[s].guia \in object'
      BY <1>1, <2>3 DEF IInv, Guides, Backed
    <2>9. \A s \in At({"undo"})' : req'[s].guia \in Rows' => req'[s].guia \in broken'
      <3> SUFFICES ASSUME NEW s \in At({"undo"})', req'[s].guia \in Rows'
                   PROVE  req'[s].guia \in broken'
        OBVIOUS
      <3>1. CASE s = r /\ out # "done"
        BY <1>2, <1>3, <1>4, <1>5, <1>8, <3>1 DEF Outcome
      <3>2. CASE s \in Req \ {r} /\ s \in At({"undo"}) /\ req'[s] = req[s]
        <4>1. req[s].guia \in Rows
          BY <1>2, <1>8, <3>2
        <4> QED BY <1>3, <3>2, <4>1 DEF IInv, Guides, Backed
      <3> QED BY <2>4, <3>1, <3>2
    <2>10. \A s \in At({"deleteRow"})' : req'[s].guia \notin object'
      BY <1>1, <2>1 DEF IInv, Guides, Backed
    <2> QED BY <2>6, <2>7, <2>8, <2>9, <2>10 DEF Backed
  <1> QED BY <1>7, <1>9, <1>10 DEF IInv, Guides

LEMMA UndoStep ==
    ASSUME IInv, NEW r \in Req, Undo(r)
    PROVE  IInv'
  <1> DEFINE g == req[r].guia
  <1>1. /\ req[r].pc = "undo" /\ req' = [req EXCEPT ![r] = Free]
        /\ UNCHANGED <<row, tmp, price, cache, broken, stale, mishaps, used, calls>>
    BY DEF Undo, On, End, prices, bounds
  <1>2. g \in Guia /\ g # None
    BY <1>1 DEF IInv, Typed, Guides, Shaped, OfGuia, Request
  <1>3. \/ object' = WithoutObject(g) /\ leaked' = leaked
        \/ object' = object /\ leaked' = leaked \cup {g}
    BY DEF Undo
  <1>4. req' \in [Req -> Request] /\ req'[r] = Free /\ \A s \in Req \ {r} : req'[s] = req[s]
    BY <1>1, FreeType, Slot DEF IInv
  <1>5. row \in [Guia -> Size \cup {None}] /\ object' \subseteq Guia
        /\ broken \subseteq Guia /\ leaked' \subseteq Guia
    BY <1>2, <1>3 DEF IInv, Typed, WithoutObject
  <1>6. Typed' /\ Counted' /\ RangeServed' /\ Prices'
    <2>1. /\ req[r].pc \notin Compressing \cup Unnamed \cup {"invalidate"}
          /\ Free.pc \notin Compressing \cup Unnamed \cup {"invalidate", "fill", "get"}
      BY <1>1, FreeType DEF Compressing, Unnamed
    <2> QED BY <1>1, <1>5, <2>1, FreeType, Elsewhere
  <1>7. Rows' = Rows
    BY <1>1 DEF Rows
  <1>8. Shaped' /\ Identity'
    <2>1. Free.pc \notin {"put", "row"} /\ Free.pc \notin Sized \cup OfPrice /\ Free.pc \notin OfGuia
      BY FreeType DEF Sized, OfPrice, OfGuia
    <2> QED BY <1>1, <1>2, <1>7, <2>1, FreeType, NamesKept
  <1>9. Backed'
    <2>1. At({"deleteRow"})' = At({"deleteRow"}) /\ At({"row"})' = At({"row"})
          /\ \A s \in At({"deleteRow"}) \cup At({"row"}) : s \in Req /\ s # r /\ req'[s] = req[s]
      BY <1>1, <1>4, FreeType DEF At
    <2>2. \A s \in At({"undo"})' : s \in At({"undo"}) /\ req'[s] = req[s]
      BY <1>4, FreeType DEF At
    <2>3. \A s \in At({"row", "undo"}) : (s = r) \/ (s \in At({"row", "undo"})' /\ req'[s] = req[s])
      BY <1>1, <1>4 DEF At
    <2>4. g \in Rows => g \in broken
      BY <1>1 DEF At, IInv, Guides, Backed
    <2>5. \A s \in At({"row"}) : req[s].guia # g
      BY <1>1, Owned DEF At
    <2>6. Rows' \subseteq object' \cup broken' \cup {req'[s].guia : s \in At({"deleteRow"})'}
      BY <1>1, <1>3, <1>7, <2>1, <2>4 DEF IInv, Guides, Backed, WithoutObject
    <2>7. object' \subseteq Rows' \cup leaked' \cup {req'[s].guia : s \in At({"row", "undo"})'}
      BY <1>3, <1>7, <2>3 DEF IInv, Guides, Backed, WithoutObject
    <2>8. \A s \in At({"row"})' : req'[s].guia \in object'
      BY <1>3, <2>1, <2>5 DEF IInv, Guides, Backed, WithoutObject
    <2>9. \A s \in At({"undo"})' : req'[s].guia \in Rows' => req'[s].guia \in broken'
      BY <1>1, <1>7, <2>2 DEF IInv, Guides, Backed
    <2>10. \A s \in At({"deleteRow"})' : req'[s].guia \notin object'
      BY <1>3, <2>1 DEF IInv, Guides, Backed, WithoutObject
    <2> QED BY <2>6, <2>7, <2>8, <2>9, <2>10 DEF Backed
  <1> QED BY <1>6, <1>8, <1>9 DEF IInv, Guides

LEMMA AddStorageStep ==
    ASSUME IInv, NEW r \in Req, AddStorage(r)
    PROVE  IInv'
  BY Ends DEF AddStorage, On, Owning, Compressing, prices, history, bounds

----------------------------------------------------------------------------
(* Removals *)

LEMMA FindRowStep ==
    ASSUME IInv, NEW r \in Req, FindRow(r)
    PROVE  IInv'
  <1> DEFINE g == req[r].guia
             q == [req[r] EXCEPT !.pc = "deleteObject", !.size = row[g]]
  <1>1. /\ req[r].pc = "find"
        /\ UNCHANGED <<row, object, tmp, price, cache, broken, leaked, stale, used, calls, mishaps>>
    BY DEF FindRow, On, guias, prices, history, bounds
  <1>2. CASE g \in Rows
    <2>1. req[r] \in Request /\ row[g] \in Size /\ g # None
      BY <1>1, <1>2 DEF IInv, Typed, Rows, Guides, Shaped, OfGuia
    <2>2. q \in Request /\ q.pc = "deleteObject" /\ q.guia = g
      BY <2>1 DEF Request, Pc
    <2>3. req' = [req EXCEPT ![r] = q]
      BY <1>2 DEF FindRow, IInv, Typed
    <2> HIDE DEF q
    <2>4. Traceless(r, q)
      BY <1>1, <2>1, <2>2, <2>3 DEF Traceless, Owning, Sized, OfGuia, OfPrice
    <2>5. req[r].pc \notin Compressing /\ q.pc \notin Compressing /\ q.pc \notin Unnamed
      BY <1>1, <2>2 DEF Compressing, Unnamed
    <2> QED BY <1>1, <2>2, <2>4, <2>5, MovesOn
  <1>3. CASE g \notin Rows
    <2>1. req[r].pc \notin Owning \cup Compressing \cup {"invalidate"}
      BY <1>1 DEF Owning, Compressing
    <2> QED BY <1>1, <1>3, <2>1, Ends DEF FindRow
  <1> QED BY <1>2, <1>3

LEMMA DeleteObjectStep ==
    ASSUME IInv, NEW r \in Req, DeleteObject(r)
    PROVE  IInv'
  <1> DEFINE g == req[r].guia
  <1>1. /\ req[r].pc = "deleteObject"
        /\ UNCHANGED <<row, tmp, price, cache, leaked, stale, mishaps, used, calls>>
    BY DEF DeleteObject, On, prices, bounds
  <1>2. g \in Guia /\ g # None
    BY <1>1 DEF IInv, Typed, Guides, Shaped, OfGuia, Request
  <1>3. PICK out \in Outcome :
          /\ object' = IF out = "failed" THEN object ELSE WithoutObject(g)
          /\ broken' = IF out = "unheard" THEN broken \cup {g} ELSE broken
          /\ IF out = "done" THEN Goto(r, "deleteRow") ELSE End(r)
    BY DEF DeleteObject
  <1>4. PICK q \in Request :
          /\ req' = [req EXCEPT ![r] = q]
          /\ out = "done" => q.pc = "deleteRow" /\ q.guia = g
          /\ out # "done" => q.pc = "free" /\ q.guia = None
    <2>1. "deleteRow" \in Pc
      BY DEF Pc
    <2>2. CASE out = "done"
      BY <1>3, <2>1, <2>2, GotoIs DEF IInv
    <2>3. CASE out # "done"
      BY <1>3, <2>3, FreeType DEF End
    <2> QED BY <2>2, <2>3
  <1>5. req' \in [Req -> Request] /\ req'[r] = q /\ \A s \in Req \ {r} : req'[s] = req[s]
    BY <1>4, Slot DEF IInv
  <1>6. /\ row \in [Guia -> Size \cup {None}] /\ object' \subseteq Guia
        /\ broken' \subseteq Guia /\ leaked \subseteq Guia
    BY <1>2, <1>3 DEF IInv, Typed, WithoutObject
  <1>7. q.pc \in {"deleteRow", "free"} /\ q.guia \in {None, g}
    BY <1>4
  <1>8. Typed' /\ Counted' /\ RangeServed' /\ Prices'
    <2>1. /\ req[r].pc \notin Compressing \cup Unnamed \cup {"invalidate"}
          /\ q.pc \notin Compressing \cup Unnamed \cup {"invalidate", "fill", "get"}
      BY <1>1, <1>7 DEF Compressing, Unnamed
    <2> QED BY <1>1, <1>4, <1>6, <2>1, Elsewhere
  <1>9. Rows' = Rows
    BY <1>1 DEF Rows
  <1>10. Shaped' /\ Identity'
    <2>1. q.pc \notin {"put", "row"} /\ q.pc \notin Sized \cup OfPrice
      BY <1>7 DEF Sized, OfPrice
    <2>2. q.pc \in OfGuia => q.guia # None
      BY <1>2, <1>4 DEF OfGuia
    <2> QED BY <1>1, <1>2, <1>4, <1>7, <1>9, <2>1, <2>2, NamesKept
  <1>11. Backed'
    <2>1. At({"row", "undo"})' = At({"row", "undo"}) /\ At({"row"})' = At({"row"})
          /\ At({"undo"})' = At({"undo"})
          /\ \A s \in At({"row", "undo"}) \cup At({"row"}) \cup At({"undo"}) :
                s \in Req /\ s # r /\ req'[s] = req[s]
      BY <1>1, <1>5, <1>7 DEF At
    <2>2. \A s \in At({"deleteRow"}) : s \in At({"deleteRow"})' /\ req'[s] = req[s]
      BY <1>1, <1>5 DEF At
    <2>3. \A s \in At({"deleteRow"})' :
             (s = r /\ out = "done") \/ (s \in At({"deleteRow"}) /\ req'[s] = req[s])
      BY <1>4, <1>5 DEF At
    <2>4. \A s \in At({"row"}) : req[s].guia # g
      BY <1>1, Owned DEF At
    <2>5. Rows' \subseteq object' \cup broken' \cup {req'[s].guia : s \in At({"deleteRow"})'}
      <3>1. out = "done" => r \in At({"deleteRow"})' /\ req'[r].guia = g
        BY <1>4, <1>5 DEF At
      <3> QED BY <1>3, <1>9, <2>2, <3>1 DEF IInv, Guides, Backed, WithoutObject, Outcome
    <2>6. object' \subseteq Rows' \cup leaked' \cup {req'[s].guia : s \in At({"row", "undo"})'}
      BY <1>1, <1>3, <1>9, <2>1 DEF IInv, Guides, Backed, WithoutObject
    <2>7. \A s \in At({"row"})' : req'[s].guia \in object'
      BY <1>3, <2>1, <2>4 DEF IInv, Guides, Backed, WithoutObject
    <2>8. \A s \in At({"undo"})' : req'[s].guia \in Rows' => req'[s].guia \in broken'
      BY <1>3, <1>9, <2>1 DEF IInv, Guides, Backed
    <2>9. \A s \in At({"deleteRow"})' : req'[s].guia \notin object'
      BY <1>3, <1>4, <1>5, <2>3 DEF IInv, Guides, Backed, WithoutObject
    <2> QED BY <2>5, <2>6, <2>7, <2>8, <2>9 DEF Backed
  <1> QED BY <1>8, <1>10, <1>11 DEF IInv, Guides

LEMMA DeleteRowStep ==
    ASSUME IInv, NEW r \in Req, DeleteRow(r)
    PROVE  IInv'
  <1> DEFINE g == req[r].guia
  <1>1. /\ req[r].pc = "deleteRow"
        /\ UNCHANGED <<object, tmp, price, cache, leaked, stale, used, calls>>
    BY DEF DeleteRow, On, prices, bounds
  <1>2. g \in Guia /\ g # None
    BY <1>1 DEF IInv, Typed, Guides, Shaped, OfGuia, Request
  <1>3. PICK out \in Outcome :
          /\ row' = IF out = "failed" THEN row ELSE WithoutRow(g)
          /\ broken' = IF out = "failed" THEN broken \cup {g} ELSE broken
          /\ mishaps' = Unsaid(out)
          /\ IF out = "done" /\ g \in Rows THEN Goto(r, "subtract") ELSE End(r)
    BY DEF DeleteRow
  <1>4. PICK q \in Request :
          /\ req' = [req EXCEPT ![r] = q]
          /\ \/ q.pc = "subtract" /\ q.guia = g
             \/ q.pc = "free" /\ q.guia = None
    <2>1. "subtract" \in Pc
      BY DEF Pc
    <2>2. CASE out = "done" /\ g \in Rows
      BY <1>3, <2>1, <2>2, GotoIs DEF IInv
    <2>3. CASE ~(out = "done" /\ g \in Rows)
      BY <1>3, <2>3, FreeType DEF End
    <2> QED BY <2>2, <2>3
  <1>5. req' \in [Req -> Request] /\ req'[r] = q /\ \A s \in Req \ {r} : req'[s] = req[s]
    BY <1>4, Slot DEF IInv
  <1>6. /\ row' \in [Guia -> Size \cup {None}] /\ object' \subseteq Guia
        /\ broken' \subseteq Guia /\ leaked' \subseteq Guia /\ mishaps \subseteq mishaps'
    BY <1>1, <1>2, <1>3 DEF IInv, Typed, WithoutRow, Unsaid
  <1>7. Typed' /\ Counted' /\ RangeServed' /\ Prices'
    <2>1. /\ req[r].pc \notin Compressing \cup Unnamed \cup {"invalidate"}
          /\ q.pc \notin Compressing \cup Unnamed \cup {"invalidate", "fill", "get"}
      BY <1>1, <1>4 DEF Compressing, Unnamed
    <2> QED BY <1>1, <1>4, <1>6, <2>1, Elsewhere
  <1>8. Rows' = IF out = "failed" THEN Rows ELSE Rows \ {g}
    <2>1. row \in [Guia -> Size \cup {None}]
      BY DEF IInv, Typed
    <2>2. CASE out = "failed"
      BY <1>3, <2>2 DEF Rows
    <2>3. CASE out # "failed"
      <3>1. row' = [row EXCEPT ![g] = None]
        BY <1>3, <2>3 DEF WithoutRow
      <3> QED BY <1>2, <2>1, <2>3, <3>1 DEF Rows
    <2> QED BY <2>2, <2>3
  <1>9. Shaped' /\ Identity'
    <2>1. q.pc \notin {"put", "row"} /\ q.pc \notin Sized \cup OfPrice
      BY <1>4 DEF Sized, OfPrice
    <2>2. q.pc \in OfGuia => q.guia # None
      BY <1>2, <1>4 DEF OfGuia
    <2> QED BY <1>1, <1>2, <1>4, <1>8, <2>1, <2>2, NamesKept
  <1>10. Backed'
    <2>1. At({"row", "undo"})' = At({"row", "undo"}) /\ At({"row"})' = At({"row"})
          /\ At({"undo"})' = At({"undo"})
          /\ \A s \in At({"row", "undo"}) \cup At({"row"}) \cup At({"undo"}) :
                s \in Req /\ s # r /\ req'[s] = req[s]
      BY <1>1, <1>4, <1>5 DEF At
    <2>2. \A s \in At({"deleteRow"}) : (s = r) \/ (s \in At({"deleteRow"})' /\ req'[s] = req[s])
      BY <1>5 DEF At
    <2>3. \A s \in At({"deleteRow"})' : s \in At({"deleteRow"}) /\ req'[s] = req[s]
      BY <1>1, <1>4, <1>5 DEF At
    <2>4. g \notin object
      BY <1>1 DEF At, IInv, Guides, Backed
    <2>5. Rows' \subseteq object' \cup broken' \cup {req'[s].guia : s \in At({"deleteRow"})'}
      BY <1>1, <1>3, <1>8, <2>2 DEF IInv, Guides, Backed
    <2>6. object' \subseteq Rows' \cup leaked' \cup {req'[s].guia : s \in At({"row", "undo"})'}
      BY <1>1, <1>8, <2>1, <2>4 DEF IInv, Guides, Backed
    <2>7. \A s \in At({"row"})' : req'[s].guia \in object'
      BY <1>1, <2>1 DEF IInv, Guides, Backed
    <2>8. \A s \in At({"undo"})' : req'[s].guia \in Rows' => req'[s].guia \in broken'
      BY <1>3, <1>8, <2>1 DEF IInv, Guides, Backed
    <2>9. \A s \in At({"deleteRow"})' : req'[s].guia \notin object'
      BY <1>1, <2>3 DEF IInv, Guides, Backed
    <2> QED BY <2>5, <2>6, <2>7, <2>8, <2>9 DEF Backed
  <1> QED BY <1>7, <1>9, <1>10 DEF IInv, Guides

LEMMA RemoveStorageStep ==
    ASSUME IInv, NEW r \in Req, RemoveStorage(r)
    PROVE  IInv'
  BY Ends DEF RemoveStorage, On, Owning, Compressing, prices, history, bounds

----------------------------------------------------------------------------
(* Reading a guide *)

LEMMA MaxOf ==
    ASSUME NEW x \in Int, NEW y \in Int
    PROVE  Max({x, y}) = IF x >= y THEN x ELSE y
  <1> DEFINE m == IF x >= y THEN x ELSE y
  <1>1. m \in {x, y} /\ \A z \in {x, y} : m >= z
    OBVIOUS
  <1>2. \A n \in {x, y} : (\A z \in {x, y} : n >= z) => n = m
    OBVIOUS
  <1> QED BY <1>1, <1>2 DEF Max

LEMMA MinOf ==
    ASSUME NEW x \in Int, NEW y \in Int
    PROVE  Min({x, y}) = IF x <= y THEN x ELSE y
  <1> DEFINE m == IF x <= y THEN x ELSE y
  <1>1. m \in {x, y} /\ \A z \in {x, y} : m <= z
    OBVIOUS
  <1>2. \A n \in {x, y} : (\A z \in {x, y} : n <= z) => n = m
    OBVIOUS
  <1> QED BY <1>1, <1>2 DEF Min

\* What a header asks for of a file: the condition of RangeServed.
Asked(first, last, size) ==
    {i \in 0..(size - 1) :
        IF first = None
        THEN last = None \/ (last # None /\ size - i <= last)
        ELSE first <= i /\ (last = None \/ (last # None /\ i <= last))}

\* parseRangeHeader reads a header as what it asks for, when that is something.
LEMMA PositionsLemma ==
    ASSUME NEW first \in Position, NEW last \in Position, NEW size \in Nat \ {0},
           Positions(first, last, size) # {}
    PROVE  /\ Positions(first, last, size) = Asked(first, last, size)
           /\ Positions(first, last, size) \subseteq Nat
  <1>0. None \notin Int
    OBVIOUS
  <1>1. CASE first = None /\ last = None
    BY <1>1 DEF Positions, Asked
  <1>2. CASE first = None /\ last # None
    <2>1. last \in Nat
      BY <1>2 DEF Position
    <2>2. Max({0, size - last}) = IF 0 >= size - last THEN 0 ELSE size - last
      BY <2>1, MaxOf
    <2>3. Min({size - 1, size - 1}) = size - 1
      BY MinOf
    <2>4. Positions(first, last, size) =
            IF last = 0 \/ Max({0, size - last}) >= size \/ Max({0, size - last}) > size - 1 THEN {}
            ELSE Max({0, size - last})..(size - 1)
      BY <1>2, <2>3 DEF Positions
    <2>5. last # 0 /\ Positions(first, last, size) = Max({0, size - last})..(size - 1)
      BY <2>4
    <2>6. Asked(first, last, size) = {i \in 0..(size - 1) : size - i <= last}
      BY <1>2 DEF Asked
    <2>7. Positions(first, last, size) = {i \in 0..(size - 1) : size - i <= last}
      BY <2>1, <2>2, <2>5
    <2> QED BY <2>6, <2>7
  <1>3. CASE first # None /\ last = None
    <2>1. first \in Nat
      BY <1>3 DEF Position
    <2>2. Min({size - 1, size - 1}) = size - 1
      BY MinOf
    <2>3. Positions(first, last, size) =
            IF first >= size \/ first > size - 1 THEN {} ELSE first..(size - 1)
      BY <1>3, <2>2, <1>0 DEF Positions
    <2>4. Positions(first, last, size) = first..(size - 1)
      BY <2>3
    <2>5. Asked(first, last, size) = {i \in 0..(size - 1) : first <= i}
      BY <1>3 DEF Asked
    <2> QED BY <2>1, <2>4, <2>5
  <1>4. CASE first # None /\ last # None
    <2>1. first \in Nat /\ last \in Nat
      BY <1>4 DEF Position
    <2>2. Min({last, size - 1}) = IF last <= size - 1 THEN last ELSE size - 1
      BY <2>1, MinOf
    <2>3. Positions(first, last, size) =
            IF first >= size \/ first > last THEN {} ELSE first..Min({last, size - 1})
      BY <1>4 DEF Positions
    <2>4. Positions(first, last, size) = first..Min({last, size - 1})
      BY <2>3
    <2>5. Asked(first, last, size) = {i \in 0..(size - 1) : first <= i /\ i <= last}
      BY <1>4 DEF Asked
    <2>6. CASE last <= size - 1
      <3>1. Positions(first, last, size) = first..last
        BY <2>2, <2>4, <2>6
      <3> QED BY <2>1, <2>5, <2>6, <3>1
    <2>7. CASE ~(last <= size - 1)
      <3>1. Positions(first, last, size) = first..(size - 1)
        BY <2>2, <2>4, <2>7
      <3> QED BY <2>1, <2>5, <2>7, <3>1
    <2> QED BY <2>6, <2>7
  <1> QED BY <1>1, <1>2, <1>3, <1>4

LEMMA OpenStep ==
    ASSUME IInv, NEW r \in Req, Open(r)
    PROVE  IInv'
  <1> DEFINE g     == req[r].guia
             range == Positions(req[r].first, req[r].last, row[g])
             q     == [req[r] EXCEPT !.pc = "get", !.size = row[g], !.range = range]
  <1>1. /\ req[r].pc = "open"
        /\ UNCHANGED <<row, object, tmp, price, cache, broken, leaked, stale, used, calls, mishaps>>
    BY DEF Open, On, guias, prices, history, bounds
  <1>2. CASE g \notin Rows \/ range = {}
    <2>1. req[r].pc \notin Owning \cup Compressing \cup {"invalidate"}
      BY <1>1 DEF Owning, Compressing
    <2>2. End(r)
      BY <1>2 DEF Open
    <2> QED BY <1>1, <2>1, <2>2, Ends
  <1>3. CASE g \in Rows /\ range # {}
    <2>1. req[r] \in Request /\ row[g] \in Size /\ row[g] \in Nat \ {0}
      BY <1>3 DEF IInv, Typed, Rows
    <2>2. req[r].first \in Position /\ req[r].last \in Position
      BY <2>1 DEF Request
    <2>3. range = Asked(req[r].first, req[r].last, row[g]) /\ range \in SUBSET Nat
      BY <1>3, <2>1, <2>2, PositionsLemma
    <2>4. req' = [req EXCEPT ![r] = q]
      BY <1>3 DEF Open
    <2>5. /\ q \in Request /\ q.pc = "get" /\ q.guia = g /\ q.size = row[g] /\ q.range = range
          /\ q.first = req[r].first /\ q.last = req[r].last
      BY <2>1, <2>3 DEF Request, Pc
    <2>6. g # None
      BY <1>1 DEF IInv, Guides, Shaped, OfGuia
    <2> HIDE DEF q, range
    <2>7. req' \in [Req -> Request] /\ req'[r] = q /\ \A s \in Req \ {r} : req'[s] = req[s]
      BY <2>4, <2>5, Slot DEF IInv
    <2>8. Typed'
      BY <1>1, <2>7 DEF IInv, Typed
    <2>9. Guides'
      <3>1. /\ req[r].pc \notin Owning /\ q.pc \notin Owning
            /\ q.pc \notin Sized /\ q.pc \notin OfPrice
        BY <1>1, <2>5 DEF Owning, Sized, OfPrice
      <3> QED BY <1>1, <2>4, <2>5, <2>6, <3>1, GuidesKept DEF IInv
    <2>10. Counted'
      <3>1. /\ req[r].pc \notin Compressing /\ q.pc \notin Compressing /\ q.pc \notin Unnamed
        BY <1>1, <2>5 DEF Compressing, Unnamed
      <3>2. calls' >= calls /\ calls' \in Nat
        BY <1>1 DEF IInv, Typed
      <3> QED BY <1>1, <2>4, <2>5, <3>1, <3>2, CountedKept DEF IInv
    <2>11. RangeServed'
      <3>1. \A s \in At({"get"})' : s = r \/ (s \in At({"get"}) /\ req'[s] = req[s])
        BY <2>7 DEF At
      <3>2. req'[r].range = Asked(req'[r].first, req'[r].last, req'[r].size)
        BY <2>3, <2>5, <2>7
      <3> QED BY <3>1, <3>2 DEF IInv, RangeServed, Asked
    <2>12. Prices'
      <3>1. req[r].pc # "invalidate" /\ q.pc \notin {"invalidate", "fill"}
        BY <1>1, <2>5
      <3> QED BY <1>1, <2>4, <2>5, <3>1, PricesKept DEF IInv
    <2> QED BY <2>8, <2>9, <2>10, <2>11, <2>12 DEF IInv
  <1> QED BY <1>2, <1>3

LEMMA GetStep ==
    ASSUME IInv, NEW r \in Req, Get(r)
    PROVE  IInv'
  BY Ends DEF Get, RecordRead, On, Owning, Compressing, prices, history, bounds

\* A step of what the invariant does not speak of.
LEMMA Unrelated ==
    ASSUME IInv,
           UNCHANGED <<row, object, tmp, price, cache, broken, leaked, stale, req, used, calls>>,
           mishaps \subseteq mishaps'
    PROVE  IInv'
  <1>1. Rows' = Rows /\ \A pcs : At(pcs)' = At(pcs)
    BY DEF Rows, At
  <1>2. Typed'
    BY DEF IInv, Typed
  <1>3. Guides'
    BY <1>1 DEF IInv, Guides, Shaped, Identity, Backed
  <1>4. Counted'
    BY <1>1 DEF IInv, Counted
  <1>5. RangeServed'
    BY <1>1 DEF IInv, RangeServed
  <1>6. Prices'
    BY <1>1 DEF IInv, Prices, PriceFresh, FillsFresh, Invalidating
  <1> QED BY <1>2, <1>3, <1>4, <1>5, <1>6 DEF IInv

----------------------------------------------------------------------------
(* Prices *)

\* The conjuncts about guides, when a request about a price moves.
LEMMA GuidesElsewhere ==
    ASSUME IInv, NEW r \in Req, NEW q \in Request, req' = [req EXCEPT ![r] = q],
           req[r].pc \in OfPrice, q.pc \in OfPrice \cup {"free"},
           q.guia \in {None, req[r].guia},
           q.pc \in OfPrice => q.product # None,
           UNCHANGED <<row, object, tmp, broken, leaked, used, calls, mishaps>>,
           price' \in [Product -> Price \cup {None}], cache' \in [Product -> Price \cup {None}]
    PROVE  Typed' /\ Guides' /\ Counted' /\ RangeServed'
  <1>1. /\ req[r].pc \notin Owning /\ q.pc \notin Owning /\ q.pc \notin Sized
        /\ q.pc \notin OfGuia /\ q.pc # "get"
    BY DEF Owning, Sized, OfGuia, OfPrice
  <1>2. /\ req[r].pc \notin Compressing /\ q.pc \notin Compressing /\ q.pc \notin Unnamed
    BY DEF Compressing, Unnamed, OfPrice
  <1>3. calls' >= calls /\ calls' \in Nat
    BY DEF IInv, Typed
  <1>4. Typed'
    BY Slot DEF IInv, Typed
  <1>5. Guides'
    BY <1>1, GuidesKept DEF IInv
  <1>6. Counted'
    BY <1>2, <1>3, CountedKept DEF IInv
  <1>7. RangeServed'
    BY <1>1, RangesKept DEF IInv
  <1> QED BY <1>4, <1>5, <1>6, <1>7

\* What a request about a price knows.
LEMMA Asking ==
    ASSUME IInv, NEW r \in Req, req[r].pc \in OfPrice
    PROVE  req[r] \in Request /\ req[r].product \in Product
  <1>1. req[r] \in Request /\ req[r].product # None
    BY DEF IInv, Typed, Guides, Shaped
  <1> QED BY <1>1 DEF Request

LEMMA UpsertPriceStep ==
    ASSUME IInv, NEW r \in Req, UpsertPrice(r)
    PROVE  IInv'
  <1>1. /\ req[r].pc = "upsert"
        /\ UNCHANGED <<row, object, tmp, cache, broken, leaked, mishaps, used, calls>>
    BY DEF UpsertPrice, On, guias, bounds
  <1>2. PICK p \in Product : req[r] \in Request /\ req[r].product = p /\ req[r].pc \in OfPrice
    <2>1. req[r].pc \in OfPrice
      BY <1>1 DEF OfPrice
    <2> QED BY <2>1, Asking
  <1>3. PICK out \in Outcome :
          /\ price' = IF out = "failed" THEN price ELSE WithPrice(p, req[r].price)
          /\ stale' = IF out = "unheard" THEN stale \cup {p} ELSE stale
          /\ IF out = "done" THEN Goto(r, "invalidate") ELSE End(r)
    BY <1>2 DEF UpsertPrice
  <1>4. PICK q \in Request :
          /\ req' = [req EXCEPT ![r] = q]
          /\ out = "done" => q.pc = "invalidate" /\ q.guia = req[r].guia /\ q.product = p
          /\ out # "done" => q.pc = "free" /\ q.guia = None
    <2>1. "invalidate" \in Pc
      BY DEF Pc
    <2>2. CASE out = "done"
      BY <1>2, <1>3, <2>1, <2>2, GotoIs DEF IInv
    <2>3. CASE out # "done"
      BY <1>3, <2>3, FreeType DEF End
    <2> QED BY <2>2, <2>3
  <1>5. req'[r] = q /\ \A s \in Req \ {r} : req'[s] = req[s]
    BY <1>4, Slot DEF IInv
  <1>6. price' \in [Product -> Price \cup {None}]
        /\ \A o \in Product \ {p} : price'[o] = price[o]
    <2>1. req[r].price \in Price \cup {None}
      BY <1>2 DEF Request
    <2> QED BY <1>2, <1>3, <2>1 DEF IInv, Typed, WithPrice
  <1>7. Typed' /\ Guides' /\ Counted' /\ RangeServed'
    <2>1. q.pc \in OfPrice \cup {"free"} /\ q.guia \in {None, req[r].guia}
      BY <1>4 DEF OfPrice
    <2>2. q.pc \in OfPrice => q.product # None
      BY <1>2, <1>4 DEF OfPrice
    <2>3. cache' \in [Product -> Price \cup {None}]
      BY <1>1 DEF IInv, Typed
    <2> QED BY <1>1, <1>2, <1>4, <1>6, <2>1, <2>2, <2>3, GuidesElsewhere
  <1>8. \A s \in At({"invalidate"}) : s \in At({"invalidate"})' /\ req'[s] = req[s]
    BY <1>1, <1>5 DEF At
  <1>9. \A o : Invalidating(o) => Invalidating(o)'
    BY <1>8 DEF Invalidating
  <1>10. p \in stale' \/ Invalidating(p)' \/ price' = price
    <2>1. CASE out = "done"
      <3>1. r \in At({"invalidate"})' /\ req'[r].product = p
        BY <1>4, <1>5, <2>1 DEF At
      <3> QED BY <3>1 DEF Invalidating
    <2>2. CASE out # "done"
      BY <1>3, <2>2 DEF Outcome
    <2> QED BY <2>1, <2>2
  <1>11. stale \subseteq stale'
    BY <1>3
  <1>12. PriceFresh'
    <2> SUFFICES ASSUME NEW o \in Product
                 PROVE  cache'[o] \in {None, price'[o]} \/ o \in stale' \/ Invalidating(o)'
      BY DEF PriceFresh, Invalidating
    <2>1. cache[o] \in {None, price[o]} \/ o \in stale \/ Invalidating(o)
      BY DEF IInv, Prices, PriceFresh, Invalidating
    <2> QED BY <1>1, <1>6, <1>9, <1>10, <1>11, <2>1
  <1>13. FillsFresh'
    <2> SUFFICES ASSUME NEW s \in At({"fill"})', NEW o \in Product, req'[s].product = o
                 PROVE  req'[s].price = price'[o] \/ o \in stale' \/ Invalidating(o)'
      <3>1. \A s \in At({"fill"})' : s \in At({"fill"}) /\ req'[s] = req[s]
        BY <1>4, <1>5 DEF At
      <3>2. \A s \in At({"fill"})' : req'[s].product \in Product
        BY <3>1, Asking DEF At, OfPrice
      <3> QED BY <3>2 DEF FillsFresh, Invalidating
    <2>1. s \in At({"fill"}) /\ req'[s] = req[s]
      BY <1>4, <1>5 DEF At
    <2>2. req[s].price = price[o] \/ o \in stale \/ Invalidating(o)
      BY <2>1 DEF IInv, Prices, FillsFresh
    <2> QED BY <1>6, <1>9, <1>10, <1>11, <2>1, <2>2
  <1> QED BY <1>7, <1>12, <1>13 DEF IInv, Prices

\* A failed or overtaken invalidation is remembered in stale, and no other was under way.
LEMMA InvalidateStep ==
    ASSUME IInv, NEW r \in Req, Invalidate(r)
    PROVE  IInv'
  <1>1. /\ req[r].pc = "invalidate" /\ req' = [req EXCEPT ![r] = Free]
        /\ UNCHANGED <<row, object, tmp, price, broken, leaked, mishaps, used, calls>>
    BY DEF Invalidate, On, End, guias, bounds
  <1>2. PICK p \in Product : req[r] \in Request /\ req[r].product = p /\ req[r].pc \in OfPrice
    <2>1. req[r].pc \in OfPrice
      BY <1>1 DEF OfPrice
    <2> QED BY <2>1, Asking
  <1>3. \/ /\ cache' = [cache EXCEPT ![p] = None]
           /\ stale' = IF Filling(p) THEN stale \cup {p} ELSE stale \ {p}
        \/ cache' = cache /\ stale' = stale \cup {p}
    BY <1>2 DEF Invalidate
  <1>4. req'[r] = Free /\ \A s \in Req \ {r} : req'[s] = req[s]
    BY <1>1, FreeType, Slot DEF IInv
  <1>5. cache' \in [Product -> Price \cup {None}] /\ \A o \in Product \ {p} : cache'[o] = cache[o]
    BY <1>2, <1>3 DEF IInv, Typed
  <1>6. Typed' /\ Guides' /\ Counted' /\ RangeServed'
    <2>1. Free.pc \in OfPrice \cup {"free"} /\ Free.pc \notin OfPrice
      BY FreeType DEF OfPrice
    <2>2. price' \in [Product -> Price \cup {None}]
      BY <1>1 DEF IInv, Typed
    <2> QED BY <1>1, <1>2, <1>5, <2>1, <2>2, FreeType, GuidesElsewhere
  <1>7. \A s \in At({"invalidate"}) : s = r \/ (s \in At({"invalidate"})' /\ req'[s] = req[s])
    BY <1>1, <1>4 DEF At
  <1>8. \A o \in Product \ {p} : Invalidating(o) => Invalidating(o)'
    BY <1>2, <1>7 DEF Invalidating
  <1>9. \A o \in Product \ {p} : o \in stale => o \in stale'
    BY <1>3
  <1>10. PriceFresh'
    <2> SUFFICES ASSUME NEW o \in Product
                 PROVE  cache'[o] \in {None, price'[o]} \/ o \in stale' \/ Invalidating(o)'
      BY DEF PriceFresh, Invalidating
    <2>1. CASE o = p
      BY <1>2, <1>3, <2>1 DEF IInv, Typed
    <2>2. CASE o # p
      <3>1. cache[o] \in {None, price[o]} \/ o \in stale \/ Invalidating(o)
        BY DEF IInv, Prices, PriceFresh, Invalidating
      <3> QED BY <1>1, <1>5, <1>8, <1>9, <2>2, <3>1
    <2> QED BY <2>1, <2>2
  <1>11. FillsFresh'
    <2> SUFFICES ASSUME NEW s \in At({"fill"})', NEW o \in Product, req'[s].product = o
                 PROVE  req'[s].price = price'[o] \/ o \in stale' \/ Invalidating(o)'
      <3>1. \A s \in At({"fill"})' : s \in At({"fill"}) /\ req'[s] = req[s]
        BY <1>4, FreeType DEF At
      <3>2. \A s \in At({"fill"})' : req'[s].product \in Product
        BY <3>1, Asking DEF At, OfPrice
      <3> QED BY <3>2 DEF FillsFresh, Invalidating
    <2>1. s \in At({"fill"}) /\ req'[s] = req[s]
      BY <1>4, FreeType DEF At
    <2>2. CASE o = p
      <3>1. Filling(p)
        BY <2>1, <2>2 DEF Filling, On, At
      <3> QED BY <1>3, <2>2, <3>1
    <2>3. CASE o # p
      <3>1. req[s].price = price[o] \/ o \in stale \/ Invalidating(o)
        BY <2>1 DEF IInv, Prices, FillsFresh
      <3> QED BY <1>1, <1>8, <1>9, <2>1, <2>3, <3>1
    <2> QED BY <2>2, <2>3
  <1> QED BY <1>6, <1>10, <1>11 DEF IInv, Prices

LEMMA ReadPriceStep ==
    ASSUME IInv, NEW r \in Req, ReadPrice(r)
    PROVE  IInv'
  <1>1. /\ req[r].pc = "cached"
        /\ UNCHANGED <<row, object, tmp, price, cache, broken, leaked, stale, used, calls, mishaps>>
    BY DEF ReadPrice, On, guias, prices, history, bounds
  <1>2. CASE End(r)
    <2>1. req[r].pc \notin Owning \cup Compressing \cup {"invalidate"}
      BY <1>1 DEF Owning, Compressing
    <2> QED BY <1>1, <1>2, <2>1, Ends
  <1>3. CASE Goto(r, "select")
    <2>1. "select" \in Pc
      BY DEF Pc
    <2>2. PICK q \in Request :
            /\ q.pc = "select" /\ q.guia = req[r].guia /\ q.product = req[r].product
            /\ req' = [req EXCEPT ![r] = q]
      BY <1>3, <2>1, GotoIs DEF IInv
    <2>3. req[r].pc \in OfPrice /\ req[r].product # None
      BY <1>1 DEF IInv, Guides, Shaped, OfPrice
    <2>4. Traceless(r, q)
      BY <1>1, <2>2, <2>3 DEF Traceless, Owning, Sized, OfGuia
    <2>5. req[r].pc \notin Compressing /\ q.pc \notin Compressing /\ q.pc \notin Unnamed
      BY <1>1, <2>2 DEF Compressing, Unnamed
    <2> QED BY <1>1, <2>4, <2>5, MovesOn
  <1> QED BY <1>2, <1>3 DEF ReadPrice

LEMMA FindPriceStep ==
    ASSUME IInv, NEW r \in Req, FindPrice(r)
    PROVE  IInv'
  <1> DEFINE p == req[r].product
             q == [req[r] EXCEPT !.pc = "fill", !.price = price[p]]
  <1>1. /\ req[r].pc = "select"
        /\ UNCHANGED <<row, object, tmp, price, cache, broken, leaked, stale, used, calls, mishaps>>
    BY DEF FindPrice, On, guias, prices, history, bounds
  <1>2. req[r] \in Request /\ p \in Product /\ req[r].pc \in OfPrice
    <2>1. req[r].pc \in OfPrice
      BY <1>1 DEF OfPrice
    <2> QED BY <2>1, Asking
  <1>3. CASE price[p] = None
    <2>1. req[r].pc \notin Owning \cup Compressing \cup {"invalidate"}
      BY <1>1 DEF Owning, Compressing
    <2>2. End(r)
      BY <1>3 DEF FindPrice
    <2> QED BY <1>1, <2>1, <2>2, Ends
  <1>4. CASE price[p] # None
    <2>1. req' = [req EXCEPT ![r] = q]
      BY <1>4 DEF FindPrice, IInv, Typed
    <2>2. price[p] \in Price \cup {None}
      BY <1>2 DEF IInv, Typed
    <2>3. /\ q \in Request /\ q.pc = "fill" /\ q.guia = req[r].guia /\ q.product = p
          /\ q.price = price[p]
      BY <1>2, <2>2 DEF Request, Pc
    <2> HIDE DEF q
    <2>4. req'[r] = q /\ \A s \in Req \ {r} : req'[s] = req[s]
      BY <2>1, <2>3, Slot DEF IInv
    <2>5. Typed' /\ Guides' /\ Counted' /\ RangeServed'
      <3>1. q.pc \in OfPrice \cup {"free"} /\ q.guia \in {None, req[r].guia}
        BY <2>3 DEF OfPrice
      <3>2. q.product # None
        BY <1>2, <2>3
      <3>3. price' \in [Product -> Price \cup {None}] /\ cache' \in [Product -> Price \cup {None}]
        BY <1>1 DEF IInv, Typed
      <3> QED BY <1>1, <1>2, <2>1, <2>3, <3>1, <3>2, <3>3, GuidesElsewhere
    <2>6. At({"invalidate"})' = At({"invalidate"})
          /\ \A s \in At({"invalidate"}) : req'[s] = req[s]
      BY <1>1, <2>3, <2>4 DEF At
    <2>7. \A o : Invalidating(o)' <=> Invalidating(o)
      BY <2>6 DEF Invalidating
    <2>8. PriceFresh'
      BY <1>1, <2>6 DEF IInv, Prices, PriceFresh
    <2>9. FillsFresh'
      <3>1. \A s \in At({"fill"})' : s = r \/ (s \in At({"fill"}) /\ req'[s] = req[s])
        BY <2>4 DEF At
      <3>2. req'[r].price = price[req'[r].product]
        BY <2>3, <2>4
      <3> QED BY <1>1, <2>7, <3>1, <3>2 DEF IInv, Prices, FillsFresh
    <2> QED BY <2>5, <2>8, <2>9 DEF IInv, Prices
  <1> QED BY <1>3, <1>4

LEMMA FillCacheStep ==
    ASSUME IInv, NEW r \in Req, FillCache(r)
    PROVE  IInv'
  <1> DEFINE p == req[r].product
  <1>1. /\ req[r].pc = "fill" /\ req' = [req EXCEPT ![r] = Free]
        /\ UNCHANGED <<row, object, tmp, price, broken, leaked, stale, used, calls, mishaps>>
    BY DEF FillCache, On, End, guias, history, bounds
  <1>2. req[r] \in Request /\ p \in Product /\ req[r].pc \in OfPrice
    <2>1. req[r].pc \in OfPrice
      BY <1>1 DEF OfPrice
    <2> QED BY <2>1, Asking
  <1>3. cache' = [cache EXCEPT ![p] = req[r].price] \/ cache' = cache
    BY DEF FillCache
  <1>4. req'[r] = Free /\ \A s \in Req \ {r} : req'[s] = req[s]
    BY <1>1, FreeType, Slot DEF IInv
  <1>5. cache' \in [Product -> Price \cup {None}] /\ \A o \in Product \ {p} : cache'[o] = cache[o]
    BY <1>2, <1>3 DEF IInv, Typed, Request
  <1>6. Typed' /\ Guides' /\ Counted' /\ RangeServed'
    <2>1. Free.pc \in OfPrice \cup {"free"} /\ Free.pc \notin OfPrice
      BY FreeType DEF OfPrice
    <2>2. price' \in [Product -> Price \cup {None}]
      BY <1>1 DEF IInv, Typed
    <2> QED BY <1>1, <1>2, <1>5, <2>1, <2>2, FreeType, GuidesElsewhere
  <1>7. At({"invalidate"})' = At({"invalidate"})
        /\ \A s \in At({"invalidate"}) : req'[s] = req[s]
    BY <1>1, <1>4, FreeType DEF At
  <1>8. \A o : Invalidating(o)' <=> Invalidating(o)
    BY <1>7 DEF Invalidating
  <1>9. PriceFresh'
    <2> SUFFICES ASSUME NEW o \in Product
                 PROVE  cache'[o] \in {None, price[o]} \/ o \in stale \/ Invalidating(o)
      BY <1>1, <1>8 DEF PriceFresh, Invalidating
    <2>1. cache[o] \in {None, price[o]} \/ o \in stale \/ Invalidating(o)
      BY DEF IInv, Prices, PriceFresh, Invalidating
    <2>2. req[r].price = price[p] \/ p \in stale \/ Invalidating(p)
      BY <1>1 DEF IInv, Prices, FillsFresh, At
    <2>3. cache'[o] = cache[o] \/ (o = p /\ cache'[o] = req[r].price)
      BY <1>2, <1>3 DEF IInv, Typed
    <2> QED BY <2>1, <2>2, <2>3
  <1>10. FillsFresh'
    <2>1. \A s \in At({"fill"})' : s \in At({"fill"}) /\ req'[s] = req[s]
      BY <1>4, FreeType DEF At
    <2> QED BY <1>1, <1>8, <2>1 DEF IInv, Prices, FillsFresh
  <1> QED BY <1>6, <1>9, <1>10 DEF IInv, Prices

LEMMA CacheLapsesStep ==
    ASSUME IInv, NEW p \in Product, CacheLapses(p)
    PROVE  IInv'
  <1>1. /\ cache' = [cache EXCEPT ![p] = None]
        /\ stale' = IF Filling(p) THEN stale ELSE stale \ {p}
        /\ UNCHANGED <<row, object, tmp, price, req, broken, leaked, mishaps, used, calls>>
    BY DEF CacheLapses, guias
  <1>2. Rows' = Rows /\ \A pcs : At(pcs)' = At(pcs)
    BY <1>1 DEF Rows, At
  <1>3. Typed'
    BY <1>1 DEF IInv, Typed
  <1>4. Guides' /\ Counted' /\ RangeServed'
    BY <1>1, <1>2 DEF IInv, Guides, Shaped, Identity, Backed, Counted, RangeServed
  <1>5. \A o : Invalidating(o)' <=> Invalidating(o)
    BY <1>1, <1>2 DEF Invalidating
  <1>6. PriceFresh'
    <2> SUFFICES ASSUME NEW o \in Product
                 PROVE  cache'[o] \in {None, price[o]} \/ o \in stale' \/ Invalidating(o)
      BY <1>1, <1>5 DEF PriceFresh, Invalidating
    <2>1. cache[o] \in {None, price[o]} \/ o \in stale \/ Invalidating(o)
      BY DEF IInv, Prices, PriceFresh, Invalidating
    <2>2. IF o = p THEN cache'[o] = None ELSE cache'[o] = cache[o] /\ (o \in stale => o \in stale')
      BY <1>1 DEF IInv, Typed
    <2> QED BY <2>1, <2>2
  <1>7. FillsFresh'
    <2> SUFFICES ASSUME NEW s \in At({"fill"})
                 PROVE  \/ req[s].price = price[req[s].product] \/ req[s].product \in stale'
                        \/ Invalidating(req[s].product)
      BY <1>1, <1>2, <1>5 DEF FillsFresh
    <2>1. \/ req[s].price = price[req[s].product] \/ req[s].product \in stale
          \/ Invalidating(req[s].product)
      BY DEF IInv, Prices, FillsFresh
    <2>2. req[s].product = p => Filling(p)
      BY DEF Filling, On, At
    <2> QED BY <1>1, <2>1, <2>2
  <1> QED BY <1>3, <1>4, <1>6, <1>7 DEF IInv, Prices

----------------------------------------------------------------------------
(* Failures and crashes *)

LEMMA CallFailsStep ==
    ASSUME IInv, NEW r \in Req, CallFails(r)
    PROVE  IInv'
  BY Ends DEF CallFails, Owning, Compressing, guias, prices, history, bounds

\* A crash empties every slot, and remembers what it cut short.
LEMMA CrashAndStartStep ==
    ASSUME IInv, CrashAndStart
    PROVE  IInv'
  <1>1. /\ req' = [r \in Req |-> Free] /\ "crash" \in mishaps'
        /\ broken' = broken \cup {req[r].guia : r \in At({"deleteRow"})}
        /\ leaked' = leaked \cup {req[r].guia : r \in At({"row", "undo"})}
        /\ stale' = stale \cup {req[r].product : r \in At({"invalidate"})}
        /\ UNCHANGED <<row, object, tmp, price, cache, used, calls>>
    BY DEF CrashAndStart, prices, bounds, At, On
  <1>2. \A pcs : "free" \notin pcs => At(pcs)' = {}
    BY <1>1, FreeType DEF At
  <1>3. Rows' = Rows
    BY <1>1 DEF Rows
  <1>4. \A r \in Req : req[r].guia \in Guia \cup {None}
    BY DEF IInv, Typed, Request
  <1>5. Typed'
    <2>1. \A r \in At({"deleteRow"}) \cup At({"row", "undo"}) :
             r \in Req /\ req[r].pc \in OfGuia
      BY DEF At, OfGuia
    <2>2. \A r \in At({"deleteRow"}) \cup At({"row", "undo"}) : req[r].guia \in Guia
      BY <1>4, <2>1 DEF IInv, Guides, Shaped
    <2>3. broken' \subseteq Guia /\ leaked' \subseteq Guia
      BY <1>1, <2>2 DEF IInv, Typed
    <2> QED BY <1>1, <2>3, FreeType DEF IInv, Typed
  <1>6. Guides'
    <2>1. Shaped'
      BY <1>1, FreeType DEF Shaped, Sized, OfGuia, OfPrice
    <2>2. At({"put", "row"})' = {} /\ At({"row"})' = {} /\ At({"undo"})' = {}
          /\ At({"deleteRow"})' = {} /\ At({"row", "undo"})' = {}
      BY <1>2
    <2>3. Identity'
      BY <1>1, <1>3, <2>2, FreeType DEF IInv, Guides, Identity
    <2>4. Backed'
      BY <1>1, <1>3, <2>2 DEF IInv, Guides, Backed
    <2> QED BY <2>1, <2>3, <2>4 DEF Guides
  <1>7. Counted'
    <2>1. At(Compressing)' = {} /\ At(Unnamed)' = {}
      BY <1>2 DEF Compressing, Unnamed
    <2>2. Cardinality(At(Compressing)') = 0 /\ Cardinality(At(Unnamed)') = 0
      BY <2>1, FS_EmptySet
    <2>3. Cardinality(At(Unnamed)) \in Nat /\ tmp \in Nat /\ used \in Nat /\ calls \in Nat
      BY AtFinite DEF IInv, Typed
    <2>4. used + Cardinality(At(Unnamed)) <= calls
      BY DEF IInv, Counted
    <2> QED BY <1>1, <2>2, <2>3, <2>4 DEF Counted
  <1>8. RangeServed'
    <2>1. At({"get"})' = {}
      BY <1>2
    <2> QED BY <2>1 DEF RangeServed
  <1>9. Prices'
    <2>1. \A p : Invalidating(p) => p \in stale'
      BY <1>1 DEF Invalidating
    <2>2. PriceFresh'
      <3> SUFFICES ASSUME NEW p \in Product
                   PROVE  cache[p] \in {None, price[p]} \/ p \in stale'
        BY <1>1 DEF PriceFresh
      <3>1. cache[p] \in {None, price[p]} \/ p \in stale \/ Invalidating(p)
        BY DEF IInv, Prices, PriceFresh, Invalidating
      <3> QED BY <1>1, <2>1, <3>1
    <2>3. FillsFresh'
      <3>1. At({"fill"})' = {}
        BY <1>2
      <3> QED BY <3>1 DEF FillsFresh
    <2> QED BY <2>2, <2>3 DEF Prices
  <1> QED BY <1>5, <1>6, <1>7, <1>8, <1>9 DEF IInv

----------------------------------------------------------------------------
(* The invariant *)

LEMMA Initially == Init => IInv
  <1> SUFFICES ASSUME Init
               PROVE  IInv
    OBVIOUS
  <1>1. \A r \in Req : req[r] = Free
    BY DEF Init
  <1>2. \A pcs : "free" \notin pcs => At(pcs) = {}
    BY <1>1, FreeType DEF At
  <1>3. Rows = {} /\ object = {}
    BY DEF Init, Rows
  <1>4. Typed
    BY FreeType DEF Init, Typed
  <1>5. Guides
    <2>1. Shaped
      BY <1>1, FreeType DEF Shaped, Sized, OfGuia, OfPrice
    <2>2. At({"put", "row"}) = {} /\ At({"row"}) = {} /\ At({"undo"}) = {}
          /\ At({"deleteRow"}) = {} /\ At({"row", "undo"}) = {}
      BY <1>2
    <2>3. Identity
      BY <1>1, <1>3, <2>2, FreeType DEF Identity
    <2>4. Backed
      BY <1>3, <2>2 DEF Backed
    <2> QED BY <2>1, <2>3, <2>4 DEF Guides
  <1>6. Counted
    <2>1. At(Compressing) = {} /\ At(Unnamed) = {}
      BY <1>2 DEF Compressing, Unnamed
    <2>2. Cardinality(At(Compressing)) = 0 /\ Cardinality(At(Unnamed)) = 0
      BY <2>1, FS_EmptySet
    <2> QED BY <2>2 DEF Init, Counted
  <1>7. RangeServed
    <2>1. At({"get"}) = {}
      BY <1>2
    <2> QED BY <2>1 DEF RangeServed
  <1>8. Prices
    <2>1. At({"fill"}) = {}
      BY <1>2
    <2> QED BY <2>1 DEF Init, Prices, PriceFresh, FillsFresh
  <1> QED BY <1>4, <1>5, <1>6, <1>7, <1>8 DEF IInv

LEMMA Inductive == IInv /\ [Next]_vars => IInv'
  <1> SUFFICES ASSUME IInv, [Next]_vars
               PROVE  IInv'
    OBVIOUS
  <1>1. CASE Arrive
    BY <1>1, ArriveStep
  <1>2. CASE MonthEnds
    BY <1>2, Unrelated DEF MonthEnds, guias, prices, history
  <1>3. CASE CrashAndStart
    BY <1>3, CrashAndStartStep
  <1>4. ASSUME NEW r \in Req, Create(r)
        PROVE  IInv'
    BY <1>4, MkdtempStep, FfmpegStep, RmStep, QuotaStep, PutStep, CreateRowStep, UndoStep,
       AddStorageStep DEF Create, Compress
  <1>5. ASSUME NEW r \in Req, Remove(r)
        PROVE  IInv'
    BY <1>5, FindRowStep, DeleteObjectStep, DeleteRowStep, RemoveStorageStep DEF Remove
  <1>6. ASSUME NEW r \in Req, OpenArchivo(r)
        PROVE  IInv'
    BY <1>6, OpenStep, GetStep DEF OpenArchivo
  <1>7. ASSUME NEW r \in Req, Upsert(r) \/ Lookup(r)
        PROVE  IInv'
    BY <1>7, UpsertPriceStep, InvalidateStep, ReadPriceStep, FindPriceStep, FillCacheStep
       DEF Upsert, Lookup
  <1>8. ASSUME NEW r \in Req, CallFails(r)
        PROVE  IInv'
    BY <1>8, CallFailsStep
  <1>9. ASSUME NEW m \in Month, IncrementReads(m)
        PROVE  IInv'
    BY <1>9, Unrelated DEF IncrementReads, prices, bounds
  <1>10. ASSUME NEW p \in Product, CacheLapses(p)
         PROVE  IInv'
    BY <1>10, CacheLapsesStep
  <1>11. CASE UNCHANGED vars
    BY <1>11, Unrelated DEF vars, guias, prices, history, bounds
  <1> QED BY <1>1, <1>2, <1>3, <1>4, <1>5, <1>6, <1>7, <1>8, <1>9, <1>10, <1>11 DEF Next

\* The invariant of every theorem below.
LEMMA Always == Spec => []IInv
  <1>1. Init => IInv
    BY Initially
  <1>2. IInv /\ [Next]_vars => IInv'
    BY Inductive
  <1> QED BY <1>1, <1>2, PTL DEF Spec

----------------------------------------------------------------------------
(* Sums *)

LEMMA UnitsFinite ==
    ASSUME NEW S, IsFiniteSet(S), NEW f, \A x \in S : f[x] \in Nat
    PROVE  IsFiniteSet(Units(f, S)) /\ Total(f, S) \in Nat
  <1> DEFINE Part == {{x} \X (1..f[x]) : x \in S}
             h == [x \in S |-> {x} \X (1..f[x])]
  <1>1. h \in Surjection(S, Part)
    BY DEF Surjection
  <1>2. IsFiniteSet(Part)
    BY <1>1, FS_Surjection
  <1>3. \A T \in Part : IsFiniteSet(T)
    <2> SUFFICES ASSUME NEW x \in S PROVE IsFiniteSet({x} \X (1..f[x]))
      OBVIOUS
    <2>1. IsFiniteSet({x})
      BY FS_Singleton
    <2>2. IsFiniteSet(1..f[x])
      BY FS_Interval
    <2> QED BY <2>1, <2>2, FS_Product
  <1>4. IsFiniteSet(UNION Part)
    <2> HIDE DEF Part
    <2> QED BY <1>2, <1>3, FS_UNION
  <1> QED BY <1>4, FS_CardinalityType DEF Units, Total

LEMMA TotalEmpty == \A f : Total(f, {}) = 0
  <1>1. \A f : Units(f, {}) = {}
    BY DEF Units
  <1>2. Cardinality({}) = 0
    BY FS_EmptySet
  <1> QED BY <1>1, <1>2 DEF Total

LEMMA TotalOfOne ==
    ASSUME NEW f, NEW x, f[x] \in Nat
    PROVE  Total(f, {x}) = f[x]
  <1>1. Units(f, {x}) = {x} \X (1..f[x])
    BY DEF Units
  <1>2. IsFiniteSet({x}) /\ Cardinality({x}) = 1
    BY FS_Singleton
  <1>3. IsFiniteSet(1..f[x]) /\ Cardinality(1..f[x]) = f[x]
    <2>1. 1 \in Int /\ f[x] \in Int
      OBVIOUS
    <2>2. IsFiniteSet(1..f[x]) /\ Cardinality(1..f[x]) = IF 1 > f[x] THEN 0 ELSE f[x] - 1 + 1
      BY <2>1, FS_Interval
    <2> QED BY <2>2
  <1>4. Cardinality({x} \X (1..f[x])) = Cardinality({x}) * Cardinality(1..f[x])
    BY <1>2, <1>3, FS_Product
  <1>5. Cardinality({x} \X (1..f[x])) = 1 * f[x]
    BY <1>2, <1>3, <1>4
  <1>6. Total(f, {x}) = Cardinality({x} \X (1..f[x]))
    BY <1>1 DEF Total
  <1> QED BY <1>5, <1>6

LEMMA TotalSplits ==
    ASSUME NEW S, NEW T, IsFiniteSet(S), IsFiniteSet(T), S \cap T = {}, NEW f,
           \A x \in S \cup T : f[x] \in Nat
    PROVE  Total(f, S \cup T) = Total(f, S) + Total(f, T)
  <1>1. Units(f, S \cup T) = Units(f, S) \cup Units(f, T)
    BY DEF Units
  <1>2. Units(f, S) \cap Units(f, T) = {}
    <2> SUFFICES ASSUME NEW u \in Units(f, S), u \in Units(f, T) PROVE FALSE
      OBVIOUS
    <2>1. PICK x \in S : u \in {x} \X (1..f[x])
      BY DEF Units
    <2>2. PICK y \in T : u \in {y} \X (1..f[y])
      BY DEF Units
    <2>3. u[1] = x /\ u[1] = y
      BY <2>1, <2>2
    <2> QED BY <2>3
  <1>3. IsFiniteSet(Units(f, S)) /\ IsFiniteSet(Units(f, T))
        /\ Total(f, S) \in Nat /\ Total(f, T) \in Nat
    BY UnitsFinite
  <1>4. Cardinality(Units(f, S) \cup Units(f, T)) =
           Cardinality(Units(f, S)) + Cardinality(Units(f, T))
            - Cardinality(Units(f, S) \cap Units(f, T))
    BY <1>3, FS_Union
  <1>5. Cardinality(Units(f, S) \cap Units(f, T)) = 0
    BY <1>2, FS_EmptySet
  <1>6. Total(f, S \cup T) = Cardinality(Units(f, S) \cup Units(f, T))
    BY <1>1 DEF Total
  <1>7. Total(f, S) = Cardinality(Units(f, S)) /\ Total(f, T) = Cardinality(Units(f, T))
    BY DEF Total
  <1> QED BY <1>3, <1>4, <1>5, <1>6, <1>7

LEMMA TotalAdds ==
    ASSUME NEW S, IsFiniteSet(S), NEW x, x \notin S, NEW f, \A y \in S \cup {x} : f[y] \in Nat
    PROVE  Total(f, S \cup {x}) = Total(f, S) + f[x]
  <1>1. IsFiniteSet({x}) /\ S \cap {x} = {}
    BY FS_Singleton
  <1>2. Total(f, {x}) = f[x]
    BY TotalOfOne
  <1>3. Total(f, S \cup {x}) = Total(f, S) + Total(f, {x})
    BY <1>1, TotalSplits
  <1> QED BY <1>2, <1>3

LEMMA TotalSame ==
    ASSUME NEW S, NEW f, NEW g, \A x \in S : f[x] = g[x]
    PROVE  Total(f, S) = Total(g, S)
  <1>1. Units(f, S) = Units(g, S)
    BY DEF Units
  <1> QED BY <1>1 DEF Total

\* A sum carried over to other names.
LEMMA TotalRenamed ==
    ASSUME NEW S, IsFiniteSet(S), NEW f, NEW g, NEW h, \A x \in S : f[x] \in Nat,
           \A x \in S : g[h[x]] = f[x],
           \A x, y \in S : h[x] = h[y] => x = y
    PROVE  Total(g, {h[x] : x \in S}) = Total(f, S)
  <1> DEFINE T == {h[x] : x \in S}
             k == [u \in Units(f, S) |-> <<h[u[1]], u[2]>>]
  <1>1. \A u \in Units(f, S) : u[1] \in S /\ u[2] \in 1..f[u[1]] /\ u = <<u[1], u[2]>>
    BY DEF Units
  <1>2. \A x \in S : \A i \in 1..f[x] : <<x, i>> \in Units(f, S)
    BY DEF Units
  <1>3. \A x \in S : \A i \in 1..f[x] : <<h[x], i>> \in Units(g, T)
    BY DEF Units
  <1>4. \A v \in Units(g, T) : \E x \in S : v = <<h[x], v[2]>> /\ v[2] \in 1..f[x]
    BY DEF Units
  <1>5. k \in [Units(f, S) -> Units(g, T)]
    BY <1>1, <1>3
  <1>6. \A u, v \in Units(f, S) : k[u] = k[v] => u = v
    <2> SUFFICES ASSUME NEW u \in Units(f, S), NEW v \in Units(f, S), k[u] = k[v] PROVE u = v
      OBVIOUS
    <2>1. h[u[1]] = h[v[1]] /\ u[2] = v[2]
      OBVIOUS
    <2> QED BY <1>1, <2>1
  <1>7. \A v \in Units(g, T) : \E u \in Units(f, S) : k[u] = v
    <2> TAKE v \in Units(g, T)
    <2>1. PICK x \in S : v = <<h[x], v[2]>> /\ v[2] \in 1..f[x]
      BY <1>4
    <2>2. <<x, v[2]>> \in Units(f, S)
      BY <1>2, <2>1
    <2>3. k[<<x, v[2]>>] = v
      BY <2>1, <2>2
    <2> QED BY <2>2, <2>3
  <1>8. k \in Bijection(Units(f, S), Units(g, T))
    <2> HIDE DEF k
    <2>1. k \in Injection(Units(f, S), Units(g, T))
      BY <1>5, <1>6 DEF Injection, IsInjective
    <2>2. k \in Surjection(Units(f, S), Units(g, T))
      BY <1>5, <1>7 DEF Surjection
    <2> QED BY <2>1, <2>2 DEF Bijection
  <1>9. IsFiniteSet(Units(f, S))
    BY UnitsFinite
  <1>10. Cardinality(Units(g, T)) = Cardinality(Units(f, S))
    <2> HIDE DEF k, T
    <2>1. ExistsBijection(Units(f, S), Units(g, T))
      BY <1>8 DEF ExistsBijection
    <2> QED BY <1>9, <2>1, FS_Bijection
  <1> QED BY <1>10 DEF Total

----------------------------------------------------------------------------
(***************************************************************************)
(* StorageMetered is about sums.  What it needs: the rows the meter was told  *)
(* of, who is about to tell it of a row or of its end, and that an upload     *)
(* that passed the quota is the only one that adds to the rows.              *)
(***************************************************************************)
Sizes    == [r \in Req |-> req[r].size]
Telling  == {req[r].guia : r \in At({"add"})}
Told     == Rows \ Telling
Removing == {"find", "deleteObject", "deleteRow", "subtract"}
Deleting == {"deleteObject", "deleteRow"}
Measured == {"add", "subtract"} \cup Deleting
Storing  == {"put", "row"}

SizesKnown == \A r \in At(Measured) : req[r].size # None

Balanced ==
    /\ meter.bytes = Total(row, Told) + Total(Sizes, At({"subtract"}))
    /\ \A r \in At({"add"}) :
          /\ req[r].guia \in Rows /\ row[req[r].guia] = req[r].size
          /\ \A s \in At(Removing \cup {"add"}) \ {r} : req[s].guia # req[r].guia
    /\ \A r \in At(Deleting) : req[r].guia \in Rows => row[req[r].guia] = req[r].size

OneUpload == \A r, s \in At(Uploading) : r = s

Fits ==
    /\ OneUpload
    /\ \A r \in At(Storing) : Bytes + req[r].size <= Limit
    /\ Bytes <= Limit

Storage ==
    /\ SizesKnown
    /\ mishaps \cap {"hydrate", "early", "unsaid"} = {} => Balanced
    /\ mishaps \cap {"hydrate", "early", "unsaid", "uploads"} = {} => Fits

\* No month before the clock's has reads the meter does not count.
Reads ==
    mishaps \cap {"hydrate", "uncounted"} = {} =>
        /\ meter.month <= month
        /\ meter.reads = stored[meter.month] + writes[meter.month]
        /\ \A m \in Month : m > meter.month => stored[m] = 0 /\ writes[m] = 0

\* The types that Typed does not give.
Rest ==
    /\ meter \in [bytes: Nat, reads: Nat, month: Month]
    /\ stored \in [Month -> Nat] /\ writes \in [Month -> Nat]
    /\ month \in Month /\ month <= turns /\ stale \subseteq Product
    /\ mishaps \subseteq {"crash", "hydrate", "uploads", "early", "unsaid", "rm", "uncounted"}
    /\ mix \in Mixes /\ faults \in 0..MaxFaults /\ turns \in 0..MaxTurns

LEMMA RowSums ==
    ASSUME Typed, NEW S \in SUBSET Rows
    PROVE  IsFiniteSet(S) /\ (\A g \in S : row[g] \in Nat) /\ Total(row, S) \in Nat
  <1>1. IsFiniteSet(Guia)
    BY FS_Interval DEF Guia
  <1>2. S \in SUBSET Guia
    BY DEF Rows
  <1>3. IsFiniteSet(S)
    BY <1>1, <1>2, FS_Subset
  <1>4. \A g \in S : row[g] \in Nat
    BY <1>2 DEF Typed, Rows
  <1> QED BY <1>3, <1>4, UnitsFinite

LEMMA SizeSums ==
    ASSUME Typed, SizesKnown, NEW S \in SUBSET At(Measured)
    PROVE  IsFiniteSet(S) /\ (\A r \in S : Sizes[r] \in Nat) /\ Total(Sizes, S) \in Nat
  <1>1. IsFiniteSet(At(Measured))
    BY AtFinite
  <1>2. IsFiniteSet(S)
    BY <1>1, FS_Subset
  <1>3. \A r \in S : Sizes[r] \in Nat
    <2> SUFFICES ASSUME NEW r \in S PROVE Sizes[r] \in Nat
      OBVIOUS
    <2>1. r \in Req /\ req[r].size # None
      BY DEF SizesKnown, At
    <2>2. req[r].size \in Size
      BY <2>1 DEF Typed, Request
    <2> QED BY <2>1, <2>2 DEF Sizes
  <1> QED BY <1>2, <1>3, UnitsFinite

\* What the property says of the sums.
LEMMA BytesAre ==
    ASSUME Typed, SizesKnown, Balanced
    PROVE  /\ Bytes = Total(row, Told) + Total(Sizes, At({"add"}))
           /\ Total(row, Told) \in Nat /\ Total(Sizes, At({"add"})) \in Nat
           /\ Total(Sizes, At({"subtract"})) \in Nat /\ Bytes \in Nat
  <1>1. At({"add"}) \in SUBSET At(Measured) /\ At({"subtract"}) \in SUBSET At(Measured)
    BY DEF At, Measured
  <1>2. Telling \in SUBSET Rows /\ Told \in SUBSET Rows /\ Rows = Told \cup Telling
        /\ Told \cap Telling = {}
    BY DEF Told, Telling, Balanced
  <1>3. Bytes = Total(row, Told) + Total(row, Telling)
    <2>1. IsFiniteSet(Told) /\ IsFiniteSet(Telling)
          /\ \A g \in Told \cup Telling : row[g] \in Nat
      BY <1>2, RowSums
    <2>2. Total(row, Told \cup Telling) = Total(row, Told) + Total(row, Telling)
      BY <1>2, <2>1, TotalSplits
    <2> QED BY <1>2, <2>2 DEF Bytes
  <1>4. Total(row, Telling) = Total(Sizes, At({"add"}))
    <2> DEFINE h == [r \in Req |-> req[r].guia]
    <2>1. IsFiniteSet(At({"add"})) /\ \A r \in At({"add"}) : Sizes[r] \in Nat
      BY <1>1, SizeSums
    <2>2. \A r \in At({"add"}) : r \in Req /\ h[r] = req[r].guia /\ row[h[r]] = Sizes[r]
      BY DEF At, Balanced, Sizes
    <2>3. \A r, s \in At({"add"}) : h[r] = h[s] => r = s
      BY <2>2 DEF Balanced, At
    <2>4. Telling = {h[r] : r \in At({"add"})}
      BY <2>2 DEF Telling
    <2> HIDE DEF h
    <2> QED BY <2>1, <2>2, <2>3, <2>4, TotalRenamed
  <1>5. Total(row, Told) \in Nat /\ Bytes \in Nat
    BY <1>2, RowSums DEF Bytes
  <1>6. Total(Sizes, At({"add"})) \in Nat /\ Total(Sizes, At({"subtract"})) \in Nat
    BY <1>1, SizeSums
  <1> QED BY <1>3, <1>4, <1>5, <1>6

LEMMA BytesNat == Typed => Bytes \in Nat
  BY RowSums DEF Bytes

----------------------------------------------------------------------------
(* What a step leaves alone *)

\* A request that neither adds nor subtracts, before and after.
LEMMA StorageStill ==
    ASSUME Typed, Storage, NEW r \in Req, \A s \in Req \ {r} : req'[s] = req[s],
           req[r].pc \notin {"add", "subtract"}, req'[r].pc \notin {"add", "subtract"},
           row' = row, meter'.bytes = meter.bytes, mishaps \subseteq mishaps',
           req'[r].pc \in Deleting =>
               /\ req'[r].size # None
               /\ Balanced /\ req'[r].guia \in Rows => row[req'[r].guia] = req'[r].size,
           "early" \notin mishaps' /\ Balanced /\ req'[r].pc \in Removing =>
               \A s \in At({"add"}) : req[s].guia # req'[r].guia,
           mishaps' \cap {"hydrate", "early", "unsaid", "uploads"} = {} /\ Fits =>
               OneUpload' /\ (req'[r].pc \in Storing => Bytes + req'[r].size <= Limit)
    PROVE  Storage'
  <1>1. Rows' = Rows /\ Bytes' = Bytes
    BY DEF Rows, Bytes
  <1>2. \A pcs \in SUBSET {"add", "subtract"} :
           At(pcs)' = At(pcs) /\ \A s \in At(pcs) : s \in Req /\ s # r /\ req'[s] = req[s]
    BY DEF At
  <1>3. At({"add"})' = At({"add"}) /\ At({"subtract"})' = At({"subtract"})
        /\ \A s \in At({"add"}) \cup At({"subtract"}) : s \in Req /\ s # r /\ req'[s] = req[s]
    BY <1>2
  <1>4. SizesKnown'
    <2> SUFFICES ASSUME NEW s \in Req, req'[s].pc \in Measured PROVE req'[s].size # None
      BY DEF SizesKnown, At
    <2>1. CASE s = r
      BY <2>1 DEF Measured
    <2>2. CASE s # r
      BY <2>2 DEF Storage, SizesKnown, At
    <2> QED BY <2>1, <2>2
  <1>5. ASSUME mishaps' \cap {"hydrate", "early", "unsaid"} = {} PROVE Balanced'
    <2>1. Balanced
      BY <1>5 DEF Storage
    <2>2. Telling' = Telling
      BY <1>3 DEF Telling
    <2>3. Told' = Told
      BY <1>1, <2>2 DEF Told
    <2>4. Total(Sizes', At({"subtract"})) = Total(Sizes, At({"subtract"}))
      <3>1. \A s \in At({"subtract"}) : Sizes'[s] = Sizes[s]
        BY <1>3 DEF Sizes
      <3> QED BY <3>1, TotalSame
    <2>5. meter'.bytes = Total(row, Told)' + Total(Sizes, At({"subtract"}))'
      BY <1>3, <2>1, <2>3, <2>4 DEF Balanced
    <2>6. \A s \in At({"add"})' :
             /\ req'[s].guia \in Rows' /\ row'[req'[s].guia] = req'[s].size
             /\ \A t \in At(Removing \cup {"add"})' \ {s} : req'[t].guia # req'[s].guia
      <3> TAKE s \in At({"add"})'
      <3>0. s \in At({"add"}) /\ req'[s] = req[s]
        BY <1>3
      <3>1. req[s].guia \in Rows /\ row[req[s].guia] = req[s].size
        BY <2>1, <3>0 DEF Balanced
      <3>2. ASSUME NEW t \in At(Removing \cup {"add"})', t # s PROVE req'[t].guia # req[s].guia
        <4>1. CASE t = r
          <5>1. req'[r].pc \in Removing
            BY <3>2, <4>1 DEF At
          <5> QED BY <1>5, <2>1, <3>0, <4>1, <5>1
        <4>2. CASE t # r
          <5>1. t \in At(Removing \cup {"add"}) /\ req'[t] = req[t]
            BY <4>2 DEF At
          <5> QED BY <2>1, <3>0, <3>2, <5>1 DEF Balanced
        <4> QED BY <4>1, <4>2
      <3> QED BY <1>1, <3>0, <3>1, <3>2
    <2>7. \A s \in At(Deleting)' : req'[s].guia \in Rows' => row'[req'[s].guia] = req'[s].size
      <3> SUFFICES ASSUME NEW s \in Req, req'[s].pc \in Deleting, req'[s].guia \in Rows
                   PROVE  row[req'[s].guia] = req'[s].size
        BY <1>1 DEF At
      <3>1. CASE s = r
        BY <2>1, <3>1
      <3>2. CASE s # r
        BY <2>1, <3>2 DEF Balanced, At
      <3> QED BY <3>1, <3>2
    <2> QED BY <2>5, <2>6, <2>7 DEF Balanced
  <1>6. ASSUME mishaps' \cap {"hydrate", "early", "unsaid", "uploads"} = {} PROVE Fits'
    <2>1. Fits
      BY <1>6 DEF Storage
    <2>2. OneUpload' /\ (req'[r].pc \in Storing => Bytes + req'[r].size <= Limit)
      BY <1>6, <2>1
    <2>3. \A s \in At(Storing)' : Bytes' + req'[s].size <= Limit
      <3> SUFFICES ASSUME NEW s \in Req, req'[s].pc \in Storing PROVE Bytes + req'[s].size <= Limit
        BY <1>1 DEF At
      <3>1. CASE s = r
        BY <2>2, <3>1
      <3>2. CASE s # r
        BY <2>1, <3>2 DEF Fits, At
      <3> QED BY <3>1, <3>2
    <2> QED BY <1>1, <2>1, <2>2, <2>3 DEF Fits
  <1> QED BY <1>4, <1>5, <1>6 DEF Storage

\* One that goes on within its kind of request.
LEMMA StorageAlong ==
    ASSUME Typed, Storage, NEW r \in Req, \A s \in Req \ {r} : req'[s] = req[s],
           req[r].pc \notin {"add", "subtract"}, req'[r].pc \notin {"add", "subtract"},
           row' = row, mishaps \subseteq mishaps', meter'.bytes = meter.bytes,
           req'[r].pc \in Removing => req[r].pc \in Removing /\ req'[r].guia = req[r].guia,
           req'[r].pc \in Deleting => req[r].pc \in Deleting /\ req'[r].size = req[r].size,
           req'[r].pc \in Uploading => req[r].pc \in Uploading,
           req'[r].pc \in Storing => req[r].pc \in Storing /\ req'[r].size = req[r].size
    PROVE  Storage'
  <1>1. req'[r].pc \in Deleting =>
            /\ req'[r].size # None
            /\ Balanced /\ req'[r].guia \in Rows => row[req'[r].guia] = req'[r].size
    <2> SUFFICES ASSUME req'[r].pc \in Deleting
                 PROVE  /\ req[r].size # None
                        /\ Balanced /\ req[r].guia \in Rows => row[req[r].guia] = req[r].size
      BY DEF Deleting, Removing
    <2>1. r \in At(Deleting) /\ r \in At(Measured)
      BY DEF At, Measured
    <2> QED BY <2>1 DEF Storage, SizesKnown, Balanced
  <1>2. Balanced /\ req'[r].pc \in Removing => \A s \in At({"add"}) : req[s].guia # req'[r].guia
    <2> SUFFICES ASSUME Balanced, req[r].pc \in Removing, NEW s \in At({"add"})
                 PROVE  req[s].guia # req[r].guia
      OBVIOUS
    <2>1. r \in At(Removing \cup {"add"}) /\ r # s
      BY DEF At
    <2> QED BY <2>1 DEF Balanced
  <1>3. Fits => OneUpload' /\ (req'[r].pc \in Storing => Bytes + req'[r].size <= Limit)
    <2> SUFFICES ASSUME Fits
                 PROVE  OneUpload' /\ (req'[r].pc \in Storing => Bytes + req'[r].size <= Limit)
      OBVIOUS
    <2>1. At(Uploading)' \subseteq At(Uploading)
      BY DEF At
    <2> QED BY <2>1 DEF Fits, OneUpload, At
  <1> QED BY <1>1, <1>2, <1>3, StorageStill

LEMMA EndStorage ==
    ASSUME Typed, Storage, NEW r \in Req, End(r), req[r].pc \notin {"add", "subtract"},
           row' = row, mishaps \subseteq mishaps', meter'.bytes = meter.bytes
    PROVE  Storage'
  <1>1. req'[r] = Free /\ \A s \in Req \ {r} : req'[s] = req[s]
    BY DEF End, Typed
  <1>2. Free.pc \notin Removing \cup Deleting \cup Uploading \cup Storing \cup {"add", "subtract"}
    BY FreeType DEF Removing, Deleting, Uploading, Storing
  <1> QED BY <1>1, <1>2, StorageAlong

LEMMA GotoStorage ==
    ASSUME Typed, Storage, NEW r \in Req, NEW pc \in Pc \ {"add", "subtract"}, Goto(r, pc),
           req[r].pc \notin {"add", "subtract"},
           row' = row, mishaps \subseteq mishaps', meter'.bytes = meter.bytes,
           pc \in Removing => req[r].pc \in Removing,
           pc \in Deleting => req[r].pc \in Deleting,
           pc \in Uploading => req[r].pc \in Uploading,
           pc \in Storing => req[r].pc \in Storing
    PROVE  Storage'
  <1>1. PICK q \in Request :
           /\ q.pc = pc /\ q.guia = req[r].guia /\ q.size = req[r].size
           /\ req' = [req EXCEPT ![r] = q]
    BY GotoIs
  <1>2. req'[r] = q /\ \A s \in Req \ {r} : req'[s] = req[s]
    BY <1>1, Slot
  <1> QED BY <1>1, <1>2, StorageAlong

\* No request moves.
LEMMA StorageUnmoved ==
    ASSUME Typed, Storage, UNCHANGED <<row, req>>, mishaps \subseteq mishaps',
           meter'.bytes = meter.bytes
    PROVE  Storage'
  <1>1. Rows' = Rows /\ Bytes' = Bytes /\ Sizes' = Sizes /\ \A pcs : At(pcs)' = At(pcs)
    BY DEF Rows, Bytes, Sizes, At
  <1>2. Telling' = Telling /\ Told' = Told
    BY <1>1 DEF Telling, Told
  <1> QED BY <1>1, <1>2 DEF Storage, SizesKnown, Balanced, Fits, OneUpload

----------------------------------------------------------------------------
(* What each step does to the sums *)

\* Steps that neither the rows nor the meter's bytes see.
LEMMA QuietStorage ==
    ASSUME IInv, Rest, Storage, NEW r \in Req,
           \/ Compress(r) \/ Put(r) \/ Undo(r) \/ DeleteObject(r) \/ OpenArchivo(r)
           \/ Upsert(r) \/ Lookup(r) \/ CallFails(r)
    PROVE  Storage'
  <1> USE DEF On, guias, prices, history, bounds
  <1>0. Typed
    BY DEF IInv
  <1>1. CASE Mkdtemp(r) \/ Rm(r)
    <2>1. /\ UNCHANGED <<row, meter>> /\ mishaps \subseteq mishaps'
          /\ req[r].pc \in {"mkdtemp", "rm"}
          /\ \/ End(r) \/ Goto(r, "ffmpeg") \/ Goto(r, "quota")
      BY <1>1 DEF Mkdtemp, Rm
    <2>2. /\ {"ffmpeg", "quota"} \subseteq Pc \ {"add", "subtract"}
          /\ {"ffmpeg", "quota"} \cap (Removing \cup Deleting \cup Storing) = {}
          /\ {"mkdtemp", "rm"} \subseteq Uploading
      BY DEF Pc, Removing, Deleting, Storing, Uploading
    <2> QED BY <1>0, <2>1, <2>2, EndStorage, GotoStorage
  <1>2. CASE Ffmpeg(r)
    <2>1. UNCHANGED <<row, mishaps, meter>> /\ req[r].pc = "ffmpeg"
      BY <1>2 DEF Ffmpeg
    <2>2. req'[r].pc = "rm" /\ \A s \in Req \ {r} : req'[s] = req[s]
      <3>1. PICK sz \in Size :
               \/ req' = [req EXCEPT ![r].pc = "rm", ![r].size = sz]
               \/ req' = [req EXCEPT ![r].pc = "rm", ![r].ok = FALSE]
        BY <1>2 DEF Ffmpeg
      <3>2. req \in [Req -> Request]
        BY <1>0 DEF Typed
      <3> QED BY <3>1, <3>2 DEF Request
    <2>3. "rm" \notin Removing \cup Deleting \cup Storing /\ "ffmpeg" \in Uploading
      BY DEF Removing, Deleting, Storing, Uploading
    <2> QED BY <1>0, <2>1, <2>2, <2>3, StorageAlong
  <1>3. CASE Put(r) \/ Undo(r)
    <2>1. /\ UNCHANGED <<row, mishaps, meter>> /\ req[r].pc \in {"put", "undo"}
          /\ End(r) \/ (Goto(r, "row") /\ req[r].pc = "put")
      BY <1>3 DEF Put, Undo
    <2>2. /\ "row" \in Pc \ {"add", "subtract"} /\ "row" \notin Removing \cup Deleting
          /\ "put" \in Uploading /\ "put" \in Storing
      BY DEF Pc, Removing, Deleting, Storing, Uploading
    <2> QED BY <1>0, <2>1, <2>2, EndStorage, GotoStorage
  <1>4. CASE DeleteObject(r)
    <2>1. /\ UNCHANGED <<row, mishaps, meter>> /\ req[r].pc = "deleteObject"
          /\ End(r) \/ Goto(r, "deleteRow")
      BY <1>4 DEF DeleteObject
    <2>2. /\ "deleteRow" \in Pc \ {"add", "subtract"} /\ "deleteRow" \notin Uploading \cup Storing
          /\ "deleteObject" \in Removing /\ "deleteObject" \in Deleting
      BY DEF Pc, Removing, Deleting, Storing, Uploading
    <2> QED BY <1>0, <2>1, <2>2, EndStorage, GotoStorage
  <1>5. CASE Open(r)
    <2>1. UNCHANGED <<row, mishaps, meter>> /\ req[r].pc = "open"
      BY <1>5 DEF Open
    <2>2. CASE End(r)
      BY <1>0, <2>1, <2>2, EndStorage
    <2>3. CASE ~End(r)
      <3>1. req[r] \in Request
        BY <1>0 DEF Typed
      <3>2. PICK q : req' = [req EXCEPT ![r] = q] /\ q.pc = "get"
        <4> DEFINE p == [req[r] EXCEPT !.pc = "get", !.size = row[req[r].guia],
                                       !.range = Positions(req[r].first, req[r].last,
                                                           row[req[r].guia])]
        <4>1. req' = [req EXCEPT ![r] = p]
          BY <1>5, <2>3 DEF Open
        <4>2. p.pc = "get"
          BY <3>1 DEF Request
        <4> HIDE DEF p
        <4> QED BY <4>1, <4>2
      <3>3. req'[r].pc = "get" /\ \A s \in Req \ {r} : req'[s] = req[s]
        BY <1>0, <3>2 DEF Typed
      <3>4. "get" \notin Removing \cup Deleting \cup Storing \cup Uploading
        BY DEF Removing, Deleting, Storing, Uploading
      <3> QED BY <1>0, <2>1, <3>3, <3>4, StorageAlong
    <2> QED BY <2>2, <2>3
  <1>6. CASE Get(r)
    <2>1. UNCHANGED <<row, mishaps>> /\ req[r].pc = "get" /\ End(r)
      BY <1>6 DEF Get
    <2>2. meter'.bytes = meter.bytes
      <3>1. meter \in [bytes: Nat, reads: Nat, month: Month]
        BY DEF Rest
      <3>2. CASE UNCHANGED meter
        BY <3>2
      <3>3. CASE RecordRead
        BY <3>1, <3>3 DEF RecordRead, Rolled
      <3> QED BY <1>6, <3>2, <3>3 DEF Get
    <2> QED BY <1>0, <2>1, <2>2, EndStorage
  <1>7. CASE UpsertPrice(r) \/ Invalidate(r) \/ ReadPrice(r) \/ FillCache(r)
    <2>1. /\ UNCHANGED <<row, mishaps, meter>>
          /\ req[r].pc \in {"upsert", "invalidate", "cached", "fill"}
          /\ \/ End(r) \/ Goto(r, "invalidate") \/ Goto(r, "select")
      BY <1>7 DEF UpsertPrice, Invalidate, ReadPrice, FillCache
    <2>2. /\ {"invalidate", "select"} \subseteq Pc \ {"add", "subtract"}
          /\ {"invalidate", "select"} \cap (Removing \cup Deleting \cup Storing \cup Uploading) = {}
      BY DEF Pc, Removing, Deleting, Storing, Uploading
    <2> QED BY <1>0, <2>1, <2>2, EndStorage, GotoStorage
  <1>8. CASE FindPrice(r)
    <2>1. UNCHANGED <<row, mishaps, meter>> /\ req[r].pc = "select"
      BY <1>8 DEF FindPrice
    <2>2. CASE End(r)
      BY <1>0, <2>1, <2>2, EndStorage
    <2>3. CASE ~End(r)
      <3>1. PICK p : req' = [req EXCEPT ![r].pc = "fill", ![r].price = p]
        BY <1>8, <2>3 DEF FindPrice
      <3>2. req \in [Req -> Request]
        BY <1>0 DEF Typed
      <3>3. req'[r].pc = "fill" /\ \A s \in Req \ {r} : req'[s] = req[s]
        BY <3>1, <3>2 DEF Request
      <3>4. "fill" \notin Removing \cup Deleting \cup Storing \cup Uploading
        BY DEF Removing, Deleting, Storing, Uploading
      <3> QED BY <1>0, <2>1, <3>3, <3>4, StorageAlong
    <2> QED BY <2>2, <2>3
  <1>9. CASE CallFails(r)
    BY <1>0, <1>9, EndStorage DEF CallFails
  <1> QED
    BY <1>1, <1>2, <1>3, <1>4, <1>5, <1>6, <1>7, <1>8, <1>9
       DEF Compress, OpenArchivo, Upsert, Lookup

\* An upload passes the quota by what the meter says, which is no less than the rows.
LEMMA QuotaStorage ==
    ASSUME IInv, Rest, Storage, NEW r \in Req, Quota(r)
    PROVE  Storage'
  <1>0. Typed /\ req \in [Req -> Request]
    BY DEF IInv, Typed
  <1>1. UNCHANGED <<row, mishaps, meter>> /\ req[r].pc = "quota"
    BY DEF Quota, On, guias, history
  <1>2. CASE End(r)
    BY <1>0, <1>1, <1>2, EndStorage
  <1>3. CASE ~End(r)
    <2>1. /\ req' = [req EXCEPT ![r].pc = "put", ![r].guia = used + 1]
          /\ ~WouldExceedStorage(req[r].size)
      BY <1>3 DEF Quota
    <2>2. /\ req'[r].pc = "put" /\ req'[r].size = req[r].size
          /\ \A s \in Req \ {r} : req'[s] = req[s]
      BY <1>0, <2>1 DEF Request
    <2>3. "put" \notin Removing \cup Deleting
      BY DEF Removing, Deleting
    <2>4. ASSUME mishaps \cap {"hydrate", "early", "unsaid", "uploads"} = {}, Fits
          PROVE  OneUpload' /\ Bytes + req'[r].size <= Limit
      <3>1. Balanced /\ SizesKnown
        BY <2>4 DEF Storage
      <3>2. At(Uploading)' \subseteq At(Uploading)
        BY <1>1, <2>2 DEF At, Uploading
      <3>3. OneUpload'
        BY <2>4, <3>2 DEF Fits, OneUpload
      <3>4. At({"add"}) = {}
        <4>1. \A s \in At({"add"}) : s \in At(Uploading) /\ s # r
          BY <1>1 DEF At, Uploading
        <4>2. r \in At(Uploading)
          BY <1>1 DEF At, Uploading
        <4> QED BY <2>4, <4>1, <4>2 DEF Fits, OneUpload
      <3>5. Total(Sizes, At({"add"})) = 0
        BY <3>4, TotalEmpty
      <3>6. Bytes <= meter.bytes
        <4>1. /\ Bytes = Total(row, Told) + Total(Sizes, At({"add"}))
              /\ Total(row, Told) \in Nat /\ Total(Sizes, At({"subtract"})) \in Nat
          BY <1>0, <3>1, BytesAre
        <4>2. meter.bytes = Total(row, Told) + Total(Sizes, At({"subtract"}))
          BY <3>1 DEF Balanced
        <4> HIDE DEF Bytes, Total
        <4> QED BY <3>5, <4>1, <4>2
      <3>7. req[r].size \in Nat
        <4>1. req[r].size # None
          BY <1>1 DEF IInv, Guides, Shaped, Sized
        <4> QED BY <1>0, <4>1 DEF Request
      <3>8. meter.bytes + req[r].size <= Limit
        BY <2>1, <3>7 DEF WouldExceedStorage, Rest
      <3>9. Bytes \in Nat /\ meter.bytes \in Nat
        BY <1>0, BytesNat DEF Rest
      <3> QED BY <2>2, <3>3, <3>6, <3>7, <3>8, <3>9
    <2> QED BY <1>0, <1>1, <2>2, <2>3, <2>4, StorageStill
  <1> QED BY <1>2, <1>3

LEMMA FindRowStorage ==
    ASSUME IInv, Storage, NEW r \in Req, FindRow(r)
    PROVE  Storage'
  <1>0. Typed /\ req \in [Req -> Request]
    BY DEF IInv, Typed
  <1>1. UNCHANGED <<row, mishaps, meter>> /\ req[r].pc = "find"
    BY DEF FindRow, On, guias, history
  <1>2. CASE End(r)
    BY <1>0, <1>1, <1>2, EndStorage
  <1>3. CASE ~End(r)
    <2>1. /\ req' = [req EXCEPT ![r].pc = "deleteObject", ![r].size = row[req[r].guia]]
          /\ req[r].guia \in Rows
      BY <1>3 DEF FindRow
    <2>2. /\ req'[r].pc = "deleteObject" /\ req'[r].size = row[req[r].guia]
          /\ req'[r].guia = req[r].guia /\ \A s \in Req \ {r} : req'[s] = req[s]
      BY <1>0, <2>1 DEF Request
    <2>3. "deleteObject" \notin Uploading \cup Storing
      BY DEF Uploading, Storing
    <2>4. req'[r].size # None
      BY <2>1, <2>2 DEF Rows
    <2>5. Balanced => \A s \in At({"add"}) : req[s].guia # req[r].guia
      <3> SUFFICES ASSUME Balanced, NEW s \in At({"add"}) PROVE req[s].guia # req[r].guia
        OBVIOUS
      <3>1. r \in At(Removing \cup {"add"}) /\ r # s
        BY <1>1 DEF At, Removing
      <3> QED BY <3>1 DEF Balanced
    <2>6. Fits => OneUpload'
      <3>1. At(Uploading)' \subseteq At(Uploading)
        BY <2>2, <2>3 DEF At
      <3> QED BY <3>1 DEF Fits, OneUpload
    <2> QED BY <1>0, <1>1, <2>2, <2>3, <2>4, <2>5, <2>6, StorageStill
  <1> QED BY <1>2, <1>3

\* The meter is told of a row after its request had it inserted: the row is not told yet.
LEMMA CreateRowStorage ==
    ASSUME IInv, IInv', Storage, NEW r \in Req, CreateRow(r)
    PROVE  Storage'
  <1>0. Typed /\ Typed' /\ req \in [Req -> Request]
    BY DEF IInv, Typed
  <1>1. PICK g : g = req[r].guia
    OBVIOUS
  <1>2. PICK size : size = req[r].size
    OBVIOUS
  <1>3. req[r].pc = "row" /\ UNCHANGED meter
    BY DEF CreateRow, On
  <1>4. /\ g \in Guia /\ size \in Size /\ size # None /\ g \notin Rows
        /\ \A s \in Req \ {r} : req[s].guia # g
    BY <1>1, <1>2, <1>3, Owned
  <1>5. PICK out \in Outcome :
          /\ row' = IF out = "failed" THEN row ELSE WithRow(g, size)
          /\ mishaps' = Unsaid(out)
          /\ Goto(r, IF out = "done" THEN "add" ELSE "undo")
    BY <1>1, <1>2 DEF CreateRow
  <1>6. PICK q \in Request :
          /\ req' = [req EXCEPT ![r] = q] /\ q.guia = g /\ q.size = size
          /\ q.pc = IF out = "done" THEN "add" ELSE "undo"
    <2>1. (IF out = "done" THEN "add" ELSE "undo") \in Pc
      BY DEF Pc
    <2> QED BY <1>0, <1>1, <1>2, <1>5, <2>1, GotoIs
  <1>7. req'[r] = q /\ \A s \in Req \ {r} : req'[s] = req[s]
    BY <1>0, <1>6, Slot
  <1>8. CASE out = "failed"
    <2>1. UNCHANGED <<row, mishaps>> /\ Goto(r, "undo")
      BY <1>5, <1>8 DEF Unsaid
    <2>2. "undo" \in Pc \ {"add", "subtract"} /\ "undo" \notin Removing \cup Deleting \cup Storing
          /\ "row" \in Uploading
      BY DEF Pc, Removing, Deleting, Storing, Uploading
    <2> QED BY <1>0, <1>3, <2>1, <2>2, GotoStorage
  <1>9. SizesKnown'
    <2> SUFFICES ASSUME NEW s \in Req, req'[s].pc \in Measured PROVE req'[s].size # None
      BY DEF SizesKnown, At
    <2>1. CASE s = r
      BY <1>4, <1>6, <1>7, <2>1
    <2>2. CASE s # r
      BY <1>7, <2>2 DEF Storage, SizesKnown, At
    <2> QED BY <2>1, <2>2
  <1>10. CASE out = "unheard"
    <2>1. "unsaid" \in mishaps'
      BY <1>5, <1>10 DEF Unsaid
    <2> QED BY <1>9, <2>1 DEF Storage
  <1>11. CASE out = "done"
    <2>1. row' = [row EXCEPT ![g] = size] /\ mishaps' = mishaps
      BY <1>5, <1>11 DEF WithRow, Unsaid
    <2>2. /\ row'[g] = size /\ \A f \in Guia : f # g => row'[f] = row[f]
          /\ Rows' = Rows \cup {g}
      BY <1>0, <1>4, <2>1 DEF Typed, Rows
    <2>3. At({"add"})' = At({"add"}) \cup {r} /\ r \notin At({"add"})
          /\ At({"subtract"})' = At({"subtract"}) /\ r \notin At({"subtract"})
      BY <1>3, <1>6, <1>7, <1>11 DEF At
    <2>4. \A s \in At({"add"}) \cup At({"subtract"}) :
             s \in Req /\ s # r /\ req'[s] = req[s] /\ req[s].guia # g
      BY <1>4, <1>7, <2>3 DEF At
    <2>5. ASSUME mishaps \cap {"hydrate", "early", "unsaid"} = {} PROVE Balanced'
      <3>1. Balanced
        BY <2>5 DEF Storage
      <3>2. Telling' = Telling \cup {g}
        BY <1>6, <1>7, <2>3, <2>4 DEF Telling
      <3>3. Told' = Told /\ Told \subseteq Rows
        BY <1>4, <2>2, <3>2 DEF Told
      <3>4. Total(row', Told) = Total(row, Told)
        <4>1. \A f \in Told : row'[f] = row[f]
          BY <1>4, <2>2, <3>3 DEF Rows
        <4> QED BY <4>1, TotalSame
      <3>5. Total(Sizes', At({"subtract"})) = Total(Sizes, At({"subtract"}))
        <4>1. \A s \in At({"subtract"}) : Sizes'[s] = Sizes[s]
          BY <2>4 DEF Sizes
        <4> QED BY <4>1, TotalSame
      <3>6. meter'.bytes = Total(row, Told)' + Total(Sizes, At({"subtract"}))'
        BY <1>3, <2>3, <3>1, <3>3, <3>4, <3>5 DEF Balanced
      <3>7. ASSUME NEW s \in At({"add"})'
            PROVE  /\ req'[s].guia \in Rows' /\ row'[req'[s].guia] = req'[s].size
                   /\ \A t \in At(Removing \cup {"add"})' \ {s} : req'[t].guia # req'[s].guia
        <4>1. CASE s = r
          <5>1. \A t \in Req \ {r} : req'[t].guia # g
            BY <1>4, <1>7
          <5> QED BY <1>6, <1>7, <2>2, <4>1, <5>1 DEF At
        <4>2. CASE s # r
          <5>1. s \in At({"add"}) /\ req'[s] = req[s] /\ req[s].guia # g
            BY <2>3, <2>4, <4>2
          <5>2. req[s].guia \in Rows /\ row[req[s].guia] = req[s].size
            BY <3>1, <5>1 DEF Balanced
          <5>3. req[s].guia \in Guia
            BY <5>2 DEF Rows
          <5>4. ASSUME NEW t \in At(Removing \cup {"add"})', t # s PROVE req'[t].guia # req[s].guia
            <6>1. CASE t = r
              BY <1>6, <1>7, <5>1, <6>1
            <6>2. CASE t # r
              <7>1. t \in At(Removing \cup {"add"}) /\ req'[t] = req[t]
                BY <1>7, <6>2 DEF At
              <7> QED BY <3>1, <5>1, <5>4, <7>1 DEF Balanced
            <6> QED BY <6>1, <6>2
          <5> QED BY <2>2, <5>1, <5>2, <5>3, <5>4
        <4> QED BY <4>1, <4>2
      <3>8. \A s \in At(Deleting)' : req'[s].guia \in Rows' => row'[req'[s].guia] = req'[s].size
        <4> SUFFICES ASSUME NEW s \in Req, req'[s].pc \in Deleting, req'[s].guia \in Rows'
                     PROVE  row'[req'[s].guia] = req'[s].size
          BY DEF At
        <4>1. s # r
          BY <1>6, <1>7, <1>11 DEF Deleting
        <4>2. req'[s] = req[s] /\ req[s].guia # g /\ req[s].guia \in Rows
          BY <1>4, <1>7, <2>2, <4>1
        <4>3. row'[req[s].guia] = row[req[s].guia]
          BY <2>2, <4>2 DEF Rows
        <4> QED BY <3>1, <4>2, <4>3 DEF Balanced, At
      <3> QED BY <3>6, <3>7, <3>8 DEF Balanced
    <2>6. ASSUME mishaps \cap {"hydrate", "early", "unsaid", "uploads"} = {} PROVE Fits'
      <3>1. Fits
        BY <2>6 DEF Storage
      <3>2. At(Uploading)' = At(Uploading) /\ r \in At(Uploading)
        BY <1>3, <1>6, <1>7, <1>11 DEF At, Uploading
      <3>3. \A s \in Req : req'[s].pc \notin Storing
        <4> SUFFICES ASSUME NEW s \in Req, req'[s].pc \in Storing PROVE FALSE
          OBVIOUS
        <4>1. s \in At(Uploading)'
          BY DEF At, Storing, Uploading
        <4>2. s = r
          BY <3>1, <3>2, <4>1 DEF Fits, OneUpload
        <4> QED BY <1>6, <1>7, <1>11, <4>2 DEF Storing
      <3>4. Bytes' = Bytes + size
        <4>1. IsFiniteSet(Rows) /\ \A f \in Rows \cup {g} : row'[f] \in Nat
          <5>1. IsFiniteSet(Rows)
            BY <1>0, RowSums
          <5>2. \A f \in Rows' : row'[f] \in Nat
            BY <1>0 DEF Typed, Rows
          <5> QED BY <2>2, <5>1, <5>2
        <4>2. Total(row', Rows \cup {g}) = Total(row', Rows) + row'[g]
          BY <1>4, <4>1, TotalAdds
        <4>3. \A f \in Rows : row'[f] = row[f]
          BY <1>4, <2>2 DEF Rows
        <4>4. Total(row', Rows) = Total(row, Rows)
          BY <4>3, TotalSame
        <4> QED BY <2>2, <4>2, <4>4 DEF Bytes
      <3>5. Bytes + size <= Limit
        BY <1>2, <1>3, <3>1 DEF Fits, At, Storing
      <3>6. OneUpload'
        BY <3>1, <3>2 DEF Fits, OneUpload
      <3> QED BY <3>3, <3>4, <3>5, <3>6 DEF Fits, At
    <2> QED BY <1>9, <2>1, <2>5, <2>6 DEF Storage
  <1> QED BY <1>8, <1>10, <1>11 DEF Outcome

LEMMA SizesEnd ==
    ASSUME SizesKnown, NEW r \in Req, req'[r].pc \notin Measured,
           \A s \in Req \ {r} : req'[s] = req[s]
    PROVE  SizesKnown'
  BY DEF SizesKnown, At

\* An upload that told the meter.
LEMMA AddStorageStorage ==
    ASSUME IInv, IInv', Rest, Storage, NEW r \in Req, AddStorage(r)
    PROVE  Storage'
  <1>0. Typed /\ Typed' /\ req \in [Req -> Request]
    BY DEF IInv, Typed
  <1>1. PICK g : g = req[r].guia
    OBVIOUS
  <1>2. /\ req[r].pc = "add" /\ End(r) /\ UNCHANGED <<row, mishaps>>
        /\ meter' = [meter EXCEPT !.bytes = @ + req[r].size]
    BY DEF AddStorage, On, history
  <1>3. req'[r] = Free /\ \A s \in Req \ {r} : req'[s] = req[s]
    BY <1>0, <1>2 DEF End
  <1>4. Free.pc \notin Measured \cup Removing \cup Deleting \cup Uploading \cup Storing
    BY FreeType DEF Measured, Removing, Deleting, Uploading, Storing
  <1>5. SizesKnown'
    BY <1>3, <1>4, SizesEnd DEF Storage
  <1>6. Rows' = Rows /\ Bytes' = Bytes
    BY <1>2 DEF Rows, Bytes
  <1>7. ASSUME mishaps \cap {"hydrate", "early", "unsaid"} = {} PROVE Balanced'
    <2>1. Balanced /\ SizesKnown
      BY <1>7 DEF Storage
    <2>2. r \in At({"add"}) /\ r \notin At({"subtract"})
      BY <1>2 DEF At
    <2>3. At({"add"})' = At({"add"}) \ {r} /\ At({"subtract"})' = At({"subtract"})
      BY <1>2, <1>3, FreeType DEF At
    <2>4. \A s \in At({"add"}) \ {r} : s \in Req /\ req'[s] = req[s] /\ req[s].guia # g
      BY <1>1, <1>3, <2>1, <2>2 DEF At, Balanced
    <2>5. Telling' = Telling \ {g} /\ g \in Telling
      BY <1>1, <2>2, <2>3, <2>4 DEF Telling
    <2>6. g \in Rows /\ row[g] = req[r].size
      BY <1>1, <2>1, <2>2 DEF Balanced
    <2>7. /\ Told' = Told \cup {g} /\ g \notin Told
          /\ Told \in SUBSET Rows /\ Told \cup {g} \in SUBSET Rows
      BY <1>6, <2>5, <2>6 DEF Told
    <2>8. Total(row, Told \cup {g}) = Total(row, Told) + row[g]
      <3>1. IsFiniteSet(Told)
        BY <1>0, <2>7, RowSums
      <3>2. \A f \in Told \cup {g} : row[f] \in Nat
        BY <1>0, <2>7, RowSums
      <3> QED BY <2>7, <3>1, <3>2, TotalAdds
    <2>9. Total(Sizes', At({"subtract"})) = Total(Sizes, At({"subtract"}))
      <3>1. \A s \in At({"subtract"}) : Sizes'[s] = Sizes[s]
        BY <1>3, <2>2 DEF Sizes, At
      <3> QED BY <3>1, TotalSame
    <2>10. meter'.bytes = meter.bytes + row[g]
      BY <1>2, <2>6 DEF Rest
    <2>11. meter'.bytes = Total(row, Told)' + Total(Sizes, At({"subtract"}))'
      <3>1. meter.bytes = Total(row, Told) + Total(Sizes, At({"subtract"}))
        BY <2>1 DEF Balanced
      <3>2. Total(row, Told) \in Nat /\ Total(Sizes, At({"subtract"})) \in Nat
        BY <1>0, <2>1, BytesAre
      <3>3. row[g] \in Nat
        BY <1>0, <2>7, RowSums
      <3>4. Total(row', Told') = Total(row, Told) + row[g]
        BY <1>2, <2>7, <2>8
      <3>5. Total(Sizes', At({"subtract"})') = Total(Sizes, At({"subtract"}))
        BY <2>3, <2>9
      <3> QED BY <2>10, <3>1, <3>2, <3>3, <3>4, <3>5
    <2>12. ASSUME NEW s \in At({"add"})'
           PROVE  /\ req'[s].guia \in Rows' /\ row'[req'[s].guia] = req'[s].size
                  /\ \A t \in At(Removing \cup {"add"})' \ {s} : req'[t].guia # req'[s].guia
      <3>1. s \in At({"add"}) /\ req'[s] = req[s]
        BY <2>3, <2>4
      <3>2. At(Removing \cup {"add"})' \subseteq At(Removing \cup {"add"}) \ {r}
        BY <1>3, <1>4, FreeType DEF At
      <3>3. \A t \in At(Removing \cup {"add"})' : req'[t] = req[t]
        BY <1>3, <3>2 DEF At
      <3> QED BY <1>2, <1>6, <2>1, <3>1, <3>2, <3>3 DEF Balanced
    <2>13. \A s \in At(Deleting)' : req'[s].guia \in Rows' => row'[req'[s].guia] = req'[s].size
      <3>1. \A s \in At(Deleting)' : s \in At(Deleting) /\ req'[s] = req[s]
        BY <1>3, <1>4 DEF At
      <3> QED BY <1>2, <1>6, <2>1, <3>1 DEF Balanced
    <2> QED BY <2>11, <2>12, <2>13 DEF Balanced
  <1>8. ASSUME mishaps \cap {"hydrate", "early", "unsaid", "uploads"} = {} PROVE Fits'
    <2>1. Fits
      BY <1>8 DEF Storage
    <2>2. At(Uploading)' \subseteq At(Uploading)
          /\ \A s \in At(Storing)' : s \in At(Storing) /\ req'[s] = req[s]
      BY <1>3, <1>4 DEF At
    <2> QED BY <1>6, <2>1, <2>2 DEF Fits, OneUpload
  <1> QED BY <1>2, <1>5, <1>7, <1>8 DEF Storage

\* A row that goes was told, and its request is about to tell that it went.
LEMMA DeleteRowStorage ==
    ASSUME IInv, IInv', Storage, NEW r \in Req, DeleteRow(r)
    PROVE  Storage'
  <1>0. Typed /\ Typed' /\ req \in [Req -> Request]
    BY DEF IInv, Typed
  <1>1. PICK g : g = req[r].guia
    OBVIOUS
  <1>2. req[r].pc = "deleteRow" /\ UNCHANGED meter
    BY DEF DeleteRow, On
  <1>3. g \in Guia /\ g # None
    BY <1>0, <1>1, <1>2 DEF IInv, Guides, Shaped, OfGuia, Request
  <1>4. PICK out \in Outcome :
          /\ row' = IF out = "failed" THEN row ELSE WithoutRow(g)
          /\ mishaps' = Unsaid(out)
          /\ IF out = "done" /\ g \in Rows THEN Goto(r, "subtract") ELSE End(r)
    BY <1>1 DEF DeleteRow
  <1>5. CASE out = "failed"
    <2>1. UNCHANGED <<row, mishaps>> /\ End(r)
      BY <1>4, <1>5 DEF Unsaid
    <2> QED BY <1>0, <1>2, <2>1, EndStorage
  <1>6. CASE out = "unheard"
    <2>1. "unsaid" \in mishaps' /\ End(r)
      BY <1>4, <1>6 DEF Unsaid
    <2>2. req'[r] = Free /\ \A s \in Req \ {r} : req'[s] = req[s]
      BY <1>0, <2>1 DEF End
    <2>3. SizesKnown'
      BY <2>2, FreeType, SizesEnd DEF Storage, Measured, Deleting
    <2> QED BY <2>1, <2>3 DEF Storage
  <1>7. CASE out = "done" /\ g \notin Rows
    <2>1. row' = [row EXCEPT ![g] = None] /\ mishaps' = mishaps /\ End(r) /\ row[g] = None
      BY <1>3, <1>4, <1>7 DEF WithoutRow, Unsaid, Rows
    <2>2. row' = row
      BY <1>0, <2>1 DEF Typed
    <2> QED BY <1>0, <1>2, <2>1, <2>2, EndStorage
  <1>8. CASE out = "done" /\ g \in Rows
    <2>1. row' = [row EXCEPT ![g] = None] /\ mishaps' = mishaps /\ Goto(r, "subtract")
      BY <1>4, <1>8 DEF WithoutRow, Unsaid
    <2>2. /\ \A f \in Guia : f # g => row'[f] = row[f]
          /\ Rows' = Rows \ {g}
      BY <1>0, <1>3, <2>1 DEF Typed, Rows
    <2>3. PICK q \in Request : /\ q.pc = "subtract" /\ q.guia = g /\ q.size = req[r].size
                               /\ req' = [req EXCEPT ![r] = q]
      BY <1>0, <1>1, <2>1, GotoIs DEF Pc
    <2>4. req'[r] = q /\ \A s \in Req \ {r} : req'[s] = req[s]
      BY <1>0, <2>3, Slot
    <2>5. SizesKnown'
      <3> SUFFICES ASSUME NEW s \in Req, req'[s].pc \in Measured PROVE req'[s].size # None
        BY DEF SizesKnown, At
      <3>1. r \in At(Measured)
        BY <1>2 DEF At, Measured, Deleting
      <3>2. CASE s = r
        BY <2>3, <2>4, <3>1, <3>2 DEF Storage, SizesKnown
      <3>3. CASE s # r
        BY <2>4, <3>3 DEF Storage, SizesKnown, At
      <3> QED BY <3>2, <3>3
    <2>6. Bytes = Bytes' + row[g] /\ Bytes' \in Nat /\ row[g] \in Nat
      <3>1. Rows' \in SUBSET Rows /\ Rows' \cup {g} = Rows /\ g \notin Rows'
        BY <1>8, <2>2
      <3>2. IsFiniteSet(Rows') /\ \A f \in Rows' \cup {g} : row[f] \in Nat
        <4>1. \A f \in Rows : row[f] \in Nat
          BY <1>0, RowSums
        <4>2. IsFiniteSet(Rows')
          BY <1>0, <3>1, RowSums
        <4> QED BY <3>1, <4>1, <4>2
      <3>3. Total(row, Rows' \cup {g}) = Total(row, Rows') + row[g]
        BY <3>1, <3>2, TotalAdds
      <3>4. \A f \in Rows' : row'[f] = row[f]
        BY <2>2 DEF Rows
      <3>5. Total(row', Rows') = Total(row, Rows')
        BY <3>4, TotalSame
      <3>6. Total(row, Rows') \in Nat
        BY <1>0, <3>1, RowSums
      <3> QED BY <3>1, <3>2, <3>3, <3>5, <3>6 DEF Bytes
    <2>7. ASSUME mishaps \cap {"hydrate", "early", "unsaid"} = {} PROVE Balanced'
      <3>1. Balanced /\ SizesKnown
        BY <2>7 DEF Storage
      <3>2. At({"add"})' = At({"add"}) /\ r \notin At({"add"})
            /\ At({"subtract"})' = At({"subtract"}) \cup {r} /\ r \notin At({"subtract"})
        BY <1>2, <2>3, <2>4 DEF At
      <3>3. r \in At(Removing \cup {"add"}) /\ r \in At(Deleting) /\ r \in At(Measured)
        BY <1>2 DEF At, Removing, Deleting, Measured
      <3>4. \A s \in At({"add"}) : s \in Req /\ req'[s] = req[s] /\ req[s].guia # g
        BY <1>1, <2>4, <3>1, <3>2, <3>3 DEF At, Balanced
      <3>5. Telling' = Telling /\ g \notin Telling
        BY <3>2, <3>4 DEF Telling
      <3>6. /\ Told' = Told \ {g} /\ g \in Told /\ Told \in SUBSET Rows
            /\ Told' \in SUBSET Rows /\ Told' \cup {g} = Told /\ g \notin Told'
        BY <1>8, <2>2, <3>5 DEF Told
      <3>7. row[g] = req[r].size
        BY <1>1, <1>8, <3>1, <3>3 DEF Balanced
      <3>8. Total(row, Told) = Total(row', Told') + row[g] /\ Total(row', Told') \in Nat
        <4>1. IsFiniteSet(Told') /\ \A f \in Told' \cup {g} : row[f] \in Nat
          <5>1. IsFiniteSet(Told')
            BY <1>0, <3>6, RowSums
          <5>2. \A f \in Told : row[f] \in Nat
            BY <1>0, <3>6, RowSums
          <5> QED BY <3>6, <5>1, <5>2
        <4>2. Total(row, Told' \cup {g}) = Total(row, Told') + row[g]
          BY <3>6, <4>1, TotalAdds
        <4>3. \A f \in Told' : row'[f] = row[f]
          BY <2>2, <3>6 DEF Rows
        <4>4. Total(row', Told') = Total(row, Told')
          BY <4>3, TotalSame
        <4>5. Total(row, Told') \in Nat
          BY <1>0, <3>6, RowSums
        <4> QED BY <3>6, <4>2, <4>4, <4>5
      <3>9. /\ Total(Sizes', At({"subtract"})') = Total(Sizes, At({"subtract"})) + row[g]
            /\ Total(Sizes, At({"subtract"})) \in Nat
        <4>1. /\ At({"subtract"}) \in SUBSET At(Measured)
              /\ At({"subtract"}) \cup {r} \in SUBSET At(Measured)
          BY <3>3 DEF At, Measured
        <4>2. IsFiniteSet(At({"subtract"})) /\ \A s \in At({"subtract"}) \cup {r} : Sizes[s] \in Nat
          BY <1>0, <3>1, <4>1, SizeSums
        <4>3. Total(Sizes, At({"subtract"}) \cup {r}) = Total(Sizes, At({"subtract"})) + Sizes[r]
          BY <3>2, <4>2, TotalAdds
        <4>4. \A s \in At({"subtract"}) \cup {r} : Sizes'[s] = Sizes[s]
          BY <2>3, <2>4 DEF Sizes, At
        <4>5. Total(Sizes', At({"subtract"}) \cup {r}) = Total(Sizes, At({"subtract"}) \cup {r})
          BY <4>4, TotalSame
        <4>6. Sizes[r] = row[g]
          BY <3>7 DEF Sizes
        <4>7. Total(Sizes, At({"subtract"})) \in Nat
          BY <1>0, <3>1, <4>1, SizeSums
        <4> QED BY <3>2, <4>3, <4>5, <4>6, <4>7
      <3>10. meter'.bytes = Total(row, Told)' + Total(Sizes, At({"subtract"}))'
        <4>1. meter.bytes = Total(row, Told) + Total(Sizes, At({"subtract"}))
          BY <3>1 DEF Balanced
        <4> QED BY <1>2, <2>6, <3>8, <3>9, <4>1
      <3>11. ASSUME NEW s \in At({"add"})'
             PROVE  /\ req'[s].guia \in Rows' /\ row'[req'[s].guia] = req'[s].size
                    /\ \A t \in At(Removing \cup {"add"})' \ {s} : req'[t].guia # req'[s].guia
        <4>1. s \in At({"add"}) /\ req'[s] = req[s] /\ req[s].guia # g
          BY <3>2, <3>4
        <4>2. req[s].guia \in Rows /\ row[req[s].guia] = req[s].size
          BY <3>1, <4>1 DEF Balanced
        <4>3. req[s].guia \in Rows' /\ row'[req[s].guia] = req[s].size
          BY <2>2, <4>1, <4>2 DEF Rows
        <4>4. ASSUME NEW t \in At(Removing \cup {"add"})', t # s PROVE req'[t].guia # req[s].guia
          <5>1. CASE t = r
            BY <2>3, <2>4, <4>1, <5>1
          <5>2. CASE t # r
            <6>1. t \in At(Removing \cup {"add"}) /\ req'[t] = req[t]
              BY <2>4, <5>2 DEF At
            <6> QED BY <3>1, <4>1, <4>4, <6>1 DEF Balanced
          <5> QED BY <5>1, <5>2
        <4> QED BY <4>1, <4>3, <4>4
      <3>12. \A s \in At(Deleting)' : req'[s].guia \in Rows' => row'[req'[s].guia] = req'[s].size
        <4> SUFFICES ASSUME NEW s \in Req, req'[s].pc \in Deleting, req'[s].guia \in Rows'
                     PROVE  row'[req'[s].guia] = req'[s].size
          BY DEF At
        <4>1. s # r
          BY <2>3, <2>4 DEF Deleting
        <4>2. req'[s] = req[s] /\ req[s].guia # g /\ req[s].guia \in Rows
          BY <2>2, <2>4, <4>1
        <4>3. row'[req[s].guia] = row[req[s].guia]
          BY <2>2, <4>2 DEF Rows
        <4> QED BY <3>1, <4>2, <4>3 DEF Balanced, At
      <3> QED BY <3>10, <3>11, <3>12 DEF Balanced
    <2>8. ASSUME mishaps \cap {"hydrate", "early", "unsaid", "uploads"} = {} PROVE Fits'
      <3>1. Fits
        BY <2>8 DEF Storage
      <3>2. At(Uploading)' \subseteq At(Uploading)
            /\ \A s \in At(Storing)' : s \in At(Storing) /\ req'[s] = req[s]
        BY <2>3, <2>4 DEF At, Uploading, Storing
      <3>3. OneUpload'
        BY <3>1, <3>2 DEF Fits, OneUpload
      <3>4. Bytes' <= Limit
        BY <2>6, <3>1 DEF Fits
      <3>5. \A s \in At(Storing)' : Bytes' + req'[s].size <= Limit
        <4> SUFFICES ASSUME NEW s \in At(Storing)' PROVE Bytes' + req'[s].size <= Limit
          OBVIOUS
        <4>1. s \in At(Storing) /\ req'[s] = req[s]
          BY <3>2
        <4>2. req[s].size \in Nat
          <5>1. s \in Req /\ req[s].size # None
            BY <4>1 DEF At, Storing, IInv, Guides, Shaped, Sized
          <5> QED BY <1>0, <5>1 DEF Request
        <4>3. Bytes + req[s].size <= Limit
          BY <3>1, <4>1 DEF Fits
        <4> HIDE DEF Bytes
        <4> QED BY <2>6, <4>1, <4>2, <4>3
      <3> QED BY <3>3, <3>4, <3>5 DEF Fits
    <2> QED BY <2>1, <2>5, <2>7, <2>8 DEF Storage
  <1> QED BY <1>5, <1>6, <1>7, <1>8 DEF Outcome

\* The bytes that are taken off were on the meter.
LEMMA RemoveStorageStorage ==
    ASSUME IInv, Rest, Storage, NEW r \in Req, RemoveStorage(r)
    PROVE  Storage'
  <1>0. Typed /\ req \in [Req -> Request]
    BY DEF IInv, Typed
  <1>1. /\ req[r].pc = "subtract" /\ End(r) /\ UNCHANGED <<row, mishaps>>
        /\ meter' = [meter EXCEPT !.bytes = Max({0, @ - req[r].size})]
    BY DEF RemoveStorage, On, history
  <1>2. req'[r] = Free /\ \A s \in Req \ {r} : req'[s] = req[s]
    BY <1>0, <1>1 DEF End
  <1>3. Free.pc \notin Measured \cup Removing \cup Deleting \cup Uploading \cup Storing
    BY FreeType DEF Measured, Removing, Deleting, Uploading, Storing
  <1>4. SizesKnown'
    BY <1>2, <1>3, SizesEnd DEF Storage
  <1>5. Rows' = Rows /\ Bytes' = Bytes
    BY <1>1 DEF Rows, Bytes
  <1>6. ASSUME mishaps \cap {"hydrate", "early", "unsaid"} = {} PROVE Balanced'
    <2>1. Balanced /\ SizesKnown
      BY <1>6 DEF Storage
    <2>2. At({"add"})' = At({"add"}) /\ r \notin At({"add"})
          /\ At({"subtract"})' = At({"subtract"}) \ {r} /\ r \in At({"subtract"})
      BY <1>1, <1>2, FreeType DEF At
    <2>3. \A s \in At({"add"}) : s \in Req /\ req'[s] = req[s]
      BY <1>2, <2>2 DEF At
    <2>4. Told' = Told
      <3>1. Telling' = Telling
        BY <2>2, <2>3 DEF Telling
      <3> QED BY <1>5, <3>1 DEF Told
    <2>5. PICK S : S = At({"subtract"}) \ {r}
      OBVIOUS
    <2>6. S \cup {r} = At({"subtract"}) /\ r \notin S
      BY <2>2, <2>5
    <2>7. IsFiniteSet(S) /\ (\A s \in S \cup {r} : Sizes[s] \in Nat) /\ Total(Sizes, S) \in Nat
      <3>1. S \in SUBSET At(Measured) /\ S \cup {r} \in SUBSET At(Measured)
        BY <2>6 DEF At, Measured
      <3> QED BY <1>0, <2>1, <3>1, SizeSums
    <2>8. Total(Sizes, At({"subtract"})) = Total(Sizes, S) + Sizes[r]
      BY <2>6, <2>7, TotalAdds
    <2>9. Total(Sizes', At({"subtract"})') = Total(Sizes, S)
      <3>1. \A s \in S : Sizes'[s] = Sizes[s]
        BY <1>2, <2>5 DEF Sizes, At
      <3>2. Total(Sizes', S) = Total(Sizes, S)
        BY <3>1, TotalSame
      <3> QED BY <2>2, <2>5, <3>2
    <2>10. meter'.bytes = Total(row, Told)' + Total(Sizes, At({"subtract"}))'
      <3>1. meter.bytes = Total(row, Told) + Total(Sizes, At({"subtract"}))
        BY <2>1 DEF Balanced
      <3>2. Total(row, Told) \in Nat
        BY <1>0, <2>1, BytesAre
      <3>3. Sizes[r] = req[r].size /\ req[r].size \in Nat
        BY <2>7 DEF Sizes
      <3>4. meter.bytes - req[r].size = Total(row, Told) + Total(Sizes, S)
        BY <2>7, <2>8, <3>1, <3>2, <3>3
      <3>5. Max({0, meter.bytes - req[r].size}) = meter.bytes - req[r].size
        <4>1. meter.bytes - req[r].size \in Int /\ meter.bytes - req[r].size >= 0
          BY <2>7, <3>2, <3>4
        <4>2. 0 \in Int
          OBVIOUS
        <4> QED BY <4>1, <4>2, MaxOf
      <3>6. meter'.bytes = meter.bytes - req[r].size
        BY <1>1, <3>5 DEF Rest
      <3>7. Total(row', Told') = Total(row, Told)
        BY <1>1, <2>4
      <3> QED BY <2>9, <3>4, <3>6, <3>7
    <2>11. ASSUME NEW s \in At({"add"})'
           PROVE  /\ req'[s].guia \in Rows' /\ row'[req'[s].guia] = req'[s].size
                  /\ \A t \in At(Removing \cup {"add"})' \ {s} : req'[t].guia # req'[s].guia
      <3>1. s \in At({"add"}) /\ req'[s] = req[s]
        BY <2>2, <2>3
      <3>2. \A t \in At(Removing \cup {"add"})' :
               t \in At(Removing \cup {"add"}) /\ req'[t] = req[t]
        BY <1>2, <1>3, FreeType DEF At
      <3> QED BY <1>1, <1>5, <2>1, <3>1, <3>2 DEF Balanced
    <2>12. \A s \in At(Deleting)' : req'[s].guia \in Rows' => row'[req'[s].guia] = req'[s].size
      <3>1. \A s \in At(Deleting)' : s \in At(Deleting) /\ req'[s] = req[s]
        BY <1>2, <1>3 DEF At
      <3> QED BY <1>1, <1>5, <2>1, <3>1 DEF Balanced
    <2> QED BY <2>10, <2>11, <2>12 DEF Balanced
  <1>7. ASSUME mishaps \cap {"hydrate", "early", "unsaid", "uploads"} = {} PROVE Fits'
    <2>1. Fits
      BY <1>7 DEF Storage
    <2>2. At(Uploading)' \subseteq At(Uploading)
          /\ \A s \in At(Storing)' : s \in At(Storing) /\ req'[s] = req[s]
      BY <1>2, <1>3 DEF At
    <2> QED BY <1>5, <2>1, <2>2 DEF Fits, OneUpload
  <1> QED BY <1>1, <1>4, <1>6, <1>7 DEF Storage

\* An upload that finds another under way, or a removal that finds the upload, is told.
LEMMA ReceiveStorage ==
    ASSUME IInv, Storage, NEW kind, NEW q \in Request, Receive(kind, q),
           q.pc \in {"quota", "mkdtemp", "find", "open", "upsert", "cached"}
    PROVE  Storage'
  <1>0. Typed
    BY DEF IInv
  <1>1. PICK r \in Req : On(r, "free") /\ req' = [req EXCEPT ![r] = q]
    BY DEF Receive
  <1>2. req'[r] = q /\ req[r].pc = "free" /\ \A s \in Req \ {r} : req'[s] = req[s]
    BY <1>0, <1>1, Slot DEF On
  <1>3. UNCHANGED <<row, meter>> /\ mishaps' = mishaps \cup Mishaps(q)
    BY DEF Receive, guias
  <1>4. q.pc \notin Deleting \cup Storing \cup {"add", "subtract"}
        /\ (q.pc \in Removing => q.pc = "find")
    BY DEF Deleting, Storing, Removing
  <1>5. "early" \notin mishaps' /\ q.pc \in Removing => \A s \in At({"add"}) : req[s].guia # q.guia
    BY <1>3, <1>4 DEF Mishaps, At, On
  <1>6. mishaps' \cap {"hydrate", "early", "unsaid", "uploads"} = {} /\ Fits => OneUpload'
    <2> SUFFICES ASSUME "uploads" \notin mishaps', Fits PROVE OneUpload'
      OBVIOUS
    <2>1. q.pc \in Uploading => At(Uploading) = {}
      BY <1>3 DEF Mishaps, At
    <2>2. At(Uploading)' \subseteq At(Uploading) \cup {r}
      BY <1>2 DEF At
    <2>3. q.pc \notin Uploading => At(Uploading)' \subseteq At(Uploading)
      BY <1>2 DEF At
    <2> QED BY <2>1, <2>2, <2>3 DEF Fits, OneUpload
  <1> QED BY <1>0, <1>2, <1>3, <1>4, <1>5, <1>6, StorageStill

\* onModuleInit counts the rows when nobody is about to tell of one.
LEMMA CrashStorage ==
    ASSUME IInv, Storage, CrashAndStart
    PROVE  Storage'
  <1>0. Typed
    BY DEF IInv
  <1>1. /\ req' = [r \in Req |-> Free] /\ row' = row /\ mishaps \subseteq mishaps'
        /\ meter' \in Hydrated \/ "hydrate" \in mishaps'
    BY DEF CrashAndStart
  <1>2. \A pcs : "free" \notin pcs => At(pcs)' = {}
    BY <1>1, FreeType DEF At
  <1>3. At({"add"})' = {} /\ At({"subtract"})' = {} /\ At(Removing \cup {"add"})' = {}
        /\ At(Measured)' = {} /\ At(Deleting)' = {} /\ At(Uploading)' = {} /\ At(Storing)' = {}
    BY <1>2 DEF Removing, Measured, Deleting, Uploading, Storing
  <1>4. Rows' = Rows /\ Bytes' = Bytes /\ Bytes \in Nat
    BY <1>0, <1>1, BytesNat DEF Rows, Bytes
  <1>5. ASSUME mishaps' \cap {"hydrate", "early", "unsaid"} = {} PROVE Balanced'
    <2>1. meter'.bytes = Bytes
      BY <1>1, <1>5 DEF Hydrated
    <2>2. Told' = Rows
      BY <1>3, <1>4 DEF Told, Telling
    <2>3. Total(Sizes', At({"subtract"})') = 0
      BY <1>3, TotalEmpty
    <2>4. Total(row', Told') = Bytes
      BY <1>1, <2>2 DEF Bytes
    <2>5. meter'.bytes = Total(row', Told') + Total(Sizes', At({"subtract"})')
      <3> HIDE DEF Bytes
      <3> QED BY <1>4, <2>1, <2>3, <2>4
    <2> QED BY <1>3, <2>5 DEF Balanced
  <1>6. ASSUME mishaps' \cap {"hydrate", "early", "unsaid", "uploads"} = {} PROVE Fits'
    <2>1. Fits
      BY <1>1, <1>6 DEF Storage
    <2> QED BY <1>3, <1>4, <2>1 DEF Fits, OneUpload
  <1> QED BY <1>3, <1>5, <1>6 DEF Storage, SizesKnown

----------------------------------------------------------------------------
(* The reads, and the remaining types *)

LEMMA ReadsStill ==
    ASSUME Reads, meter'.reads = meter.reads, meter'.month = meter.month,
           UNCHANGED <<stored, writes, month>>, mishaps \subseteq mishaps'
    PROVE  Reads'
  BY DEF Reads

\* What is counted is one more read on the meter, and one more about to be stored.
LEMMA GetReads ==
    ASSUME IInv, Rest, Reads, NEW r \in Req, Get(r)
    PROVE  Rest' /\ Reads'
  <1>1. /\ meter \in [bytes: Nat, reads: Nat, month: Month] /\ month \in Month
        /\ stored \in [Month -> Nat] /\ writes \in [Month -> Nat] /\ Month \subseteq Nat
    BY DEF Rest, Month
  <1>2. UNCHANGED <<stored, month, stale, mishaps, mix, turns>>
    BY DEF Get, history, bounds
  <1>3. CASE UNCHANGED <<meter, writes>>
    <2>1. faults' \in 0..MaxFaults
      BY DEF Get, Fault, Rest
    <2> QED BY <1>2, <1>3, <2>1, ReadsStill DEF Rest
  <1>4. CASE RecordRead /\ UNCHANGED faults
    <2>1. Rolled \in [bytes: Nat, reads: Nat, month: Month] /\ Rolled.month = month
          /\ Rolled.reads = IF meter.month = month THEN meter.reads ELSE 0
      BY <1>1 DEF Rolled
    <2>2. /\ meter' \in [bytes: Nat, reads: Nat, month: Month]
          /\ meter'.month = month /\ meter'.reads = Rolled.reads + 1
      BY <1>4, <2>1 DEF RecordRead
    <2>3. /\ writes' \in [Month -> Nat] /\ writes'[month] = writes[month] + 1
          /\ \A m \in Month : m # month => writes'[m] = writes[m]
      BY <1>1, <1>4 DEF RecordRead
    <2>4. Rest'
      BY <1>2, <1>4, <2>2, <2>3 DEF Rest
    <2>5. ASSUME mishaps \cap {"hydrate", "uncounted"} = {}
          PROVE  /\ meter'.month <= month
                 /\ meter'.reads = stored[meter'.month] + writes'[meter'.month]
                 /\ \A m \in Month : m > meter'.month => stored[m] = 0 /\ writes'[m] = 0
      <3>0. /\ meter.month \in Month /\ meter.month \in Nat /\ month \in Nat
            /\ meter.month <= month /\ meter.reads = stored[meter.month] + writes[meter.month]
            /\ meter.month < month => stored[month] = 0 /\ writes[month] = 0
            /\ stored[month] \in Nat /\ writes[month] \in Nat
        BY <1>1, <2>5 DEF Reads
      <3>1. meter'.reads = stored[month] + writes'[month]
        <4>1. CASE meter.month = month
          BY <2>1, <2>2, <2>3, <3>0, <4>1
        <4>2. CASE meter.month # month
          <5>1. meter'.reads = 1 /\ stored[month] = 0 /\ writes'[month] = 1
            BY <2>1, <2>2, <2>3, <3>0, <4>2
          <5> QED BY <5>1
        <4> QED BY <4>1, <4>2
      <3>2. \A m \in Month : m > month => m > meter.month /\ m # month
        BY <1>1, <3>0
      <3>3. \A m \in Month : m > month => stored[m] = 0 /\ writes'[m] = 0
        BY <2>3, <2>5, <3>2 DEF Reads
      <3> QED BY <1>1, <2>2, <3>1, <3>3
    <2> QED BY <1>2, <1>4, <2>4, <2>5 DEF Reads
  <1> QED BY <1>3, <1>4 DEF Get

LEMMA IncrementReadsReads ==
    ASSUME Rest, Reads, NEW m \in Month, IncrementReads(m)
    PROVE  Rest' /\ Reads'
  <1>1. /\ meter \in [bytes: Nat, reads: Nat, month: Month] /\ Month \subseteq Nat
        /\ stored \in [Month -> Nat] /\ writes \in [Month -> Nat]
    BY DEF Rest, Month
  <1>2. UNCHANGED <<meter, month, stale, mix, turns>>
    BY DEF IncrementReads, bounds
  <1>3. /\ writes[m] > 0 /\ writes' \in [Month -> Nat] /\ writes'[m] = writes[m] - 1
        /\ \A n \in Month : n # m => writes'[n] = writes[n]
    BY <1>1 DEF IncrementReads
  <1>4. CASE Fault /\ UNCHANGED stored /\ mishaps' = mishaps \cup {"uncounted"}
    BY <1>2, <1>3, <1>4 DEF Fault, Rest, Reads
  <1>5. CASE stored' = OneMore(m) /\ UNCHANGED <<mishaps, faults>>
    <2>1. /\ stored' \in [Month -> Nat] /\ stored'[m] = stored[m] + 1
          /\ \A n \in Month : n # m => stored'[n] = stored[n]
      BY <1>1, <1>5 DEF OneMore
    <2>2. Rest'
      BY <1>2, <1>3, <1>5, <2>1 DEF Rest
    <2>3. ASSUME mishaps \cap {"hydrate", "uncounted"} = {}
          PROVE  /\ meter.reads = stored'[meter.month] + writes'[meter.month]
                 /\ \A n \in Month : n > meter.month => stored'[n] = 0 /\ writes'[n] = 0
      <3>1. ~(m > meter.month)
        BY <1>3, <2>3 DEF Reads
      <3>2. \A n \in Month : n > meter.month => stored'[n] = 0 /\ writes'[n] = 0
        BY <1>3, <2>1, <2>3, <3>1 DEF Reads
      <3>3. meter.month \in Month /\ meter.reads = stored[meter.month] + writes[meter.month]
            /\ stored[m] \in Nat /\ writes[m] \in Nat
        BY <1>1, <2>3 DEF Reads
      <3>4. CASE meter.month = m
        <4>1. meter.reads = stored[m] + writes[m]
          BY <3>3, <3>4
        <4>2. stored'[m] + writes'[m] = stored[m] + writes[m]
          BY <1>3, <2>1, <3>3
        <4> QED BY <3>2, <3>4, <4>1, <4>2
      <3>5. CASE meter.month # m
        BY <1>3, <2>1, <3>2, <3>3, <3>5
      <3> QED BY <3>4, <3>5
    <2> QED BY <1>2, <1>5, <2>2, <2>3 DEF Reads
  <1> QED BY <1>4, <1>5 DEF IncrementReads

\* Steps that do not touch the meter.
LEMMA PlainReads ==
    ASSUME IInv, Rest, Reads, NEW r \in Req,
           \/ Compress(r) \/ Quota(r) \/ Put(r) \/ CreateRow(r) \/ Undo(r) \/ FindRow(r)
           \/ DeleteObject(r) \/ DeleteRow(r) \/ Open(r) \/ Upsert(r) \/ Lookup(r)
           \/ CallFails(r)
    PROVE  Rest' /\ Reads'
  <1> USE DEF Compress, Mkdtemp, Ffmpeg, Rm, Quota, Put, CreateRow, Undo, FindRow, DeleteObject,
              DeleteRow, Open, Upsert, UpsertPrice, Invalidate, Lookup, ReadPrice, FindPrice,
              FillCache, CallFails, guias, prices, history, bounds
  <1>1. UNCHANGED <<meter, stored, writes, month, mix, turns>>
    OBVIOUS
  <1>2. faults' = faults \/ (faults < MaxFaults /\ faults' = faults + 1)
    BY DEF Fault, Heard
  <1>3. faults' \in 0..MaxFaults
    BY <1>2 DEF Rest
  <1>4. mishaps \subseteq mishaps' /\ mishaps' \subseteq mishaps \cup {"unsaid", "rm"}
    BY DEF Unsaid
  <1>5. stale' \subseteq Product
    <2>1. CASE UpsertPrice(r) \/ Invalidate(r)
      <3>1. req[r].pc \in OfPrice
        BY <2>1 DEF On, OfPrice
      <3>2. req[r].product \in Product
        BY <3>1 DEF IInv, Typed, Guides, Shaped, Request
      <3> QED BY <2>1, <3>2 DEF Rest
    <2>2. CASE UNCHANGED stale
      BY <2>2 DEF Rest
    <2> QED BY <2>1, <2>2
  <1>6. Rest'
    BY <1>1, <1>3, <1>4, <1>5 DEF Rest
  <1>7. Reads'
    BY <1>1, <1>4, ReadsStill
  <1> QED BY <1>6, <1>7

\* Steps of the meter's bytes.
LEMMA BytesReads ==
    ASSUME IInv, Rest, Storage, Reads, NEW r \in Req, AddStorage(r) \/ RemoveStorage(r)
    PROVE  Rest' /\ Reads'
  <1>1. UNCHANGED <<stored, writes, month, stale, mishaps, mix, turns, faults>>
    BY DEF AddStorage, RemoveStorage, history, bounds
  <1>2. req[r].size \in Nat
    <2>1. r \in At(Measured)
      BY DEF AddStorage, RemoveStorage, On, At, Measured
    <2>2. req[r].size # None
      BY <2>1 DEF Storage, SizesKnown
    <2> QED BY <2>2 DEF IInv, Typed, Request
  <1>3. meter \in [bytes: Nat, reads: Nat, month: Month]
    BY DEF Rest
  <1>4. Max({0, meter.bytes - req[r].size}) \in Nat
    <2>1. 0 \in Int /\ meter.bytes - req[r].size \in Int
      BY <1>2, <1>3
    <2> QED BY <2>1, MaxOf
  <1>5. \E b \in Nat : meter' = [meter EXCEPT !.bytes = b]
    <2>1. CASE AddStorage(r)
      BY <1>2, <1>3, <2>1 DEF AddStorage
    <2>2. CASE RemoveStorage(r)
      BY <1>3, <1>4, <2>2 DEF RemoveStorage
    <2> QED BY <2>1, <2>2
  <1>6. meter' \in [bytes: Nat, reads: Nat, month: Month]
        /\ meter'.reads = meter.reads /\ meter'.month = meter.month
    BY <1>3, <1>5
  <1>7. Rest'
    BY <1>1, <1>6 DEF Rest
  <1>8. Reads'
    BY <1>1, <1>6, ReadsStill
  <1> QED BY <1>7, <1>8

LEMMA ArriveReads ==
    ASSUME Rest, Reads, Arrive
    PROVE  Rest' /\ Reads'
  <1>1. ASSUME NEW kind, NEW q, Receive(kind, q) PROVE Rest' /\ Reads'
    <2>1. UNCHANGED <<meter, stored, writes, month, stale, mix, turns, faults>>
      BY <1>1 DEF Receive, guias
    <2>2. mishaps \subseteq mishaps' /\ mishaps' \subseteq mishaps \cup {"uploads", "early"}
      BY <1>1 DEF Receive, Mishaps
    <2>3. Rest'
      BY <2>1, <2>2 DEF Rest
    <2> QED BY <2>1, <2>2, <2>3, ReadsStill
  <1> QED BY <1>1 DEF Arrive

LEMMA OtherReads ==
    ASSUME IInv, Rest, Reads,
           \/ MonthEnds \/ CrashAndStart \/ (\E p \in Product : CacheLapses(p))
    PROVE  Rest' /\ Reads'
  <1>1. /\ month \in Nat /\ turns \in Nat /\ month <= turns /\ turns <= MaxTurns
        /\ meter \in [bytes: Nat, reads: Nat, month: Month] /\ Month \subseteq Nat
        /\ stored \in [Month -> Nat]
    BY DEF Rest, Month
  <1>2. CASE MonthEnds
    <2>1. /\ month' = month + 1 /\ turns' = turns + 1 /\ turns' <= MaxTurns
          /\ UNCHANGED <<meter, stored, writes, stale, mishaps, mix, faults>>
      BY <1>1, <1>2 DEF MonthEnds, Turn, guias, history
    <2>2. month' \in Month /\ month' <= turns' /\ turns' \in 0..MaxTurns
      BY <1>1, <2>1 DEF Month
    <2>3. Rest'
      BY <2>1, <2>2 DEF Rest
    <2>4. Reads'
      <3> SUFFICES ASSUME mishaps \cap {"hydrate", "uncounted"} = {}
                   PROVE  /\ meter.month <= month + 1
                          /\ meter.reads = stored[meter.month] + writes[meter.month]
                          /\ \A m \in Month : m > meter.month => stored[m] = 0 /\ writes[m] = 0
        BY <2>1 DEF Reads
      <3>1. /\ meter.month <= month
            /\ meter.reads = stored[meter.month] + writes[meter.month]
            /\ \A m \in Month : m > meter.month => stored[m] = 0 /\ writes[m] = 0
        BY DEF Reads
      <3>2. meter.month \in Nat
        BY <1>1
      <3> QED BY <1>1, <3>1, <3>2
    <2> QED BY <2>3, <2>4
  <1>3. CASE \E p \in Product : CacheLapses(p)
    <2>1. /\ turns' = turns + 1 /\ turns' <= MaxTurns /\ stale' \subseteq stale
          /\ UNCHANGED <<meter, stored, writes, month, mishaps, mix, faults>>
      BY <1>1, <1>3 DEF CacheLapses, Turn, guias
    <2>2. Rest'
      BY <1>1, <2>1 DEF Rest
    <2> QED BY <2>1, <2>2, ReadsStill
  <1>4. CASE CrashAndStart
    <2>1. /\ UNCHANGED <<stored, month, mix, turns>> /\ Fault
          /\ writes' = [m \in Month |-> 0]
          /\ mishaps \subseteq mishaps' /\ mishaps' \subseteq mishaps \cup {"crash", "hydrate"}
          /\ meter' \in Hydrated \/ (meter' \in Failed /\ "hydrate" \in mishaps')
      BY <1>4 DEF CrashAndStart, bounds
    <2>2. stale' = stale \cup {req[r].product : r \in {s \in Req : On(s, "invalidate")}}
      BY <1>4 DEF CrashAndStart
    <2>3. stale' \subseteq Product
      <3>1. ASSUME NEW r \in Req, On(r, "invalidate") PROVE req[r].product \in Product
        BY <3>1 DEF On, OfPrice, IInv, Typed, Guides, Shaped, Request
      <3> QED BY <2>2, <3>1 DEF Rest
    <2>4. Bytes \in Nat
      BY BytesNat DEF IInv
    <2>5. meter' \in [bytes: Nat, reads: Nat, month: Month]
      <3>1. month \in Month
        BY DEF Rest
      <3> HIDE DEF Bytes
      <3> QED BY <1>1, <2>1, <2>4, <3>1 DEF Hydrated, Failed
    <2>6. faults' \in 0..MaxFaults
      BY <2>1 DEF Fault, Rest
    <2>7. Rest'
      BY <2>1, <2>3, <2>5, <2>6 DEF Rest
    <2>8. Reads'
      <3> SUFFICES ASSUME mishaps' \cap {"hydrate", "uncounted"} = {}
                   PROVE  /\ meter'.month <= month
                          /\ meter'.reads = stored[meter'.month] + writes'[meter'.month]
                          /\ \A m \in Month : m > meter'.month => stored[m] = 0 /\ writes'[m] = 0
        BY <2>1 DEF Reads
      <3>1. meter'.month = month /\ meter'.reads = stored[month]
        BY <2>1 DEF Hydrated
      <3>2. meter.month <= month /\ \A m \in Month : m > meter.month => stored[m] = 0
        BY <2>1 DEF Reads
      <3>3. month \in Month /\ writes'[month] = 0 /\ stored[month] \in Nat /\ meter.month \in Nat
        BY <1>1, <2>1 DEF Rest
      <3>4. \A m \in Month : m > month => m > meter.month
        BY <1>1, <3>2, <3>3
      <3> QED BY <1>1, <2>1, <3>1, <3>2, <3>3, <3>4
    <2> QED BY <2>7, <2>8
  <1> QED BY <1>2, <1>3, <1>4

----------------------------------------------------------------------------
Metered == Rest /\ Storage /\ Reads

LEMMA ArriveStorage ==
    ASSUME IInv, Storage, Arrive
    PROVE  Storage'
  <1>0. ASSUME NEW kind, NEW q \in Request, Receive(kind, q),
               q.pc \in {"quota", "mkdtemp", "find", "open", "upsert", "cached"}
        PROVE  Storage'
    BY <1>0, ReceiveStorage
  <1>1. Rows \subseteq Guia /\ calls \in Nat
    BY DEF Rows, IInv, Typed
  <1> USE DEF Free, Request, Pc, Position
  <1>2. ASSUME NEW sz \in Size, NEW pc \in {"quota", "mkdtemp"},
               Receive("upload", [Free EXCEPT !.pc = pc, !.size = sz])
        PROVE  Storage'
    <2> DEFINE q == [Free EXCEPT !.pc = pc, !.size = sz]
    <2>1. q \in Request /\ q.pc = pc /\ Receive("upload", q)
      BY <1>2
    <2> HIDE DEF q
    <2> QED BY <1>0, <2>1
  <1>3. ASSUME NEW g \in Rows, Receive("remove", [Free EXCEPT !.pc = "find", !.guia = g])
        PROVE  Storage'
    <2> DEFINE q == [Free EXCEPT !.pc = "find", !.guia = g]
    <2>1. q \in Request /\ q.pc = "find" /\ Receive("remove", q)
      BY <1>1, <1>3
    <2> HIDE DEF q
    <2> QED BY <1>0, <2>1
  <1>4. ASSUME NEW g \in Rows, NEW first \in {None} \cup 0..Max(Size),
               NEW last \in {None} \cup 0..Max(Size),
               Receive("open", [Free EXCEPT !.pc = "open", !.guia = g, !.first = first,
                                            !.last = last])
        PROVE  Storage'
    <2> DEFINE q == [Free EXCEPT !.pc = "open", !.guia = g, !.first = first, !.last = last]
    <2>0. first \in Position /\ last \in Position
      BY MaxOf, CatalogAssumption
    <2>1. q \in Request /\ q.pc = "open" /\ Receive("open", q)
      BY <1>1, <1>4, <2>0
    <2> HIDE DEF q
    <2> QED BY <1>0, <2>1
  <1>5. ASSUME NEW p \in Product,
               Receive("report", [Free EXCEPT !.pc = "upsert", !.product = p, !.price = calls + 1])
        PROVE  Storage'
    <2> DEFINE q == [Free EXCEPT !.pc = "upsert", !.product = p, !.price = calls + 1]
    <2>0. calls + 1 \in Price
      BY <1>1, <1>5 DEF Receive, Price
    <2>1. q \in Request /\ q.pc = "upsert" /\ Receive("report", q)
      BY <1>5, <2>0
    <2> HIDE DEF q
    <2> QED BY <1>0, <2>1
  <1>6. ASSUME NEW p \in Product,
               Receive("price", [Free EXCEPT !.pc = "cached", !.product = p])
        PROVE  Storage'
    <2> DEFINE q == [Free EXCEPT !.pc = "cached", !.product = p]
    <2>1. q \in Request /\ q.pc = "cached" /\ Receive("price", q)
      BY <1>6
    <2> HIDE DEF q
    <2> QED BY <1>0, <2>1
  <1> QED BY <1>2, <1>3, <1>4, <1>5, <1>6 DEF Arrive

LEMMA MeteredInductive == IInv /\ IInv' /\ Metered /\ [Next]_vars => Metered'
  <1> SUFFICES ASSUME IInv, IInv', Rest, Storage, Reads, [Next]_vars
               PROVE  Rest' /\ Storage' /\ Reads'
    BY DEF Metered
  <1>0. Typed
    BY DEF IInv
  <1>1. CASE Arrive
    BY <1>1, ArriveStorage, ArriveReads
  <1>2. CASE MonthEnds
    BY <1>0, <1>2, StorageUnmoved, OtherReads DEF MonthEnds, guias, history
  <1>3. CASE CrashAndStart
    BY <1>3, CrashStorage, OtherReads
  <1>4. ASSUME NEW r \in Req, AddStorage(r) \/ RemoveStorage(r)
        PROVE  Rest' /\ Storage' /\ Reads'
    BY <1>4, AddStorageStorage, RemoveStorageStorage, BytesReads
  <1>5. ASSUME NEW r \in Req,
               \/ Compress(r) \/ Put(r) \/ Undo(r) \/ DeleteObject(r) \/ Open(r)
               \/ Upsert(r) \/ Lookup(r) \/ CallFails(r)
        PROVE  Rest' /\ Storage' /\ Reads'
    BY <1>5, QuietStorage, PlainReads DEF OpenArchivo
  <1>6. ASSUME NEW r \in Req, Quota(r) \/ CreateRow(r) \/ FindRow(r) \/ DeleteRow(r)
        PROVE  Rest' /\ Storage' /\ Reads'
    BY <1>6, QuotaStorage, CreateRowStorage, FindRowStorage, DeleteRowStorage, PlainReads
  <1>7. ASSUME NEW r \in Req, Get(r)
        PROVE  Rest' /\ Storage' /\ Reads'
    BY <1>7, QuietStorage, GetReads DEF OpenArchivo
  <1>8. ASSUME NEW m \in Month, IncrementReads(m)
        PROVE  Rest' /\ Storage' /\ Reads'
    BY <1>0, <1>8, StorageUnmoved, IncrementReadsReads DEF IncrementReads
  <1>9. ASSUME NEW p \in Product, CacheLapses(p)
        PROVE  Rest' /\ Storage' /\ Reads'
    <2>1. UNCHANGED <<row, mishaps, req, meter>>
      BY <1>9 DEF CacheLapses, guias
    <2> QED BY <1>0, <1>9, <2>1, StorageUnmoved, OtherReads
  <1>10. CASE UNCHANGED vars
    <2>1. UNCHANGED <<row, meter, stored, writes, req, month, stale, mishaps, mix, turns, faults>>
      BY <1>10 DEF vars, guias, history, bounds
    <2>2. Rest'
      BY <2>1 DEF Rest
    <2> QED BY <1>0, <2>1, <2>2, StorageUnmoved, ReadsStill
  <1> QED
    BY <1>1, <1>2, <1>3, <1>4, <1>5, <1>6, <1>7, <1>8, <1>9, <1>10
       DEF Next, Create, Remove, OpenArchivo

LEMMA MeteredInitially == Init => Metered
  <1> SUFFICES ASSUME Init PROVE Rest /\ Storage /\ Reads
    BY DEF Metered
  <1>1. \A pcs : "free" \notin pcs => At(pcs) = {}
    BY FreeType DEF Init, At
  <1>2. At({"add"}) = {} /\ At({"subtract"}) = {} /\ At(Measured) = {} /\ At(Deleting) = {}
        /\ At(Uploading) = {} /\ At(Storing) = {}
    BY <1>1 DEF Measured, Deleting, Uploading, Storing
  <1>3. Rows = {} /\ Told = {}
    BY DEF Init, Rows, Told
  <1>4. Bytes = 0 /\ Total(row, Told) = 0 /\ Total(Sizes, At({"subtract"})) = 0
    BY <1>2, <1>3, TotalEmpty DEF Bytes
  <1>5. meter = [bytes |-> 0, reads |-> 0, month |-> 0] /\ month = 0 /\ mishaps = {} /\ 0 \in Month
    BY DEF Init, Month
  <1>6. Balanced
    BY <1>2, <1>4, <1>5 DEF Balanced
  <1>7. Fits
    BY <1>2, <1>4 DEF Fits, OneUpload
  <1>8. Storage
    BY <1>2, <1>6, <1>7 DEF Storage, SizesKnown
  <1>9. Rest
    BY <1>5 DEF Init, Rest
  <1>10. Reads
    BY <1>5 DEF Init, Reads
  <1> QED BY <1>8, <1>9, <1>10

LEMMA AlwaysMetered == Spec => []Metered
  BY MeteredInitially, MeteredInductive, Always, PTL DEF Spec

----------------------------------------------------------------------------
(* A guide that is listed can be opened, an object has its row, an audio     *)
(* leaves no directory behind: create stores, inserts and undoes, remove     *)
(* deletes the object first and then the row, and what is out of step is     *)
(* under way or was left by one of the events ObjectsMatchRows names: a call *)
(* on that guide that failed or whose answer was lost, a crash between two   *)
(* calls, a directory that could not be removed (guias.service.ts, r2 and    *)
(* the audio compressor).                                                    *)
THEOREM RowsAndObjectsMatch == Spec => []ObjectsMatchRows
  <1>1. IInv => ObjectsMatchRows
    BY DEF IInv, Guides, Backed, Counted, Compressing, ObjectsMatchRows
  <1> QED BY <1>1, Always, PTL

(* What openArchivo answers to a Range header is what the header asks for    *)
(* of the file, whatever its size and the two numbers (parseRangeHeader).    *)
THEOREM RangesAreServed == Spec => []RangeServed
  <1>1. IInv => RangeServed
    BY DEF IInv
  <1> QED BY <1>1, Always, PTL

(* A cached price is the reported one, unless its invalidation is about to   *)
(* happen, failed, was cut short or was overtaken by a reader that filled    *)
(* the cache with what it had read before (commodities.service.ts).          *)
THEOREM PricesAreFresh == Spec => []PriceFresh
  <1>1. IInv => PriceFresh
    BY DEF IInv, Prices
  <1> QED BY <1>1, Always, PTL

(* Every variable keeps its type; among others, the bytes on the meter never  *)
(* go below zero, a prefix of the ids is used, and no reading is stored of a   *)
(* month the clock has not reached.                                           *)
THEOREM CatalogTypeCorrect == Spec => []TypeOK
  <1>1. IInv /\ Metered => TypeOK
    <2> SUFFICES ASSUME IInv, Metered PROVE TypeOK
      OBVIOUS
    <2>1. used \in 0..MaxCalls
      <3>1. Cardinality(At(Unnamed)) \in Nat
        BY AtFinite
      <3> QED BY <3>1 DEF IInv, Counted, Typed
    <2> QED BY <2>1 DEF IInv, Typed, Metered, Rest, TypeOK
  <1> QED BY <1>1, Always, AlwaysMetered, PTL

(* R2UsageMeter counts the bytes of the rows but for the uploads and removals  *)
(* about to tell it, unless its hydration failed, an error hid what was done   *)
(* to a row or a guide was removed before its upload was counted; what is      *)
(* stored keeps the quota while besides uploads do not overlap; and its reads  *)
(* are those stored or about to be, through crashes and turns of the month,    *)
(* unless its hydration failed or a read could not be stored.                  *)
THEOREM StorageIsMetered == Spec => []StorageMetered
  <1>1. IInv /\ Metered => StorageMetered
    <2> SUFFICES ASSUME IInv, Metered PROVE StorageMetered
      OBVIOUS
    <2>1. Typed /\ Rest /\ Storage /\ Reads
      BY DEF IInv, Metered
    <2>2. ASSUME mishaps \cap {"hydrate", "early", "unsaid"} = {}
          PROVE  meter.bytes + Total(Sizes, At({"add"})) = Bytes + Total(Sizes, At({"subtract"}))
      <3>1. Balanced /\ SizesKnown
        BY <2>1, <2>2 DEF Storage
      <3>2. /\ Bytes = Total(row, Told) + Total(Sizes, At({"add"}))
            /\ Total(row, Told) \in Nat /\ Total(Sizes, At({"add"})) \in Nat
            /\ Total(Sizes, At({"subtract"})) \in Nat
        BY <2>1, <3>1, BytesAre
      <3>3. meter.bytes = Total(row, Told) + Total(Sizes, At({"subtract"}))
        BY <3>1 DEF Balanced
      <3> HIDE DEF Bytes, Total
      <3> QED BY <3>2, <3>3
    <2>3. mishaps \cap {"hydrate", "early", "unsaid", "uploads"} = {} => Bytes <= Limit
      BY <2>1 DEF Storage, Fits
    <2>4. mishaps \cap {"hydrate", "uncounted"} = {} =>
             meter.reads = stored[meter.month] + writes[meter.month]
      BY <2>1 DEF Reads
    <2> QED BY <2>2, <2>3, <2>4 DEF StorageMetered, Sizes
  <1> QED BY <1>1, Always, AlwaysMetered, PTL

==============================================================================
