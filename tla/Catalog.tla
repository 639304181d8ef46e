------------------------------- MODULE Catalog -------------------------------
(***************************************************************************)
(* The tables that something outside the database must follow.  A guide      *)
(* (backend/src/guias) is a row, an object in R2 and its bytes on the        *)
(* R2UsageMeter, which lives in the process and is hydrated when it starts;  *)
(* a price (backend/src/commodities) is a row and a copy in the cache.       *)
(* Every call is a step; it may fail, without having been applied or with    *)
(* only its answer lost, and the process may crash between two of them.      *)
(*                                                                          *)
(* Abstractions: the labels of a guide, and the endpoints that only list or  *)
(* relabel, are left out; sizes and positions are a few bytes; a UUID is the *)
(* next number; a price is the number of its report.                         *)
(***************************************************************************)
EXTENDS Integers, FiniteSets, FiniteSetsExt

CONSTANTS
    Size,       \* sizes of a file, in bytes
    Limit,      \* R2_STORAGE_LIMIT_BYTES
    Product,    \* commodities of one region
    Req,        \* request slots of the process
    Mixes,      \* bound: the kinds of requests a behaviour mixes
    MaxCalls,   \* bound: requests received
    MaxFaults,  \* bound: failed calls and crashes
    MaxTurns,   \* bound: months that begin, cached prices that lapse
    None

CallKind == {"upload", "remove", "open", "report", "price"}

ASSUME CatalogAssumption ==
    /\ Size \subseteq Nat \ {0} /\ Limit \in Nat /\ IsFiniteSet(Req)
    /\ Mixes \subseteq SUBSET CallKind
    /\ MaxCalls \in Nat /\ MaxFaults \in Nat /\ MaxTurns \in Nat
    /\ None \notin Int /\ None \notin Product

Guia  == 1..MaxCalls
Month == 0..MaxTurns
Price == 1..MaxCalls

VARIABLES
    row,      \* guias: Guia -> sizeBytes, or None
    object,   \* R2: the guides whose object is there
    meter,    \* R2UsageMeter: [bytes, reads, month]
    stored,   \* r2_monthly_reads: Month -> reads
    writes,   \* Month -> increments of it under way, which nobody awaits
    tmp,      \* directories of the audio compressor on the disk
    price,    \* commodity_prices: Product -> Price, or None
    cache,    \* agrotech:commodity: Product -> Price, or None
    req,      \* the requests in flight: Req -> record, see Free
    month,    \* the clock
    broken,   \* history: rows whose object a failure took
    leaked,   \* history: objects a failure left without a row
    stale,    \* history: products whose cached price may be an old one
    mishaps,  \* history: "crash"; "hydrate" failed; two "uploads" overlapped; an
              \* "early" removal; a row written or deleted and "unsaid"; an "rm"
              \* failed; a read left "uncounted" in the table
    mix, used, calls, faults, turns

guias   == <<row, object, meter, stored, writes, tmp>>
prices  == <<price, cache>>
history == <<broken, leaked, stale, mishaps>>
bounds  == <<mix, used, calls, turns>>
vars    == <<guias, prices, req, month, history, bounds, faults>>

Pc == {"free", "mkdtemp", "ffmpeg", "rm", "quota", "put", "row", "undo", "add",
       "find", "deleteObject", "deleteRow", "subtract", "open", "get",
       "upsert", "invalidate", "cached", "select", "fill"}

(* A request: the guide and its size, the Range header as the two numbers of *)
(* bytes=first-last and the positions it is read as, the product and price.   *)
Position == Nat \cup {None}
Request  == [pc: Pc, guia: Guia \cup {None}, size: Size \cup {None}, ok: BOOLEAN,
             first: Position, last: Position, range: SUBSET Nat,
             product: Product \cup {None}, price: Price \cup {None}]
Free     == [pc |-> "free", guia |-> None, size |-> None, ok |-> TRUE,
             first |-> None, last |-> None, range |-> {}, product |-> None, price |-> None]

Init ==
    /\ row = [g \in Guia |-> None] /\ object = {}
    /\ meter = [bytes |-> 0, reads |-> 0, month |-> 0]
    /\ stored = [m \in Month |-> 0] /\ writes = [m \in Month |-> 0] /\ tmp = 0
    /\ price = [p \in Product |-> None] /\ cache = [p \in Product |-> None]
    /\ req = [r \in Req |-> Free] /\ month = 0
    /\ broken = {} /\ leaked = {} /\ stale = {} /\ mishaps = {}
    /\ mix \in Mixes /\ used = 0 /\ calls = 0 /\ faults = 0 /\ turns = 0

----------------------------------------------------------------------------
(* Requests *)

On(r, pc)   == req[r].pc = pc
Goto(r, pc) == req' = [req EXCEPT ![r].pc = pc]
End(r)      == req' = [req EXCEPT ![r] = Free]
Fault       == faults < MaxFaults /\ faults' = faults + 1

Rows == {g \in Guia : row[g] # None}

\* The sum of f over S, as the number of its units.
Units(f, S) == UNION {{x} \X (1..f[x]) : x \in S}
Total(f, S) == Cardinality(Units(f, S))

Bytes == Total(row, Rows)

\* A call to R2 or to the database is done, fails, or is done and its answer is lost.
Outcome    == {"done", "failed", "unheard"}
Heard(out) == IF out = "done" THEN UNCHANGED faults ELSE Fault

\* The row or the object of a guide is written or deleted.
WithRow(g, size) == [row EXCEPT ![g] = size]
WithoutRow(g)    == [row EXCEPT ![g] = None]
WithObject(g)    == object \cup {g}
WithoutObject(g) == object \ {g}
Unsaid(out)      == IF out = "unheard" THEN mishaps \cup {"unsaid"} ELSE mishaps

Uploading == {"mkdtemp", "ffmpeg", "rm", "quota", "put", "row", "undo", "add"}

\* Two uploads at once; a guide removed before its upload told the meter.
Mishaps(q) ==
    {m \in {"uploads"} : q.pc \in Uploading /\ \E r \in Req : req[r].pc \in Uploading}
    \cup {m \in {"early"} : q.pc = "find" /\ \E r \in Req : On(r, "add") /\ req[r].guia = q.guia}

Receive(kind, q) ==
    /\ kind \in mix /\ calls < MaxCalls /\ calls' = calls + 1
    /\ \E r \in Req : On(r, "free") /\ req' = [req EXCEPT ![r] = q]
    /\ mishaps' = mishaps \cup Mishaps(q)
    /\ UNCHANGED <<guias, prices, month, broken, leaked, stale, mix, used, faults, turns>>

\* What does not pass the validation of the controller and of create is refused before.
Arrive ==
    \/ \E s \in Size, pc \in {"quota", "mkdtemp"} :   \* a pdf, an audio
         Receive("upload", [Free EXCEPT !.pc = pc, !.size = s])
    \/ \E g \in Rows : Receive("remove", [Free EXCEPT !.pc = "find", !.guia = g])
    \/ \E g \in Rows, first, last \in {None} \cup 0..Max(Size) :
         Receive("open", [Free EXCEPT !.pc = "open", !.guia = g, !.first = first, !.last = last])
    \/ \E p \in Product :
         Receive("report", [Free EXCEPT !.pc = "upsert", !.product = p, !.price = calls + 1])
    \/ \E p \in Product : Receive("price", [Free EXCEPT !.pc = "cached", !.product = p])

----------------------------------------------------------------------------
(* GuiasService.create *)

Mkdtemp(r) ==
    /\ On(r, "mkdtemp")
    /\ \/ tmp' = tmp + 1 /\ Goto(r, "ffmpeg") /\ UNCHANGED faults
       \/ Fault /\ End(r) /\ UNCHANGED tmp
    /\ UNCHANGED <<row, object, meter, stored, writes, prices, month, history, bounds>>

\* The compressed size is any; ffmpeg may be missing, exit with an error or time out.
Ffmpeg(r) ==
    /\ On(r, "ffmpeg")
    /\ \E s \in Size :
         \/ req' = [req EXCEPT ![r].pc = "rm", ![r].size = s] /\ UNCHANGED faults
         \/ req' = [req EXCEPT ![r].pc = "rm", ![r].ok = FALSE] /\ Fault
    /\ UNCHANGED <<guias, prices, month, history, bounds>>

\* finally: the directory goes whatever happened; if it cannot, the upload is refused.
Rm(r) ==
    /\ On(r, "rm")
    /\ \/ /\ tmp' = tmp - 1 /\ UNCHANGED <<mishaps, faults>>
          /\ IF req[r].ok THEN Goto(r, "quota") ELSE End(r)
       \/ Fault /\ End(r) /\ UNCHANGED tmp /\ mishaps' = mishaps \cup {"rm"}
    /\ UNCHANGED <<row, object, meter, stored, writes, prices, month, broken, leaked, stale, bounds>>

WouldExceedStorage(bytes) == meter.bytes + bytes > Limit

\* The quota, then a new id.
Quota(r) ==
    /\ On(r, "quota")
    /\ IF WouldExceedStorage(req[r].size)
       THEN End(r) /\ UNCHANGED used
       ELSE /\ used' = used + 1
            /\ req' = [req EXCEPT ![r].pc = "put", ![r].guia = used + 1]
    /\ UNCHANGED <<guias, prices, month, history, mix, calls, faults, turns>>

\* A PUT that times out may have been applied; nothing deletes the object then.
Put(r) ==
    LET g == req[r].guia IN
    /\ On(r, "put")
    /\ \E out \in Outcome :
         /\ Heard(out)
         /\ object' = IF out = "failed" THEN object ELSE WithObject(g)
         /\ leaked' = IF out = "unheard" THEN leaked \cup {g} ELSE leaked
         /\ IF out = "done" THEN Goto(r, "row") ELSE End(r)
    /\ UNCHANGED <<row, meter, stored, writes, tmp, prices, month, broken, stale, mishaps, bounds>>

CreateRow(r) ==
    LET g == req[r].guia IN
    /\ On(r, "row")
    /\ \E out \in Outcome :
         /\ Heard(out)
         /\ row' = IF out = "failed" THEN row ELSE WithRow(g, req[r].size)
         /\ broken' = IF out = "unheard" THEN broken \cup {g} ELSE broken
         /\ mishaps' = Unsaid(out)
         /\ Goto(r, IF out = "done" THEN "add" ELSE "undo")
    /\ UNCHANGED <<object, meter, stored, writes, tmp, prices, month, leaked, stale, bounds>>

\* Mutant: a row that was not created leaves its object.
UndoNothing(r) ==
    /\ On(r, "undo") /\ End(r)
    /\ UNCHANGED <<guias, prices, month, history, bounds, faults>>

\* catch: the object is deleted, and a failure to delete it is ignored.
Undo(r) ==
    LET g == req[r].guia IN
    /\ On(r, "undo") /\ End(r)
    /\ \/ object' = WithoutObject(g) /\ UNCHANGED <<leaked, faults>>
       \/ Fault /\ UNCHANGED object /\ leaked' = leaked \cup {g}
    /\ UNCHANGED <<row, meter, stored, writes, tmp, prices, month, broken, stale, mishaps, bounds>>

AddStorage(r) ==
    /\ On(r, "add") /\ End(r)
    /\ meter' = [meter EXCEPT !.bytes = @ + req[r].size]
    /\ UNCHANGED <<row, object, stored, writes, tmp, prices, month, history, bounds, faults>>

----------------------------------------------------------------------------
(* GuiasService.remove *)

FindRow(r) ==
    LET g == req[r].guia IN
    /\ On(r, "find")
    /\ IF g \in Rows THEN req' = [req EXCEPT ![r].pc = "deleteObject", ![r].size = row[g]]
       ELSE End(r)
    /\ UNCHANGED <<guias, prices, month, history, bounds, faults>>

DeleteObject(r) ==
    LET g == req[r].guia IN
    /\ On(r, "deleteObject")
    /\ \E out \in Outcome :
         /\ Heard(out)
         /\ object' = IF out = "failed" THEN object ELSE WithoutObject(g)
         /\ broken' = IF out = "unheard" THEN broken \cup {g} ELSE broken
         /\ IF out = "done" THEN Goto(r, "deleteRow") ELSE End(r)
    /\ UNCHANGED <<row, meter, stored, writes, tmp, prices, month, leaked, stale, mishaps, bounds>>

\* A row another request deleted, and any failure, are answered 404.
DeleteRow(r) ==
    LET g == req[r].guia IN
    /\ On(r, "deleteRow")
    /\ \E out \in Outcome :
         /\ Heard(out)
         /\ row' = IF out = "failed" THEN row ELSE WithoutRow(g)
         /\ broken' = IF out = "failed" THEN broken \cup {g} ELSE broken
         /\ mishaps' = Unsaid(out)
         /\ IF out = "done" /\ g \in Rows THEN Goto(r, "subtract") ELSE End(r)
    /\ UNCHANGED <<object, meter, stored, writes, tmp, prices, month, leaked, stale, bounds>>

\* Mutant: the bytes of a removed guide stay on the meter.
SubtractNothing(r) ==
    /\ On(r, "subtract") /\ End(r)
    /\ UNCHANGED <<guias, prices, month, history, bounds, faults>>

\* Mutant: the meter may go below zero.
SubtractAll(r) ==
    /\ On(r, "subtract") /\ End(r)
    /\ meter' = [meter EXCEPT !.bytes = @ - req[r].size]
    /\ UNCHANGED <<row, object, stored, writes, tmp, prices, month, history, bounds, faults>>

RemoveStorage(r) ==
    /\ On(r, "subtract") /\ End(r)
    /\ meter' = [meter EXCEPT !.bytes = Max({0, @ - req[r].size})]
    /\ UNCHANGED <<row, object, stored, writes, tmp, prices, month, history, bounds, faults>>

----------------------------------------------------------------------------
(* GuiasService.openArchivo *)

\* Mutant: the last position is taken as past the end.
PositionsShort(first, last, size) ==
    IF first = None /\ last = None THEN 0..(size - 1)
    ELSE LET start == IF first = None THEN Max({0, size - last}) ELSE first
             end   == IF first = None \/ last = None THEN size - 1 ELSE last
         IN  IF (first = None /\ last = 0) \/ start >= size \/ start > end THEN {}
             ELSE start..(Min({end, size - 1}) - 1)

\* parseRangeHeader: the positions of bytes=first-last; none of them, 416.
Positions(first, last, size) ==
    IF first = None /\ last = None THEN 0..(size - 1)
    ELSE LET start == IF first = None THEN Max({0, size - last}) ELSE first
             end   == IF first = None \/ last = None THEN size - 1 ELSE last
         IN  IF (first = None /\ last = 0) \/ start >= size \/ start > end THEN {}
             ELSE start..Min({end, size - 1})

Open(r) ==
    LET q == req[r]
        range == Positions(q.first, q.last, row[q.guia])
    IN
    /\ On(r, "open")
    /\ IF q.guia \notin Rows \/ range = {} THEN End(r)
       ELSE req' = [req EXCEPT ![r] = [q EXCEPT !.pc = "get", !.size = row[q.guia], !.range = range]]
    /\ UNCHANGED <<guias, prices, month, history, bounds, faults>>

\* rollIfNeeded: the meter starts the month with no reads.
Rolled == IF meter.month = month THEN meter ELSE [meter EXCEPT !.month = month, !.reads = 0]

\* recordRead counts a read, and stores the count without anyone waiting for it.
RecordRead ==
    /\ meter' = [Rolled EXCEPT !.reads = @ + 1]
    /\ writes' = [writes EXCEPT ![month] = @ + 1]

\* A missing object is answered 503, and not counted.
Get(r) ==
    /\ On(r, "get") /\ End(r)
    /\ \/ req[r].guia \in object /\ RecordRead /\ UNCHANGED faults
       \/ req[r].guia \notin object /\ UNCHANGED <<meter, writes, faults>>
       \/ Fault /\ UNCHANGED <<meter, writes>>
    /\ UNCHANGED <<row, object, stored, tmp, prices, month, history, bounds>>

OneMore(m) == [stored EXCEPT ![m] = @ + 1]

IncrementReads(m) ==
    /\ writes[m] > 0
    /\ writes' = [writes EXCEPT ![m] = @ - 1]
    /\ \/ stored' = OneMore(m) /\ UNCHANGED <<mishaps, faults>>
       \/ Fault /\ UNCHANGED stored /\ mishaps' = mishaps \cup {"uncounted"}
    /\ UNCHANGED <<row, object, meter, tmp, prices, req, month, broken, leaked, stale, bounds>>

----------------------------------------------------------------------------
(* CommoditiesService *)

WithPrice(p, v) == [price EXCEPT ![p] = v]

\* A failure to store the price answers 500, with the price stored or not.
UpsertPrice(r) ==
    LET p == req[r].product IN
    /\ On(r, "upsert")
    /\ \E out \in Outcome :
         /\ Heard(out)
         /\ price' = IF out = "failed" THEN price ELSE WithPrice(p, req[r].price)
         /\ stale' = IF out = "unheard" THEN stale \cup {p} ELSE stale
         /\ IF out = "done" THEN Goto(r, "invalidate") ELSE End(r)
    /\ UNCHANGED <<guias, cache, month, broken, leaked, mishaps, bounds>>

Filling(p) == \E r \in Req : On(r, "fill") /\ req[r].product = p

\* Mutant: the cached price stays.
InvalidateNothing(r) ==
    /\ On(r, "invalidate") /\ End(r)
    /\ UNCHANGED <<guias, prices, month, history, bounds, faults>>

Invalidate(r) ==
    LET p == req[r].product IN
    /\ On(r, "invalidate") /\ End(r)
    /\ \/ /\ cache' = [cache EXCEPT ![p] = None]
          /\ stale' = IF Filling(p) THEN stale \cup {p} ELSE stale \ {p}
          /\ UNCHANGED faults
       \/ Fault /\ UNCHANGED cache /\ stale' = stale \cup {p}
    /\ UNCHANGED <<guias, price, month, broken, leaked, mishaps, bounds>>

Cached(p) == cache[p] # None

ReadPrice(r) ==
    /\ On(r, "cached")
    /\ \/ Cached(req[r].product) /\ End(r) /\ UNCHANGED faults
       \/ ~Cached(req[r].product) /\ Goto(r, "select") /\ UNCHANGED faults
       \/ Cached(req[r].product) /\ Goto(r, "select") /\ Fault
    /\ UNCHANGED <<guias, prices, month, history, bounds>>

FindPrice(r) ==
    LET now == price[req[r].product] IN
    /\ On(r, "select")
    /\ IF now = None THEN End(r)
       ELSE req' = [req EXCEPT ![r].pc = "fill", ![r].price = now]
    /\ UNCHANGED <<guias, prices, month, history, bounds, faults>>

FillCache(r) ==
    /\ On(r, "fill") /\ End(r)
    /\ \/ cache' = [cache EXCEPT ![req[r].product] = req[r].price] /\ UNCHANGED faults
       \/ Fault /\ UNCHANGED cache
    /\ UNCHANGED <<guias, price, month, history, bounds>>

----------------------------------------------------------------------------
(* The environment *)

Turn == turns < MaxTurns /\ turns' = turns + 1

CacheLapses(p) ==
    /\ cache[p] # None /\ Turn
    /\ cache' = [cache EXCEPT ![p] = None]
    /\ stale' = IF Filling(p) THEN stale ELSE stale \ {p}
    /\ UNCHANGED <<guias, price, req, month, broken, leaked, mishaps, mix, used, calls, faults>>

MonthEnds ==
    /\ "open" \in mix /\ Turn
    /\ month' = month + 1
    /\ UNCHANGED <<guias, prices, req, history, mix, used, calls, faults>>

\* A call of a removal or of a reading fails before anything is written.
CallFails(r) ==
    /\ req[r].pc \in {"find", "open", "select"}
    /\ Fault /\ End(r)
    /\ UNCHANGED <<guias, prices, month, history, bounds>>

\* onModuleInit hydrates the meter from the tables; what fails starts at zero.
Hydrated == {[bytes |-> Bytes, reads |-> stored[month], month |-> month]}
Failed   == {[bytes |-> b, reads |-> 0, month |-> month] : b \in {0, Bytes}}

CrashAndStart ==
    /\ Fault
    /\ req' = [r \in Req |-> Free] /\ writes' = [m \in Month |-> 0]
    /\ \/ meter' \in Hydrated /\ mishaps' = mishaps \cup {"crash"}
       \/ meter' \in Failed /\ mishaps' = mishaps \cup {"crash", "hydrate"}
    /\ LET at(pcs) == {req[r].guia : r \in {s \in Req : req[s].pc \in pcs}} IN
       /\ broken' = broken \cup at({"deleteRow"})
       /\ leaked' = leaked \cup at({"row", "undo"})
    /\ stale' = stale \cup {req[r].product : r \in {s \in Req : On(s, "invalidate")}}
    /\ UNCHANGED <<row, object, stored, tmp, prices, month, bounds>>

----------------------------------------------------------------------------
(* The requests, whole *)

Compress(r) == Mkdtemp(r) \/ Ffmpeg(r) \/ Rm(r)
Create(r)   == Compress(r) \/ Quota(r) \/ Put(r) \/ CreateRow(r) \/ Undo(r) \/ AddStorage(r)
Remove(r)   == FindRow(r) \/ DeleteObject(r) \/ DeleteRow(r) \/ RemoveStorage(r)
OpenArchivo(r) == Open(r) \/ Get(r)
Upsert(r)   == UpsertPrice(r) \/ Invalidate(r)
Lookup(r)   == ReadPrice(r) \/ FindPrice(r) \/ FillCache(r)

Next ==
    \/ Arrive \/ MonthEnds \/ CrashAndStart
    \/ \E r \in Req :
         Create(r) \/ Remove(r) \/ OpenArchivo(r) \/ Upsert(r) \/ Lookup(r) \/ CallFails(r)
    \/ \E m \in Month : IncrementReads(m)
    \/ \E p \in Product : CacheLapses(p)

Spec == Init /\ [][Next]_vars

----------------------------------------------------------------------------
(* Every variable has its type. *)
TypeOK ==
    /\ row \in [Guia -> Size \cup {None}] /\ object \subseteq Guia
    /\ meter \in [bytes: Nat, reads: Nat, month: Month]
    /\ stored \in [Month -> Nat] /\ writes \in [Month -> Nat] /\ tmp \in Nat
    /\ price \in [Product -> Price \cup {None}] /\ cache \in [Product -> Price \cup {None}]
    /\ req \in [Req -> Request] /\ month \in Month
    /\ broken \subseteq Guia /\ leaked \subseteq Guia /\ stale \subseteq Product
    /\ mishaps \subseteq {"crash", "hydrate", "uploads", "early", "unsaid", "rm", "uncounted"}
    /\ mix \in Mixes /\ used \in 0..MaxCalls /\ calls \in 0..MaxCalls
    /\ faults \in 0..MaxFaults /\ turns \in 0..MaxTurns

At(pcs) == {r \in Req : req[r].pc \in pcs}

(* Rows, objects and the disk agree.  A guide that is listed can be opened,  *)
(* unless a removal of it is under way, failed or was cut short, or its row  *)
(* came in spite of an error.  An object has its row, unless its upload is   *)
(* under way or left it behind: the PUT went through and its answer was      *)
(* lost, the process crashed before the row or before the object was deleted *)
(* again, or that deletion failed.  An audio leaves no directory behind,     *)
(* unless one could not be removed or the process crashed.                   *)
ObjectsMatchRows ==
    /\ Rows \subseteq object \cup broken \cup {req[r].guia : r \in At({"deleteRow"})}
    /\ object \subseteq Rows \cup leaked \cup {req[r].guia : r \in At({"row", "undo"})}
    /\ mishaps \cap {"crash", "rm"} = {} => tmp = Cardinality(At({"ffmpeg", "rm"}))

(* The meter counts the bytes of the rows but for the uploads and removals   *)
(* about to tell it, unless the hydration failed, an error hid what was done *)
(* to a row, or a guide was removed before its upload was counted; so what   *)
(* is stored keeps the quota as long as besides uploads do not overlap.  The *)
(* reads are those stored or about to be, through crashes and the turn of    *)
(* the month, unless the hydration or the storing of a read failed.          *)
StorageMetered ==
    LET toCome(pc) == Total([r \in Req |-> req[r].size], At({pc})) IN
    /\ mishaps \cap {"hydrate", "early", "unsaid"} = {} =>
          meter.bytes + toCome("add") = Bytes + toCome("subtract")
    /\ mishaps \cap {"hydrate", "early", "unsaid", "uploads"} = {} => Bytes <= Limit
    /\ mishaps \cap {"hydrate", "uncounted"} = {} =>
          meter.reads = stored[meter.month] + writes[meter.month]

(* A Range header is answered with the positions it asks for that the file   *)
(* has: the last n of bytes=-n, those of first..last, all of bytes=first-.   *)
RangeServed ==
    \A r \in At({"get"}) :
        LET q == req[r] IN
        q.range = {i \in 0..(q.size - 1) :
                     IF q.first = None
                     THEN q.last = None \/ (q.last # None /\ q.size - i <= q.last)
                     ELSE q.first <= i /\ (q.last = None \/ (q.last # None /\ i <= q.last))}

(* A cached price is the reported one, unless the report is about to         *)
(* invalidate it, a failure kept it, or a reader had read the table before   *)
(* the report and filled the cache after it was invalidated.                 *)
PriceFresh ==
    \A p \in Product :
        cache[p] \in {None, price[p]} \/ p \in stale
            \/ \E r \in At({"invalidate"}) : req[r].product = p
==============================================================================
