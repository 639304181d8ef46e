----------------------------- MODULE SyncServer -----------------------------
(***************************************************************************)
(* POST /sync of the backend (backend/src/sync/sync.service.ts).  Several   *)
(* requests run at once in one Node process; every `await` of apply,        *)
(* applyOne, the apply* handlers and persist is a step of its own, because  *)
(* no database transaction spans them.  The process may crash between two   *)
(* steps, a database call may throw, clients resend operations, and the     *)
(* REST endpoints write the same rows without touching the sync clocks.     *)
(*                                                                          *)
(* Abstractions: the content of a row is the operation that wrote it; a     *)
(* timestamp is a small natural number; the ids of profile, alerta and      *)
(* precio rows are left out (their unique key is the row's identity).       *)
(***************************************************************************)
EXTENDS Naturals, Sequences, FiniteSets, Functions

CONSTANTS
    User,          \* the `sub` of a session
    Juridica,      \* users whose token carries the role JURIDICA
    Verified,      \* users an administrator has verified
    Op,            \* opIds: one per queued write of some device
    OpKind,        \* Op -> Kind, the `entity` of the operation
    OpId,          \* Op -> Id, the `entityId` the device generated
    OpTarget,      \* Op -> what the payload names: the post of a conversation, the
                   \* conversation of a message, the key of an alert or a price
    OpTs,          \* Op -> 1.., the device clock of the write
    Senders,       \* Op -> SUBSET User, the sessions that may carry it
    BadTs,         \* operations whose clientTs does not parse
    BadPayload,    \* operations whose payload does not validate
    Id,            \* entity ids: posts, conversations and messages
    Target,        \* producto/region pairs, municipio/kind pairs, and Id
    Req,           \* request slots of the process
    Skew,          \* LWW_SKEW_MS
    MaxTime,       \* bound: last instant of the server's clock
    MaxBatch,      \* bound: operations of a batch (SYNC_OPS_MAX)
    MaxSends,      \* bound: times one operation is sent
    MaxReceived,   \* bound: requests received
    MaxCrashes,    \* bound: crashes of the process
    MaxFails,      \* bound: database or inbox calls that throw
    MaxRests,      \* bound: writes through the REST endpoints
    MaxDeletes,    \* bound: posts deleted through the REST endpoint
    NoUser, NoOp, None, Rest

LwwKind == {"post", "profile", "alerta", "precio"}
Kind    == LwwKind \cup {"conversation", "message"}

ASSUME ConstantsAssumption ==
    /\ Juridica \subseteq User /\ Verified \subseteq User
    /\ OpKind \in [Op -> Kind]
    /\ OpId \in [Op -> Id]
    /\ OpTarget \in [Op -> Target]
    /\ \A o \in Op : OpKind[o] \in {"conversation", "message"} => OpTarget[o] \in Id
    /\ OpTs \in [Op -> Nat \ {0}]
    /\ Senders \in [Op -> SUBSET User]
    /\ BadTs \subseteq Op /\ BadPayload \subseteq Op
    /\ Id \subseteq Target
    /\ Skew \in Nat /\ MaxTime \in Nat /\ MaxBatch \in Nat
    /\ MaxSends \in Nat /\ MaxReceived \in Nat /\ MaxCrashes \in Nat /\ MaxFails \in Nat
    /\ MaxRests \in Nat /\ MaxDeletes \in Nat
    /\ NoUser \notin User /\ NoOp \notin Op /\ Rest \notin Op

(***************************************************************************)
(* A device gives every message a fresh entityId (idGen of the sync engine), *)
(* so two operations never carry the same message.                          *)
(***************************************************************************)
ASSUME FreshMessageIds ==
    \A o, p \in Op : /\ OpKind[o] = "message" /\ OpKind[p] = "message"
                     /\ OpId[o] = OpId[p]
                     => o = p

\* So it does with a conversation.
ASSUME FreshConversationIds ==
    \A o, p \in Op : /\ OpKind[o] = "conversation" /\ OpKind[p] = "conversation"
                     /\ OpId[o] = OpId[p]
                     => o = p

ASSUME FinitelyManyRequests == IsFiniteSet(Req)

----------------------------------------------------------------------------
(* Last-write-wins.  A clock of 0 is a sync_clocks row that does not exist. *)

\* Mutant: the decision leaves its own name, which is no status of an operation.
DecideLwwUnmapped(clientTs, serverTs, now) ==
    IF clientTs > now + Skew THEN "reject_clock"
    ELSE IF serverTs = 0 \/ clientTs > serverTs THEN "apply"
    ELSE "conflict"

\* Mutant: the clock of the row is not compared.
DecideLwwBlind(clientTs, serverTs, now) ==
    IF clientTs > now + Skew THEN "rejected" ELSE "apply"

DecideLww(clientTs, serverTs, now) ==
    IF clientTs > now + Skew THEN "rejected"
    ELSE IF serverTs = 0 \/ clientTs > serverTs THEN "apply"
    ELSE "conflict"

(* The row an operation of a user is about, which is also its clock key. *)
PostKey(i) == [kind |-> "post", owner |-> NoUser, target |-> i]

KeyOf(o, u) ==
    CASE OpKind[o] = "post"    -> PostKey(OpId[o])
      [] OpKind[o] = "profile" -> [kind |-> "profile", owner |-> u, target |-> None]
      [] OpKind[o] = "alerta"  -> [kind |-> "alerta", owner |-> u, target |-> OpTarget[o]]
      [] OpKind[o] = "precio"  -> [kind |-> "precio", owner |-> NoUser, target |-> OpTarget[o]]

\* The keys that some operation or some post can name: the domain of the rows.
LwwOp  == {o \in Op : OpKind[o] \in LwwKind}
Keys   == {PostKey(i) : i \in Id} \cup UNION {{KeyOf(o, u) : u \in User} : o \in LwwOp}

----------------------------------------------------------------------------
VARIABLES
    log,      \* sync_ops: Op -> the persisted outcome, or None
    row,      \* the LWW tables: Keys -> [owner, by], or None
    clock,    \* sync_clocks.lastWriteAt: Keys -> Nat, 0 when there is no row
    conv,     \* conversations: Id -> [post, initiator, peer], or None
    msg,      \* messages: Id -> [conv, sender], or None
    notified, \* Id -> notifications enqueued for the message
    req,      \* the requests in flight: Req -> record, see Idle
    now,      \* the server's clock
    written,  \* history: operations whose row write took effect
    answers,  \* history: Op -> outcomes a 200 response told its sender
    sends,    \* Op -> times a client has sent it
    spent     \* requests, crashes, failures and REST writes so far

store == <<log, row, clock, conv, msg, notified>>
vars  == <<log, row, clock, conv, msg, notified, req, now, written, answers, sends, spent>>

Status == {"applied", "conflict", "rejected"}
Ref    == Op \cup {NoOp, Rest}

\* What an operation answers: its status, the entity it names, the version of
\* the row it shows (`record`).
Result == [status: Status, ref: Id, rec: Ref]
Entry  == [user: User, res: Result]
Row    == [owner: User, by: Op \cup {Rest}]
Conv   == [post: Id, initiator: User, peer: User]
Msg    == [conv: Id, sender: User]

ASSUME NoneIsNoValue == None \notin Entry \cup Row \cup Conv \cup Msg

Pc == {"idle", "find", "read", "clock", "own", "write", "stamp", "save", "refind",
       "post", "pair", "create", "raced", "member", "add", "notify", "delta"}

Rejected(o) == [status |-> "rejected", ref |-> OpId[o], rec |-> NoOp]
Applied(o, i) == [status |-> "applied", ref |-> i, rec |-> o]

(* A request slot: the session, the batch still to do, the outcomes so far, *)
(* the row read by the handler, the outcome to persist, and whether the      *)
(* persist in progress is the one outside applyOne's try block.              *)
Request == [pc: Pc, user: User \cup {NoUser}, at: Nat, todo: Seq(Op),
            done: SUBSET (Op \X Result), found: Row \cup {None},
            peer: User \cup {NoUser}, out: Result \cup {None}, last: BOOLEAN]

Slot(p, u, t, ops, done) ==
    [pc |-> p, user |-> u, at |-> t, todo |-> ops, done |-> done,
     found |-> None, peer |-> NoUser, out |-> None, last |-> FALSE]

Idle == Slot("idle", NoUser, 0, << >>, {})

Init ==
    /\ log = [o \in Op |-> None]
    /\ row = [k \in Keys |-> None]
    /\ clock = [k \in Keys |-> 0]
    /\ conv = [i \in Id |-> None]
    /\ msg = [i \in Id |-> None]
    /\ notified = [i \in Id |-> 0]
    /\ req = [r \in Req |-> Idle]
    /\ now = 0
    /\ written = {}
    /\ answers = [o \in Op |-> {}]
    /\ sends = [o \in Op |-> 0]
    /\ spent = [received |-> 0, crashes |-> 0, fails |-> 0, rests |-> 0, deletes |-> 0]

\* The operation, user and key a request is working on.
Cur(r)   == Head(req[r].todo)
Sub(r)   == req[r].user
KeyAt(r) == KeyOf(Cur(r), Sub(r))
At(r, p) == req[r].pc = p

Goto(r, p)    == req' = [req EXCEPT ![r].pc = p]
Finish(r, x)  == req' = [req EXCEPT ![r].pc = "save", ![r].out = x]
\* An exception inside the try block of applyOne.
Caught(r)     == req' = [req EXCEPT ![r].pc = "save", ![r].out = Rejected(Cur(r)),
                                    ![r].last = TRUE]
\* An exception outside it: the request answers 500 and its outcomes are lost.
Abort(r)      == req' = [req EXCEPT ![r] = Idle]
\* applyOne returns x and apply takes the next operation of the batch.
Return(r, x)  ==
    LET next == IF Len(req[r].todo) > 1 THEN "find" ELSE "delta" IN
    req' = [req EXCEPT ![r] = Slot(next, Sub(r), req[r].at, Tail(req[r].todo),
                                   req[r].done \cup {<<Cur(r), x>>})]

----------------------------------------------------------------------------
(* Requests and applyOne *)

others == <<now, written, answers, sends, spent>>

\* apply: a client (or its retry) posts a batch; `now` is read once for all of it.
Receive(r, u, ops) ==
    /\ At(r, "idle")
    /\ spent.received < MaxReceived /\ spent' = [spent EXCEPT !.received = @ + 1]
    /\ \A o \in Range(ops) : u \in Senders[o] /\ sends[o] < MaxSends
    /\ req' = [req EXCEPT ![r] = Slot("find", u, now, ops, {})]
    /\ sends' = [o \in Op |-> IF o \in Range(ops) THEN sends[o] + 1 ELSE sends[o]]
    /\ UNCHANGED <<store, now, written, answers>>

\* parsePayload: the DTO of the entity accepts the payload.
Parsed(o) == o \notin BadPayload

\* dispatch, up to the first await of the handler.
Dispatch(r) ==
    IF \/ ~Parsed(Cur(r))
       \/ OpKind[Cur(r)] = "precio" /\ Sub(r) \notin Juridica
    THEN Finish(r, Rejected(Cur(r)))
    ELSE Goto(r, "read")

\* Mutant: a known opId is refused instead of replayed.
FindOpRefusing(r) ==
    /\ At(r, "find")
    /\ IF log[Cur(r)] # None THEN Abort(r)
       ELSE IF Cur(r) \in BadTs THEN Caught(r)
       ELSE Dispatch(r)
    /\ UNCHANGED <<store, others>>

\* A known opId is replayed to its user, refused to anybody else.
Replay(o, u) == IF log[o].user = u THEN log[o].res ELSE Rejected(o)

FindOp(r) ==
    /\ At(r, "find")
    /\ LET o == Cur(r) IN
       IF log[o] # None
       THEN Return(r, Replay(o, Sub(r)))
       ELSE IF o \in BadTs THEN Caught(r)
       ELSE Dispatch(r)
    /\ UNCHANGED <<store, others>>

----------------------------------------------------------------------------
(* The handlers of the last-write-wins entities *)

\* An update keeps the author of the post; reportedBy of a price is overwritten.
Written(k, u, o) ==
    [owner |-> IF k.kind = "post" /\ row[k] # None THEN row[k].owner ELSE u, by |-> o]

Upserted(k, u, o) == [row EXCEPT ![k] = Written(k, u, o)]

Read(r) ==
    /\ At(r, "read") /\ OpKind[Cur(r)] \in LwwKind
    /\ LET found == row[KeyAt(r)] IN
       IF OpKind[Cur(r)] = "post" /\ found # None /\ found.owner # Sub(r)
       THEN Finish(r, Rejected(Cur(r)))
       ELSE req' = [req EXCEPT ![r].pc = "clock", ![r].found = found]
    /\ UNCHANGED <<store, others>>

\* The record of an answer: the version of the row the handler read.
Version(found) == IF found = None THEN NoOp ELSE found.by

\* Mutant: the answer to a lost write carries no record.
DecideSilent(r) ==
    /\ At(r, "clock")
    /\ LET o == Cur(r)  d == DecideLww(OpTs[o], clock[KeyAt(r)], req[r].at) IN
       IF d # "apply" THEN Finish(r, [Rejected(o) EXCEPT !.status = d])
       ELSE Goto(r, "write")
    /\ UNCHANGED <<store, others>>

\* decideLww: on "rejected" and "conflict" the record is the row read BEFORE.
Decide(r) ==
    /\ At(r, "clock")
    /\ LET o     == Cur(r)
           d     == DecideLww(OpTs[o], clock[KeyAt(r)], req[r].at)
           found == req[r].found
       IN CASE d # "apply" -> Finish(r, [status |-> d, ref |-> OpId[o],
                                rec |-> Version(found)])
            [] d = "apply" /\ OpKind[o] = "post" /\ found # None -> Goto(r, "own")
            [] OTHER -> Goto(r, "write")
    /\ UNCHANGED <<store, others>>

\* updateOwn reads the post again and re-checks its author.
Own(r) ==
    /\ At(r, "own")
    /\ LET current == row[KeyAt(r)] IN
       IF current # None /\ current.owner = Sub(r)
       THEN Goto(r, "write") ELSE Finish(r, Rejected(Cur(r)))
    /\ UNCHANGED <<store, others>>

\* Mutant: a post is created by an upsert on its id.
CanWriteUpsert(r) ==
    KeyAt(r).kind = "precio" => Sub(r) \in Juridica \cap Verified

\* Whether the write of the handler succeeds: create needs a free id, update a
\* row, commodities.upsert a verified juridica; the other upserts always can.
CanWrite(r) ==
    LET k == KeyAt(r) IN
    CASE k.kind = "post"   -> (row[k] = None) = (req[r].found = None)
      [] k.kind = "precio" -> Sub(r) \in Juridica \cap Verified
      [] OTHER             -> TRUE

\* A post that is gone by the time updateOwn writes it is an answer of its own, and
\* every other refusal an exception.
Write(r) ==
    /\ At(r, "write")
    /\ IF CanWrite(r)
       THEN /\ row' = Upserted(KeyAt(r), Sub(r), Cur(r))
            /\ written' = written \cup {Cur(r)}
            /\ Goto(r, "stamp")
       ELSE /\ IF KeyAt(r).kind = "post" /\ req[r].found # None
               THEN Finish(r, Rejected(Cur(r))) ELSE Caught(r)
            /\ UNCHANGED <<row, written>>
    /\ UNCHANGED <<log, clock, conv, msg, notified, now, answers, sends, spent>>

\* setClock is an unconditional upsert.
Stamped(k, ts) == [clock EXCEPT ![k] = ts]

Stamp(r) ==
    /\ At(r, "stamp")
    /\ clock' = Stamped(KeyAt(r), OpTs[Cur(r)])
    /\ Finish(r, Applied(Cur(r), OpId[Cur(r)]))
    /\ UNCHANGED <<log, row, conv, msg, notified, others>>

----------------------------------------------------------------------------
(* applyConversation and ConversationsService.start *)

Participants(c) == {c.initiator, c.peer}
PostOf(r) == OpTarget[Cur(r)]
\* The conversations of a post with an initiator: a unique index keeps one.
Pair(i, u) == {c \in Id : conv[c] # None /\ conv[c].post = i /\ conv[c].initiator = u}

ReadConversation(r) ==
    /\ At(r, "read") /\ OpKind[Cur(r)] = "conversation"
    /\ LET o == Cur(r)  byId == conv[OpId[o]] IN
       IF byId = None THEN Goto(r, "post")
       ELSE IF Sub(r) \in Participants(byId) THEN Finish(r, Applied(o, OpId[o]))
       ELSE Finish(r, Rejected(o))
    /\ UNCHANGED <<store, others>>

StartPost(r) ==
    /\ At(r, "post")
    /\ LET post == row[PostKey(PostOf(r))] IN
       IF post = None \/ post.owner = Sub(r) THEN Caught(r)
       ELSE req' = [req EXCEPT ![r].pc = "pair", ![r].peer = post.owner]
    /\ UNCHANGED <<store, others>>

StartFind(r) ==
    /\ At(r, "pair")
    /\ LET pair == Pair(PostOf(r), Sub(r)) IN
       \/ /\ pair = {} /\ Goto(r, "create")
       \/ \E c \in pair : Finish(r, Applied(Cur(r), c))
    /\ UNCHANGED <<store, others>>

\* Mutant: the unique index on (postId, initiatorId) is missing.
StartCreateTwice(r) ==
    /\ At(r, "create")
    /\ LET i == OpId[Cur(r)] IN
       IF conv[i] # None \/ row[PostKey(PostOf(r))] = None
       THEN Caught(r) /\ UNCHANGED <<conv, written>>
       ELSE /\ conv' = [conv EXCEPT ![i] = [post |-> PostOf(r), initiator |-> Sub(r),
                                            peer |-> req[r].peer]]
            /\ written' = written \cup {Cur(r)}
            /\ Finish(r, Applied(Cur(r), i))
    /\ UNCHANGED <<log, row, clock, msg, notified, now, answers, sends, spent>>

\* create: unique on the id and on (postId, initiatorId); foreign key to the post.
Duplicate(i, post, u) == conv[i] # None \/ Pair(post, u) # {}

Created(i, post, u, peer) ==
    [conv EXCEPT ![i] = [post |-> post, initiator |-> u, peer |-> peer]]

StartCreate(r) ==
    /\ At(r, "create")
    /\ LET i == OpId[Cur(r)] IN
       IF Duplicate(i, PostOf(r), Sub(r))
       THEN Goto(r, "raced") /\ UNCHANGED <<conv, written>>
       ELSE IF row[PostKey(PostOf(r))] = None
       THEN Caught(r) /\ UNCHANGED <<conv, written>>
       ELSE /\ conv' = Created(i, PostOf(r), Sub(r), req[r].peer)
            /\ written' = written \cup {Cur(r)}
            /\ Finish(r, Applied(Cur(r), i))
    /\ UNCHANGED <<log, row, clock, msg, notified, now, answers, sends, spent>>

StartRaced(r) ==
    /\ At(r, "raced")
    /\ LET pair == Pair(PostOf(r), Sub(r)) IN
       \/ /\ pair = {} /\ Caught(r)
       \/ \E c \in pair : Finish(r, Applied(Cur(r), c))
    /\ UNCHANGED <<store, others>>

----------------------------------------------------------------------------
(* applyMessage and ConversationsService.sendMessage *)

ConvOf(r) == OpTarget[Cur(r)]

ReadMessage(r) ==
    /\ At(r, "read") /\ OpKind[Cur(r)] = "message"
    /\ LET o == Cur(r)  old == msg[OpId[o]] IN
       IF old = None THEN Goto(r, "member")
       ELSE IF old.sender = Sub(r) THEN Finish(r, Applied(o, OpId[o]))
       ELSE Finish(r, Rejected(o))
    /\ UNCHANGED <<store, others>>

\* requireParticipant
Member(r) ==
    /\ At(r, "member")
    /\ IF conv[ConvOf(r)] # None /\ Sub(r) \in Participants(conv[ConvOf(r)])
       THEN Goto(r, "add") ELSE Caught(r)
    /\ UNCHANGED <<store, others>>

\* Mutant: a message is upserted by its id.
AddMessageAgain(r) ==
    /\ At(r, "add")
    /\ IF conv[ConvOf(r)] = None
       THEN Caught(r) /\ UNCHANGED <<msg, written>>
       ELSE /\ msg' = [msg EXCEPT ![OpId[Cur(r)]] = [conv |-> ConvOf(r), sender |-> Sub(r)]]
            /\ written' = written \cup {Cur(r)}
            /\ Goto(r, "notify")
    /\ UNCHANGED <<log, row, clock, conv, notified, now, answers, sends, spent>>

\* addMessage: primary key on the id, foreign key to the conversation.
Added(i, c, u) == [msg EXCEPT ![i] = [conv |-> c, sender |-> u]]

AddMessage(r) ==
    /\ At(r, "add")
    /\ LET i == OpId[Cur(r)] IN
       IF msg[i] # None \/ conv[ConvOf(r)] = None
       THEN Caught(r) /\ UNCHANGED <<msg, written>>
       ELSE /\ msg' = Added(i, ConvOf(r), Sub(r))
            /\ written' = written \cup {Cur(r)}
            /\ Goto(r, "notify")
    /\ UNCHANGED <<log, row, clock, conv, notified, now, answers, sends, spent>>

\* notifications.send, the last await of sendMessage.
Notify(r) ==
    /\ At(r, "notify")
    /\ notified' = [notified EXCEPT ![OpId[Cur(r)]] = @ + 1]
    /\ Finish(r, Applied(Cur(r), OpId[Cur(r)]))
    /\ UNCHANGED <<log, row, clock, conv, msg, others>>

----------------------------------------------------------------------------
(* persist, and the end of apply *)

\* saveOp: opId is unique, a second create throws.
Logged(o, u, x) == [log EXCEPT ![o] = [user |-> u, res |-> x]]

Save(r) ==
    /\ At(r, "save")
    /\ IF log[Cur(r)] = None
       THEN /\ log' = Logged(Cur(r), Sub(r), req[r].out)
            /\ Return(r, req[r].out)
       ELSE Goto(r, "refind") /\ UNCHANGED log
    /\ UNCHANGED <<row, clock, conv, msg, notified, others>>

\* After a failed saveOp: the outcome somebody else persisted, else an Error,
\* which the catch block of applyOne turns into a second persist.
Throw(r)  == IF req[r].last THEN Abort(r) ELSE Caught(r)
\* Mutant: the loser of a race on opId answers what it computed itself.
RefindOwn(r) ==
    /\ At(r, "refind")
    /\ IF log[Cur(r)] # None THEN Return(r, req[r].out) ELSE Throw(r)
    /\ UNCHANGED <<store, others>>

Refind(r) ==
    /\ At(r, "refind")
    /\ IF log[Cur(r)] # None THEN Return(r, log[Cur(r)].res) ELSE Throw(r)
    /\ UNCHANGED <<store, others>>

\* The delta is read and the 200 response leaves.
Reply(r) ==
    /\ At(r, "delta")
    /\ answers' = [o \in Op |-> answers[o] \cup
                     {d[2] : d \in {e \in req[r].done : e[1] = o}}]
    /\ Abort(r)
    /\ UNCHANGED <<store, now, written, sends, spent>>

----------------------------------------------------------------------------
(* Failures, the REST endpoints and time *)

\* The call a request awaits throws: inside the try block of applyOne, in
\* persist, or outside both (findOp, the delta).
Fail(r) ==
    /\ ~At(r, "idle") /\ spent.fails < MaxFails
    /\ CASE req[r].pc \in {"find", "delta"} -> Abort(r)
         [] At(r, "save")   -> Goto(r, "refind")
         [] At(r, "refind") -> Throw(r)
         [] OTHER           -> Caught(r)
    /\ spent' = [spent EXCEPT !.fails = @ + 1]
    /\ UNCHANGED <<store, now, written, answers, sends>>

\* The process dies and restarts: the requests in flight are gone.
Crash ==
    /\ spent.crashes < MaxCrashes
    /\ req' = [r \in Req |-> Idle]
    /\ spent' = [spent EXCEPT !.crashes = @ + 1]
    /\ UNCHANGED <<store, now, written, answers, sends>>

\* POST/PATCH /posts, PUT /profiles/me, POST /alertas, POST /commodities/precios:
\* the row changes, its sync clock does not.
RestWrite(k, u) ==
    /\ spent.rests < MaxRests /\ spent' = [spent EXCEPT !.rests = @ + 1]
    /\ CASE k.kind = "post"   -> row[k] # None => row[k].owner = u
         [] k.kind = "precio" -> u \in Juridica \cap Verified
         [] OTHER             -> k.owner = u
    /\ row' = Upserted(k, u, Rest)
    /\ UNCHANGED <<log, clock, conv, msg, notified, req, now, written, answers, sends>>

\* DELETE /posts/:id: the database deletes its conversations and their messages.
RestDelete(i, u) ==
    /\ spent.deletes < MaxDeletes /\ spent' = [spent EXCEPT !.deletes = @ + 1]
    /\ row[PostKey(i)] # None /\ row[PostKey(i)].owner = u
    /\ row' = [row EXCEPT ![PostKey(i)] = None]
    /\ conv' = [c \in Id |-> IF conv[c] # None /\ conv[c].post = i THEN None ELSE conv[c]]
    /\ msg' = [m \in Id |-> IF msg[m] # None /\ conv'[msg[m].conv] = None
                            THEN None ELSE msg[m]]
    /\ UNCHANGED <<log, clock, notified, req, now, written, answers, sends>>

Tick ==
    /\ now < MaxTime /\ now' = now + 1
    /\ UNCHANGED <<store, req, written, answers, sends, spent>>

----------------------------------------------------------------------------
(* The handlers, whole: each operation runs the one of its entity. *)
Of(r, kind) == req[r].todo # << >> /\ OpKind[Cur(r)] = kind
Lww(r)      == Read(r) \/ Decide(r) \/ Write(r) \/ Stamp(r)

ApplyPost(r)    == Of(r, "post") /\ (Lww(r) \/ Own(r))
ApplyProfile(r) == Of(r, "profile") /\ Lww(r)
ApplyAlerta(r)  == Of(r, "alerta") /\ Lww(r)
ApplyPrecio(r)  == Of(r, "precio") /\ Lww(r)
ApplyConversation(r) ==
    ReadConversation(r) \/ StartPost(r) \/ StartFind(r) \/ StartCreate(r) \/ StartRaced(r)
ApplyMessage(r) == ReadMessage(r) \/ Member(r) \/ AddMessage(r) \/ Notify(r)

Handler(r) ==
    \/ FindOp(r) \/ Save(r) \/ Refind(r) \/ Reply(r)
    \/ ApplyPost(r) \/ ApplyProfile(r) \/ ApplyAlerta(r) \/ ApplyPrecio(r)
    \/ ApplyConversation(r) \/ ApplyMessage(r)

\* The batches a client can post: the order of a batch is the order of its ops.
Batches == UNION {{s \in [1..n -> Op] : \A i, j \in 1..n : s[i] = s[j] => i = j} :
                    n \in 1..MaxBatch}

Environment ==
    \/ \E r \in Req, u \in User, ops \in Batches : Receive(r, u, ops)
    \/ \E r \in Req : Fail(r)
    \/ Crash
    \/ \E k \in Keys, u \in User : RestWrite(k, u)
    \/ \E i \in Id, u \in User : RestDelete(i, u)
    \/ Tick

Next == Environment \/ \E r \in Req : Handler(r)

Spec == Init /\ [][Next]_vars

\* Node's event loop resumes every await; a client resends an operation until it
\* has an answer.
Resend(o) == /\ answers[o] = {} /\ \A r \in Req : o \notin Range(req[r].todo)
             /\ \E r \in Req, u \in User : Receive(r, u, <<o>>)

FairSpec == Spec /\ \A r \in Req : WF_vars(Handler(r))
                 /\ \A o \in Op : WF_vars(Resend(o))

----------------------------------------------------------------------------
(* Properties *)

\* Every variable holds values of the program's types.
TypeOK ==
    /\ log \in [Op -> Entry \cup {None}]
    /\ row \in [Keys -> Row \cup {None}]
    /\ clock \in [Keys -> Nat]
    /\ conv \in [Id -> Conv \cup {None}]
    /\ msg \in [Id -> Msg \cup {None}]
    /\ notified \in [Id -> Nat]
    /\ req \in [Req -> Request]
    /\ now \in Nat
    /\ written \subseteq Op
    /\ answers \in [Op -> SUBSET Result]
    /\ sends \in [Op -> Nat]
    /\ spent \in [received : Nat, crashes : Nat, fails : Nat, rests : Nat, deletes : Nat]

\* Every 200 response a session ever gets for an operation carries the outcome in
\* sync_ops, through retries of a request in flight, races on opId, failing
\* writes and crashes (applyOne, persist): two responses never disagree.  Only a
\* session that did not write the operation hears something else, "Forbidden".
OneAnswer ==
    \A o \in Op : \A x \in answers[o] :
        /\ log[o] # None
        /\ x = log[o].res \/ (x = Rejected(o) /\ \E u \in Senders[o] : u # log[o].user)

\* An operation on a last-write-wins row, and a message, is recorded "applied"
\* only after its write took effect: no handler reports ahead of the database.
AppliedWasWritten ==
    \A o \in Op : /\ OpKind[o] # "conversation"
                  /\ log[o] # None
                  /\ log[o].res.status = "applied"
                  => o \in written

\* A stamp never runs ahead of its write: the instant in sync_clocks is that of
\* an operation that did write the row, so no write loses against nothing, even
\* after a crash between the two awaits.
ClockNamesAWrite ==
    \A k \in Keys : clock[k] # 0 =>
        \E o \in written \cap LwwOp : /\ OpTs[o] = clock[k]
                                      /\ \E u \in Senders[o] : KeyOf(o, u) = k

\* While no post is deleted, only operations of its author rewrite a post, whoever
\* else creates one of that id in the same instant.  (A post deleted and created
\* anew under the same id between updateOwn's check and its update is not spared.)
PostKeepsAuthor ==
    spent.deletes = 0 => \A i \in Id : LET p == row[PostKey(i)] IN
        (p # None /\ p.by # Rest) => p.owner \in Senders[p.by]

\* The peer of a message hears of it at most once, however often and however
\* concurrently the operation is retried, through crashes between the insert, the
\* notification and the log (sendMessage, persist).  Only the deletion of a post,
\* which takes its messages along, lets a retry store and tell one of them again.
NotifiedAtMostOnce == \A i \in Id : notified[i] <= 1 + spent.deletes

\* While no post is deleted, operations that open a conversation of one user about
\* one post of another all answer the same conversation: devices that race to open it
\* agree, though each generated an entityId of its own.
Opened(o) == /\ OpKind[o] = "conversation"
             /\ log[o] # None /\ log[o].res.status = "applied"

Anothers(i, u) == row[PostKey(i)] # None /\ row[PostKey(i)].owner # u

ConversationsConverge ==
    spent.deletes = 0 => \A o, p \in Op :
        /\ Opened(o) /\ Opened(p) /\ OpTarget[o] = OpTarget[p]
        /\ log[o].user = log[p].user /\ Anothers(OpTarget[o], log[o].user)
        => log[o].res.ref = log[p].res.ref

\* The operations a key has settled, by the key they were about.
Settled(k) == {o \in LwwOp : log[o] # None /\ KeyOf(o, log[o].user) = k
                              /\ log[o].res.status # "rejected"}

Quiet == \A r \in Req : req[r].pc = "idle"

\* Last write wins: once no request is in flight, a row holds the write with the
\* greatest clientTs among all that were answered "applied" or "conflict".
NewestWins ==
    Quiet => \A k \in Keys : \A o \in Settled(k) :
        (row[k] # None /\ row[k].by # Rest) => OpTs[row[k].by] >= OpTs[o]

\* An operation answered "conflict" or "rejected" left no trace in the database, and
\* a "conflict" carries a version that is at least as new.
LosersYield ==
    \A o \in Op : (log[o] # None /\ log[o].res.status # "applied") =>
        /\ o \notin written
        /\ log[o].res.status = "conflict" =>
              log[o].res.rec \in Op /\ OpTs[log[o].res.rec] >= OpTs[o]

\* An operation a client keeps resending is answered, through the crashes and
\* failures of the requests that carried it.
SentIsAnswered == \A o \in Op : (sends[o] > 0) ~> (answers[o] # {})

\* What the sessions see of all this is a ledger (OpLedger): an operation is
\* decided once and for good, by one of the requests that carry it, "applied" only
\* after its write, and every 200 response repeats the decision, through races on
\* opId, failing calls between the write and the log, crashes and retries.
Ledger == INSTANCE OpLedger WITH
    Refusal <- [o \in Op |-> Rejected(o)],
    Success <- {x \in Result : x.status = "applied"},
    Joining <- {o \in Op : OpKind[o] = "conversation"}

KeepsTheLedger == Ledger!Spec

============================================================================
