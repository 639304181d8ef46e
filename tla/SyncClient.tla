----------------------------- MODULE SyncClient -----------------------------
(***************************************************************************)
(* The offline queue of the mobile app: LocalStore (SQLite, survives the    *)
(* process), SyncEngine (one flush, a loop of POST /sync) and               *)
(* SyncController (when to flush, the backoff timer, the banner), against a *)
(* server whose batches are atomic; SyncServer has their detail.            *)
(*                                                                          *)
(* Dart runs one callback at a time: a step is the code between two awaits. *)
(* The radio, the timer, the user's writes, logins and the death of the app *)
(* interleave at every await.  Operations are numbered in the order the     *)
(* devices make them, which is also their clientTs; the content of a row is *)
(* the number of the write it shows, 0 when there is no row.                *)
(***************************************************************************)
EXTENDS Naturals, FiniteSets

CONSTANTS
    User,
    Entity,        \* entity ids of posts
    Owner,         \* Entity -> User: whose device creates it
    Rejectable,    \* operations the server answers "rejected" without a record
    BatchLimit,    \* syncOpsMax
    MaxRounds,     \* batches of one flush (32 in the engine)
    MaxOps,        \* bound: writes of all devices
    Faults,        \* ways a POST can fail: see Fault
    MaxFaults,     \* bound: failed POSTs
    MaxMoves,      \* bound: radio losses, logouts, resumes and notifications
    MaxKills,      \* bound: deaths of the app
    None

\* What a POST that is not answered 200 throws: NetworkException, 5xx or 429,
\* another 4xx, 401, or a FormatException for an unreadable 200.
Fault == {"network", "throttled", "client", "unauthorized", "garbled"}

Op    == 1..MaxOps
Write == 0..MaxOps                  \* what a row shows
Delay == 1..3                       \* syncRetryDelays: 5, 15 and 45 seconds
Verdict == [op : Op, status : {"applied", "conflict", "rejected"}, rec : Write]
Logged  == [by : User, verdict : Verdict]

ASSUME ConstantsAssumption ==
    /\ Owner \in [Entity -> User]
    /\ Rejectable \subseteq 1..MaxOps
    /\ BatchLimit \in Nat \ {0} /\ MaxRounds \in Nat \ {0}
    /\ MaxOps \in Nat /\ MaxFaults \in Nat /\ MaxMoves \in Nat /\ MaxKills \in Nat
    /\ Faults \subseteq Fault
    /\ None \notin User /\ None \notin Entity /\ None \notin Logged /\ None \notin Nat


VARIABLES
    \* SQLite
    pending,  \* pending_ops: the operations queued on the device
    local,    \* the local tables: Entity -> Write
    since,    \* sync_meta: User -> server time, or None
    \* the running app
    session,  \* AuthController.session: a user or None
    ctl,      \* SyncController
    asked,    \* the awaits of _refreshPending: Waiter -> waiting?, and for whose count
    eng,      \* SyncEngine.flush in progress
    \* the server
    srv,      \* log: Op -> verdict, row: Entity -> Write, upd, owner, time
    wire,     \* what is left of POSTs the device no longer waits for
    \* bookkeeping
    made,     \* Op -> the entity of an operation made so far, or None
    by,       \* Op -> the user who made it
    seen,     \* history: User -> [first, last] server times of the deltas read
    whose,    \* history: User -> the session whose response set `since`
    gaveUp,   \* history: the last flush ended without a retry
    spent     \* bounds

device == <<pending, local, since>>
vars == <<pending, local, since, session, ctl, asked, eng, srv, wire, made, by,
          seen, whose, gaveUp, spent>>

Waiter == {"write", "reconcile", "refresh", "flush"}

Quiet == [on |-> FALSE, who |-> None]
Ask(w, u) == [asked EXCEPT ![w] = [on |-> TRUE, who |-> u]]

Off == [pc |-> "idle", user |-> None, batch |-> {}, rounds |-> 0, pulled |-> FALSE,
        since |-> None, sender |-> None, todo |-> {}, at |-> 0, read |-> 0,
        results |-> {}, delta |-> [e \in Entity |-> 0], outcome |-> "ok"]

StartCtl(online) ==
    [online |-> online, flushing |-> FALSE, needs |-> FALSE, failed |-> FALSE,
     timer |-> 0, step |-> 1, count |-> 0, status |-> "offline"]

Init ==
    /\ pending = {} /\ local = [e \in Entity |-> 0] /\ since = [u \in User |-> None]
    /\ session = None /\ \E b \in BOOLEAN : ctl = StartCtl(b)
    /\ asked = [w \in Waiter |-> Quiet]
    /\ eng = Off
    /\ srv = [log |-> [o \in Op |-> None], row |-> [e \in Entity |-> 0],
              upd |-> [e \in Entity |-> 0], owner |-> [e \in Entity |-> None], time |-> 1]
    /\ wire = {}
    /\ made = [o \in Op |-> None] /\ by = [o \in Op |-> None]
    /\ seen = [u \in User |-> [first |-> 0, last |-> 0]]
    /\ whose = [u \in User |-> u]
    /\ gaveUp = FALSE
    /\ spent = [faults |-> 0, moves |-> 0, kills |-> 0]

NextOp  == Cardinality({o \in Op : made[o] # None}) + 1
Queue(u) == {o \in pending : by[o] = u}

server  == <<srv, wire>>
history == <<made, by, seen, whose>>

----------------------------------------------------------------------------
(* SyncController: its methods between two awaits, as functions of its state *)

Status(c) ==
    IF ~c.online THEN "offline"
    ELSE IF session # None /\ (c.flushing \/ c.timer # 0 \/ c.count > 0 \/ c.failed)
    THEN "syncing"
    ELSE "synced"


Publish(c)      == [c EXCEPT !.status = Status(c)]
CancelTimer(c)  == [c EXCEPT !.timer = 0]
ResetBackoff(c) == [c EXCEPT !.timer = 0, !.step = 1]

ScheduleRetry(c, capOnly) ==
    LET d    == CancelTimer(c)
        wait == IF capOnly THEN 3 ELSE d.step
    IN  IF ~d.online \/ session = None \/ (d.count = 0 /\ ~d.failed)
        THEN Publish(d)
        ELSE Publish([d EXCEPT !.timer = wait, !.step = IF wait < 3 THEN wait + 1 ELSE 3])

\* _flush up to its first await.
Flush(c) ==
    IF session = None THEN c
    ELSE IF ~c.online THEN Publish(ResetBackoff(c))
    ELSE IF c.flushing THEN [c EXCEPT !.needs = TRUE]
    ELSE Publish([CancelTimer(c) EXCEPT !.flushing = TRUE, !.needs = FALSE])

StartEngine == [Off EXCEPT !.pc = "peek", !.user = session]

\* The engine starts when the controller's flush does.
Became(c) ==
    /\ ctl' = c
    /\ IF c.flushing /\ ~ctl.flushing
       THEN eng' = StartEngine /\ gaveUp' = FALSE
       ELSE UNCHANGED <<eng, gaveUp>>

\* createPost (a new entity) or updatePost (a local row of this user), and the
\* first await of _write.  Row and queue entry are one SQLite transaction.
LocalWrite(e) ==
    /\ session # None /\ Owner[e] = session /\ ~asked["write"].on /\ NextOp \in Op
    /\ local[e] # 0 \/ \A o \in Op : made[o] # e
    /\ local' = [local EXCEPT ![e] = NextOp]
    /\ pending' = pending \cup {NextOp}
    /\ made' = [made EXCEPT ![NextOp] = e]
    /\ by' = [by EXCEPT ![NextOp] = session]
    /\ asked' = Ask("write", session)
    /\ UNCHANGED <<since, session, ctl, eng, server, seen, whose, gaveUp, spent>>

\* _refreshPending awaits the count of the user it was called for.  SQLite answers
\* in the order it is asked, as Dart resumes in it, so the count is that of the
\* moment the caller resumes.  Without a session it was set to 0 when called.
Recounted(w) == IF asked[w].who = None THEN ctl
                ELSE [ctl EXCEPT !.count = Cardinality(Queue(asked[w].who))]
Resumes(w) ==
    /\ asked[w].on
    /\ asked' = [asked EXCEPT ![w] = Quiet]
    /\ UNCHANGED <<device, session, server, history, spent>>

\* The rest of _write.
WriteResumes ==
    /\ Resumes("write")
    /\ LET c == Recounted("write") IN
       Became(IF c.online THEN Flush(ResetBackoff(c)) ELSE Publish(c))

\* The rest of _reconcile.
ReconcileResumes ==
    /\ Resumes("reconcile")
    /\ LET c == Recounted("reconcile") IN
       Became(IF c.online THEN Flush(c) ELSE Publish(ResetBackoff(c)))

\* The rest of _onNetwork(true) when the radio was already up.
RefreshResumes ==
    /\ Resumes("refresh")
    /\ Became(Publish(Recounted("refresh")))

TimerFires ==
    /\ ctl.timer # 0
    /\ Became(Flush(CancelTimer(ctl)))
    /\ UNCHANGED <<device, session, asked, server, history, spent>>

\* What calling _refreshPending does before its await.
Uncounted(c) == IF session = None THEN [c EXCEPT !.count = 0] ELSE c

Move == spent.moves < MaxMoves /\ spent' = [spent EXCEPT !.moves = @ + 1]

Resume ==
    /\ Move /\ ctl.online
    /\ Became(Flush(ResetBackoff(ctl)))
    /\ UNCHANGED <<device, session, asked, server, history>>

RadioDown ==
    /\ Move /\ ctl.online
    /\ Became(Publish(ResetBackoff([ctl EXCEPT !.online = FALSE])))
    /\ UNCHANGED <<device, session, asked, server, history>>

\* Mutant: the radio comes back and nothing is flushed.
RadioUpSilent ==
    /\ ~ctl.online
    /\ Became(Publish(ResetBackoff([ctl EXCEPT !.online = TRUE])))
    /\ UNCHANGED <<device, session, asked, server, history, spent>>

RadioUp ==
    /\ ~ctl.online
    /\ Became(Flush(ResetBackoff([ctl EXCEPT !.online = TRUE])))
    /\ UNCHANGED <<device, session, asked, server, history, spent>>

RadioStillUp ==
    /\ Move /\ ctl.online /\ ~asked["refresh"].on
    /\ asked' = Ask("refresh", session)
    /\ ctl' = Uncounted(ctl)
    /\ UNCHANGED <<device, session, eng, server, history, gaveUp>>

\* AuthController notifies; _reconcile runs up to its first await.
Login(u) ==
    /\ session = None /\ ~asked["reconcile"].on
    /\ session' = u
    /\ asked' = Ask("reconcile", u)
    /\ UNCHANGED <<device, ctl, eng, server, history, gaveUp, spent>>

\* AuthController notifies for another reason (a call it makes, an error it shows)
\* and _reconcile runs again.
AuthNotifies ==
    /\ Move /\ session # None /\ ~asked["reconcile"].on
    /\ asked' = Ask("reconcile", session)
    /\ UNCHANGED <<device, session, ctl, eng, server, history, gaveUp>>

\* _reconcile without a session runs to its end.
Logout ==
    /\ Move /\ session # None
    /\ session' = None
    /\ LET c == ResetBackoff([ctl EXCEPT !.count = 0, !.failed = FALSE]) IN
       ctl' = [c EXCEPT !.status = IF c.online THEN "synced" ELSE "offline"]
    /\ UNCHANGED <<device, asked, eng, server, history, gaveUp>>

\* What the server still has to do for a POST nobody waits for.
Abandon == wire' = wire \cup (IF eng.todo = {} THEN {}
                              ELSE {[todo |-> eng.todo, sender |-> eng.sender]})

\* The process dies; SQLite and the tokens survive, and _bootstrap reconciles.
Kill ==
    /\ spent.kills < MaxKills
    /\ spent' = [spent EXCEPT !.kills = @ + 1]
    /\ ctl' = StartCtl(ctl.online)
    /\ eng' = Off
    /\ asked' = [w \in Waiter |-> IF w = "reconcile" /\ session # None
                                  THEN [on |-> TRUE, who |-> session] ELSE Quiet]
    /\ Abandon
    /\ gaveUp' = FALSE
    /\ UNCHANGED <<device, session, srv, history>>

----------------------------------------------------------------------------
(* SyncEngine.flush *)

InEngine(pc) == eng.pc = pc
EngineOnly == UNCHANGED <<session, server, made, by, spent>>

\* The flush returns or throws: _flush (in its try or a catch) awaits a recount.
End(outcome) ==
    /\ eng' = [Off EXCEPT !.pc = "ended", !.outcome = outcome]
    /\ ctl' = Uncounted([ctl EXCEPT !.failed = @ \/ outcome # "ok"])
    /\ asked' = Ask("flush", session)
    /\ UNCHANGED gaveUp

\* The oldest operations of the queue, as many as fit.
Batch(u) == {o \in Queue(u) : Cardinality({p \in Queue(u) : p < o}) < BatchLimit}

Oldest(o, ops) == o \in ops /\ \A p \in ops : o <= p

\* peekPending, readSince and the tests at the head of the loop.
Peek ==
    /\ InEngine("peek")
    /\ LET u == eng.user
           b == Batch(u)
       IN  IF \/ eng.rounds + 1 > MaxRounds
              \/ b = {} /\ (since[u] = None \/ eng.pulled)
           THEN End("ok")
           ELSE /\ eng' = [eng EXCEPT !.pc = "send", !.rounds = @ + 1, !.batch = b,
                                      !.since = since[u]]
                /\ UNCHANGED <<ctl, asked, gaveUp>>
    /\ UNCHANGED <<device, seen, whose>> /\ EngineOnly

\* The token is read from the store when the POST leaves: it is the one of the
\* session of that moment, and without one the server answers 401.  The server
\* takes serverTime before it looks at the operations.
Send ==
    /\ InEngine("send")
    /\ IF session = None
       THEN End("unauthorized")
       ELSE /\ eng' = [eng EXCEPT !.pc = "wait", !.sender = session, !.todo = eng.batch,
                                  !.at = srv.time, !.results = {}]
            /\ UNCHANGED <<ctl, asked, gaveUp>>
    /\ UNCHANGED <<device, seen, whose>> /\ EngineOnly

\* The server's answer to operation o sent by u: the logged one when it has one.
Answer(o, u) ==
    LET e    == made[o]
        mine == srv.row[e] = 0 \/ srv.owner[e] = u
        R(status, rec) == [op |-> o, status |-> status, rec |-> rec]
    IN  IF srv.log[o] # None
        THEN IF srv.log[o].by = u THEN srv.log[o].verdict ELSE R("rejected", 0)
        ELSE IF o \in Rejectable \/ ~mine THEN R("rejected", 0)
        ELSE IF o > srv.row[e] THEN R("applied", o)
        ELSE R("conflict", srv.row[e])

\* SyncService.applyOne, in one step.
Settle(o, u) ==
    LET e == made[o]
        v == Answer(o, u)
        fresh   == srv.log[o] = None
        changes == fresh /\ v.status = "applied"
    IN  srv' = IF ~fresh THEN srv
               ELSE LET logged == [srv EXCEPT !.log[o] = [by |-> u, verdict |-> v]]
                    IN  IF ~changes THEN logged
                        ELSE [logged EXCEPT !.row[e] = o, !.owner[e] = u,
                                            !.upd[e] = srv.time + 1, !.time = srv.time + 1]

Serve ==
    /\ InEngine("wait")
    /\ \E o \in eng.todo :
         /\ Oldest(o, eng.todo)
         /\ Settle(o, eng.sender)
         /\ eng' = [eng EXCEPT !.todo = @ \ {o}, !.results = @ \cup {Answer(o, eng.sender)}]
    /\ UNCHANGED <<device, session, ctl, asked, wire, history, gaveUp, spent>>

\* SyncService.delta: nothing for a client without `since`.
Respond ==
    /\ InEngine("wait") /\ eng.todo = {}
    /\ eng' = [eng EXCEPT
          !.pc = "apply", !.read = srv.time,
          !.delta = [e \in Entity |->
              IF eng.since # None /\ srv.owner[e] = eng.sender /\ srv.upd[e] > eng.since
              THEN srv.row[e] ELSE 0]]
    /\ UNCHANGED <<device, session, ctl, asked, server, history, gaveUp, spent>>

Late(w) ==
    /\ \E o \in w.todo :
         /\ Oldest(o, w.todo)
         /\ Settle(o, w.sender)
         /\ wire' = (wire \ {w}) \cup (IF w.todo = {o} THEN {}
                                       ELSE {[w EXCEPT !.todo = @ \ {o}]})
    /\ UNCHANGED <<device, session, ctl, asked, eng, history, gaveUp, spent>>

\* The POST fails on the device; the server may or may not do the rest of it.
\* _flush catches everything but the FormatException of an unreadable answer.
Fail(kind) ==
    /\ InEngine("wait") /\ spent.faults < MaxFaults
    /\ spent' = [spent EXCEPT !.faults = @ + 1]
    /\ IF kind = "garbled"
       THEN /\ eng' = Off
            /\ ctl' = Publish([ctl EXCEPT !.flushing = FALSE])
            /\ gaveUp' = TRUE
            /\ UNCHANGED asked
       ELSE End(kind)
    /\ Abandon
    /\ UNCHANGED <<device, session, srv, history>>

\* _applyResults, one result: the record of the server, or the revert.
ApplyResult ==
    /\ InEngine("apply")
    /\ \E r \in eng.results :
         /\ \A q \in eng.results : r.op <= q.op
         /\ local' = IF r.rec # 0 \/ r.status = "rejected"
                     THEN [local EXCEPT ![made[r.op]] = r.rec] ELSE local
         /\ eng' = [eng EXCEPT !.results = @ \ {r}]
    /\ UNCHANGED <<pending, since, ctl, asked, seen, whose, gaveUp>> /\ EngineOnly

\* Mutant: the queue of the user is emptied, with what was enqueued meanwhile.
RemovePendingAll ==
    /\ InEngine("apply") /\ eng.results = {}
    /\ pending' = pending \ Queue(eng.user)
    /\ eng' = [eng EXCEPT !.pc = "delta"]
    /\ UNCHANGED <<local, since, ctl, asked, seen, whose, gaveUp>> /\ EngineOnly

\* removePending of the operations answered, which are those of the batch.
RemovePending ==
    /\ InEngine("apply") /\ eng.results = {}
    /\ pending' = pending \ eng.batch
    /\ eng' = [eng EXCEPT !.pc = "delta"]
    /\ UNCHANGED <<local, since, ctl, asked, seen, whose, gaveUp>> /\ EngineOnly

ApplyDelta ==
    /\ InEngine("delta")
    /\ local' = [e \in Entity |-> IF eng.delta[e] # 0 THEN eng.delta[e] ELSE local[e]]
    /\ eng' = [eng EXCEPT !.pc = "mark"]
    /\ UNCHANGED <<pending, since, ctl, asked, seen, whose, gaveUp>> /\ EngineOnly

\* Mutant: the mark is the time of writing it, not serverTime.
MarkNow ==
    /\ InEngine("mark")
    /\ since' = [since EXCEPT ![eng.user] = srv.time]
    /\ whose' = [whose EXCEPT ![eng.user] = eng.sender]
    /\ seen' = [seen EXCEPT ![eng.user] =
                    IF eng.since = None THEN [first |-> eng.at, last |-> eng.at]
                    ELSE [@ EXCEPT !.last = eng.read]]
    /\ IF eng.batch = {}
       THEN End("ok")
       ELSE eng' = [eng EXCEPT !.pc = "peek", !.pulled = TRUE] /\ UNCHANGED <<ctl, asked, gaveUp>>
    /\ UNCHANGED <<pending, local>> /\ EngineOnly

\* writeSince, and the test at the foot of the loop.
Mark ==
    /\ InEngine("mark")
    /\ since' = [since EXCEPT ![eng.user] = eng.at]
    /\ whose' = [whose EXCEPT ![eng.user] = eng.sender]
    /\ seen' = [seen EXCEPT ![eng.user] =
                    IF eng.since = None THEN [first |-> eng.at, last |-> eng.at]
                    ELSE [@ EXCEPT !.last = eng.read]]
    /\ IF eng.batch = {}
       THEN End("ok")
       ELSE eng' = [eng EXCEPT !.pc = "peek", !.pulled = TRUE] /\ UNCHANGED <<ctl, asked, gaveUp>>
    /\ UNCHANGED <<pending, local>> /\ EngineOnly

\* The rest of _flush when it does not loop: after the loop, in its catches, and
\* its finally.  _auth.session! throws when a reflush is due without a session.
Finish(c) ==
    LET ok   == [c EXCEPT !.failed = FALSE, !.step = 1]
        done == CASE eng.outcome = "ok" /\ c.needs /\ c.online -> c
                  [] eng.outcome = "ok" /\ ~(c.needs /\ c.online) ->
                        IF ok.online /\ ok.count > 0 THEN ScheduleRetry(ok, FALSE) ELSE ok
                  [] eng.outcome \in {"network", "throttled"} -> ScheduleRetry(c, FALSE)
                  [] eng.outcome = "client" -> ScheduleRetry(c, TRUE)
                  [] eng.outcome = "unauthorized" -> c
    IN  Publish([done EXCEPT !.flushing = FALSE])

FlushResumes ==
    /\ Resumes("flush")
    /\ LET c == Recounted("flush") IN
       IF eng.outcome = "ok" /\ c.needs /\ c.online /\ session # None
       THEN ctl' = [c EXCEPT !.needs = FALSE] /\ eng' = StartEngine
       ELSE ctl' = Finish(c) /\ eng' = Off
    /\ gaveUp' = (eng.outcome = "unauthorized")

\* Another device of the owner of e creates or edits it; its clock agrees with
\* this device's and its POST is served at once.
RemoteWrite(e) ==
    /\ NextOp \in Op
    /\ srv.row[e] # 0 \/ \A o \in Op : made[o] # e
    /\ srv.owner[e] \in {None, Owner[e]}
    /\ made' = [made EXCEPT ![NextOp] = e]
    /\ by' = [by EXCEPT ![NextOp] = Owner[e]]
    /\ srv' = [srv EXCEPT
          !.log[NextOp] = [by |-> Owner[e],
                           verdict |-> [op |-> NextOp, status |-> "applied", rec |-> NextOp]],
          !.row[e] = NextOp, !.owner[e] = Owner[e],
          !.upd[e] = srv.time + 1, !.time = srv.time + 1]
    /\ UNCHANGED <<device, session, ctl, asked, eng, wire, seen, whose, gaveUp, spent>>

Engine ==
    \/ Peek \/ Send \/ ApplyResult \/ RemovePending \/ ApplyDelta \/ Mark \/ FlushResumes

App ==
    \/ WriteResumes \/ ReconcileResumes \/ RefreshResumes
    \/ TimerFires

Environment ==
    \/ \E e \in Entity : LocalWrite(e) \/ RemoteWrite(e)
    \/ Resume \/ RadioDown \/ RadioUp \/ RadioStillUp
    \/ \E u \in User : Login(u)
    \/ AuthNotifies \/ Logout \/ Kill
    \/ \E kind \in Faults : Fail(kind)
    \/ \E w \in wire : Late(w)

Next == Engine \/ App \/ Serve \/ Respond \/ Environment

Spec == Init /\ [][Next]_vars

\* Dart's event loop runs every callback that is ready, a timer fires, and the
\* server answers a POST it received unless the POST fails; failures are
\* bounded by MaxFaults.  Nothing is assumed of the user or of the radio.
FairSpec ==
    /\ Spec
    /\ WF_vars(Engine) /\ WF_vars(TimerFires) /\ WF_vars(Serve \/ Respond)
    /\ WF_vars(WriteResumes) /\ WF_vars(ReconcileResumes) /\ WF_vars(RefreshResumes)

----------------------------------------------------------------------------
(* Properties *)

CtlType ==
    [online : BOOLEAN, flushing : BOOLEAN, needs : BOOLEAN, failed : BOOLEAN,
     timer : Delay \cup {0}, step : Delay, count : Nat,
     status : {"offline", "syncing", "synced"}]

EngType ==
    [pc : {"idle", "peek", "send", "wait", "apply", "delta", "mark", "ended"},
     user : User \cup {None}, batch : SUBSET Op, rounds : 0..MaxRounds,
     pulled : BOOLEAN, since : Nat \cup {None}, sender : User \cup {None},
     todo : SUBSET Op, at : Nat, read : Nat, results : SUBSET Verdict,
     delta : [Entity -> Write], outcome : {"ok"} \cup (Fault \ {"garbled"})]

SrvType ==
    [log : [Op -> Logged \cup {None}], row : [Entity -> Write], upd : [Entity -> Nat],
     owner : [Entity -> User \cup {None}], time : Nat]

\* The state of the device, of the POST in flight and of the server keep their
\* types across every await.
TypeOK ==
    /\ pending \subseteq Op /\ local \in [Entity -> Write]
    /\ since \in [User -> Nat \cup {None}]
    /\ session \in User \cup {None}
    /\ ctl \in CtlType /\ eng \in EngType /\ srv \in SrvType
    /\ asked \in [Waiter -> [on : BOOLEAN, who : User \cup {None}]]
    /\ \A w \in wire : w \in [todo : SUBSET Op, sender : User]
    /\ made \in [Op -> Entity \cup {None}] /\ by \in [Op -> User \cup {None}]
    /\ seen \in [User -> [first : Nat, last : Nat]] /\ whose \in [User -> User]
    /\ gaveUp \in BOOLEAN
    /\ spent \in [faults : 0..MaxFaults, moves : 0..MaxMoves, kills : 0..MaxKills]

\* No write is lost: an operation is in the queue of its device until the server
\* has a verdict for it, whatever is enqueued during a flush, however the POST
\* fails, wherever the app dies ("applied/conflict/rejected salen de la cola").
NoLostWrite ==
    \A o \in Op : made[o] # None => o \in pending \/ srv.log[o] # None

\* The retry timer never outlives the radio or the session, nor runs beside a
\* flush, though it is set after an await during which either may go ("radio none: se cancela el timer").
TimerOnlyWhenUseful == ctl.timer # 0 => ctl.online /\ session # None /\ ~ctl.flushing

\* At rest, a row the server changed after the first pull and up to the last one
\* is the row on the device, whatever the order of results, deltas and edits of
\* the flushes in between and wherever the app died.  An entity with a rejected
\* operation is RevertRestores' matter.
AtRest(u) == ~ctl.flushing /\ Queue(u) = {}

Accepted(e) == \A o \in Op : made[o] = e /\ srv.log[o] # None =>
                  srv.log[o].verdict.status # "rejected"

Converged ==
    \A u \in User, e \in Entity :
        /\ AtRest(u) /\ Owner[e] = u /\ Accepted(e)
        /\ seen[u].first < srv.upd[e] /\ srv.upd[e] <= seen[u].last
        => local[e] = srv.row[e]

\* A flush reaches the server with every operation: one that is queued leaves the
\* queue, unless its user leaves, the radio goes, or the flush gave up on a 401.
QueueDrains ==
    \A o \in Op :
        (o \in pending) ~> (o \notin pending \/ session # by[o] \/ ~ctl.online \/ gaveUp)

----------------------------------------------------------------------------
(* What the documentation says and the code does not keep: no run checks these, *)
(* TLC refutes each (see the README).                                           *)

\* What the documentation says of the banner: "Sincronizado (radio y cola vacia)".
\* A login while the flush of the previous session is in flight only asks for
\* another round and publishes nothing.
BannerTrue ==
    ctl.status = "synced" /\ session # None /\ (\A w \in Waiter : ~asked[w].on)
        => Queue(session) = {}

\* What the documentation says of a rejection without a record, "revierte el
\* optimista": the device then shows the row the server has.
RevertRestores ==
    \A o \in Op : srv.log[o] # None /\ srv.log[o].verdict.status = "rejected" =>
        \A e \in Entity : AtRest(Owner[e]) /\ made[o] = e => local[e] = srv.row[e]

\* "since = ultimo serverTime de ese usuario": the mark of a user comes from an
\* answer to that user.
SinceIsOwn == \A u \in User : whose[u] = u

============================================================================
