------------------------------- MODULE Notices -------------------------------
(***************************************************************************)
(* The inbox of the users and what fills it: NotificationService            *)
(* (backend/src/notifications) persists a notice, pushes it to the devices   *)
(* of its user and marks it sent; a login or a new device flushes what is    *)
(* pending; ClimaService.evaluateAlerts (backend/src/clima) fires the        *)
(* weather alerts from a job that may run twice at once.  Every call to the  *)
(* database, the cache or a provider is a step, and may fail; the process    *)
(* may crash between two of them.                                            *)
(*                                                                          *)
(* Abstractions: title, body and data are left out; ids are the order of     *)
(* arrival; an alert is a user's alert of one municipio; the weather is the  *)
(* kinds of alert it matches; a cooldown is over or not.                     *)
(***************************************************************************)
EXTENDS Naturals, FiniteSets, FiniteSetsExt

CONSTANTS
    User, DeviceId,
    Token,         \* FCM registration tokens
    Alert,         \* weather alerts, each of one user: AlertUser
    AlertUser,     \* Alert -> User
    Kind,          \* kinds of weather
    AlertKind,     \* Alert -> Kind
    Req,           \* request slots of the process
    Mixes,         \* bound: the kinds of requests a behaviour mixes
    MaxCalls,      \* bound: requests received
    MaxFaults,     \* bound: failed calls and crashes
    MaxTurns,      \* bound: changes of the weather, the cache, the cooldowns, the owners
    None

CallKind == {"send", "register", "login", "ack", "unregister", "job", "alert"}

ASSUME NoticesAssumption ==
    /\ AlertUser \in [Alert -> User] /\ AlertKind \in [Alert -> Kind]
    /\ Mixes \subseteq SUBSET CallKind
    /\ MaxCalls \in Nat /\ MaxFaults \in Nat /\ MaxTurns \in Nat
    /\ None \notin Token \cup Alert

Notice == 1..MaxCalls
Owner  == User \X DeviceId

VARIABLES
    inbox,     \* notifications: Notice -> [user, status], or None
    device,    \* device_tokens: Owner -> the token, or None
    alert,     \* weather_alerts: Alert -> [on, hot]: enabled, fired within the cooldown
    cache,     \* agrotech:clima: the kinds the cached weather matches, or None
    weather,   \* the provider: the kinds the weather matches
    req,       \* the requests in flight: Req -> record, see Free
    pushed,    \* history: <<notice, token>> -> pushes FCM accepted
    strays,    \* history: notices pushed to a token their user did not have
    fires,     \* history: Alert -> notices since the last time it was cold
    raced,     \* history: "flush", "job", "token": two of them overlapped
    mix, calls, faults, turns

tables  == <<inbox, device, alert, cache>>
history == <<pushed, strays, fires, raced>>
bounds  == <<mix, calls, turns>>
vars    == <<inbox, device, alert, cache, weather, req, pushed, strays, fires, raced,
             mix, calls, faults, turns>>

Status == {"PENDING", "SENT", "DELIVERED"}
Row    == [user: User, status: Status]
Watch  == [on: BOOLEAN, hot: BOOLEAN]
Pc     == {"free", "enqueue", "devices", "push", "stale", "mark", "deleteToken", "putToken",
           "flush", "ack", "unregister", "alerts", "cache", "fetch", "fire", "fired"}

ASSUME NoneAssumption == None \notin Row

(* A request: its arguments, the notices it has to dispatch, the tokens it    *)
(* has to push the oldest of them to, whether FCM accepted one, and the       *)
(* alerts of a job with what was read of them.                                *)
Request == [pc: Pc, user: User \cup {None}, dev: DeviceId \cup {None},
            token: Token \cup {None}, queue: SUBSET Notice, targets: SUBSET Token,
            ok: BOOLEAN, todo: SUBSET Alert, hot: SUBSET Alert, now: Alert \cup {None},
            seen: SUBSET Kind]
Free    == [pc |-> "free", user |-> None, dev |-> None, token |-> None, queue |-> {},
            targets |-> {}, ok |-> FALSE, todo |-> {}, hot |-> {}, now |-> None, seen |-> {}]

Init ==
    /\ inbox = [n \in Notice |-> None]
    /\ device = [o \in Owner |-> None]
    /\ alert = [a \in Alert |-> [on |-> TRUE, hot |-> FALSE]]
    /\ cache = None /\ weather \in SUBSET Kind
    /\ req = [r \in Req |-> Free]
    /\ pushed = [p \in Notice \X Token |-> 0] /\ strays = {}
    /\ fires = [a \in Alert |-> 0] /\ raced = {}
    /\ mix \in Mixes /\ calls = 0 /\ faults = 0 /\ turns = 0

----------------------------------------------------------------------------
(* Requests *)

On(r, pc)   == req[r].pc = pc
Goto(r, pc) == req' = [req EXCEPT ![r].pc = pc]
End(r)      == req' = [req EXCEPT ![r] = Free]
Fault       == faults < MaxFaults /\ faults' = faults + 1

InJob(q) == q.now # None \/ q.pc \in {"alerts", "cache", "fetch", "fire"}

\* Two requests that dispatch, two jobs, or two that touch the devices while one
\* dispatches, race.
Receive(kind, q) ==
    /\ kind \in mix /\ calls < MaxCalls
    /\ calls' = calls + 1
    /\ \E r \in Req : On(r, "free") /\ req' = [req EXCEPT ![r] = q]
    /\ raced' = raced
         \cup (IF \E r \in Req : ~On(r, "free") /\ kind \notin {"ack", "alert", "unregister"}
               THEN {"flush"} ELSE {})
         \cup (IF kind = "job" /\ (\E r \in Req : InJob(req[r])) THEN {"job"} ELSE {})
         \cup (IF \E r \in Req : ~On(r, "free") THEN {"token"} ELSE {})
    /\ UNCHANGED <<tables, weather, pushed, strays, fires, mix, faults, turns>>

Arrive ==
    \/ \E u \in User : Receive("send", [Free EXCEPT !.pc = "enqueue", !.user = u])
    \/ \E u \in User, d \in DeviceId, t \in Token :
         Receive("register", [Free EXCEPT !.pc = "deleteToken", !.user = u, !.dev = d, !.token = t])
    \/ \E u \in User : Receive("login", [Free EXCEPT !.pc = "flush", !.user = u])
    \/ \E u \in User : Receive("ack", [Free EXCEPT !.pc = "ack", !.user = u])
    \/ \E u \in User, d \in DeviceId :
         Receive("unregister", [Free EXCEPT !.pc = "unregister", !.user = u, !.dev = d])
    \/ Receive("job", [Free EXCEPT !.pc = "alerts"])

----------------------------------------------------------------------------
(* NotificationService.send and dispatch *)

\* The notice being dispatched is the oldest of those a request has to dispatch.
Current(q) == Min(q.queue)
Rest(q)    == {n \in q.queue : n # Current(q)}

\* The job goes on with its next alert, a flush with its next notice.
NextUp(q) ==
    IF q.now # None THEN [q EXCEPT !.pc = "fire", !.now = None, !.queue = {},
                                   !.targets = {}, !.ok = FALSE]
    ELSE IF Rest(q) # {} THEN [q EXCEPT !.pc = "devices", !.queue = Rest(q),
                                        !.targets = {}, !.ok = FALSE]
    ELSE Free

\* After a dispatch: a job emits to the socket and marks the alert.
Dispatched(q) == IF q.now # None THEN [q EXCEPT !.pc = "fired", !.targets = {}] ELSE NextUp(q)

Fresh == {n \in Notice : inbox[n] = None}

Queued(n, u) == [inbox EXCEPT ![n] = [user |-> u, status |-> "PENDING"]]

Enqueue(r) ==
    /\ On(r, "enqueue")
    /\ Fresh # {}
    /\ LET n == Min(Fresh) IN
       \/ /\ inbox' = Queued(n, req[r].user)
          /\ req' = [req EXCEPT ![r].pc = "devices", ![r].queue = {n}]
          /\ fires' = IF req[r].now = None THEN fires ELSE [fires EXCEPT ![req[r].now] = @ + 1]
          /\ UNCHANGED faults
       \/ /\ Fault /\ req' = [req EXCEPT ![r] = NextUp(@)]
          /\ UNCHANGED <<inbox, fires>>
    /\ UNCHANGED <<device, alert, cache, weather, pushed, strays, raced, bounds>>

TokensOf(u) == {t \in Token : \E d \in DeviceId : device[<<u, d>>] = t}

\* dispatch: a user without devices is left for later.
ListDevices(r) ==
    LET q == req[r]
        targets == TokensOf(inbox[Current(q)].user)
    IN
    /\ On(r, "devices")
    /\ req' = [req EXCEPT ![r] = IF targets = {} THEN Dispatched(q)
                                 ELSE [q EXCEPT !.pc = "push", !.targets = targets]]
    /\ UNCHANGED <<tables, weather, history, bounds, faults>>

\* What FCM answers: accepted, a token it does not know, or a failure.
FcmResult == {"ok", "unregistered", "unavailable"}

\* FcmClient.send for one of the devices.  They run at once; markSent waits for all.
Push(r) ==
    LET q == req[r]
        n == Current(q)
    IN
    /\ On(r, "push")
    /\ \E t \in q.targets, result \in FcmResult :
         LET ok   == q.ok \/ result = "ok"
             left == q.targets \ {t}
         IN
         /\ req' = [req EXCEPT ![r] =
              IF result = "unregistered" THEN [q EXCEPT !.pc = "stale", !.token = t]
              ELSE IF left = {} /\ ~ok THEN Dispatched(q)
              ELSE [q EXCEPT !.targets = left, !.ok = ok,
                             !.pc = IF left = {} THEN "mark" ELSE "push"]]
         /\ pushed' = IF result = "ok" THEN [pushed EXCEPT ![<<n, t>>] = @ + 1] ELSE pushed
         /\ strays' = IF result = "ok" /\ t \notin TokensOf(inbox[n].user)
                      THEN strays \cup {n} ELSE strays
         /\ IF result = "ok" THEN UNCHANGED faults ELSE Fault
    /\ UNCHANGED <<tables, weather, fires, raced, bounds>>

WithoutToken(t) == [o \in Owner |-> IF device[o] = t THEN None ELSE device[o]]

RemoveStale(r) ==
    LET q == req[r]
        left == q.targets \ {q.token}
    IN
    /\ On(r, "stale")
    /\ device' = WithoutToken(q.token)
    /\ req' = [req EXCEPT ![r] =
                 IF left = {} /\ ~q.ok THEN Dispatched([q EXCEPT !.token = None])
                 ELSE [q EXCEPT !.targets = left, !.token = None,
                                !.pc = IF left = {} THEN "mark" ELSE "push"]]
    /\ UNCHANGED <<inbox, alert, cache, weather, history, bounds, faults>>

\* Mutant: markSent does not ask that the notice is still PENDING.
MarkAnySent(r) ==
    /\ On(r, "mark")
    /\ inbox' = [inbox EXCEPT ![Current(req[r])].status = "SENT"]
    /\ req' = [req EXCEPT ![r] = Dispatched(@)]
    /\ UNCHANGED <<device, alert, cache, weather, history, bounds, faults>>

\* Mutant: markSent changes nothing.
MarkNothing(r) ==
    /\ On(r, "mark")
    /\ req' = [req EXCEPT ![r] = Dispatched(@)]
    /\ UNCHANGED <<tables, weather, history, bounds, faults>>

\* Mutant: the status is one the inbox does not list.
MarkPushed(r) ==
    /\ On(r, "mark")
    /\ inbox' = [inbox EXCEPT ![Current(req[r])].status = "PUSHED"]
    /\ req' = [req EXCEPT ![r] = Dispatched(@)]
    /\ UNCHANGED <<device, alert, cache, weather, history, bounds, faults>>

Sent(n) == IF inbox[n].status = "PENDING" THEN [inbox EXCEPT ![n].status = "SENT"] ELSE inbox

MarkSent(r) ==
    /\ On(r, "mark")
    /\ inbox' = Sent(Current(req[r]))
    /\ req' = [req EXCEPT ![r] = Dispatched(@)]
    /\ UNCHANGED <<device, alert, cache, weather, history, bounds, faults>>

----------------------------------------------------------------------------
(* registerDevice, unregisterDevice, onLogin, ack *)

\* Mutant: the token is not taken from whoever had it.
KeepToken(r) ==
    /\ On(r, "deleteToken")
    /\ Goto(r, "putToken")
    /\ UNCHANGED <<tables, weather, history, bounds, faults>>

\* DeviceTokenStore.upsert: the token leaves whoever has it, then is the device's.
DeleteToken(r) ==
    /\ On(r, "deleteToken")
    /\ device' = WithoutToken(req[r].token)
    /\ Goto(r, "putToken")
    /\ UNCHANGED <<inbox, alert, cache, weather, history, bounds, faults>>

WithToken(o, t) == [device EXCEPT ![o] = t]

\* Another request may have registered the token meanwhile: it is unique.
PutToken(r) ==
    LET q == req[r]
        o == <<q.user, q.dev>>
    IN
    /\ On(r, "putToken")
    /\ IF \E p \in Owner \ {o} : device[p] = q.token
       THEN End(r) /\ UNCHANGED device
       ELSE /\ device' = WithToken(o, q.token)
            /\ req' = [req EXCEPT ![r] = [q EXCEPT !.pc = "flush", !.token = None]]
    /\ UNCHANGED <<inbox, alert, cache, weather, history, bounds, faults>>

FilterInbox(u, statuses) ==
    {n \in Notice : inbox[n] # None /\ inbox[n].user = u /\ inbox[n].status \in statuses}

Pending(u) == FilterInbox(u, {"PENDING"})

\* flushPending: the pending notices in order, dispatched one after another.
Flush(r) ==
    LET rows == Pending(req[r].user) IN
    /\ On(r, "flush")
    /\ req' = [req EXCEPT ![r] = IF rows = {} THEN Free
                                 ELSE [@ EXCEPT !.pc = "devices", !.queue = rows]]
    /\ UNCHANGED <<tables, weather, history, bounds, faults>>

WithoutDevice(o) == [device EXCEPT ![o] = None]

Unregister(r) ==
    /\ On(r, "unregister")
    /\ device' = WithoutDevice(<<req[r].user, req[r].dev>>)
    /\ End(r)
    /\ UNCHANGED <<inbox, alert, cache, weather, history, bounds, faults>>

\* The notices pending() lists, sent ones too.
Unacked(u) == FilterInbox(u, {"PENDING", "SENT"})

\* Of the ids a user names, those that are the user's and not delivered yet.
Delivered(u, ids) ==
    [n \in Notice |-> IF n \in ids \cap Unacked(u) THEN [inbox[n] EXCEPT !.status = "DELIVERED"]
                      ELSE inbox[n]]

Ack(r) ==
    /\ On(r, "ack")
    /\ \E ids \in SUBSET Notice : inbox' = Delivered(req[r].user, ids)
    /\ End(r)
    /\ UNCHANGED <<device, alert, cache, weather, history, bounds, faults>>

----------------------------------------------------------------------------
(* ClimaService *)

Enabled == {a \in Alert : alert[a].on}

\* evaluateAlerts: the enabled alerts, with the time each last fired.
ListAlerts(r) ==
    /\ On(r, "alerts")
    /\ req' = [req EXCEPT ![r] = IF Enabled = {} THEN Free
                                 ELSE [@ EXCEPT !.pc = "cache", !.todo = Enabled,
                                                !.hot = {a \in Enabled : alert[a].hot}]]
    /\ UNCHANGED <<tables, weather, history, bounds, faults>>

\* get: the cached weather, or the provider's; a cache that fails is a miss.
ReadCache(r) ==
    /\ On(r, "cache")
    /\ \/ /\ cache # None
          /\ req' = [req EXCEPT ![r].pc = "fire", ![r].seen = cache] /\ UNCHANGED faults
       \/ cache = None /\ Goto(r, "fetch") /\ UNCHANGED faults
       \/ cache # None /\ Goto(r, "fetch") /\ Fault
    /\ UNCHANGED <<tables, weather, history, bounds>>

\* A provider that fails skips the alerts of the municipio; the cache may not be written.
Fetch(r) ==
    /\ On(r, "fetch")
    /\ \/ /\ cache' = weather
          /\ req' = [req EXCEPT ![r].pc = "fire", ![r].seen = weather] /\ UNCHANGED faults
       \/ /\ Fault /\ UNCHANGED cache
          /\ \/ req' = [req EXCEPT ![r].pc = "fire", ![r].seen = weather]
             \/ End(r)
    /\ UNCHANGED <<inbox, device, alert, weather, history, bounds>>

\* The weather, now or forecast, matches the alert.
MatchesAlert(kinds, a) == AlertKind[a] \in kinds

\* Mutant: when an alert last fired is not looked at.
FireAgain(r) ==
    LET q == req[r] IN
    /\ On(r, "fire")
    /\ IF q.todo = {} THEN End(r)
       ELSE \E a \in q.todo :
              req' = [req EXCEPT ![r] =
                        IF MatchesAlert(q.seen, a)
                        THEN [q EXCEPT !.pc = "enqueue", !.now = a, !.user = AlertUser[a],
                                       !.todo = @ \ {a}]
                        ELSE [q EXCEPT !.todo = @ \ {a}]]
    /\ UNCHANGED <<tables, weather, history, bounds, faults>>

\* An alert that matches the weather and did not fire within the cooldown is sent.
Fire(r) ==
    LET q == req[r] IN
    /\ On(r, "fire")
    /\ IF q.todo = {} THEN End(r)
       ELSE \E a \in q.todo :
              req' = [req EXCEPT ![r] =
                        IF MatchesAlert(q.seen, a) /\ a \notin q.hot
                        THEN [q EXCEPT !.pc = "enqueue", !.now = a, !.user = AlertUser[a],
                                       !.todo = @ \ {a}]
                        ELSE [q EXCEPT !.todo = @ \ {a}]]
    /\ UNCHANGED <<tables, weather, history, bounds, faults>>

WithWatch(a, w) == [alert EXCEPT ![a] = w]

FiredAt(a) == [alert EXCEPT ![a].hot = TRUE]

\* markFired; its failure is caught, and the alert fires again at the next job.
MarkFired(r) ==
    /\ On(r, "fired")
    /\ \/ alert' = FiredAt(req[r].now) /\ UNCHANGED faults
       \/ UNCHANGED alert /\ Fault
    /\ req' = [req EXCEPT ![r] = NextUp(@)]
    /\ UNCHANGED <<inbox, device, cache, weather, history, bounds>>

\* upsertAlert: the user turns an alert on or off.
UpsertAlert(a) ==
    /\ "alert" \in mix /\ calls < MaxCalls /\ calls' = calls + 1
    /\ \E b \in BOOLEAN : alert' = WithWatch(a, [alert[a] EXCEPT !.on = b])
    /\ UNCHANGED <<inbox, device, cache, weather, req, history, mix, faults, turns>>

----------------------------------------------------------------------------
(* The environment *)

Turn == turns < MaxTurns /\ turns' = turns + 1

Weather ==
    /\ "job" \in mix /\ Turn
    /\ weather' \in SUBSET Kind
    /\ UNCHANGED <<tables, req, history, mix, calls, faults>>

CacheLapses ==
    /\ cache # None /\ Turn
    /\ cache' = None
    /\ UNCHANGED <<inbox, device, alert, weather, req, history, mix, calls, faults>>

\* The cooldown of an alert passes.
CoolsDown(a) ==
    /\ alert[a].hot /\ Turn
    /\ alert' = [alert EXCEPT ![a].hot = FALSE]
    /\ fires' = [fires EXCEPT ![a] = 0]
    /\ UNCHANGED <<inbox, device, cache, weather, req, pushed, strays, raced, mix, calls, faults>>

\* A database call throws: a request answers 500, a job goes on with its next alert.
CallFails(r) ==
    /\ req[r].pc \in {"devices", "stale", "mark", "deleteToken", "putToken", "flush", "alerts"}
    /\ Fault
    /\ req' = [req EXCEPT ![r] = IF @.now # None THEN NextUp(@) ELSE Free]
    /\ UNCHANGED <<tables, weather, history, bounds>>

Crash ==
    /\ \E r \in Req : ~On(r, "free")
    /\ Fault
    /\ req' = [r \in Req |-> Free]
    /\ UNCHANGED <<tables, weather, history, bounds>>

----------------------------------------------------------------------------
Next ==
    \/ Arrive \/ Crash \/ Weather \/ CacheLapses
    \/ \E r \in Req :
         \/ Enqueue(r) \/ ListDevices(r) \/ Push(r) \/ RemoveStale(r) \/ MarkSent(r)
         \/ DeleteToken(r) \/ PutToken(r) \/ Flush(r) \/ Unregister(r) \/ Ack(r)
         \/ ListAlerts(r) \/ ReadCache(r) \/ Fetch(r) \/ Fire(r) \/ MarkFired(r)
         \/ CallFails(r)
    \/ \E a \in Alert : UpsertAlert(a) \/ CoolsDown(a)

Spec == Init /\ [][Next]_vars

----------------------------------------------------------------------------
(* Every variable has its type. *)
TypeOK ==
    /\ inbox \in [Notice -> Row \cup {None}]
    /\ device \in [Owner -> Token \cup {None}]
    /\ alert \in [Alert -> Watch]
    /\ cache = None \/ cache \in SUBSET Kind
    /\ weather \in SUBSET Kind
    /\ req \in [Req -> Request]
    /\ pushed \in [Notice \X Token -> Nat] /\ strays \subseteq Notice
    /\ fires \in [Alert -> Nat] /\ raced \subseteq {"flush", "job", "token"}
    /\ mix \in Mixes /\ calls \in 0..MaxCalls /\ faults \in 0..MaxFaults /\ turns \in 0..MaxTurns

(* A notice only goes forward: what its user acknowledged is not marked      *)
(* merely sent by a push that was under way.                                  *)
Rank(n) == IF inbox[n] = None THEN 0
           ELSE CASE inbox[n].status = "PENDING" -> 1 [] inbox[n].status = "SENT" -> 2
                  [] inbox[n].status = "DELIVERED" -> 3

OnlyForward == [][\A n \in Notice : Rank(n)' >= Rank(n)]_vars

(* A notice shown as sent was accepted by FCM for some device; and unless    *)
(* two dispatches overlapped or a call failed, no device gets it twice: a    *)
(* flush skips what was sent.                                                *)
PushedOnce ==
    /\ \A n \in Notice : inbox[n] # None /\ inbox[n].status = "SENT" =>
          \E t \in Token : pushed[<<n, t>>] > 0
    /\ faults = 0 /\ "flush" \notin raced =>
          \A n \in Notice, t \in Token : pushed[<<n, t>>] <= 1

(* Unless requests overlapped, a phone that changed hands is registered for  *)
(* its new user, never refused, and no notice is pushed to a device its user *)
(* no longer has.                                                            *)
ReachesItsUser ==
    "token" \notin raced =>
        /\ strays = {}
        /\ \A r \in Req : On(r, "putToken") =>
              \A o \in Owner : device[o] = req[r].token => o = <<req[r].user, req[r].dev>>

(* Unless two jobs overlapped or a call failed, an alert is sent at most     *)
(* once until its cooldown passes.                                           *)
FiresOnce ==
    faults = 0 /\ "job" \notin raced => \A a \in Alert : fires[a] <= 1
==============================================================================
