------------------------------- MODULE Session -------------------------------
(***************************************************************************)
(* The sessions of one user: the refresh tokens the backend keeps in its    *)
(* key-value store (backend/src/auth/tokens/token.service.ts, called by     *)
(* auth.service.ts), and the devices that hold them                         *)
(* (mobile/lib/auth/session_client.dart, auth_controller.dart,              *)
(* auth_api.dart).  A device runs its screens and a background               *)
(* synchronisation at once over one secure storage; the server runs several *)
(* requests at once, and every call to the key-value store is a step.        *)
(*                                                                          *)
(* Abstractions: a token is the number of its issue; the access token is    *)
(* left out but for its expiry, which may be noticed at any call; the six    *)
(* keys of the secure storage are one register, which is what a reader of    *)
(* the refresh key sees of them; reading the storage and posting what was    *)
(* read is one step, since the request may be delayed on its way.            *)
(***************************************************************************)
EXTENDS Naturals, FiniteSets

CONSTANTS
    Device,        \* the user's devices
    Syncing,       \* bound: those that synchronise in the background as well
    Req,           \* request slots of the server
    Juridica,      \* whether the user's role is JURIDICA
    MaxToken,      \* bound: refresh tokens ever issued
    MaxFaults      \* bound: answers lost, apps killed, crashes, failed calls of the
                   \* key-value store, keys that expire, changes of users.verified

ASSUME SessionAssumption ==
    /\ Syncing \subseteq Device /\ Juridica \in BOOLEAN /\ IsFiniteSet(Req)
    /\ MaxToken \in Nat /\ MaxFaults \in Nat

Token   == 1..MaxToken
NoToken == 0
Thread  == (Device \X {"ui"}) \cup (Syncing \X {"sync"})
Nobody  == <<>>

VARIABLES
    rec,       \* agrotech:refresh:{hash}: the tokens that can be exchanged
    sess,      \* agrotech:refresh-session:{sub}: the one a login replaces, or NoToken
    minted,    \* tokens issued so far
    verified,  \* users.verified
    req,       \* the requests in flight: Req -> record, see Free
    store,     \* secure storage: Device -> the refresh token held, or NoToken
    phase,     \* AuthController.phase of each device
    thr,       \* Thread -> where it is, see Rest
    flight,    \* SessionClient._refreshing: Device -> the thread refreshing, or Nobody
    mishaps,   \* history: "cut", requests of the user overlapped or one was cut short;
               \* "lost", a device may hold a token the server no longer exchanges;
               \* "late", a device's storage was written by a call a logout overtook
    faults     \* faults so far

server == <<rec, sess, minted>>
device == <<store, phase, thr, flight>>
vars   == <<rec, sess, minted, verified, req, store, phase, thr, flight, mishaps, faults>>

Phase    == {"bootstrapping", "guest", "pendingJuridica", "signedIn"}
Mishap   == {"cut", "lost", "late"}
ServerPc == {"free", "auth", "take", "user", "prev", "drop", "record", "index",
             "revoke", "current", "unindex", "answer"}
ThreadPc == {"idle", "fresh", "turn", "wait", "rotating", "store", "clear", "send",
             "latest", "back", "giveup", "entering", "save", "load", "leaving", "wipe"}

(* A request: what it was sent with, the session it found, the token it made *)
(* and the thread that waits for its answer.                                *)
Request == [pc: ServerPc, kind: {"login", "refresh", "logout"}, tok: Token \cup {NoToken},
            prev: Token \cup {NoToken}, new: Token \cup {NoToken},
            ok: BOOLEAN, from: Thread \cup {Nobody}]
Free    == [pc |-> "free", kind |-> "login", tok |-> NoToken, prev |-> NoToken,
            new |-> NoToken, ok |-> FALSE, from |-> Nobody]

(* A thread: the token it carries, whether a 401 may still be retried, and   *)
(* whether its refresh precedes the call or answers a 401.                   *)
Local == [pc: ThreadPc, tok: Token \cup {NoToken}, retry: BOOLEAN, due: {"before", "after"}]
At0(p, t) == [pc |-> p, tok |-> t, retry |-> TRUE, due |-> "before"]
Rest      == At0("idle", NoToken)

Dev(p) == p[1]
Busy   == {r \in Req : req[r].pc # "free"}

Init ==
    /\ rec = {} /\ sess = NoToken /\ minted = 0
    /\ verified = TRUE
    /\ req = [r \in Req |-> Free]
    /\ store = [d \in Device |-> NoToken]
    /\ phase = [d \in Device |-> "bootstrapping"]
    /\ thr = [p \in Thread |-> Rest]
    /\ flight = [d \in Device |-> Nobody]
    /\ mishaps = {}
    /\ faults = 0

----------------------------------------------------------------------------
(* The server *)

On(r, pc)   == req[r].pc = pc
Step(r, pc) == req' = [req EXCEPT ![r].pc = pc]
Reply(r, b) == req' = [req EXCEPT ![r] = [@ EXCEPT !.pc = "answer", !.ok = b,
                                                  !.tok = NoToken, !.prev = NoToken]]

\* A thread posts a request: a slot takes it, unless the bound on tokens is reached.
Post(p, kind, t, pc) ==
    \E r \in Req :
        /\ On(r, "free")
        /\ kind = "logout"
           \/ minted + Cardinality({s \in Busy : req[s].kind # "logout"}) < MaxToken
        /\ req' = [req EXCEPT ![r] =
                     [Free EXCEPT !.pc = pc, !.kind = kind, !.tok = t, !.from = p]]

Overlaps == IF Busy = {} THEN {} ELSE {"cut"}

\* verifyOtp, loginJuridica, loginAdmin: the provider and the users table decide.
Auth(r) ==
    /\ On(r, "auth")
    /\ \/ ~(Juridica /\ ~verified) /\ Step(r, "prev")
       \/ Reply(r, FALSE)
    /\ UNCHANGED <<server, verified, device, mishaps, faults>>

\* refresh: GETDEL takes the token; only the caller that took it goes on.
Take(r) ==
    /\ On(r, "take")
    /\ rec' = rec \ {req[r].tok}
    /\ IF req[r].tok \in rec THEN Step(r, "user") ELSE Reply(r, FALSE)
    /\ UNCHANGED <<sess, minted, verified, device, mishaps, faults>>

CanRefresh == Juridica => verified

CheckUser(r) ==
    /\ On(r, "user")
    /\ IF CanRefresh THEN Step(r, "prev") ELSE Reply(r, FALSE)
    /\ UNCHANGED <<server, verified, device, mishaps, faults>>

\* issue: the previous session is read, its token dropped, then the new token and the
\* session that names it are stored, each by a call of its own.
Previous(r) ==
    /\ On(r, "prev")
    /\ req' = [req EXCEPT ![r].pc = IF sess = NoToken THEN "record" ELSE "drop",
                          ![r].prev = sess]
    /\ UNCHANGED <<server, verified, device, mishaps, faults>>

\* Mutant: the previous token is left alive.
DropNothing(r) ==
    /\ On(r, "drop")
    /\ Step(r, "record")
    /\ UNCHANGED <<server, verified, device, mishaps, faults>>

Drop(r) ==
    /\ On(r, "drop")
    /\ rec' = rec \ {req[r].prev}
    /\ Step(r, "record")
    /\ UNCHANGED <<sess, minted, verified, device, mishaps, faults>>

Record(r) ==
    /\ On(r, "record")
    /\ minted' = minted + 1
    /\ rec' = rec \cup {minted'}
    /\ req' = [req EXCEPT ![r].pc = "index", ![r].new = minted']
    /\ UNCHANGED <<sess, verified, device, mishaps, faults>>

Index(r) ==
    /\ On(r, "index")
    /\ sess' = req[r].new
    /\ Reply(r, TRUE)
    /\ UNCHANGED <<rec, minted, verified, device, mishaps, faults>>

\* Mutant: logout only forgets the session, the token stays exchangeable.
RevokeIndexOnly(r) ==
    /\ On(r, "revoke")
    /\ IF req[r].tok \in rec THEN Step(r, "current") ELSE Reply(r, TRUE)
    /\ UNCHANGED <<server, verified, device, mishaps, faults>>

\* logout: the token goes first, the session only if it still names that token.
Revoke(r) ==
    /\ On(r, "revoke")
    /\ rec' = rec \ {req[r].tok}
    /\ IF req[r].tok \in rec THEN Step(r, "current") ELSE Reply(r, TRUE)
    /\ UNCHANGED <<sess, minted, verified, device, mishaps, faults>>

Current(r) ==
    /\ On(r, "current")
    /\ IF sess = req[r].tok THEN Step(r, "unindex") ELSE Reply(r, TRUE)
    /\ UNCHANGED <<server, verified, device, mishaps, faults>>

Unindex(r) ==
    /\ On(r, "unindex")
    /\ sess' = NoToken
    /\ Reply(r, TRUE)
    /\ UNCHANGED <<rec, minted, verified, device, mishaps, faults>>

(* What an answer is to the thread that waited for it. *)
Answered(p, q) ==
    CASE q.kind = "logout"  -> [thr[p] EXCEPT !.pc = "wipe"]
      [] q.kind = "refresh" -> IF q.ok THEN [thr[p] EXCEPT !.pc = "store", !.tok = q.new]
                               ELSE [thr[p] EXCEPT !.pc = "clear"]
      [] q.kind = "login"   -> IF q.ok THEN At0("save", q.new) ELSE Rest

Answer(r) ==
    LET p == req[r].from IN
    /\ On(r, "answer")
    /\ req' = [req EXCEPT ![r] = Free]
    /\ IF p = Nobody THEN UNCHANGED <<thr, phase>>
       ELSE /\ thr' = [thr EXCEPT ![p] = Answered(p, req[r])]
            /\ \/ UNCHANGED phase
               \/ /\ req[r].kind = "login" /\ ~req[r].ok /\ Juridica
                  /\ phase' = [phase EXCEPT ![Dev(p)] = "pendingJuridica"]
    /\ UNCHANGED <<server, verified, store, flight, mishaps, faults>>

----------------------------------------------------------------------------
(* SessionClient: an authenticated call *)

In(p, pc)   == thr[p].pc = pc
Go(p, pc)   == thr' = [thr EXCEPT ![p].pc = pc]
Release(p)  == flight' = [flight EXCEPT ![Dev(p)] = Nobody]

\* The call ends: the synchronisation is over, restore() goes on with its outcome.
EndCall(p, outcome) ==
    LET d == Dev(p) IN
    IF p[2] = "sync" THEN thr' = [thr EXCEPT ![p] = Rest] /\ UNCHANGED phase
    ELSE /\ thr' = [thr EXCEPT ![p] = CASE outcome = "ok"  -> At0("latest", NoToken)
                                        [] outcome = "net" -> Rest
                                        [] outcome = "api" -> At0("giveup", NoToken)]
         /\ phase' = IF outcome = "net" THEN [phase EXCEPT ![d] = "signedIn"] ELSE phase

\* refresh() returned: what comes next in _send.
Refreshed(p, b) ==
    CASE thr[p].due = "before"      -> /\ thr' = [thr EXCEPT ![p].pc = "send", ![p].tok = NoToken]
                                       /\ UNCHANGED phase
      [] thr[p].due = "after" /\ b  -> /\ thr' = [thr EXCEPT ![p] =
                                                    [At0("fresh", NoToken) EXCEPT !.retry = FALSE]]
                                       /\ UNCHANGED phase
      [] thr[p].due = "after" /\ ~b -> EndCall(p, "api")

\* The screens, or the background synchronisation when a session is stored.
SyncStart(p) ==
    /\ p[2] = "sync" /\ In(p, "idle") /\ store[Dev(p)] # NoToken
    /\ thr' = [thr EXCEPT ![p] = At0("fresh", NoToken)]
    /\ UNCHANGED <<server, verified, req, store, phase, flight, mishaps, faults>>

\* ensureFreshAccess: the access token may be about to expire.
Fresh(p) ==
    /\ In(p, "fresh")
    /\ \/ Go(p, "send")
       \/ /\ store[Dev(p)] # NoToken
          /\ thr' = [thr EXCEPT ![p].pc = "turn", ![p].due = "before"]
    /\ UNCHANGED <<server, verified, req, store, phase, flight, mishaps, faults>>

\* refresh(): the first caller posts the token stored, the others wait for it.
Turn(p) ==
    LET d == Dev(p) IN
    /\ In(p, "turn")
    /\ \/ /\ flight[d] # Nobody
          /\ Go(p, "wait")
          /\ UNCHANGED <<req, flight, phase, mishaps>>
       \/ /\ flight[d] = Nobody /\ store[d] # NoToken
          /\ flight' = [flight EXCEPT ![d] = p]
          /\ Post(p, "refresh", store[d], "take")
          /\ mishaps' = mishaps \cup Overlaps
          /\ Go(p, "rotating")
          /\ UNCHANGED phase
       \/ /\ flight[d] = Nobody /\ store[d] = NoToken
          /\ Refreshed(p, FALSE)
          /\ UNCHANGED <<req, flight, mishaps>>
    /\ UNCHANGED <<server, verified, store, faults>>

Wait(p) ==
    /\ In(p, "wait") /\ flight[Dev(p)] = Nobody
    /\ Refreshed(p, store[Dev(p)] # NoToken)
    /\ UNCHANGED <<server, verified, req, store, flight, mishaps, faults>>

\* Mutant: only the access token of the answer is written.
StoreAccess(p) ==
    /\ In(p, "store")
    /\ Release(p)
    /\ Refreshed(p, TRUE)
    /\ UNCHANGED <<server, verified, req, store, mishaps, faults>>

\* A 200 is persisted, anything else clears the storage.
Store(p) ==
    /\ In(p, "store")
    /\ store' = [store EXCEPT ![Dev(p)] = thr[p].tok]
    /\ Release(p)
    /\ Refreshed(p, TRUE)
    /\ UNCHANGED <<server, verified, req, mishaps, faults>>

Clear(p) ==
    /\ In(p, "clear")
    /\ store' = [store EXCEPT ![Dev(p)] = NoToken]
    /\ Release(p)
    /\ Refreshed(p, FALSE)
    /\ UNCHANGED <<server, verified, req, mishaps, faults>>

\* The call itself: answered, lost, refused with a 401 once for a refresh and a retry,
\* or refused for good.
Send(p) ==
    /\ In(p, "send")
    /\ \/ store[Dev(p)] # NoToken /\ EndCall(p, "ok")
       \/ EndCall(p, "net")
       \/ thr[p].retry /\ thr' = [thr EXCEPT ![p].pc = "turn", ![p].due = "after"] /\ UNCHANGED phase
       \/ EndCall(p, "api")
    /\ UNCHANGED <<server, verified, req, store, flight, mishaps, faults>>

\* One more fault of the environment.
Fault == faults < MaxFaults /\ faults' = faults + 1

\* Mutant: a refresh that throws leaves _refreshing set.
TimeoutHeld(p) ==
    /\ thr[p].pc \in {"rotating", "entering", "leaving"}
    /\ Fault
    /\ mishaps' = mishaps \cup {"lost"}
    /\ req' = [r \in Req |-> IF req[r].from = p THEN [req[r] EXCEPT !.from = Nobody] ELSE req[r]]
    /\ CASE In(p, "rotating") -> EndCall(p, "net")
         [] In(p, "entering") -> thr' = [thr EXCEPT ![p] = Rest] /\ UNCHANGED phase
         [] In(p, "leaving")  -> Go(p, "wipe") /\ UNCHANGED phase
    /\ UNCHANGED <<server, verified, store, flight>>

\* A request that times out, or whose answer is lost, may still be running on the
\* server.  A refresh throws out of the call; logout goes on; a login stays where it was.
Timeout(p) ==
    /\ thr[p].pc \in {"rotating", "entering", "leaving"}
    /\ Fault
    /\ mishaps' = mishaps \cup {"lost"}
    /\ req' = [r \in Req |-> IF req[r].from = p THEN [req[r] EXCEPT !.from = Nobody] ELSE req[r]]
    /\ CASE In(p, "rotating") -> EndCall(p, "net") /\ Release(p)
         [] In(p, "entering") -> thr' = [thr EXCEPT ![p] = Rest] /\ UNCHANGED <<phase, flight>>
         [] In(p, "leaving")  -> Go(p, "wipe") /\ UNCHANGED <<phase, flight>>
    /\ UNCHANGED <<server, verified, store>>

----------------------------------------------------------------------------
(* AuthController *)

Ui(d) == <<d, "ui">>

\* restore(): a stored session is checked with GET /auth/me.
Restore(d) ==
    /\ phase[d] = "bootstrapping" /\ In(Ui(d), "idle")
    /\ IF store[d] = NoToken
       THEN phase' = [phase EXCEPT ![d] = "guest"] /\ UNCHANGED thr
       ELSE thr' = [thr EXCEPT ![Ui(d)] = At0("fresh", NoToken)] /\ UNCHANGED phase
    /\ UNCHANGED <<server, verified, req, store, flight, mishaps, faults>>

\* The session is read again and written back with what /auth/me said of the user.
Latest(d) ==
    /\ In(Ui(d), "latest")
    /\ IF store[d] = NoToken
       THEN thr' = [thr EXCEPT ![Ui(d)] = Rest] /\ phase' = [phase EXCEPT ![d] = "guest"]
       ELSE thr' = [thr EXCEPT ![Ui(d)] = At0("back", store[d])] /\ UNCHANGED phase
    /\ UNCHANGED <<server, verified, req, store, flight, mishaps, faults>>

Refreshing(d) == flight[d] # Nobody

WriteBack(d) ==
    /\ In(Ui(d), "back")
    /\ store' = [store EXCEPT ![d] = thr[Ui(d)].tok]
    /\ phase' = [phase EXCEPT ![d] = "signedIn"]
    /\ thr' = [thr EXCEPT ![Ui(d)] = Rest]
    /\ mishaps' = mishaps \cup (IF store[d] # thr[Ui(d)].tok THEN {"late"} ELSE {})
    /\ UNCHANGED <<server, verified, req, flight, faults>>

\* restore() was refused, or logout ends: the storage is cleared, the user is a guest.
Leave(d) ==
    /\ thr[Ui(d)].pc \in {"giveup", "wipe"}
    /\ store' = [store EXCEPT ![d] = NoToken]
    /\ phase' = [phase EXCEPT ![d] = "guest"]
    /\ thr' = [thr EXCEPT ![Ui(d)] = Rest]
    /\ mishaps' = mishaps \cup (IF Refreshing(d) THEN {"late"} ELSE {})
                          \cup (IF In(Ui(d), "giveup") THEN {"lost"} ELSE {})
    /\ UNCHANGED <<server, verified, req, flight, faults>>

\* A login takes the session from any other device that has one.
Login(d) ==
    /\ phase[d] \in {"guest", "pendingJuridica"} /\ In(Ui(d), "idle")
    /\ Post(Ui(d), "login", NoToken, "auth")
    /\ Go(Ui(d), "entering")
    /\ mishaps' = mishaps \cup Overlaps
                          \cup (IF \E e \in Device : store[e] # NoToken \/ ~In(Ui(e), "idle")
                                THEN {"lost"} ELSE {})
    /\ UNCHANGED <<server, verified, store, phase, flight, faults>>

\* Mutant: the screens open before the session is read, in a phase of their own.
SaveOpen(d) ==
    /\ In(Ui(d), "save")
    /\ store' = [store EXCEPT ![d] = thr[Ui(d)].tok]
    /\ phase' = [phase EXCEPT ![d] = "signing"]
    /\ Go(Ui(d), "load")
    /\ UNCHANGED <<server, verified, req, flight, mishaps, faults>>

Save(d) ==
    /\ In(Ui(d), "save")
    /\ store' = [store EXCEPT ![d] = thr[Ui(d)].tok]
    /\ Go(Ui(d), "load")
    /\ UNCHANGED <<server, verified, req, phase, flight, mishaps, faults>>

\* _loadSignedIn reads what was stored; nothing there is an error on the login screen.
Load(d) ==
    /\ In(Ui(d), "load")
    /\ phase' = IF store[d] = NoToken THEN phase ELSE [phase EXCEPT ![d] = "signedIn"]
    /\ thr' = [thr EXCEPT ![Ui(d)] = Rest]
    /\ UNCHANGED <<server, verified, req, store, flight, mishaps, faults>>

LeavePending(d) ==
    /\ phase[d] = "pendingJuridica" /\ In(Ui(d), "idle")
    /\ phase' = [phase EXCEPT ![d] = "guest"]
    /\ UNCHANGED <<server, verified, req, store, thr, flight, mishaps, faults>>

Logout(d) ==
    /\ phase[d] = "signedIn" /\ In(Ui(d), "idle")
    /\ IF store[d] = NoToken
       THEN Go(Ui(d), "wipe") /\ UNCHANGED <<req, mishaps>>
       ELSE /\ Post(Ui(d), "logout", store[d], "revoke")
            /\ Go(Ui(d), "leaving")
            /\ mishaps' = mishaps \cup Overlaps \cup (IF Refreshing(d) THEN {"late"} ELSE {})
    /\ UNCHANGED <<server, verified, store, phase, flight, faults>>

----------------------------------------------------------------------------
(* The environment *)

\* setVerified of an administrator.
Flip ==
    /\ Juridica /\ Fault
    /\ verified' = ~verified
    /\ mishaps' = mishaps \cup {"lost"}
    /\ UNCHANGED <<server, req, device>>

\* A token was stored before the session that names it, with the same lifetime.
Expire(t) ==
    /\ t \in rec /\ Fault
    /\ rec' = rec \ {t}
    /\ sess' \in {sess, IF sess = t THEN NoToken ELSE sess}
    /\ mishaps' = mishaps \cup {"lost"}
    /\ UNCHANGED <<minted, verified, req, device>>

\* A call of the key-value store throws: the request answers 500.
KvFails(r) ==
    /\ req[r].pc \notin {"free", "auth", "user", "answer"}
    /\ Fault
    /\ Reply(r, FALSE)
    /\ mishaps' = mishaps \cup {"cut"}
    /\ UNCHANGED <<server, verified, device>>

\* The server dies: every thread that waits for it gets a connection error.
Crash ==
    /\ Busy # {} /\ Fault
    /\ req' = [r \in Req |-> Free]
    /\ thr' = [p \in Thread |->
                 CASE In(p, "rotating") /\ p[2] = "ui"   -> Rest
                   [] In(p, "rotating") /\ p[2] = "sync" -> Rest
                   [] In(p, "entering") -> Rest
                   [] In(p, "leaving")  -> [thr[p] EXCEPT !.pc = "wipe"]
                   [] OTHER -> thr[p]]
    /\ phase' = [d \in Device |-> IF In(Ui(d), "rotating") THEN "signedIn" ELSE phase[d]]
    /\ flight' = [d \in Device |-> IF flight[d] # Nobody /\ In(flight[d], "rotating")
                                   THEN Nobody ELSE flight[d]]
    /\ mishaps' = mishaps \cup {"cut"}
    /\ UNCHANGED <<server, verified, store>>

\* The system kills the app; only the secure storage survives.
Kill(d) ==
    /\ Fault
    /\ thr' = [p \in Thread |-> IF Dev(p) = d THEN Rest ELSE thr[p]]
    /\ phase' = [phase EXCEPT ![d] = "bootstrapping"]
    /\ flight' = [flight EXCEPT ![d] = Nobody]
    /\ req' = [r \in Req |-> IF req[r].from # Nobody /\ Dev(req[r].from) = d
                             THEN [req[r] EXCEPT !.from = Nobody] ELSE req[r]]
    /\ mishaps' = IF \A p \in Thread : Dev(p) = d => In(p, "idle") THEN mishaps
                  ELSE mishaps \cup {"lost"}
    /\ UNCHANGED <<server, verified, store>>

----------------------------------------------------------------------------
ServerStep(r) ==
    \/ Auth(r) \/ Take(r) \/ CheckUser(r) \/ Previous(r) \/ Drop(r) \/ Record(r)
    \/ Index(r) \/ Revoke(r) \/ Current(r) \/ Unindex(r) \/ Answer(r)

CallStep(p) ==
    \/ Fresh(p) \/ Turn(p) \/ Wait(p) \/ Store(p) \/ Clear(p) \/ Send(p) \/ Timeout(p)

UiStep(d) ==
    \/ Restore(d) \/ Latest(d) \/ WriteBack(d) \/ Leave(d) \/ Save(d) \/ Load(d)

Next ==
    \/ \E r \in Req : ServerStep(r) \/ KvFails(r)
    \/ \E p \in Thread : SyncStart(p) \/ CallStep(p)
    \/ \E d \in Device : UiStep(d) \/ Login(d) \/ LeavePending(d) \/ Logout(d) \/ Kill(d)
    \/ Flip \/ Crash
    \/ \E t \in Token : Expire(t)

Spec == Init /\ [][Next]_vars

----------------------------------------------------------------------------
(* Every variable has its type. *)
TypeOK ==
    /\ rec \subseteq Token /\ sess \in Token \cup {NoToken} /\ minted \in 0..MaxToken
    /\ verified \in BOOLEAN
    /\ req \in [Req -> Request]
    /\ store \in [Device -> Token \cup {NoToken}]
    /\ phase \in [Device -> Phase]
    /\ thr \in [Thread -> Local]
    /\ flight \in [Device -> Thread \cup {Nobody}]
    /\ mishaps \subseteq Mishap
    /\ faults \in 0..MaxFaults

(* While no two requests of the user overlap and none is cut short, every    *)
(* token that can be exchanged is the one the session names, or is about to  *)
(* be named by the request that made it: the next login or refresh revokes   *)
(* it (issue reads the session and drops what it names).                     *)
AloneOneLive ==
    "cut" \notin mishaps =>
        \A t \in rec : \/ t = sess
                       \/ \E r \in Req : On(r, "index") /\ req[r].new = t

(* A user who is signed in stays so: unless an answer was lost or came after *)
(* its session was gone, a call failed, a key expired, the account lost its  *)
(* verification, another device logged in or two requests overlapped, the    *)
(* device holds a token, and one the server exchanges whenever the device is *)
(* not exchanging it.                                                        *)
CalmSessionLasts ==
    mishaps = {} =>
        \A d \in Device :
            phase[d] = "signedIn" /\ In(Ui(d), "idle") =>
                /\ store[d] # NoToken
                /\ ~Refreshing(d) => store[d] \in rec

(* A guest's device holds no token, unless a refresh was under way when it   *)
(* logged out or restore() wrote back what a refresh had replaced; and once  *)
(* every device has logged out, with nothing lost or cut, the server         *)
(* exchanges no token of the user.                                           *)
GuestAt(d) == phase[d] = "guest" /\ In(Ui(d), "idle")

SignedOutStaysOut ==
    /\ "late" \notin mishaps => \A d \in Device : GuestAt(d) => store[d] = NoToken
    /\ (mishaps = {} /\ Busy = {} /\ \A d \in Device : GuestAt(d)) => rec = {}

(* No call waits for a refresh that nobody is doing: _refreshing is set only *)
(* while the thread that set it waits for an answer some request owes it, or *)
(* is about to store or clear what it got.                                   *)
RefreshIsUnderWay ==
    \A d \in Device : Refreshing(d) =>
        LET p == flight[d] IN
        /\ Dev(p) = d
        /\ \/ thr[p].pc \in {"store", "clear"}
           \/ In(p, "rotating") /\ \E r \in Busy : req[r].from = p /\ req[r].kind = "refresh"
==============================================================================
