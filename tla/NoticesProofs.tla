---------------------------- MODULE NoticesProofs ----------------------------
(***************************************************************************)
(* What the inbox and the weather alerts guarantee for any number of users,  *)
(* devices, notices, alerts and requests: a notice shown as sent was         *)
(* accepted, none is pushed twice by flushes that do not overlap, none       *)
(* reaches a phone that changed hands, an alert fires once per cooldown.     *)
(***************************************************************************)
EXTENDS Notices, WellFoundedInduction, TLAPS

Working == {"devices", "push", "stale", "mark"}
Read    == {"cache", "fetch", "fire"}

(***************************************************************************)
(* What a request knows at each of its steps: the notices it dispatches were *)
(* stored, the one it is to mark was accepted, a job carries one alert.      *)
(***************************************************************************)
Keeps(q) ==
    /\ q.pc \in Working => q.queue # {} /\ \A n \in q.queue : inbox[n] # None
    /\ q.pc = "enqueue" => q.user \in User
    /\ q.pc \in {"stale", "deleteToken", "putToken"} => q.token \in Token
    /\ q.pc = "mark" => q.ok
    /\ q.ok \/ q.queue # {} => q.pc \in Working \cup {"fired"}
    /\ q.ok /\ q.pc \in Working => \E t \in Token : pushed[<<Current(q), t>>] > 0
    /\ q.pc = "fired" => q.now # None
    /\ q.now # None => q.pc \in Working \cup {"enqueue", "fired"}

Knows == \A r \in Req : Keeps(req[r])

(***************************************************************************)
(* PushedOnce is not inductive: while one request at a time dispatches, what *)
(* a device got is either no longer pending or being dispatched, and what    *)
(* waits to be dispatched reached no device.                                 *)
(***************************************************************************)
Accepted == \A n \in Notice : inbox[n] # None /\ inbox[n].status = "SENT" =>
                \E t \in Token : pushed[<<n, t>>] > 0

Dispatcher(q) == q.pc \notin {"free", "ack", "unregister"}

\* The request is pushing notice n, and the device with token t had its turn.
Pushing(q, n, t) == q.pc \in {"push", "mark"} /\ n = Current(q) /\ t \notin q.targets

OneByOne ==
    faults = 0 /\ "flush" \notin raced =>
        /\ \A r, s \in Req : Dispatcher(req[r]) /\ Dispatcher(req[s]) => r = s
        /\ \A r \in Req : ~On(r, "stale")
        /\ \A n \in Notice, t \in Token : pushed[<<n, t>>] <= 1
        /\ \A n \in Notice, t \in Token : pushed[<<n, t>>] > 0 =>
              /\ inbox[n] # None
              /\ inbox[n].status = "PENDING" => \E r \in Req : Pushing(req[r], n, t)
        /\ \A r \in Req : req[r].pc \in Working =>
              \A n \in req[r].queue, t \in Token :
                  pushed[<<n, t>>] > 0 => Pushing(req[r], n, t)

(***************************************************************************)
(* Nor is ReachesItsUser: a request that is alone finds the devices as it    *)
(* left them.                                                               *)
(***************************************************************************)
Undisturbed ==
    "token" \notin raced =>
        /\ \A r, s \in Req : ~On(r, "free") /\ ~On(s, "free") => r = s
        /\ strays = {}
        /\ \A r \in Req : req[r].pc \in {"push", "stale"} =>
              req[r].targets \subseteq TokensOf(inbox[Current(req[r])].user)
        /\ \A r \in Req : On(r, "putToken") => \A o \in Owner : device[o] # req[r].token

(***************************************************************************)
(* Nor is FiresOnce: an alert that fired is hot or still in the hands of the *)
(* job, and one the job may fire has not fired since it was cold.            *)
(***************************************************************************)
OneJob ==
    faults = 0 /\ "job" \notin raced =>
        /\ \A r, s \in Req : InJob(req[r]) /\ InJob(req[s]) => r = s
        /\ \A a \in Alert : fires[a] <= 1
        /\ \A a \in Alert : fires[a] > 0 =>
              alert[a].hot \/ \E r \in Req : req[r].now = a /\ ~On(r, "enqueue")
        /\ \A r \in Req : req[r].todo # {} => InJob(req[r])
        /\ \A r \in Req : \A a \in req[r].todo :
              /\ a # req[r].now
              /\ a \notin req[r].hot => ~alert[a].hot /\ fires[a] = 0
        /\ \A r \in Req : On(r, "enqueue") /\ req[r].now # None =>
              ~alert[req[r].now].hot /\ fires[req[r].now] = 0

IInv == TypeOK /\ Knows /\ Accepted /\ OneByOne /\ Undisturbed /\ OneJob

USE NoticesAssumption, NoneAssumption

----------------------------------------------------------------------------
(* The oldest notice, and the requests *)

Before == {p \in Nat \X Nat : p[1] < p[2]}

\* A set of ids that is not empty has a least one.
LEMMA Oldest ==
    ASSUME NEW S \in SUBSET Nat, S # {}
    PROVE  Min(S) \in S
  <1>1. Before = OpToRel(<, Nat)
    BY DEF OpToRel, Before
  <1>2. IsWellFoundedOn(Before, Nat)
    BY <1>1, NatLessThanWellFounded
  <1>3. \E x \in S : \A y \in S : ~(<<y, x>> \in Before)
    BY <1>2, WFMin
  <1>4. \A m, n \in Nat : m < n => <<m, n>> \in Before
    BY DEF Before
  <1>5. \A m, n \in Nat : ~(m < n) => n <= m
    OBVIOUS
  <1>6. \E x \in S : \A y \in S : x <= y
    BY <1>3, <1>4, <1>5
  <1> QED BY <1>6 DEF Min

LEMMA CurrentIs ==
    ASSUME NEW q \in Request, q.queue # {}
    PROVE  Current(q) \in q.queue /\ Current(q) \in Notice
  <1>1. q.queue \in SUBSET Nat /\ q.queue \subseteq Notice
    BY DEF Request, Notice
  <1> QED BY <1>1, Oldest DEF Current

LEMMA FreeType ==
    /\ Free \in Request /\ Free.pc = "free" /\ Free.now = None /\ ~Free.ok
    /\ Free.todo = {} /\ Free.queue = {} /\ Free.targets = {}
  BY DEF Free, Request, Pc

LEMMA NextUpIs ==
    ASSUME NEW q \in Request
    PROVE  LET u == NextUp(q) IN
           /\ u \in Request /\ ~u.ok /\ u.now = None
           /\ q.now # None => u.pc = "fire" /\ u.todo = q.todo /\ u.hot = q.hot
           /\ q.now = None => \/ u = Free
                              \/ /\ u.pc = "devices" /\ u.queue # {}
                                 /\ \A n \in u.queue : n \in q.queue /\ n # Current(q)
                                 /\ u.todo = q.todo /\ u.hot = q.hot
  <1>1. CASE q.now # None
    BY <1>1 DEF NextUp, Request, Pc
  <1>2. CASE q.now = None /\ Rest(q) # {}
    BY <1>2 DEF NextUp, Rest, Request, Pc
  <1>3. CASE q.now = None /\ Rest(q) = {}
    BY <1>3, FreeType DEF NextUp
  <1> QED BY <1>1, <1>2, <1>3

LEMMA DispatchedIs ==
    ASSUME NEW q \in Request
    PROVE  LET u == Dispatched(q) IN
           /\ u \in Request
           /\ q.now # None => /\ u.pc = "fired" /\ u.now = q.now /\ u.ok = q.ok
                              /\ u.todo = q.todo /\ u.hot = q.hot
           /\ q.now = None => \/ u = Free
                              \/ /\ u.pc = "devices" /\ u.queue # {} /\ u.now = None /\ ~u.ok
                                 /\ \A n \in u.queue : n \in q.queue /\ n # Current(q)
                                 /\ u.todo = q.todo /\ u.hot = q.hot
  <1>1. CASE q.now # None
    BY <1>1 DEF Dispatched, Request, Pc
  <1>2. CASE q.now = None
    BY <1>2, NextUpIs DEF Dispatched
  <1> QED BY <1>1, <1>2

LEMMA Slot ==
    ASSUME TypeOK, NEW r \in Req, NEW q \in Request, req' = [req EXCEPT ![r] = q]
    PROVE  /\ req' \in [Req -> Request]
           /\ req'[r] = q
           /\ \A s \in Req \ {r} : req'[s] = req[s]
  BY DEF TypeOK

LEMMA Typed ==
    ASSUME TypeOK, NEW r \in Req
    PROVE  /\ req[r] \in Request
           /\ req[r].queue \subseteq Notice /\ req[r].targets \subseteq Token
           /\ req[r].todo \subseteq Alert /\ req[r].hot \subseteq Alert
           /\ req[r].ok \in BOOLEAN /\ req[r].now \in Alert \cup {None}
  BY DEF TypeOK, Request

----------------------------------------------------------------------------
(* What a step of one request leaves alone *)

LEMMA KnowsKept ==
    ASSUME IInv, NEW r \in Req, NEW q \in Request, req' = [req EXCEPT ![r] = q],
           \A n \in Notice : inbox[n] # None => inbox'[n] # None,
           \A n \in Notice, t \in Token : pushed[<<n, t>>] > 0 => pushed'[<<n, t>>] > 0,
           Keeps(q)'
    PROVE  Knows'
  <1>1. /\ req'[r] = q
        /\ \A s \in Req \ {r} : req'[s] = req[s]
    BY Slot DEF IInv
  <1>2. ASSUME NEW s \in Req \ {r}
        PROVE  (Keeps(req[s]))'
    <2>1. Keeps(req[s]) /\ req'[s] = req[s]
      BY <1>1 DEF IInv, Knows
    <2>2. req[s] \in Request /\ req[s].queue \subseteq Notice
      BY Typed DEF IInv
    <2>3. req[s].pc \in Working => Current(req[s]) \in Notice
      BY <2>1, <2>2, CurrentIs DEF Keeps
    <2>4. (Current(req[s]))' = Current(req[s])
      BY <2>1 DEF Current
    <2>5. req'[s].ok /\ req'[s].pc \in Working =>
              \E t \in Token : pushed'[<<(Current(req[s]))', t>>] > 0
      BY <2>1, <2>3, <2>4 DEF Keeps
    <2>6. req'[s].pc \in Working => /\ req'[s].queue # {}
                                   /\ \A n \in req'[s].queue : inbox'[n] # None
      BY <2>1, <2>2 DEF Keeps
    <2> QED BY <2>1, <2>5, <2>6 DEF Keeps
  <1> QED BY <1>1, <1>2 DEF Knows

LEMMA AcceptedKept ==
    ASSUME IInv,
           \A n \in Notice : inbox'[n] # None /\ inbox'[n].status = "SENT" =>
               inbox[n] # None /\ inbox[n].status = "SENT",
           \A n \in Notice, t \in Token : pushed[<<n, t>>] > 0 => pushed'[<<n, t>>] > 0
    PROVE  Accepted'
  BY DEF IInv, Accepted

LEMMA OneByOneKept ==
    ASSUME IInv, NEW r \in Req, NEW q \in Request, req' = [req EXCEPT ![r] = q],
           faults' = 0 => faults = 0, raced' = raced, pushed' = pushed,
           \A n \in Notice : inbox[n] # None =>
               /\ inbox'[n] # None
               /\ inbox'[n].status = "PENDING" => inbox[n].status = "PENDING",
           faults' = 0 /\ "flush" \notin raced =>
               /\ Dispatcher(q) => Dispatcher(req[r])
               /\ q.pc # "stale"
               /\ q.pc \in Working => \A n \in q.queue, t \in Token :
                      pushed[<<n, t>>] > 0 => Pushing(q, n, t)
               /\ \A n \in Notice, t \in Token :
                      Pushing(req[r], n, t) /\ pushed[<<n, t>>] > 0
                          /\ inbox'[n].status = "PENDING" => Pushing(q, n, t)
    PROVE  OneByOne'
  <1> SUFFICES ASSUME faults' = 0, "flush" \notin raced'
               PROVE  /\ \A s, u \in Req : (Dispatcher(req[s]) /\ Dispatcher(req[u]))' => s = u
                      /\ \A s \in Req : ~On(s, "stale")'
                      /\ \A n \in Notice, t \in Token : pushed'[<<n, t>>] <= 1
                      /\ \A n \in Notice, t \in Token : pushed'[<<n, t>>] > 0 =>
                            /\ inbox'[n] # None
                            /\ inbox'[n].status = "PENDING" =>
                                  \E s \in Req : (Pushing(req[s], n, t))'
                      /\ \A s \in Req : req'[s].pc \in Working =>
                            \A n \in req'[s].queue, t \in Token :
                                pushed'[<<n, t>>] > 0 => (Pushing(req[s], n, t))'
    BY DEF OneByOne, On
  <1>1. /\ req'[r] = q
        /\ \A s \in Req \ {r} : req'[s] = req[s]
    BY Slot DEF IInv
  <1>2. OneByOne /\ faults = 0 /\ "flush" \notin raced
    BY DEF IInv
  <1>3. /\ Dispatcher(q) => Dispatcher(req[r])
        /\ q.pc # "stale"
        /\ q.pc \in Working => \A n \in q.queue, t \in Token :
               pushed[<<n, t>>] > 0 => Pushing(q, n, t)
        /\ \A n \in Notice, t \in Token :
               Pushing(req[r], n, t) /\ pushed[<<n, t>>] > 0
                   /\ inbox'[n].status = "PENDING" => Pushing(q, n, t)
    BY <1>2
  <1>4. \A s, u \in Req : (Dispatcher(req[s]) /\ Dispatcher(req[u]))' => s = u
    BY <1>1, <1>2, <1>3 DEF OneByOne, Dispatcher
  <1>5. \A s \in Req : ~On(s, "stale")'
    BY <1>1, <1>2, <1>3 DEF OneByOne, On
  <1>6. \A n \in Notice, t \in Token : pushed'[<<n, t>>] <= 1
    BY <1>2 DEF OneByOne
  <1>7. \A s \in Req \ {r}, n \in Notice, t \in Token :
            Pushing(req[s], n, t) <=> (Pushing(req[s], n, t))'
    BY <1>1 DEF Pushing, Current
  <1>8. \A n, t : (Pushing(req[r], n, t))' <=> Pushing(q, n, t)
    BY <1>1 DEF Pushing, Current
  <1>9. ASSUME NEW n \in Notice, NEW t \in Token, pushed'[<<n, t>>] > 0
        PROVE  /\ inbox'[n] # None
               /\ inbox'[n].status = "PENDING" => \E s \in Req : (Pushing(req[s], n, t))'
    <2>1. inbox[n] # None /\ inbox'[n] # None
      BY <1>2, <1>9 DEF OneByOne
    <2>2. ASSUME inbox'[n].status = "PENDING"
          PROVE  \E s \in Req : (Pushing(req[s], n, t))'
      <3>1. PICK s \in Req : Pushing(req[s], n, t)
        BY <1>2, <1>9, <2>1, <2>2 DEF OneByOne
      <3>2. CASE s = r
        BY <1>3, <1>8, <1>9, <2>2, <3>1, <3>2
      <3>3. CASE s # r
        BY <1>7, <3>1, <3>3
      <3> QED BY <3>2, <3>3
    <2> QED BY <2>1, <2>2
  <1>10. ASSUME NEW s \in Req, req'[s].pc \in Working, NEW n \in req'[s].queue,
                NEW t \in Token, pushed'[<<n, t>>] > 0
         PROVE  (Pushing(req[s], n, t))'
    <2>1. CASE s = r
      BY <1>1, <1>3, <1>8, <1>10, <2>1
    <2>2. CASE s # r
      <3>1. req'[s] = req[s] /\ n \in Notice
        BY <1>1, <1>10, <2>2, Typed DEF IInv
      <3> QED BY <1>2, <1>7, <1>10, <2>2, <3>1 DEF OneByOne
    <2> QED BY <2>1, <2>2
  <1> QED BY <1>4, <1>5, <1>6, <1>9, <1>10

\* A request that is alone disturbs nobody.
LEMMA UndisturbedKept ==
    ASSUME IInv, NEW r \in Req, NEW q \in Request, req' = [req EXCEPT ![r] = q],
           ~On(r, "free"), raced' = raced,
           "token" \notin raced =>
               /\ strays' = strays
               /\ q.pc \in {"push", "stale"} =>
                      q.targets \subseteq (TokensOf(inbox[Current(q)].user))'
               /\ q.pc = "putToken" => \A o \in Owner : device'[o] # q.token
    PROVE  Undisturbed'
  <1> SUFFICES ASSUME "token" \notin raced'
               PROVE  /\ \A s, u \in Req : ~On(s, "free")' /\ ~On(u, "free")' => s = u
                      /\ strays' = {}
                      /\ \A s \in Req : req'[s].pc \in {"push", "stale"} =>
                            req'[s].targets \subseteq (TokensOf(inbox[Current(req[s])].user))'
                      /\ \A s \in Req : On(s, "putToken")' =>
                            \A o \in Owner : device'[o] # req'[s].token
    BY DEF Undisturbed
  <1>1. /\ req'[r] = q
        /\ \A s \in Req \ {r} : req'[s] = req[s]
    BY Slot DEF IInv
  <1>2. Undisturbed /\ "token" \notin raced
    BY DEF IInv
  <1>3. \A s \in Req \ {r} : req'[s].pc = "free"
    BY <1>1, <1>2 DEF Undisturbed, On
  <1>4. \A s, u \in Req : ~On(s, "free")' /\ ~On(u, "free")' => s = u
    BY <1>3 DEF On
  <1>5. strays' = {}
    BY <1>2 DEF Undisturbed
  <1>6. ASSUME NEW s \in Req, req'[s].pc \in {"push", "stale"}
        PROVE  req'[s].targets \subseteq (TokensOf(inbox[Current(req[s])].user))'
    <2>1. s = r /\ req'[s] = q
      BY <1>1, <1>3, <1>6
    <2>2. (Current(req[s]))' = Current(q)
      BY <2>1 DEF Current
    <2> QED BY <1>2, <1>6, <2>1, <2>2 DEF TokensOf
  <1>7. \A s \in Req : On(s, "putToken")' => \A o \in Owner : device'[o] # req'[s].token
    BY <1>1, <1>2, <1>3 DEF On
  <1> QED BY <1>4, <1>5, <1>6, <1>7

\* A step that leaves the alerts alone.
LEMMA OneJobKept ==
    ASSUME IInv, NEW r \in Req, NEW q \in Request, req' = [req EXCEPT ![r] = q],
           faults' = 0 => faults = 0, raced' = raced, alert' = alert, fires' = fires,
           faults' = 0 /\ "job" \notin raced =>
               /\ InJob(q) => InJob(req[r])
               /\ q.todo # {} => InJob(q) /\ q.hot = req[r].hot
               /\ q.todo \subseteq req[r].todo
               /\ q.now = req[r].now
               /\ q.pc = "enqueue" => On(r, "enqueue")
               /\ On(r, "enqueue") => q.pc = "enqueue" \/ q.now = None
    PROVE  OneJob'
  <1> SUFFICES ASSUME faults' = 0, "job" \notin raced'
               PROVE  /\ \A s, u \in Req : (InJob(req[s]) /\ InJob(req[u]))' => s = u
                      /\ \A a \in Alert : fires'[a] <= 1
                      /\ \A a \in Alert : fires'[a] > 0 =>
                            alert'[a].hot \/ \E s \in Req : req'[s].now = a /\ ~On(s, "enqueue")'
                      /\ \A s \in Req : req'[s].todo # {} => (InJob(req[s]))'
                      /\ \A s \in Req : \A a \in req'[s].todo :
                            /\ a # req'[s].now
                            /\ a \notin req'[s].hot => ~alert'[a].hot /\ fires'[a] = 0
                      /\ \A s \in Req : On(s, "enqueue")' /\ req'[s].now # None =>
                            ~alert'[req'[s].now].hot /\ fires'[req'[s].now] = 0
    BY DEF OneJob
  <1>1. /\ req'[r] = q
        /\ \A s \in Req \ {r} : req'[s] = req[s]
    BY Slot DEF IInv
  <1>2. OneJob /\ faults = 0 /\ "job" \notin raced
    BY DEF IInv
  <1>3. /\ InJob(q) => InJob(req[r])
        /\ q.todo # {} => InJob(q) /\ q.hot = req[r].hot
        /\ q.todo \subseteq req[r].todo
        /\ q.now = req[r].now
        /\ q.pc = "enqueue" => req[r].pc = "enqueue"
        /\ req[r].pc = "enqueue" => q.pc = "enqueue" \/ q.now = None
    BY <1>2 DEF On
  <1>4. \A s, u \in Req : (InJob(req[s]) /\ InJob(req[u]))' => s = u
    BY <1>1, <1>2, <1>3 DEF OneJob, InJob
  <1>5. \A a \in Alert : fires'[a] <= 1
    BY <1>2 DEF OneJob
  <1>6. ASSUME NEW a \in Alert, fires'[a] > 0, ~alert'[a].hot
        PROVE  \E s \in Req : req'[s].now = a /\ ~On(s, "enqueue")'
    <2>1. PICK s \in Req : req[s].now = a /\ req[s].pc # "enqueue"
      BY <1>2, <1>6 DEF OneJob, On
    <2>2. req'[s].now = a /\ req'[s].pc # "enqueue"
      BY <1>1, <1>3, <2>1
    <2> QED BY <2>2 DEF On
  <1>7. \A s \in Req : req'[s].todo # {} => (InJob(req[s]))'
    BY <1>1, <1>2, <1>3 DEF OneJob, InJob
  <1>8. ASSUME NEW s \in Req, NEW a \in req'[s].todo
        PROVE  /\ a # req'[s].now
               /\ a \notin req'[s].hot => ~alert'[a].hot /\ fires'[a] = 0
    <2>1. a \in req[s].todo /\ req'[s].now = req[s].now /\ req'[s].hot = req[s].hot
      BY <1>1, <1>3, <1>8
    <2> QED BY <1>2, <2>1 DEF OneJob
  <1>9. ASSUME NEW s \in Req, On(s, "enqueue")', req'[s].now # None
        PROVE  ~alert'[req'[s].now].hot /\ fires'[req'[s].now] = 0
    <2>1. req[s].pc = "enqueue" /\ req'[s].now = req[s].now
      BY <1>1, <1>3, <1>9 DEF On
    <2> QED BY <1>2, <1>9, <2>1 DEF OneJob, On
  <1> QED BY <1>4, <1>5, <1>6, <1>7, <1>8, <1>9

\* A step of the job, the only one.
LEMMA OneJobMoves ==
    ASSUME IInv, NEW r \in Req, NEW q \in Request, req' = [req EXCEPT ![r] = q],
           faults' = 0 => faults = 0, raced' = raced, InJob(req[r]),
           faults' = 0 /\ "job" \notin raced =>
               /\ \A a \in Alert : fires'[a] <= 1
               /\ \A a \in Alert : fires'[a] > 0 =>
                     alert'[a].hot \/ (q.now = a /\ q.pc # "enqueue")
               /\ q.todo # {} => InJob(q)
               /\ \A a \in q.todo : /\ a # q.now
                                    /\ a \notin q.hot => ~alert'[a].hot /\ fires'[a] = 0
               /\ q.pc = "enqueue" /\ q.now # None => ~alert'[q.now].hot /\ fires'[q.now] = 0
    PROVE  OneJob'
  <1> SUFFICES ASSUME faults' = 0, "job" \notin raced'
               PROVE  /\ \A s, u \in Req : (InJob(req[s]) /\ InJob(req[u]))' => s = u
                      /\ \A a \in Alert : fires'[a] <= 1
                      /\ \A a \in Alert : fires'[a] > 0 =>
                            alert'[a].hot \/ \E s \in Req : req'[s].now = a /\ ~On(s, "enqueue")'
                      /\ \A s \in Req : req'[s].todo # {} => (InJob(req[s]))'
                      /\ \A s \in Req : \A a \in req'[s].todo :
                            /\ a # req'[s].now
                            /\ a \notin req'[s].hot => ~alert'[a].hot /\ fires'[a] = 0
                      /\ \A s \in Req : On(s, "enqueue")' /\ req'[s].now # None =>
                            ~alert'[req'[s].now].hot /\ fires'[req'[s].now] = 0
    BY DEF OneJob
  <1>1. /\ req'[r] = q
        /\ \A s \in Req \ {r} : req'[s] = req[s]
    BY Slot DEF IInv
  <1>2. OneJob /\ faults = 0 /\ "job" \notin raced
    BY DEF IInv
  <1>3. \A s \in Req \ {r} : ~InJob(req[s]) /\ req[s].todo = {} /\ req[s].now = None
    BY <1>2 DEF OneJob, InJob
  <1>4. \A s, u \in Req : (InJob(req[s]) /\ InJob(req[u]))' => s = u
    BY <1>1, <1>3 DEF InJob
  <1>5. \A a \in Alert : fires'[a] > 0 =>
            alert'[a].hot \/ \E s \in Req : req'[s].now = a /\ ~On(s, "enqueue")'
    BY <1>1, <1>2 DEF On
  <1>6. \A s \in Req : req'[s].todo # {} => (InJob(req[s]))'
    BY <1>1, <1>2, <1>3 DEF InJob
  <1>7. ASSUME NEW s \in Req, NEW a \in req'[s].todo
        PROVE  /\ a # req'[s].now
               /\ a \notin req'[s].hot => ~alert'[a].hot /\ fires'[a] = 0
    BY <1>1, <1>2, <1>3, <1>7
  <1>8. \A s \in Req : On(s, "enqueue")' /\ req'[s].now # None =>
            ~alert'[req'[s].now].hot /\ fires'[req'[s].now] = 0
    BY <1>1, <1>2, <1>3 DEF On
  <1> QED BY <1>2, <1>4, <1>5, <1>6, <1>7, <1>8

----------------------------------------------------------------------------
(* The end of a dispatch, a failure, the end of a request *)

\* What holds only of a behaviour without failures is not asked of the others.
LEMMA FaultExcuses ==
    ASSUME IInv, Fault
    PROVE  /\ faults' \in 0..MaxFaults /\ faults' # 0
           /\ OneByOne' /\ OneJob'
  BY DEF IInv, TypeOK, Fault, OneByOne, OneJob

LEMMA KeepsFree == Keeps(Free)'
  BY DEF Keeps, Free, Working

LEMMA DispatchEnds ==
    ASSUME IInv, NEW r \in Req, req[r].pc \in Working, NEW q \in Request,
           q.queue = req[r].queue, q.now = req[r].now, q.todo = req[r].todo, q.hot = req[r].hot,
           req' = [req EXCEPT ![r] = Dispatched(q)],
           raced' = raced, pushed' = pushed, strays' = strays,
           alert' = alert, fires' = fires,
           faults' = 0 => faults = 0,
           \A n \in Notice : inbox[n] # None =>
               /\ inbox'[n] # None
               /\ inbox'[n].status = "PENDING" => inbox[n].status = "PENDING",
           faults' = 0 /\ "flush" \notin raced =>
               \A n \in Notice, t \in Token :
                   ~(Pushing(req[r], n, t) /\ pushed[<<n, t>>] > 0 /\ inbox'[n].status = "PENDING")
    PROVE  req' \in [Req -> Request] /\ Knows' /\ OneByOne' /\ Undisturbed' /\ OneJob'
  <1> DEFINE u == Dispatched(q)
  <1>1. /\ u \in Request
        /\ q.now # None => /\ u.pc = "fired" /\ u.now = q.now /\ u.ok = q.ok
                           /\ u.todo = q.todo /\ u.hot = q.hot
        /\ q.now = None => \/ u = Free
                           \/ /\ u.pc = "devices" /\ u.queue # {} /\ u.now = None /\ ~u.ok
                              /\ \A n \in u.queue : n \in q.queue /\ n # Current(q)
                              /\ u.todo = q.todo /\ u.hot = q.hot
    BY DispatchedIs
  <1> HIDE DEF u
  <1>2. req' \in [Req -> Request]
    BY <1>1, Slot DEF IInv, u
  <1>3. Keeps(req[r]) /\ q.queue \subseteq Notice /\ Current(q) = Current(req[r])
    BY Typed DEF IInv, Knows, Current
  <1>4. Keeps(u)'
    <2>1. CASE u = Free
      BY <2>1, KeepsFree
    <2>2. CASE q.now # None
      BY <1>1, <2>2 DEF Keeps, Working
    <2>3. CASE q.now = None /\ u # Free
      BY <1>1, <1>3, <2>3 DEF Keeps, Working
    <2> QED BY <2>1, <2>2, <2>3
  <1>5. Knows'
    BY <1>1, <1>4, KnowsKept DEF u
  <1>6. OneByOne'
    <2>1. u.pc # "stale" /\ Dispatcher(req[r])
      BY <1>1, FreeType DEF Dispatcher, Working
    <2>2. ~\E n, t : Pushing(u, n, t)
      BY <1>1, FreeType DEF Pushing
    <2>3. ASSUME faults' = 0, "flush" \notin raced, u.pc \in Working, NEW n \in u.queue,
                 NEW t \in Token, pushed[<<n, t>>] > 0
          PROVE  FALSE
      <3>1. q.now = None /\ u # Free
        BY <1>1, <2>3, FreeType DEF Working
      <3>2. n \in req[r].queue /\ n # Current(req[r])
        BY <1>1, <1>3, <2>3, <3>1
      <3>3. OneByOne /\ faults = 0
        BY <2>3 DEF IInv
      <3> QED BY <2>3, <3>2, <3>3 DEF OneByOne, Pushing
    <2> QED BY <1>1, <2>1, <2>2, <2>3, OneByOneKept DEF u
  <1>7. Undisturbed'
    <2>1. u.pc \notin {"push", "stale", "putToken"} /\ ~On(r, "free")
      BY <1>1, FreeType DEF Working, On
    <2> QED BY <1>1, <2>1, UndisturbedKept DEF u
  <1>8. OneJob'
    <2>1. u.now = q.now /\ u.pc # "enqueue" /\ ~On(r, "enqueue")
      BY <1>1, FreeType DEF Working, On
    <2>2. InJob(u) => InJob(req[r])
      BY <1>1, <2>1, FreeType DEF InJob
    <2>3. u.todo \subseteq req[r].todo
      BY <1>1, FreeType
    <2>4. ASSUME faults' = 0, "job" \notin raced, u.todo # {}
          PROVE  InJob(u) /\ u.hot = req[r].hot
      <3>1. InJob(req[r])
        BY <2>3, <2>4 DEF IInv, OneJob
      <3>2. q.now # None
        BY <3>1 DEF InJob, Working
      <3> QED BY <1>1, <3>2 DEF InJob
    <2> QED BY <1>1, <2>1, <2>2, <2>3, <2>4, OneJobKept DEF u
  <1> QED BY <1>2, <1>5, <1>6, <1>7, <1>8

----------------------------------------------------------------------------
(* send and dispatch *)

LEMMA EnqueueStep ==
    ASSUME IInv, NEW r \in Req, Enqueue(r)
    PROVE  IInv'
  <1>1. PICK n \in Notice : n = Min(Fresh) /\ inbox[n] = None
    <2>1. Fresh \in SUBSET Nat /\ Fresh # {}
      BY DEF Enqueue, Fresh, Notice
    <2>2. Min(Fresh) \in Fresh
      BY <2>1, Oldest
    <2> QED BY <2>2 DEF Fresh
  <1>2. /\ req[r] \in Request /\ req[r].pc = "enqueue" /\ Keeps(req[r])
        /\ req[r].user \in User /\ ~req[r].ok /\ req[r].queue = {}
    BY Typed DEF IInv, Knows, Keeps, Enqueue, On, Working
  <1>3. CASE /\ inbox' = Queued(n, req[r].user)
             /\ req' = [req EXCEPT ![r].pc = "devices", ![r].queue = {n}]
             /\ fires' = IF req[r].now = None THEN fires ELSE [fires EXCEPT ![req[r].now] = @ + 1]
             /\ UNCHANGED faults
    <2>1. PICK q \in Request : q = [req[r] EXCEPT !.pc = "devices", !.queue = {n}]
      <3>1. [req[r] EXCEPT !.pc = "devices", !.queue = {n}] \in Request
        <4>1. {n} \in SUBSET Notice /\ req[r] \in Request
          BY <1>2
        <4> QED BY <4>1 DEF Request, Pc
      <3> QED BY <3>1
    <2>2. /\ q.pc = "devices" /\ q.queue = {n} /\ q.now = req[r].now /\ q.todo = req[r].todo
          /\ q.hot = req[r].hot /\ q.ok = req[r].ok
      BY <1>2, <2>1 DEF Request
    <2>3. req' = [req EXCEPT ![r] = q]
      BY <1>3, <2>1 DEF IInv, TypeOK
    <2>4. /\ inbox' \in [Notice -> Row \cup {None}] /\ inbox'[n] # None
          /\ inbox'[n].status = "PENDING"
          /\ \A m \in Notice : m # n => inbox'[m] = inbox[m]
      <3>1. [user |-> req[r].user, status |-> "PENDING"] \in Row
        BY <1>2 DEF Row, Status
      <3> QED BY <1>1, <1>3, <3>1 DEF Queued, IInv, TypeOK
    <2>5. UNCHANGED <<device, alert, cache, weather, pushed, strays, raced, bounds>>
      BY DEF Enqueue
    <2>6. TypeOK'
      <3>1. fires' \in [Alert -> Nat]
        <4>1. CASE req[r].now = None
          BY <1>3, <4>1 DEF IInv, TypeOK
        <4>2. CASE req[r].now # None
          <5>1. fires \in [Alert -> Nat] /\ req[r].now \in Alert
            BY <1>2, <4>2 DEF IInv, TypeOK, Request
          <5>2. fires' = [fires EXCEPT ![req[r].now] = fires[req[r].now] + 1]
            BY <1>3, <4>2
          <5> QED BY <5>1, <5>2
        <4> QED BY <4>1, <4>2
      <3>2. req' \in [Req -> Request]
        BY <2>1, <2>3, Slot DEF IInv
      <3> QED BY <1>3, <2>4, <2>5, <3>1, <3>2 DEF IInv, TypeOK, bounds
    <2>7. Knows'
      <3>1. Keeps(q)'
        BY <1>2, <2>2, <2>4 DEF Keeps, Working
      <3> QED BY <1>1, <2>1, <2>3, <2>4, <2>5, <3>1, KnowsKept
    <2>8. Accepted'
      BY <2>4, <2>5, AcceptedKept
    <2>9. OneByOne'
      <3>1. ASSUME faults' = 0, "flush" \notin raced, NEW t \in Token
            PROVE  ~(pushed[<<n, t>>] > 0)
        BY <1>1, <1>3, <3>1 DEF IInv, OneByOne
      <3>2. \A m, t : ~Pushing(req[r], m, t)
        BY <1>2 DEF Pushing
      <3>3. Dispatcher(req[r])
        BY <1>2 DEF Dispatcher
      <3>4. ~(q.pc = "stale")
        BY <2>2
      <3>5. \A m \in Notice : inbox[m] # None =>
               /\ inbox'[m] # None
               /\ inbox'[m].status = "PENDING" => inbox[m].status = "PENDING"
        BY <1>1, <2>4
      <3>6. raced' = raced /\ pushed' = pushed /\ (faults' = 0 => faults = 0)
        BY <1>3, <2>5
      <3>7. faults' = 0 /\ "flush" \notin raced => \A m \in q.queue, t \in Token :
                pushed[<<m, t>>] > 0 => Pushing(q, m, t)
        BY <2>2, <3>1
      <3> QED BY <2>3, <3>2, <3>3, <3>4, <3>5, <3>6, <3>7, OneByOneKept
    <2>10. Undisturbed'
      BY <1>2, <2>1, <2>2, <2>3, <2>5, UndisturbedKept DEF On
    <2>11. OneJob'
      <3>1. CASE req[r].now = None
        <4>1. ~InJob(req[r]) /\ ~InJob(q)
          BY <1>2, <2>2, <3>1 DEF InJob
        <4>2. faults' = 0 /\ "job" \notin raced => q.todo = {}
          BY <1>3, <2>2, <4>1 DEF IInv, OneJob
        <4> QED BY <1>3, <2>1, <2>2, <2>3, <2>5, <3>1, <4>1, <4>2, OneJobKept
      <3>2. CASE req[r].now # None
        <4>1. InJob(req[r]) /\ InJob(q) /\ req[r].now \in Alert
          BY <2>2, <3>2, Typed DEF IInv, InJob
        <4>2. fires' = [fires EXCEPT ![req[r].now] = fires[req[r].now] + 1]
          BY <1>3, <3>2
        <4>3. ASSUME faults' = 0, "job" \notin raced
              PROVE  /\ \A a \in Alert : fires'[a] <= 1
                     /\ \A a \in Alert : fires'[a] > 0 =>
                           alert'[a].hot \/ (q.now = a /\ q.pc # "enqueue")
                     /\ \A a \in q.todo : /\ a # q.now
                                          /\ a \notin q.hot => ~alert'[a].hot /\ fires'[a] = 0
          <5>1. OneJob /\ faults = 0 /\ fires \in [Alert -> Nat]
            BY <1>3, <4>3 DEF IInv, TypeOK
          <5>2. fires[req[r].now] = 0
            BY <1>2, <3>2, <4>3, <5>1 DEF OneJob, On
          <5>3. \A s \in Req : req[s].now # None => s = r
            BY <4>1, <4>3, <5>1 DEF OneJob, InJob
          <5>4. \A a \in Alert : a # req[r].now => fires'[a] = fires[a]
            BY <4>1, <4>2, <5>1
          <5>5. fires'[req[r].now] = 1
            BY <4>1, <4>2, <5>1, <5>2
          <5>6. \A a \in Alert : fires'[a] <= 1
            BY <4>3, <5>1, <5>4, <5>5 DEF OneJob
          <5>7. ASSUME NEW a \in Alert, fires'[a] > 0
                PROVE  alert'[a].hot \/ (q.now = a /\ q.pc # "enqueue")
            <6>1. CASE a = req[r].now
              BY <2>2, <6>1
            <6>2. CASE a # req[r].now
              <7>1. fires[a] > 0
                BY <5>4, <5>7, <6>2
              <7>2. alert[a].hot \/ \E s \in Req : req[s].now = a
                BY <4>3, <5>1, <7>1 DEF OneJob
              <7> QED BY <2>5, <5>3, <6>2, <7>2
            <6> QED BY <6>1, <6>2
          <5>8. \A a \in q.todo : /\ a # q.now
                                  /\ a \notin q.hot => ~alert'[a].hot /\ fires'[a] = 0
            <6>1. \A a \in req[r].todo : a \in Alert /\ a # req[r].now /\
                      (a \notin req[r].hot => ~alert[a].hot /\ fires[a] = 0)
              BY <4>3, <5>1, Typed DEF OneJob, IInv
            <6> QED BY <2>2, <2>5, <5>4, <6>1
          <5> QED BY <5>6, <5>7, <5>8
        <4>4. q.pc # "enqueue"
          BY <2>2
        <4> QED BY <1>3, <2>1, <2>3, <2>5, <4>1, <4>3, <4>4, OneJobMoves
      <3> QED BY <3>1, <3>2
    <2> QED BY <2>6, <2>7, <2>8, <2>9, <2>10, <2>11 DEF IInv
  <1>4. CASE Fault /\ req' = [req EXCEPT ![r] = NextUp(@)] /\ UNCHANGED <<inbox, fires>>
    <2>1. PICK u \in Request : u = NextUp(req[r])
      BY <1>2, NextUpIs
    <2>2. u.pc \in {"fire", "free"} /\ ~u.ok /\ u.now = None /\ u.queue = {}
      <3>1. Rest(req[r]) = {}
        BY <1>2 DEF Rest
      <3> QED BY <1>2, <2>1, <3>1, FreeType DEF NextUp, Request
    <2>3. req' = [req EXCEPT ![r] = u]
      BY <1>4, <2>1
    <2>4. UNCHANGED <<inbox, device, alert, cache, weather, pushed, strays, fires, raced, bounds>>
      BY <1>4 DEF Enqueue
    <2>5. faults' \in 0..MaxFaults /\ OneByOne' /\ OneJob'
      BY <1>4, FaultExcuses
    <2>6. TypeOK'
      BY <2>1, <2>3, <2>4, <2>5, Slot DEF IInv, TypeOK, bounds
    <2>7. Knows'
      <3>1. Keeps(u)'
        BY <2>2 DEF Keeps, Working
      <3> QED BY <2>1, <2>3, <2>4, <3>1, KnowsKept
    <2>8. Accepted'
      BY <2>4, AcceptedKept
    <2>9. Undisturbed'
      BY <1>2, <2>1, <2>2, <2>3, <2>4, UndisturbedKept DEF On
    <2> QED BY <2>5, <2>6, <2>7, <2>8, <2>9 DEF IInv
  <1> QED BY <1>1, <1>3, <1>4 DEF Enqueue

LEMMA ListDevicesStep ==
    ASSUME IInv, NEW r \in Req, ListDevices(r)
    PROVE  IInv'
  <1>1. req[r] \in Request /\ req[r].pc = "devices" /\ Keeps(req[r])
    BY Typed DEF IInv, Knows, ListDevices, On
  <1>2. UNCHANGED <<tables, weather, history, bounds, faults>>
    BY DEF ListDevices
  <1>3. Accepted'
    BY <1>2, AcceptedKept DEF tables, history
  <1>4. PICK targets \in SUBSET Token : targets = TokensOf(inbox[Current(req[r])].user)
    BY DEF TokensOf
  <1>5. \A n, t : ~Pushing(req[r], n, t)
    BY <1>1 DEF Pushing
  <1>6. CASE targets = {}
    <2>1. req' = [req EXCEPT ![r] = Dispatched(req[r])]
      BY <1>4, <1>6 DEF ListDevices
    <2>2. req[r].pc \in Working
      BY <1>1 DEF Working
    <2>3. req' \in [Req -> Request] /\ Knows' /\ OneByOne' /\ Undisturbed' /\ OneJob'
      BY <1>1, <1>2, <1>5, <2>1, <2>2, DispatchEnds DEF tables, history
    <2>4. TypeOK'
      BY <1>2, <2>3 DEF IInv, TypeOK, tables, history, bounds
    <2> QED BY <1>3, <2>3, <2>4 DEF IInv
  <1>7. CASE targets # {}
    <2>1. PICK q \in Request : q = [req[r] EXCEPT !.pc = "push", !.targets = targets]
      <3>1. [req[r] EXCEPT !.pc = "push", !.targets = targets] \in Request
        <4>1. req[r] \in Request
          BY <1>1
        <4> QED BY <4>1 DEF Request, Pc
      <3> QED BY <3>1
    <2>2. /\ q.pc = "push" /\ q.targets = targets /\ q.queue = req[r].queue /\ q.now = req[r].now
          /\ q.todo = req[r].todo /\ q.hot = req[r].hot /\ q.ok = req[r].ok
      BY <1>1, <2>1 DEF Request
    <2>3. req' = [req EXCEPT ![r] = q]
      BY <1>4, <1>7, <2>1 DEF ListDevices
    <2>4. TypeOK'
      BY <1>2, <2>3, Slot DEF IInv, TypeOK, tables, history, bounds
    <2>5. Knows'
      <3>1. Keeps(q)'
        BY <1>1, <1>2, <2>2 DEF Keeps, Working, Current, tables, history
      <3> QED BY <1>2, <2>3, <3>1, KnowsKept DEF tables, history
    <2>6. OneByOne'
      <3>1. ASSUME faults = 0, "flush" \notin raced, NEW n \in q.queue, NEW t \in Token
            PROVE  ~(pushed[<<n, t>>] > 0)
        BY <1>1, <1>5, <2>2, <3>1 DEF IInv, OneByOne, Working
      <3>2. Dispatcher(req[r]) /\ q.pc # "stale"
        BY <1>1, <2>2 DEF Dispatcher
      <3> QED BY <1>2, <1>5, <2>3, <3>1, <3>2, OneByOneKept DEF tables, history
    <2>7. Undisturbed'
      <3>1. q.targets \subseteq (TokensOf(inbox[Current(q)].user))'
        BY <1>2, <1>4, <2>2 DEF TokensOf, Current, tables
      <3> QED BY <1>1, <1>2, <2>2, <2>3, <3>1, UndisturbedKept DEF On, history
    <2>8. OneJob'
      <3>1. ~On(r, "enqueue") /\ q.pc # "enqueue" /\ (InJob(q) <=> InJob(req[r]))
        BY <1>1, <2>2 DEF On, InJob
      <3>2. faults = 0 /\ "job" \notin raced /\ q.todo # {} => InJob(q)
        BY <2>2, <3>1 DEF IInv, OneJob
      <3> QED BY <1>2, <2>2, <2>3, <3>1, <3>2, OneJobKept DEF tables, history
    <2> QED BY <1>3, <2>4, <2>5, <2>6, <2>7, <2>8 DEF IInv
  <1> QED BY <1>6, <1>7

\* What a push, or the removal of a token FCM does not know, leaves to the request.
LEMMA JobGoesOn ==
    ASSUME IInv, NEW r \in Req, NEW q \in Request, req' = [req EXCEPT ![r] = q],
           req[r].pc \in Working, q.pc \in Working,
           q.now = req[r].now, q.todo = req[r].todo, q.hot = req[r].hot,
           faults' = 0 => faults = 0, raced' = raced, alert' = alert, fires' = fires
    PROVE  OneJob'
  <1>1. ~On(r, "enqueue") /\ q.pc # "enqueue" /\ (InJob(q) <=> InJob(req[r]))
    BY DEF On, InJob, Working
  <1>2. faults = 0 /\ "job" \notin raced /\ q.todo # {} => InJob(q)
    BY <1>1 DEF IInv, OneJob
  <1> QED BY <1>1, <1>2, OneJobKept

LEMMA MarkSentStep ==
    ASSUME IInv, NEW r \in Req, MarkSent(r)
    PROVE  IInv'
  <1>1. /\ req[r] \in Request /\ req[r].pc = "mark" /\ Keeps(req[r]) /\ req[r].ok
        /\ req[r].pc \in Working
    BY Typed DEF IInv, Knows, MarkSent, On, Keeps, Working
  <1>2. PICK n \in Notice : n = Current(req[r]) /\ n \in req[r].queue /\ inbox[n] # None
    BY <1>1, CurrentIs DEF Keeps
  <1>3. UNCHANGED <<device, alert, cache, weather, history, bounds, faults>>
    BY DEF MarkSent
  <1>4. inbox[n] \in Row /\ inbox \in [Notice -> Row \cup {None}]
    BY <1>2 DEF IInv, TypeOK
  <1>5. /\ inbox' \in [Notice -> Row \cup {None}] /\ inbox'[n] # None
        /\ inbox'[n].status # "PENDING"
        /\ \A m \in Notice : m # n => inbox'[m] = inbox[m]
    <2>1. inbox' = IF inbox[n].status = "PENDING"
                   THEN [inbox EXCEPT ![n].status = "SENT"] ELSE inbox
      BY <1>2 DEF MarkSent, Sent
    <2>2. /\ [inbox[n] EXCEPT !.status = "SENT"] \in Row
          /\ [inbox[n] EXCEPT !.status = "SENT"].status = "SENT"
      BY <1>4 DEF Row, Status
    <2> QED BY <1>2, <1>4, <2>1, <2>2
  <1>6. Accepted'
    <2>1. \E t \in Token : pushed[<<n, t>>] > 0
      BY <1>1, <1>2 DEF Keeps
    <2> QED BY <1>3, <1>5, <2>1 DEF IInv, Accepted, history
  <1>7. \A m \in Notice, t \in Token : Pushing(req[r], m, t) => m = n
    BY <1>2 DEF Pushing
  <1>8. req' = [req EXCEPT ![r] = Dispatched(req[r])]
    BY DEF MarkSent
  <1>9. \A m \in Notice : inbox[m] # None =>
            /\ inbox'[m] # None
            /\ inbox'[m].status = "PENDING" => inbox[m].status = "PENDING"
    BY <1>5
  <1>10. req' \in [Req -> Request] /\ Knows' /\ OneByOne' /\ Undisturbed' /\ OneJob'
    BY <1>1, <1>3, <1>5, <1>7, <1>8, <1>9, DispatchEnds DEF history
  <1>11. TypeOK'
    BY <1>3, <1>5, <1>10 DEF IInv, TypeOK, history, bounds
  <1> QED BY <1>6, <1>10, <1>11 DEF IInv

LEMMA RemoveStaleStep ==
    ASSUME IInv, NEW r \in Req, RemoveStale(r)
    PROVE  IInv'
  <1>1. /\ req[r] \in Request /\ req[r].pc = "stale" /\ Keeps(req[r]) /\ req[r].token \in Token
        /\ req[r].pc \in Working
    BY Typed DEF IInv, Knows, RemoveStale, On, Keeps, Working
  <1>2. UNCHANGED <<inbox, alert, cache, weather, history, bounds, faults>>
    BY DEF RemoveStale
  <1>3. Accepted'
    BY <1>2, AcceptedKept DEF history
  <1>4. faults = 0 => "flush" \in raced
    BY <1>1 DEF IInv, OneByOne, On
  <1>5. device' \in [Owner -> Token \cup {None}]
    BY DEF RemoveStale, WithoutToken, IInv, TypeOK
  <1>6. PICK left \in SUBSET Token : left = req[r].targets \ {req[r].token}
    BY Typed DEF IInv
  <1>7. PICK u \in Request : u = [req[r] EXCEPT !.token = None]
    <2>1. req[r] \in Request
      BY <1>1
    <2>2. [req[r] EXCEPT !.token = None] \in Request
      BY <2>1 DEF Request
    <2> QED BY <2>2
  <1>8. CASE left = {} /\ ~req[r].ok
    <2>1. /\ u.queue = req[r].queue /\ u.now = req[r].now /\ u.todo = req[r].todo
          /\ u.hot = req[r].hot
      BY <1>1, <1>7 DEF Request
    <2>2. req' = [req EXCEPT ![r] = Dispatched(u)]
      BY <1>6, <1>7, <1>8 DEF RemoveStale
    <2>3. req' \in [Req -> Request] /\ Knows' /\ OneByOne' /\ Undisturbed' /\ OneJob'
      BY <1>1, <1>2, <1>4, <2>1, <2>2, DispatchEnds DEF history
    <2>4. TypeOK'
      BY <1>2, <1>5, <2>3 DEF IInv, TypeOK, history, bounds
    <2> QED BY <1>3, <2>3, <2>4 DEF IInv
  <1>9. CASE ~(left = {} /\ ~req[r].ok)
    <2>0. PICK pc \in {"mark", "push"} : pc = IF left = {} THEN "mark" ELSE "push"
      OBVIOUS
    <2>1. PICK q \in Request :
              q = [req[r] EXCEPT !.targets = left, !.token = None, !.pc = pc]
      <3>1. req[r] \in Request
        BY <1>1
      <3>2. [req[r] EXCEPT !.targets = left, !.token = None, !.pc = pc] \in Request
        BY <3>1 DEF Request, Pc
      <3> QED BY <3>2
    <2>2. /\ q.pc = IF left = {} THEN "mark" ELSE "push"
          /\ q.targets = left /\ q.queue = req[r].queue /\ q.now = req[r].now
          /\ q.todo = req[r].todo /\ q.hot = req[r].hot /\ q.ok = req[r].ok
      BY <1>1, <2>0, <2>1 DEF Request
    <2>3. req' = [req EXCEPT ![r] = q]
      BY <1>6, <1>9, <2>0, <2>1 DEF RemoveStale
    <2>4. TypeOK'
      BY <1>2, <1>5, <2>3, Slot DEF IInv, TypeOK, history, bounds
    <2>5. Knows'
      <3>1. Keeps(q)'
        BY <1>1, <1>2, <1>9, <2>2 DEF Keeps, Working, Current, history
      <3> QED BY <1>2, <2>3, <3>1, KnowsKept DEF history
    <2>6. OneByOne'
      BY <1>2, <1>4 DEF OneByOne, history
    <2>7. Undisturbed'
      <3>1. "token" \notin raced => q.targets \subseteq (TokensOf(inbox[Current(q)].user))'
        <4>1. SUFFICES ASSUME "token" \notin raced, NEW t \in left
                       PROVE  t \in (TokensOf(inbox[Current(q)].user))'
          BY <2>2
        <4>2. t \in Token /\ t \in TokensOf(inbox[Current(req[r])].user) /\ t # req[r].token
          BY <1>1, <1>6, <4>1 DEF IInv, Undisturbed
        <4>3. PICK d \in DeviceId : device[<<inbox[Current(req[r])].user, d>>] = t
          BY <4>2 DEF TokensOf
        <4>4. (Current(q))' = Current(req[r])
          BY <2>2 DEF Current
        <4>5. <<inbox[Current(req[r])].user, d>> \in Owner
          <5>1. inbox[Current(req[r])] \in Row
            BY <1>1, CurrentIs DEF Keeps, IInv, TypeOK
          <5> QED BY <5>1 DEF Row, Owner
        <4>6. device'[<<inbox[Current(req[r])].user, d>>] = t
          BY <4>2, <4>3, <4>5 DEF RemoveStale, WithoutToken
        <4> QED BY <1>2, <4>2, <4>4, <4>6 DEF TokensOf
      <3> QED BY <1>1, <1>2, <2>2, <2>3, <3>1, UndisturbedKept DEF On, history
    <2>8. OneJob'
      BY <1>1, <1>2, <2>2, <2>3, JobGoesOn DEF Working, history
    <2> QED BY <1>3, <2>4, <2>5, <2>6, <2>7, <2>8 DEF IInv
  <1> QED BY <1>8, <1>9

\* A device had its turn and FCM knows its token.
LEMMA PushAnswered ==
    ASSUME IInv, NEW r \in Req, On(r, "push"), NEW t \in req[r].targets,
           NEW result \in {"ok", "unavailable"}, NEW n \in Notice, n = Current(req[r]),
           NEW q \in Request,
           q.pc \in {"mark", "push"}, q.targets = req[r].targets \ {t}, q.queue = req[r].queue,
           q.now = req[r].now, q.todo = req[r].todo, q.hot = req[r].hot,
           q.ok => req[r].ok \/ result = "ok",
           req' = [req EXCEPT ![r] = q],
           q.pc = "mark" => q.ok,
           result = "ok" => pushed' = [pushed EXCEPT ![<<n, t>>] = @ + 1] /\ UNCHANGED faults,
           result # "ok" => pushed' = pushed /\ Fault,
           strays' \subseteq strays \cup {n},
           t \in TokensOf(inbox[n].user) => strays' = strays,
           UNCHANGED <<tables, weather, fires, raced, bounds>>
    PROVE  IInv'
  <1>1. /\ req[r] \in Request /\ req[r].pc = "push" /\ Keeps(req[r]) /\ t \in Token
        /\ n \in req[r].queue
    <2>1. req[r] \in Request /\ req[r].pc = "push" /\ Keeps(req[r]) /\ t \in Token
      BY Typed DEF IInv, Knows, On
    <2> QED BY <2>1, CurrentIs DEF Keeps, Working
  <1>2. q.pc \in {"mark", "push"}
    OBVIOUS
  <1>3. Current(q) = n
    BY DEF Current
  <1>4. pushed \in [Notice \X Token -> Nat] /\ faults \in Nat
    BY DEF IInv, TypeOK
  <1>5. /\ pushed' \in [Notice \X Token -> Nat]
        /\ result = "ok" => pushed'[<<n, t>>] = pushed[<<n, t>>] + 1
        /\ result # "ok" => pushed' = pushed
        /\ \A m \in Notice, x \in Token :
               <<m, x>> # <<n, t>> => pushed'[<<m, x>>] = pushed[<<m, x>>]
    BY <1>1, <1>4
  <1>6. \A m \in Notice, x \in Token : pushed[<<m, x>>] > 0 => pushed'[<<m, x>>] > 0
    <2> SUFFICES ASSUME NEW m \in Notice, NEW x \in Token, pushed[<<m, x>>] > 0
                 PROVE  pushed'[<<m, x>>] > 0
      OBVIOUS
    <2>1. pushed[<<m, x>>] \in Nat
      BY <1>4
    <2>2. CASE <<m, x>> = <<n, t>> /\ result = "ok"
      BY <1>5, <2>1, <2>2
    <2>3. CASE ~(<<m, x>> = <<n, t>> /\ result = "ok")
      BY <1>5, <2>3
    <2> QED BY <2>2, <2>3
  <1>7. faults' \in 0..MaxFaults /\ (result # "ok" => OneByOne')
        /\ (faults' = 0 => faults = 0)
    <2>1. CASE result = "ok"
      BY <2>1 DEF IInv, TypeOK
    <2>2. CASE result # "ok"
      BY <2>2, FaultExcuses
    <2> QED BY <2>1, <2>2
  <1>8. TypeOK'
    BY <1>5, <1>7, Slot DEF IInv, TypeOK, tables, bounds
  <1>9. Knows'
    <2>1. Keeps(q)'
      <3>1. q.ok => \E x \in Token : pushed'[<<n, x>>] > 0
        <4>1. CASE result = "ok"
          BY <1>1, <1>4, <1>5, <4>1
        <4>2. CASE result # "ok"
          BY <1>1, <1>2, <1>6, <4>2 DEF Keeps, Working
        <4> QED BY <4>1, <4>2
      <3>2. (Current(q))' = n
        BY <1>3 DEF Current
      <3> QED BY <1>1, <1>2, <3>1, <3>2 DEF Keeps, Working, tables
    <2> QED BY <1>6, <2>1, KnowsKept DEF tables
  <1>10. Accepted'
    BY <1>6, AcceptedKept DEF tables
  <1>11. OneByOne'
    <2>1. CASE result # "ok"
      BY <1>7, <2>1
    <2>2. CASE result = "ok"
      <3> SUFFICES ASSUME faults' = 0, "flush" \notin raced'
                   PROVE  /\ \A s, u \in Req : (Dispatcher(req[s]) /\ Dispatcher(req[u]))' => s = u
                          /\ \A s \in Req : ~On(s, "stale")'
                          /\ \A m \in Notice, x \in Token : pushed'[<<m, x>>] <= 1
                          /\ \A m \in Notice, x \in Token : pushed'[<<m, x>>] > 0 =>
                                /\ inbox'[m] # None
                                /\ inbox'[m].status = "PENDING" =>
                                      \E s \in Req : (Pushing(req[s], m, x))'
                          /\ \A s \in Req : req'[s].pc \in Working =>
                                \A m \in req'[s].queue, x \in Token :
                                    pushed'[<<m, x>>] > 0 => (Pushing(req[s], m, x))'
        BY DEF OneByOne, On
      <3>1. /\ req'[r] = q
            /\ \A s \in Req \ {r} : req'[s] = req[s]
        BY Slot DEF IInv
      <3>2. OneByOne /\ faults = 0 /\ "flush" \notin raced /\ inbox' = inbox
        BY <2>2 DEF IInv, tables
      <3>3. \A s \in Req \ {r} : ~Dispatcher(req[s])
        BY <1>1, <3>2 DEF OneByOne, Dispatcher
      <3>4. \A s \in Req \ {r} : req'[s].pc \notin Working \cup {"stale"}
        BY <3>1, <3>3 DEF Dispatcher, Working
      <3>5. pushed[<<n, t>>] = 0
        <4>1. ~Pushing(req[r], n, t)
          BY DEF Pushing
        <4>2. ~(pushed[<<n, t>>] > 0)
          BY <1>1, <3>2, <4>1 DEF OneByOne, Working
        <4> QED BY <1>1, <1>4, <4>2
      <3>6. \A m \in Notice, x \in Token :
                Pushing(req[r], m, x) \/ <<m, x>> = <<n, t>> => (Pushing(req[r], m, x))'
        BY <1>2, <1>3, <3>1 DEF Pushing, Current
      <3>7. ASSUME NEW m \in Notice, NEW x \in Token
            PROVE  pushed'[<<m, x>>] <= 1
        <4>1. CASE <<m, x>> = <<n, t>>
          BY <1>5, <2>2, <3>5, <4>1
        <4>2. CASE <<m, x>> # <<n, t>>
          BY <1>5, <3>2, <4>2 DEF OneByOne
        <4> QED BY <4>1, <4>2
      <3>8. \A s, u \in Req : (Dispatcher(req[s]) /\ Dispatcher(req[u]))' => s = u
        BY <3>1, <3>3 DEF Dispatcher
      <3>9. \A s \in Req : ~On(s, "stale")'
        BY <1>2, <3>1, <3>4 DEF On
      <3>10. ASSUME NEW m \in Notice, NEW x \in Token, pushed'[<<m, x>>] > 0
             PROVE  /\ inbox'[m] # None
                    /\ inbox'[m].status = "PENDING" => \E s \in Req : (Pushing(req[s], m, x))'
        <4>1. CASE <<m, x>> = <<n, t>>
          <5>1. inbox[m] # None
            BY <1>1, <4>1 DEF Keeps, Working
          <5> QED BY <3>2, <3>6, <4>1, <5>1
        <4>2. CASE <<m, x>> # <<n, t>>
          <5>1. pushed[<<m, x>>] > 0
            BY <1>5, <3>10, <4>2
          <5>2. \A s \in Req : Pushing(req[s], m, x) => s = r
            BY <3>1, <3>4 DEF Pushing, Working
          <5> QED BY <3>2, <3>6, <5>1, <5>2 DEF OneByOne
        <4> QED BY <4>1, <4>2
      <3>11. ASSUME NEW s \in Req, req'[s].pc \in Working, NEW m \in req'[s].queue,
                    NEW x \in Token, pushed'[<<m, x>>] > 0
             PROVE  (Pushing(req[s], m, x))'
        <4>1. s = r /\ m \in req[r].queue /\ m \in Notice
          BY <1>2, <3>1, <3>4, <3>11, Typed DEF IInv
        <4>2. CASE <<m, x>> = <<n, t>>
          BY <3>6, <4>1, <4>2
        <4>3. CASE <<m, x>> # <<n, t>>
          <5>1. pushed[<<m, x>>] > 0
            BY <1>5, <3>11, <4>1, <4>3
          <5>2. Pushing(req[r], m, x)
            BY <1>1, <3>2, <4>1, <5>1 DEF OneByOne, Working
          <5> QED BY <3>6, <4>1, <5>2
        <4> QED BY <4>2, <4>3
      <3> QED BY <3>7, <3>8, <3>9, <3>10, <3>11
    <2> QED BY <2>1, <2>2
  <1>12. Undisturbed'
    <2>1. ASSUME "token" \notin raced
          PROVE  /\ strays' = strays
                 /\ q.targets \subseteq (TokensOf(inbox[Current(q)].user))'
      <3>1. req[r].targets \subseteq TokensOf(inbox[n].user)
        BY <1>1, <2>1 DEF IInv, Undisturbed
      <3>2. (Current(q))' = n
        BY <1>3 DEF Current
      <3>3. (TokensOf(inbox[Current(q)].user))' = TokensOf(inbox[n].user)
        BY <3>2 DEF TokensOf, tables
      <3>4. strays' = strays
        BY <3>1
      <3> QED BY <3>1, <3>3, <3>4
    <2>2. q.pc # "putToken" /\ ~On(r, "free") /\ raced' = raced
      BY <1>1, <1>2 DEF On
    <2> QED BY <2>1, <2>2, UndisturbedKept
  <1>13. OneJob'
    BY <1>1, <1>2, <1>7, JobGoesOn DEF Working, tables
  <1> QED BY <1>8, <1>9, <1>10, <1>11, <1>12, <1>13 DEF IInv

LEMMA PushStep ==
    ASSUME IInv, NEW r \in Req, Push(r)
    PROVE  IInv'
  <1>1. /\ req[r] \in Request /\ req[r].pc = "push" /\ Keeps(req[r]) /\ On(r, "push")
        /\ req[r].pc \in Working
    BY Typed DEF IInv, Knows, Push, On, Working
  <1>2. PICK n \in Notice : n = Current(req[r])
    BY <1>1, CurrentIs DEF Keeps
  <1>3. UNCHANGED <<tables, weather, fires, raced, bounds>>
    BY DEF Push
  <1>4. PICK t \in req[r].targets, result \in FcmResult :
            LET ok   == req[r].ok \/ result = "ok"
                left == req[r].targets \ {t}
            IN
            /\ req' = [req EXCEPT ![r] =
                 IF result = "unregistered" THEN [req[r] EXCEPT !.pc = "stale", !.token = t]
                 ELSE IF left = {} /\ ~ok THEN Dispatched(req[r])
                 ELSE [req[r] EXCEPT !.targets = left, !.ok = ok,
                                     !.pc = IF left = {} THEN "mark" ELSE "push"]]
            /\ pushed' = IF result = "ok" THEN [pushed EXCEPT ![<<n, t>>] = @ + 1] ELSE pushed
            /\ strays' = IF result = "ok" /\ t \notin TokensOf(inbox[n].user)
                         THEN strays \cup {n} ELSE strays
            /\ IF result = "ok" THEN UNCHANGED faults ELSE Fault
    BY <1>2 DEF Push
  <1>5. t \in Token
    BY Typed DEF IInv
  <1>6. CASE result = "unregistered"
    <2>1. Fault /\ pushed' = pushed /\ strays' = strays
      BY <1>4, <1>6
    <2>2. faults' \in 0..MaxFaults /\ faults' # 0 /\ OneByOne' /\ OneJob'
      BY <2>1, FaultExcuses
    <2>3. PICK q \in Request : q = [req[r] EXCEPT !.pc = "stale", !.token = t]
      <3>1. req[r] \in Request
        BY <1>1
      <3>2. [req[r] EXCEPT !.pc = "stale", !.token = t] \in Request
        BY <1>5, <3>1 DEF Request, Pc
      <3> QED BY <3>2
    <2>4. /\ q.pc = "stale" /\ q.targets = req[r].targets /\ q.queue = req[r].queue
          /\ q.now = req[r].now /\ q.ok = req[r].ok /\ q.token = t
      BY <1>1, <2>3 DEF Request
    <2>5. req' = [req EXCEPT ![r] = q]
      BY <1>4, <1>6, <2>3
    <2>6. TypeOK'
      BY <1>3, <2>1, <2>2, <2>5, Slot DEF IInv, TypeOK, tables, bounds
    <2>7. Knows'
      <3>1. Keeps(q)'
        BY <1>1, <1>3, <1>5, <2>1, <2>4 DEF Keeps, Working, Current, tables
      <3> QED BY <1>3, <2>1, <2>5, <3>1, KnowsKept DEF tables
    <2>8. Accepted'
      BY <1>3, <2>1, AcceptedKept DEF tables
    <2>9. Undisturbed'
      <3>1. "token" \notin raced => q.targets \subseteq (TokensOf(inbox[Current(q)].user))'
        BY <1>1, <1>3, <2>4 DEF IInv, Undisturbed, TokensOf, Current, tables
      <3> QED BY <1>1, <1>3, <2>1, <2>4, <2>5, <3>1, UndisturbedKept DEF On
    <2> QED BY <2>2, <2>6, <2>7, <2>8, <2>9 DEF IInv
  <1>7. CASE result = "unavailable" /\ req[r].targets \ {t} = {} /\ ~req[r].ok
    <2>1. Fault /\ pushed' = pushed /\ strays' = strays
      BY <1>4, <1>7
    <2>2. faults' \in 0..MaxFaults /\ faults' # 0
      BY <2>1, FaultExcuses
    <2>3. req' = [req EXCEPT ![r] = Dispatched(req[r])]
      BY <1>4, <1>7
    <2>4. req' \in [Req -> Request] /\ Knows' /\ OneByOne' /\ Undisturbed' /\ OneJob'
      BY <1>1, <1>3, <2>1, <2>2, <2>3, DispatchEnds DEF tables
    <2>5. TypeOK'
      BY <1>3, <2>1, <2>2, <2>4 DEF IInv, TypeOK, tables, bounds
    <2>6. Accepted'
      BY <1>3, <2>1, AcceptedKept DEF tables
    <2> QED BY <2>4, <2>5, <2>6 DEF IInv
  <1>8. CASE /\ result \in {"ok", "unavailable"}
             /\ ~(req[r].targets \ {t} = {} /\ ~(req[r].ok \/ result = "ok"))
    <2>1. PICK pc \in {"mark", "push"} : pc = IF req[r].targets \ {t} = {} THEN "mark" ELSE "push"
      OBVIOUS
    <2>2. PICK q \in Request :
              q = [req[r] EXCEPT !.targets = @ \ {t}, !.ok = @ \/ result = "ok", !.pc = pc]
      <3>1. req[r] \in Request /\ (req[r].ok \/ result = "ok") \in BOOLEAN
        BY <1>1
      <3>2. [req[r] EXCEPT !.targets = @ \ {t}, !.ok = @ \/ result = "ok", !.pc = pc] \in Request
        BY <3>1 DEF Request, Pc
      <3> QED BY <3>2
    <2>3. req' = [req EXCEPT ![r] = q]
      BY <1>4, <1>8, <2>1, <2>2
    <2>4. /\ q.pc = pc /\ q.targets = req[r].targets \ {t} /\ q.queue = req[r].queue
          /\ q.now = req[r].now /\ q.todo = req[r].todo /\ q.hot = req[r].hot
          /\ q.ok => req[r].ok \/ result = "ok"
          /\ pc = "mark" => q.ok
      BY <1>1, <1>8, <2>1, <2>2 DEF Request
    <2>5. /\ result = "ok" => pushed' = [pushed EXCEPT ![<<n, t>>] = @ + 1] /\ UNCHANGED faults
          /\ result # "ok" => pushed' = pushed /\ Fault
          /\ strays' \subseteq strays \cup {n}
          /\ t \in TokensOf(inbox[n].user) => strays' = strays
      BY <1>4
    <2>6. On(r, "push") /\ t \in req[r].targets /\ result \in {"ok", "unavailable"}
      BY <1>1, <1>8
    <2> QED BY <1>2, <1>3, <2>1, <2>2, <2>3, <2>4, <2>5, <2>6, PushAnswered, ZenonT(60)
  <1> QED BY <1>6, <1>7, <1>8 DEF FcmResult

----------------------------------------------------------------------------
(* Devices, logins and acknowledgements *)

\* A request that dispatches nothing and is no job.
LEMMA PlainStep ==
    ASSUME IInv, NEW r \in Req, NEW q \in Request, req' = [req EXCEPT ![r] = q],
           ~On(r, "free"), req[r].now = None, ~InJob(req[r]), req[r].pc # "enqueue",
           \A n, t : ~Pushing(req[r], n, t),
           q.now = None, q.todo = req[r].todo \/ q.todo = {},
           q.pc \notin {"alerts", "cache", "fetch", "fire", "enqueue"} \cup Working,
           Dispatcher(q) => Dispatcher(req[r]),
           Keeps(q)',
           \A n \in Notice : inbox[n] # None =>
               /\ inbox'[n] # None
               /\ inbox'[n].status = "PENDING" => inbox[n].status = "PENDING",
           \A n \in Notice : inbox'[n] # None /\ inbox'[n].status = "SENT" =>
               inbox[n] # None /\ inbox[n].status = "SENT",
           "token" \notin raced /\ q.pc = "putToken" => \A o \in Owner : device'[o] # q.token,
           UNCHANGED <<alert, history>>, faults' = 0 => faults = 0
    PROVE  req' \in [Req -> Request] /\ Knows' /\ Accepted' /\ OneByOne' /\ Undisturbed' /\ OneJob'
  <1>1. req' \in [Req -> Request]
    BY Slot DEF IInv
  <1>2. Knows'
    BY KnowsKept DEF history
  <1>3. Accepted'
    BY AcceptedKept DEF history
  <1>4. OneByOne'
    <2>1. q.pc # "stale"
      BY DEF Working
    <2> QED BY <2>1, OneByOneKept DEF history
  <1>5. Undisturbed'
    <2>1. q.pc \notin {"push", "stale"}
      BY DEF Working
    <2> QED BY <2>1, UndisturbedKept DEF history
  <1>6. OneJob'
    <2>1. ~InJob(q) /\ ~On(r, "enqueue")
      BY DEF InJob, On
    <2>2. faults = 0 /\ "job" \notin raced => req[r].todo = {}
      BY DEF IInv, OneJob
    <2> QED BY <2>1, <2>2, OneJobKept DEF history
  <1> QED BY <1>1, <1>2, <1>3, <1>4, <1>5, <1>6

\* A request that is neither a job nor dispatching may end.
LEMMA EndStep ==
    ASSUME IInv, NEW r \in Req, End(r), req[r].pc \in {"putToken", "unregister", "ack", "flush"},
           \A n \in Notice : inbox[n] # None =>
               /\ inbox'[n] # None
               /\ inbox'[n].status = "PENDING" => inbox[n].status = "PENDING",
           \A n \in Notice : inbox'[n] # None /\ inbox'[n].status = "SENT" =>
               inbox[n] # None /\ inbox[n].status = "SENT",
           UNCHANGED <<alert, history>>, faults' = 0 => faults = 0
    PROVE  req' \in [Req -> Request] /\ Knows' /\ Accepted' /\ OneByOne' /\ Undisturbed' /\ OneJob'
  <1>1. req[r].now = None
    BY DEF IInv, Knows, Keeps, Working
  <1>2. ~InJob(req[r]) /\ ~On(r, "free") /\ \A n, t : ~Pushing(req[r], n, t)
    BY <1>1 DEF InJob, On, Pushing
  <1>3. Keeps(Free)' /\ ~Dispatcher(Free) /\ Free.pc \notin Working
    BY FreeType, KeepsFree DEF Dispatcher, Working
  <1>4. req' = [req EXCEPT ![r] = Free]
    BY DEF End
  <1> QED BY <1>1, <1>2, <1>3, <1>4, FreeType, PlainStep

LEMMA DeleteTokenStep ==
    ASSUME IInv, NEW r \in Req, DeleteToken(r)
    PROVE  IInv'
  <1>1. /\ req[r] \in Request /\ req[r].pc = "deleteToken" /\ Keeps(req[r]) /\ req[r].now = None
        /\ req[r].token \in Token
    BY Typed DEF IInv, Knows, DeleteToken, On, Keeps, Working
  <1>2. UNCHANGED <<inbox, alert, cache, weather, history, bounds, faults>>
    BY DEF DeleteToken
  <1>3. PICK q \in Request : q = [req[r] EXCEPT !.pc = "putToken"]
    <2>1. req[r] \in Request
      BY <1>1
    <2>2. [req[r] EXCEPT !.pc = "putToken"] \in Request
      BY <2>1 DEF Request, Pc
    <2> QED BY <2>2
  <1>4. /\ q.pc = "putToken" /\ q.token = req[r].token /\ q.now = None /\ q.todo = req[r].todo
        /\ q.ok = req[r].ok /\ q.queue = req[r].queue
    BY <1>1, <1>3 DEF Request
  <1>5. req' = [req EXCEPT ![r] = q]
    BY <1>3 DEF DeleteToken, Goto, IInv, TypeOK
  <1>6. /\ device' \in [Owner -> Token \cup {None}]
        /\ \A o \in Owner : device'[o] # q.token
    BY <1>1, <1>4 DEF DeleteToken, WithoutToken, IInv, TypeOK
  <1>7. ~InJob(req[r]) /\ ~On(r, "free") /\ \A n, t : ~Pushing(req[r], n, t)
    BY <1>1 DEF InJob, On, Pushing
  <1>8. Keeps(q)' /\ (Dispatcher(q) => Dispatcher(req[r])) /\ q.pc \notin Working
    BY <1>1, <1>4 DEF Keeps, Dispatcher, Working
  <1>9. req' \in [Req -> Request] /\ Knows' /\ Accepted' /\ OneByOne' /\ Undisturbed' /\ OneJob'
    BY <1>1, <1>2, <1>4, <1>5, <1>6, <1>7, <1>8, PlainStep
  <1>10. TypeOK'
    BY <1>2, <1>6, <1>9 DEF IInv, TypeOK, history, bounds
  <1> QED BY <1>9, <1>10 DEF IInv

LEMMA PutTokenStep ==
    ASSUME IInv, NEW r \in Req, PutToken(r)
    PROVE  IInv'
  <1>1. /\ req[r] \in Request /\ req[r].pc = "putToken" /\ Keeps(req[r]) /\ req[r].now = None
        /\ req[r].token \in Token
    BY Typed DEF IInv, Knows, PutToken, On, Keeps, Working
  <1>2. UNCHANGED <<inbox, alert, cache, weather, history, bounds, faults>>
    BY DEF PutToken
  <1>3. CASE End(r) /\ UNCHANGED device
    <2>1. req' \in [Req -> Request] /\ Knows' /\ Accepted' /\ OneByOne' /\ Undisturbed' /\ OneJob'
      BY <1>1, <1>2, <1>3, EndStep
    <2>2. TypeOK'
      BY <1>2, <1>3, <2>1 DEF IInv, TypeOK, history, bounds
    <2> QED BY <2>1, <2>2 DEF IInv
  <1>4. CASE /\ device' = WithToken(<<req[r].user, req[r].dev>>, req[r].token)
             /\ req' = [req EXCEPT ![r] = [req[r] EXCEPT !.pc = "flush", !.token = None]]
    <2>1. PICK q \in Request : q = [req[r] EXCEPT !.pc = "flush", !.token = None]
      <3>1. req[r] \in Request
        BY <1>1
      <3>2. [req[r] EXCEPT !.pc = "flush", !.token = None] \in Request
        BY <3>1 DEF Request, Pc
      <3> QED BY <3>2
    <2>2. /\ q.pc = "flush" /\ q.now = None /\ q.todo = req[r].todo
          /\ q.ok = req[r].ok /\ q.queue = req[r].queue
      BY <1>1, <2>1 DEF Request
    <2>3. req' = [req EXCEPT ![r] = q]
      BY <1>4, <2>1
    <2>4. device' \in [Owner -> Token \cup {None}]
      BY <1>1, <1>4 DEF WithToken, IInv, TypeOK
    <2>5. ~InJob(req[r]) /\ ~On(r, "free") /\ \A n, t : ~Pushing(req[r], n, t)
      BY <1>1 DEF InJob, On, Pushing
    <2>6. Keeps(q)' /\ (Dispatcher(q) => Dispatcher(req[r])) /\ q.pc \notin Working
      BY <1>1, <2>2 DEF Keeps, Dispatcher, Working
    <2>7. req' \in [Req -> Request] /\ Knows' /\ Accepted' /\ OneByOne' /\ Undisturbed' /\ OneJob'
      BY <1>1, <1>2, <2>2, <2>3, <2>5, <2>6, PlainStep
    <2>8. TypeOK'
      BY <1>2, <2>4, <2>7 DEF IInv, TypeOK, history, bounds
    <2> QED BY <2>7, <2>8 DEF IInv
  <1> QED BY <1>3, <1>4 DEF PutToken

LEMMA FlushStep ==
    ASSUME IInv, NEW r \in Req, Flush(r)
    PROVE  IInv'
  <1>1. /\ req[r] \in Request /\ req[r].pc = "flush" /\ Keeps(req[r]) /\ req[r].now = None
        /\ ~req[r].ok
    BY Typed DEF IInv, Knows, Flush, On, Keeps, Working
  <1>2. UNCHANGED <<tables, weather, history, bounds, faults>>
    BY DEF Flush
  <1>3. PICK rows \in SUBSET Notice : rows = Pending(req[r].user)
    BY DEF Pending, FilterInbox
  <1>4. \A n \in rows : inbox[n] # None /\ inbox[n].status = "PENDING"
    BY <1>3 DEF Pending, FilterInbox
  <1>5. CASE rows = {}
    <2>1. End(r)
      BY <1>3, <1>5 DEF Flush, End
    <2>2. req' \in [Req -> Request] /\ Knows' /\ Accepted' /\ OneByOne' /\ Undisturbed' /\ OneJob'
      BY <1>1, <1>2, <2>1, EndStep DEF tables
    <2>3. TypeOK'
      BY <1>2, <2>2 DEF IInv, TypeOK, tables, history, bounds
    <2> QED BY <2>2, <2>3 DEF IInv
  <1>6. CASE rows # {}
    <2>1. PICK q \in Request : q = [req[r] EXCEPT !.pc = "devices", !.queue = rows]
      <3>1. req[r] \in Request
        BY <1>1
      <3>2. [req[r] EXCEPT !.pc = "devices", !.queue = rows] \in Request
        BY <3>1 DEF Request, Pc
      <3> QED BY <3>2
    <2>2. /\ q.pc = "devices" /\ q.queue = rows /\ q.now = None /\ q.todo = req[r].todo
          /\ q.ok = req[r].ok
      BY <1>1, <2>1 DEF Request
    <2>3. req' = [req EXCEPT ![r] = q]
      BY <1>3, <1>6, <2>1 DEF Flush
    <2>4. TypeOK'
      BY <1>2, <2>3, Slot DEF IInv, TypeOK, tables, history, bounds
    <2>5. Knows'
      <3>1. Keeps(q)'
        BY <1>1, <1>2, <1>4, <1>6, <2>2 DEF Keeps, Working, tables
      <3> QED BY <1>2, <2>3, <3>1, KnowsKept DEF tables, history
    <2>6. Accepted'
      BY <1>2, AcceptedKept DEF tables, history
    <2>7. OneByOne'
      <3>1. ASSUME faults = 0, "flush" \notin raced, NEW n \in rows, NEW t \in Token,
                   pushed[<<n, t>>] > 0
            PROVE  FALSE
        <4>1. OneByOne
          BY DEF IInv
        <4>2. PICK s \in Req : Pushing(req[s], n, t)
          BY <1>4, <3>1, <4>1 DEF OneByOne
        <4>3. Dispatcher(req[s]) /\ Dispatcher(req[r]) /\ s # r
          BY <1>1, <4>2 DEF Dispatcher, Pushing
        <4> QED BY <3>1, <4>1, <4>3 DEF OneByOne
      <3>2. Dispatcher(req[r]) /\ q.pc # "stale" /\ \A n, t : ~Pushing(req[r], n, t)
        BY <1>1, <2>2 DEF Dispatcher, Pushing
      <3> QED BY <1>2, <2>2, <2>3, <3>1, <3>2, OneByOneKept DEF tables, history
    <2>8. Undisturbed'
      BY <1>1, <1>2, <2>2, <2>3, UndisturbedKept DEF On, history
    <2>9. OneJob'
      <3>1. ~On(r, "enqueue") /\ q.pc # "enqueue" /\ ~InJob(q) /\ ~InJob(req[r])
        BY <1>1, <2>2 DEF On, InJob
      <3>2. faults = 0 /\ "job" \notin raced => q.todo = {}
        BY <2>2, <3>1 DEF IInv, OneJob
      <3> QED BY <1>1, <1>2, <2>2, <2>3, <3>1, <3>2, OneJobKept DEF tables, history
    <2> QED BY <2>4, <2>5, <2>6, <2>7, <2>8, <2>9 DEF IInv
  <1> QED BY <1>5, <1>6

LEMMA UnregisterStep ==
    ASSUME IInv, NEW r \in Req, Unregister(r)
    PROVE  IInv'
  <1>1. UNCHANGED <<inbox, alert, cache, weather, history, bounds, faults>> /\ End(r)
        /\ req[r].pc = "unregister"
    BY DEF Unregister, On
  <1>2. device' \in [Owner -> Token \cup {None}]
    BY DEF Unregister, WithoutDevice, IInv, TypeOK
  <1>3. req' \in [Req -> Request] /\ Knows' /\ Accepted' /\ OneByOne' /\ Undisturbed' /\ OneJob'
    BY <1>1, EndStep
  <1>4. TypeOK'
    BY <1>1, <1>2, <1>3 DEF IInv, TypeOK, history, bounds
  <1> QED BY <1>3, <1>4 DEF IInv

LEMMA AckStep ==
    ASSUME IInv, NEW r \in Req, Ack(r)
    PROVE  IInv'
  <1>1. UNCHANGED <<device, alert, cache, weather, history, bounds, faults>> /\ End(r)
        /\ req[r].pc = "ack"
    BY DEF Ack, On
  <1>2. PICK ids \in SUBSET Notice : inbox' = Delivered(req[r].user, ids)
    BY DEF Ack
  <1>3. ASSUME NEW n \in Notice
        PROVE  /\ inbox'[n] \in Row \cup {None}
               /\ \/ inbox'[n] = inbox[n]
                  \/ inbox[n] # None /\ inbox'[n] # None /\ inbox'[n].status = "DELIVERED"
    <2>1. CASE n \in ids \cap Unacked(req[r].user)
      <3>1. inbox[n] \in Row
        BY <2>1 DEF Unacked, FilterInbox, IInv, TypeOK
      <3>2. inbox'[n] = [inbox[n] EXCEPT !.status = "DELIVERED"]
        BY <1>2, <2>1 DEF Delivered
      <3>3. inbox'[n] \in Row /\ inbox'[n].status = "DELIVERED"
        BY <3>1, <3>2 DEF Row, Status
      <3> QED BY <3>1, <3>3
    <2>2. CASE n \notin ids \cap Unacked(req[r].user)
      BY <1>2, <2>2 DEF Delivered, IInv, TypeOK
    <2> QED BY <2>1, <2>2
  <1>4. inbox' \in [Notice -> Row \cup {None}]
    BY <1>2, <1>3 DEF Delivered
  <1>5. req' \in [Req -> Request] /\ Knows' /\ Accepted' /\ OneByOne' /\ Undisturbed' /\ OneJob'
    BY <1>1, <1>3, EndStep
  <1>6. TypeOK'
    BY <1>1, <1>4, <1>5 DEF IInv, TypeOK, history, bounds
  <1> QED BY <1>5, <1>6 DEF IInv

----------------------------------------------------------------------------
(* The job of the weather alerts *)

\* While the job carries no alert, what fired is hot.
LEMMA WhatFiredIsHot ==
    ASSUME IInv, faults = 0, "job" \notin raced, NEW r \in Req,
           InJob(req[r]), req[r].now = None
    PROVE  \A a \in Alert : /\ fires[a] <= 1
                            /\ fires[a] > 0 => alert[a].hot
                            /\ ~alert[a].hot => fires[a] = 0
  <1>1. OneJob /\ fires \in [Alert -> Nat]
    BY DEF IInv, TypeOK
  <1>2. \A s \in Req, a \in Alert : req[s].now = a => s = r /\ a = None
    BY <1>1 DEF OneJob, InJob
  <1>3. \A a \in Alert : fires[a] <= 1 /\ (fires[a] > 0 => alert[a].hot)
    BY <1>1, <1>2 DEF OneJob
  <1>4. \A a \in Alert : fires[a] \in Nat
    BY <1>1
  <1> QED BY <1>3, <1>4

LEMMA JobStep ==
    ASSUME IInv, NEW r \in Req, NEW q \in Request, req' = [req EXCEPT ![r] = q],
           req[r].pc \in {"alerts", "cache", "fetch", "fire"},
           q.pc \in {"cache", "fetch", "fire", "enqueue", "free"},
           q.queue = {}, ~q.ok, q.pc = "enqueue" => q.user \in User,
           q.now # None => q.pc = "enqueue",
           faults' = 0 => faults = 0,
           faults' = 0 /\ "job" \notin raced =>
               /\ q.todo # {} => InJob(q)
               /\ \A a \in q.todo : /\ a # q.now
                                    /\ a \notin q.hot => ~alert[a].hot
               /\ q.pc = "enqueue" /\ q.now # None => ~alert[q.now].hot,
           UNCHANGED <<inbox, device, alert, history>>
    PROVE  req' \in [Req -> Request] /\ Knows' /\ Accepted' /\ OneByOne' /\ Undisturbed' /\ OneJob'
  <1>1. InJob(req[r]) /\ req[r].now = None
    BY DEF InJob, IInv, Knows, Keeps, Working
  <1>2. req' \in [Req -> Request]
    BY Slot DEF IInv
  <1>3. Knows'
    <2>1. Keeps(q)'
      BY DEF Keeps, Working
    <2> QED BY <2>1, KnowsKept DEF history
  <1>4. Accepted'
    BY AcceptedKept DEF history
  <1>5. OneByOne'
    <2>1. Dispatcher(req[r]) /\ q.pc # "stale" /\ q.pc \notin Working
          /\ \A n, t : ~Pushing(req[r], n, t)
      BY DEF Dispatcher, Pushing, Working
    <2> QED BY <2>1, OneByOneKept DEF history
  <1>6. Undisturbed'
    BY UndisturbedKept DEF history, On
  <1>7. OneJob'
    <2>1. ASSUME faults' = 0, "job" \notin raced
          PROVE  /\ \A a \in Alert : fires'[a] <= 1
                 /\ \A a \in Alert : fires'[a] > 0 => alert'[a].hot
                 /\ q.todo # {} => InJob(q)
                 /\ \A a \in q.todo : /\ a # q.now
                                      /\ a \notin q.hot => ~alert'[a].hot /\ fires'[a] = 0
                 /\ q.pc = "enqueue" /\ q.now # None => ~alert'[q.now].hot /\ fires'[q.now] = 0
      <3>1. \A a \in Alert : /\ fires[a] <= 1
                             /\ fires[a] > 0 => alert[a].hot
                             /\ ~alert[a].hot => fires[a] = 0
        BY <1>1, <2>1, WhatFiredIsHot
      <3>2. q.todo \subseteq Alert /\ q.now \in Alert \cup {None}
        BY DEF Request
      <3> QED BY <2>1, <3>1, <3>2 DEF history
    <2> QED BY <1>1, <2>1, OneJobMoves DEF history
  <1> QED BY <1>2, <1>3, <1>4, <1>5, <1>6, <1>7

\* What a request of the job knows before it fires.
LEMMA InTheJob ==
    ASSUME IInv, NEW r \in Req, req[r].pc \in {"alerts", "cache", "fetch", "fire"}
    PROVE  /\ req[r] \in Request /\ req[r].now = None /\ ~req[r].ok /\ req[r].queue = {}
           /\ faults = 0 /\ "job" \notin raced =>
                 \A a \in req[r].todo : a # None /\ (a \notin req[r].hot => ~alert[a].hot)
  <1>1. req[r] \in Request /\ Keeps(req[r]) /\ req[r].todo \subseteq Alert
    BY Typed DEF IInv, Knows
  <1>2. req[r].now = None /\ ~req[r].ok /\ req[r].queue = {}
    BY <1>1 DEF Keeps, Working
  <1>3. faults = 0 /\ "job" \notin raced =>
            \A a \in req[r].todo : a # None /\ (a \notin req[r].hot => ~alert[a].hot)
    BY <1>1 DEF IInv, OneJob
  <1> QED BY <1>1, <1>2, <1>3

LEMMA ListAlertsStep ==
    ASSUME IInv, NEW r \in Req, ListAlerts(r)
    PROVE  IInv'
  <1>1. req[r].pc = "alerts" /\ UNCHANGED <<tables, weather, history, bounds, faults>>
    BY DEF ListAlerts, On
  <1>2. req[r] \in Request /\ req[r].now = None /\ ~req[r].ok /\ req[r].queue = {}
    BY <1>1, InTheJob
  <1>3. PICK todo \in SUBSET Alert, hot \in SUBSET Alert :
            todo = Enabled /\ hot = {a \in Enabled : alert[a].hot}
    BY DEF Enabled
  <1>4. req' \in [Req -> Request] /\ Knows' /\ Accepted' /\ OneByOne' /\ Undisturbed' /\ OneJob'
    <2>1. CASE todo = {}
      <3>1. req' = [req EXCEPT ![r] = Free]
        BY <1>3, <2>1 DEF ListAlerts
      <3> QED BY <1>1, <3>1, FreeType, JobStep DEF tables
    <2>2. CASE todo # {}
      <3>1. PICK q \in Request : q = [req[r] EXCEPT !.pc = "cache", !.todo = todo, !.hot = hot]
        <4>1. req[r] \in Request
          BY <1>2
        <4>2. [req[r] EXCEPT !.pc = "cache", !.todo = todo, !.hot = hot] \in Request
          BY <4>1 DEF Request, Pc
        <4> QED BY <4>2
      <3>2. /\ q.pc = "cache" /\ q.todo = todo /\ q.hot = hot /\ q.now = None
            /\ q.queue = {} /\ ~q.ok
        BY <1>2, <3>1 DEF Request
      <3>3. req' = [req EXCEPT ![r] = q]
        BY <1>3, <2>2, <3>1 DEF ListAlerts
      <3>4. InJob(q) /\ \A a \in todo : a # None /\ (a \notin hot => ~alert[a].hot)
        BY <1>3, <3>2 DEF InJob
      <3> QED BY <1>1, <3>2, <3>3, <3>4, JobStep DEF tables
    <2> QED BY <2>1, <2>2
  <1>5. TypeOK'
    BY <1>1, <1>4 DEF IInv, TypeOK, tables, history, bounds
  <1> QED BY <1>4, <1>5 DEF IInv

\* The weather is read: from the cache, or from the provider.
LEMMA Reads ==
    ASSUME IInv, NEW r \in Req, req[r].pc \in {"cache", "fetch"},
           NEW pc \in {"fetch", "fire"}, NEW seen \in SUBSET Kind,
           req' = [req EXCEPT ![r].pc = pc, ![r].seen = seen]
              \/ req' = [req EXCEPT ![r].pc = pc],
           faults' = 0 => faults = 0,
           UNCHANGED <<inbox, device, alert, history>>
    PROVE  req' \in [Req -> Request] /\ Knows' /\ Accepted' /\ OneByOne' /\ Undisturbed' /\ OneJob'
  <1>1. /\ req[r] \in Request /\ req[r].now = None /\ ~req[r].ok /\ req[r].queue = {}
        /\ faults = 0 /\ "job" \notin raced =>
              \A a \in req[r].todo : a # None /\ (a \notin req[r].hot => ~alert[a].hot)
    BY InTheJob
  <1>2. PICK q \in Request : /\ q.pc = pc /\ q.todo = req[r].todo /\ q.hot = req[r].hot
                             /\ q.now = req[r].now /\ q.queue = req[r].queue /\ q.ok = req[r].ok
                             /\ req' = [req EXCEPT ![r] = q]
    <2>1. req[r] \in Request
      BY <1>1
    <2>2. /\ [req[r] EXCEPT !.pc = pc] \in Request
          /\ [req[r] EXCEPT !.pc = pc, !.seen = seen] \in Request
      BY <2>1 DEF Request, Pc
    <2>3. CASE req' = [req EXCEPT ![r].pc = pc]
      <3>1. PICK q \in Request : q = [req[r] EXCEPT !.pc = pc]
        BY <2>2
      <3>2. /\ q.pc = pc /\ q.todo = req[r].todo /\ q.hot = req[r].hot
            /\ q.now = req[r].now /\ q.queue = req[r].queue /\ q.ok = req[r].ok
        BY <2>1, <3>1 DEF Request
      <3> QED BY <2>3, <3>1, <3>2 DEF IInv, TypeOK
    <2>4. CASE req' = [req EXCEPT ![r].pc = pc, ![r].seen = seen]
      <3>1. PICK q \in Request : q = [req[r] EXCEPT !.pc = pc, !.seen = seen]
        BY <2>2
      <3>2. /\ q.pc = pc /\ q.todo = req[r].todo /\ q.hot = req[r].hot
            /\ q.now = req[r].now /\ q.queue = req[r].queue /\ q.ok = req[r].ok
        BY <2>1, <3>1 DEF Request
      <3> QED BY <2>4, <3>1, <3>2 DEF IInv, TypeOK
    <2> QED BY <2>3, <2>4
  <1>3. InJob(q) /\ q.now = None
    BY <1>1, <1>2 DEF InJob
  <1> QED BY <1>1, <1>2, <1>3, JobStep

LEMMA ReadCacheStep ==
    ASSUME IInv, NEW r \in Req, ReadCache(r)
    PROVE  IInv'
  <1>1. req[r].pc = "cache" /\ UNCHANGED <<tables, weather, history, bounds>>
    BY DEF ReadCache, On
  <1>2. faults' \in 0..MaxFaults /\ (faults' = 0 => faults = 0)
    <2>1. CASE UNCHANGED faults
      BY <2>1 DEF IInv, TypeOK
    <2>2. CASE Fault
      BY <2>2, FaultExcuses
    <2> QED BY <2>1, <2>2 DEF ReadCache
  <1>3. req' \in [Req -> Request] /\ Knows' /\ Accepted' /\ OneByOne' /\ Undisturbed' /\ OneJob'
    <2>1. CASE cache # None /\ req' = [req EXCEPT ![r].pc = "fire", ![r].seen = cache]
      <3>1. cache \in SUBSET Kind
        BY <2>1 DEF IInv, TypeOK
      <3>2. PICK seen \in SUBSET Kind : seen = cache
        BY <3>1
      <3> QED BY <1>1, <1>2, <2>1, <3>2, Reads DEF tables
    <2>2. CASE req' = [req EXCEPT ![r].pc = "fetch"]
      BY <1>1, <1>2, <2>2, Reads DEF tables
    <2> QED BY <2>1, <2>2 DEF ReadCache, Goto
  <1>4. TypeOK'
    BY <1>1, <1>2, <1>3 DEF IInv, TypeOK, tables, history, bounds
  <1> QED BY <1>3, <1>4 DEF IInv

LEMMA FetchStep ==
    ASSUME IInv, NEW r \in Req, Fetch(r)
    PROVE  IInv'
  <1>1. req[r].pc = "fetch" /\ UNCHANGED <<inbox, device, alert, weather, history, bounds>>
    BY DEF Fetch, On
  <1>2. faults' \in 0..MaxFaults /\ (faults' = 0 => faults = 0)
    <2>1. CASE UNCHANGED faults
      BY <2>1 DEF IInv, TypeOK
    <2>2. CASE Fault
      BY <2>2, FaultExcuses
    <2> QED BY <2>1, <2>2 DEF Fetch
  <1>3. cache' = None \/ cache' \in SUBSET Kind
    BY DEF Fetch, IInv, TypeOK
  <1>4. req' \in [Req -> Request] /\ Knows' /\ Accepted' /\ OneByOne' /\ Undisturbed' /\ OneJob'
    <2>1. CASE req' = [req EXCEPT ![r].pc = "fire", ![r].seen = weather]
      <3>1. PICK seen \in SUBSET Kind : seen = weather
        BY DEF IInv, TypeOK
      <3> QED BY <1>1, <1>2, <2>1, <3>1, Reads
    <2>2. CASE End(r)
      <3>1. req' = [req EXCEPT ![r] = Free]
        BY <2>2 DEF End
      <3> QED BY <1>1, <1>2, <3>1, FreeType, JobStep
    <2> QED BY <2>1, <2>2 DEF Fetch
  <1>5. TypeOK'
    BY <1>1, <1>2, <1>3, <1>4 DEF IInv, TypeOK, history, bounds
  <1> QED BY <1>4, <1>5 DEF IInv

LEMMA FireStep ==
    ASSUME IInv, NEW r \in Req, Fire(r)
    PROVE  IInv'
  <1>1. req[r].pc = "fire" /\ UNCHANGED <<tables, weather, history, bounds, faults>>
    BY DEF Fire, On
  <1>2. /\ req[r] \in Request /\ req[r].now = None /\ ~req[r].ok /\ req[r].queue = {}
        /\ faults = 0 /\ "job" \notin raced =>
              \A a \in req[r].todo : a # None /\ (a \notin req[r].hot => ~alert[a].hot)
    BY <1>1, InTheJob
  <1>3. req' \in [Req -> Request] /\ Knows' /\ Accepted' /\ OneByOne' /\ Undisturbed' /\ OneJob'
    <2>1. CASE End(r)
      <3>1. req' = [req EXCEPT ![r] = Free]
        BY <2>1 DEF End
      <3> QED BY <1>1, <3>1, FreeType, JobStep DEF tables
    <2>2. ASSUME NEW a \in req[r].todo,
                 MatchesAlert(req[r].seen, a) /\ a \notin req[r].hot,
                 req' = [req EXCEPT ![r] = [req[r] EXCEPT !.pc = "enqueue", !.now = a,
                                            !.user = AlertUser[a], !.todo = @ \ {a}]]
          PROVE  /\ req' \in [Req -> Request] /\ Knows' /\ Accepted'
                 /\ OneByOne' /\ Undisturbed' /\ OneJob'
      <3>1. a \in Alert /\ AlertUser[a] \in User /\ req[r].todo \ {a} \in SUBSET Alert
        BY Typed DEF IInv
      <3>2. PICK q \in Request : q = [req[r] EXCEPT !.pc = "enqueue", !.now = a,
                                                    !.user = AlertUser[a], !.todo = @ \ {a}]
        <4>1. req[r] \in Request
          BY <1>2
        <4>2. [req[r] EXCEPT !.pc = "enqueue", !.now = a,
                             !.user = AlertUser[a], !.todo = @ \ {a}] \in Request
          BY <3>1, <4>1 DEF Request, Pc
        <4> QED BY <4>2
      <3>3. /\ q.pc = "enqueue" /\ q.now = a /\ q.user = AlertUser[a]
            /\ q.todo = req[r].todo \ {a} /\ q.hot = req[r].hot /\ q.queue = {} /\ ~q.ok
        BY <1>2, <3>2 DEF Request
      <3>4. req' = [req EXCEPT ![r] = q]
        BY <2>2, <3>2
      <3>5. InJob(q)
        BY <3>1, <3>3 DEF InJob
      <3> QED BY <1>1, <1>2, <2>2, <3>1, <3>3, <3>4, <3>5, JobStep DEF tables
    <2>3. ASSUME NEW a \in req[r].todo,
                 req' = [req EXCEPT ![r] = [req[r] EXCEPT !.todo = @ \ {a}]]
          PROVE  /\ req' \in [Req -> Request] /\ Knows' /\ Accepted'
                 /\ OneByOne' /\ Undisturbed' /\ OneJob'
      <3>1. req[r].todo \ {a} \in SUBSET Alert
        BY Typed DEF IInv
      <3>2. PICK q \in Request : q = [req[r] EXCEPT !.todo = @ \ {a}]
        <4>1. req[r] \in Request
          BY <1>2
        <4>2. [req[r] EXCEPT !.todo = @ \ {a}] \in Request
          BY <3>1, <4>1 DEF Request
        <4> QED BY <4>2
      <3>3. /\ q.pc = "fire" /\ q.now = None
            /\ q.todo = req[r].todo \ {a} /\ q.hot = req[r].hot /\ q.queue = {} /\ ~q.ok
        BY <1>1, <1>2, <3>2 DEF Request
      <3>4. req' = [req EXCEPT ![r] = q]
        BY <2>3, <3>2
      <3>5. InJob(q)
        BY <3>3 DEF InJob
      <3> QED BY <1>1, <1>2, <3>3, <3>4, <3>5, JobStep DEF tables
    <2> QED BY <2>1, <2>2, <2>3 DEF Fire
  <1>4. TypeOK'
    BY <1>1, <1>3 DEF IInv, TypeOK, tables, history, bounds
  <1> QED BY <1>3, <1>4 DEF IInv

\* A job, after its dispatch: an alert is marked, or its failure is caught.
LEMMA MarkFiredStep ==
    ASSUME IInv, NEW r \in Req, MarkFired(r)
    PROVE  IInv'
  <1>1. /\ req[r] \in Request /\ req[r].pc = "fired" /\ Keeps(req[r]) /\ req[r].now # None
        /\ req[r].now \in Alert
    BY Typed DEF IInv, Knows, MarkFired, On, Keeps
  <1>2. UNCHANGED <<inbox, device, cache, weather, history, bounds>>
    BY DEF MarkFired
  <1>3. PICK q \in Request : q = NextUp(req[r])
    BY <1>1, NextUpIs
  <1>4. /\ q.pc = "fire" /\ q.now = None /\ ~q.ok /\ q.queue = {}
        /\ q.todo = req[r].todo /\ q.hot = req[r].hot
    BY <1>1, <1>3 DEF NextUp, Request
  <1>5. req' = [req EXCEPT ![r] = q]
    BY <1>3 DEF MarkFired
  <1>6. \/ alert' = FiredAt(req[r].now) /\ UNCHANGED faults
        \/ UNCHANGED alert /\ Fault
    BY DEF MarkFired
  <1>7. faults' \in 0..MaxFaults /\ (faults' = 0 => faults = 0 /\ alert' = FiredAt(req[r].now))
    BY <1>6, FaultExcuses DEF IInv, TypeOK
  <1>8. alert' \in [Alert -> Watch]
    <2>1. alert \in [Alert -> Watch]
      BY DEF IInv, TypeOK
    <2>2. CASE alert' = FiredAt(req[r].now)
      <3>1. alert[req[r].now] \in Watch
        BY <1>1, <2>1
      <3>2. [alert[req[r].now] EXCEPT !.hot = TRUE] \in Watch
        BY <3>1 DEF Watch
      <3> QED BY <2>1, <2>2, <3>2 DEF FiredAt
    <2> QED BY <1>6, <2>1, <2>2
  <1>9. TypeOK'
    BY <1>2, <1>5, <1>7, <1>8, Slot DEF IInv, TypeOK, history, bounds
  <1>10. Knows'
    <2>1. Keeps(q)'
      BY <1>4 DEF Keeps, Working
    <2> QED BY <1>2, <1>5, <2>1, KnowsKept DEF history
  <1>11. Accepted'
    BY <1>2, AcceptedKept DEF history
  <1>12. OneByOne'
    <2>1. Dispatcher(req[r]) /\ q.pc # "stale" /\ q.pc \notin Working
          /\ \A n, t : ~Pushing(req[r], n, t)
      BY <1>1, <1>4 DEF Dispatcher, Pushing, Working
    <2> QED BY <1>2, <1>5, <1>7, <2>1, OneByOneKept DEF history
  <1>13. Undisturbed'
    BY <1>1, <1>2, <1>4, <1>5, UndisturbedKept DEF history, On
  <1>14. OneJob'
    <2>1. InJob(req[r]) /\ InJob(q)
      BY <1>1, <1>4 DEF InJob
    <2>2. ASSUME faults' = 0, "job" \notin raced
          PROVE  /\ \A a \in Alert : fires'[a] <= 1
                 /\ \A a \in Alert : fires'[a] > 0 => alert'[a].hot
                 /\ \A a \in q.todo : /\ a # q.now
                                      /\ a \notin q.hot => ~alert'[a].hot /\ fires'[a] = 0
      <3>1. OneJob /\ faults = 0 /\ alert' = FiredAt(req[r].now) /\ fires' = fires
        BY <1>2, <1>7, <2>2 DEF IInv, history
      <3>2. /\ alert'[req[r].now].hot
            /\ \A a \in Alert : a # req[r].now => alert'[a] = alert[a]
        <4>1. alert \in [Alert -> Watch] /\ alert' = [alert EXCEPT ![req[r].now].hot = TRUE]
          BY <3>1 DEF FiredAt, IInv, TypeOK
        <4>2. alert'[req[r].now] = [alert[req[r].now] EXCEPT !.hot = TRUE]
              /\ alert[req[r].now] \in Watch
          BY <1>1, <4>1
        <4>3. alert'[req[r].now].hot
          BY <4>2 DEF Watch
        <4> QED BY <1>1, <4>1, <4>3
      <3>3. \A s \in Req : req[s].now # None => s = r
        BY <2>1, <2>2, <3>1 DEF OneJob, InJob
      <3>4. ASSUME NEW a \in Alert, fires[a] > 0
            PROVE  alert'[a].hot
        <4>1. CASE a = req[r].now
          BY <3>2, <4>1
        <4>2. CASE a # req[r].now
          <5>1. alert[a].hot \/ \E s \in Req : req[s].now = a
            BY <2>2, <3>1, <3>4 DEF OneJob
          <5>2. alert[a].hot
            BY <3>3, <4>2, <5>1
          <5> QED BY <3>2, <4>2, <5>2
        <4> QED BY <4>1, <4>2
      <3>5. \A a \in q.todo : a \in Alert /\ a # req[r].now /\
                (a \notin q.hot => ~alert[a].hot /\ fires[a] = 0)
        BY <1>4, <2>2, <3>1, Typed DEF OneJob, IInv
      <3> QED BY <1>4, <2>2, <3>1, <3>2, <3>4, <3>5 DEF OneJob
    <2> QED BY <1>2, <1>4, <1>5, <1>7, <2>1, <2>2, OneJobMoves DEF history
  <1> QED BY <1>9, <1>10, <1>11, <1>12, <1>13, <1>14 DEF IInv

----------------------------------------------------------------------------
(* Failures, requests that arrive, and the environment *)

LEMMA CallFailsStep ==
    ASSUME IInv, NEW r \in Req, CallFails(r)
    PROVE  IInv'
  <1>1. /\ req[r] \in Request /\ Keeps(req[r]) /\ Fault /\ ~On(r, "free")
        /\ UNCHANGED <<tables, weather, history, bounds>>
    BY Typed DEF IInv, Knows, CallFails, On
  <1>2. PICK q \in Request : /\ q = IF req[r].now # None THEN NextUp(req[r]) ELSE Free
                             /\ q.pc \in {"fire", "free"} /\ q.now = None /\ ~q.ok /\ q.queue = {}
    <2>1. CASE req[r].now # None
      <3>1. PICK q \in Request : q = NextUp(req[r])
        BY <1>1, NextUpIs
      <3>2. q.pc = "fire" /\ q.now = None /\ ~q.ok /\ q.queue = {}
        BY <1>1, <2>1, <3>1 DEF NextUp, Request
      <3> QED BY <2>1, <3>1, <3>2
    <2>2. CASE req[r].now = None
      BY <2>2, FreeType
    <2> QED BY <2>1, <2>2
  <1>3. req' = [req EXCEPT ![r] = q]
    BY <1>2 DEF CallFails
  <1>4. faults' \in 0..MaxFaults /\ OneByOne' /\ OneJob'
    BY <1>1, FaultExcuses
  <1>5. TypeOK'
    BY <1>1, <1>3, <1>4, Slot DEF IInv, TypeOK, tables, history, bounds
  <1>6. Knows'
    <2>1. Keeps(q)'
      BY <1>2 DEF Keeps, Working
    <2> QED BY <1>1, <1>3, <2>1, KnowsKept DEF tables, history
  <1>7. Accepted'
    BY <1>1, AcceptedKept DEF tables, history
  <1>8. Undisturbed'
    <2>1. q.pc \notin {"push", "stale", "putToken"}
      BY <1>2
    <2> QED BY <1>1, <1>3, <2>1, UndisturbedKept DEF history
  <1> QED BY <1>4, <1>5, <1>6, <1>7, <1>8 DEF IInv

LEMMA CrashStep ==
    ASSUME IInv, Crash
    PROVE  IInv'
  <1>1. Fault /\ UNCHANGED <<tables, weather, history, bounds>> /\ req' = [r \in Req |-> Free]
    BY DEF Crash
  <1>2. faults' \in 0..MaxFaults /\ OneByOne' /\ OneJob'
    BY <1>1, FaultExcuses
  <1>3. TypeOK'
    BY <1>1, <1>2, FreeType DEF IInv, TypeOK, tables, history, bounds
  <1>4. Knows'
    BY <1>1, KeepsFree DEF Knows, Keeps
  <1>5. Accepted'
    BY <1>1, AcceptedKept DEF tables, history
  <1>6. Undisturbed'
    BY <1>1, FreeType DEF IInv, Undisturbed, On, history
  <1> QED BY <1>2, <1>3, <1>4, <1>5, <1>6 DEF IInv

LEMMA ReceiveStep ==
    ASSUME IInv, NEW kind \in CallKind, NEW q \in Request, Receive(kind, q),
           q.pc \in {"enqueue", "deleteToken", "flush", "ack", "unregister", "alerts"},
           q.pc \notin {"ack", "unregister"} => kind \notin {"ack", "alert", "unregister"},
           q.pc = "alerts" => kind = "job",
           q.pc = "enqueue" => q.user \in User,
           q.pc = "deleteToken" => q.token \in Token,
           q.queue = {}, ~q.ok, q.now = None, q.todo = {}
    PROVE  IInv'
  <1>1. PICK r \in Req : On(r, "free") /\ req' = [req EXCEPT ![r] = q]
    BY DEF Receive
  <1>2. /\ UNCHANGED <<tables, weather, pushed, strays, fires, mix, faults, turns>>
        /\ calls < MaxCalls /\ calls' = calls + 1
    BY DEF Receive
  <1>3. /\ raced \subseteq raced' /\ raced' \subseteq raced \cup {"flush", "job", "token"}
        /\ (\E s \in Req : ~On(s, "free")) /\ q.pc \notin {"ack", "unregister"} =>
               "flush" \in raced'
        /\ kind = "job" /\ (\E s \in Req : InJob(req[s])) => "job" \in raced'
        /\ (\E s \in Req : ~On(s, "free")) => "token" \in raced'
    BY DEF Receive
  <1>4. /\ req'[r] = q
        /\ \A s \in Req \ {r} : req'[s] = req[s]
    BY <1>1, Slot DEF IInv
  <1>5. TypeOK'
    <2>1. req' \in [Req -> Request]
      BY <1>1, Slot DEF IInv
    <2>2. calls' \in 0..MaxCalls
      BY <1>2 DEF IInv, TypeOK
    <2>3. raced' \subseteq {"flush", "job", "token"}
      BY <1>3 DEF IInv, TypeOK
    <2> QED BY <1>2, <2>1, <2>2, <2>3 DEF IInv, TypeOK, tables
  <1>6. Knows'
    <2>1. Keeps(q)'
      BY DEF Keeps, Working
    <2> QED BY <1>1, <1>2, <2>1, KnowsKept DEF tables
  <1>7. Accepted'
    BY <1>2, AcceptedKept DEF tables
  <1>8. OneByOne'
    <2> SUFFICES ASSUME faults' = 0, "flush" \notin raced'
                 PROVE  /\ \A s, u \in Req : (Dispatcher(req[s]) /\ Dispatcher(req[u]))' => s = u
                        /\ \A s \in Req : ~On(s, "stale")'
                        /\ \A n \in Notice, t \in Token : pushed'[<<n, t>>] <= 1
                        /\ \A n \in Notice, t \in Token : pushed'[<<n, t>>] > 0 =>
                              /\ inbox'[n] # None
                              /\ inbox'[n].status = "PENDING" =>
                                    \E s \in Req : (Pushing(req[s], n, t))'
                        /\ \A s \in Req : req'[s].pc \in Working =>
                              \A n \in req'[s].queue, t \in Token :
                                  pushed'[<<n, t>>] > 0 => (Pushing(req[s], n, t))'
      BY DEF OneByOne, On
    <2>1. OneByOne /\ faults = 0 /\ "flush" \notin raced /\ inbox' = inbox /\ pushed' = pushed
      BY <1>2, <1>3 DEF IInv, tables
    <2>2. q.pc \in {"ack", "unregister"} \/ \A s \in Req : req[s].pc = "free"
      BY <1>3 DEF On
    <2>3. \A s, u \in Req : (Dispatcher(req[s]) /\ Dispatcher(req[u]))' => s = u
      BY <1>1, <1>4, <2>1, <2>2 DEF OneByOne, Dispatcher, On
    <2>4. \A s \in Req \ {r} : \A n, t : (Pushing(req[s], n, t))' <=> Pushing(req[s], n, t)
      BY <1>4 DEF Pushing, Current
    <2>5. \A n, t : ~Pushing(req[r], n, t)
      BY <1>1 DEF Pushing, On
    <2>6. ASSUME NEW n \in Notice, NEW t \in Token, pushed'[<<n, t>>] > 0
          PROVE  /\ inbox'[n] # None
                 /\ inbox'[n].status = "PENDING" => \E s \in Req : (Pushing(req[s], n, t))'
      <3>1. /\ inbox[n] # None
            /\ inbox[n].status = "PENDING" => \E s \in Req : Pushing(req[s], n, t)
        BY <2>1, <2>6 DEF OneByOne
      <3> QED BY <2>1, <2>4, <2>5, <3>1
    <2>7. ASSUME NEW s \in Req, req'[s].pc \in Working, NEW n \in req'[s].queue,
                 NEW t \in Token, pushed'[<<n, t>>] > 0
          PROVE  (Pushing(req[s], n, t))'
      <3>1. s # r /\ req'[s] = req[s]
        BY <1>4, <2>7 DEF Working
      <3>2. n \in req[s].queue /\ req[s].pc \in Working /\ n \in Notice
        BY <2>7, <3>1, Typed DEF IInv
      <3> QED BY <2>1, <2>4, <2>7, <3>1, <3>2 DEF OneByOne
    <2>8. \A s \in Req : ~On(s, "stale")'
      BY <1>4, <2>1 DEF OneByOne, On
    <2> QED BY <2>1, <2>3, <2>6, <2>7, <2>8 DEF OneByOne
  <1>9. Undisturbed'
    <2> SUFFICES ASSUME "token" \notin raced'
                 PROVE  Undisturbed'
      BY DEF Undisturbed
    <2>1. \A s \in Req : req[s].pc = "free"
      BY <1>3 DEF On
    <2>2. \A s \in Req : s # r => req'[s].pc = "free"
      BY <1>4, <2>1
    <2>3. strays' = {}
      BY <1>2, <1>3 DEF IInv, Undisturbed
    <2> QED BY <1>4, <2>2, <2>3 DEF Undisturbed, On
  <1>10. OneJob'
    <2> SUFFICES ASSUME faults' = 0, "job" \notin raced'
                 PROVE  /\ \A s, u \in Req : (InJob(req[s]) /\ InJob(req[u]))' => s = u
                        /\ \A a \in Alert : fires'[a] <= 1
                        /\ \A a \in Alert : fires'[a] > 0 =>
                              alert'[a].hot \/ \E s \in Req : req'[s].now = a /\ ~On(s, "enqueue")'
                        /\ \A s \in Req : req'[s].todo # {} => (InJob(req[s]))'
                        /\ \A s \in Req : \A a \in req'[s].todo :
                              /\ a # req'[s].now
                              /\ a \notin req'[s].hot => ~alert'[a].hot /\ fires'[a] = 0
                        /\ \A s \in Req : On(s, "enqueue")' /\ req'[s].now # None =>
                              ~alert'[req'[s].now].hot /\ fires'[req'[s].now] = 0
      BY DEF OneJob
    <2>1. OneJob /\ faults = 0 /\ "job" \notin raced /\ alert' = alert /\ fires' = fires
      BY <1>2, <1>3 DEF IInv, tables
    <2>2. ~InJob(req[r]) /\ req[r].now = None /\ req[r].pc = "free"
      BY <1>1 DEF On, IInv, Knows, Keeps, Working, InJob
    <2>3. InJob(q) => \A s \in Req : ~InJob(req[s])
      BY <1>3 DEF InJob
    <2>4. \A s, u \in Req : (InJob(req[s]) /\ InJob(req[u]))' => s = u
      BY <1>4, <2>1, <2>3 DEF OneJob, InJob
    <2>5. ASSUME NEW a \in Alert, fires'[a] > 0, ~alert'[a].hot
          PROVE  \E s \in Req : req'[s].now = a /\ ~On(s, "enqueue")'
      <3>1. PICK s \in Req : req[s].now = a /\ req[s].pc # "enqueue"
        BY <2>1, <2>5 DEF OneJob, On
      <3>2. s # r
        BY <2>2, <3>1
      <3> QED BY <1>4, <3>1, <3>2 DEF On
    <2>6. \A s \in Req : req'[s].todo # {} => (InJob(req[s]))'
      BY <1>4, <2>1 DEF OneJob, InJob
    <2>7. \A s \in Req : \A a \in req'[s].todo :
              /\ a # req'[s].now
              /\ a \notin req'[s].hot => ~alert'[a].hot /\ fires'[a] = 0
      BY <1>4, <2>1 DEF OneJob
    <2>8. \A s \in Req : On(s, "enqueue")' /\ req'[s].now # None =>
              ~alert'[req'[s].now].hot /\ fires'[req'[s].now] = 0
      BY <1>4, <2>1 DEF OneJob, On
    <2> QED BY <2>1, <2>4, <2>5, <2>6, <2>7, <2>8 DEF OneJob
  <1> QED BY <1>5, <1>6, <1>7, <1>8, <1>9, <1>10 DEF IInv

LEMMA ArriveStep ==
    ASSUME IInv, Arrive
    PROVE  IInv'
  <1>1. ASSUME NEW u \in User, Receive("send", [Free EXCEPT !.pc = "enqueue", !.user = u])
        PROVE  IInv'
    <2>1. PICK q \in Request : q = [Free EXCEPT !.pc = "enqueue", !.user = u]
      BY DEF Free, Request, Pc
    <2>2. /\ q.pc = "enqueue" /\ q.user = u
          /\ q.queue = {} /\ ~q.ok /\ q.now = None /\ q.todo = {}
      BY <2>1 DEF Free
    <2>3. Receive("send", q) /\ "send" \in CallKind
      BY <1>1, <2>1 DEF CallKind
    <2> QED BY <2>2, <2>3, ReceiveStep
  <1>2. ASSUME NEW u \in User, NEW d \in DeviceId, NEW t \in Token,
               Receive("register", [Free EXCEPT !.pc = "deleteToken", !.user = u,
                                                !.dev = d, !.token = t])
        PROVE  IInv'
    <2>1. PICK q \in Request :
              q = [Free EXCEPT !.pc = "deleteToken", !.user = u, !.dev = d, !.token = t]
      BY DEF Free, Request, Pc
    <2>2. /\ q.pc = "deleteToken" /\ q.token = t
          /\ q.queue = {} /\ ~q.ok /\ q.now = None /\ q.todo = {}
      BY <2>1 DEF Free
    <2>3. Receive("register", q) /\ "register" \in CallKind
      BY <1>2, <2>1 DEF CallKind
    <2> QED BY <2>2, <2>3, ReceiveStep
  <1>3. ASSUME NEW u \in User, Receive("login", [Free EXCEPT !.pc = "flush", !.user = u])
        PROVE  IInv'
    <2>1. PICK q \in Request : q = [Free EXCEPT !.pc = "flush", !.user = u]
      BY DEF Free, Request, Pc
    <2>2. q.pc = "flush" /\ q.queue = {} /\ ~q.ok /\ q.now = None /\ q.todo = {}
      BY <2>1 DEF Free
    <2>3. Receive("login", q) /\ "login" \in CallKind
      BY <1>3, <2>1 DEF CallKind
    <2> QED BY <2>2, <2>3, ReceiveStep
  <1>4. ASSUME NEW u \in User, Receive("ack", [Free EXCEPT !.pc = "ack", !.user = u])
        PROVE  IInv'
    <2>1. PICK q \in Request : q = [Free EXCEPT !.pc = "ack", !.user = u]
      BY DEF Free, Request, Pc
    <2>2. q.pc = "ack" /\ q.queue = {} /\ ~q.ok /\ q.now = None /\ q.todo = {}
      BY <2>1 DEF Free
    <2>3. Receive("ack", q) /\ "ack" \in CallKind
      BY <1>4, <2>1 DEF CallKind
    <2> QED BY <2>2, <2>3, ReceiveStep
  <1>5. ASSUME NEW u \in User, NEW d \in DeviceId,
               Receive("unregister", [Free EXCEPT !.pc = "unregister", !.user = u, !.dev = d])
        PROVE  IInv'
    <2>1. PICK q \in Request : q = [Free EXCEPT !.pc = "unregister", !.user = u, !.dev = d]
      BY DEF Free, Request, Pc
    <2>2. q.pc = "unregister" /\ q.queue = {} /\ ~q.ok /\ q.now = None /\ q.todo = {}
      BY <2>1 DEF Free
    <2>3. Receive("unregister", q) /\ "unregister" \in CallKind
      BY <1>5, <2>1 DEF CallKind
    <2> QED BY <2>2, <2>3, ReceiveStep
  <1>6. ASSUME Receive("job", [Free EXCEPT !.pc = "alerts"])
        PROVE  IInv'
    <2>1. PICK q \in Request : q = [Free EXCEPT !.pc = "alerts"]
      BY DEF Free, Request, Pc
    <2>2. q.pc = "alerts" /\ q.queue = {} /\ ~q.ok /\ q.now = None /\ q.todo = {}
      BY <2>1 DEF Free
    <2>3. Receive("job", q) /\ "job" \in CallKind
      BY <1>6, <2>1 DEF CallKind
    <2> QED BY <2>2, <2>3, ReceiveStep
  <1> QED BY <1>1, <1>2, <1>3, <1>4, <1>5, <1>6 DEF Arrive

\* A step of the environment moves no request and no notice.
LEMMA Aside ==
    ASSUME IInv,
           UNCHANGED <<inbox, device, req, pushed, strays, raced, faults>>
    PROVE  Knows' /\ Accepted' /\ OneByOne' /\ Undisturbed'
  <1>1. Knows'
    BY DEF IInv, Knows, Keeps, Current
  <1>2. Accepted'
    BY DEF IInv, Accepted
  <1>3. OneByOne'
    BY DEF IInv, OneByOne, Dispatcher, Pushing, Current, On
  <1>4. Undisturbed'
    BY DEF IInv, Undisturbed, On, TokensOf, Current
  <1> QED BY <1>1, <1>2, <1>3, <1>4

LEMMA WeatherStep ==
    ASSUME IInv, Weather
    PROVE  IInv'
  <1>1. TypeOK'
    BY DEF IInv, TypeOK, Weather, Turn, tables, history
  <1>2. Knows' /\ Accepted' /\ OneByOne' /\ Undisturbed'
    BY Aside DEF Weather, tables, history
  <1>3. OneJob'
    BY DEF IInv, OneJob, InJob, On, Weather, tables, history
  <1> QED BY <1>1, <1>2, <1>3 DEF IInv

LEMMA CacheLapsesStep ==
    ASSUME IInv, CacheLapses
    PROVE  IInv'
  <1>1. TypeOK'
    BY DEF IInv, TypeOK, CacheLapses, Turn, history
  <1>2. Knows' /\ Accepted' /\ OneByOne' /\ Undisturbed'
    BY Aside DEF CacheLapses, history
  <1>3. OneJob'
    BY DEF IInv, OneJob, InJob, On, CacheLapses, history
  <1> QED BY <1>1, <1>2, <1>3 DEF IInv

LEMMA UpsertAlertStep ==
    ASSUME IInv, NEW a \in Alert, UpsertAlert(a)
    PROVE  IInv'
  <1>1. PICK b \in BOOLEAN : alert' = WithWatch(a, [alert[a] EXCEPT !.on = b])
    BY DEF UpsertAlert
  <1>2. /\ UNCHANGED <<inbox, device, cache, weather, req, history, mix, faults, turns>>
        /\ calls < MaxCalls /\ calls' = calls + 1
    BY DEF UpsertAlert
  <1>3. alert \in [Alert -> Watch] /\ alert[a] \in Watch
    BY DEF IInv, TypeOK
  <1>4. PICK w \in Watch : w = [alert[a] EXCEPT !.on = b] /\ w.hot = alert[a].hot
    <2>1. [alert[a] EXCEPT !.on = b] \in Watch
      BY <1>3 DEF Watch
    <2>2. [alert[a] EXCEPT !.on = b].hot = alert[a].hot
      BY <1>3 DEF Watch
    <2> QED BY <2>1, <2>2
  <1>5. alert' = [alert EXCEPT ![a] = w]
    BY <1>1, <1>4 DEF WithWatch
  <1>6. alert' \in [Alert -> Watch] /\ \A x \in Alert : alert'[x].hot = alert[x].hot
    BY <1>3, <1>4, <1>5
  <1>7. TypeOK'
    BY <1>2, <1>6 DEF IInv, TypeOK, history
  <1>8. Knows' /\ Accepted' /\ OneByOne' /\ Undisturbed'
    BY <1>2, Aside DEF history
  <1>9. OneJob'
    <2> SUFFICES ASSUME faults = 0, "job" \notin raced
                 PROVE  OneJob'
      BY <1>2 DEF OneJob, history
    <2>1. OneJob /\ req' = req /\ fires' = fires
      BY <1>2 DEF IInv, history
    <2>2. \A r \in Req : req[r].todo \subseteq Alert /\ req[r].now \in Alert \cup {None}
      BY Typed DEF IInv
    <2> QED BY <1>6, <2>1, <2>2 DEF OneJob, InJob, On
  <1> QED BY <1>7, <1>8, <1>9 DEF IInv

LEMMA CoolsDownStep ==
    ASSUME IInv, NEW a \in Alert, CoolsDown(a)
    PROVE  IInv'
  <1>1. /\ UNCHANGED <<inbox, device, cache, weather, req, pushed, strays, raced,
                       mix, calls, faults>>
        /\ alert' = [alert EXCEPT ![a].hot = FALSE]
        /\ fires' = [fires EXCEPT ![a] = 0]
        /\ Turn
    BY DEF CoolsDown
  <1>2. alert \in [Alert -> Watch] /\ alert[a] \in Watch /\ fires \in [Alert -> Nat]
    BY DEF IInv, TypeOK
  <1>3. PICK w \in Watch : w = [alert[a] EXCEPT !.hot = FALSE] /\ ~w.hot
    <2>1. [alert[a] EXCEPT !.hot = FALSE] \in Watch
      BY <1>2 DEF Watch
    <2>2. ~[alert[a] EXCEPT !.hot = FALSE].hot
      BY <1>2 DEF Watch
    <2> QED BY <2>1, <2>2
  <1>4. alert' = [alert EXCEPT ![a] = w]
    BY <1>1, <1>3
  <1>5. /\ alert' \in [Alert -> Watch] /\ fires' \in [Alert -> Nat]
        /\ ~alert'[a].hot /\ fires'[a] = 0
        /\ \A x \in Alert : x # a => alert'[x] = alert[x] /\ fires'[x] = fires[x]
    BY <1>1, <1>2, <1>3, <1>4
  <1>6. TypeOK'
    BY <1>1, <1>5 DEF IInv, TypeOK, Turn
  <1>7. Knows' /\ Accepted' /\ OneByOne' /\ Undisturbed'
    BY <1>1, Aside
  <1>8. OneJob'
    <2> SUFFICES ASSUME faults = 0, "job" \notin raced
                 PROVE  OneJob'
      BY <1>1 DEF OneJob
    <2>1. OneJob /\ req' = req
      BY <1>1 DEF IInv
    <2>2. \A r \in Req : req[r].todo \subseteq Alert /\ req[r].now \in Alert \cup {None}
      BY Typed DEF IInv
    <2>3. \A x \in Alert : fires'[x] <= 1
      BY <1>5, <2>1 DEF OneJob
    <2>4. \A x \in Alert : fires'[x] > 0 =>
              alert'[x].hot \/ \E r \in Req : req[r].now = x /\ req[r].pc # "enqueue"
      BY <1>5, <2>1 DEF OneJob, On
    <2>5. \A r \in Req : \A x \in req[r].todo :
              /\ x # req[r].now
              /\ x \notin req[r].hot => ~alert'[x].hot /\ fires'[x] = 0
      BY <1>5, <2>1, <2>2 DEF OneJob
    <2>6. \A r \in Req : On(r, "enqueue") /\ req[r].now # None =>
              ~alert'[req[r].now].hot /\ fires'[req[r].now] = 0
      BY <1>5, <2>1, <2>2 DEF OneJob
    <2> QED BY <2>1, <2>3, <2>4, <2>5, <2>6 DEF OneJob, InJob, On
  <1> QED BY <1>6, <1>7, <1>8 DEF IInv

----------------------------------------------------------------------------
(* The invariant *)

LEMMA Initially == Init => IInv
  <1> SUFFICES ASSUME Init PROVE IInv
    OBVIOUS
  <1>1. /\ \A r \in Req : req[r] = Free
        /\ \A n \in Notice : inbox[n] = None
        /\ \A a \in Alert : fires[a] = 0
        /\ \A n \in Notice, t \in Token : pushed[<<n, t>>] = 0
    BY DEF Init
  <1>2. TypeOK
    BY FreeType, NoticesAssumption DEF Init, TypeOK, Watch
  <1>3. Knows
    BY <1>1, FreeType DEF Knows, Keeps, Working
  <1>4. Accepted
    BY <1>1 DEF Accepted
  <1>5. OneByOne
    BY <1>1, FreeType DEF OneByOne, Dispatcher, Working, On
  <1>6. Undisturbed
    BY <1>1, FreeType DEF Init, Undisturbed, On
  <1>7. OneJob
    BY <1>1, FreeType DEF OneJob, InJob, On
  <1> QED BY <1>2, <1>3, <1>4, <1>5, <1>6, <1>7 DEF IInv

LEMMA Stutters ==
    ASSUME IInv, UNCHANGED vars
    PROVE  IInv'
  <1>1. TypeOK'
    BY DEF IInv, TypeOK, vars
  <1>2. Knows' /\ Accepted' /\ OneByOne' /\ Undisturbed'
    BY Aside DEF vars
  <1>3. OneJob'
    BY DEF IInv, OneJob, InJob, On, vars
  <1> QED BY <1>1, <1>2, <1>3 DEF IInv

LEMMA Inductive == IInv /\ [Next]_vars => IInv'
  <1> SUFFICES ASSUME IInv, [Next]_vars PROVE IInv'
    OBVIOUS
  <1>1. ASSUME NEW r \in Req,
               \/ Enqueue(r) \/ ListDevices(r) \/ Push(r) \/ RemoveStale(r) \/ MarkSent(r)
               \/ DeleteToken(r) \/ PutToken(r) \/ Flush(r) \/ Unregister(r) \/ Ack(r)
               \/ ListAlerts(r) \/ ReadCache(r) \/ Fetch(r) \/ Fire(r) \/ MarkFired(r)
               \/ CallFails(r)
        PROVE  IInv'
    BY <1>1, EnqueueStep, ListDevicesStep, PushStep, RemoveStaleStep, MarkSentStep,
       DeleteTokenStep, PutTokenStep, FlushStep, UnregisterStep, AckStep, ListAlertsStep,
       ReadCacheStep, FetchStep, FireStep, MarkFiredStep, CallFailsStep
  <1>2. ASSUME NEW a \in Alert, UpsertAlert(a) \/ CoolsDown(a)
        PROVE  IInv'
    BY <1>2, UpsertAlertStep, CoolsDownStep
  <1>3. CASE Arrive \/ Crash \/ Weather \/ CacheLapses
    BY <1>3, ArriveStep, CrashStep, WeatherStep, CacheLapsesStep
  <1>4. CASE UNCHANGED vars
    BY <1>4, Stutters
  <1> QED BY <1>1, <1>2, <1>3, <1>4 DEF Next

LEMMA Always == Spec => []IInv
  BY Initially, Inductive, PTL DEF Spec

----------------------------------------------------------------------------
(* Three steps change the rank of a notice: it is queued, it is marked sent,  *)
(* it is acknowledged.                                                       *)
LEMMA Forward ==
    ASSUME IInv, IInv', Next, NEW n \in Notice
    PROVE  Rank(n)' >= Rank(n)
  <1>1. /\ Rank(n) \in 0..3
        /\ inbox[n] = None => Rank(n) = 0
        /\ inbox[n] # None /\ inbox[n].status = "PENDING" => Rank(n) = 1
    <2>1. CASE inbox[n] = None
      BY <2>1 DEF Rank
    <2>2. CASE inbox[n] # None
      <3>1. inbox[n].status \in Status
        BY <2>2 DEF IInv, TypeOK, Row
      <3>2. CASE inbox[n].status = "PENDING"
        BY <2>2, <3>2 DEF Rank
      <3>3. CASE inbox[n].status = "SENT"
        BY <2>2, <3>3 DEF Rank
      <3>4. CASE inbox[n].status = "DELIVERED"
        BY <2>2, <3>4 DEF Rank
      <3> QED BY <2>2, <3>1, <3>2, <3>3, <3>4 DEF Status
    <2> QED BY <2>1, <2>2
  <1>2. /\ Rank(n)' \in 0..3
        /\ inbox'[n] # None /\ inbox'[n].status = "SENT" => Rank(n)' = 2
        /\ inbox'[n] # None /\ inbox'[n].status = "DELIVERED" => Rank(n)' = 3
    <2>1. CASE inbox'[n] = None
      BY <2>1 DEF Rank
    <2>2. CASE inbox'[n] # None
      <3>1. inbox'[n].status \in Status
        BY <2>2 DEF IInv, TypeOK, Row
      <3>2. CASE inbox'[n].status = "PENDING"
        BY <2>2, <3>2 DEF Rank
      <3>3. CASE inbox'[n].status = "SENT"
        BY <2>2, <3>3 DEF Rank
      <3>4. CASE inbox'[n].status = "DELIVERED"
        BY <2>2, <3>4 DEF Rank
      <3> QED BY <2>2, <3>1, <3>2, <3>3, <3>4 DEF Status
    <2> QED BY <2>1, <2>2
  <1>3. inbox'[n] = inbox[n] => Rank(n)' >= Rank(n)
    <2>1. inbox'[n] = inbox[n] => Rank(n)' = Rank(n)
      BY DEF Rank
    <2> QED BY <1>1, <2>1
  <1>4. inbox \in [Notice -> Row \cup {None}]
    BY DEF IInv, TypeOK
  <1>5. ASSUME NEW r \in Req, Enqueue(r)
        PROVE  Rank(n)' >= Rank(n)
    <2>1. Min(Fresh) \in Fresh
      <3>1. Fresh \in SUBSET Nat /\ Fresh # {}
        BY <1>5, NoticesAssumption DEF Enqueue, Fresh, Notice
      <3> QED BY <3>1, Oldest
    <2>2. inbox[Min(Fresh)] = None
      BY <2>1 DEF Fresh
    <2>3. inbox' = inbox \/ inbox' = Queued(Min(Fresh), req[r].user)
      BY <1>5 DEF Enqueue
    <2>4. n # Min(Fresh) => inbox'[n] = inbox[n]
      BY <1>4, <2>3 DEF Queued
    <2> QED BY <1>1, <1>2, <1>3, <2>2, <2>4
  <1>6. ASSUME NEW r \in Req, MarkSent(r)
        PROVE  Rank(n)' >= Rank(n)
    <2>1. inbox' = Sent(Current(req[r]))
      BY <1>6 DEF MarkSent
    <2>2. CASE inbox'[n] = inbox[n]
      BY <1>3, <2>2
    <2>3. CASE inbox'[n] # inbox[n]
      <3>1. /\ n = Current(req[r]) /\ inbox[n].status = "PENDING"
            /\ inbox'[n] = [inbox[n] EXCEPT !.status = "SENT"]
        BY <1>4, <2>1, <2>3 DEF Sent
      <3>2. inbox[n] # None
        <4>1. req[r] \in Request /\ req[r].queue # {} /\ \A m \in req[r].queue : inbox[m] # None
          BY <1>6, Typed DEF IInv, Knows, Keeps, Working, MarkSent, On
        <4> QED BY <3>1, <4>1, CurrentIs
      <3>3. inbox[n] \in Row
        BY <1>4, <3>2
      <3>4. inbox'[n] \in Row /\ inbox'[n].status = "SENT"
        BY <3>1, <3>3 DEF Row, Status
      <3>5. inbox'[n] # None
        BY <3>4, NoneAssumption
      <3> QED BY <1>1, <1>2, <3>1, <3>2, <3>4, <3>5
    <2> QED BY <2>2, <2>3
  <1>7. ASSUME NEW r \in Req, Ack(r)
        PROVE  Rank(n)' >= Rank(n)
    <2>1. PICK ids \in SUBSET Notice : inbox' = Delivered(req[r].user, ids)
      BY <1>7 DEF Ack
    <2>2. CASE n \notin ids \cap Unacked(req[r].user)
      <3>1. inbox'[n] = inbox[n]
        BY <2>1, <2>2 DEF Delivered
      <3> QED BY <1>3, <3>1
    <2>3. CASE n \in ids \cap Unacked(req[r].user)
      <3>1. inbox'[n] = [inbox[n] EXCEPT !.status = "DELIVERED"]
        BY <2>1, <2>3 DEF Delivered
      <3>2. inbox[n] \in Row
        BY <1>4, <2>3 DEF Unacked, FilterInbox
      <3>3. inbox'[n] \in Row /\ inbox'[n].status = "DELIVERED"
        BY <3>1, <3>2 DEF Row, Status
      <3>4. inbox'[n] # None
        BY <3>3, NoneAssumption
      <3> QED BY <1>1, <1>2, <3>3, <3>4
    <2> QED BY <2>2, <2>3
  <1>8. ASSUME NEW r \in Req,
               \/ ListDevices(r) \/ Push(r) \/ RemoveStale(r)
               \/ DeleteToken(r) \/ PutToken(r) \/ Flush(r) \/ Unregister(r)
               \/ ListAlerts(r) \/ ReadCache(r) \/ Fetch(r) \/ Fire(r) \/ MarkFired(r)
               \/ CallFails(r)
        PROVE  inbox' = inbox
    BY <1>8 DEF ListDevices, Push, RemoveStale, DeleteToken, PutToken, Flush, Unregister,
       ListAlerts, ReadCache, Fetch, Fire, MarkFired, CallFails, tables
  <1>9. ASSUME NEW a \in Alert, UpsertAlert(a) \/ CoolsDown(a)
        PROVE  inbox' = inbox
    BY <1>9 DEF UpsertAlert, CoolsDown
  <1>10. Arrive \/ Crash \/ Weather \/ CacheLapses => inbox' = inbox
    BY DEF Arrive, Receive, Crash, Weather, CacheLapses, tables
  <1> QED BY <1>3, <1>5, <1>6, <1>7, <1>8, <1>9, <1>10 DEF Next

----------------------------------------------------------------------------
(* Every variable has its type. *)
THEOREM NoticesTypeCorrect == Spec => []TypeOK
  BY Always, PTL DEF IInv

(* A notice shown as sent was accepted by FCM for some device, and while no  *)
(* call failed and no two dispatches overlapped no device gets it twice,      *)
(* however many users, devices, notices and requests there are.              *)
THEOREM NoticesPushedOnce == Spec => []PushedOnce
  <1>1. IInv => PushedOnce
    BY DEF IInv, Accepted, OneByOne, PushedOnce
  <1> QED BY <1>1, Always, PTL

(* While requests do not overlap, no notice is pushed to a device its user   *)
(* no longer has, and a phone that changed hands is registered for its new    *)
(* user, never refused.                                                      *)
THEOREM NoticesReachTheirUser == Spec => []ReachesItsUser
  <1>1. IInv => ReachesItsUser
    BY DEF IInv, Undisturbed, ReachesItsUser
  <1> QED BY <1>1, Always, PTL

(* While no call failed and no two jobs overlapped, an alert is sent at most *)
(* once until its cooldown passes.                                           *)
THEOREM AlertsFireOnce == Spec => []FiresOnce
  <1>1. IInv => FiresOnce
    BY DEF IInv, OneJob, FiresOnce
  <1> QED BY <1>1, Always, PTL

(* A notice never goes back: a push that ends after its user acknowledged it  *)
(* does not make it merely sent, and no failed call or crash makes it pending *)
(* again.                                                                    *)
THEOREM NoticesGoForward == Spec => OnlyForward
  <1>1. IInv /\ IInv' /\ [Next]_vars => [\A n \in Notice : Rank(n)' >= Rank(n)]_vars
    BY Forward
  <1>2. Spec => [][Next]_vars
    BY PTL DEF Spec
  <1> QED BY <1>1, <1>2, Always, PTL DEF OnlyForward
===============================================================================
