------------------------ MODULE SuscripcionesProofs ------------------------
(***************************************************************************)
(* What the subscriptions guarantee for every number of administrators,     *)
(* jobs, users, payments and failures: a reference is credited once, no     *)
(* notice says more than what the marketplace shows, and a user on whom one *)
(* request works at a time gets what was paid for, and is told once.        *)
(***************************************************************************)
EXTENDS Suscripciones, TLAPS

(***************************************************************************)
(* The unique index alone does not make PaidOnce inductive: one also needs   *)
(* that the request which got its row in is the only one about to credit it, *)
(* and has not done so yet.                                                  *)
(***************************************************************************)
Crediting(s) == pay[s].pc = "upsert" /\ pay[s].of \notin Anonymous

OneCreditor ==
    /\ \A s \in Admin : Crediting(s) => pay[s].of \in paid /\ credits[pay[s].of] = 0
    /\ \A s, t \in Admin : (Crediting(s) /\ Crediting(t) /\ pay[s].of = pay[t].of) => s = t
    /\ \A p \in Payment \ Anonymous : credits[p] > 0 => p \in paid

\* A job evaluates a past instant, and what it announced has come to pass.
InThePast ==
    /\ \A j \in Job : job[j].at <= now
    /\ \A n \in sent : /\ n[2] = "grace" => now > n[3]
                       /\ n[2] = "hidden" => now > n[3] + Grace

IInv == TypeOK /\ PaidOnce /\ OneCreditor /\ InThePast

USE SuscripcionesAssumption, NoRow

----------------------------------------------------------------------------
(* The parts of the model *)

LEMMA NextPeriodEndType ==
    ASSUME NEW t \in Nat, NEW end \in Nat \cup {None}
    PROVE  NextPeriodEnd(t, end) \in Nat
  BY DEF NextPeriodEnd

LEMMA EndType ==
    ASSUME TypeOK, NEW u \in User
    PROVE  End(u) \in Nat \cup {None}
  <1>1. sub[u] \in Row \cup {None}
    BY DEF TypeOK
  <1> QED BY <1>1 DEF End, Row

LEMMA FreshType ==
    ASSUME NEW end \in Nat
    PROVE  Fresh(end) \in Row
  BY DEF Fresh, Row

LEMMA AddType ==
    ASSUME TypeOK, NEW u \in User, NEW t \in Nat
    PROVE  Add(t, u) \in [User -> Nat \cup {None}]
  <1>1. owed \in [User -> Nat \cup {None}]
    BY DEF TypeOK
  <1>2. (IF owed[u] = None \/ owed[u] <= t THEN t ELSE owed[u]) + Period \in Nat
    BY <1>1
  <1> QED BY <1>1, <1>2 DEF Add

\* A reminder that is due names what has already happened at its instant.
LEMMA DueIsPast ==
    ASSUME NEW r \in Row, NEW t \in Nat, Due(r, t) # None
    PROVE  /\ Due(r, t) \in ReminderKind
           /\ Due(r, t) = "grace" => t > r.end
           /\ Due(r, t) = "hidden" => t > r.end + Grace
  <1>1. r.end \in Nat /\ r.end # None
    BY DEF Row
  <1>2. CASE Status(r.end, t) = "activa"
    BY <1>1, <1>2 DEF Due, ReminderKind
  <1>3. CASE Status(r.end, t) = "en_gracia"
    BY <1>1, <1>3 DEF Due, Status, ReminderKind
  <1>4. CASE Status(r.end, t) = "vencida"
    BY <1>1, <1>4 DEF Due, Status, ReminderKind
  <1> QED BY <1>2, <1>3, <1>4 DEF Status

LEMMA NoJobType == NoJob \in JobRequest /\ NoJob.at = 0 /\ NoJob.pc = "idle"
  BY DEF NoJob, JobRequest, NoRows

\* The loop of evaluate keeps its instant, or ends.
LEMMA ScanType ==
    ASSUME TypeOK, InThePast, NEW j \in Job, NEW rows \in [User -> Row \cup {None}],
           job' = Scan(j, rows), now' = now
    PROVE  /\ job' \in [Job -> JobRequest]
           /\ \A i \in Job : job'[i].pc = "save" => /\ job'[i].cur \in User
                                                    /\ job'[i].rows[job'[i].cur] # None
           /\ \A i \in Job : job'[i].at <= now'
  <1> DEFINE q == IF rows = NoRows THEN NoJob
                  ELSE [job[j] EXCEPT !.pc = "scan", !.rows = rows, !.cur = None]
  <1>1. job \in [Job -> JobRequest] /\ job[j] \in JobRequest /\ job[j].at <= now /\ now \in Nat
    BY DEF TypeOK, InThePast
  <1>2. q \in JobRequest /\ q.pc # "save" /\ q.at <= now
    <2>1. CASE rows = NoRows
      BY <2>1, <1>1, NoJobType
    <2>2. CASE rows # NoRows
      BY <2>2, <1>1 DEF JobRequest
    <2> QED BY <2>1, <2>2
  <1>3. job' = [job EXCEPT ![j] = q]
    BY DEF Scan
  <1> HIDE DEF q
  <1>4. job'[j] = q /\ \A i \in Job \ {j} : job'[i] = job[i]
    BY <1>1, <1>3
  <1> QED BY <1>1, <1>2, <1>3, <1>4 DEF TypeOK, InThePast

\* The steps of payments leave the jobs alone, and the other way round.
LEMMA JobsKept ==
    ASSUME InThePast, UNCHANGED <<job, now, sent>>
    PROVE  InThePast'
  BY DEF InThePast

LEMMA PaymentsKept ==
    ASSUME OneCreditor, PaidOnce, UNCHANGED <<pay, paid, credits>>
    PROVE  OneCreditor' /\ PaidOnce'
  BY DEF OneCreditor, PaidOnce, Crediting

\* A request that is not about to credit anything endangers nothing.
LEMMA NotCrediting ==
    ASSUME TypeOK, OneCreditor, PaidOnce, NEW s \in Admin, NEW q, q.pc # "upsert",
           pay' = [pay EXCEPT ![s] = q], UNCHANGED <<paid, credits>>
    PROVE  OneCreditor' /\ PaidOnce'
  <1>1. pay'[s] = q /\ \A t \in Admin \ {s} : pay'[t] = pay[t]
    BY DEF TypeOK
  <1>2. ~Crediting(s)' /\ \A t \in Admin \ {s} : Crediting(t)' = Crediting(t)
    BY <1>1 DEF Crediting
  <1> QED BY <1>1, <1>2 DEF OneCreditor, PaidOnce

LEMMA PayTyped ==
    ASSUME TypeOK, NEW s \in Admin, NEW q \in PayRequest, q.pc # "idle" => q.of \in Payment,
           pay' = [pay EXCEPT ![s] = q]
    PROVE  /\ pay' \in [Admin -> PayRequest]
           /\ \A t \in Admin : pay'[t].pc # "idle" => pay'[t].of \in Payment
  <1>1. pay'[s] = q /\ \A t \in Admin \ {s} : pay'[t] = pay[t]
    BY DEF TypeOK
  <1> QED BY <1>1 DEF TypeOK

LEMMA NoPayType == NoPay \in PayRequest /\ NoPay.pc = "idle"
  BY DEF NoPay, PayRequest

----------------------------------------------------------------------------
(* The steps of payments and grants *)

LEMMA RecordPaymentStep ==
    ASSUME IInv, NEW s \in Admin, NEW p \in Payment, RecordPayment(s, p)
    PROVE  IInv'
  <1> DEFINE q == [pc |-> IF p \in Anonymous THEN "current" ELSE "find",
                   of |-> p, at |-> now, end |-> 0]
  <1>1. /\ pay' = [pay EXCEPT ![s] = q]
        /\ spent' = [spent EXCEPT !.submits = @ + 1]
        /\ disturbed' = disturbed \cup {u \in {PayUser[p]} : Busy(u)}
        /\ UNCHANGED <<sub, paid, job, now, credits, owed, sent, twice>>
    BY DEF RecordPayment
  <1>2. q \in PayRequest /\ q.pc # "upsert" /\ q.of \in Payment
    BY DEF PayRequest, IInv, TypeOK
  <1> HIDE DEF q
  <1>3. /\ pay' \in [Admin -> PayRequest]
        /\ \A t \in Admin : pay'[t].pc # "idle" => pay'[t].of \in Payment
    BY <1>1, <1>2, PayTyped DEF IInv
  <1>4. disturbed' \subseteq User /\ spent' \in Bounds
    BY <1>1 DEF IInv, TypeOK, Bounds
  <1>5. TypeOK'
    BY <1>1, <1>3, <1>4 DEF IInv, TypeOK
  <1>6. OneCreditor' /\ PaidOnce'
    BY <1>1, <1>2, NotCrediting DEF IInv
  <1> QED BY <1>1, <1>5, <1>6, JobsKept DEF IInv

LEMMA FindPaymentStep ==
    ASSUME IInv, NEW s \in Admin, FindPayment(s)
    PROVE  IInv'
  <1> DEFINE q == IF pay[s].of \in paid THEN NoPay
                  ELSE [pay[s] EXCEPT !.pc = "current", !.at = now]
  <1>1. /\ pay[s].pc = "find" /\ pay' = [pay EXCEPT ![s] = q]
        /\ UNCHANGED <<sub, paid, job, now, credits, owed, sent, twice, disturbed, spent>>
    BY DEF FindPayment, Recorded
  <1>2. pay[s] \in PayRequest /\ pay[s].of \in Payment /\ now \in Nat
    BY <1>1 DEF IInv, TypeOK
  <1>3. q \in PayRequest /\ q.pc # "upsert" /\ (q.pc # "idle" => q.of \in Payment)
    BY <1>2, NoPayType DEF PayRequest
  <1> HIDE DEF q
  <1>4. TypeOK'
    BY <1>1, <1>3, PayTyped DEF IInv, TypeOK
  <1>5. OneCreditor' /\ PaidOnce'
    BY <1>1, <1>3, NotCrediting DEF IInv
  <1> QED BY <1>1, <1>4, <1>5, JobsKept DEF IInv

LEMMA ReadCurrentStep ==
    ASSUME IInv, NEW s \in Admin, ReadCurrent(s)
    PROVE  IInv'
  <1> DEFINE e == NextPeriodEnd(pay[s].at, End(PayUser[pay[s].of]))
             q == [pay[s] EXCEPT !.pc = "insert", !.end = e]
  <1>1. /\ pay[s].pc = "current" /\ pay' = [pay EXCEPT ![s] = q]
        /\ UNCHANGED <<sub, paid, job, now, credits, owed, sent, twice, disturbed, spent>>
    BY DEF ReadCurrent
  <1>2. pay[s] \in PayRequest /\ pay[s].of \in Payment /\ pay[s].at \in Nat
    BY <1>1 DEF IInv, TypeOK, PayRequest
  <1>3. e \in Nat
    BY <1>2, EndType, NextPeriodEndType DEF IInv
  <1> HIDE DEF e
  <1>4. q \in PayRequest /\ q.pc # "upsert" /\ (q.pc # "idle" => q.of \in Payment)
    BY <1>2, <1>3 DEF PayRequest
  <1> HIDE DEF q
  <1>5. TypeOK'
    BY <1>1, <1>4, PayTyped DEF IInv, TypeOK
  <1>6. OneCreditor' /\ PaidOnce'
    BY <1>1, <1>4, NotCrediting DEF IInv
  <1> QED BY <1>1, <1>5, <1>6, JobsKept DEF IInv

\* The unique index: the row of a reference goes in when nobody's has, so nobody
\* else is about to credit it and it has not been credited.
LEMMA InsertPaymentStep ==
    ASSUME IInv, NEW s \in Admin, InsertPayment(s)
    PROVE  IInv'
  <1>1. /\ pay[s].pc = "insert"
        /\ UNCHANGED <<sub, job, now, credits, sent, twice, disturbed, spent>>
    BY DEF InsertPayment, Inserted, Recorded
  <1>2. pay[s] \in PayRequest /\ pay[s].of \in Payment /\ pay[s].at \in Nat
    BY <1>1 DEF IInv, TypeOK, PayRequest
  <1>3. CASE pay[s].of \in paid
    <2>1. pay' = [pay EXCEPT ![s] = NoPay] /\ UNCHANGED <<paid, owed>>
      BY <1>3 DEF InsertPayment, Inserted, Recorded
    <2>2. TypeOK'
      BY <2>1, <1>1, NoPayType, PayTyped DEF IInv, TypeOK
    <2>3. OneCreditor' /\ PaidOnce'
      BY <2>1, <1>1, NoPayType, NotCrediting DEF IInv
    <2> QED BY <2>2, <2>3, <1>1, JobsKept DEF IInv
  <1>4. CASE pay[s].of \notin paid
    <2> DEFINE q == [pay[s] EXCEPT !.pc = "upsert"]
    <2>1. /\ pay' = [pay EXCEPT ![s] = q]
          /\ paid' = paid \cup ({pay[s].of} \ Anonymous)
          /\ owed' = Add(pay[s].at, PayUser[pay[s].of])
      BY <1>4 DEF InsertPayment, Inserted, Recorded
    <2>2. q \in PayRequest /\ q.pc = "upsert" /\ q.of = pay[s].of
      BY <1>2 DEF PayRequest
    <2> HIDE DEF q
    <2>3. owed' \in [User -> Nat \cup {None}]
      BY <2>1, <1>2, AddType DEF IInv
    <2>4. TypeOK'
      BY <2>1, <2>2, <2>3, <1>1, <1>2, PayTyped DEF IInv, TypeOK
    <2>5. pay'[s] = q /\ \A t \in Admin \ {s} : pay'[t] = pay[t]
      BY <2>1 DEF IInv, TypeOK
    <2>6. \A t \in Admin \ {s} : /\ Crediting(t)' <=> Crediting(t)
                                 /\ Crediting(t) => pay[t].of # pay[s].of
      BY <2>5, <1>4 DEF Crediting, IInv, OneCreditor
    <2>7. Crediting(s)' => pay'[s].of \in paid' /\ credits[pay'[s].of] = 0
      <3>1. pay[s].of \notin Anonymous => credits[pay[s].of] = 0
        BY <1>2, <1>4 DEF IInv, OneCreditor, TypeOK
      <3> QED BY <3>1, <2>1, <2>2, <2>5, <1>2 DEF Crediting
    <2>8. OneCreditor' /\ PaidOnce'
      BY <2>1, <2>2, <2>5, <2>6, <2>7, <1>1 DEF IInv, OneCreditor, PaidOnce
    <2> QED BY <2>4, <2>8, <1>1, JobsKept DEF IInv
  <1> QED BY <1>3, <1>4

LEMMA UpsertPaidStep ==
    ASSUME IInv, NEW s \in Admin, UpsertPaid(s)
    PROVE  IInv'
  <1> DEFINE p == pay[s].of
  <1>1. /\ pay[s].pc = "upsert"
        /\ sub' = [sub EXCEPT ![PayUser[p]] = Fresh(pay[s].end)]
        /\ credits' = [credits EXCEPT ![p] = @ + 1]
        /\ pay' = [pay EXCEPT ![s] = NoPay]
        /\ UNCHANGED <<paid, job, now, owed, sent, twice, disturbed, spent>>
    BY DEF UpsertPaid, Upsert
  <1>2. p \in Payment /\ pay[s].end \in Nat
    BY <1>1 DEF IInv, TypeOK, PayRequest
  <1>3. Fresh(pay[s].end) \in Row
    BY <1>2, FreshType
  <1>4. credits' \in [Payment -> Nat] /\ sub' \in [User -> Row \cup {None}]
    BY <1>1, <1>2, <1>3 DEF IInv, TypeOK
  <1>5. TypeOK'
    BY <1>1, <1>4, NoPayType, PayTyped DEF IInv, TypeOK
  <1>6. ~Crediting(s)' /\ \A t \in Admin \ {s} : Crediting(t)' => Crediting(t) /\ pay'[t] = pay[t]
    BY <1>1, NoPayType DEF Crediting, IInv, TypeOK
  <1>7. p \notin Anonymous =>
          /\ p \in paid /\ credits[p] = 0
          /\ \A t \in Admin \ {s} : Crediting(t) => pay[t].of # p
    BY <1>1 DEF Crediting, IInv, OneCreditor
  <1>8. credits'[p] = credits[p] + 1 /\ \A x \in Payment \ {p} : credits'[x] = credits[x]
    BY <1>1, <1>2 DEF IInv, TypeOK
  <1>9. \A t \in Admin : Crediting(t)' => /\ t # s /\ Crediting(t) /\ pay'[t] = pay[t]
                                          /\ pay[t].of \in Payment /\ pay[t].of # p
    BY <1>6, <1>7 DEF Crediting, IInv, TypeOK
  <1>10. OneCreditor'
    BY <1>1, <1>7, <1>8, <1>9 DEF IInv, OneCreditor
  <1>11. PaidOnce'
    BY <1>7, <1>8 DEF IInv, PaidOnce
  <1> QED BY <1>1, <1>5, <1>10, <1>11, JobsKept DEF IInv

LEMMA GrantStep ==
    ASSUME IInv, NEW u \in User, Grant(u)
    PROVE  IInv'
  <1>1. /\ sub' = [sub EXCEPT ![u] = Fresh(NextPeriodEnd(now, End(u)))]
        /\ owed' = Add(now, u)
        /\ spent' = [spent EXCEPT !.submits = @ + 1]
        /\ disturbed' = disturbed \cup {v \in {u} : Busy(v)}
        /\ UNCHANGED <<paid, pay, job, now, credits, sent, twice>>
    BY DEF Grant, Upsert
  <1>2. now \in Nat
    BY DEF IInv, TypeOK
  <1>3. Fresh(NextPeriodEnd(now, End(u))) \in Row
    BY <1>2, EndType, NextPeriodEndType, FreshType DEF IInv
  <1>4. owed' \in [User -> Nat \cup {None}]
    BY <1>1, <1>2, AddType DEF IInv
  <1>5. spent' \in Bounds /\ disturbed' \subseteq User
    BY <1>1 DEF IInv, TypeOK, Bounds
  <1>6. TypeOK'
    BY <1>1, <1>3, <1>4, <1>5 DEF IInv, TypeOK
  <1> QED BY <1>1, <1>6, PaymentsKept, JobsKept DEF IInv

----------------------------------------------------------------------------
(* The steps of the job *)

LEMMA EvaluateStep ==
    ASSUME IInv, NEW j \in Job, Evaluate(j)
    PROVE  IInv'
  <1> DEFINE q == [NoJob EXCEPT !.pc = "list", !.at = now]
  <1>1. /\ job' = [job EXCEPT ![j] = q]
        /\ UNCHANGED <<sub, paid, pay, now, credits, owed, sent, twice, disturbed, spent>>
    BY DEF Evaluate
  <1>2. q \in JobRequest /\ q.pc = "list" /\ q.at = now /\ now \in Nat
    BY NoJobType DEF JobRequest, IInv, TypeOK
  <1> HIDE DEF q
  <1>3. job'[j] = q /\ \A i \in Job \ {j} : job'[i] = job[i]
    BY <1>1 DEF IInv, TypeOK
  <1>4. TypeOK'
    BY <1>1, <1>2, <1>3 DEF IInv, TypeOK
  <1>5. InThePast'
    BY <1>1, <1>2, <1>3 DEF IInv, InThePast
  <1> QED BY <1>1, <1>4, <1>5, PaymentsKept DEF IInv

LEMMA ListAllStep ==
    ASSUME IInv, NEW j \in Job, ListAll(j)
    PROVE  IInv'
  <1>1. /\ job' = Scan(j, sub)
        /\ disturbed' = disturbed \cup {u \in User : sub[u] # None /\ Busy(u)}
        /\ UNCHANGED <<sub, paid, pay, now, credits, owed, sent, twice, spent>>
    BY DEF ListAll
  <1>2. sub \in [User -> Row \cup {None}]
    BY DEF IInv, TypeOK
  <1>3. /\ job' \in [Job -> JobRequest]
        /\ \A i \in Job : job'[i].pc = "save" => /\ job'[i].cur \in User
                                                 /\ job'[i].rows[job'[i].cur] # None
        /\ \A i \in Job : job'[i].at <= now'
    BY <1>1, <1>2, ScanType DEF IInv
  <1>4. TypeOK'
    BY <1>1, <1>3 DEF IInv, TypeOK
  <1>5. InThePast'
    BY <1>1, <1>3 DEF IInv, InThePast
  <1> QED BY <1>1, <1>4, <1>5, PaymentsKept DEF IInv

LEMMA RemindStep ==
    ASSUME IInv, NEW j \in Job, NEW u \in User, Remind(j, u)
    PROVE  IInv'
  <1> DEFINE r == job[j].rows[u]
             k == Due(r, job[j].at)
  <1>1. /\ job[j].pc = "scan" /\ r # None
        /\ UNCHANGED <<sub, paid, pay, now, credits, owed, disturbed, spent>>
    BY DEF Remind
  <1>2. job[j] \in JobRequest /\ job[j].at \in Nat /\ job[j].at <= now /\ now \in Nat
    BY DEF IInv, TypeOK, InThePast, JobRequest
  <1>3. job[j].rows \in [User -> Row \cup {None}] /\ r \in Row /\ r.end \in Nat
    BY <1>1, <1>2 DEF JobRequest, Row
  <1>4. CASE k = None
    <2> DEFINE rows == [job[j].rows EXCEPT ![u] = None]
    <2>1. job' = Scan(j, rows) /\ UNCHANGED <<sent, twice>>
      BY <1>4 DEF Remind
    <2>2. rows \in [User -> Row \cup {None}]
      BY <1>3
    <2> HIDE DEF rows
    <2>3. /\ job' \in [Job -> JobRequest]
          /\ \A i \in Job : job'[i].pc = "save" => /\ job'[i].cur \in User
                                                   /\ job'[i].rows[job'[i].cur] # None
          /\ \A i \in Job : job'[i].at <= now'
      BY <1>1, <2>1, <2>2, ScanType DEF IInv
    <2>4. TypeOK'
      BY <1>1, <2>1, <2>3 DEF IInv, TypeOK
    <2>5. InThePast'
      BY <1>1, <2>1, <2>3 DEF IInv, InThePast
    <2> QED BY <1>1, <2>4, <2>5, PaymentsKept DEF IInv
  <1>5. CASE k # None
    <2> DEFINE q == [job[j] EXCEPT !.pc = "save", !.cur = u]
    <2>1. /\ job' = [job EXCEPT ![j] = q]
          /\ sent' = sent \cup {<<u, k, r.end>>}
          /\ twice' = twice \cup ({<<u, k, r.end>>} \cap sent)
      BY <1>5 DEF Remind
    <2>2. q \in JobRequest /\ q.at = job[j].at /\ q.cur = u /\ q.rows[q.cur] # None
      BY <1>1, <1>2 DEF JobRequest
    <2>3. /\ k \in ReminderKind
          /\ k = "grace" => now > r.end
          /\ k = "hidden" => now > r.end + Grace
      BY <1>2, <1>3, <1>5, DueIsPast
    <2> HIDE DEF q, k, r
    <2>4. job'[j] = q /\ \A i \in Job \ {j} : job'[i] = job[i]
      BY <2>1 DEF IInv, TypeOK
    <2>5. job' \in [Job -> JobRequest]
      BY <2>1, <2>2 DEF IInv, TypeOK
    <2>6. sent' \subseteq User \X ReminderKind \X Nat /\ twice' \subseteq sent'
      BY <2>1, <2>3, <1>3 DEF IInv, TypeOK
    <2>7. TypeOK'
      BY <1>1, <2>2, <2>4, <2>5, <2>6 DEF IInv, TypeOK
    <2>8. \A n \in sent' : n \in sent \/ (n[2] = k /\ n[3] = r.end)
      BY <2>1
    <2>9. InThePast'
      BY <1>1, <1>2, <2>2, <2>3, <2>4, <2>8 DEF IInv, InThePast
    <2> QED BY <1>1, <2>7, <2>9, PaymentsKept DEF IInv
  <1> QED BY <1>4, <1>5

LEMMA SaveStep ==
    ASSUME IInv, NEW j \in Job, Save(j)
    PROVE  IInv'
  <1> DEFINE u == job[j].cur
             r == job[j].rows[u]
             rows == [job[j].rows EXCEPT ![u] = None]
             saved == [r EXCEPT !.told[Due(r, job[j].at)] = r.end]
  <1>1. /\ job[j].pc = "save"
        /\ sub' = [sub EXCEPT ![u] = saved]
        /\ job' = Scan(j, rows)
        /\ UNCHANGED <<paid, pay, now, credits, owed, sent, twice, disturbed, spent>>
    BY DEF Save, Upsert
  <1>2. job[j] \in JobRequest /\ u \in User /\ r # None
    BY <1>1 DEF IInv, TypeOK
  <1>3. job[j].rows \in [User -> Row \cup {None}] /\ r \in Row
    BY <1>2 DEF JobRequest
  <1>4. rows \in [User -> Row \cup {None}]
    BY <1>3
  <1>5. saved \in Row
    BY <1>3 DEF Row
  <1> HIDE DEF rows, saved
  <1>6. sub' \in [User -> Row \cup {None}]
    BY <1>1, <1>2, <1>5 DEF IInv, TypeOK
  <1>7. /\ job' \in [Job -> JobRequest]
        /\ \A i \in Job : job'[i].pc = "save" => /\ job'[i].cur \in User
                                                 /\ job'[i].rows[job'[i].cur] # None
        /\ \A i \in Job : job'[i].at <= now'
    BY <1>1, <1>4, ScanType DEF IInv
  <1>8. TypeOK'
    BY <1>1, <1>6, <1>7 DEF IInv, TypeOK
  <1>9. InThePast'
    BY <1>1, <1>7 DEF IInv, InThePast
  <1> QED BY <1>1, <1>8, <1>9, PaymentsKept DEF IInv

----------------------------------------------------------------------------
(* Failures and time *)

LEMMA CutType ==
    ASSUME TypeOK, NEW admins \in SUBSET Admin, NEW jobs \in SUBSET Job
    PROVE  Cut(admins, jobs) \subseteq User
  BY DEF Cut, TypeOK

LEMMA FaultStep ==
    ASSUME IInv, (\E s \in Admin : FailPay(s)) \/ (\E j \in Job : FailJob(j)) \/ Crash
    PROVE  IInv'
  <1>1. ASSUME NEW s \in Admin, FailPay(s) PROVE IInv'
    <2>1. /\ pay' = [pay EXCEPT ![s] = NoPay]
          /\ spent' = [spent EXCEPT !.faults = @ + 1]
          /\ disturbed' = disturbed \cup Cut({s}, {})
          /\ UNCHANGED <<sub, paid, job, now, credits, owed, sent, twice>>
      BY <1>1 DEF FailPay
    <2>2. disturbed' \subseteq User /\ spent' \in Bounds
      BY <2>1, CutType DEF IInv, TypeOK, Bounds
    <2>3. TypeOK'
      BY <2>1, <2>2, NoPayType, PayTyped DEF IInv, TypeOK
    <2>4. OneCreditor' /\ PaidOnce'
      BY <2>1, NoPayType, NotCrediting DEF IInv
    <2> QED BY <2>1, <2>3, <2>4, JobsKept DEF IInv
  <1>2. ASSUME NEW j \in Job, FailJob(j) PROVE IInv'
    <2>1. /\ job' = [job EXCEPT ![j] = NoJob]
          /\ spent' = [spent EXCEPT !.faults = @ + 1]
          /\ disturbed' = disturbed \cup Cut({}, {j})
          /\ UNCHANGED <<sub, paid, pay, now, credits, owed, sent, twice>>
      BY <1>2 DEF FailJob
    <2>2. disturbed' \subseteq User /\ spent' \in Bounds
      BY <2>1, CutType DEF IInv, TypeOK, Bounds
    <2>3. job'[j] = NoJob /\ \A i \in Job \ {j} : job'[i] = job[i]
      BY <2>1 DEF IInv, TypeOK
    <2>4. TypeOK'
      BY <2>1, <2>2, <2>3, NoJobType DEF IInv, TypeOK
    <2>5. InThePast'
      BY <2>1, <2>3, NoJobType DEF IInv, InThePast, TypeOK
    <2> QED BY <2>1, <2>4, <2>5, PaymentsKept DEF IInv
  <1>3. ASSUME Crash PROVE IInv'
    <2>1. /\ pay' = [s \in Admin |-> NoPay]
          /\ job' = [j \in Job |-> NoJob]
          /\ spent' = [spent EXCEPT !.faults = @ + 1]
          /\ disturbed' = disturbed \cup Cut(Admin, Job)
          /\ UNCHANGED <<sub, paid, now, credits, owed, sent, twice>>
      BY <1>3 DEF Crash
    <2>2. disturbed' \subseteq User /\ spent' \in Bounds
      BY <2>1, CutType DEF IInv, TypeOK, Bounds
    <2>3. TypeOK'
      BY <2>1, <2>2, NoPayType, NoJobType DEF IInv, TypeOK
    <2>4. OneCreditor' /\ PaidOnce'
      BY <2>1, NoPayType DEF IInv, OneCreditor, PaidOnce, Crediting
    <2>5. InThePast'
      BY <2>1, NoJobType DEF IInv, InThePast, TypeOK
    <2> QED BY <2>3, <2>4, <2>5 DEF IInv
  <1> QED BY <1>1, <1>2, <1>3

LEMMA TickStep ==
    ASSUME IInv, Tick
    PROVE  IInv'
  <1>1. /\ now' = now + 1 /\ now \in Nat
        /\ UNCHANGED <<sub, paid, pay, job, credits, owed, sent, twice, disturbed, spent>>
    BY DEF Tick, IInv, TypeOK
  <1>2. TypeOK'
    BY <1>1 DEF IInv, TypeOK
  <1>3. \A j \in Job : job[j].at \in Nat
    BY DEF IInv, TypeOK, JobRequest
  <1>4. \A n \in sent : n[3] \in Nat
    BY DEF IInv, TypeOK
  <1>5. InThePast'
    BY <1>1, <1>3, <1>4 DEF IInv, InThePast
  <1> QED BY <1>1, <1>2, <1>5, PaymentsKept DEF IInv

----------------------------------------------------------------------------
(* The invariant and what follows from it *)

LEMMA Initially == Init => IInv
  <1> SUFFICES ASSUME Init PROVE IInv
    OBVIOUS
  <1> PICK b \in Starts :
          /\ now = b.now
          /\ sub = [u \in User |-> IF u \in b.old THEN Fresh(b.now) ELSE None]
          /\ owed = [u \in User |-> IF u \in b.old THEN b.now ELSE None]
          /\ spent = [submits |-> b.submits, faults |-> 0, cast |-> b.cast]
    BY DEF Init
  <1>0. b.now \in Nat /\ b.submits \in Nat /\ b.cast \in Cast
    BY DEF Start
  <1>4. sub \in [User -> Row \cup {None}] /\ owed \in [User -> Nat \cup {None}]
    BY <1>0, FreshType
  <1>5. now \in Nat /\ spent \in Bounds
    BY <1>0 DEF Bounds
  <1>1. TypeOK
    BY <1>4, <1>5, NoPayType, NoJobType DEF Init, TypeOK
  <1>2. OneCreditor /\ PaidOnce
    BY NoPayType DEF Init, OneCreditor, PaidOnce, Crediting
  <1>3. InThePast
    BY <1>5, NoJobType DEF Init, InThePast
  <1> QED BY <1>1, <1>2, <1>3 DEF IInv

LEMMA Inductive == IInv /\ [Next]_vars => IInv'
  <1> SUFFICES ASSUME IInv, [Next]_vars PROVE IInv'
    OBVIOUS
  <1>1. CASE UNCHANGED vars
    <2>1. UNCHANGED <<sub, paid, pay, job, now, credits, owed, sent, twice, disturbed, spent>>
      BY <1>1 DEF vars
    <2>2. TypeOK'
      BY <2>1 DEF IInv, TypeOK
    <2> QED BY <2>1, <2>2, PaymentsKept, JobsKept DEF IInv
  <1>2. CASE Next
    BY <1>2, RecordPaymentStep, FindPaymentStep, ReadCurrentStep, InsertPaymentStep,
       UpsertPaidStep, GrantStep, EvaluateStep, ListAllStep, RemindStep, SaveStep,
       FaultStep, TickStep DEF Next, JobStep
  <1> QED BY <1>1, <1>2

LEMMA NoticesFollow == IInv => NoticesAreTrue
  <1> SUFFICES ASSUME IInv, NEW n \in sent, End(n[1]) = n[3]
               PROVE  /\ n[2] = "hidden" => ~ListedSince(n[3], now)
                      /\ n[2] = "grace" => Status(n[3], now) # "activa"
    BY DEF NoticesAreTrue
  <1>1. n[3] \in Nat /\ now \in Nat
    BY DEF IInv, TypeOK
  <1> QED BY <1>1 DEF IInv, InThePast, ListedSince, Status

LEMMA Always == Spec => []IInv
  BY Initially, Inductive, PTL DEF Spec

\* Every row, payment, request and reminder keeps its type (schema.prisma,
\* suscripciones.service.ts), whatever overlaps or fails.
THEOREM ListingTypeCorrect == Spec => []TypeOK
  <1>1. IInv => TypeOK
    BY DEF IInv
  <1> QED BY <1>1, Always, PTL

\* recordPayment credits a reference at most once, for any number of administrators
\* recording it at once and any failures in between.
THEOREM PaidAtMostOnce == Spec => []PaidOnce
  <1>1. IInv => PaidOnce
    BY DEF IInv
  <1> QED BY <1>1, Always, PTL

\* The SQL filter of the listings and isListed agree for every length of the period
\* and of the grace, at every instant.
THEOREM ListingsAlwaysAgree == Spec => []ListingsAgree
  <1>1. ASSUME IInv, NEW u \in User
               PROVE  /\ ListedSince(End(u), now) = IsListed(End(u), now)
                      /\ Searched(End(u), now) = IsListed(End(u), now)
    <2>1. End(u) \in Nat \cup {None} /\ now \in Nat
      BY <1>1, EndType DEF IInv, TypeOK
    <2>2. Grace \in Nat
      BY SuscripcionesAssumption
    <2> QED BY <2>1, <2>2 DEF ListedSince, Searched, IsListed, Status
  <1>2. IInv => ListingsAgree
    BY <1>1 DEF ListingsAgree
  <1> QED BY <1>2, Always, PTL

\* maybeRemind never tells a user more than the marketplace shows, for any number of
\* jobs working on rows read at any time in the past.
THEOREM NoticesHold == Spec => []NoticesAreTrue
  BY NoticesFollow, Always, PTL

----------------------------------------------------------------------------
(* Alone, a user gets what was paid for *)

OnPay(s, u)   == pay[s].pc # "idle" /\ PayUser[pay[s].of] = u
OnJob(j, u)   == job[j].rows[u] # None
Marking(j, u) == job[j].pc = "save" /\ job[j].cur = u

\* At most one request works on the user.
OneWorker(u) ==
    /\ \A s, t \in Admin : (OnPay(s, u) /\ OnPay(t, u)) => s = t
    /\ \A i, j \in Job : (OnJob(i, u) /\ OnJob(j, u)) => i = j
    /\ \A s \in Admin, j \in Job : ~(OnPay(s, u) /\ OnJob(j, u))

\* So what a job read is the row still, and what a payment computed is right.
RowsCurrent(u) == \A j \in Job : OnJob(j, u) => job[j].rows[u] = sub[u]

PayRight(u) ==
    \A s \in Admin : OnPay(s, u) =>
        /\ pay[s].pc = "insert" => pay[s].end = NextPeriodEnd(pay[s].at, End(u))
        /\ pay[s].pc = "upsert" => /\ pay[s].end = owed[u]
                                   /\ End(u) # None => End(u) < pay[s].end

\* The period is the one owed, but between the two writes of a payment.
EndRight(u) == (\A s \in Admin : OnPay(s, u) => pay[s].pc # "upsert") => End(u) = owed[u]

\* A reminder of the current period is marked on the row, or about to be.
Marked(u) ==
    \A n \in sent : n[1] = u =>
        /\ sub[u] # None /\ n[3] <= sub[u].end
        /\ n[3] = sub[u].end =>
              \/ sub[u].told[n[2]] = n[3]
              \/ \E j \in Job : Marking(j, u) /\ n[2] = Due(job[j].rows[u], job[j].at)

Exact(u) == OneWorker(u) /\ RowsCurrent(u) /\ PayRight(u) /\ EndRight(u) /\ Marked(u)

ExactInv ==
    /\ IInv
    /\ \A u \in User \ disturbed : Exact(u)
    /\ \A n \in twice : n[1] \in disturbed

LEMMA ExactPay ==
    ASSUME TypeOK, NEW u \in User, Exact(u), NEW s \in Admin, NEW q,
           pay' = [pay EXCEPT ![s] = q], UNCHANGED <<sub, job, owed, sent>>,
           ~(OnPay(s, u) /\ pay[s].pc = "upsert"),
           (q.pc # "idle" /\ PayUser[q.of] = u) =>
               /\ OnPay(s, u) \/ ~Busy(u)
               /\ q.pc # "upsert"
               /\ q.pc = "insert" => q.end = NextPeriodEnd(q.at, End(u))
    PROVE  Exact(u)'
  <1>1. pay'[s] = q /\ \A t \in Admin \ {s} : pay'[t] = pay[t]
    BY DEF TypeOK
  <1>2. /\ \A t \in Admin \ {s} : OnPay(t, u)' = OnPay(t, u)
        /\ \A j \in Job : OnJob(j, u)' = OnJob(j, u) /\ Marking(j, u)' = Marking(j, u)
        /\ End(u)' = End(u)
    BY <1>1 DEF OnPay, OnJob, Marking, End
  <1>3. OnPay(s, u)' => /\ OnPay(s, u) \/ ~Busy(u)
                        /\ pay'[s].pc # "upsert"
                        /\ pay'[s].pc = "insert" =>
                              pay'[s].end = NextPeriodEnd(pay'[s].at, End(u))
    BY <1>1 DEF OnPay
  <1>4. Busy(u) <=> (\E t \in Admin : OnPay(t, u)) \/ (\E j \in Job : OnJob(j, u))
    BY DEF Busy, OnPay, OnJob
  <1>5. OneWorker(u)'
    BY <1>2, <1>3, <1>4 DEF Exact, OneWorker
  <1>6. PayRight(u)'
    BY <1>1, <1>2, <1>3 DEF Exact, PayRight
  <1>7. EndRight(u)'
    BY <1>1, <1>2, <1>3, <1>4 DEF Exact, EndRight
  <1>8. RowsCurrent(u)' /\ Marked(u)'
    BY <1>2 DEF Exact, RowsCurrent, Marked
  <1> QED BY <1>5, <1>6, <1>7, <1>8 DEF Exact

LEMMA ExactJob ==
    ASSUME TypeOK, NEW u \in User, Exact(u), NEW j \in Job, NEW q,
           job' = [job EXCEPT ![j] = q], UNCHANGED <<sub, pay, owed, sent>>,
           ~Marking(j, u),
           q.rows[u] # None => q.rows[u] = sub[u] /\ (OnJob(j, u) \/ ~Busy(u))
    PROVE  Exact(u)'
  <1>1. job'[j] = q /\ \A i \in Job \ {j} : job'[i] = job[i]
    BY DEF TypeOK
  <1>2. /\ \A t \in Admin : OnPay(t, u)' = OnPay(t, u)
        /\ \A i \in Job \ {j} : OnJob(i, u)' = OnJob(i, u) /\ Marking(i, u)' = Marking(i, u)
        /\ End(u)' = End(u)
    BY <1>1 DEF OnPay, OnJob, Marking, End
  <1>3. OnJob(j, u)' => job'[j].rows[u] = sub[u] /\ (OnJob(j, u) \/ ~Busy(u))
    BY <1>1 DEF OnJob
  <1>4. Busy(u) <=> (\E t \in Admin : OnPay(t, u)) \/ (\E i \in Job : OnJob(i, u))
    BY DEF Busy, OnPay, OnJob
  <1>5. OneWorker(u)'
    BY <1>2, <1>3, <1>4 DEF Exact, OneWorker
  <1>6. PayRight(u)' /\ EndRight(u)'
    BY <1>2 DEF Exact, PayRight, EndRight
  <1>7. RowsCurrent(u)'
    BY <1>1, <1>2, <1>3 DEF Exact, RowsCurrent
  <1>8. Marked(u)'
    BY <1>1, <1>2 DEF Exact, Marked
  <1> QED BY <1>5, <1>6, <1>7, <1>8 DEF Exact

\* The steps of requests that neither record nor credit.
LEMMA ExactAsking ==
    ASSUME ExactInv, NEW s \in Admin, NEW u \in User \ disturbed',
           \/ \E p \in Payment : RecordPayment(s, p)
           \/ FindPayment(s) \/ ReadCurrent(s) \/ FailPay(s)
           \/ InsertPayment(s) /\ Recorded(pay[s].of)
    PROVE  Exact(u)'
  <1>1. TypeOK /\ (u \notin disturbed => Exact(u))
    BY DEF ExactInv, IInv
  <1>2. ASSUME NEW p \in Payment, RecordPayment(s, p) PROVE Exact(u)'
    <2> DEFINE q == [pc |-> IF p \in Anonymous THEN "current" ELSE "find",
                     of |-> p, at |-> now, end |-> 0]
    <2>1. /\ pay' = [pay EXCEPT ![s] = q] /\ UNCHANGED <<sub, job, owed, sent>>
          /\ pay[s].pc = "idle" /\ u \notin disturbed /\ (PayUser[p] = u => ~Busy(u))
      BY <1>2 DEF RecordPayment
    <2>2. q.of = p /\ q.pc \notin {"upsert", "insert"}
      OBVIOUS
    <2> HIDE DEF q
    <2>3. /\ ~(OnPay(s, u) /\ pay[s].pc = "upsert")
          /\ (q.pc # "idle" /\ PayUser[q.of] = u) =>
               /\ OnPay(s, u) \/ ~Busy(u)
               /\ q.pc # "upsert"
               /\ q.pc = "insert" => q.end = NextPeriodEnd(q.at, End(u))
      BY <2>1, <2>2 DEF OnPay
    <2> QED BY <1>1, <2>1, <2>3, ExactPay
  <1>3. CASE FindPayment(s)
    <2> DEFINE q == IF Recorded(pay[s].of) THEN NoPay
                    ELSE [pay[s] EXCEPT !.pc = "current", !.at = now]
    <2>1. pay' = [pay EXCEPT ![s] = q]
      BY <1>3 DEF FindPayment
    <2>4. q.pc = "idle" \/ (q.pc = "current" /\ q.of = pay[s].of)
      BY <1>1, NoPayType DEF TypeOK, PayRequest
    <2> HIDE DEF q
    <2>2. UNCHANGED <<sub, job, owed, sent, disturbed>> /\ pay[s].pc = "find"
      BY <1>3 DEF FindPayment
    <2>3. /\ ~(OnPay(s, u) /\ pay[s].pc = "upsert")
          /\ (q.pc # "idle" /\ PayUser[q.of] = u) =>
               /\ OnPay(s, u) \/ ~Busy(u)
               /\ q.pc # "upsert"
               /\ q.pc = "insert" => q.end = NextPeriodEnd(q.at, End(u))
      BY <2>2, <2>4 DEF OnPay
    <2> QED BY <1>1, <2>1, <2>2, <2>3, ExactPay
  <1>4. CASE ReadCurrent(s)
    <2> DEFINE q == [pay[s] EXCEPT !.pc = "insert",
                       !.end = NextPeriodEnd(pay[s].at, End(PayUser[pay[s].of]))]
    <2>1. /\ pay' = [pay EXCEPT ![s] = q]
          /\ UNCHANGED <<sub, job, owed, sent, disturbed>> /\ pay[s].pc = "current"
      BY <1>4 DEF ReadCurrent
    <2>2. /\ q.of = pay[s].of /\ q.at = pay[s].at /\ q.pc = "insert"
          /\ q.end = NextPeriodEnd(pay[s].at, End(PayUser[pay[s].of]))
      BY <1>1 DEF TypeOK, PayRequest
    <2> HIDE DEF q
    <2>3. /\ ~(OnPay(s, u) /\ pay[s].pc = "upsert")
          /\ (q.pc # "idle" /\ PayUser[q.of] = u) =>
               /\ OnPay(s, u) \/ ~Busy(u)
               /\ q.pc # "upsert"
               /\ q.pc = "insert" => q.end = NextPeriodEnd(q.at, End(u))
      BY <2>1, <2>2 DEF OnPay
    <2> QED BY <1>1, <2>1, <2>3, ExactPay
  <1>5. ASSUME FailPay(s) \/ (InsertPayment(s) /\ Recorded(pay[s].of)) PROVE Exact(u)'
    <2>1. /\ pay' = [pay EXCEPT ![s] = NoPay] /\ UNCHANGED <<sub, job, owed, sent>>
          /\ u \notin disturbed
      BY <1>5 DEF FailPay, InsertPayment
    <2>2. ~(OnPay(s, u) /\ pay[s].pc = "upsert")
      BY <1>5 DEF FailPay, InsertPayment, Cut, OnPay
    <2> QED BY <1>1, <2>1, <2>2, NoPayType, ExactPay
  <1> QED BY <1>2, <1>3, <1>4, <1>5

\* A period ends later with every payment.
LEMMA PeriodGrows ==
    ASSUME NEW t \in Nat, NEW end \in Nat
    PROVE  end < NextPeriodEnd(t, end)
  BY DEF NextPeriodEnd

\* What a payment is owed is what it computes, when the period was the one owed.
LEMMA AddIsNext ==
    ASSUME TypeOK, NEW u \in User, NEW v \in User, NEW t \in Nat
    PROVE  /\ End(v) = owed[v] => Add(t, v)[v] = NextPeriodEnd(t, End(v))
           /\ u # v => Add(t, v)[u] = owed[u]
  <1>1. owed \in [User -> Nat \cup {None}] /\ End(v) \in Nat \cup {None}
    BY EndType DEF TypeOK
  <1>2. Add(t, v)[v] = (IF owed[v] = None \/ owed[v] <= t THEN t ELSE owed[v]) + Period
    BY <1>1 DEF Add
  <1>3. u # v => Add(t, v)[u] = owed[u]
    BY <1>1 DEF Add
  <1> QED BY <1>1, <1>2, <1>3 DEF NextPeriodEnd

LEMMA ExactInsert ==
    ASSUME ExactInv, NEW s \in Admin, NEW u \in User \ disturbed',
           InsertPayment(s), ~Recorded(pay[s].of)
    PROVE  Exact(u)'
  <1> DEFINE q == [pay[s] EXCEPT !.pc = "upsert"]
             v == PayUser[pay[s].of]
  <1>1. /\ pay[s].pc = "insert" /\ pay' = [pay EXCEPT ![s] = q]
        /\ owed' = Add(pay[s].at, v)
        /\ UNCHANGED <<sub, job, sent, disturbed>>
    BY DEF InsertPayment
  <1>2. /\ TypeOK /\ Exact(u) /\ pay[s] \in PayRequest /\ pay[s].of \in Payment
        /\ pay[s].at \in Nat /\ v \in User
    BY <1>1 DEF ExactInv, IInv, TypeOK, PayRequest
  <1>3. q.pc = "upsert" /\ q.of = pay[s].of /\ q.end = pay[s].end /\ q.at = pay[s].at
    BY <1>2 DEF PayRequest
  <1> HIDE DEF q
  <1>4. pay'[s] = q /\ \A t \in Admin \ {s} : pay'[t] = pay[t]
    BY <1>1, <1>2 DEF TypeOK
  <1>5. /\ \A t \in Admin : OnPay(t, u)' = OnPay(t, u)
        /\ \A j \in Job : OnJob(j, u)' = OnJob(j, u) /\ Marking(j, u)' = Marking(j, u)
        /\ End(u)' = End(u)
    BY <1>1, <1>3, <1>4 DEF OnPay, OnJob, Marking, End
  <1>6. OneWorker(u)' /\ RowsCurrent(u)' /\ Marked(u)'
    BY <1>1, <1>2, <1>5 DEF Exact, OneWorker, RowsCurrent, Marked
  <1>7. CASE u # v
    <2>1. ~OnPay(s, u) /\ owed'[u] = owed[u]
      BY <1>1, <1>2, <1>7, AddIsNext DEF OnPay
    <2>2. PayRight(u)' /\ EndRight(u)'
      BY <1>2, <1>4, <1>5, <2>1 DEF Exact, PayRight, EndRight
    <2> QED BY <1>6, <2>2 DEF Exact
  <1>8. CASE u = v
    <2>1. OnPay(s, u) /\ \A t \in Admin : OnPay(t, u) => t = s
      BY <1>1, <1>2, <1>8 DEF OnPay, Exact, OneWorker
    <2>2. End(u) = owed[u] /\ pay[s].end = NextPeriodEnd(pay[s].at, End(u))
      BY <1>1, <1>2, <2>1 DEF Exact, PayRight, EndRight
    <2>3. pay[s].end = owed'[u]
      BY <1>1, <1>2, <1>8, <2>2, AddIsNext
    <2>4. End(u) # None => End(u) < pay[s].end
      BY <1>2, <2>2, EndType, PeriodGrows
    <2>5. PayRight(u)' /\ EndRight(u)'
      BY <1>3, <1>4, <1>5, <2>1, <2>3, <2>4 DEF PayRight, EndRight
    <2> QED BY <1>6, <2>5 DEF Exact
  <1> QED BY <1>7, <1>8

\* A new period is not the one of any reminder sent before.
LEMMA NotYetMarked ==
    ASSUME TypeOK, NEW u \in User, Marked(u), NEW e \in Nat,
           sub' = [sub EXCEPT ![u] = Fresh(e)], sent' = sent,
           End(u) # None => End(u) < e
    PROVE  Marked(u)' /\ End(u)' = e
  <1>1. sub'[u] = Fresh(e) /\ Fresh(e).end = e /\ Fresh(e) # None
    BY FreshType DEF TypeOK, Fresh
  <1>2. ASSUME NEW n \in sent, n[1] = u PROVE n[3] < e
    <2>1. sub[u] # None /\ n[3] <= sub[u].end /\ sub[u].end \in Nat /\ n[3] \in Nat
      BY <1>2 DEF Marked, TypeOK, Row
    <2> QED BY <2>1 DEF End
  <1>3. \A n \in sent : n[3] \in Nat
    BY DEF TypeOK
  <1>4. ASSUME NEW n \in sent, n[1] = u PROVE n[3] <= e /\ n[3] # e
    BY <1>2, <1>3, <1>4
  <1> QED BY <1>1, <1>4 DEF Marked, End

LEMMA ExactCredit ==
    ASSUME ExactInv, NEW s \in Admin, NEW u \in User \ disturbed', UpsertPaid(s)
    PROVE  Exact(u)'
  <1> DEFINE v == PayUser[pay[s].of]
             e == pay[s].end
  <1>1. /\ pay[s].pc = "upsert" /\ pay' = [pay EXCEPT ![s] = NoPay]
        /\ sub' = [sub EXCEPT ![v] = Fresh(e)]
        /\ UNCHANGED <<job, owed, sent, disturbed>>
    BY DEF UpsertPaid, Upsert
  <1>2. /\ TypeOK /\ Exact(u) /\ v \in User /\ e \in Nat
    BY <1>1 DEF ExactInv, IInv, TypeOK, PayRequest
  <1>3. pay'[s].pc = "idle" /\ \A t \in Admin \ {s} : pay'[t] = pay[t]
    BY <1>1, <1>2, NoPayType DEF TypeOK
  <1>4. /\ ~OnPay(s, u)' /\ \A t \in Admin \ {s} : OnPay(t, u)' = OnPay(t, u)
        /\ \A j \in Job : OnJob(j, u)' = OnJob(j, u) /\ Marking(j, u)' = Marking(j, u)
    BY <1>1, <1>3 DEF OnPay, OnJob, Marking
  <1>5. OneWorker(u)'
    BY <1>2, <1>4 DEF Exact, OneWorker
  <1>6. CASE u # v
    <2>1. sub'[u] = sub[u] /\ End(u)' = End(u) /\ ~OnPay(s, u)
      BY <1>1, <1>2, <1>6 DEF TypeOK, End, OnPay
    <2>2. RowsCurrent(u)' /\ Marked(u)'
      BY <1>1, <1>2, <1>4, <2>1 DEF Exact, RowsCurrent, Marked
    <2>3. PayRight(u)' /\ EndRight(u)'
      BY <1>1, <1>2, <1>3, <1>4, <2>1 DEF Exact, PayRight, EndRight
    <2> QED BY <1>5, <2>2, <2>3 DEF Exact
  <1>7. CASE u = v
    <2>1. /\ OnPay(s, u) /\ \A j \in Job : ~OnJob(j, u)
          /\ \A t \in Admin \ {s} : ~OnPay(t, u)
      BY <1>1, <1>2, <1>7 DEF OnPay, Exact, OneWorker
    <2>2. e = owed[u] /\ (End(u) # None => End(u) < e)
      BY <1>1, <1>2, <2>1 DEF Exact, PayRight
    <2>3. Marked(u)' /\ End(u)' = e
      BY <1>1, <1>2, <1>7, <2>2, NotYetMarked DEF Exact
    <2>4. RowsCurrent(u)' /\ PayRight(u)' /\ EndRight(u)'
      BY <1>1, <1>4, <2>1, <2>2, <2>3 DEF RowsCurrent, PayRight, EndRight
    <2> QED BY <1>5, <2>3, <2>4 DEF Exact
  <1> QED BY <1>6, <1>7

LEMMA ExactGrant ==
    ASSUME ExactInv, NEW v \in User, NEW u \in User \ disturbed', Grant(v)
    PROVE  Exact(u)'
  <1> DEFINE e == NextPeriodEnd(now, End(v))
  <1>1. /\ sub' = [sub EXCEPT ![v] = Fresh(e)] /\ owed' = Add(now, v)
        /\ UNCHANGED <<pay, job, sent>>
        /\ u \notin disturbed /\ (u = v => ~Busy(u))
    BY DEF Grant, Upsert
  <1>2. TypeOK /\ Exact(u) /\ now \in Nat
    BY <1>1 DEF ExactInv, IInv, TypeOK
  <1>3. e \in Nat /\ End(v) \in Nat \cup {None}
    BY <1>2, EndType, NextPeriodEndType
  <1>4. /\ \A t \in Admin : OnPay(t, u)' = OnPay(t, u)
        /\ \A j \in Job : OnJob(j, u)' = OnJob(j, u) /\ Marking(j, u)' = Marking(j, u)
    BY <1>1 DEF OnPay, OnJob, Marking
  <1>5. OneWorker(u)'
    BY <1>2, <1>4 DEF Exact, OneWorker
  <1>6. CASE u # v
    <2>1. sub'[u] = sub[u] /\ End(u)' = End(u) /\ owed'[u] = owed[u]
      BY <1>1, <1>2, <1>6, AddIsNext DEF TypeOK, End
    <2>2. RowsCurrent(u)' /\ Marked(u)' /\ PayRight(u)' /\ EndRight(u)'
      BY <1>1, <1>2, <1>4, <2>1 DEF Exact, RowsCurrent, Marked, PayRight, EndRight
    <2> QED BY <1>5, <2>2 DEF Exact
  <1>7. CASE u = v
    <2>1. (\A j \in Job : ~OnJob(j, u)) /\ (\A t \in Admin : ~OnPay(t, u))
      BY <1>1, <1>7 DEF Busy, OnPay, OnJob
    <2>2. End(u) = owed[u]
      BY <1>2, <2>1 DEF Exact, EndRight
    <2>3. owed'[u] = e
      BY <1>1, <1>2, <1>7, <2>2, AddIsNext
    <2>4. End(u) # None => End(u) < e
      BY <1>2, <1>3, <1>7, PeriodGrows
    <2> HIDE DEF e
    <2>5. Marked(u)' /\ End(u)' = e
      BY <1>1, <1>2, <1>3, <1>7, <2>4, NotYetMarked DEF Exact
    <2>6. RowsCurrent(u)' /\ PayRight(u)' /\ EndRight(u)'
      BY <1>4, <2>1, <2>3, <2>5 DEF RowsCurrent, PayRight, EndRight
    <2> QED BY <1>5, <2>5, <2>6 DEF Exact
  <1> QED BY <1>6, <1>7

\* What Scan makes of its job.
LEMMA ScanGives ==
    ASSUME TypeOK, NEW j \in Job, NEW rows, job' = Scan(j, rows)
    PROVE  \E q : job' = [job EXCEPT ![j] = q] /\ q.rows = rows
  <1> DEFINE q == IF rows = NoRows THEN NoJob
                  ELSE [job[j] EXCEPT !.pc = "scan", !.rows = rows, !.cur = None]
  <1>1. job' = [job EXCEPT ![j] = q]
    BY DEF Scan
  <1>2. job[j] \in JobRequest
    BY DEF TypeOK
  <1>3. q.rows = rows
    BY <1>2 DEF NoJob, JobRequest
  <1> HIDE DEF q
  <1> QED BY <1>1, <1>3

LEMMA ExactEvaluate ==
    ASSUME ExactInv, NEW j \in Job, NEW u \in User \ disturbed', Evaluate(j)
    PROVE  Exact(u)'
  <1> DEFINE q == [NoJob EXCEPT !.pc = "list", !.at = now]
  <1>1. /\ job' = [job EXCEPT ![j] = q] /\ UNCHANGED <<sub, pay, owed, sent, disturbed>>
        /\ job[j].pc = "idle"
    BY DEF Evaluate
  <1>2. q.rows[u] = None
    BY DEF NoJob, NoRows
  <1> HIDE DEF q
  <1> QED BY <1>1, <1>2, ExactJob DEF ExactInv, IInv, Marking

LEMMA ExactList ==
    ASSUME ExactInv, NEW j \in Job, NEW u \in User \ disturbed', ListAll(j)
    PROVE  Exact(u)'
  <1>1. /\ job' = Scan(j, sub) /\ UNCHANGED <<sub, pay, owed, sent>>
        /\ job[j].pc = "list" /\ u \notin disturbed /\ (sub[u] # None => ~Busy(u))
    BY DEF ListAll
  <1>2. PICK q : job' = [job EXCEPT ![j] = q] /\ q.rows = sub
    BY <1>1, ScanGives DEF ExactInv, IInv
  <1> QED BY <1>1, <1>2, ExactJob DEF ExactInv, IInv, Marking

LEMMA ExactPass ==
    ASSUME ExactInv, NEW j \in Job, NEW v \in User, NEW u \in User \ disturbed',
           Remind(j, v), Due(job[j].rows[v], job[j].at) = None
    PROVE  Exact(u)' /\ twice' = twice
  <1> DEFINE rows == [job[j].rows EXCEPT ![v] = None]
  <1>1. /\ job' = Scan(j, rows) /\ UNCHANGED <<sub, pay, owed, sent, disturbed, twice>>
        /\ job[j].pc = "scan"
    BY DEF Remind
  <1>2. TypeOK /\ Exact(u) /\ job[j] \in JobRequest
    BY <1>1 DEF ExactInv, IInv, TypeOK
  <1>3. rows[u] # None => rows[u] = job[j].rows[u] /\ OnJob(j, u)
    BY <1>2 DEF JobRequest, OnJob
  <1> HIDE DEF rows
  <1>4. PICK q : job' = [job EXCEPT ![j] = q] /\ q.rows = rows
    BY <1>1, <1>2, ScanGives
  <1>5. q.rows[u] # None => q.rows[u] = sub[u] /\ OnJob(j, u)
    BY <1>2, <1>3, <1>4 DEF Exact, RowsCurrent
  <1> QED BY <1>1, <1>2, <1>4, <1>5, ExactJob DEF Marking

\* A reminder goes out again only on a row whose mark was lost.
LEMMA ExactRemind ==
    ASSUME ExactInv, NEW j \in Job, NEW v \in User,
           Remind(j, v), Due(job[j].rows[v], job[j].at) # None
    PROVE  /\ \A u \in User \ disturbed' : Exact(u)'
           /\ \A n \in twice' : n[1] \in disturbed'
  <1> DEFINE r == job[j].rows[v]
             k == Due(r, job[j].at)
             q == [job[j] EXCEPT !.pc = "save", !.cur = v]
  <1>1. /\ job[j].pc = "scan" /\ OnJob(j, v)
        /\ job' = [job EXCEPT ![j] = q]
        /\ sent' = sent \cup {<<v, k, r.end>>}
        /\ twice' = twice \cup ({<<v, k, r.end>>} \cap sent)
        /\ UNCHANGED <<sub, pay, owed, disturbed>>
    BY DEF Remind, OnJob
  <1>2. TypeOK /\ job[j] \in JobRequest /\ r \in Row
    BY <1>1 DEF ExactInv, IInv, TypeOK, JobRequest, OnJob
  <1>3. q.pc = "save" /\ q.cur = v /\ q.rows = job[j].rows /\ q.at = job[j].at
    BY <1>2 DEF JobRequest
  <1>4. r.told[k] # r.end
    BY DEF Due
  <1> HIDE DEF q
  <1>5. job'[j] = q /\ \A i \in Job \ {j} : job'[i] = job[i]
    BY <1>1, <1>2 DEF TypeOK
  <1>6. k = Due(job'[j].rows[v], job'[j].at)
    BY <1>3, <1>5
  <1> HIDE DEF k
  <1>7. ASSUME NEW u \in User \ disturbed' PROVE Exact(u)'
    <2>1. Exact(u)
      BY <1>1, <1>7 DEF ExactInv
    <2>2. /\ \A t \in Admin : OnPay(t, u)' = OnPay(t, u)
          /\ \A i \in Job : OnJob(i, u)' = OnJob(i, u) /\ job'[i].rows = job[i].rows
          /\ \A i \in Job : Marking(i, u) => Marking(i, u)' /\ job'[i] = job[i]
          /\ End(u)' = End(u)
      BY <1>1, <1>3, <1>5 DEF OnPay, OnJob, Marking, End
    <2>3. OneWorker(u)' /\ RowsCurrent(u)' /\ PayRight(u)' /\ EndRight(u)'
      BY <1>1, <2>1, <2>2 DEF Exact, OneWorker, RowsCurrent, PayRight, EndRight
    <2>4. ASSUME u = v
          PROVE  sub[u] # None /\ r.end = sub[u].end /\ r.end <= sub[u].end /\ Marking(j, u)'
      BY <1>1, <1>2, <1>3, <1>5, <2>1, <2>4 DEF Exact, RowsCurrent, OnJob, Marking, Row
    <2>5. ASSUME NEW n \in sent', n[1] = u
          PROVE  /\ sub[u] # None /\ n[3] <= sub[u].end
                 /\ n[3] = sub[u].end =>
                       \/ sub[u].told[n[2]] = n[3]
                       \/ \E i \in Job : /\ Marking(i, u)'
                                         /\ n[2] = Due(job'[i].rows[u], job'[i].at)
      <3>1. CASE n \in sent
        BY <2>1, <2>2, <2>5, <3>1 DEF Exact, Marked
      <3>2. CASE n = <<v, k, r.end>>
        BY <1>6, <2>4, <2>5, <3>2
      <3> QED BY <1>1, <2>5, <3>1, <3>2
    <2>6. Marked(u)'
      BY <1>1, <2>5 DEF Marked
    <2> QED BY <2>3, <2>6 DEF Exact
  <1>8. ASSUME <<v, k, r.end>> \in sent, v \notin disturbed PROVE FALSE
    <2>1. Exact(v)
      BY <1>8 DEF ExactInv
    <2>2. r = sub[v]
      BY <1>1, <2>1 DEF Exact, RowsCurrent
    <2>3. PICK i \in Job : Marking(i, v)
      <3>1. <<v, k, r.end>>[1] = v /\ <<v, k, r.end>>[2] = k /\ <<v, k, r.end>>[3] = r.end
        OBVIOUS
      <3> HIDE DEF r
      <3> QED BY <1>4, <1>8, <2>1, <2>2, <3>1 DEF Exact, Marked
    <2>4. OnJob(i, v)
      BY <1>2, <2>3 DEF TypeOK, Marking, OnJob
    <2>5. i = j
      BY <1>1, <2>1, <2>4 DEF Exact, OneWorker
    <2> QED BY <1>1, <2>3, <2>5 DEF Marking
  <1> QED BY <1>1, <1>7, <1>8 DEF ExactInv

LEMMA ExactSave ==
    ASSUME ExactInv, NEW j \in Job, NEW u \in User \ disturbed', Save(j)
    PROVE  Exact(u)'
  <1> DEFINE v == job[j].cur
             r == job[j].rows[v]
             k == Due(r, job[j].at)
             rows == [job[j].rows EXCEPT ![v] = None]
             saved == [r EXCEPT !.told[k] = r.end]
  <1>1. /\ job[j].pc = "save" /\ job' = Scan(j, rows)
        /\ sub' = [sub EXCEPT ![v] = saved]
        /\ UNCHANGED <<pay, owed, sent, disturbed>>
    BY DEF Save, Upsert
  <1>2. /\ TypeOK /\ Exact(u) /\ job[j] \in JobRequest /\ v \in User /\ OnJob(j, v)
        /\ job[j].rows \in [User -> Row \cup {None}]
    BY <1>1 DEF ExactInv, IInv, TypeOK, JobRequest, OnJob
  <1>3. /\ rows[v] = None /\ (u # v => rows[u] = job[j].rows[u])
    BY <1>2
  <1>4. r \in Row
    BY <1>2 DEF OnJob
  <1>5. /\ saved.end = r.end /\ saved # None
        /\ \A x \in ReminderKind : saved.told[x] = IF x = k THEN r.end ELSE r.told[x]
    <2>1. saved \in Row
      BY <1>4 DEF Row
    <2> QED BY <1>4, <2>1 DEF Row
  <1> HIDE DEF rows, saved, k
  <1>6. PICK q : job' = [job EXCEPT ![j] = q] /\ q.rows = rows
    BY <1>1, <1>2, ScanGives
  <1>7. job'[j].rows = rows /\ \A i \in Job \ {j} : job'[i] = job[i]
    BY <1>2, <1>6 DEF TypeOK
  <1>8. CASE u # v
    <2>1. sub'[u] = sub[u] /\ ~Marking(j, u) /\ End(u)' = End(u)
      BY <1>1, <1>2, <1>8 DEF TypeOK, Marking, End
    <2>2. /\ \A t \in Admin : OnPay(t, u)' = OnPay(t, u)
          /\ \A i \in Job : OnJob(i, u)' = OnJob(i, u) /\ job'[i].rows[u] = job[i].rows[u]
          /\ \A i \in Job : Marking(i, u) => Marking(i, u)' /\ job'[i] = job[i]
      BY <1>1, <1>3, <1>7, <1>8, <2>1 DEF OnPay, OnJob, Marking
    <2>3. OneWorker(u)' /\ RowsCurrent(u)' /\ PayRight(u)' /\ EndRight(u)'
      BY <1>1, <1>2, <2>1, <2>2 DEF Exact, OneWorker, RowsCurrent, PayRight, EndRight
    <2>4. Marked(u)'
      BY <1>1, <1>2, <2>1, <2>2 DEF Exact, Marked
    <2> QED BY <2>3, <2>4 DEF Exact
  <1>9. CASE u = v
    <2>1. /\ r = sub[u] /\ (\A t \in Admin : ~OnPay(t, u))
          /\ \A i \in Job : OnJob(i, u) => i = j
      BY <1>2, <1>9 DEF Exact, RowsCurrent, OneWorker
    <2>2. sub'[u] = saved /\ End(u)' = End(u) /\ sub[u] # None /\ sub[u].end = r.end
      BY <1>1, <1>2, <1>4, <1>5, <1>9, <2>1 DEF TypeOK, End
    <2>3. (\A i \in Job : ~OnJob(i, u)') /\ (\A t \in Admin : ~OnPay(t, u)')
      BY <1>1, <1>3, <1>7, <1>9, <2>1 DEF OnJob, OnPay
    <2>4. OneWorker(u)' /\ RowsCurrent(u)' /\ PayRight(u)'
      BY <2>3 DEF OneWorker, RowsCurrent, PayRight
    <2>5. EndRight(u)'
      BY <1>1, <1>2, <2>1, <2>2 DEF Exact, EndRight
    <2>6. ASSUME NEW n \in sent, n[1] = u, n[3] = sub[u].end
          PROVE  saved.told[n[2]] = n[3]
      <3>1. n[2] \in ReminderKind
        BY <1>2, <2>6 DEF TypeOK
      <3>2. \/ sub[u].told[n[2]] = n[3]
            \/ \E i \in Job : Marking(i, u) /\ n[2] = Due(job[i].rows[u], job[i].at)
        BY <1>2, <2>6 DEF Exact, Marked
      <3>3. CASE sub[u].told[n[2]] = n[3]
        BY <1>5, <2>1, <2>2, <2>6, <3>1, <3>3
      <3>4. ASSUME NEW i \in Job, Marking(i, u), n[2] = Due(job[i].rows[u], job[i].at)
            PROVE  n[2] = k
        <4>1. i = j
          BY <1>2, <2>1, <3>4 DEF TypeOK, Marking, OnJob
        <4> QED BY <1>9, <3>4, <4>1 DEF k
      <3> QED BY <1>5, <2>2, <2>6, <3>1, <3>2, <3>3, <3>4
    <2>7. Marked(u)'
      BY <1>1, <1>2, <1>5, <2>2, <2>6 DEF Exact, Marked
    <2> QED BY <2>4, <2>5, <2>7 DEF Exact
  <1> QED BY <1>8, <1>9

LEMMA ExactFaults ==
    ASSUME ExactInv, NEW u \in User \ disturbed', (\E j \in Job : FailJob(j)) \/ Crash
    PROVE  Exact(u)'
  <1>1. TypeOK /\ (u \notin disturbed => Exact(u))
    BY DEF ExactInv, IInv
  <1>2. ASSUME NEW j \in Job, FailJob(j) PROVE Exact(u)'
    <2>1. /\ job' = [job EXCEPT ![j] = NoJob] /\ UNCHANGED <<sub, pay, owed, sent>>
          /\ u \notin disturbed /\ ~Marking(j, u)
      BY <1>2 DEF FailJob, Cut, Marking
    <2>2. NoJob.rows[u] = None
      BY DEF NoJob, NoRows
    <2> QED BY <1>1, <2>1, <2>2, ExactJob
  <1>3. ASSUME Crash PROVE Exact(u)'
    <2>1. /\ pay' = [s \in Admin |-> NoPay] /\ job' = [j \in Job |-> NoJob]
          /\ UNCHANGED <<sub, owed, sent>>
          /\ u \notin disturbed /\ u \notin Cut(Admin, Job)
      BY <1>3 DEF Crash
    <2>2. /\ \A s \in Admin : ~(OnPay(s, u) /\ pay[s].pc = "upsert")
          /\ \A j \in Job : ~Marking(j, u)
      BY <2>1 DEF Cut, OnPay, Marking
    <2>3. (\A s \in Admin : ~OnPay(s, u)') /\ (\A j \in Job : ~OnJob(j, u)')
      BY <2>1, NoPayType DEF OnPay, OnJob, NoJob, NoRows
    <2>4. End(u)' = End(u)
      BY <2>1 DEF End
    <2>5. OneWorker(u)' /\ RowsCurrent(u)' /\ PayRight(u)'
      BY <2>3 DEF OneWorker, RowsCurrent, PayRight
    <2>6. EndRight(u)' /\ Marked(u)'
      BY <1>1, <2>1, <2>2, <2>4 DEF Exact, EndRight, Marked
    <2> QED BY <2>5, <2>6 DEF Exact
  <1> QED BY <1>2, <1>3

LEMMA ExactStep == ExactInv /\ [Next]_vars => ExactInv'
  <1> SUFFICES ASSUME ExactInv, [Next]_vars PROVE ExactInv'
    OBVIOUS
  <1>1. IInv'
    BY Inductive DEF ExactInv
  <1>2. CASE UNCHANGED <<sub, pay, job, owed, sent, twice, disturbed>>
    BY <1>1, <1>2 DEF ExactInv, Exact, OneWorker, RowsCurrent, PayRight, EndRight, Marked,
                      OnPay, OnJob, Marking, End
  <1>3. ASSUME \A u \in User \ disturbed' : Exact(u)', twice' = twice,
               disturbed \subseteq disturbed'
        PROVE  ExactInv'
    BY <1>1, <1>3 DEF ExactInv
  <1>4. ASSUME NEW s \in Admin, NEW p \in Payment, RecordPayment(s, p) PROVE ExactInv'
    <2>1. twice' = twice /\ disturbed \subseteq disturbed'
      BY <1>4 DEF RecordPayment
    <2> QED BY <1>3, <1>4, <2>1, ExactAsking
  <1>5. ASSUME NEW s \in Admin, FindPayment(s) \/ ReadCurrent(s) \/ FailPay(s) PROVE ExactInv'
    <2>1. twice' = twice /\ disturbed \subseteq disturbed'
      BY <1>5 DEF FindPayment, ReadCurrent, FailPay
    <2> QED BY <1>3, <1>5, <2>1, ExactAsking
  <1>6. ASSUME NEW s \in Admin, InsertPayment(s) PROVE ExactInv'
    <2>1. twice' = twice /\ disturbed \subseteq disturbed'
      BY <1>6 DEF InsertPayment
    <2> QED BY <1>3, <1>6, <2>1, ExactAsking, ExactInsert
  <1>7. ASSUME NEW s \in Admin, UpsertPaid(s) PROVE ExactInv'
    <2>1. twice' = twice /\ disturbed \subseteq disturbed'
      BY <1>7 DEF UpsertPaid
    <2> QED BY <1>3, <1>7, <2>1, ExactCredit
  <1>8. ASSUME NEW v \in User, Grant(v) PROVE ExactInv'
    <2>1. twice' = twice /\ disturbed \subseteq disturbed'
      BY <1>8 DEF Grant
    <2> QED BY <1>3, <1>8, <2>1, ExactGrant
  <1>9. ASSUME NEW j \in Job, Evaluate(j) \/ ListAll(j) \/ Save(j) PROVE ExactInv'
    <2>1. twice' = twice /\ disturbed \subseteq disturbed'
      BY <1>9 DEF Evaluate, ListAll, Save
    <2> QED BY <1>3, <1>9, <2>1, ExactEvaluate, ExactList, ExactSave
  <1>10. ASSUME NEW j \in Job, NEW v \in User, Remind(j, v) PROVE ExactInv'
    <2>1. CASE Due(job[j].rows[v], job[j].at) = None
      <3>1. twice' = twice /\ disturbed \subseteq disturbed'
        BY <1>10, <2>1 DEF Remind
      <3> QED BY <1>3, <1>10, <2>1, <3>1, ExactPass
    <2>2. CASE Due(job[j].rows[v], job[j].at) # None
      BY <1>1, <1>10, <2>2, ExactRemind DEF ExactInv
    <2> QED BY <2>1, <2>2
  <1>11. ASSUME (\E j \in Job : FailJob(j)) \/ Crash PROVE ExactInv'
    <2>1. twice' = twice /\ disturbed \subseteq disturbed'
      BY <1>11 DEF FailJob, Crash
    <2> QED BY <1>3, <1>11, <2>1, ExactFaults
  <1>12. CASE Tick \/ UNCHANGED vars
    BY <1>2, <1>12 DEF Tick, vars
  <1> QED BY <1>4, <1>5, <1>6, <1>7, <1>8, <1>9, <1>10, <1>11, <1>12 DEF Next, JobStep

LEMMA ExactInit == Init => ExactInv
  <1> SUFFICES ASSUME Init PROVE ExactInv
    OBVIOUS
  <1>1. /\ \A s \in Admin, u \in User : ~OnPay(s, u)
        /\ \A j \in Job, u \in User : ~OnJob(j, u)
    BY NoPayType DEF Init, OnPay, OnJob, NoJob, NoRows
  <1>2. \A u \in User : End(u) = owed[u]
    <2>1. PICK b \in Starts :
              /\ sub = [u \in User |-> IF u \in b.old THEN Fresh(b.now) ELSE None]
              /\ owed = [u \in User |-> IF u \in b.old THEN b.now ELSE None]
      BY DEF Init
    <2>2. b.now \in Nat /\ Fresh(b.now) # None /\ Fresh(b.now).end = b.now
      BY FreshType DEF Start, Fresh
    <2> QED BY <2>1, <2>2 DEF End
  <1>3. ASSUME NEW u \in User PROVE Exact(u)
    BY <1>1, <1>2 DEF Init, Exact, OneWorker, RowsCurrent, PayRight, EndRight, Marked
  <1> QED BY <1>3, Initially DEF Init, ExactInv

\* While no two requests work on a user and none is cut between its two writes, the
\* period ends where payments and grants add up to, and no reminder goes out twice in a
\* period, for any number of administrators, jobs, users and payments.
THEOREM AloneStaysExact == Spec => []AloneIsExact
  <1>1. ASSUME ExactInv, NEW u \in User \ disturbed PROVE Busy(u) \/ End(u) = owed[u]
    BY <1>1 DEF ExactInv, Exact, EndRight, OnPay, Busy
  <1>2. ExactInv => AloneIsExact
    BY <1>1 DEF ExactInv, AloneIsExact
  <1> QED BY <1>2, ExactInit, ExactStep, PTL DEF Spec

=============================================================================
