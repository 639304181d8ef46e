--------------------------- MODULE Suscripciones ---------------------------
(***************************************************************************)
(* The paid listing of backend/src/suscripciones: administrators record     *)
(* payments, an operator's script grants a period, a scheduled job sends    *)
(* the reminders, and the marketplace lists who is active or in grace.       *)
(* Every `await` of recordPayment and of evaluate is a step of its own: no  *)
(* transaction spans them, and requests of both kinds overlap.              *)
(*                                                                          *)
(* Abstractions: a payment of the real world is one value, which fixes its  *)
(* user, channel and reference; time is a small integer.                    *)
(***************************************************************************)
EXTENDS Integers, FiniteSets

CONSTANTS
    User,          \* producers, NATURAL or JURIDICA
    Payment,       \* payments an administrator may record, more than once
    PayUser,       \* Payment -> User, the target of the payment
    Anonymous,     \* payments that carry no reference
    Admin,         \* slots of recordPayment requests
    Job,           \* slots of evaluate requests
    Period, Grace, Before, \* SUSCRIPCION_PERIOD_MS, _GRACE_MS, _REMIND_BEFORE_MS
    MaxTime,       \* bound: last instant of the clock
    MaxSubmits,    \* bound: recordPayment requests and runs of the grant script
    MaxFaults,     \* bound: crashes of the process, and calls that throw
    Starts,        \* bound: how a behaviour starts and who takes part in it, see Start
    None

\* A behaviour starts at some instant, with users whose period ends there and some of
\* the submits already spent, and only the users and slots of its cast start anything.
Cast   == SUBSET (User \cup Admin \cup Job)
Start  == [now: Nat, old: SUBSET User, submits: Nat, cast: Cast]
Bounds == [submits: Nat, faults: Nat, cast: Cast]

ASSUME SuscripcionesAssumption ==
    /\ PayUser \in [Payment -> User]
    /\ Anonymous \subseteq Payment
    /\ Period \in Nat \ {0} /\ Grace \in Nat /\ Before \in Nat
    /\ MaxTime \in Nat /\ MaxSubmits \in Nat /\ MaxFaults \in Nat
    /\ \A b \in Starts : b \in Start /\ (b.old # {} => b.now >= Period)
    /\ None \notin Nat /\ None \notin User /\ None \notin Payment

ReminderKind == {"expiry_soon", "grace", "hidden"}

\* A row of subscriptions: the end of the period and, by kind, the period whose
\* reminder went out (remindedExpiryAt, remindedGraceAt, remindedHiddenAt).
Row == [end: Nat, told: [ReminderKind -> Nat \cup {None}]]

ASSUME NoRow == None \notin Row /\ None \notin ReminderKind

----------------------------------------------------------------------------
(* The derived status: end is currentPeriodEnd, or None without a row *)

Status(end, t) ==
    IF end = None THEN "vencida"
    ELSE IF t <= end THEN "activa"
    ELSE IF t <= end + Grace THEN "en_gracia"
    ELSE "vencida"

\* GET /posts/:id and the in-memory store.
IsListed(end, t) == Status(end, t) \in {"activa", "en_gracia"}

\* GET /posts: the SQL filter currentPeriodEnd >= asOf - grace.
ListedSince(end, t) == end # None /\ end >= t - Grace

\* The search of posts and of profiles: current_period_end + INTERVAL '4 days' >= asOf.
Searched(end, t) == end # None /\ end + Grace >= t

\* Mutant: a payment starts its month now, whatever is left of the last one.
NextPeriodEndNow(t, end) == t + Period

\* Paying early keeps the days left; in grace or later the period starts now.
NextPeriodEnd(t, end) == IF end # None /\ end > t THEN end + Period ELSE t + Period

InExpiryReminderWindow(end, t) == t >= end - Before /\ t < end

\* Mutant: the listing is announced hidden as soon as the period ends.
DueHasty(r, t) ==
    LET k == IF t > r.end THEN "hidden"
             ELSE IF InExpiryReminderWindow(r.end, t) THEN "expiry_soon" ELSE None
    IN IF k # None /\ r.told[k] # r.end THEN k ELSE None

\* Mutant: the listing is announced hidden only after the notice of grace.
DueAfterGrace(r, t) ==
    LET s == Status(r.end, t)
        k == CASE s = "activa" /\ InExpiryReminderWindow(r.end, t) -> "expiry_soon"
               [] s = "en_gracia" -> "grace"
               [] s = "vencida" /\ r.told["grace"] = r.end -> "hidden"
               [] OTHER -> None
    IN IF k # None /\ r.told[k] # r.end THEN k ELSE None

\* The reminder a row is due at t: the conditions of maybeRemind exclude each other.
Due(r, t) ==
    LET s == Status(r.end, t)
        k == CASE s = "activa" /\ InExpiryReminderWindow(r.end, t) -> "expiry_soon"
               [] s = "en_gracia" -> "grace"
               [] s = "vencida" -> "hidden"
               [] OTHER -> None
    IN IF k # None /\ r.told[k] # r.end THEN k ELSE None

----------------------------------------------------------------------------
VARIABLES
    sub,       \* subscriptions: User -> Row, or None
    paid,      \* subscription_payments: the payments with a reference
    pay,       \* the recordPayment requests in flight: Admin -> record, see NoPay
    job,       \* the evaluate requests in flight: Job -> record, see NoJob
    now,       \* the clock
    credits,   \* history: Payment -> times it extended a period
    owed,      \* history: User -> the period end that payments and grants add up to
    sent,      \* history: <<user, kind, end>> of the reminders sent
    twice,     \* history: those sent more than once
    disturbed, \* history: users whose work overlapped or was cut between two writes
    spent      \* bounds: submits and faults so far, and the cast of the behaviour

vars == <<sub, paid, pay, job, now, credits, owed, sent, twice, disturbed, spent>>

PayRequest == [pc: {"idle", "find", "current", "insert", "upsert"},
               of: Payment \cup {None}, at: Nat, end: Nat]
NoPay == [pc |-> "idle", of |-> None, at |-> 0, end |-> 0]

\* rows is what listAll returned and is still to do, cur the row being reminded.
JobRequest == [pc: {"idle", "list", "scan", "save"}, at: Nat,
               rows: [User -> Row \cup {None}], cur: User \cup {None}]
NoRows == [u \in User |-> None]
NoJob  == [pc |-> "idle", at |-> 0, rows |-> NoRows, cur |-> None]

Fresh(end) == [end |-> end, told |-> [k \in ReminderKind |-> None]]

\* A period that ends at the start is what a grant one Period before it left.
Init ==
    /\ \E b \in Starts :
          /\ now = b.now
          /\ sub = [u \in User |-> IF u \in b.old THEN Fresh(b.now) ELSE None]
          /\ owed = [u \in User |-> IF u \in b.old THEN b.now ELSE None]
          /\ spent = [submits |-> b.submits, faults |-> 0, cast |-> b.cast]
    /\ paid = {}
    /\ pay = [s \in Admin |-> NoPay]
    /\ job = [j \in Job |-> NoJob]
    /\ credits = [p \in Payment |-> 0]
    /\ sent = {} /\ twice = {}
    /\ disturbed = {}

End(u) == IF sub[u] = None THEN None ELSE sub[u].end

\* Work in flight on a user.
Busy(u) == \/ \E s \in Admin : pay[s].pc # "idle" /\ PayUser[pay[s].of] = u
           \/ \E j \in Job : job[j].rows[u] # None

\* What is due after one more period: what is left of the last one is kept.
Add(at, u) == [owed EXCEPT ![u] = (IF @ = None \/ @ <= at THEN at ELSE @) + Period]

----------------------------------------------------------------------------
(* The store *)

\* findPayment, by user, channel and reference: what the unique index compares.
Recorded(p) == p \in paid

\* insertPayment: NULL references are never equal.
Inserted(p) == paid \cup ({p} \ Anonymous)

Upsert(u, r) == [sub EXCEPT ![u] = r]

----------------------------------------------------------------------------
(* recordPayment *)

\* The request, up to the answer of users.findById.
RecordPayment(s, p) ==
    /\ pay[s].pc = "idle" /\ s \in spent.cast
    /\ spent.submits < MaxSubmits /\ spent' = [spent EXCEPT !.submits = @ + 1]
    /\ pay' = [pay EXCEPT ![s] =
                  [pc |-> IF p \in Anonymous THEN "current" ELSE "find",
                   of |-> p, at |-> now, end |-> 0]]
    /\ disturbed' = disturbed \cup {u \in {PayUser[p]} : Busy(u)}
    /\ UNCHANGED <<sub, paid, job, now, credits, owed, sent, twice>>

FindPayment(s) ==
    /\ pay[s].pc = "find"
    /\ pay' = IF Recorded(pay[s].of) THEN [pay EXCEPT ![s] = NoPay]
              ELSE [pay EXCEPT ![s].pc = "current", ![s].at = now]
    /\ UNCHANGED <<sub, paid, job, now, credits, owed, sent, twice, disturbed, spent>>

ReadCurrent(s) ==
    /\ pay[s].pc = "current"
    /\ pay' = [pay EXCEPT ![s].pc = "insert",
                          ![s].end = NextPeriodEnd(pay[s].at, End(PayUser[pay[s].of]))]
    /\ UNCHANGED <<sub, paid, job, now, credits, owed, sent, twice, disturbed, spent>>

\* Mutant: the table has no unique index over user, channel and reference.
InsertPaymentAnyway(s) ==
    /\ pay[s].pc = "insert"
    /\ paid' = Inserted(pay[s].of)
    /\ pay' = [pay EXCEPT ![s].pc = "upsert"]
    /\ owed' = Add(pay[s].at, PayUser[pay[s].of])
    /\ UNCHANGED <<sub, job, now, credits, sent, twice, disturbed, spent>>

\* Mutant: a missing reference is stored as an empty one, which is unique too.
InsertPaymentEmpty(s) ==
    /\ pay[s].pc = "insert"
    /\ IF pay[s].of \in paid
       THEN pay' = [pay EXCEPT ![s] = NoPay] /\ UNCHANGED <<paid, owed>>
       ELSE /\ paid' = paid \cup {pay[s].of}
            /\ pay' = [pay EXCEPT ![s].pc = "upsert"]
            /\ owed' = Add(pay[s].at, PayUser[pay[s].of])
    /\ UNCHANGED <<sub, job, now, credits, sent, twice, disturbed, spent>>

\* The unique index lets a reference in once; the loser answers 409.
InsertPayment(s) ==
    /\ pay[s].pc = "insert"
    /\ IF Recorded(pay[s].of)
       THEN pay' = [pay EXCEPT ![s] = NoPay] /\ UNCHANGED <<paid, owed>>
       ELSE /\ paid' = Inserted(pay[s].of)
            /\ pay' = [pay EXCEPT ![s].pc = "upsert"]
            /\ owed' = Add(pay[s].at, PayUser[pay[s].of])
    /\ UNCHANGED <<sub, job, now, credits, sent, twice, disturbed, spent>>

UpsertPaid(s) ==
    /\ pay[s].pc = "upsert"
    /\ sub' = Upsert(PayUser[pay[s].of], Fresh(pay[s].end))
    /\ credits' = [credits EXCEPT ![pay[s].of] = @ + 1]
    /\ pay' = [pay EXCEPT ![s] = NoPay]
    /\ UNCHANGED <<paid, job, now, owed, sent, twice, disturbed, spent>>

\* scripts/grant-suscripcion.cjs: one SQL statement, no payment row.
Grant(u) ==
    /\ u \in spent.cast
    /\ spent.submits < MaxSubmits /\ spent' = [spent EXCEPT !.submits = @ + 1]
    /\ sub' = Upsert(u, Fresh(NextPeriodEnd(now, End(u))))
    /\ owed' = Add(now, u)
    /\ disturbed' = disturbed \cup {v \in {u} : Busy(v)}
    /\ UNCHANGED <<paid, pay, job, now, credits, sent, twice>>

----------------------------------------------------------------------------
(* evaluate and maybeRemind *)

\* The loop of evaluate goes on with the rows left, or the request answers.
Scan(j, rows) == [job EXCEPT ![j] = IF rows = NoRows THEN NoJob
                                    ELSE [job[j] EXCEPT !.pc = "scan",
                                                  !.rows = rows, !.cur = None]]

\* The clock is read before the rows.
Evaluate(j) ==
    /\ job[j].pc = "idle" /\ j \in spent.cast
    /\ job' = [job EXCEPT ![j] = [NoJob EXCEPT !.pc = "list", !.at = now]]
    /\ UNCHANGED <<sub, paid, pay, now, credits, owed, sent, twice, disturbed, spent>>

ListAll(j) ==
    /\ job[j].pc = "list"
    /\ job' = Scan(j, sub)
    /\ disturbed' = disturbed \cup {u \in User : sub[u] # None /\ Busy(u)}
    /\ UNCHANGED <<sub, paid, pay, now, credits, owed, sent, twice, spent>>

\* notifications.send, for a row that is due.
Remind(j, u) ==
    /\ job[j].pc = "scan" /\ job[j].rows[u] # None
    /\ LET r == job[j].rows[u]
           k == Due(r, job[j].at)
       IN IF k = None
          THEN job' = Scan(j, [job[j].rows EXCEPT ![u] = None]) /\ UNCHANGED <<sent, twice>>
          ELSE /\ job' = [job EXCEPT ![j].pc = "save", ![j].cur = u]
               /\ sent' = sent \cup {<<u, k, r.end>>}
               /\ twice' = twice \cup ({<<u, k, r.end>>} \cap sent)
    /\ UNCHANGED <<sub, paid, pay, now, credits, owed, disturbed, spent>>

\* The upsert writes every column of the row listAll returned, the period included.
Save(j) ==
    /\ job[j].pc = "save"
    /\ LET u == job[j].cur
           r == job[j].rows[u]
       IN /\ sub' = Upsert(u, [r EXCEPT !.told[Due(r, job[j].at)] = r.end])
          /\ job' = Scan(j, [job[j].rows EXCEPT ![u] = None])
    /\ UNCHANGED <<paid, pay, now, credits, owed, sent, twice, disturbed, spent>>

----------------------------------------------------------------------------
(* Failures and time *)

\* Users whose payment is recorded and not credited, or who were reminded and not
\* marked, by the requests of the given slots.
Cut(admins, jobs) ==
    {PayUser[pay[s].of] : s \in {t \in admins : pay[t].pc = "upsert"}}
      \cup {job[j].cur : j \in {i \in jobs : job[i].pc = "save"}}

\* The awaited call throws and the request answers 500.
FailPay(s) ==
    /\ pay[s].pc # "idle"
    /\ spent.faults < MaxFaults /\ spent' = [spent EXCEPT !.faults = @ + 1]
    /\ pay' = [pay EXCEPT ![s] = NoPay]
    /\ disturbed' = disturbed \cup Cut({s}, {})
    /\ UNCHANGED <<sub, paid, job, now, credits, owed, sent, twice>>

FailJob(j) ==
    /\ job[j].pc # "idle"
    /\ spent.faults < MaxFaults /\ spent' = [spent EXCEPT !.faults = @ + 1]
    /\ job' = [job EXCEPT ![j] = NoJob]
    /\ disturbed' = disturbed \cup Cut({}, {j})
    /\ UNCHANGED <<sub, paid, pay, now, credits, owed, sent, twice>>

Crash ==
    /\ spent.faults < MaxFaults /\ spent' = [spent EXCEPT !.faults = @ + 1]
    /\ pay' = [s \in Admin |-> NoPay]
    /\ job' = [j \in Job |-> NoJob]
    /\ disturbed' = disturbed \cup Cut(Admin, Job)
    /\ UNCHANGED <<sub, paid, now, credits, owed, sent, twice>>

Tick ==
    /\ now < MaxTime /\ now' = now + 1
    /\ UNCHANGED <<sub, paid, pay, job, credits, owed, sent, twice, disturbed, spent>>

----------------------------------------------------------------------------
JobStep(j) == ListAll(j) \/ (\E u \in User : Remind(j, u)) \/ Save(j)

Next ==
    \/ \E s \in Admin, p \in Payment : RecordPayment(s, p)
    \/ \E s \in Admin : FindPayment(s) \/ ReadCurrent(s) \/ InsertPayment(s) \/ UpsertPaid(s)
    \/ \E u \in User : Grant(u)
    \/ \E j \in Job : Evaluate(j) \/ JobStep(j)
    \/ \E s \in Admin : FailPay(s)
    \/ \E j \in Job : FailJob(j)
    \/ Crash
    \/ Tick

Spec == Init /\ [][Next]_vars

\* The scheduler calls the job again and again, and Node resumes its awaits.
FairSpec == Spec /\ \A j \in Job : WF_vars(Evaluate(j) \/ JobStep(j))

----------------------------------------------------------------------------
(* Properties *)

\* Every variable holds values of the program's types.
TypeOK ==
    /\ sub \in [User -> Row \cup {None}]
    /\ paid \subseteq Payment \ Anonymous
    /\ pay \in [Admin -> PayRequest]
    /\ \A s \in Admin : pay[s].pc # "idle" => pay[s].of \in Payment
    /\ job \in [Job -> JobRequest]
    /\ \A j \in Job : job[j].pc = "save" => /\ job[j].cur \in User
                                            /\ job[j].rows[job[j].cur] # None
    /\ now \in Nat
    /\ credits \in [Payment -> Nat]
    /\ owed \in [User -> Nat \cup {None}]
    /\ sent \subseteq User \X ReminderKind \X Nat /\ twice \subseteq sent
    /\ disturbed \subseteq User
    /\ spent \in Bounds

\* A payment with a reference extends the period at most once, however many
\* administrators record it at the same time or again after an error.
PaidOnce == \A p \in Payment \ Anonymous : credits[p] <= 1

\* Alone, a user gets what was paid for: between requests the period ends where the
\* payments and grants recorded so far add up to, whatever reminders were saved in
\* between, and no reminder goes out twice in a period (a payment clears the flags, a
\* failed job runs again).  Not when two requests worked on the user at once, or one
\* was cut between its two writes.
AloneIsExact ==
    /\ \A u \in User \ disturbed : Busy(u) \/ End(u) = owed[u]
    /\ \A n \in twice : n[1] \in disturbed

\* What a user was told of the current period is what the marketplace shows, even
\* when payments and other jobs ran between the reading and the notice: nobody is
\* listed after "Tu listado ya no es publico", nor active after the notice of grace.
NoticesAreTrue ==
    \A n \in sent : End(n[1]) = n[3] =>
        /\ n[2] = "hidden" => ~ListedSince(n[3], now)
        /\ n[2] = "grace" => Status(n[3], now) # "activa"

\* The page of posts and the searches (SQL) and the single post (isListed) agree at every instant of
\* every period, the boundaries of grace included.
ListingsAgree ==
    \A u \in User : /\ ListedSince(End(u), now) = IsListed(End(u), now)
                    /\ Searched(End(u), now) = IsListed(End(u), now)

\* Lapsed, and not told so.
Untold(u) == /\ sub[u] # None
             /\ Status(End(u), now) = "vencida"
             /\ <<u, "hidden", End(u)>> \notin sent

\* Who lapses is told, or renews: the notice is not lost when no job ran in the days of
\* grace, when a job failed at an earlier row and left the rest undone, nor when two
\* jobs overlapped and wrote back each other's rows.
LapseIsTold == \A u \in User : Untold(u) ~> ~Untold(u)

----------------------------------------------------------------------------
(* What the code does not keep: no run checks it, TLC refutes it (see the README). *)

\* The job only sends reminders: none of its steps takes a listed user off the
\* marketplace (maybeRemind writes the whole row back).
JobHidesNobody ==
    [][\A j \in Job, u \in User : (JobStep(j) /\ ListedSince(End(u), now))
                                  => ListedSince(End(u)', now')]_vars

============================================================================
