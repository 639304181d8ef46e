------------------------------- MODULE Accounts -------------------------------
(***************************************************************************)
(* The accounts of the backend: registration of a JURIDICA with the email   *)
(* provider (auth.service.ts, firebase-email.client.ts), the verdicts of    *)
(* administrators and their audit (admin-juridica.service.ts), the one-time *)
(* codes of a NATURAL (otp.service.ts over the key-value store), and the    *)
(* users table (users.repository.ts).  Nothing spans two of the calls a     *)
(* request makes: each is a step, requests interleave, any call may fail    *)
(* and the process may crash between two of them.                           *)
(*                                                                          *)
(* Abstractions: a row of users is known by its email or its phone, which   *)
(* are unique; hashes and encryption are left out; the password is right,   *)
(* since a wrong one ends a request before any change; an account of the    *)
(* provider is known by the registration that made it, a code by the        *)
(* request that sent it.                                                    *)
(***************************************************************************)
EXTENDS Naturals, Sequences

CONSTANTS
    Email, Nit, Phone,
    Admin,          \* emails of the administrators seeded with createAdmin
    Req,            \* request slots of the process
    MaxAttempts,    \* OTP_MAX_ATTEMPTS
    HourlyLimit,    \* OTP_PHONE_HOURLY_LIMIT
    Mixes,          \* bound: the kinds of requests a behaviour mixes
    MaxCalls,       \* bound: requests received
    MaxFaults,      \* bound: failed calls and crashes
    MaxLapses,      \* bound: keys of the key-value store that expire
    None

CallKind == {"register", "resend", "verdict", "delete", "send", "verify"}

ASSUME AccountsAssumption ==
    /\ Admin \subseteq Email
    /\ MaxAttempts \in Nat \ {0} /\ HourlyLimit \in Nat \ {0}
    /\ MaxCalls \in Nat \ {0} /\ MaxFaults \in Nat /\ MaxLapses \in Nat
    /\ Mixes \subseteq SUBSET CallKind
    /\ None \notin Nit

Serial == 1..MaxCalls

VARIABLES
    account,   \* the provider: Email -> [uid, confirmed], or None
    user,      \* users with an email: Email -> [role, nit, uid, verified], or None
    natural,   \* users with a phone: the phones that have a row
    deletion,  \* deletion_requests: the phones that asked
    audit,     \* verification_events, in the order they were written
    mails,     \* Email -> mails that told the account it was approved
    otp,       \* agrotech:otp:session: Phone -> [code, attempts], or None
    cooling,   \* agrotech:otp:cool: the phones that have the key
    hourly,    \* agrotech:otp:hourly: Phone -> [n, ttl], n = 0 when there is no key
    req,       \* the requests in flight: Req -> record, see Free
    guesses,   \* history: Serial -> wrong codes compared with this one
    accepted,  \* history: Serial -> times this code let somebody in
    raced,     \* history: "otp", "verdict": two requests of that kind overlapped;
               \* a pc of CutPc: a request was cut short there
    mix,       \* the kinds of requests of this behaviour
    calls, faults, lapses

tables == <<account, user, natural, deletion, audit, mails>>
keys   == <<otp, cooling, hourly>>
ghosts == <<guesses, accepted, raced, mix, calls, lapses>>
vars   == <<account, user, natural, deletion, audit, mails, otp, cooling, hourly, req,
            guesses, accepted, raced, mix, calls, faults, lapses>>

Account == [uid: Serial, confirmed: BOOLEAN]
User    == [role: {"JURIDICA", "ADMIN"}, nit: Nit \cup {None}, uid: Serial \cup {0},
            verified: BOOLEAN]
Event   == [target: Email, verified: BOOLEAN]
Session == [code: Serial, attempts: 0..MaxAttempts]

ASSUME NoneIsNoRow == None \notin Account \cup User \cup Session

Pc == {"free", "find", "signUp", "create", "compensate", "confirm", "signIn", "findRow",
       "target", "update", "audit", "decrypt", "request", "cool", "hourly", "session",
       "setCool", "incr", "expire", "read", "drop", "match", "save", "consume", "upsert"}

(* A request: its arguments, and what it has read so far. *)
Request == [pc: Pc, id: Serial \cup {0}, email: Email \cup {None}, nit: Nit \cup {None},
            phone: Phone \cup {None}, verdict: BOOLEAN, good: BOOLEAN,
            read: Session \cup {None}]
Free    == [pc |-> "free", id |-> 0, email |-> None, nit |-> None, phone |-> None,
            verdict |-> FALSE, good |-> FALSE, read |-> None]

OtpPc     == {"cool", "hourly", "session", "setCool", "incr", "expire",
              "read", "drop", "match", "save", "consume"}
VerdictPc == {"target", "update", "audit"}

\* Where a cut leaves a code or a counter half written.
CutPc     == {"expire", "drop", "save", "consume"}

\* createAdmin: seeded with an account of its own.
AdminRow == [role |-> "ADMIN", nit |-> None, uid |-> 0, verified |-> TRUE]

Init ==
    /\ account = [e \in Email |-> IF e \in Admin THEN [uid |-> 1, confirmed |-> TRUE] ELSE None]
    /\ user = [e \in Email |-> IF e \in Admin THEN AdminRow ELSE None]
    /\ natural = {} /\ deletion = {} /\ audit = << >> /\ mails = [e \in Email |-> 0]
    /\ otp = [p \in Phone |-> None] /\ cooling = {}
    /\ hourly = [p \in Phone |-> [n |-> 0, ttl |-> TRUE]]
    /\ req = [r \in Req |-> Free]
    /\ guesses = [c \in Serial |-> 0] /\ accepted = [c \in Serial |-> 0]
    /\ raced = {} /\ mix \in Mixes
    /\ calls = 0 /\ faults = 0 /\ lapses = 0

----------------------------------------------------------------------------
(* Requests *)

On(r, pc)   == req[r].pc = pc
Goto(r, pc) == req' = [req EXCEPT ![r].pc = pc]
End(r)      == req' = [req EXCEPT ![r] = Free]

Fault == faults < MaxFaults /\ faults' = faults + 1

\* A request arrives; two that overlap on the one-time codes, or two verdicts, race.
Receive(kind, q) ==
    /\ kind \in mix /\ calls < MaxCalls
    /\ calls' = calls + 1
    /\ \E r \in Req : On(r, "free") /\ req' = [req EXCEPT ![r] = [q EXCEPT !.id = calls']]
    /\ raced' = raced
         \cup (IF q.pc \in OtpPc /\ (\E r \in Req : req[r].pc \in OtpPc) THEN {"otp"} ELSE {})
         \cup (IF q.pc \in VerdictPc /\ (\E r \in Req : req[r].pc \in VerdictPc)
               THEN {"verdict"} ELSE {})
    /\ UNCHANGED <<tables, keys, guesses, accepted, mix, faults, lapses>>

Arrive ==
    \/ \E e \in Email, n \in Nit :
         Receive("register", [Free EXCEPT !.pc = "find", !.email = e, !.nit = n])
    \/ \E e \in Email : Receive("resend", [Free EXCEPT !.pc = "signIn", !.email = e])
    \/ \E e \in Email, b \in BOOLEAN :
         Receive("verdict", [Free EXCEPT !.pc = "target", !.email = e, !.verdict = b])
    \/ \E p \in natural : Receive("delete", [Free EXCEPT !.pc = "request", !.phone = p])
    \/ \E p \in Phone : Receive("send", [Free EXCEPT !.pc = "cool", !.phone = p])
    \/ \E p \in Phone, b \in BOOLEAN :
         Receive("verify", [Free EXCEPT !.pc = "read", !.phone = p, !.good = b])

----------------------------------------------------------------------------
(* The email provider *)

Known(e) == account[e] # None

SignedUp(e, id) == [account EXCEPT ![e] = [uid |-> id, confirmed |-> FALSE]]

Confirmed(e) == [account EXCEPT ![e].confirmed = TRUE]

Deleted(e) == [account EXCEPT ![e] = None]

----------------------------------------------------------------------------
(* registerJuridica *)

FindById(e) == user[e]

FindJuridicaByEmail(e) == IF user[e] # None /\ user[e].role = "JURIDICA" THEN user[e] ELSE None

FindJuridicaByNit(n) == {e \in Email : FindJuridicaByEmail(e) # None /\ user[e].nit = n}

Find(r) ==
    /\ On(r, "find")
    /\ IF FindJuridicaByEmail(req[r].email) # None \/ FindJuridicaByNit(req[r].nit) # {}
       THEN End(r) ELSE Goto(r, "signUp")
    /\ UNCHANGED <<tables, keys, ghosts, faults>>

\* The provider makes the account, says that it exists, or fails, the account made or not.
SignUp(r) ==
    LET e == req[r].email
        made == SignedUp(e, req[r].id)
    IN
    /\ On(r, "signUp")
    /\ \/ Known(e) /\ End(r) /\ UNCHANGED <<account, faults>>
       \/ ~Known(e) /\ account' = made /\ Goto(r, "create") /\ UNCHANGED faults
       \/ ~Known(e) /\ account' \in {account, made} /\ End(r) /\ Fault
    /\ UNCHANGED <<user, natural, deletion, audit, mails, keys, ghosts>>

\* email_hash and nit_hash are unique, whatever the role.
Taken(e, n) == user[e] # None \/ (\E f \in Email : user[f] # None /\ user[f].nit = n)

\* Mutant: the role is stored under a name of its own.
Empresa(q) == [role |-> "EMPRESA", nit |-> q.nit, uid |-> q.id, verified |-> FALSE]

Juridica(q) == [role |-> "JURIDICA", nit |-> q.nit, uid |-> q.id, verified |-> FALSE]

\* createJuridica, of a repository in memory or in Postgres.
Inserted(q) == IF Taken(q.email, q.nit) THEN user ELSE [user EXCEPT ![q.email] = Juridica(q)]

\* Mutant: a request whose row is refused ends at once.
CreateKept(r) ==
    /\ On(r, "create")
    /\ IF Taken(req[r].email, req[r].nit) THEN End(r) /\ UNCHANGED user
       ELSE user' = Inserted(req[r]) /\ Goto(r, "confirm")
    /\ UNCHANGED <<account, natural, deletion, audit, mails, keys, ghosts, faults>>

\* Whatever stops the row, the account is taken back, even when the call that failed
\* had inserted it.
Create(r) ==
    /\ On(r, "create")
    /\ \/ /\ ~Taken(req[r].email, req[r].nit)
          /\ user' = Inserted(req[r])
          /\ Goto(r, "confirm") /\ UNCHANGED faults
       \/ Taken(req[r].email, req[r].nit) /\ Goto(r, "compensate") /\ UNCHANGED <<user, faults>>
       \/ Goto(r, "compensate") /\ Fault /\ user' \in {user, Inserted(req[r])}
    /\ UNCHANGED <<account, natural, deletion, audit, mails, keys, ghosts>>

\* compensateFirebaseSignUp: a failure is logged and forgotten.
Compensate(r) ==
    /\ On(r, "compensate")
    /\ End(r)
    /\ \/ account' = Deleted(req[r].email) /\ UNCHANGED faults
       \/ UNCHANGED account /\ Fault
    /\ UNCHANGED <<user, natural, deletion, audit, mails, keys, ghosts>>

\* sendEmailVerification: the local provider confirms at once, the real one when the
\* link is followed; a failure leaves the account registered.
Confirm(r) ==
    /\ On(r, "confirm")
    /\ End(r)
    /\ \/ Known(req[r].email) /\ account' = Confirmed(req[r].email) /\ UNCHANGED faults
       \/ UNCHANGED <<account, faults>>
       \/ UNCHANGED account /\ Fault
    /\ UNCHANGED <<user, natural, deletion, audit, mails, keys, ghosts>>

\* resendJuridicaVerification: the account signs in, its row is looked up.
SignIn(r) ==
    /\ On(r, "signIn")
    /\ IF Known(req[r].email) THEN Goto(r, "findRow") ELSE End(r)
    /\ UNCHANGED <<tables, keys, ghosts, faults>>

FindRow(r) ==
    /\ On(r, "findRow")
    /\ IF FindJuridicaByEmail(req[r].email) = None THEN End(r) ELSE Goto(r, "confirm")
    /\ UNCHANGED <<tables, keys, ghosts, faults>>

----------------------------------------------------------------------------
(* AdminJuridicaService.setVerified *)

Target(r) ==
    LET u == FindById(req[r].email) IN
    /\ On(r, "target")
    /\ IF u # None /\ u.role = "JURIDICA" /\ u.verified # req[r].verdict
       THEN Goto(r, "update") ELSE End(r)
    /\ UNCHANGED <<tables, keys, ghosts, faults>>

\* UPDATE users ... WHERE id and role = JURIDICA.
SetVerified(e, b) ==
    IF FindJuridicaByEmail(e) = None THEN user ELSE [user EXCEPT ![e].verified = b]

Update(r) ==
    /\ On(r, "update")
    /\ user' = SetVerified(req[r].email, req[r].verdict)
    /\ IF FindJuridicaByEmail(req[r].email) = None THEN End(r) ELSE Goto(r, "audit")
    /\ UNCHANGED <<account, natural, deletion, audit, mails, keys, ghosts, faults>>

\* Mutant: only approvals are audited.
AuditApprovals(r) ==
    /\ On(r, "audit")
    /\ audit' = IF req[r].verdict
                THEN Append(audit, [target |-> req[r].email, verified |-> TRUE]) ELSE audit
    /\ IF req[r].verdict THEN Goto(r, "decrypt") ELSE End(r)
    /\ UNCHANGED <<account, user, natural, deletion, mails, keys, ghosts, faults>>

\* The event is written after the row; a failure answers 500.
Audit(r) ==
    /\ On(r, "audit")
    /\ \/ /\ audit' = Append(audit, [target |-> req[r].email, verified |-> req[r].verdict])
          /\ IF req[r].verdict THEN Goto(r, "decrypt") ELSE End(r)
          /\ UNCHANGED faults
       \/ End(r) /\ Fault /\ UNCHANGED audit
    /\ UNCHANGED <<account, user, natural, deletion, mails, keys, ghosts>>

DecryptJuridicaEmail(e) == IF FindJuridicaByEmail(e) = None THEN None ELSE e

\* The mail is best effort.
NotifyVerified(r) ==
    /\ On(r, "decrypt")
    /\ End(r)
    /\ \/ /\ mails' = [e \in Email |-> IF e = DecryptJuridicaEmail(req[r].email)
                                       THEN mails[e] + 1 ELSE mails[e]]
          /\ UNCHANGED faults
       \/ UNCHANGED mails /\ Fault
    /\ UNCHANGED <<account, user, natural, deletion, audit, keys, ghosts>>

----------------------------------------------------------------------------
(* OtpService.send: assertNotRateLimited, the code, the cooldown, the counter *)

Cool(r) ==
    /\ On(r, "cool")
    /\ IF req[r].phone \in cooling THEN End(r) ELSE Goto(r, "hourly")
    /\ UNCHANGED <<tables, keys, ghosts, faults>>

Hourly(r) ==
    /\ On(r, "hourly")
    /\ IF hourly[req[r].phone].n >= HourlyLimit THEN End(r) ELSE Goto(r, "session")
    /\ UNCHANGED <<tables, keys, ghosts, faults>>

SetSession(r) ==
    /\ On(r, "session")
    /\ \/ /\ otp' = [otp EXCEPT ![req[r].phone] = [code |-> req[r].id, attempts |-> 0]]
          /\ Goto(r, "setCool") /\ UNCHANGED faults
       \/ End(r) /\ Fault /\ UNCHANGED otp
    /\ UNCHANGED <<tables, cooling, hourly, ghosts>>

SetCooldown(r) ==
    /\ On(r, "setCool")
    /\ cooling' = cooling \cup {req[r].phone}
    /\ Goto(r, "incr")
    /\ UNCHANGED <<tables, otp, hourly, ghosts, faults>>

\* RedisKvStore.incr: INCR, then EXPIRE for the first hit.
Incr(r) ==
    LET h == hourly[req[r].phone] IN
    /\ On(r, "incr")
    /\ hourly' = [hourly EXCEPT ![req[r].phone] = [n |-> h.n + 1, ttl |-> h.n > 0 /\ h.ttl]]
    /\ IF h.n = 0 THEN Goto(r, "expire") ELSE End(r)
    /\ UNCHANGED <<tables, otp, cooling, ghosts, faults>>

SetExpiry(r) ==
    /\ On(r, "expire")
    /\ hourly' = [hourly EXCEPT ![req[r].phone].ttl = TRUE]
    /\ End(r)
    /\ UNCHANGED <<tables, otp, cooling, ghosts, faults>>

----------------------------------------------------------------------------
(* OtpService.verify *)

ReadSession(r) ==
    LET s == otp[req[r].phone] IN
    /\ On(r, "read")
    /\ IF s = None THEN End(r)
       ELSE req' = [req EXCEPT ![r].read = s,
                               ![r].pc = IF s.attempts >= MaxAttempts THEN "drop" ELSE "match"]
    /\ UNCHANGED <<tables, keys, ghosts, faults>>

DropSession(r) ==
    /\ On(r, "drop")
    /\ otp' = [otp EXCEPT ![req[r].phone] = None]
    /\ End(r)
    /\ UNCHANGED <<tables, cooling, hourly, ghosts, faults>>

\* matchCode: a provider that fails refuses the code like a wrong one.
Match(r) ==
    LET s == req[r].read
        left == s.attempts + 1 >= MaxAttempts
    IN
    /\ On(r, "match")
    /\ \/ /\ req[r].good
          /\ Goto(r, "consume")
          /\ accepted' = [accepted EXCEPT ![s.code] = @ + 1]
          /\ UNCHANGED <<guesses, faults>>
       \/ /\ IF req[r].good THEN Fault /\ UNCHANGED guesses
             ELSE guesses' = [guesses EXCEPT ![s.code] = @ + 1] /\ UNCHANGED faults
          /\ req' = [req EXCEPT ![r].pc = IF left THEN "drop" ELSE "save",
                                ![r].read.attempts = @ + 1]
          /\ UNCHANGED accepted
    /\ UNCHANGED <<tables, keys, raced, mix, calls, lapses>>

\* Mutant: the count of attempts is not written back.
SaveNothing(r) ==
    /\ On(r, "save")
    /\ End(r)
    /\ UNCHANGED <<tables, keys, ghosts, faults>>

SaveSession(r) ==
    /\ On(r, "save")
    /\ otp' = [otp EXCEPT ![req[r].phone] = req[r].read]
    /\ End(r)
    /\ UNCHANGED <<tables, cooling, hourly, ghosts, faults>>

Consume(r) ==
    /\ On(r, "consume")
    /\ otp' = [otp EXCEPT ![req[r].phone] = None]
    /\ Goto(r, "upsert")
    /\ UNCHANGED <<tables, cooling, hourly, ghosts, faults>>

\* INSERT ... ON CONFLICT (phone_hash) DO UPDATE.
WithNatural(p) == natural \cup {p}

FindOrCreateNatural(r) ==
    /\ On(r, "upsert")
    /\ natural' = WithNatural(req[r].phone)
    /\ End(r)
    /\ UNCHANGED <<account, user, deletion, audit, mails, keys, ghosts, faults>>

\* ON CONFLICT (user_id) DO NOTHING.
Requested(p) == deletion \cup {p}

RequestDeletion(r) ==
    /\ On(r, "request")
    /\ deletion' = Requested(req[r].phone)
    /\ End(r)
    /\ UNCHANGED <<account, user, natural, audit, mails, keys, ghosts, faults>>

----------------------------------------------------------------------------
(* The environment *)

\* The owner of an account follows the link that was sent.
FollowLink(e) ==
    /\ Known(e) /\ ~account[e].confirmed
    /\ account' = Confirmed(e)
    /\ UNCHANGED <<user, natural, deletion, audit, mails, keys, req, ghosts, faults>>

\* A key with a lifetime expires.
Lapse(p) ==
    /\ lapses < MaxLapses
    /\ lapses' = lapses + 1
    /\ \/ otp[p] # None /\ otp' = [otp EXCEPT ![p] = None] /\ UNCHANGED <<cooling, hourly>>
       \/ p \in cooling /\ cooling' = cooling \ {p} /\ UNCHANGED <<otp, hourly>>
       \/ /\ hourly[p].n > 0 /\ hourly[p].ttl
          /\ hourly' = [hourly EXCEPT ![p].n = 0]
          /\ UNCHANGED <<otp, cooling>>
    /\ UNCHANGED <<tables, req, guesses, accepted, raced, mix, calls, faults>>

\* Requests end where they are, whatever they had left to write.
Cut(rs) ==
    /\ req' = [r \in Req |-> IF r \in rs THEN Free ELSE req[r]]
    /\ raced' = raced \cup ({req[r].pc : r \in rs} \cap CutPc)
    /\ Fault
    /\ UNCHANGED <<tables, keys, guesses, accepted, mix, calls, lapses>>

\* A call of the key-value store or the database throws: the request answers 500.
CallFails(r) ==
    /\ req[r].pc \in (OtpPc \ {"match", "session"}) \cup {"target", "update", "upsert"}
    /\ Cut({r})

Crash == (\E r \in Req : ~On(r, "free")) /\ Cut(Req)

----------------------------------------------------------------------------
Register(r) == Find(r) \/ SignUp(r) \/ Create(r) \/ Compensate(r) \/ Confirm(r)
Resend(r)   == SignIn(r) \/ FindRow(r)
Verdict(r)  == Target(r) \/ Update(r) \/ Audit(r) \/ NotifyVerified(r)
SendOtp(r)  == Cool(r) \/ Hourly(r) \/ SetSession(r) \/ SetCooldown(r) \/ Incr(r) \/ SetExpiry(r)
Verify(r)   == \/ ReadSession(r) \/ DropSession(r) \/ Match(r) \/ SaveSession(r)
               \/ Consume(r) \/ FindOrCreateNatural(r)

Next ==
    \/ Arrive \/ Crash
    \/ \E r \in Req : \/ Register(r) \/ Resend(r) \/ Verdict(r) \/ SendOtp(r) \/ Verify(r)
                      \/ RequestDeletion(r) \/ CallFails(r)
    \/ \E e \in Email : FollowLink(e)
    \/ \E p \in Phone : Lapse(p)

Spec == Init /\ [][Next]_vars

----------------------------------------------------------------------------
(* Every variable has its type. *)
TypeOK ==
    /\ account \in [Email -> Account \cup {None}]
    /\ user \in [Email -> User \cup {None}]
    /\ natural \subseteq Phone /\ deletion \subseteq Phone
    /\ audit \in Seq(Event) /\ mails \in [Email -> Nat]
    /\ otp \in [Phone -> Session \cup {None}] /\ cooling \subseteq Phone
    /\ hourly \in [Phone -> [n: Nat, ttl: BOOLEAN]]
    /\ req \in [Req -> Request]
    /\ guesses \in [Serial -> Nat] /\ accepted \in [Serial -> Nat]
    /\ raced \subseteq {"otp", "verdict"} \cup CutPc /\ mix \in Mixes
    /\ calls \in 0..MaxCalls /\ faults \in 0..MaxFaults /\ lapses \in 0..MaxLapses

(* The provider and the users table agree, unless a call failed or the       *)
(* process crashed.  A JURIDICA has the account its own registration made,   *)
(* and an account without a row belongs to a registration in flight, which   *)
(* will give it one or take it back: nobody is left with an email that can   *)
(* neither register nor log in.                                              *)
Registering(e) == \E r \in Req : /\ req[r].pc \in {"create", "compensate"} /\ req[r].email = e
                                 /\ account[e].uid = req[r].id

AccountsBacked ==
    faults = 0 =>
        \A e \in Email :
            /\ FindJuridicaByEmail(e) # None => Known(e) /\ account[e].uid = user[e].uid
            /\ Known(e) /\ user[e] = None => Registering(e)

(* Unless a call failed or two verdicts overlapped, the last event audited   *)
(* for an account is the verdict its row shows, once the request that wrote  *)
(* the row has audited it; an account that was never judged is unverified.   *)
LastVerdict(e) ==
    \E i \in DOMAIN audit :
        /\ audit[i].target = e /\ audit[i].verified
        /\ \A j \in DOMAIN audit : audit[j].target = e => j <= i

AuditTells ==
    faults = 0 /\ "verdict" \notin raced =>
        \A e \in Email : FindJuridicaByEmail(e) # None =>
            \/ user[e].verified = LastVerdict(e)
            \/ \E r \in Req : On(r, "audit") /\ req[r].email = e

(* The codes hold, whatever else fails or crashes.  Unless two requests of   *)
(* the codes overlapped, no more than OTP_PHONE_HOURLY_LIMIT codes are        *)
(* counted while the counter lives; unless besides one was cut before it      *)
(* wrote down how a comparison ended (save, drop, consume), a code is         *)
(* compared with at most OTP_MAX_ATTEMPTS wrong guesses and lets somebody in  *)
(* at most once.  And unless a request was cut between INCR and EXPIRE, the   *)
(* counter has a lifetime or is being given one, so that no phone is locked   *)
(* out for good.                                                              *)
Guarded == \A c \in Serial : guesses[c] <= MaxAttempts /\ accepted[c] <= 1

Limited == \A p \in Phone : hourly[p].n <= HourlyLimit

LimitPasses ==
    \A p \in Phone : hourly[p].n > 0 =>
        hourly[p].ttl \/ \E r \in Req : On(r, "expire") /\ req[r].phone = p

CodesHold ==
    /\ "expire" \notin raced => LimitPasses
    /\ "otp" \notin raced => Limited /\ (raced \cap CutPc \subseteq {"expire"} => Guarded)
==============================================================================
