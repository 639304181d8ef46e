---------------------------- MODULE AccountsProofs ----------------------------
(***************************************************************************)
(* What the accounts guarantee for any number of emails, phones, requests    *)
(* and faults: the provider and the users table agree while no call fails,   *)
(* the limits of the one-time codes hold whatever fails, unless one of the    *)
(* cuts that CodesHold names happened, and the rows show the verdicts that    *)
(* were audited.                                                             *)
(***************************************************************************)
EXTENDS Accounts, TLAPS

(***************************************************************************)
(* What a request holds at each of its steps.                                *)
(***************************************************************************)
RegisterPc == {"find", "signUp", "create", "compensate"}
EmailPc    == RegisterPc \cup {"confirm", "signIn", "findRow", "target", "update", "audit",
                               "decrypt"}
PhonePc    == OtpPc \cup {"upsert", "request"}
ReadPc     == {"drop", "match", "save", "consume"}
Owns       == {"create", "compensate"}

Well(q) ==
    /\ q \in Request
    /\ q.pc # "free" => q.id \in Serial
    /\ q.pc \in EmailPc => q.email \in Email
    /\ q.pc \in RegisterPc => q.nit \in Nit
    /\ q.pc \in PhonePc => q.phone \in Phone
    /\ q.pc \in ReadPc => q.read \in Session
    /\ q.pc = "match" => q.read.attempts < MaxAttempts

Numbered ==
    /\ \A r \in Req : req[r].pc # "free" => req[r].id <= calls
    /\ \A r, s \in Req : req[r].pc # "free" /\ req[s].pc # "free" /\ req[r].id = req[s].id => r = s

(***************************************************************************)
(* AccountsBacked is not inductive: a registration between the provider and  *)
(* the table owns the account of its email, and no row has it.               *)
(***************************************************************************)
NoRow(e) == user[e] = None \/ user[e].role # "JURIDICA"

Owned ==
    \A r \in Req : req[r].pc \in Owns =>
        /\ account[req[r].email] # None /\ account[req[r].email].uid = req[r].id
        /\ NoRow(req[r].email)

Agree ==
    \A e \in Email :
        /\ NoRow(e) \/ (account[e] # None /\ account[e].uid = user[e].uid)
        /\ account[e] # None /\ user[e] = None =>
              \E r \in Req : /\ req[r].pc \in Owns /\ req[r].email = e
                             /\ account[e].uid = req[r].id

Backed == faults = 0 => Owned /\ Agree

(***************************************************************************)
(* Nor is CodesHold: the count of attempts a session keeps is not behind the *)
(* wrong guesses, unless the request that makes it so is about to write it   *)
(* back or to drop it.                                                       *)
(***************************************************************************)
Behind(s) == guesses[s.code] <= s.attempts /\ accepted[s.code] = 0
Unused(c) == /\ guesses[c] = 0 /\ accepted[c] = 0
             /\ \A p \in Phone : otp[p] # None => otp[p].code # c
Settling(p) == \E r \in Req : req[r].pc \in {"drop", "save", "consume"} /\ req[r].phone = p

Calm ==
    /\ \A r, s \in Req : req[r].pc \in OtpPc /\ req[s].pc \in OtpPc => r = s
    /\ Guarded /\ Limited
    /\ \A c \in Serial : c > calls => Unused(c)
    /\ \A r \in Req : req[r].pc \in {"cool", "hourly", "session"} => Unused(req[r].id)
    /\ \A r \in Req : req[r].pc \in {"session", "setCool", "incr"} =>
          hourly[req[r].phone].n < HourlyLimit
    /\ \A p \in Phone : otp[p] # None => Behind(otp[p]) \/ Settling(p)
    /\ \A r \in Req : req[r].pc \in {"match", "save"} => Behind(req[r].read)
    /\ \A p, o \in Phone : otp[p] # None /\ otp[o] # None /\ otp[p].code = otp[o].code => p = o
    /\ \A r \in Req, p \in Phone :
          req[r].pc \in ReadPc /\ otp[p] # None /\ otp[p].code = req[r].read.code =>
             p = req[r].phone
    /\ \A r \in Req : req[r].pc \in ReadPc => req[r].read.code <= calls

\* Nothing disturbed what a comparison writes: no overlap, no cut that left it unwritten.
Clean == "otp" \notin raced /\ raced \cap CutPc \subseteq {"expire"}

Codes == ("expire" \notin raced => LimitPasses) /\ (Clean => Calm)

IInv == TypeOK /\ (\A r \in Req : Well(req[r])) /\ Numbered /\ Backed /\ Codes

USE AccountsAssumption, NoneIsNoRow

----------------------------------------------------------------------------
(* What a step of one request leaves alone *)

LEMMA FreeWell == Well(Free) /\ Free.pc = "free"
  BY DEF Well, Free, Request, Pc, EmailPc, RegisterPc, PhonePc, OtpPc, ReadPc

LEMMA GoIs ==
  ASSUME TypeOK, NEW r \in Req, NEW pc \in Pc, Goto(r, pc)
  PROVE  \E q \in Request :
            /\ req' = [req EXCEPT ![r] = q] /\ q.pc = pc
            /\ q.id = req[r].id /\ q.email = req[r].email /\ q.nit = req[r].nit
            /\ q.phone = req[r].phone /\ q.read = req[r].read
  <1> DEFINE q == [req[r] EXCEPT !.pc = pc]
  <1>1. req[r] \in Request
    BY DEF TypeOK
  <1>2. q \in Request /\ q.pc = pc /\ q.id = req[r].id /\ q.email = req[r].email
        /\ q.nit = req[r].nit /\ q.phone = req[r].phone /\ q.read = req[r].read
    BY <1>1 DEF Request
  <1>3. req' = [req EXCEPT ![r] = q]
    BY DEF Goto, TypeOK
  <1> QED BY <1>2, <1>3

(* A request that goes on keeps its number and the others theirs.            *)
LEMMA NumbersKept ==
  ASSUME IInv, NEW r \in Req, NEW q, req' = [req EXCEPT ![r] = q], Well(q), calls' = calls,
         q.pc # "free" => req[r].pc # "free" /\ q.id = req[r].id
  PROVE  req' \in [Req -> Request] /\ (\A s \in Req : Well(req'[s])) /\ Numbered'
  <1>1. req' \in [Req -> Request]
    BY DEF IInv, TypeOK, Well
  <1>2. req'[r] = q /\ \A s \in Req \ {r} : req'[s] = req[s]
    BY DEF IInv, TypeOK
  <1>3. \A s \in Req : Well(req'[s])
    BY <1>2 DEF IInv
  <1>4. \A s \in Req : req'[s].pc # "free" => req[s].pc # "free" /\ req'[s].id = req[s].id
    BY <1>2
  <1>5. Numbered'
    BY <1>4 DEF IInv, Numbered
  <1> QED BY <1>1, <1>3, <1>5

LEMMA FaultExcuses ==
  ASSUME IInv, Fault
  PROVE  faults' \in 0..MaxFaults /\ Backed'
  BY DEF IInv, TypeOK, Fault, Backed

(* A request that owns no account, before and after, keeps what the provider *)
(* and the table agree on.                                                   *)
LEMMA BackedKept ==
  ASSUME IInv, NEW r \in Req, NEW q, req' = [req EXCEPT ![r] = q],
         req[r].pc \notin Owns, q.pc \notin Owns, UNCHANGED <<account, user, faults>>
  PROVE  Backed'
  <1> SUFFICES ASSUME faults = 0 PROVE Owned' /\ Agree'
    BY DEF Backed
  <1>1. req'[r] = q /\ \A s \in Req \ {r} : req'[s] = req[s]
    BY DEF IInv, TypeOK
  <1>2. Owned /\ Agree
    BY DEF IInv, Backed
  <1>3. Owned'
    BY <1>1, <1>2 DEF Owned, NoRow
  <1>4. \A s \in Req : req[s].pc \in Owns => req'[s] = req[s]
    BY <1>1
  <1>5. Agree'
    BY <1>2, <1>4 DEF Agree, NoRow
  <1> QED BY <1>3, <1>5

(* So does one that has nothing to do with the codes keep their limits.       *)
LEMMA CodesStill ==
  ASSUME IInv,
         \A s \in Req : req'[s] = req[s] \/ (req[s].pc \notin OtpPc /\ req'[s].pc \notin OtpPc),
         UNCHANGED <<otp, hourly, guesses, accepted, raced, calls>>
  PROVE  Codes'
  <1> SUFFICES ("expire" \notin raced => LimitPasses') /\ (Clean => Calm')
    BY DEF Codes, Clean
  <1>2. \A s \in Req : \/ req'[s] = req[s]
                       \/ req[s].pc \notin OtpPc /\ req'[s].pc \notin OtpPc
    OBVIOUS
  <1>3. "expire" \notin raced => LimitPasses'
    BY <1>2 DEF IInv, Codes, LimitPasses, On, OtpPc
  <1>4. ASSUME Clean PROVE Calm'
    <2>1. Calm
      BY <1>4 DEF IInv, Codes
    <2>2. \A c \in Serial : Unused(c)' = Unused(c)
      BY DEF Unused
    <2>3. \A p \in Phone : Settling(p) => Settling(p)'
      BY <1>2 DEF Settling, OtpPc
    <2>4. \A s : Behind(s)' = Behind(s)
      BY DEF Behind
    <2>5. \A s \in Req : req'[s].pc \in OtpPc => req'[s] = req[s] /\ Well(req[s])
      BY <1>2 DEF IInv
    <2>6. \A s \in Req : req[s].pc \in OtpPc => req[s].id \in Serial
      BY DEF IInv, Well, OtpPc
    <2>7. Guarded' /\ Limited'
      BY <2>1 DEF Calm, Guarded, Limited
    <2> QED
      BY <2>1, <2>2, <2>3, <2>4, <2>5, <2>6, <2>7 DEF Calm, OtpPc, ReadPc
  <1> QED BY <1>3, <1>4

LEMMA CodesKept ==
  ASSUME IInv, NEW r \in Req, NEW q, req' = [req EXCEPT ![r] = q],
         req[r].pc \notin OtpPc, q.pc \notin OtpPc,
         UNCHANGED <<otp, hourly, guesses, accepted, raced, calls>>
  PROVE  Codes'
  <1>1. \A s \in Req : req'[s] = req[s] \/ (req[s].pc \notin OtpPc /\ req'[s].pc \notin OtpPc)
    BY DEF IInv, TypeOK
  <1> QED BY <1>1, CodesStill

LEMMA Elsewhere ==
  ASSUME IInv, NEW r \in Req, NEW q, req' = [req EXCEPT ![r] = q], Well(q),
         q.pc # "free" => req[r].pc # "free" /\ q.id = req[r].id,
         req[r].pc \notin OtpPc \cup Owns, q.pc \notin OtpPc \cup Owns,
         UNCHANGED <<account, user, otp, hourly, guesses, accepted, raced, calls>>,
         UNCHANGED faults \/ Fault,
         req' \in [Req -> Request] /\ faults' \in 0..MaxFaults => TypeOK'
  PROVE  IInv'
  <1>1. faults' \in 0..MaxFaults
    BY FaultExcuses DEF IInv, TypeOK
  <1>2. req' \in [Req -> Request] /\ (\A s \in Req : Well(req'[s])) /\ Numbered'
    BY NumbersKept
  <1>3. Backed' /\ Codes'
    <2>1. CASE Fault
      BY <2>1, FaultExcuses, CodesKept
    <2>2. CASE UNCHANGED faults
      BY <2>2, BackedKept, CodesKept
    <2> QED BY <2>1, <2>2
  <1> QED BY <1>1, <1>2, <1>3 DEF IInv

LEMMA EndElsewhere ==
  ASSUME IInv, NEW r \in Req, End(r), req[r].pc \notin OtpPc \cup Owns,
         UNCHANGED <<account, user, otp, hourly, guesses, accepted, raced, calls>>,
         UNCHANGED faults \/ Fault,
         req' \in [Req -> Request] /\ faults' \in 0..MaxFaults => TypeOK'
  PROVE  IInv'
  <1>1. req' = [req EXCEPT ![r] = Free] /\ Free.pc \notin OtpPc \cup Owns
    BY FreeWell DEF End, OtpPc, Owns
  <1> QED BY <1>1, FreeWell, Elsewhere

LEMMA GoElsewhere ==
  ASSUME IInv, NEW r \in Req,
         NEW pc \in {"signUp", "confirm", "findRow", "update", "audit", "decrypt"},
         Goto(r, pc) \/ End(r),
         req[r].pc \notin OtpPc \cup Owns,
         Goto(r, pc) => req[r].pc \in EmailPc /\ (pc = "signUp" => req[r].pc \in RegisterPc),
         UNCHANGED <<account, user, otp, hourly, guesses, accepted, raced, calls>>,
         UNCHANGED faults \/ Fault,
         req' \in [Req -> Request] /\ faults' \in 0..MaxFaults => TypeOK'
  PROVE  IInv'
  <1>1. CASE End(r)
    BY <1>1, EndElsewhere
  <1>2. CASE Goto(r, pc)
    <2>1. pc \in Pc /\ pc \in EmailPc /\ pc \notin PhonePc \cup ReadPc \cup Owns /\ pc # "free"
          /\ (pc \in RegisterPc => pc = "signUp") /\ EmailPc \cap {"free"} = {}
          /\ pc # "match" /\ OtpPc \subseteq PhonePc
      BY DEF Pc, EmailPc, PhonePc, OtpPc, ReadPc, Owns, RegisterPc
    <2>2. PICK q \in Request :
            /\ req' = [req EXCEPT ![r] = q] /\ q.pc = pc
            /\ q.id = req[r].id /\ q.email = req[r].email /\ q.nit = req[r].nit
            /\ q.phone = req[r].phone /\ q.read = req[r].read
      BY <1>2, <2>1, GoIs DEF IInv
    <2>3. Well(req[r])
      BY DEF IInv
    <2>4. req[r].pc # "free"
      BY <1>2, <2>1
    <2>5. Well(q)
      BY <1>2, <2>1, <2>2, <2>3, <2>4 DEF Well
    <2> QED BY <2>1, <2>2, <2>4, <2>5, Elsewhere
  <1> QED BY <1>1, <1>2

LEMMA ElsewhereSteps ==
  ASSUME IInv, NEW r \in Req,
         \/ Find(r) \/ SignIn(r) \/ FindRow(r) \/ Target(r) \/ Audit(r) \/ NotifyVerified(r)
         \/ FindOrCreateNatural(r) \/ RequestDeletion(r)
  PROVE  IInv'
  <1> USE DEF On, tables, keys, ghosts
  <1>1. CASE Find(r)
    <2>1. req[r].pc \in RegisterPc /\ req[r].pc \in EmailPc /\ req[r].pc \notin OtpPc \cup Owns
      BY <1>1 DEF Find, RegisterPc, EmailPc, OtpPc, Owns
    <2>2. End(r) \/ Goto(r, "signUp")
      BY <1>1 DEF Find
    <2>3. req' \in [Req -> Request] /\ faults' \in 0..MaxFaults => TypeOK'
      BY <1>1 DEF Find, IInv, TypeOK
    <2> QED BY <1>1, <2>1, <2>2, <2>3, GoElsewhere DEF Find
  <1>2. CASE SignIn(r)
    <2>1. req[r].pc \in EmailPc /\ req[r].pc \notin OtpPc \cup Owns
      BY <1>2 DEF SignIn, EmailPc, OtpPc, Owns
    <2>2. End(r) \/ Goto(r, "findRow")
      BY <1>2 DEF SignIn
    <2>3. req' \in [Req -> Request] /\ faults' \in 0..MaxFaults => TypeOK'
      BY <1>2 DEF SignIn, IInv, TypeOK
    <2> QED BY <1>2, <2>1, <2>2, <2>3, GoElsewhere DEF SignIn
  <1>3. CASE FindRow(r)
    <2>1. req[r].pc \in EmailPc /\ req[r].pc \notin OtpPc \cup Owns
      BY <1>3 DEF FindRow, EmailPc, OtpPc, Owns
    <2>2. End(r) \/ Goto(r, "confirm")
      BY <1>3 DEF FindRow
    <2>3. req' \in [Req -> Request] /\ faults' \in 0..MaxFaults => TypeOK'
      BY <1>3 DEF FindRow, IInv, TypeOK
    <2> QED BY <1>3, <2>1, <2>2, <2>3, GoElsewhere DEF FindRow
  <1>4. CASE Target(r)
    <2>1. req[r].pc \in EmailPc /\ req[r].pc \notin OtpPc \cup Owns
      BY <1>4 DEF Target, EmailPc, OtpPc, Owns
    <2>2. End(r) \/ Goto(r, "update")
      BY <1>4 DEF Target
    <2>3. req' \in [Req -> Request] /\ faults' \in 0..MaxFaults => TypeOK'
      BY <1>4 DEF Target, IInv, TypeOK
    <2> QED BY <1>4, <2>1, <2>2, <2>3, GoElsewhere DEF Target
  <1>5. CASE Audit(r)
    <2>1. req[r].pc \in EmailPc /\ req[r].pc \notin OtpPc \cup Owns
      BY <1>5 DEF Audit, EmailPc, OtpPc, Owns
    <2>2. End(r) \/ Goto(r, "decrypt")
      BY <1>5 DEF Audit
    <2>3. req[r].email \in Email /\ req[r].verdict \in BOOLEAN
      BY <2>1 DEF IInv, TypeOK, Request, Well
    <2>4. [target |-> req[r].email, verified |-> req[r].verdict] \in Event
      BY <2>3 DEF Event
    <2>5. audit' \in Seq(Event)
      <3>1. audit \in Seq(Event)
        BY DEF IInv, TypeOK
      <3> QED BY <1>5, <2>4, <3>1 DEF Audit
    <2>6. req' \in [Req -> Request] /\ faults' \in 0..MaxFaults => TypeOK'
      BY <1>5, <2>5 DEF Audit, IInv, TypeOK
    <2> QED BY <1>5, <2>1, <2>2, <2>6, GoElsewhere DEF Audit
  <1>6. CASE NotifyVerified(r)
    <2>1. req[r].pc \in EmailPc /\ req[r].pc \notin OtpPc \cup Owns
      BY <1>6 DEF NotifyVerified, EmailPc, OtpPc, Owns
    <2>2. End(r)
      BY <1>6 DEF NotifyVerified
    <2>3. mails' \in [Email -> Nat]
      BY <1>6 DEF NotifyVerified, IInv, TypeOK
    <2>4. req' \in [Req -> Request] /\ faults' \in 0..MaxFaults => TypeOK'
      BY <1>6, <2>3 DEF NotifyVerified, IInv, TypeOK
    <2>5. UNCHANGED <<account, user, otp, hourly, guesses, accepted, raced, calls>>
          /\ (UNCHANGED faults \/ Fault)
      BY <1>6 DEF NotifyVerified
    <2> QED BY <2>1, <2>2, <2>4, <2>5, EndElsewhere
  <1>7. CASE FindOrCreateNatural(r)
    <2>1. req[r].pc \notin OtpPc \cup Owns /\ req[r].pc \in PhonePc
      BY <1>7 DEF FindOrCreateNatural, OtpPc, Owns, PhonePc
    <2>2. End(r)
      BY <1>7 DEF FindOrCreateNatural
    <2>3. natural' \subseteq Phone
      BY <1>7, <2>1 DEF FindOrCreateNatural, WithNatural, IInv, TypeOK, Well
    <2>4. req' \in [Req -> Request] /\ faults' \in 0..MaxFaults => TypeOK'
      BY <1>7, <2>3 DEF FindOrCreateNatural, IInv, TypeOK
    <2>5. UNCHANGED <<account, user, otp, hourly, guesses, accepted, raced, calls, faults>>
      BY <1>7 DEF FindOrCreateNatural
    <2> QED BY <2>1, <2>2, <2>4, <2>5, EndElsewhere
  <1>8. CASE RequestDeletion(r)
    <2>1. req[r].pc \notin OtpPc \cup Owns /\ req[r].pc \in PhonePc
      BY <1>8 DEF RequestDeletion, OtpPc, Owns, PhonePc
    <2>2. End(r)
      BY <1>8 DEF RequestDeletion
    <2>3. deletion' \subseteq Phone
      BY <1>8, <2>1 DEF RequestDeletion, Requested, IInv, TypeOK, Well
    <2>4. req' \in [Req -> Request] /\ faults' \in 0..MaxFaults => TypeOK'
      BY <1>8, <2>3 DEF RequestDeletion, IInv, TypeOK
    <2>5. UNCHANGED <<account, user, otp, hourly, guesses, accepted, raced, calls, faults>>
      BY <1>8 DEF RequestDeletion
    <2> QED BY <2>1, <2>2, <2>4, <2>5, EndElsewhere
  <1> QED BY <1>1, <1>2, <1>3, <1>4, <1>5, <1>6, <1>7, <1>8

----------------------------------------------------------------------------
(* The steps that change the provider or the table *)

(* A request that goes on to a step of its own kind is well.                 *)
LEMMA GoesOn ==
  ASSUME IInv, NEW r \in Req, NEW pc \in {"create", "compensate", "confirm", "audit"},
         Goto(r, pc), req[r].pc \in EmailPc \ {"free"},
         pc \in Owns => req[r].pc \in RegisterPc
  PROVE  \E q : /\ req' = [req EXCEPT ![r] = q] /\ Well(q) /\ q.pc = pc
                /\ q.id = req[r].id /\ q.email = req[r].email /\ req[r].pc # "free"
  <1>1. pc \in Pc /\ pc \in EmailPc /\ pc \notin PhonePc \cup ReadPc /\ pc # "free"
        /\ (pc \in RegisterPc => pc \in Owns) /\ pc # "match" /\ "free" \notin EmailPc
    BY DEF Pc, EmailPc, PhonePc, OtpPc, ReadPc, Owns, RegisterPc
  <1>2. PICK q \in Request :
          /\ req' = [req EXCEPT ![r] = q] /\ q.pc = pc
          /\ q.id = req[r].id /\ q.email = req[r].email /\ q.nit = req[r].nit
          /\ q.phone = req[r].phone /\ q.read = req[r].read
    BY <1>1, GoIs DEF IInv
  <1>3. Well(req[r])
    BY DEF IInv
  <1>4. Well(q)
    BY <1>1, <1>2, <1>3 DEF Well
  <1> QED BY <1>1, <1>2, <1>4

(* What all of them have in common: only what the provider and the table     *)
(* agree on is left to show.                                                 *)
LEMMA ChangesAccount ==
  ASSUME IInv, NEW r \in Req, NEW q, req' = [req EXCEPT ![r] = q], Well(q),
         q.pc # "free" => q.id = req[r].id, req[r].pc # "free",
         req[r].pc \notin OtpPc, q.pc \notin OtpPc,
         account' \in [Email -> Account \cup {None}], user' \in [Email -> User \cup {None}],
         UNCHANGED <<natural, deletion, audit, mails, keys, ghosts>>,
         UNCHANGED faults \/ Fault,
         UNCHANGED faults => Backed'
  PROVE  IInv'
  <1>1. req' \in [Req -> Request] /\ (\A s \in Req : Well(req'[s])) /\ Numbered'
    BY NumbersKept DEF ghosts
  <1>2. faults' \in 0..MaxFaults /\ Backed' /\ Codes'
    <2>1. Codes'
      BY CodesKept DEF ghosts, keys
    <2>2. CASE Fault
      BY <2>1, <2>2, FaultExcuses
    <2>3. CASE UNCHANGED faults
      BY <2>1, <2>3 DEF IInv, TypeOK
    <2> QED BY <2>2, <2>3
  <1>3. TypeOK'
    BY <1>1, <1>2 DEF IInv, TypeOK, ghosts, keys
  <1> QED BY <1>1, <1>2, <1>3 DEF IInv

LEMMA SignUpStep ==
  ASSUME IInv, NEW r \in Req, SignUp(r)
  PROVE  IInv'
  <1> DEFINE e == req[r].email
  <1>1. /\ Well(req[r]) /\ req[r].pc = "signUp" /\ req[r].pc \in RegisterPc
        /\ req[r].pc \in EmailPc \ {"free"} /\ req[r].pc \notin OtpPc /\ req[r].pc \notin Owns
        /\ req[r].id \in Serial /\ e \in Email
    BY DEF SignUp, On, RegisterPc, EmailPc, OtpPc, Owns, IInv, Well
  <1>2. account \in [Email -> Account \cup {None}] /\ user \in [Email -> User \cup {None}]
    BY DEF IInv, TypeOK
  <1>3. [uid |-> req[r].id, confirmed |-> FALSE] \in Account
    BY <1>1 DEF Account
  <1>4. account' \in [Email -> Account \cup {None}] /\ UNCHANGED user
    BY <1>1, <1>2, <1>3 DEF SignUp, SignedUp
  <1>5. UNCHANGED <<natural, deletion, audit, mails, keys, ghosts>> /\ (UNCHANGED faults \/ Fault)
    BY DEF SignUp
  <1>6. CASE End(r)
    <2>1. req' = [req EXCEPT ![r] = Free] /\ Free.pc \notin OtpPc /\ Free.pc \notin Owns
      BY <1>6, FreeWell DEF End, OtpPc, Owns
    <2>2. ASSUME UNCHANGED faults PROVE UNCHANGED account
      <3>1. ~Fault /\ ~Goto(r, "create")
        <4>1. ~Fault
          BY <2>2 DEF Fault, IInv, TypeOK
        <4>2. req'[r] = Free
          BY <2>1 DEF IInv, TypeOK
        <4>3. Goto(r, "create") => req'[r].pc = "create"
          BY GoIs, <4>2 DEF IInv, TypeOK, Pc
        <4> QED BY <4>1, <4>2, <4>3, FreeWell
      <3> QED BY <3>1 DEF SignUp
    <2>3. UNCHANGED faults => Backed'
      BY <1>1, <1>4, <2>1, <2>2, BackedKept
    <2> QED BY <1>1, <1>2, <1>4, <1>5, <2>1, <2>3, FreeWell, ChangesAccount
  <1>7. CASE ~Known(e) /\ account' = SignedUp(e, req[r].id) /\ Goto(r, "create") /\ UNCHANGED faults
    <2>1. PICK q : /\ req' = [req EXCEPT ![r] = q] /\ Well(q) /\ q.pc = "create"
                   /\ q.id = req[r].id /\ q.email = e /\ req[r].pc # "free"
      BY <1>1, <1>7, GoesOn
    <2>2. req'[r] = q /\ \A s \in Req \ {r} : req'[s] = req[s]
      BY <2>1 DEF IInv, TypeOK
    <2>3. account'[e] # None /\ account'[e].uid = req[r].id
          /\ \A f \in Email \ {e} : account'[f] = account[f]
      BY <1>1, <1>2, <1>3, <1>7 DEF SignedUp
    <2>4. q.pc \notin OtpPc
      BY <2>1 DEF OtpPc
    <2>5. SUFFICES ASSUME faults = 0 PROVE Owned' /\ Agree'
      BY <1>1, <1>2, <1>4, <1>5, <1>7, <2>1, <2>4, ChangesAccount DEF Backed
    <2>6. Owned /\ Agree
      BY <2>5 DEF IInv, Backed
    <2>7. account[e] = None /\ NoRow(e)
      BY <1>1, <1>7, <2>6 DEF Agree, Known
    <2>8. Owned'
      <3> SUFFICES ASSUME NEW s \in Req, req'[s].pc \in Owns
                   PROVE  /\ account'[req'[s].email] # None
                          /\ account'[req'[s].email].uid = req'[s].id
                          /\ user[req'[s].email] = None \/ user[req'[s].email].role # "JURIDICA"
        BY <1>4 DEF Owned, NoRow
      <3>1. CASE s = r
        BY <2>1, <2>2, <2>3, <2>7, <3>1 DEF NoRow
      <3>2. CASE s # r
        <4>1. req'[s] = req[s] /\ req[s].pc \in Owns
          BY <2>2, <3>2
        <4>2. /\ account[req[s].email] # None /\ account[req[s].email].uid = req[s].id
              /\ NoRow(req[s].email)
          BY <2>6, <4>1 DEF Owned
        <4>3. req[s].email \in Email
          BY <4>1 DEF IInv, Well, Owns, EmailPc, RegisterPc
        <4> QED BY <2>3, <2>7, <4>1, <4>2, <4>3 DEF NoRow
      <3> QED BY <3>1, <3>2
    <2>9. Agree'
      <3>1. \A s \in Req : req[s].pc \in Owns => req'[s] = req[s]
        BY <1>1, <2>2
      <3>2. \E s \in Req : req'[s].pc \in Owns /\ req'[s].email = e /\ account'[e].uid = req'[s].id
        BY <2>1, <2>2, <2>3 DEF Owns
      <3>3. ASSUME NEW f \in Email \ {e}
            PROVE  account[f] # None /\ user[f] = None =>
                     \E s \in Req : /\ req'[s].pc \in Owns /\ req'[s].email = f
                                    /\ account[f].uid = req'[s].id
        BY <2>6, <3>1 DEF Agree
      <3> QED BY <1>4, <2>3, <2>6, <2>7, <3>2, <3>3 DEF Agree, NoRow
    <2> QED BY <2>8, <2>9
  <1> QED BY <1>6, <1>7 DEF SignUp

(* The row takes its place next to the account that its request owns; no      *)
(* other request owns it.                                                     *)
LEMMA CreateStep ==
  ASSUME IInv, NEW r \in Req, Create(r)
  PROVE  IInv'
  <1> DEFINE e == req[r].email
  <1>1. /\ Well(req[r]) /\ req[r].pc = "create" /\ req[r].pc \in RegisterPc
        /\ req[r].pc \in EmailPc \ {"free"} /\ req[r].pc \notin OtpPc /\ req[r].pc \in Owns
        /\ req[r].id \in Serial /\ e \in Email /\ req[r].nit \in Nit
    BY DEF Create, On, RegisterPc, EmailPc, OtpPc, Owns, IInv, Well
  <1>2. account \in [Email -> Account \cup {None}] /\ user \in [Email -> User \cup {None}]
    BY DEF IInv, TypeOK
  <1>3. Juridica(req[r]) \in User /\ Juridica(req[r]).uid = req[r].id
    BY <1>1 DEF Juridica, User
  <1>4. Inserted(req[r]) \in [Email -> User \cup {None}]
    BY <1>2, <1>3 DEF Inserted
  <1>5. account' = account /\ user' \in [Email -> User \cup {None}]
    BY <1>2, <1>4 DEF Create
  <1>6. UNCHANGED <<natural, deletion, audit, mails, keys, ghosts>> /\ (UNCHANGED faults \/ Fault)
    BY DEF Create
  <1>7. CASE Goto(r, "compensate")
    <2>1. PICK q : /\ req' = [req EXCEPT ![r] = q] /\ Well(q) /\ q.pc = "compensate"
                   /\ q.id = req[r].id /\ q.email = e /\ req[r].pc # "free"
      BY <1>1, <1>7, GoesOn DEF Owns
    <2>2. req'[r] = q /\ \A s \in Req \ {r} : req'[s] = req[s]
      BY <2>1 DEF IInv, TypeOK
    <2>3. q.pc \notin OtpPc
      BY <2>1 DEF OtpPc
    <2>4. SUFFICES ASSUME UNCHANGED faults, faults = 0 PROVE Owned' /\ Agree'
      BY <1>1, <1>2, <1>5, <1>6, <2>1, <2>3, ChangesAccount DEF Backed
    <2>5. UNCHANGED user
      <3>1. ~Fault
        BY <2>4 DEF Fault, IInv, TypeOK
      <3>2. ~Goto(r, "confirm")
        <4>1. Goto(r, "confirm") => req'[r].pc = "confirm"
          BY GoIs DEF IInv, TypeOK, Pc
        <4> QED BY <2>1, <2>2, <4>1
      <3> QED BY <3>1, <3>2 DEF Create
    <2>6. \A s \in Req : /\ req'[s].id = req[s].id /\ req'[s].email = req[s].email
                         /\ (req'[s].pc \in Owns <=> req[s].pc \in Owns)
      BY <1>1, <2>1, <2>2 DEF Owns
    <2>7. Owned /\ Agree
      BY <2>4 DEF IInv, Backed
    <2>8. Owned'
      BY <1>5, <2>5, <2>6, <2>7 DEF Owned, NoRow
    <2>9. Agree'
      BY <1>5, <2>5, <2>6, <2>7 DEF Agree, NoRow
    <2> QED BY <2>8, <2>9
  <1>8. CASE user' = Inserted(req[r]) /\ ~Taken(e, req[r].nit) /\ Goto(r, "confirm") /\ UNCHANGED faults
    <2>1. PICK q : /\ req' = [req EXCEPT ![r] = q] /\ Well(q) /\ q.pc = "confirm"
                   /\ q.id = req[r].id /\ q.email = e /\ req[r].pc # "free"
      BY <1>1, <1>8, GoesOn DEF Owns
    <2>2. req'[r] = q /\ \A s \in Req \ {r} : req'[s] = req[s]
      BY <2>1 DEF IInv, TypeOK
    <2>3. q.pc \notin OtpPc /\ q.pc \notin Owns
      BY <2>1 DEF OtpPc, Owns
    <2>4. SUFFICES ASSUME faults = 0 PROVE Owned' /\ Agree'
      BY <1>1, <1>2, <1>5, <1>6, <1>8, <2>1, <2>3, ChangesAccount DEF Backed
    <2>5. Owned /\ Agree
      BY <2>4 DEF IInv, Backed
    <2>6. user'[e] = Juridica(req[r]) /\ \A f \in Email \ {e} : user'[f] = user[f]
      BY <1>1, <1>2, <1>8 DEF Inserted
    <2>7. account[e] # None /\ account[e].uid = req[r].id
      BY <1>1, <2>5 DEF Owned
    <2>8. Owned'
      <3> SUFFICES ASSUME NEW s \in Req, req'[s].pc \in Owns
                   PROVE  /\ account[req'[s].email] # None
                          /\ account[req'[s].email].uid = req'[s].id
                          /\ user'[req'[s].email] = None \/ user'[req'[s].email].role # "JURIDICA"
        BY <1>5 DEF Owned, NoRow
      <3>1. s # r /\ req'[s] = req[s] /\ req[s].pc \in Owns
        BY <2>2, <2>3
      <3>2. /\ account[req[s].email] # None /\ account[req[s].email].uid = req[s].id
            /\ NoRow(req[s].email)
        BY <2>5, <3>1 DEF Owned
      <3>3. req[s].email \in Email /\ req[s].pc # "free"
        BY <3>1 DEF IInv, Well, Owns, EmailPc, RegisterPc
      <3>4. req[s].email # e
        <4>1. req[s].id # req[r].id
          BY <1>1, <3>1, <3>3 DEF IInv, Numbered
        <4> QED BY <2>7, <3>2, <4>1
      <3> QED BY <2>6, <3>1, <3>2, <3>3, <3>4 DEF NoRow
    <2>9. Agree'
      <3>1. account[e].uid = user'[e].uid
        BY <1>3, <2>6, <2>7
      <3>2. user'[e] # None
        BY <1>3, <2>6
      <3>3. ASSUME NEW f \in Email \ {e}, account[f] # None, user[f] = None
            PROVE  \E s \in Req : /\ req'[s].pc \in Owns /\ req'[s].email = f
                                  /\ account[f].uid = req'[s].id
        BY <2>2, <2>5, <3>3 DEF Agree
      <3> QED BY <1>5, <2>5, <2>6, <2>7, <3>1, <3>2, <3>3 DEF Agree, NoRow
    <2> QED BY <2>8, <2>9
  <1> QED BY <1>7, <1>8 DEF Create

(* The account that is taken back is the one this request owns.               *)
LEMMA CompensateStep ==
  ASSUME IInv, NEW r \in Req, Compensate(r)
  PROVE  IInv'
  <1> DEFINE e == req[r].email
  <1>1. /\ Well(req[r]) /\ req[r].pc = "compensate" /\ req[r].pc \in Owns
        /\ req[r].pc \notin OtpPc /\ e \in Email /\ req[r].pc # "free"
    BY DEF Compensate, On, RegisterPc, EmailPc, OtpPc, Owns, IInv, Well
  <1>2. account \in [Email -> Account \cup {None}] /\ user \in [Email -> User \cup {None}]
    BY DEF IInv, TypeOK
  <1>3. user' = user /\ account' \in [Email -> Account \cup {None}]
        /\ UNCHANGED <<natural, deletion, audit, mails, keys, ghosts>> /\ (UNCHANGED faults \/ Fault)
    BY <1>2 DEF Compensate, Deleted
  <1>4. req' = [req EXCEPT ![r] = Free] /\ Free.pc \notin OtpPc /\ Free.pc \notin Owns
    BY FreeWell DEF Compensate, End, OtpPc, Owns
  <1>5. SUFFICES ASSUME UNCHANGED faults, faults = 0 PROVE Owned' /\ Agree'
    BY <1>1, <1>2, <1>3, <1>4, FreeWell, ChangesAccount DEF Backed
  <1>6. Owned /\ Agree
    BY <1>5 DEF IInv, Backed
  <1>7. account' = Deleted(e)
    BY <1>5 DEF Compensate, Fault, IInv, TypeOK
  <1>8. account'[e] = None /\ \A f \in Email \ {e} : account'[f] = account[f]
    BY <1>1, <1>2, <1>7 DEF Deleted
  <1>9. NoRow(e) /\ account[e].uid = req[r].id
    BY <1>1, <1>6 DEF Owned
  <1>10. req'[r] = Free /\ \A s \in Req \ {r} : req'[s] = req[s]
    BY <1>4 DEF IInv, TypeOK
  <1>11. ASSUME NEW s \in Req \ {r}, req[s].pc \in Owns
         PROVE  req[s].email \in Email /\ req[s].email # e
    <2>1. req[s].email \in Email /\ req[s].pc # "free"
      BY <1>11 DEF IInv, Well, Owns, EmailPc, RegisterPc
    <2>2. req[s].id # req[r].id
      BY <1>1, <1>11, <2>1 DEF IInv, Numbered
    <2> QED BY <1>6, <1>9, <1>11, <2>1, <2>2 DEF Owned
  <1>12. Owned'
    <2> SUFFICES ASSUME NEW s \in Req, req'[s].pc \in Owns
                 PROVE  /\ account'[req'[s].email] # None
                        /\ account'[req'[s].email].uid = req'[s].id
                        /\ user[req'[s].email] = None \/ user[req'[s].email].role # "JURIDICA"
      BY <1>3 DEF Owned, NoRow
    <2>1. s # r /\ req'[s] = req[s] /\ req[s].pc \in Owns
      BY <1>4, <1>10
    <2> QED BY <1>6, <1>8, <1>11, <2>1 DEF Owned, NoRow
  <1>13. Agree'
    <2>1. ASSUME NEW f \in Email \ {e}, account[f] # None, user[f] = None
          PROVE  \E s \in Req : /\ req'[s].pc \in Owns /\ req'[s].email = f
                                /\ account[f].uid = req'[s].id
      BY <1>6, <1>10, <2>1 DEF Agree
    <2> QED BY <1>3, <1>6, <1>8, <1>9, <2>1 DEF Agree, NoRow
  <1> QED BY <1>12, <1>13

(* What keeps every uid, every role and every account, and neither begins     *)
(* nor ends a registration, keeps what the provider and the table agree on.   *)
LEMMA AgreementKept ==
  ASSUME IInv, UNCHANGED faults,
         \A f \in Email : /\ (account'[f] = None <=> account[f] = None)
                          /\ account'[f].uid = account[f].uid
                          /\ (user'[f] = None <=> user[f] = None)
                          /\ user[f] # None => user'[f].uid = user[f].uid
                                               /\ user'[f].role = user[f].role,
         \A s \in Req : \/ req'[s] = req[s]
                        \/ (req[s].pc \notin Owns /\ req'[s].pc \notin Owns)
  PROVE  Backed'
  <1> SUFFICES ASSUME faults = 0 PROVE Owned' /\ Agree'
    BY DEF Backed
  <1>1. Owned /\ Agree
    BY DEF IInv, Backed
  <1>2. \A f \in Email : NoRow(f) => user'[f] = None \/ user'[f].role # "JURIDICA"
    BY DEF NoRow
  <1>3. Owned'
    <2> SUFFICES ASSUME NEW s \in Req, req'[s].pc \in Owns
                 PROVE  /\ account'[req'[s].email] # None
                        /\ account'[req'[s].email].uid = req'[s].id
                        /\ user'[req'[s].email] = None \/ user'[req'[s].email].role # "JURIDICA"
      BY DEF Owned, NoRow
    <2>1. req'[s] = req[s] /\ req[s].pc \in Owns
      OBVIOUS
    <2>2. req[s].email \in Email
      BY <2>1 DEF IInv, Well, Owns, EmailPc, RegisterPc
    <2> QED BY <1>1, <1>2, <2>1, <2>2 DEF Owned
  <1>4. Agree'
    <2> SUFFICES ASSUME NEW f \in Email
                 PROVE  /\ \/ user'[f] = None \/ user'[f].role # "JURIDICA"
                           \/ (account'[f] # None /\ account'[f].uid = user'[f].uid)
                        /\ account'[f] # None /\ user'[f] = None =>
                             \E s \in Req : /\ req'[s].pc \in Owns /\ req'[s].email = f
                                            /\ account'[f].uid = req'[s].id
      BY DEF Agree, NoRow
    <2>1. \A s \in Req : req[s].pc \in Owns => req'[s] = req[s]
      OBVIOUS
    <2>2. NoRow(f) \/ (account[f] # None /\ account[f].uid = user[f].uid)
      BY <1>1 DEF Agree
    <2>3. account[f] # None /\ user[f] = None =>
             \E s \in Req : req[s].pc \in Owns /\ req[s].email = f /\ account[f].uid = req[s].id
      BY <1>1 DEF Agree
    <2>4. user'[f] = None \/ user'[f].role # "JURIDICA"
          \/ (account'[f] # None /\ account'[f].uid = user'[f].uid)
      BY <1>2, <2>2 DEF NoRow
    <2> QED BY <2>1, <2>3, <2>4
  <1> QED BY <1>3, <1>4

LEMMA ConfirmedIs ==
  ASSUME IInv, NEW e \in Email, account[e] # None, account' = Confirmed(e)
  PROVE  /\ account' \in [Email -> Account \cup {None}]
         /\ \A f \in Email : /\ (account'[f] = None <=> account[f] = None)
                             /\ account'[f].uid = account[f].uid
  <1>1. account \in [Email -> Account \cup {None}] /\ account[e] \in Account
    BY DEF IInv, TypeOK
  <1>2. [account[e] EXCEPT !.confirmed = TRUE] \in Account
        /\ [account[e] EXCEPT !.confirmed = TRUE].uid = account[e].uid
    BY <1>1 DEF Account
  <1>3. account' = [account EXCEPT ![e] = [account[e] EXCEPT !.confirmed = TRUE]]
    BY DEF Confirmed
  <1> HIDE DEF Account
  <1> QED BY <1>1, <1>2, <1>3

LEMMA ConfirmStep ==
  ASSUME IInv, NEW r \in Req, Confirm(r)
  PROVE  IInv'
  <1> DEFINE e == req[r].email
  <1>1. /\ req[r].pc = "confirm" /\ req[r].pc # "free" /\ req[r].pc \notin Owns
        /\ req[r].pc \notin OtpPc /\ e \in Email
    BY DEF Confirm, On, RegisterPc, EmailPc, OtpPc, Owns, IInv, Well
  <1>2. account \in [Email -> Account \cup {None}] /\ user \in [Email -> User \cup {None}]
    BY DEF IInv, TypeOK
  <1>3. user' = user /\ UNCHANGED <<natural, deletion, audit, mails, keys, ghosts>>
        /\ (UNCHANGED faults \/ Fault)
    BY DEF Confirm
  <1>4. req' = [req EXCEPT ![r] = Free] /\ Free.pc \notin OtpPc /\ Free.pc \notin Owns
    BY FreeWell DEF Confirm, End, OtpPc, Owns
  <1>5. /\ account' \in [Email -> Account \cup {None}]
        /\ \A f \in Email : /\ (account'[f] = None <=> account[f] = None)
                            /\ account'[f].uid = account[f].uid
    <2>1. CASE Known(e) /\ account' = Confirmed(e)
      BY <1>1, <2>1, ConfirmedIs DEF Known
    <2>2. CASE UNCHANGED account
      BY <1>2, <2>2
    <2> QED BY <2>1, <2>2 DEF Confirm
  <1>6. \A s \in Req : \/ req'[s] = req[s] \/ (req[s].pc \notin Owns /\ req'[s].pc \notin Owns)
    BY <1>1, <1>4 DEF IInv, TypeOK
  <1>7. UNCHANGED faults => Backed'
    BY <1>3, <1>5, <1>6, AgreementKept
  <1> QED BY <1>1, <1>2, <1>3, <1>4, <1>5, <1>7, FreeWell, ChangesAccount

LEMMA UpdateStep ==
  ASSUME IInv, NEW r \in Req, Update(r)
  PROVE  IInv'
  <1> DEFINE e == req[r].email
  <1>1. /\ req[r].pc = "update" /\ req[r].pc \in EmailPc \ {"free"} /\ req[r].pc # "free"
        /\ req[r].pc \notin Owns /\ req[r].pc \notin OtpPc /\ e \in Email
        /\ req[r].verdict \in BOOLEAN
    BY DEF Update, On, RegisterPc, EmailPc, OtpPc, Owns, IInv, Well, Request
  <1>2. account \in [Email -> Account \cup {None}] /\ user \in [Email -> User \cup {None}]
    BY DEF IInv, TypeOK
  <1>3. account' = account /\ UNCHANGED <<natural, deletion, audit, mails, keys, ghosts>>
        /\ UNCHANGED faults
    BY DEF Update
  <1>4. /\ user' \in [Email -> User \cup {None}]
        /\ \A f \in Email : /\ (user'[f] = None <=> user[f] = None)
                            /\ user[f] # None => user'[f].uid = user[f].uid
                                                 /\ user'[f].role = user[f].role
    <2>1. CASE user' = user
      BY <1>2, <2>1
    <2>2. CASE user' = [user EXCEPT ![e].verified = req[r].verdict] /\ user[e] # None
      <3> DEFINE u == [user[e] EXCEPT !.verified = req[r].verdict]
      <3>1. user[e] \in User
        BY <1>1, <1>2, <2>2
      <3>2. u \in User /\ u.uid = user[e].uid /\ u.role = user[e].role
        BY <1>1, <3>1 DEF User
      <3>3. user' = [user EXCEPT ![e] = u]
        BY <2>2
      <3> HIDE DEF u
      <3> QED BY <1>1, <1>2, <2>2, <3>1, <3>2, <3>3
    <2> QED BY <2>1, <2>2 DEF Update, SetVerified, FindJuridicaByEmail
  <1>5. PICK q : /\ req' = [req EXCEPT ![r] = q] /\ Well(q) /\ q.pc \notin OtpPc \cup Owns
                 /\ q.pc # "free" => q.id = req[r].id
    <2>1. CASE End(r)
      BY <2>1, FreeWell DEF End, OtpPc, Owns
    <2>2. CASE Goto(r, "audit")
      <3>1. PICK q : req' = [req EXCEPT ![r] = q] /\ Well(q) /\ q.pc = "audit" /\ q.id = req[r].id
        BY <1>1, <2>2, GoesOn DEF Owns
      <3> QED BY <3>1 DEF OtpPc, Owns
    <2> QED BY <2>1, <2>2 DEF Update
  <1>6. \A s \in Req : \/ req'[s] = req[s] \/ (req[s].pc \notin Owns /\ req'[s].pc \notin Owns)
    BY <1>1, <1>5 DEF IInv, TypeOK
  <1>7. Backed'
    BY <1>3, <1>4, <1>6, AgreementKept
  <1> QED BY <1>1, <1>2, <1>3, <1>4, <1>5, <1>7, ChangesAccount

LEMMA FollowLinkStep ==
  ASSUME IInv, NEW e \in Email, FollowLink(e)
  PROVE  IInv'
  <1>1. /\ account' \in [Email -> Account \cup {None}]
        /\ \A f \in Email : /\ (account'[f] = None <=> account[f] = None)
                            /\ account'[f].uid = account[f].uid
    BY ConfirmedIs DEF FollowLink, Known
  <1>2. UNCHANGED <<user, natural, deletion, audit, mails, keys, req, ghosts, faults>>
    BY DEF FollowLink
  <1>3. Backed'
    BY <1>1, <1>2, AgreementKept
  <1>4. Codes'
    BY <1>2, CodesStill DEF keys, ghosts
  <1>5. TypeOK'
    BY <1>1, <1>2 DEF IInv, TypeOK, keys, ghosts
  <1> QED BY <1>2, <1>3, <1>4, <1>5 DEF IInv, Numbered, ghosts

----------------------------------------------------------------------------
(* The steps of the codes *)

LEMMA CodeStep ==
  ASSUME IInv, NEW r \in Req, NEW q, req' = [req EXCEPT ![r] = q], Well(q),
         q.pc # "free" => q.id = req[r].id, req[r].pc \in OtpPc, q.pc \notin Owns,
         otp' \in [Phone -> Session \cup {None}], cooling' \subseteq Phone,
         hourly' \in [Phone -> [n: Nat, ttl: BOOLEAN]],
         guesses' \in [Serial -> Nat], accepted' \in [Serial -> Nat],
         UNCHANGED <<tables, raced, mix, calls, lapses>>, UNCHANGED faults \/ Fault, Codes'
  PROVE  IInv'
  <1>1. req[r].pc # "free" /\ req[r].pc \notin Owns
    BY DEF OtpPc, Owns
  <1>2. req' \in [Req -> Request] /\ (\A s \in Req : Well(req'[s])) /\ Numbered'
    BY <1>1, NumbersKept
  <1>3. faults' \in 0..MaxFaults /\ Backed' /\ Codes'
    <2>1. CASE Fault
      BY <2>1, FaultExcuses
    <2>2. CASE UNCHANGED faults
      BY <1>1, <2>2, BackedKept DEF tables, IInv, TypeOK
    <2> QED BY <2>1, <2>2
  <1>4. TypeOK'
    BY <1>2, <1>3 DEF IInv, TypeOK, tables
  <1> QED BY <1>2, <1>3, <1>4 DEF IInv

(* Alone at the codes, a request only has to keep its own word.               *)
LEMMA CalmAfter ==
  ASSUME IInv, Calm, NEW r \in Req, NEW q, req' = [req EXCEPT ![r] = q],
         req[r].pc \in OtpPc, calls' = calls, Guarded', Limited',
         \A c \in Serial : c > calls => Unused(c)',
         q.pc \in {"cool", "hourly", "session"} => Unused(q.id)',
         q.pc \in {"session", "setCool", "incr"} => hourly'[q.phone].n < HourlyLimit,
         \A p \in Phone : otp'[p] # None =>
            \/ guesses'[otp'[p].code] <= otp'[p].attempts /\ accepted'[otp'[p].code] = 0
            \/ q.pc \in {"drop", "save", "consume"} /\ q.phone = p,
         q.pc \in {"match", "save"} => Behind(q.read)',
         \A p, o \in Phone : otp'[p] # None /\ otp'[o] # None /\ otp'[p].code = otp'[o].code => p = o,
         \A p \in Phone :
            q.pc \in ReadPc /\ otp'[p] # None /\ otp'[p].code = q.read.code => p = q.phone,
         q.pc \in ReadPc => q.read.code <= calls
  PROVE  Calm'
  <1>1. req'[r] = q /\ \A s \in Req \ {r} : req'[s] = req[s]
    BY DEF IInv, TypeOK
  <1>2. \A s \in Req : req[s].pc \in OtpPc => s = r
    BY DEF Calm
  <1>3. \A s \in Req : req'[s].pc \in OtpPc => s = r
    BY <1>1, <1>2
  <1>4. /\ \A s \in Req : req'[s].pc \in {"cool", "hourly", "session"} => s = r
        /\ \A s \in Req : req'[s].pc \in {"session", "setCool", "incr"} => s = r
        /\ \A s \in Req : req'[s].pc \in {"match", "save"} => s = r
        /\ \A s \in Req : req'[s].pc \in ReadPc => s = r
    BY <1>3 DEF OtpPc, ReadPc
  <1>5. \A s \in Req : req'[s].pc \in {"cool", "hourly", "session"} => Unused(req[s].id)'
    BY <1>1, <1>4 DEF Unused
  <1>6. \A s \in Req : req'[s].pc \in {"match", "save"} => Behind(req[s].read)'
    BY <1>1, <1>4 DEF Behind
  <1>7. \A p \in Phone : otp'[p] # None => Behind(otp[p])' \/ Settling(p)'
    <2> SUFFICES ASSUME NEW p \in Phone, otp'[p] # None PROVE Behind(otp[p])' \/ Settling(p)'
      OBVIOUS
    <2>1. CASE q.pc \in {"drop", "save", "consume"} /\ q.phone = p
      BY <1>1, <2>1 DEF Settling
    <2> QED BY <2>1 DEF Behind
  <1>8. /\ \A s \in Req : req'[s].pc \in {"session", "setCool", "incr"} =>
              hourly'[req'[s].phone].n < HourlyLimit
        /\ \A s \in Req, p \in Phone :
              req'[s].pc \in ReadPc /\ otp'[p] # None /\ otp'[p].code = req'[s].read.code =>
                 p = req'[s].phone
        /\ \A s \in Req : req'[s].pc \in ReadPc => req'[s].read.code <= calls
    BY <1>1, <1>4
  <1> QED BY <1>3, <1>5, <1>6, <1>7, <1>8 DEF Calm

(* The counter of the hour has a lifetime unless one is on its way.           *)
LEMMA LimitKept ==
  ASSUME IInv, LimitPasses, NEW r \in Req, NEW q, req' = [req EXCEPT ![r] = q],
         \A p \in Phone : hourly'[p].n > 0 =>
            \/ hourly'[p].ttl
            \/ (hourly[p].n > 0 /\ ~hourly[p].ttl /\ (req[r].pc = "expire" => req[r].phone # p))
            \/ (q.pc = "expire" /\ q.phone = p)
  PROVE  LimitPasses'
  <1>1. req'[r] = q /\ \A s \in Req \ {r} : req'[s] = req[s]
    BY DEF IInv, TypeOK
  <1> SUFFICES ASSUME NEW p \in Phone, hourly'[p].n > 0, ~hourly'[p].ttl
               PROVE  \E s \in Req : req'[s].pc = "expire" /\ req'[s].phone = p
    BY DEF LimitPasses, On
  <1>2. CASE q.pc = "expire" /\ q.phone = p
    BY <1>1, <1>2
  <1>3. CASE hourly[p].n > 0 /\ ~hourly[p].ttl /\ (req[r].pc = "expire" => req[r].phone # p)
    <2>1. PICK s \in Req : req[s].pc = "expire" /\ req[s].phone = p
      BY <1>3 DEF LimitPasses, On
    <2>2. s # r
      BY <1>3, <2>1
    <2> QED BY <1>1, <2>1, <2>2
  <1> QED BY <1>2, <1>3

(* A step that changes no key and learns nothing.                             *)
LEMMA QuietStep ==
  ASSUME IInv, NEW r \in Req, NEW q, req' = [req EXCEPT ![r] = q], Well(q),
         req[r].pc \in OtpPc \ {"drop", "save", "consume", "expire"},
         \/ q.pc = "free"
         \/ q.pc = "expire" /\ q.id = req[r].id
         \/ /\ q.pc \in {"hourly", "session"} /\ q.id = req[r].id
            /\ req[r].pc \in {"cool", "hourly", "session"}
         \/ /\ q.pc = "incr" /\ q.id = req[r].id /\ q.phone = req[r].phone
            /\ req[r].pc = "setCool",
         q.pc = "session" => hourly[q.phone].n < HourlyLimit,
         cooling' \subseteq Phone,
         UNCHANGED <<tables, otp, hourly, guesses, accepted, raced, mix, calls, lapses>>,
         UNCHANGED faults \/ Fault
  PROVE  IInv'
  <1>1. SUFFICES ("expire" \notin raced => LimitPasses') /\ (Clean => Calm')
    <2>1. q.pc \notin Owns
      BY DEF Owns
    <2>2. Codes'
      BY <1>1 DEF Codes, Clean
    <2> QED BY <2>1, <2>2, CodeStep DEF IInv, TypeOK
  <1>2. ASSUME "expire" \notin raced PROVE LimitPasses'
    <2>1. LimitPasses
      BY <1>2 DEF IInv, Codes
    <2> QED BY <2>1, LimitKept
  <1>3. ASSUME Clean PROVE Calm'
    <2>1. Calm
      BY <1>3 DEF IInv, Codes
    <2>2. Guarded' /\ Limited' /\ \A c \in Serial : (c > calls => Unused(c)')
      BY <2>1 DEF Calm, Guarded, Limited, Unused
    <2>3. \A p \in Phone : ~Settling(p)
      BY <2>1 DEF Calm, Settling, OtpPc
    <2>4. \A p \in Phone : otp'[p] # None =>
             guesses'[otp'[p].code] <= otp'[p].attempts /\ accepted'[otp'[p].code] = 0
      BY <2>1, <2>3 DEF Calm, Behind
    <2>5. q.pc \in {"cool", "hourly", "session"} => Unused(q.id)'
      BY <2>1 DEF Calm, Unused
    <2>6. q.pc \in {"session", "setCool", "incr"} => hourly'[q.phone].n < HourlyLimit
      BY <2>1 DEF Calm
    <2>7. q.pc \notin ReadPc /\ q.pc \notin {"match", "save"}
      BY DEF ReadPc
    <2>8. \A p, o \in Phone :
             otp'[p] # None /\ otp'[o] # None /\ otp'[p].code = otp'[o].code => p = o
      BY <2>1 DEF Calm
    <2> QED BY <2>1, <2>2, <2>4, <2>5, <2>6, <2>7, <2>8, CalmAfter
  <1> QED BY <1>2, <1>3

(* What Goto makes of a request of the codes.                                 *)
LEMMA CodeGoes ==
  ASSUME IInv, NEW r \in Req,
         NEW pc \in {"hourly", "session", "setCool", "incr", "expire", "consume", "upsert"},
         Goto(r, pc), req[r].pc \in OtpPc, pc = "consume" => req[r].pc \in ReadPc
  PROVE  \E q : /\ req' = [req EXCEPT ![r] = q] /\ Well(q) /\ q.pc = pc
                /\ q.id = req[r].id /\ q.phone = req[r].phone /\ q.read = req[r].read
  <1>1. pc \in Pc /\ pc \in PhonePc /\ pc \notin EmailPc \cup RegisterPc
        /\ (pc \in ReadPc => pc = "consume") /\ pc # "match" /\ pc # "free"
    BY DEF Pc, EmailPc, RegisterPc, PhonePc, OtpPc, ReadPc
  <1>2. PICK q \in Request :
          /\ req' = [req EXCEPT ![r] = q] /\ q.pc = pc
          /\ q.id = req[r].id /\ q.email = req[r].email /\ q.nit = req[r].nit
          /\ q.phone = req[r].phone /\ q.read = req[r].read
    BY <1>1, GoIs DEF IInv
  <1>3. Well(req[r]) /\ req[r].pc # "free" /\ req[r].pc \in PhonePc
    BY DEF IInv, OtpPc, PhonePc
  <1>4. Well(q)
    BY <1>1, <1>2, <1>3 DEF Well
  <1> QED BY <1>2, <1>4

LEMMA SendSteps ==
  ASSUME IInv, NEW r \in Req, Cool(r) \/ Hourly(r) \/ SetCooldown(r)
  PROVE  IInv'
  <1> USE DEF tables, keys, ghosts, On
  <1>1. CASE Cool(r)
    <2>1. /\ req[r].pc = "cool" /\ req[r].pc \in OtpPc \ {"drop", "save", "consume", "expire"}
          /\ cooling' \subseteq Phone
          /\ UNCHANGED <<tables, otp, hourly, guesses, accepted, raced, mix, calls, lapses, faults>>
      BY <1>1 DEF Cool, OtpPc, IInv, TypeOK
    <2>2. CASE End(r)
      BY <2>1, <2>2, FreeWell, QuietStep DEF End
    <2>3. CASE Goto(r, "hourly")
      <3>1. PICK q : req' = [req EXCEPT ![r] = q] /\ Well(q) /\ q.pc = "hourly" /\ q.id = req[r].id
        BY <2>1, <2>3, CodeGoes
      <3> QED BY <2>1, <3>1, QuietStep
    <2> QED BY <1>1, <2>2, <2>3 DEF Cool
  <1>2. CASE Hourly(r)
    <2>1. /\ req[r].pc = "hourly" /\ req[r].pc \in OtpPc \ {"drop", "save", "consume", "expire"}
          /\ cooling' \subseteq Phone /\ req[r].phone \in Phone
          /\ UNCHANGED <<tables, otp, hourly, guesses, accepted, raced, mix, calls, lapses, faults>>
      BY <1>2 DEF Hourly, OtpPc, PhonePc, IInv, TypeOK, Well
    <2>2. CASE End(r)
      BY <2>1, <2>2, FreeWell, QuietStep DEF End
    <2>3. CASE Goto(r, "session") /\ ~(hourly[req[r].phone].n >= HourlyLimit)
      <3>1. PICK q : /\ req' = [req EXCEPT ![r] = q] /\ Well(q) /\ q.pc = "session"
                     /\ q.id = req[r].id /\ q.phone = req[r].phone
        BY <2>1, <2>3, CodeGoes
      <3>2. hourly[q.phone].n < HourlyLimit
        BY <2>1, <2>3, <3>1 DEF IInv, TypeOK
      <3> QED BY <2>1, <3>1, <3>2, QuietStep
    <2> QED BY <1>2, <2>2, <2>3 DEF Hourly
  <1>3. CASE SetCooldown(r)
    <2>1. /\ req[r].pc = "setCool" /\ req[r].pc \in OtpPc \ {"drop", "save", "consume", "expire"}
          /\ cooling' \subseteq Phone
          /\ UNCHANGED <<tables, otp, hourly, guesses, accepted, raced, mix, calls, lapses, faults>>
      BY <1>3 DEF SetCooldown, OtpPc, PhonePc, IInv, TypeOK, Well
    <2>2. PICK q : /\ req' = [req EXCEPT ![r] = q] /\ Well(q) /\ q.pc = "incr"
                   /\ q.id = req[r].id /\ q.phone = req[r].phone
      BY <1>3, <2>1, CodeGoes DEF SetCooldown
    <2> QED BY <2>1, <2>2, QuietStep
  <1> QED BY <1>1, <1>2, <1>3

(* A new code replaces whatever session the phone had.                        *)
LEMMA SetSessionStep ==
  ASSUME IInv, NEW r \in Req, SetSession(r)
  PROVE  IInv'
  <1> USE DEF tables, keys, ghosts, On
  <1> DEFINE p == req[r].phone
             s == [code |-> req[r].id, attempts |-> 0]
  <1>1. /\ req[r].pc = "session" /\ req[r].pc \in OtpPc \ {"drop", "save", "consume", "expire"}
        /\ p \in Phone /\ req[r].id \in Serial /\ req[r].id <= calls /\ calls \in Nat
        /\ UNCHANGED <<tables, cooling, hourly, guesses, accepted, raced, mix, calls, lapses>>
        /\ cooling \subseteq Phone
    BY DEF SetSession, OtpPc, PhonePc, IInv, TypeOK, Well, Numbered
  <1>2. CASE End(r) /\ Fault /\ UNCHANGED otp
    BY <1>1, <1>2, FreeWell, QuietStep DEF End
  <1>3. CASE otp' = [otp EXCEPT ![p] = s] /\ Goto(r, "setCool") /\ UNCHANGED faults
    <2>1. PICK q : /\ req' = [req EXCEPT ![r] = q] /\ Well(q) /\ q.pc = "setCool"
                   /\ q.id = req[r].id /\ q.phone = p
      BY <1>1, <1>3, CodeGoes
    <2>2. s \in Session /\ s.code = req[r].id /\ s.attempts = 0
      BY <1>1 DEF Session
    <2>3. otp \in [Phone -> Session \cup {None}] /\ otp' \in [Phone -> Session \cup {None}]
          /\ otp'[p] = s /\ \A o \in Phone \ {p} : otp'[o] = otp[o]
      BY <1>1, <1>3, <2>2 DEF IInv, TypeOK
    <2> HIDE DEF s
    <2>4. SUFFICES ("expire" \notin raced => LimitPasses') /\ (Clean => Calm')
      <3>1. q.pc \notin Owns
        BY <2>1 DEF Owns
      <3>2. Codes'
        BY <1>1, <2>4 DEF Codes, Clean
      <3> QED BY <1>1, <1>3, <2>1, <2>3, <3>1, <3>2, CodeStep DEF IInv, TypeOK
    <2>5. ASSUME "expire" \notin raced PROVE LimitPasses'
      <3>1. LimitPasses
        BY <2>5 DEF IInv, Codes
      <3> QED BY <1>1, <2>1, <3>1, LimitKept
    <2>6. ASSUME Clean PROVE Calm'
      <3>1. Calm
        BY <2>6 DEF IInv, Codes
      <3>2. Unused(req[r].id)
        BY <1>1, <3>1 DEF Calm
      <3>3. Guarded' /\ Limited'
        BY <1>1, <3>1 DEF Calm, Guarded, Limited
      <3>4. \A c \in Serial : c > calls => Unused(c)'
        BY <1>1, <2>2, <2>3, <3>1 DEF Calm, Unused, Serial
      <3>5. \A o \in Phone : ~Settling(o)
        BY <1>1, <3>1 DEF Calm, Settling, OtpPc
      <3>6. \A o \in Phone : otp'[o] # None =>
               guesses'[otp'[o].code] <= otp'[o].attempts /\ accepted'[otp'[o].code] = 0
        <4> TAKE o \in Phone
        <4>1. CASE o = p
          BY <1>1, <2>2, <2>3, <3>2, <4>1 DEF Unused
        <4>2. CASE o # p
          BY <1>1, <2>3, <3>1, <3>5, <4>2 DEF Calm, Behind
        <4> QED BY <4>1, <4>2
      <3>7. \A o, u \in Phone :
               otp'[o] # None /\ otp'[u] # None /\ otp'[o].code = otp'[u].code => o = u
        BY <2>2, <2>3, <3>1, <3>2 DEF Calm, Unused
      <3>8. hourly'[q.phone].n < HourlyLimit
        BY <1>1, <2>1, <3>1 DEF Calm
      <3>9. q.pc \notin ReadPc
        BY <2>1 DEF ReadPc
      <3> QED BY <1>1, <2>1, <3>1, <3>3, <3>4, <3>6, <3>7, <3>8, <3>9, CalmAfter
    <2> QED BY <2>5, <2>6
  <1> QED BY <1>2, <1>3 DEF SetSession

LEMMA IncrStep ==
  ASSUME IInv, NEW r \in Req, Incr(r)
  PROVE  IInv'
  <1> USE DEF tables, keys, ghosts, On
  <1> DEFINE p == req[r].phone
             h == hourly[p]
             k == [n |-> h.n + 1, ttl |-> h.n > 0 /\ h.ttl]
  <1>1. /\ req[r].pc = "incr" /\ req[r].pc \in OtpPc /\ p \in Phone
        /\ UNCHANGED <<tables, otp, cooling, guesses, accepted, raced, mix, calls, lapses, faults>>
    BY DEF Incr, OtpPc, PhonePc, IInv, TypeOK, Well
  <1>2. hourly \in [Phone -> [n: Nat, ttl: BOOLEAN]]
    BY DEF IInv, TypeOK
  <1>3. h.n \in Nat /\ k \in [n: Nat, ttl: BOOLEAN] /\ k.n = h.n + 1 /\ k.ttl = (h.n > 0 /\ h.ttl)
    BY <1>1, <1>2
  <1>4. hourly' = [hourly EXCEPT ![p] = k]
    BY DEF Incr
  <1> HIDE DEF k
  <1>5. /\ hourly' \in [Phone -> [n: Nat, ttl: BOOLEAN]]
        /\ hourly'[p] = k /\ \A o \in Phone \ {p} : hourly'[o] = hourly[o]
    BY <1>1, <1>2, <1>3, <1>4
  <1>6. PICK q : /\ req' = [req EXCEPT ![r] = q] /\ Well(q) /\ q.pc \in {"expire", "free"}
                 /\ q.pc # "free" => q.id = req[r].id /\ q.phone = p
                 /\ h.n = 0 => q.pc = "expire"
    <2>1. CASE h.n = 0
      BY <1>1, <2>1, CodeGoes DEF Incr
    <2>2. CASE h.n # 0
      BY <2>2, FreeWell DEF Incr, End
    <2> QED BY <2>1, <2>2
  <1>7. q.pc \notin Owns /\ q.pc \notin ReadPc
    BY <1>6 DEF Owns, ReadPc
  <1>8. SUFFICES ("expire" \notin raced => LimitPasses') /\ (Clean => Calm')
    <2>1. Codes'
      BY <1>1, <1>8 DEF Codes, Clean
    <2> QED BY <1>1, <1>5, <1>6, <1>7, <2>1, CodeStep DEF IInv, TypeOK
  <1>9. ASSUME "expire" \notin raced PROVE LimitPasses'
    <2>1. LimitPasses
      BY <1>9 DEF IInv, Codes
    <2>2. \A o \in Phone : hourly'[o].n > 0 =>
             hourly'[o].ttl \/ (hourly[o].n > 0 /\ ~hourly[o].ttl) \/ (q.pc = "expire" /\ q.phone = o)
      <3> SUFFICES ASSUME NEW o \in Phone, hourly'[o].n > 0, ~hourly'[o].ttl
                   PROVE  (hourly[o].n > 0 /\ ~hourly[o].ttl) \/ (q.pc = "expire" /\ q.phone = o)
        OBVIOUS
      <3>1. CASE o # p
        BY <1>5, <3>1
      <3>2. CASE o = p /\ h.n = 0
        BY <1>6, <3>2
      <3>3. CASE o = p /\ h.n # 0
        BY <1>3, <1>5, <3>3
      <3> QED BY <3>1, <3>2, <3>3
    <2> QED BY <1>1, <1>6, <2>1, <2>2, LimitKept
  <1>10. ASSUME Clean PROVE Calm'
    <2>1. Calm
      BY <1>10 DEF IInv, Codes
    <2>2. Guarded' /\ \A c \in Serial : (c > calls => Unused(c)')
      BY <1>1, <2>1 DEF Calm, Guarded, Unused
    <2>3. Limited'
      <3>1. h.n < HourlyLimit
        BY <1>1, <2>1 DEF Calm
      <3> QED BY <1>3, <1>5, <2>1, <3>1 DEF Calm, Limited
    <2>4. \A o \in Phone : ~Settling(o)
      BY <1>1, <2>1 DEF Calm, Settling, OtpPc
    <2>5. \A o \in Phone : otp'[o] # None =>
             guesses'[otp'[o].code] <= otp'[o].attempts /\ accepted'[otp'[o].code] = 0
      BY <1>1, <2>1, <2>4 DEF Calm, Behind
    <2>6. \A o, u \in Phone :
             otp'[o] # None /\ otp'[u] # None /\ otp'[o].code = otp'[u].code => o = u
      BY <1>1, <2>1 DEF Calm
    <2> QED BY <1>1, <1>6, <1>7, <2>1, <2>2, <2>3, <2>5, <2>6, CalmAfter
  <1> QED BY <1>9, <1>10

LEMMA SetExpiryStep ==
  ASSUME IInv, NEW r \in Req, SetExpiry(r)
  PROVE  IInv'
  <1> USE DEF tables, keys, ghosts, On
  <1> DEFINE p == req[r].phone
             k == [hourly[p] EXCEPT !.ttl = TRUE]
  <1>1. /\ req[r].pc = "expire" /\ req[r].pc \in OtpPc /\ p \in Phone
        /\ UNCHANGED <<tables, otp, cooling, guesses, accepted, raced, mix, calls, lapses, faults>>
    BY DEF SetExpiry, OtpPc, PhonePc, IInv, TypeOK, Well
  <1>2. hourly \in [Phone -> [n: Nat, ttl: BOOLEAN]]
    BY DEF IInv, TypeOK
  <1>3. k \in [n: Nat, ttl: BOOLEAN] /\ k.n = hourly[p].n /\ k.ttl
    BY <1>1, <1>2
  <1>4. hourly' = [hourly EXCEPT ![p] = k]
    BY DEF SetExpiry
  <1> HIDE DEF k
  <1>5. /\ hourly' \in [Phone -> [n: Nat, ttl: BOOLEAN]]
        /\ hourly'[p] = k /\ \A o \in Phone \ {p} : hourly'[o] = hourly[o]
    BY <1>1, <1>2, <1>3, <1>4
  <1>6. req' = [req EXCEPT ![r] = Free] /\ Free.pc \notin Owns /\ Free.pc \notin ReadPc
    BY FreeWell DEF SetExpiry, End, Owns, ReadPc
  <1>7. SUFFICES ("expire" \notin raced => LimitPasses') /\ (Clean => Calm')
    <2>1. Codes'
      BY <1>1, <1>7 DEF Codes, Clean
    <2> QED BY <1>1, <1>5, <1>6, <2>1, FreeWell, CodeStep DEF IInv, TypeOK
  <1>8. ASSUME "expire" \notin raced PROVE LimitPasses'
    <2>1. LimitPasses
      BY <1>8 DEF IInv, Codes
    <2> QED BY <1>1, <1>3, <1>5, <1>6, <2>1, LimitKept
  <1>9. ASSUME Clean PROVE Calm'
    <2>1. Calm
      BY <1>9 DEF IInv, Codes
    <2>2. Guarded' /\ Limited' /\ \A c \in Serial : (c > calls => Unused(c)')
      BY <1>1, <1>3, <1>5, <2>1 DEF Calm, Guarded, Limited, Unused
    <2>4. \A o \in Phone : ~Settling(o)
      BY <1>1, <2>1 DEF Calm, Settling, OtpPc
    <2>5. \A o \in Phone : otp'[o] # None =>
             guesses'[otp'[o].code] <= otp'[o].attempts /\ accepted'[otp'[o].code] = 0
      BY <1>1, <2>1, <2>4 DEF Calm, Behind
    <2>6. \A o, u \in Phone :
             otp'[o] # None /\ otp'[u] # None /\ otp'[o].code = otp'[u].code => o = u
      BY <1>1, <2>1 DEF Calm
    <2> QED BY <1>1, <1>6, <2>1, <2>2, <2>5, <2>6, FreeWell, CalmAfter
  <1> QED BY <1>8, <1>9

(* The steps of a verification leave the counter of the hour alone.           *)
LEMMA VerifyStep ==
  ASSUME IInv, NEW r \in Req, NEW q, req' = [req EXCEPT ![r] = q], Well(q),
         q.pc # "free" => q.id = req[r].id,
         req[r].pc \in ReadPc \cup {"read"}, q.pc \in ReadPc \cup {"upsert", "free"},
         otp' \in [Phone -> Session \cup {None}],
         guesses' \in [Serial -> Nat], accepted' \in [Serial -> Nat],
         UNCHANGED <<tables, cooling, hourly, raced, mix, calls, lapses>>,
         UNCHANGED faults \/ Fault,
         Calm =>
            /\ Guarded' /\ \A c \in Serial : (c > calls => Unused(c)')
            /\ \A p \in Phone : otp'[p] # None =>
                  \/ guesses'[otp'[p].code] <= otp'[p].attempts /\ accepted'[otp'[p].code] = 0
                  \/ q.pc \in {"drop", "save", "consume"} /\ q.phone = p
            /\ q.pc \in {"match", "save"} => Behind(q.read)'
            /\ \A p, o \in Phone :
                  otp'[p] # None /\ otp'[o] # None /\ otp'[p].code = otp'[o].code => p = o
            /\ \A p \in Phone :
                  q.pc \in ReadPc /\ otp'[p] # None /\ otp'[p].code = q.read.code => p = q.phone
            /\ q.pc \in ReadPc => q.read.code <= calls
  PROVE  IInv'
  <1>1. req[r].pc \in OtpPc /\ req[r].pc # "expire" /\ q.pc \notin Owns
        /\ q.pc \notin {"cool", "hourly", "session"} /\ q.pc \notin {"session", "setCool", "incr"}
    BY DEF OtpPc, ReadPc, Owns
  <1>2. cooling' \subseteq Phone /\ hourly' \in [Phone -> [n: Nat, ttl: BOOLEAN]]
    BY DEF IInv, TypeOK
  <1>3. Codes'
    <2> SUFFICES ("expire" \notin raced => LimitPasses') /\ (Clean => Calm')
      BY DEF Codes, Clean
    <2>1. ASSUME "expire" \notin raced PROVE LimitPasses'
      <3>1. LimitPasses
        BY <2>1 DEF IInv, Codes
      <3> QED BY <1>1, <3>1, LimitKept
    <2>2. ASSUME Clean PROVE Calm'
      <3>1. Calm
        BY <2>2 DEF IInv, Codes
      <3>2. Limited'
        BY <3>1 DEF Calm, Limited
      <3> QED BY <1>1, <3>1, <3>2, CalmAfter
    <2> QED BY <2>1, <2>2
  <1> QED BY <1>1, <1>2, <1>3, CodeStep

LEMMA ReadSessionStep ==
  ASSUME IInv, NEW r \in Req, ReadSession(r)
  PROVE  IInv'
  <1> USE DEF tables, keys, ghosts, On
  <1> DEFINE p == req[r].phone
             s == otp[p]
             pc == IF s.attempts >= MaxAttempts THEN "drop" ELSE "match"
             q == IF s = None THEN Free ELSE [req[r] EXCEPT !.read = s, !.pc = pc]
  <1>1. /\ req[r].pc = "read" /\ req[r].pc \in OtpPc /\ req[r].pc \in ReadPc \cup {"read"}
        /\ req[r] \in Request /\ p \in Phone /\ req[r].id \in Serial /\ calls \in Nat
        /\ UNCHANGED <<tables, otp, cooling, hourly, guesses, accepted, raced, mix, calls, lapses, faults>>
    BY DEF ReadSession, OtpPc, PhonePc, IInv, TypeOK, Well
  <1>2. otp \in [Phone -> Session \cup {None}] /\ guesses \in [Serial -> Nat]
        /\ accepted \in [Serial -> Nat]
    BY DEF IInv, TypeOK
  <1>3. req' = [req EXCEPT ![r] = q]
    BY <1>1 DEF ReadSession, End, IInv, TypeOK
  <1>4. ASSUME s # None
        PROVE  /\ s \in Session /\ q \in Request /\ q.pc = pc /\ q.read = s
               /\ q.id = req[r].id /\ q.phone = p
    <2>1. s \in Session
      BY <1>1, <1>2, <1>4
    <2>2. pc \in Pc
      BY DEF Pc
    <2> QED BY <1>1, <1>4, <2>1, <2>2 DEF Request
  <1>5. Well(q) /\ (q.pc # "free" => q.id = req[r].id) /\ q.pc \in ReadPc \cup {"upsert", "free"}
        /\ (q.pc # "free" => s # None)
    <2>1. CASE s = None
      BY <2>1, FreeWell
    <2>2. CASE s # None
      <3>1. pc \in PhonePc /\ pc \in ReadPc /\ pc \notin EmailPc \cup RegisterPc
            /\ (pc = "match" => s.attempts < MaxAttempts)
        BY <1>4, <2>2 DEF EmailPc, RegisterPc, PhonePc, OtpPc, ReadPc, Session
      <3> QED BY <1>1, <1>4, <2>2, <3>1 DEF Well
    <2> QED BY <2>1, <2>2
  <1> HIDE DEF q, s
  <1>6. PICK w : w = q
    OBVIOUS
  <1>7. ASSUME Calm
        PROVE  /\ Guarded' /\ \A c \in Serial : (c > calls => Unused(c)')
               /\ \A o \in Phone : otp'[o] # None =>
                     guesses'[otp'[o].code] <= otp'[o].attempts /\ accepted'[otp'[o].code] = 0
               /\ w.pc \in {"match", "save"} => Behind(w.read)'
               /\ \A u, o \in Phone :
                     otp'[u] # None /\ otp'[o] # None /\ otp'[u].code = otp'[o].code => u = o
               /\ \A o \in Phone :
                     w.pc \in ReadPc /\ otp'[o] # None /\ otp'[o].code = w.read.code => o = w.phone
               /\ w.pc \in ReadPc => w.read.code <= calls
    <2>1. Guarded' /\ \A c \in Serial : (c > calls => Unused(c)')
      BY <1>1, <1>7 DEF Calm, Guarded, Unused
    <2>2. \A o \in Phone : ~Settling(o)
      BY <1>1, <1>7 DEF Calm, Settling, OtpPc
    <2>3. \A o \in Phone : otp[o] # None => guesses[otp[o].code] <= otp[o].attempts
                                           /\ accepted[otp[o].code] = 0
      BY <1>7, <2>2 DEF Calm, Behind
    <2>4. \A u, o \in Phone : otp[u] # None /\ otp[o] # None /\ otp[u].code = otp[o].code => u = o
      BY <1>7 DEF Calm
    <2>5. w.pc \in ReadPc => s # None /\ s \in Session /\ w.read = s /\ w.phone = p
      BY <1>4, <1>5, <1>6 DEF ReadPc
    <2>6. w.pc \in {"match", "save"} => w.pc \in ReadPc
      BY DEF ReadPc
    <2>7. w.pc \in ReadPc => w.read.code <= calls
      <3> SUFFICES ASSUME w.pc \in ReadPc PROVE s.code <= calls
        BY <2>5
      <3>1. s.code \in Serial /\ s.code \in Nat
        BY <2>5 DEF Session, Serial
      <3>2. s.code > calls => Unused(s.code)
        BY <1>7, <3>1 DEF Calm
      <3>3. ~Unused(s.code)
        BY <1>1, <2>5 DEF Unused, s
      <3> QED BY <1>1, <3>1, <3>2, <3>3
    <2>8. w.pc \in {"match", "save"} => Behind(w.read)'
      BY <1>1, <2>3, <2>5, <2>6 DEF Behind, s
    <2>9. \A o \in Phone :
             w.pc \in ReadPc /\ otp[o] # None /\ otp[o].code = w.read.code => o = w.phone
      BY <1>1, <2>4, <2>5 DEF s
    <2> QED BY <1>1, <2>1, <2>3, <2>4, <2>7, <2>8, <2>9
  <1> QED BY <1>1, <1>2, <1>3, <1>5, <1>6, <1>7, VerifyStep

(* A session that is taken away is nobody's; the request has no more to do    *)
(* with the codes.                                                            *)
LEMMA SessionGone ==
  ASSUME IInv, NEW r \in Req, NEW q, req' = [req EXCEPT ![r] = q], Well(q),
         q.pc # "free" => q.id = req[r].id,
         req[r].pc \in {"drop", "consume"}, q.pc \in {"upsert", "free"},
         otp' = [otp EXCEPT ![req[r].phone] = None],
         UNCHANGED <<tables, cooling, hourly, guesses, accepted, raced, mix, calls, lapses, faults>>
  PROVE  IInv'
  <1> DEFINE p == req[r].phone
  <1>1. /\ req[r].pc \in ReadPc \cup {"read"} /\ req[r].pc \in OtpPc /\ p \in Phone
        /\ q.pc \notin ReadPc /\ q.pc \notin {"match", "save"}
        /\ q.pc \in ReadPc \cup {"upsert", "free"}
    BY DEF ReadPc, OtpPc, PhonePc, IInv, Well
  <1>2. /\ otp \in [Phone -> Session \cup {None}] /\ otp' \in [Phone -> Session \cup {None}]
        /\ guesses' \in [Serial -> Nat] /\ accepted' \in [Serial -> Nat]
        /\ otp'[p] = None /\ \A o \in Phone \ {p} : otp'[o] = otp[o]
    BY <1>1 DEF IInv, TypeOK
  <1>3. ASSUME Calm
        PROVE  /\ Guarded' /\ \A c \in Serial : (c > calls => Unused(c)')
               /\ \A o \in Phone : otp'[o] # None =>
                     guesses'[otp'[o].code] <= otp'[o].attempts /\ accepted'[otp'[o].code] = 0
               /\ \A u, o \in Phone :
                     otp'[u] # None /\ otp'[o] # None /\ otp'[u].code = otp'[o].code => u = o
    <2>1. Guarded' /\ \A c \in Serial : (c > calls => Unused(c)')
      BY <1>2, <1>3 DEF Calm, Guarded, Unused
    <2>2. \A o \in Phone \ {p} : ~Settling(o)
      BY <1>1, <1>3 DEF Calm, Settling, OtpPc
    <2>3. \A o \in Phone : otp'[o] # None =>
             guesses'[otp'[o].code] <= otp'[o].attempts /\ accepted'[otp'[o].code] = 0
      BY <1>2, <1>3, <2>2 DEF Calm, Behind
    <2>4. \A u, o \in Phone :
             otp'[u] # None /\ otp'[o] # None /\ otp'[u].code = otp'[o].code => u = o
      BY <1>2, <1>3 DEF Calm
    <2> QED BY <2>1, <2>3, <2>4
  <1> QED BY <1>1, <1>2, <1>3, VerifyStep

LEMMA DropSessionStep ==
  ASSUME IInv, NEW r \in Req, DropSession(r)
  PROVE  IInv'
  BY FreeWell, SessionGone DEF DropSession, End, On, tables, ghosts

LEMMA ConsumeStep ==
  ASSUME IInv, NEW r \in Req, Consume(r)
  PROVE  IInv'
  <1>1. req[r].pc = "consume" /\ req[r].pc \in OtpPc
    BY DEF Consume, On, OtpPc
  <1>2. PICK q : /\ req' = [req EXCEPT ![r] = q] /\ Well(q) /\ q.pc = "upsert" /\ q.id = req[r].id
    BY <1>1, CodeGoes DEF Consume
  <1> QED BY <1>1, <1>2, SessionGone DEF Consume, tables, ghosts

LEMMA SaveSessionStep ==
  ASSUME IInv, NEW r \in Req, SaveSession(r)
  PROVE  IInv'
  <1> USE DEF tables, ghosts, On
  <1> DEFINE p == req[r].phone
             s == req[r].read
  <1>1. /\ req[r].pc = "save" /\ req[r].pc \in ReadPc \cup {"read"} /\ req[r].pc \in OtpPc
        /\ req[r].pc \in ReadPc /\ p \in Phone /\ s \in Session /\ calls \in Nat
        /\ UNCHANGED <<tables, cooling, hourly, guesses, accepted, raced, mix, calls, lapses, faults>>
    BY DEF SaveSession, ReadPc, OtpPc, PhonePc, IInv, TypeOK, Well
  <1>2. /\ otp \in [Phone -> Session \cup {None}] /\ otp' \in [Phone -> Session \cup {None}]
        /\ guesses' \in [Serial -> Nat] /\ accepted' \in [Serial -> Nat]
        /\ otp'[p] = s /\ \A o \in Phone \ {p} : otp'[o] = otp[o]
    BY <1>1 DEF SaveSession, IInv, TypeOK
  <1>3. req' = [req EXCEPT ![r] = Free] /\ Free.pc \notin ReadPc /\ Free.pc \notin {"match", "save"}
        /\ Free.pc \in ReadPc \cup {"upsert", "free"}
    BY FreeWell DEF SaveSession, End, ReadPc
  <1>4. ASSUME Calm
        PROVE  /\ Guarded' /\ \A c \in Serial : (c > calls => Unused(c)')
               /\ \A o \in Phone : otp'[o] # None =>
                     guesses'[otp'[o].code] <= otp'[o].attempts /\ accepted'[otp'[o].code] = 0
               /\ \A u, o \in Phone :
                     otp'[u] # None /\ otp'[o] # None /\ otp'[u].code = otp'[o].code => u = o
    <2>1. s.code <= calls /\ s.code \in Nat /\ Behind(s)
      BY <1>1, <1>4 DEF Calm, Session, Serial
    <2>2. Guarded' /\ \A c \in Serial : (c > calls => Unused(c)')
      <3>1. \A c \in Serial : c > calls => c # s.code
        BY <1>1, <2>1 DEF Serial
      <3> QED BY <1>1, <1>2, <1>4, <3>1 DEF Calm, Guarded, Unused
    <2>3. \A o \in Phone \ {p} : ~Settling(o)
      BY <1>1, <1>4 DEF Calm, Settling, OtpPc
    <2>4. \A o \in Phone : otp'[o] # None =>
             guesses'[otp'[o].code] <= otp'[o].attempts /\ accepted'[otp'[o].code] = 0
      <3> TAKE o \in Phone
      <3>1. CASE o = p
        BY <1>1, <1>2, <2>1, <3>1 DEF Behind
      <3>2. CASE o # p
        BY <1>1, <1>2, <1>4, <2>3, <3>2 DEF Calm, Behind
      <3> QED BY <3>1, <3>2
    <2>5. \A o \in Phone : otp[o] # None /\ otp[o].code = s.code => o = p
      BY <1>1, <1>4 DEF Calm
    <2>6. \A u, o \in Phone :
             otp'[u] # None /\ otp'[o] # None /\ otp'[u].code = otp'[o].code => u = o
      BY <1>2, <1>4, <2>5 DEF Calm
    <2> QED BY <2>2, <2>4, <2>6
  <1> QED BY <1>1, <1>2, <1>3, <1>4, FreeWell, VerifyStep

(* A code is compared: it is right and lets in, or the count goes up.         *)
LEMMA MatchStep ==
  ASSUME IInv, NEW r \in Req, Match(r)
  PROVE  IInv'
  <1> USE DEF tables, keys, On
  <1> DEFINE p == req[r].phone
             s == req[r].read
             c == s.code
             more == [s EXCEPT !.attempts = @ + 1]
             pc == IF s.attempts + 1 >= MaxAttempts THEN "drop" ELSE "save"
             wrong == [req[r] EXCEPT !.pc = pc, !.read = more]
  <1>1. /\ req[r].pc = "match" /\ req[r].pc \in ReadPc \cup {"read"} /\ req[r].pc \in OtpPc
        /\ req[r].pc \in ReadPc /\ p \in Phone /\ s \in Session /\ calls \in Nat
        /\ s.attempts < MaxAttempts /\ req[r] \in Request /\ req[r].id \in Serial
        /\ UNCHANGED <<tables, otp, cooling, hourly, raced, mix, calls, lapses>>
    BY DEF Match, ReadPc, OtpPc, PhonePc, IInv, TypeOK, Well
  <1>2. /\ otp' \in [Phone -> Session \cup {None}]
        /\ guesses \in [Serial -> Nat] /\ accepted \in [Serial -> Nat]
        /\ req \in [Req -> Request]
    BY <1>1 DEF IInv, TypeOK
  <1>3. c \in Serial /\ c \in Nat /\ s.attempts \in Nat /\ more \in Session
        /\ more.code = c /\ more.attempts = s.attempts + 1
    BY <1>1 DEF Session, Serial
  <1>4. ASSUME Calm
        PROVE  /\ c <= calls /\ guesses[c] <= s.attempts /\ accepted[c] = 0
               /\ \A d \in Serial : d > calls => d # c
               /\ \A o \in Phone \ {p} : otp[o] # None =>
                     /\ otp[o].code # c
                     /\ guesses[otp[o].code] <= otp[o].attempts /\ accepted[otp[o].code] = 0
               /\ \A u, o \in Phone :
                     otp[u] # None /\ otp[o] # None /\ otp[u].code = otp[o].code => u = o
               /\ \A o \in Phone : otp[o] # None /\ otp[o].code = c => o = p
    <2>1. c <= calls /\ Behind(s)
      BY <1>1, <1>4 DEF Calm
    <2>2. \A d \in Serial : d > calls => d # c
      BY <1>1, <1>3, <2>1 DEF Serial
    <2>3. \A o \in Phone : otp[o] # None /\ otp[o].code = c => o = p
      BY <1>1, <1>4 DEF Calm
    <2>4. \A o \in Phone : ~Settling(o)
      BY <1>1, <1>4 DEF Calm, Settling, OtpPc
    <2> QED BY <1>4, <2>1, <2>2, <2>3, <2>4 DEF Calm, Behind
  <1>5. CASE req[r].good /\ Goto(r, "consume") /\ accepted' = [accepted EXCEPT ![c] = @ + 1]
             /\ UNCHANGED <<guesses, faults>>
    <2>1. PICK q : /\ req' = [req EXCEPT ![r] = q] /\ Well(q) /\ q.pc = "consume"
                   /\ q.id = req[r].id /\ q.phone = p /\ q.read = s
      BY <1>1, <1>5, CodeGoes
    <2>2. accepted' \in [Serial -> Nat] /\ accepted'[c] = accepted[c] + 1
          /\ \A d \in Serial \ {c} : accepted'[d] = accepted[d]
      BY <1>2, <1>3, <1>5
    <2>3. ASSUME Calm
          PROVE  /\ Guarded' /\ \A d \in Serial : (d > calls => Unused(d)')
                 /\ \A o \in Phone : otp'[o] # None =>
                       \/ guesses'[otp'[o].code] <= otp'[o].attempts /\ accepted'[otp'[o].code] = 0
                       \/ q.phone = o
      <3>1. Guarded'
        BY <1>4, <1>5, <2>2, <2>3 DEF Calm, Guarded
      <3>2. \A d \in Serial : (d > calls => Unused(d)')
        BY <1>1, <1>4, <1>5, <2>2, <2>3 DEF Calm, Unused
      <3>3. \A o \in Phone \ {p} : otp'[o] # None =>
               guesses'[otp'[o].code] <= otp'[o].attempts /\ accepted'[otp'[o].code] = 0
        <4> TAKE o \in Phone \ {p}
        <4>1. otp[o] # None => otp[o].code \in Serial
          BY <1>1, <1>2 DEF Session
        <4>2. otp' = otp /\ guesses' = guesses
          BY <1>1, <1>5
        <4> QED BY <1>4, <2>2, <2>3, <4>1, <4>2
      <3> QED BY <2>1, <3>1, <3>2, <3>3
    <2>4. q.pc \in ReadPc \cup {"upsert", "free"} /\ q.pc \in {"drop", "save", "consume"}
          /\ q.pc \notin {"match", "save"}
      BY <2>1 DEF ReadPc
    <2>5. guesses' \in [Serial -> Nat] /\ UNCHANGED faults /\ otp' = otp
      BY <1>1, <1>2, <1>5
    <2>6. q.read.code = c /\ q.id = req[r].id
      BY <2>1
    <2>7. ASSUME Calm
          PROVE  /\ Guarded' /\ \A d \in Serial : (d > calls => Unused(d)')
                 /\ \A o \in Phone : otp'[o] # None =>
                       \/ guesses'[otp'[o].code] <= otp'[o].attempts /\ accepted'[otp'[o].code] = 0
                       \/ q.pc \in {"drop", "save", "consume"} /\ q.phone = o
                 /\ q.pc \in {"match", "save"} => Behind(q.read)'
                 /\ \A u, o \in Phone :
                       otp'[u] # None /\ otp'[o] # None /\ otp'[u].code = otp'[o].code => u = o
                 /\ \A o \in Phone :
                       q.pc \in ReadPc /\ otp'[o] # None /\ otp'[o].code = q.read.code => o = q.phone
                 /\ q.pc \in ReadPc => q.read.code <= calls
      BY <1>4, <2>1, <2>3, <2>4, <2>5, <2>6, <2>7
    <2> QED BY <1>1, <1>2, <2>1, <2>2, <2>4, <2>5, <2>6, <2>7, VerifyStep
  <1>6. CASE /\ IF req[r].good THEN Fault /\ UNCHANGED guesses
                ELSE guesses' = [guesses EXCEPT ![c] = @ + 1] /\ UNCHANGED faults
             /\ req' = [req EXCEPT ![r] = wrong]
             /\ UNCHANGED accepted
    <2>1. /\ wrong \in Request /\ wrong.pc = pc /\ wrong.read = more
          /\ wrong.id = req[r].id /\ wrong.phone = p
      <3>1. pc \in Pc
        BY DEF Pc
      <3> HIDE DEF pc, more
      <3> QED BY <1>1, <1>3, <3>1 DEF Request
    <2>2. Well(wrong) /\ wrong.pc \in {"drop", "save"}
      <3>1. pc \in PhonePc /\ pc \notin EmailPc \cup RegisterPc /\ pc # "match"
            /\ pc \in {"drop", "save"}
        BY DEF EmailPc, RegisterPc, PhonePc, OtpPc
      <3> HIDE DEF pc, more, wrong
      <3> QED BY <1>1, <1>3, <2>1, <3>1 DEF Well
    <2>3. wrong.pc = "save" => s.attempts + 1 < MaxAttempts
      BY <1>3, <2>1
    <2> HIDE DEF pc, more, wrong
    <2>4. PICK q : q = wrong
      OBVIOUS
    <2>5. guesses' \in [Serial -> Nat] /\ accepted' \in [Serial -> Nat] /\ (UNCHANGED faults \/ Fault)
      BY <1>2, <1>3, <1>6
    <2>6. /\ guesses'[c] \in {guesses[c], guesses[c] + 1}
          /\ \A d \in Serial \ {c} : guesses'[d] = guesses[d]
      BY <1>2, <1>3, <1>6
    <2>7. ASSUME Calm
          PROVE  /\ Guarded' /\ \A d \in Serial : (d > calls => Unused(d)')
                 /\ \A o \in Phone : otp'[o] # None =>
                       \/ guesses'[otp'[o].code] <= otp'[o].attempts /\ accepted'[otp'[o].code] = 0
                       \/ q.phone = o
                 /\ Behind(q.read)'
      <3>1. Guarded'
        BY <1>2, <1>1, <1>3, <1>4, <1>6, <2>6, <2>7 DEF Calm, Guarded
      <3>2. \A d \in Serial : (d > calls => Unused(d)')
        BY <1>1, <1>4, <1>6, <2>6, <2>7 DEF Calm, Unused
      <3>3. \A o \in Phone \ {p} : otp'[o] # None =>
               guesses'[otp'[o].code] <= otp'[o].attempts /\ accepted'[otp'[o].code] = 0
        <4> TAKE o \in Phone \ {p}
        <4>1. otp[o] # None => otp[o].code \in Serial
          BY <1>1, <1>2 DEF Session
        <4> QED BY <1>1, <1>4, <1>6, <2>6, <2>7, <4>1
      <3>4. Behind(q.read)'
        BY <1>2, <1>3, <1>4, <1>6, <2>1, <2>4, <2>6, <2>7 DEF Behind
      <3> QED BY <2>1, <2>4, <3>1, <3>2, <3>3, <3>4
    <2>8. q.pc \in ReadPc \cup {"upsert", "free"} /\ q.pc \in {"drop", "save", "consume"}
      BY <2>2, <2>4 DEF ReadPc
    <2>9. q.phone = p /\ q.read.code = c /\ q.id = req[r].id /\ req' = [req EXCEPT ![r] = q] /\ Well(q)
      BY <1>3, <1>6, <2>1, <2>2, <2>4
    <2> QED BY <1>1, <1>2, <1>4, <2>5, <2>7, <2>8, <2>9, VerifyStep
  <1>7. \/ /\ req[r].good /\ Goto(r, "consume") /\ accepted' = [accepted EXCEPT ![c] = @ + 1]
           /\ UNCHANGED <<guesses, faults>>
        \/ /\ IF req[r].good THEN Fault /\ UNCHANGED guesses
              ELSE guesses' = [guesses EXCEPT ![c] = @ + 1] /\ UNCHANGED faults
           /\ req' = [req EXCEPT ![r].pc = pc, ![r].read.attempts = @ + 1]
           /\ UNCHANGED accepted
    BY DEF Match
  <1>8. [req EXCEPT ![r].pc = pc, ![r].read.attempts = @ + 1] = [req EXCEPT ![r] = wrong]
    BY <1>1, <1>2 DEF Request, Session
  <1> QED BY <1>5, <1>6, <1>7, <1>8

----------------------------------------------------------------------------
(* Arrivals, failures and the clock *)

Starts == {"find", "signIn", "target", "request", "cool", "read"}

LEMMA ReceiveStep ==
  ASSUME IInv, NEW kind, NEW q0, Receive(kind, q0), q0 \in Request, q0.pc \in Starts,
         q0.pc \in EmailPc => q0.email \in Email, q0.pc \in RegisterPc => q0.nit \in Nit,
         q0.pc \in PhonePc => q0.phone \in Phone
  PROVE  IInv'
  <1> DEFINE q == [q0 EXCEPT !.id = calls']
  <1>1. calls \in Nat /\ calls' = calls + 1 /\ calls' \in Serial /\ calls' \in 0..MaxCalls
    BY DEF Receive, IInv, TypeOK, Serial
  <1>2. UNCHANGED <<tables, keys, guesses, accepted, mix, faults, lapses>>
    BY DEF Receive
  <1>3. PICK r \in Req : req[r].pc = "free" /\ req' = [req EXCEPT ![r] = q]
    BY DEF Receive, On
  <1>4. q \in Request /\ q.id = calls' /\ q.pc = q0.pc /\ q.email = q0.email /\ q.nit = q0.nit
        /\ q.phone = q0.phone
    BY <1>1 DEF Request
  <1>5. Well(q)
    <2>1. q.pc \notin ReadPc
      BY <1>4 DEF Starts, ReadPc
    <2>2. "match" \in ReadPc
      BY DEF ReadPc
    <2> HIDE DEF q
    <2> QED BY <1>1, <1>4, <2>1, <2>2 DEF Well
  <1> HIDE DEF q
  <1>6. req'[r] = q /\ (\A s \in Req \ {r} : req'[s] = req[s]) /\ req' \in [Req -> Request]
    BY <1>3, <1>4 DEF IInv, TypeOK
  <1>7. \A s \in Req : Well(req'[s])
    BY <1>5, <1>6 DEF IInv
  <1>8. Numbered'
    <2>1. \A s \in Req : req[s].pc # "free" => req[s].id <= calls /\ req[s].id \in Nat
      BY DEF IInv, Numbered, Well, Serial
    <2>2. \A s \in Req : req'[s].pc # "free" => req'[s].id <= calls'
      BY <1>1, <1>4, <1>6, <2>1
    <2>3. ASSUME NEW s \in Req, NEW u \in Req, req'[s].pc # "free", req'[u].pc # "free",
                 req'[s].id = req'[u].id
          PROVE  s = u
      <3>1. CASE s # r /\ u # r
        BY <1>6, <2>3, <3>1 DEF IInv, Numbered
      <3>2. CASE (s = r /\ u # r) \/ (s # r /\ u = r)
        BY <1>1, <1>4, <1>6, <2>1, <2>3, <3>2
      <3> QED BY <3>1, <3>2
    <2> QED BY <2>2, <2>3 DEF Numbered
  <1>9. raced' \subseteq {"otp", "verdict"} \cup CutPc /\ raced \subseteq raced'
        /\ (q.pc \in OtpPc /\ (\E s \in Req : req[s].pc \in OtpPc) => "otp" \in raced')
    BY <1>4 DEF Receive, IInv, TypeOK
  <1>10. q.pc \notin Owns /\ q.pc # "expire" /\ req[r].pc \notin Owns /\ req[r].pc # "expire"
         /\ req[r].pc \notin OtpPc
    BY <1>3, <1>4 DEF Starts, Owns, OtpPc
  <1>11. TypeOK'
    BY <1>1, <1>2, <1>6, <1>9 DEF IInv, TypeOK, tables, keys
  <1>12. Backed'
    <2>1. UNCHANGED <<account, user, faults>>
      BY <1>2 DEF tables
    <2>2. PICK w : w = q
      OBVIOUS
    <2> QED BY <1>3, <1>10, <2>1, <2>2, BackedKept
  <1>13. Codes'
    <2> SUFFICES ("expire" \notin raced' => LimitPasses') /\ (Clean' => Calm')
      BY DEF Codes
    <2>1. UNCHANGED <<otp, hourly, guesses, accepted>>
      BY <1>2 DEF keys
    <2>2. ASSUME "expire" \notin raced' PROVE LimitPasses'
      <3>1. LimitPasses
        BY <1>9, <2>2 DEF IInv, Codes
      <3>2. \A s \in Req : req[s].pc = "expire" => req'[s] = req[s]
        BY <1>6, <1>10
      <3> QED BY <2>1, <3>1, <3>2 DEF LimitPasses, On
    <2>3. ASSUME Clean' PROVE Calm'
      <3>1. Calm
        BY <1>9, <2>3 DEF IInv, Codes, Clean
      <3>2. \A s \in Req : req[s].pc \in OtpPc => req'[s] = req[s]
        BY <1>6, <1>10
      <3>3. \A s \in Req : req'[s].pc \in OtpPc =>
               (s = r /\ \A u \in Req : req[u].pc \notin OtpPc) \/ req'[s] = req[s]
        BY <1>6, <1>9, <2>3 DEF Clean
      <3>4. \A s, u \in Req : req'[s].pc \in OtpPc /\ req'[u].pc \in OtpPc => s = u
        BY <3>1, <1>6, <3>3 DEF Calm
      <3>5. Guarded' /\ Limited'
        BY <2>1, <3>1 DEF Calm, Guarded, Limited
      <3>6. \A c \in Serial : Unused(c) => Unused(c)'
        BY <2>1 DEF Unused
      <3>7. \A c \in Serial : c > calls' => Unused(c)'
        BY <1>1, <3>1, <3>6 DEF Calm, Serial
      <3>8. Unused(calls)'
        <4>1. Unused(calls + 1)
          BY <1>1, <3>1 DEF Calm
        <4> QED BY <1>1, <2>1, <4>1 DEF Unused
      <3>9. \A s \in Req : req'[s].pc \in {"cool", "hourly", "session"} => Unused(req[s].id)'
        <4> TAKE s \in Req
        <4>1. CASE s = r
          BY <1>1, <1>4, <1>6, <3>8, <4>1 DEF Unused
        <4>2. CASE s # r
          BY <1>6, <2>1, <3>1, <4>2 DEF Calm, Unused
        <4> QED BY <4>1, <4>2
      <3>10. \A s \in Req : s = r => req'[s].pc \in Starts
        BY <1>4, <1>6
      <3>11. \A s \in Req : req'[s].pc \in {"session", "setCool", "incr"} =>
                hourly'[req'[s].phone].n < HourlyLimit
        BY <1>6, <2>1, <3>1, <3>10 DEF Calm, Starts
      <3>12. \A p \in Phone : Settling(p) => Settling(p)'
        BY <3>2 DEF Settling, OtpPc
      <3>13. \A p \in Phone : otp'[p] # None => Behind(otp[p])' \/ Settling(p)'
        BY <2>1, <3>1, <3>12 DEF Calm, Behind
      <3>14. \A s \in Req : req'[s].pc \in {"match", "save"} => Behind(req[s].read)'
        BY <1>6, <2>1, <3>1, <3>10 DEF Calm, Behind, Starts
      <3>15. \A p, o \in Phone :
                otp'[p] # None /\ otp'[o] # None /\ otp'[p].code = otp'[o].code => p = o
        BY <2>1, <3>1 DEF Calm
      <3>16. \A s \in Req : req'[s].pc \in ReadPc => s # r /\ req'[s] = req[s] /\ req[s].read.code \in Nat
        BY <1>6, <1>7, <3>10 DEF Starts, ReadPc, Well, Session, Serial
      <3>17. \A s \in Req, p \in Phone :
                req'[s].pc \in ReadPc /\ otp'[p] # None /\ otp'[p].code = req'[s].read.code =>
                   p = req'[s].phone
        BY <2>1, <3>1, <3>16 DEF Calm
      <3>18. \A s \in Req : req'[s].pc \in ReadPc => req'[s].read.code <= calls'
        BY <1>1, <3>1, <3>16 DEF Calm
      <3> QED BY <3>4, <3>5, <3>7, <3>9, <3>11, <3>13, <3>14, <3>15, <3>17, <3>18 DEF Calm
    <2> QED BY <2>2, <2>3
  <1> QED BY <1>7, <1>8, <1>11, <1>12, <1>13 DEF IInv

LEMMA ArriveStep == IInv /\ Arrive => IInv'
  <1> SUFFICES ASSUME IInv, Arrive PROVE IInv'
    OBVIOUS
  <1> DEFINE Ready(q) == /\ q \in Request /\ q.pc \in Starts
                         /\ q.pc \in EmailPc => q.email \in Email
                         /\ q.pc \in RegisterPc => q.nit \in Nit
                         /\ q.pc \in PhonePc => q.phone \in Phone
  <1>0. ASSUME NEW kind, NEW q, Ready(q), Receive(kind, q) PROVE IInv'
    BY <1>0, ReceiveStep
  <1> USE DEF Free, Starts, Request, Pc, EmailPc, RegisterPc, PhonePc, OtpPc
  <1>1. ASSUME NEW e \in Email, NEW n \in Nit, Receive("register", [Free EXCEPT !.pc = "find", !.email = e, !.nit = n])
       PROVE  IInv'
    <2>1. Ready([Free EXCEPT !.pc = "find", !.email = e, !.nit = n])
      OBVIOUS
    <2> QED BY <1>0, <1>1, <2>1
  <1>2. ASSUME NEW e \in Email, Receive("resend", [Free EXCEPT !.pc = "signIn", !.email = e])
       PROVE  IInv'
    <2>1. Ready([Free EXCEPT !.pc = "signIn", !.email = e])
      OBVIOUS
    <2> QED BY <1>0, <1>2, <2>1
  <1>3. ASSUME NEW e \in Email, NEW b \in BOOLEAN, Receive("verdict", [Free EXCEPT !.pc = "target", !.email = e, !.verdict = b])
       PROVE  IInv'
    <2>1. Ready([Free EXCEPT !.pc = "target", !.email = e, !.verdict = b])
      OBVIOUS
    <2> QED BY <1>0, <1>3, <2>1
  <1>4. ASSUME NEW p \in natural, Receive("delete", [Free EXCEPT !.pc = "request", !.phone = p])
       PROVE  IInv'
    <2>1. p \in Phone
      BY DEF IInv, TypeOK
    <2>2. Ready([Free EXCEPT !.pc = "request", !.phone = p])
      BY <2>1
    <2> QED BY <1>0, <1>4, <2>2
  <1>5. ASSUME NEW p \in Phone, Receive("send", [Free EXCEPT !.pc = "cool", !.phone = p])
       PROVE  IInv'
    <2>1. Ready([Free EXCEPT !.pc = "cool", !.phone = p])
      OBVIOUS
    <2> QED BY <1>0, <1>5, <2>1
  <1>6. ASSUME NEW p \in Phone, NEW b \in BOOLEAN, Receive("verify", [Free EXCEPT !.pc = "read", !.phone = p, !.good = b])
       PROVE  IInv'
    <2>1. Ready([Free EXCEPT !.pc = "read", !.phone = p, !.good = b])
      OBVIOUS
    <2> QED BY <1>0, <1>6, <2>1
  <1> QED BY <1>1, <1>2, <1>3, <1>4, <1>5, <1>6 DEF Arrive

(* Requests that are cut take with them what only they were to write.         *)
LEMMA CutStep ==
  ASSUME IInv, NEW rs \in SUBSET Req, Cut(rs)
  PROVE  IInv'
  <1>1. /\ \A s \in Req : req'[s] = IF s \in rs THEN Free ELSE req[s]
        /\ Fault /\ UNCHANGED <<tables, keys, guesses, accepted, mix, calls, lapses>>
    BY DEF Cut
  <1>2. raced \subseteq raced' /\ raced' \subseteq raced \cup CutPc
        /\ \A s \in rs : req[s].pc \in CutPc => req[s].pc \in raced'
    BY DEF Cut
  <1>3. req' \in [Req -> Request]
    BY FreeWell DEF Cut, IInv, TypeOK, Well
  <1>4. Numbered' /\ \A s \in Req : Well(req'[s])
    BY <1>1, FreeWell DEF IInv, Numbered
  <1>5. TypeOK'
    BY <1>1, <1>2, <1>3, FaultExcuses DEF IInv, TypeOK, tables, keys
  <1>6. ASSUME "expire" \notin raced' PROVE LimitPasses'
    <2>1. LimitPasses
      BY <1>2, <1>6 DEF IInv, Codes
    <2>2. \A s \in Req : req[s].pc = "expire" => req'[s] = req[s]
      BY <1>1, <1>2, <1>6 DEF CutPc
    <2> QED BY <1>1, <2>1, <2>2 DEF LimitPasses, On, keys
  <1>7. ASSUME Clean' PROVE Calm'
    <2>1. Calm
      BY <1>2, <1>7 DEF IInv, Codes, Clean
    <2>2. \A s \in Req : req[s].pc \in {"drop", "save", "consume"} => req'[s] = req[s]
      BY <1>1, <1>2, <1>7 DEF Clean, CutPc
    <2>3. \A p \in Phone : Settling(p) => Settling(p)'
      BY <2>2 DEF Settling
    <2>4. UNCHANGED <<otp, hourly, guesses, accepted, calls>>
      BY <1>1 DEF keys
    <2>5. \A s \in Req : req'[s].pc \in OtpPc => req'[s] = req[s]
      BY <1>1, FreeWell DEF OtpPc
    <2>6. Guarded' /\ Limited' /\ \A c \in Serial : (c > calls => Unused(c)')
      BY <2>1, <2>4 DEF Calm, Guarded, Limited, Unused
    <2>7. \A s \in Req : req'[s].pc \in {"cool", "hourly", "session"} => Unused(req[s].id)'
      BY <2>1, <2>4, <2>5 DEF Calm, Unused, OtpPc
    <2>8. \A s \in Req : req'[s].pc \in {"match", "save"} => Behind(req[s].read)'
      BY <2>1, <2>4, <2>5 DEF Calm, Behind, OtpPc
    <2>9. \A p \in Phone : otp'[p] # None => Behind(otp[p])' \/ Settling(p)'
      BY <2>1, <2>3, <2>4 DEF Calm, Behind
    <2>10. \A s \in Req : req'[s].pc \in ReadPc => req'[s] = req[s]
      BY <2>5 DEF ReadPc, OtpPc
    <2>11. /\ \A s \in Req : req'[s].pc \in {"session", "setCool", "incr"} =>
                  hourly'[req'[s].phone].n < HourlyLimit
           /\ \A s, u \in Req : req'[s].pc \in OtpPc /\ req'[u].pc \in OtpPc => s = u
      BY <2>1, <2>4, <2>5 DEF Calm, OtpPc
    <2>12. \A s \in Req, p \in Phone :
              req'[s].pc \in ReadPc /\ otp'[p] # None /\ otp'[p].code = req'[s].read.code =>
                 p = req'[s].phone
      BY <2>1, <2>4, <2>10 DEF Calm
    <2>13. /\ \A p, o \in Phone :
                 otp'[p] # None /\ otp'[o] # None /\ otp'[p].code = otp'[o].code => p = o
           /\ \A s \in Req : req'[s].pc \in ReadPc => req'[s].read.code <= calls'
      BY <2>1, <2>4, <2>10 DEF Calm
    <2> QED BY <2>4, <2>5, <2>6, <2>7, <2>8, <2>9, <2>10, <2>11, <2>12, <2>13 DEF Calm, OtpPc
  <1>8. Codes' /\ Backed'
    BY <1>1, <1>6, <1>7, FaultExcuses DEF Codes
  <1> QED BY <1>4, <1>5, <1>8 DEF IInv

LEMMA CallFailsStep ==
  ASSUME IInv, NEW r \in Req, CallFails(r)
  PROVE  IInv'
  BY CutStep DEF CallFails

LEMMA CrashStep == IInv /\ Crash => IInv'
  BY CutStep DEF Crash

(* A key that expires takes a session, or a count that had a lifetime.        *)
LEMMA LapseStep ==
  ASSUME IInv, NEW p \in Phone, Lapse(p)
  PROVE  IInv'
  <1>1. UNCHANGED <<tables, req, guesses, accepted, raced, mix, calls, faults>>
        /\ lapses' \in 0..MaxLapses
    BY DEF Lapse, IInv, TypeOK
  <1>2. /\ otp \in [Phone -> Session \cup {None}]
        /\ hourly \in [Phone -> [n: Nat, ttl: BOOLEAN]] /\ cooling \subseteq Phone
    BY DEF IInv, TypeOK
  <1>3. /\ otp' \in [Phone -> Session \cup {None}]
        /\ \A o \in Phone : otp'[o] \in {otp[o], None}
        /\ cooling' \subseteq Phone
    BY <1>2 DEF Lapse
  <1>4. /\ hourly' \in [Phone -> [n: Nat, ttl: BOOLEAN]]
        /\ \A o \in Phone : hourly'[o] = hourly[o] \/ (hourly'[o].n = 0 /\ hourly[o].ttl)
    <2>1. CASE UNCHANGED hourly
      BY <1>2, <2>1
    <2>2. CASE hourly[p].ttl /\ hourly' = [hourly EXCEPT ![p].n = 0]
      <3> DEFINE k == [hourly[p] EXCEPT !.n = 0]
      <3>1. k \in [n: Nat, ttl: BOOLEAN] /\ k.n = 0
        BY <1>2
      <3>2. hourly' = [hourly EXCEPT ![p] = k]
        BY <2>2
      <3> HIDE DEF k
      <3> QED BY <1>2, <2>2, <3>1, <3>2
    <2> QED BY <2>1, <2>2 DEF Lapse
  <1>5. TypeOK'
    BY <1>1, <1>3, <1>4 DEF IInv, TypeOK, tables
  <1>6. Numbered' /\ \A s \in Req : Well(req'[s])
    BY <1>1 DEF IInv, Numbered
  <1>7. Backed'
    BY <1>1, AgreementKept DEF tables
  <1>8. Codes'
    <2> SUFFICES ("expire" \notin raced => LimitPasses') /\ (Clean => Calm')
      BY <1>1 DEF Codes, Clean
    <2>1. "expire" \notin raced => LimitPasses'
      BY <1>1, <1>2, <1>4 DEF IInv, Codes, LimitPasses, On
    <2>2. ASSUME Clean PROVE Calm'
      <3>1. Calm
        BY <2>2 DEF IInv, Codes
      <3>2. Guarded'
        BY <1>1, <3>1 DEF Calm, Guarded
      <3>3. Limited'
        BY <1>4, <3>1 DEF Calm, Limited
      <3>4. \A c \in Serial : Unused(c) => Unused(c)'
        BY <1>1, <1>3 DEF Unused
      <3>5. \A c \in Serial : c > calls' => Unused(c)'
        BY <1>1, <3>1, <3>4 DEF Calm
      <3>6. \A s \in Req : req'[s].pc \in {"cool", "hourly", "session"} => Unused(req[s].id)'
        BY <1>1, <1>3, <3>1 DEF Calm, Unused
      <3>7. \A s \in Req : req'[s].pc \in {"session", "setCool", "incr"} =>
               hourly'[req'[s].phone].n < HourlyLimit
        <4> SUFFICES ASSUME NEW s \in Req, req[s].pc \in {"session", "setCool", "incr"}
                     PROVE  hourly'[req[s].phone].n < HourlyLimit
          BY <1>1
        <4>1. req[s].phone \in Phone
          BY DEF IInv, Well, PhonePc, OtpPc
        <4> QED BY <1>4, <3>1, <4>1 DEF Calm
      <3>8. \A o \in Phone : otp'[o] # None => Behind(otp[o])' \/ Settling(o)'
        BY <1>1, <1>3, <3>1 DEF Calm, Behind, Settling
      <3>9. \A s \in Req : req'[s].pc \in {"match", "save"} => Behind(req[s].read)'
        BY <1>1, <3>1 DEF Calm, Behind
      <3>10. \A u, o \in Phone :
                otp'[u] # None /\ otp'[o] # None /\ otp'[u].code = otp'[o].code => u = o
        BY <1>3, <3>1 DEF Calm
      <3>11. \A s \in Req, o \in Phone :
                req'[s].pc \in ReadPc /\ otp'[o] # None /\ otp'[o].code = req'[s].read.code =>
                   o = req'[s].phone
        BY <1>1, <1>3, <3>1 DEF Calm
      <3>12. /\ \A s, u \in Req : req'[s].pc \in OtpPc /\ req'[u].pc \in OtpPc => s = u
             /\ \A s \in Req : req'[s].pc \in ReadPc => req'[s].read.code <= calls'
        BY <1>1, <3>1 DEF Calm
      <3> QED BY <3>2, <3>3, <3>5, <3>6, <3>7, <3>8, <3>9, <3>10, <3>11, <3>12 DEF Calm
    <2> QED BY <2>1, <2>2
  <1> QED BY <1>5, <1>6, <1>7, <1>8 DEF IInv

----------------------------------------------------------------------------
(* The theorems *)

LEMMA Initially == Init => IInv
  <1> SUFFICES ASSUME Init PROVE IInv
    OBVIOUS
  <1>1. \A r \in Req : req[r].pc = "free"
    BY FreeWell DEF Init
  <1>2. AdminRow \in User /\ [uid |-> 1, confirmed |-> TRUE] \in Account
    BY DEF AdminRow, User, Account, Serial
  <1>3. TypeOK
    <2>1. account \in [Email -> Account \cup {None}] /\ user \in [Email -> User \cup {None}]
      BY <1>2 DEF Init
    <2>2. req \in [Req -> Request]
      BY FreeWell DEF Init, Well
    <2>3. << >> \in Seq(Event)
      OBVIOUS
    <2> QED BY <2>1, <2>2, <2>3 DEF Init, TypeOK
  <1>4. Numbered /\ \A r \in Req : Well(req[r])
    BY <1>1, FreeWell DEF Init, Numbered
  <1>5. Backed
    <2>1. Owned
      BY <1>1 DEF Owned, Owns
    <2>2. Agree
      <3> SUFFICES ASSUME NEW e \in Email PROVE NoRow(e) /\ (account[e] = None \/ user[e] # None)
        BY DEF Agree
      <3>1. CASE e \in Admin
        <4>1. user[e] = AdminRow
          BY <3>1 DEF Init
        <4>2. AdminRow # None
          BY <1>2
        <4>3. AdminRow.role # "JURIDICA"
          BY DEF AdminRow
        <4> QED BY <4>1, <4>2, <4>3 DEF NoRow
      <3>2. CASE e \notin Admin
        BY <3>2 DEF Init, NoRow
      <3> QED BY <3>1, <3>2
    <2> QED BY <2>1, <2>2 DEF Backed
  <1>6. LimitPasses
    BY DEF Init, LimitPasses
  <1>7. Calm
    <2>1. \A r \in Req : req[r].pc \notin OtpPc /\ req[r].pc \notin ReadPc
      BY <1>1 DEF OtpPc, ReadPc
    <2>2. Guarded /\ Limited
      BY DEF Init, Guarded, Limited
    <2>3. \A c \in Serial : Unused(c)
      BY DEF Init, Unused
    <2>4. \A p \in Phone : otp[p] = None
      BY DEF Init
    <2> QED BY <1>1, <2>1, <2>2, <2>3, <2>4 DEF Calm
  <1> QED BY <1>3, <1>4, <1>5, <1>6, <1>7 DEF IInv, Codes

LEMMA Stutters ==
  ASSUME IInv, UNCHANGED vars
  PROVE  IInv'
  <1>1. TypeOK' /\ Numbered' /\ \A r \in Req : Well(req'[r])
    BY DEF vars, IInv, TypeOK, Numbered
  <1>2. Backed'
    BY AgreementKept DEF vars
  <1>3. Codes'
    BY CodesStill DEF vars
  <1> QED BY <1>1, <1>2, <1>3 DEF IInv

LEMMA Inductive == IInv /\ [Next]_vars => IInv'
  <1> SUFFICES ASSUME IInv, [Next]_vars PROVE IInv'
    OBVIOUS
  <1>1. CASE Arrive
    BY <1>1, ArriveStep
  <1>2. CASE Crash
    BY <1>2, CrashStep
  <1>3. ASSUME NEW r \in Req, Register(r) PROVE IInv'
    BY <1>3, ElsewhereSteps, SignUpStep, CreateStep, CompensateStep, ConfirmStep DEF Register
  <1>4. ASSUME NEW r \in Req, Resend(r) PROVE IInv'
    BY <1>4, ElsewhereSteps DEF Resend
  <1>5. ASSUME NEW r \in Req, Verdict(r) PROVE IInv'
    BY <1>5, ElsewhereSteps, UpdateStep DEF Verdict
  <1>6. ASSUME NEW r \in Req, SendOtp(r) PROVE IInv'
    BY <1>6, SendSteps, SetSessionStep, IncrStep, SetExpiryStep DEF SendOtp
  <1>7. ASSUME NEW r \in Req, Verify(r) PROVE IInv'
    BY <1>7, ElsewhereSteps, ReadSessionStep, DropSessionStep, MatchStep, SaveSessionStep,
       ConsumeStep DEF Verify
  <1>8. ASSUME NEW r \in Req, RequestDeletion(r) \/ CallFails(r) PROVE IInv'
    BY <1>8, ElsewhereSteps, CallFailsStep
  <1>9. CASE \E e \in Email : FollowLink(e)
    BY <1>9, FollowLinkStep
  <1>10. CASE \E p \in Phone : Lapse(p)
    BY <1>10, LapseStep
  <1>11. CASE UNCHANGED vars
    BY <1>11, Stutters
  <1> QED
    BY <1>1, <1>2, <1>3, <1>4, <1>5, <1>6, <1>7, <1>8, <1>9, <1>10, <1>11 DEF Next

LEMMA Always == Spec => []IInv
  BY Initially, Inductive, PTL DEF Spec

(* Every variable keeps its type; among others, the count of attempts that a  *)
(* session stores never passes OTP_MAX_ATTEMPTS, even when requests overlap.   *)
THEOREM AccountsTypeCorrect == Spec => []TypeOK
  <1>1. IInv => TypeOK
    BY DEF IInv
  <1> QED BY <1>1, Always, PTL

(* While no call fails, every JURIDICA has the account of the provider that   *)
(* its own registration made, and every account without a row is that of a    *)
(* registration in flight (registerJuridica and compensateFirebaseSignUp),     *)
(* whatever the number of registrations that contend for an email or a NIT.   *)
THEOREM AccountsAreBacked == Spec => []AccountsBacked
  <1>1. IInv => AccountsBacked
    <2> SUFFICES ASSUME IInv, faults = 0, NEW e \in Email
                 PROVE  /\ FindJuridicaByEmail(e) # None =>
                             Known(e) /\ account[e].uid = user[e].uid
                        /\ Known(e) /\ user[e] = None => Registering(e)
      BY DEF AccountsBacked
    <2>1. Agree
      BY DEF IInv, Backed
    <2>2. FindJuridicaByEmail(e) # None => ~NoRow(e)
      BY DEF FindJuridicaByEmail, NoRow
    <2>3. Known(e) /\ user[e] = None => Registering(e)
      BY <2>1 DEF Agree, Known, Registering, Owns
    <2> QED BY <2>1, <2>2, <2>3 DEF Agree, Known
  <1> QED BY <1>1, Always, PTL

(***************************************************************************)
(* The counter of the hour asks for less than Calm: whatever is cut, codes    *)
(* sent one after another are counted below the limit.                       *)
(***************************************************************************)
Counting == {"session", "setCool", "incr"}

OneAtATime == \A r, s \in Req : req[r].pc \in OtpPc /\ req[s].pc \in OtpPc => r = s

Below == \A r \in Req : req[r].pc \in Counting => hourly[req[r].phone].n < HourlyLimit

Spared == "otp" \notin raced => OneAtATime /\ Limited /\ Below

LEMMA SparedKept ==
  ASSUME IInv, IInv', Spared, raced \subseteq raced',
         \A p \in Phone : hourly'[p].n <= hourly[p].n,
         \A s \in Req : req'[s].pc \in OtpPc => req[s].pc \in OtpPc,
         \A s \in Req : req'[s].pc \in Counting =>
            \/ req[s].pc \in Counting /\ req'[s].phone = req[s].phone
            \/ hourly[req'[s].phone].n < HourlyLimit
  PROVE  Spared'
  <1> SUFFICES ASSUME "otp" \notin raced' PROVE OneAtATime' /\ Limited' /\ Below'
    BY DEF Spared
  <1>1. OneAtATime /\ Limited /\ Below
    BY DEF Spared
  <1>2. \A p \in Phone : hourly[p].n \in Nat /\ hourly'[p].n \in Nat
    BY DEF IInv, TypeOK
  <1>3. OneAtATime'
    BY <1>1 DEF OneAtATime
  <1>4. Limited'
    BY <1>1, <1>2 DEF Limited
  <1>5. Below'
    <2> SUFFICES ASSUME NEW s \in Req, req'[s].pc \in Counting
                 PROVE  hourly'[req'[s].phone].n < HourlyLimit
      BY DEF Below
    <2>1. req'[s].phone \in Phone
      BY DEF IInv, Well, PhonePc, OtpPc, Counting
    <2>2. hourly[req'[s].phone].n < HourlyLimit
      BY <1>1 DEF Below
    <2> QED BY <1>2, <2>1, <2>2
  <1> QED BY <1>3, <1>4, <1>5

LEMMA EndSpared ==
  ASSUME IInv, IInv', Spared, NEW r \in Req, End(r), UNCHANGED raced,
         \A p \in Phone : hourly'[p].n <= hourly[p].n
  PROVE  Spared'
  <1>1. req'[r] = Free /\ \A s \in Req \ {r} : req'[s] = req[s]
    BY DEF End, IInv, TypeOK
  <1>2. Free.pc \notin OtpPc /\ Free.pc \notin Counting
    BY FreeWell DEF OtpPc, Counting
  <1> QED BY <1>1, <1>2, SparedKept

LEMMA GoSpared ==
  ASSUME IInv, IInv', Spared, NEW r \in Req, NEW pc \in Pc, Goto(r, pc), UNCHANGED <<raced, hourly>>,
         pc \in OtpPc => req[r].pc \in OtpPc,
         pc \in Counting => req[r].pc \in Counting \/ hourly[req[r].phone].n < HourlyLimit
  PROVE  Spared'
  <1>1. PICK q \in Request : req' = [req EXCEPT ![r] = q] /\ q.pc = pc /\ q.phone = req[r].phone
    BY GoIs DEF IInv
  <1>2. req'[r] = q /\ \A s \in Req \ {r} : req'[s] = req[s]
    BY <1>1 DEF IInv, TypeOK
  <1>3. \A p \in Phone : hourly'[p].n <= hourly[p].n
    BY DEF IInv, TypeOK
  <1> QED BY <1>1, <1>2, <1>3, SparedKept

LEMMA ElsewhereSpared ==
  ASSUME IInv, IInv', Spared, NEW r \in Req,
         \/ Register(r) \/ Resend(r) \/ Verdict(r) \/ RequestDeletion(r) \/ FindOrCreateNatural(r)
  PROVE  Spared'
  <1> DEFINE pcs == {"signUp", "create", "compensate", "confirm", "findRow", "update", "audit",
                     "decrypt"}
  <1>1. UNCHANGED <<raced, hourly>>
    BY DEF Register, Resend, Verdict, RequestDeletion, FindOrCreateNatural, Find, SignUp, Create,
           Compensate, Confirm, SignIn, FindRow, Target, Update, Audit, NotifyVerified, keys, ghosts
  <1>2. End(r) \/ \E pc \in pcs : Goto(r, pc)
    <2>1. CASE Register(r)
      BY <2>1 DEF Register, Find, SignUp, Create, Compensate, Confirm
    <2>2. CASE Resend(r) \/ Verdict(r)
      BY <2>2 DEF Resend, Verdict, SignIn, FindRow, Target, Update, Audit, NotifyVerified
    <2>3. CASE RequestDeletion(r) \/ FindOrCreateNatural(r)
      BY <2>3 DEF RequestDeletion, FindOrCreateNatural
    <2> QED BY <2>1, <2>2, <2>3
  <1>3. \A p \in Phone : hourly'[p].n <= hourly[p].n
    BY <1>1 DEF IInv, TypeOK
  <1>4. pcs \subseteq Pc /\ pcs \cap OtpPc = {} /\ pcs \cap Counting = {}
    BY DEF Pc, OtpPc, Counting
  <1> HIDE DEF pcs
  <1> QED BY <1>1, <1>2, <1>3, <1>4, EndSpared, GoSpared

(* INCR counts the code that was found below the limit.                       *)
LEMMA IncrSpared ==
  ASSUME IInv, IInv', Spared, NEW r \in Req, Incr(r)
  PROVE  Spared'
  <1> SUFFICES ASSUME "otp" \notin raced' PROVE OneAtATime' /\ Limited' /\ Below'
    BY DEF Spared
  <1> DEFINE p == req[r].phone
  <1>1. req[r].pc = "incr" /\ raced' = raced
    BY DEF Incr, On, ghosts
  <1>2. OneAtATime /\ Limited /\ hourly[p].n < HourlyLimit /\ p \in Phone
    BY <1>1 DEF Spared, Below, Counting, IInv, Well, PhonePc, OtpPc
  <1>3. /\ \A s \in Req \ {r} : req'[s] = req[s]
        /\ req'[r].pc \in {"expire", "free"}
    BY FreeWell DEF Incr, Goto, End, IInv, TypeOK, Request
  <1>4. hourly'[p].n = hourly[p].n + 1 /\ \A o \in Phone \ {p} : hourly'[o] = hourly[o]
    BY <1>2 DEF Incr, IInv, TypeOK
  <1>5. \A s \in Req \ {r} : req[s].pc \notin OtpPc
    BY <1>1, <1>2 DEF OneAtATime, OtpPc
  <1>6. OneAtATime'
    BY <1>3, <1>5 DEF OneAtATime
  <1>7. Below'
    BY <1>3, <1>5 DEF Below, Counting, OtpPc
  <1>8. Limited'
    <2>1. hourly[p].n + 1 <= HourlyLimit
      BY <1>2 DEF IInv, TypeOK
    <2> QED BY <1>2, <1>4, <2>1 DEF Limited
  <1> QED BY <1>6, <1>7, <1>8

LEMMA SendSpared ==
  ASSUME IInv, IInv', Spared, NEW r \in Req, SendOtp(r)
  PROVE  Spared'
  <1> USE DEF On, keys, ghosts
  <1>1. /\ {"hourly", "session", "setCool", "incr"} \subseteq Pc /\ "hourly" \notin Counting
        /\ {"cool", "hourly", "session", "setCool"} \subseteq OtpPc
        /\ {"session", "setCool"} \subseteq Counting
    BY DEF Pc, OtpPc, Counting
  <1>2. (\A p \in Phone : hourly[p].n \in Nat) /\ (req[r].pc \in OtpPc => req[r].phone \in Phone)
    BY DEF IInv, TypeOK, Well, PhonePc
  <1>3. CASE Cool(r)
    <2>1. UNCHANGED <<raced, hourly>> /\ req[r].pc = "cool" /\ (End(r) \/ Goto(r, "hourly"))
      BY <1>3 DEF Cool
    <2> QED BY <1>1, <1>2, <2>1, EndSpared, GoSpared
  <1>4. CASE Hourly(r)
    <2>1. /\ UNCHANGED <<raced, hourly>> /\ req[r].pc = "hourly"
          /\ \/ End(r)
             \/ Goto(r, "session") /\ ~(hourly[req[r].phone].n >= HourlyLimit)
      BY <1>4 DEF Hourly
    <2> QED BY <1>1, <1>2, <2>1, EndSpared, GoSpared
  <1>5. CASE SetSession(r)
    <2>1. UNCHANGED <<raced, hourly>> /\ req[r].pc = "session" /\ (End(r) \/ Goto(r, "setCool"))
      BY <1>5 DEF SetSession
    <2> QED BY <1>1, <1>2, <2>1, EndSpared, GoSpared
  <1>6. CASE SetCooldown(r)
    <2>1. UNCHANGED <<raced, hourly>> /\ req[r].pc = "setCool" /\ Goto(r, "incr")
      BY <1>6 DEF SetCooldown
    <2> QED BY <1>1, <2>1, GoSpared
  <1>7. CASE SetExpiry(r)
    <2>1. UNCHANGED raced /\ End(r) /\ hourly' = [hourly EXCEPT ![req[r].phone].ttl = TRUE]
      BY <1>7 DEF SetExpiry
    <2>2. \A p \in Phone : hourly'[p].n <= hourly[p].n
      BY <1>2, <2>1 DEF IInv, TypeOK
    <2> QED BY <2>1, <2>2, EndSpared
  <1> QED BY <1>3, <1>4, <1>5, <1>6, <1>7, IncrSpared DEF SendOtp

LEMMA VerifySpared ==
  ASSUME IInv, IInv', Spared, NEW r \in Req, Verify(r)
  PROVE  Spared'
  <1> USE DEF On, tables, keys, ghosts
  <1>1. CASE FindOrCreateNatural(r)
    BY <1>1, ElsewhereSpared
  <1>2. CASE ~FindOrCreateNatural(r)
    <2>1. UNCHANGED <<raced, hourly>> /\ req[r].pc \in {"read", "drop", "match", "save", "consume"}
      BY <1>2 DEF Verify, ReadSession, DropSession, Match, SaveSession, Consume
    <2>2. req \in [Req -> Request]
      BY DEF IInv, TypeOK
    <2>3. /\ \A s \in Req \ {r} : req'[s] = req[s]
          /\ req'[r].pc \in {"drop", "match", "save", "consume", "upsert", "free"}
      <3>1. CASE ReadSession(r)
        BY <2>2, <3>1, FreeWell DEF ReadSession, End, Request
      <3>2. CASE DropSession(r) \/ SaveSession(r)
        BY <2>2, <3>2, FreeWell DEF DropSession, SaveSession, End
      <3>3. CASE Match(r)
        BY <2>2, <3>3 DEF Match, Goto, Request
      <3>4. CASE Consume(r)
        BY <2>2, <3>4 DEF Consume, Goto, Request
      <3> QED BY <1>2, <3>1, <3>2, <3>3, <3>4 DEF Verify
    <2>4. req[r].pc \in OtpPc /\ req'[r].pc \notin Counting
      BY <2>1, <2>3 DEF OtpPc, Counting
    <2>5. \A p \in Phone : hourly'[p].n <= hourly[p].n
      BY <2>1 DEF IInv, TypeOK
    <2> QED BY <2>1, <2>3, <2>4, <2>5, SparedKept
  <1> QED BY <1>1, <1>2

LEMMA ArriveSpared ==
  ASSUME IInv, IInv', Spared, Arrive
  PROVE  Spared'
  <1>1. ASSUME NEW kind, NEW q, Receive(kind, q), "id" \in DOMAIN q, q.pc \notin Counting
        PROVE  Spared'
    <2> SUFFICES ASSUME "otp" \notin raced' PROVE OneAtATime' /\ Limited' /\ Below'
      BY DEF Spared
    <2>1. PICK r \in Req : req[r].pc = "free" /\ req' = [req EXCEPT ![r] = [q EXCEPT !.id = calls']]
      BY <1>1 DEF Receive, On
    <2>2. req'[r].pc = q.pc /\ \A s \in Req \ {r} : req'[s] = req[s]
      BY <2>1 DEF IInv, TypeOK
    <2>3. /\ raced \subseteq raced' /\ UNCHANGED hourly
          /\ q.pc \in OtpPc => \A s \in Req : req[s].pc \notin OtpPc
      BY <1>1 DEF Receive, keys
    <2>4. OneAtATime /\ Limited /\ Below
      BY <2>3 DEF Spared
    <2>5. OneAtATime'
      BY <2>2, <2>3, <2>4 DEF OneAtATime
    <2>6. Below'
      BY <1>1, <2>2, <2>3, <2>4 DEF Below
    <2> QED BY <2>3, <2>4, <2>5, <2>6 DEF Limited
  <1> USE DEF Free, Counting
  <1>2. ASSUME NEW e \in Email, NEW n \in Nit,
               Receive("register", [Free EXCEPT !.pc = "find", !.email = e, !.nit = n])
        PROVE  Spared'
    BY <1>1, <1>2
  <1>3. ASSUME NEW e \in Email, Receive("resend", [Free EXCEPT !.pc = "signIn", !.email = e])
        PROVE  Spared'
    BY <1>1, <1>3
  <1>4. ASSUME NEW e \in Email, NEW b \in BOOLEAN,
               Receive("verdict", [Free EXCEPT !.pc = "target", !.email = e, !.verdict = b])
        PROVE  Spared'
    BY <1>1, <1>4
  <1>5. ASSUME NEW p, Receive("delete", [Free EXCEPT !.pc = "request", !.phone = p])
        PROVE  Spared'
    BY <1>1, <1>5
  <1>6. ASSUME NEW p, Receive("send", [Free EXCEPT !.pc = "cool", !.phone = p])
        PROVE  Spared'
    BY <1>1, <1>6
  <1>7. ASSUME NEW p, NEW b,
               Receive("verify", [Free EXCEPT !.pc = "read", !.phone = p, !.good = b])
        PROVE  Spared'
    BY <1>1, <1>7
  <1> QED BY <1>2, <1>3, <1>4, <1>5, <1>6, <1>7 DEF Arrive

LEMMA CutSpared ==
  ASSUME IInv, IInv', Spared, NEW rs \in SUBSET Req, Cut(rs)
  PROVE  Spared'
  <1>1. /\ \A s \in Req : req'[s] = IF s \in rs THEN Free ELSE req[s]
        /\ raced \subseteq raced' /\ UNCHANGED hourly
    BY DEF Cut, keys
  <1>2. Free.pc \notin OtpPc /\ Free.pc \notin Counting
    BY FreeWell DEF OtpPc, Counting
  <1>3. \A p \in Phone : hourly'[p].n <= hourly[p].n
    BY <1>1 DEF IInv, TypeOK
  <1> QED BY <1>1, <1>2, <1>3, SparedKept

LEMMA LapseSpared ==
  ASSUME IInv, IInv', Spared, NEW p \in Phone, Lapse(p)
  PROVE  Spared'
  <1>1. UNCHANGED <<req, raced>>
    BY DEF Lapse
  <1>2. \A o \in Phone : hourly'[o].n <= hourly[o].n
    <2>0. hourly \in [Phone -> [n: Nat, ttl: BOOLEAN]]
      BY DEF IInv, TypeOK
    <2>1. CASE UNCHANGED hourly
      BY <2>0, <2>1
    <2>2. CASE hourly' = [hourly EXCEPT ![p].n = 0]
      <3>1. hourly'[p].n = 0 /\ \A o \in Phone \ {p} : hourly'[o] = hourly[o]
        BY <2>0, <2>2
      <3> QED BY <2>0, <3>1
    <2> QED BY <2>1, <2>2 DEF Lapse
  <1> QED BY <1>1, <1>2, SparedKept

LEMMA SparedInductive == IInv /\ IInv' /\ Spared /\ [Next]_vars => Spared'
  <1> SUFFICES ASSUME IInv, IInv', Spared, [Next]_vars PROVE Spared'
    OBVIOUS
  <1>1. ASSUME UNCHANGED <<req, raced, hourly>> PROVE Spared'
    BY <1>1 DEF Spared, OneAtATime, Limited, Below
  <1>2. CASE Arrive
    BY <1>2, ArriveSpared
  <1>3. CASE Crash
    BY <1>3, CutSpared DEF Crash
  <1>4. ASSUME NEW r \in Req, CallFails(r) PROVE Spared'
    BY <1>4, CutSpared DEF CallFails
  <1>5. ASSUME NEW r \in Req,
               \/ Register(r) \/ Resend(r) \/ Verdict(r) \/ SendOtp(r) \/ Verify(r)
               \/ RequestDeletion(r) \/ CallFails(r)
        PROVE  Spared'
    BY <1>4, <1>5, ElsewhereSpared, SendSpared, VerifySpared
  <1>6. ASSUME NEW e \in Email, FollowLink(e) PROVE Spared'
    BY <1>1, <1>6 DEF FollowLink, ghosts, keys
  <1>7. ASSUME NEW p \in Phone, Lapse(p) PROVE Spared'
    BY <1>7, LapseSpared
  <1>8. CASE UNCHANGED vars
    BY <1>1, <1>8 DEF vars
  <1> QED BY <1>2, <1>3, <1>5, <1>6, <1>7, <1>8 DEF Next

LEMMA SparedInitially == Init => Spared
  <1> SUFFICES ASSUME Init PROVE OneAtATime /\ Limited /\ Below
    BY DEF Spared
  <1>1. \A r \in Req : req[r].pc \notin OtpPc /\ req[r].pc \notin Counting
    BY FreeWell DEF Init, OtpPc, Counting
  <1> QED BY <1>1 DEF Init, OneAtATime, Limited, Below

(* Whatever fails, the counter of the hour expires unless a request was cut    *)
(* between INCR and EXPIRE; unless two requests of the codes overlapped it     *)
(* never passes the limit of codes an hour; and unless one was cut as well     *)
(* before it wrote down how a comparison ended, no code meets more than        *)
(* OTP_MAX_ATTEMPTS wrong guesses nor lets in twice (otp.service.ts).          *)
THEOREM CodesAreBounded == Spec => []CodesHold
  <1>1. IInv /\ Spared => CodesHold
    BY DEF IInv, Codes, Clean, CodesHold, Calm, Spared
  <1>2. Spec => []Spared
    BY SparedInitially, SparedInductive, Always, PTL DEF Spec
  <1> QED BY <1>1, <1>2, Always, PTL

----------------------------------------------------------------------------
(***************************************************************************)
(* Nor is AuditTells: it needs that verdicts follow one another, that a      *)
(* request about to audit left its verdict on the row, and that nobody has   *)
(* events without a row.                                                     *)
(***************************************************************************)
OneVerdict == \A r, s \in Req : req[r].pc \in VerdictPc /\ req[s].pc \in VerdictPc => r = s

Written ==
    \A r \in Req : On(r, "audit") =>
        FindJuridicaByEmail(req[r].email) # None /\ user[req[r].email].verified = req[r].verdict

NoStrangers == \A i \in DOMAIN audit : FindJuridicaByEmail(audit[i].target) # None

Tells ==
    \A e \in Email : FindJuridicaByEmail(e) # None =>
        user[e].verified = LastVerdict(e) \/ \E r \in Req : On(r, "audit") /\ req[r].email = e

Audited ==
    faults = 0 /\ "verdict" \notin raced => OneVerdict /\ Written /\ NoStrangers /\ Tells

\* A row stays, or is the first of its email and unverified.
RowsKept ==
    \A e \in Email : \/ user'[e] = user[e]
                     \/ user[e] = None /\ user'[e] # None /\ user'[e].verified = FALSE

\* A request that audits neither before nor after, and starts no verdict.
Moves(r) ==
    /\ \A s \in Req \ {r} : req'[s] = req[s]
    /\ req[r].pc # "audit" /\ req'[r].pc # "audit"
    /\ req'[r].pc \in VerdictPc => req[r].pc \in VerdictPc

LEMMA FaultAudited == ASSUME IInv, Fault PROVE Audited'
  BY DEF IInv, TypeOK, Fault, Audited

LEMMA AuditedKept ==
  ASSUME IInv, IInv', Audited, RowsKept, UNCHANGED <<audit, faults>>, raced \subseteq raced',
         "verdict" \notin raced' => OneVerdict',
         \A s \in Req : req[s].pc = "audit" \/ req'[s].pc = "audit" => req'[s] = req[s]
  PROVE  Audited'
  <1> SUFFICES ASSUME faults = 0, "verdict" \notin raced' PROVE Written' /\ NoStrangers' /\ Tells'
    BY DEF Audited
  <1>1. Written /\ NoStrangers /\ Tells
    BY DEF Audited
  <1>2. \A e \in Email : FindJuridicaByEmail(e) # None =>
           FindJuridicaByEmail(e)' # None /\ user'[e] = user[e]
    BY DEF RowsKept, FindJuridicaByEmail
  <1>3. \A s \in Req : On(s, "audit")' =>
           On(s, "audit") /\ req'[s] = req[s] /\ req[s].email \in Email
    BY DEF On, IInv, Well, EmailPc
  <1>4. Written'
    BY <1>1, <1>2, <1>3 DEF Written
  <1>5. \A i \in DOMAIN audit : audit[i].target \in Email
    <2>1. audit \in Seq(Event)
      BY DEF IInv, TypeOK
    <2>2. \A i \in DOMAIN audit : audit[i] \in Event
      BY <2>1
    <2> QED BY <2>2 DEF Event
  <1>6. NoStrangers'
    BY <1>1, <1>2, <1>5 DEF NoStrangers
  <1>7. \A e \in Email : LastVerdict(e)' = LastVerdict(e)
    BY DEF LastVerdict
  <1>8. Tells'
    <2> SUFFICES ASSUME NEW e \in Email, FindJuridicaByEmail(e)' # None
                 PROVE  \/ user'[e].verified = LastVerdict(e)'
                        \/ \E s \in Req : On(s, "audit")' /\ req'[s].email = e
      BY DEF Tells
    <2>1. CASE FindJuridicaByEmail(e) # None
      <3>1. CASE user[e].verified = LastVerdict(e)
        BY <1>2, <1>7, <2>1, <3>1
      <3>2. CASE \E s \in Req : On(s, "audit") /\ req[s].email = e
        BY <3>2 DEF On
      <3> QED BY <1>1, <2>1, <3>1, <3>2 DEF Tells
    <2>2. CASE FindJuridicaByEmail(e) = None
      <3>1. user'[e] # user[e]
        BY <2>2 DEF FindJuridicaByEmail
      <3>2. user'[e].verified = FALSE
        BY <3>1 DEF RowsKept
      <3>3. \A i \in DOMAIN audit : audit[i].target # e
        BY <1>1, <2>2 DEF NoStrangers
      <3>4. LastVerdict(e) = FALSE
        BY <3>3 DEF LastVerdict
      <3> QED BY <1>7, <3>2, <3>4
    <2> QED BY <2>1, <2>2
  <1> QED BY <1>4, <1>6, <1>8

LEMMA MovesAudited ==
  ASSUME IInv, IInv', Audited, RowsKept, UNCHANGED <<audit, faults, raced>>,
         NEW r \in Req, Moves(r)
  PROVE  Audited'
  <1>1. ASSUME "verdict" \notin raced', faults = 0 PROVE OneVerdict'
    <2>1. OneVerdict
      BY <1>1 DEF Audited
    <2>2. \A s \in Req : req'[s].pc \in VerdictPc => req[s].pc \in VerdictPc
      BY DEF Moves
    <2> QED BY <2>1, <2>2 DEF OneVerdict
  <1>2. \A s \in Req : req[s].pc = "audit" \/ req'[s].pc = "audit" => req'[s] = req[s]
    BY DEF Moves
  <1>3. CASE faults = 0
    BY <1>1, <1>2, <1>3, AuditedKept
  <1>4. CASE faults # 0
    BY <1>4 DEF Audited
  <1> QED BY <1>3, <1>4

LEMMA EndMoves ==
  ASSUME IInv, NEW r \in Req, End(r), ~On(r, "audit")
  PROVE  Moves(r)
  <1>1. req'[r] = Free /\ \A s \in Req \ {r} : req'[s] = req[s]
    BY DEF End, IInv, TypeOK
  <1> QED BY <1>1, FreeWell DEF Moves, On, VerdictPc

LEMMA GoMoves ==
  ASSUME IInv, NEW r \in Req, NEW pc \in Pc \ {"audit"}, Goto(r, pc), ~On(r, "audit"),
         pc \in VerdictPc => req[r].pc \in VerdictPc
  PROVE  Moves(r)
  <1>1. PICK q \in Request : req' = [req EXCEPT ![r] = q] /\ q.pc = pc
    BY GoIs DEF IInv
  <1>2. req'[r] = q /\ \A s \in Req \ {r} : req'[s] = req[s]
    BY <1>1 DEF IInv, TypeOK
  <1> QED BY <1>1, <1>2 DEF Moves, On

----------------------------------------------------------------------------
(* What each step does to the audit *)

LEMMA QuietSteps ==
  ASSUME IInv, NEW r \in Req,
         \/ Find(r) \/ SignUp(r) \/ Compensate(r) \/ Confirm(r) \/ SignIn(r) \/ FindRow(r)
         \/ Target(r) \/ NotifyVerified(r) \/ FindOrCreateNatural(r) \/ RequestDeletion(r)
         \/ SendOtp(r) \/ ReadSession(r) \/ DropSession(r) \/ Match(r) \/ SaveSession(r)
         \/ Consume(r)
  PROVE  \/ Fault
         \/ Moves(r) /\ RowsKept /\ UNCHANGED <<audit, faults, raced>>
  <1> SUFFICES ASSUME ~Fault PROVE Moves(r) /\ UNCHANGED <<user, audit, faults, raced>>
    BY DEF RowsKept
  <1> USE DEF On, tables, keys, ghosts
  <1>0. /\ {"signUp", "create", "compensate", "confirm", "findRow", "update", "decrypt", "hourly",
            "session", "setCool", "incr", "expire", "drop", "match", "save", "consume",
            "upsert"} \subseteq Pc \ {"audit"}
        /\ {"signUp", "create", "compensate", "confirm", "findRow", "decrypt", "hourly",
            "session", "setCool", "incr", "expire", "drop", "match", "save", "consume",
            "upsert"} \cap VerdictPc = {}
        /\ {"update", "target"} \subseteq VerdictPc
    BY DEF Pc, VerdictPc
  <1>1. CASE Find(r) \/ SignUp(r) \/ Compensate(r) \/ Confirm(r)
    <2>1. UNCHANGED <<user, audit, faults, raced>>
      BY <1>1 DEF Find, SignUp, Compensate, Confirm
    <2>2. ~On(r, "audit") /\ (End(r) \/ Goto(r, "signUp") \/ Goto(r, "create"))
      BY <1>1 DEF Find, SignUp, Compensate, Confirm
    <2> QED BY <1>0, <2>1, <2>2, EndMoves, GoMoves
  <1>2. CASE SignIn(r) \/ FindRow(r) \/ NotifyVerified(r) \/ FindOrCreateNatural(r)
             \/ RequestDeletion(r)
    <2>1. UNCHANGED <<user, audit, faults, raced>>
      BY <1>2 DEF SignIn, FindRow, NotifyVerified, FindOrCreateNatural, RequestDeletion
    <2>2. ~On(r, "audit") /\ (End(r) \/ Goto(r, "findRow") \/ Goto(r, "confirm"))
      BY <1>2 DEF SignIn, FindRow, NotifyVerified, FindOrCreateNatural, RequestDeletion
    <2> QED BY <1>0, <2>1, <2>2, EndMoves, GoMoves
  <1>3. CASE Target(r)
    <2>1. UNCHANGED <<user, audit, faults, raced>> /\ req[r].pc = "target"
          /\ (End(r) \/ Goto(r, "update"))
      BY <1>3 DEF Target
    <2> QED BY <1>0, <2>1, EndMoves, GoMoves
  <1>4. CASE SendOtp(r)
    <2> USE DEF Cool, Hourly, SetSession, SetCooldown, Incr, SetExpiry
    <2>1. UNCHANGED <<user, audit, faults, raced>>
      BY <1>4 DEF SendOtp
    <2>2. ~On(r, "audit") /\ (\/ End(r) \/ Goto(r, "hourly") \/ Goto(r, "session")
                              \/ Goto(r, "setCool") \/ Goto(r, "incr") \/ Goto(r, "expire"))
      BY <1>4 DEF SendOtp
    <2> QED BY <1>0, <2>1, <2>2, EndMoves, GoMoves
  <1>5. CASE DropSession(r) \/ SaveSession(r) \/ Consume(r)
    <2>1. UNCHANGED <<user, audit, faults, raced>> /\ ~On(r, "audit")
          /\ (End(r) \/ Goto(r, "upsert"))
      BY <1>5 DEF DropSession, SaveSession, Consume
    <2> QED BY <1>0, <2>1, EndMoves, GoMoves
  <1>6. CASE ReadSession(r)
    <2>1. UNCHANGED <<user, audit, faults, raced>> /\ ~On(r, "audit")
      BY <1>6 DEF ReadSession
    <2>2. CASE End(r)
      BY <2>1, <2>2, EndMoves
    <2>3. CASE ~End(r)
      <3>1. PICK pc \in {"drop", "match"} :
               req' = [req EXCEPT ![r].read = otp[req[r].phone], ![r].pc = pc]
        BY <1>6, <2>3 DEF ReadSession
      <3>2. req \in [Req -> Request]
        BY DEF IInv, TypeOK
      <3>3. req'[r].pc = pc /\ \A s \in Req \ {r} : req'[s] = req[s]
        BY <3>1, <3>2 DEF Request
      <3> QED BY <1>0, <2>1, <3>3 DEF Moves
    <2> QED BY <2>2, <2>3
  <1>7. CASE Match(r)
    <2>1. UNCHANGED <<user, audit, raced>> /\ ~On(r, "audit") /\ UNCHANGED faults
      BY <1>7 DEF Match
    <2>2. CASE Goto(r, "consume")
      BY <1>0, <2>1, <2>2, GoMoves
    <2>3. CASE ~Goto(r, "consume")
      <3>1. PICK pc \in {"drop", "save"} :
               req' = [req EXCEPT ![r].pc = pc, ![r].read.attempts = @ + 1]
        BY <1>7, <2>3 DEF Match
      <3>2. req \in [Req -> Request]
        BY DEF IInv, TypeOK
      <3>3. req'[r].pc = pc /\ \A s \in Req \ {r} : req'[s] = req[s]
        BY <3>1, <3>2 DEF Request
      <3> QED BY <1>0, <2>1, <3>3 DEF Moves
    <2> QED BY <2>2, <2>3
  <1> QED BY <1>1, <1>2, <1>3, <1>4, <1>5, <1>6, <1>7

(* The row that registerJuridica inserts is the first of its email, unverified. *)
LEMMA CreateAudited ==
  ASSUME IInv, IInv', Audited, NEW r \in Req, Create(r)
  PROVE  Audited'
  <1>1. CASE Fault
    BY <1>1, FaultAudited
  <1>2. CASE ~Fault
    <2>1. /\ ~On(r, "audit") /\ UNCHANGED <<audit, faults, raced>>
          /\ Goto(r, "confirm") \/ Goto(r, "compensate")
      BY <1>2 DEF Create, On, ghosts
    <2>2. Moves(r)
      BY <2>1, GoMoves DEF Pc, VerdictPc
    <2>3. req[r].email \in Email
      BY DEF IInv, Well, Create, On, EmailPc, RegisterPc
    <2>4. user \in [Email -> User \cup {None}]
      BY DEF IInv, TypeOK
    <2>5. user' \in {user, Inserted(req[r])}
      BY DEF Create
    <2>6. RowsKept
      <3>1. CASE user' = user
        BY <3>1 DEF RowsKept
      <3>2. CASE user' # user
        <4>1. user[req[r].email] = None /\ user' = [user EXCEPT ![req[r].email] = Juridica(req[r])]
          BY <2>5, <3>2 DEF Inserted, Taken
        <4>2. Juridica(req[r]).verified = FALSE
          BY DEF Juridica
        <4>3. user'[req[r].email] = Juridica(req[r])
              /\ \A e \in Email : e # req[r].email => user'[e] = user[e]
          BY <2>3, <2>4, <4>1
        <4>4. Juridica(req[r]) \in User
          <5>1. req[r].nit \in Nit /\ req[r].id \in Serial
            BY DEF IInv, Well, Create, On, EmailPc, RegisterPc
          <5> QED BY <5>1 DEF Juridica, User
        <4>5. Juridica(req[r]) # None
          BY <4>4
        <4> QED BY <4>1, <4>2, <4>3, <4>5 DEF RowsKept
      <3> QED BY <3>1, <3>2
    <2> QED BY <2>1, <2>2, <2>6, MovesAudited
  <1> QED BY <1>1, <1>2

(* A verdict on its way to the audit is the only one, and is on the row.     *)
LEMMA UpdateAudited ==
  ASSUME IInv, IInv', Audited, NEW r \in Req, Update(r)
  PROVE  Audited'
  <1>0. PICK e : e = req[r].email
    OBVIOUS
  <1>1. req[r].pc = "update" /\ UNCHANGED <<audit, faults, raced>>
    BY DEF Update, On, ghosts
  <1>2. e \in Email
    BY <1>0, <1>1 DEF IInv, Well, EmailPc
  <1>3. CASE FindJuridicaByEmail(e) = None
    <2>1. End(r) /\ UNCHANGED user /\ ~On(r, "audit")
      BY <1>0, <1>1, <1>3 DEF Update, SetVerified, On
    <2>2. Moves(r) /\ RowsKept
      BY <2>1, EndMoves DEF RowsKept
    <2> QED BY <1>1, <2>2, MovesAudited
  <1>4. CASE FindJuridicaByEmail(e) # None
    <2> SUFFICES ASSUME faults = 0, "verdict" \notin raced
                 PROVE  OneVerdict' /\ Written' /\ NoStrangers' /\ Tells'
      BY <1>1 DEF Audited
    <2>1. OneVerdict /\ Written /\ NoStrangers /\ Tells
      BY DEF Audited
    <2>2. Goto(r, "audit") /\ user' = [user EXCEPT ![e].verified = req[r].verdict]
      BY <1>0, <1>4 DEF Update, SetVerified
    <2>3. PICK q \in Request : /\ req' = [req EXCEPT ![r] = q] /\ q.pc = "audit"
                               /\ q.email = e
      BY <1>0, <2>2, GoIs DEF IInv, Pc
    <2>4. req'[r] = q /\ \A s \in Req \ {r} : req'[s] = req[s]
      BY <2>3 DEF IInv, TypeOK
    <2>5. req'[r].verdict = req[r].verdict
      BY <2>2 DEF IInv, TypeOK, Request, Goto
    <2>6. req'[r].pc = "audit" /\ req'[r].email = e
      BY <2>3, <2>4
    <2>7. \A s \in Req : req'[s].pc \in VerdictPc => s = r
      <3>1. req[r].pc \in VerdictPc
        BY <1>1 DEF VerdictPc
      <3> QED BY <2>1, <2>4, <3>1 DEF OneVerdict
    <2>8. OneVerdict'
      BY <2>7 DEF OneVerdict
    <2>9. /\ user'[e].verified = req[r].verdict /\ user'[e].role = user[e].role
          /\ user'[e] \in User /\ user'[e] # None
          /\ \A f \in Email : f # e => user'[f] = user[f]
      <3>1. user[e] \in User
        BY <1>2, <1>4 DEF IInv, TypeOK, FindJuridicaByEmail
      <3>2. req[r].verdict \in BOOLEAN
        BY DEF IInv, TypeOK, Request
      <3> DEFINE row == [user[e] EXCEPT !.verified = req[r].verdict]
      <3>3. row \in User /\ row.verified = req[r].verdict /\ row.role = user[e].role
        BY <3>1, <3>2 DEF User
      <3>4. user' = [user EXCEPT ![e] = row]
        BY <2>2
      <3>5. row # None
        BY <3>3
      <3> HIDE DEF row
      <3>6. user \in [Email -> User \cup {None}]
        BY DEF IInv, TypeOK
      <3>7. user'[e] = row /\ \A f \in Email : f # e => user'[f] = user[f]
        BY <1>2, <3>4, <3>6
      <3> QED BY <3>3, <3>5, <3>7
    <2>10. \A f \in Email : FindJuridicaByEmail(f) # None <=> FindJuridicaByEmail(f)' # None
      <3>1. FindJuridicaByEmail(e)' # None
        BY <1>4, <2>9 DEF FindJuridicaByEmail
      <3>2. \A f \in Email : f # e => FindJuridicaByEmail(f)' = FindJuridicaByEmail(f)
        BY <2>9 DEF FindJuridicaByEmail
      <3> QED BY <1>4, <3>1, <3>2
    <2>11. Written'
      <3> SUFFICES ASSUME NEW s \in Req, req'[s].pc = "audit"
                   PROVE  FindJuridicaByEmail(req[s].email)' # None
                          /\ user'[req'[s].email].verified = req'[s].verdict
        BY DEF Written, On
      <3>1. s = r
        BY <2>7 DEF VerdictPc
      <3> QED BY <1>2, <1>4, <2>5, <2>6, <2>9, <2>10, <3>1
    <2>12. NoStrangers'
      <3>1. audit \in Seq(Event)
        BY DEF IInv, TypeOK
      <3>2. \A i \in DOMAIN audit : audit[i] \in Event
        BY <3>1
      <3>3. \A i \in DOMAIN audit : audit[i].target \in Email
        BY <3>2 DEF Event
      <3> QED BY <1>1, <2>1, <2>10, <3>3 DEF NoStrangers
    <2>13. Tells'
      <3> SUFFICES ASSUME NEW f \in Email, FindJuridicaByEmail(f)' # None
                   PROVE  \/ user'[f].verified = LastVerdict(f)'
                          \/ \E s \in Req : On(s, "audit")' /\ req'[s].email = f
        BY DEF Tells
      <3>1. CASE f = e
        BY <2>6, <3>1 DEF On
      <3>2. CASE f # e
        <4>1. \A s \in Req : ~On(s, "audit")
          BY <1>1, <2>1 DEF OneVerdict, On, VerdictPc
        <4>2. user[f].verified = LastVerdict(f)
          BY <2>1, <2>10, <4>1 DEF Tells
        <4>3. LastVerdict(f)' = LastVerdict(f)
          BY <1>1 DEF LastVerdict
        <4> QED BY <2>9, <3>2, <4>2, <4>3
      <3> QED BY <3>1, <3>2
    <2> QED BY <2>8, <2>11, <2>12, <2>13
  <1> QED BY <1>3, <1>4

(* The event of a verdict becomes the last of its email.                     *)
LEMMA AuditAudited ==
  ASSUME IInv, IInv', Audited, NEW r \in Req, Audit(r)
  PROVE  Audited'
  <1>0. PICK e : e = req[r].email
    OBVIOUS
  <1> DEFINE x == [target |-> e, verified |-> req[r].verdict]
  <1>1. req[r].pc = "audit" /\ UNCHANGED <<user, raced>> /\ e \in Email
    BY <1>0 DEF Audit, On, ghosts, IInv, Well, EmailPc
  <1>2. CASE Fault
    BY <1>2, FaultAudited
  <1>3. CASE ~Fault
    <2>1. audit' = Append(audit, x) /\ UNCHANGED faults /\ (Goto(r, "decrypt") \/ End(r))
      BY <1>0, <1>3 DEF Audit
    <2> SUFFICES ASSUME faults = 0, "verdict" \notin raced
                 PROVE  OneVerdict' /\ Written' /\ NoStrangers' /\ Tells'
      BY <1>1, <2>1 DEF Audited
    <2>2. OneVerdict /\ Written /\ NoStrangers /\ Tells
      BY DEF Audited
    <2>3. req'[r].pc \in {"decrypt", "free"} /\ \A s \in Req \ {r} : req'[s] = req[s]
      <3>1. CASE End(r)
        BY <3>1, FreeWell DEF End, IInv, TypeOK
      <3>2. CASE Goto(r, "decrypt")
        <4>1. PICK q \in Request : req' = [req EXCEPT ![r] = q] /\ q.pc = "decrypt"
          BY <3>2, GoIs DEF IInv, Pc
        <4> QED BY <4>1 DEF IInv, TypeOK
      <3> QED BY <2>1, <3>1, <3>2
    <2>4. \A s \in Req : req'[s].pc \notin VerdictPc
      <3>1. req[r].pc \in VerdictPc
        BY <1>1 DEF VerdictPc
      <3> QED BY <2>2, <2>3, <3>1 DEF OneVerdict, VerdictPc
    <2>5. OneVerdict' /\ Written'
      BY <2>4 DEF OneVerdict, Written, On, VerdictPc
    <2>6. /\ DOMAIN audit' = DOMAIN audit \cup {Len(audit) + 1}
          /\ audit'[Len(audit) + 1] = x
          /\ \A i \in DOMAIN audit : audit'[i] = audit[i] /\ i <= Len(audit) /\ i \in Nat
          /\ Len(audit) \in Nat
      <3>1. audit \in Seq(Event)
        BY DEF IInv, TypeOK
      <3>2. req[r].verdict \in BOOLEAN
        BY DEF IInv, TypeOK, Request
      <3>3. x \in Event
        BY <1>1, <3>2 DEF Event
      <3> HIDE DEF x
      <3>4. Len(audit) \in Nat /\ DOMAIN audit = 1..Len(audit)
        BY <3>1
      <3>5. DOMAIN audit' = 1..(Len(audit) + 1)
        BY <2>1, <3>1, <3>3
      <3>6. \A i \in 1..Len(audit) : audit'[i] = audit[i]
        BY <2>1, <3>1, <3>3
      <3>7. audit'[Len(audit) + 1] = x
        BY <2>1, <3>1, <3>3
      <3>8. 1..(Len(audit) + 1) = 1..Len(audit) \cup {Len(audit) + 1}
        BY <3>4
      <3> QED BY <3>4, <3>5, <3>6, <3>7, <3>8
    <2>7. x.target = e /\ x.verified = req[r].verdict /\ req[r].verdict \in BOOLEAN
      BY DEF IInv, TypeOK, Request
    <2> HIDE DEF x
    <2>8. \A f : FindJuridicaByEmail(f)' = FindJuridicaByEmail(f)
      BY <1>1 DEF FindJuridicaByEmail
    <2>9. FindJuridicaByEmail(e) # None /\ user[e].verified = req[r].verdict
      BY <1>0, <1>1, <2>2 DEF Written, On
    <2>10. NoStrangers'
      BY <2>2, <2>6, <2>7, <2>8, <2>9 DEF NoStrangers
    <2>11. LastVerdict(e)' = req[r].verdict
      <3>1. \A j \in DOMAIN audit' : audit'[j].target = e => j <= Len(audit) + 1
        BY <2>6
      <3>2. CASE req[r].verdict
        BY <2>6, <2>7, <3>1, <3>2 DEF LastVerdict
      <3>3. CASE ~req[r].verdict
        <4> SUFFICES ASSUME NEW i \in DOMAIN audit', audit'[i].target = e, audit'[i].verified,
                            Len(audit) + 1 <= i
                     PROVE  FALSE
          BY <2>6, <2>7, <3>3 DEF LastVerdict
        <4>1. i = Len(audit) + 1
          BY <2>6
        <4> QED BY <2>6, <2>7, <3>3, <4>1
      <3> QED BY <2>7, <3>2, <3>3
    <2>12. \A f \in Email : f # e => LastVerdict(f)' = LastVerdict(f)
      <3> SUFFICES ASSUME NEW f \in Email, f # e PROVE LastVerdict(f)' = LastVerdict(f)
        OBVIOUS
      <3>1. \A i \in DOMAIN audit' : audit'[i].target = f => i \in DOMAIN audit
        BY <2>6, <2>7
      <3> QED BY <2>6, <3>1 DEF LastVerdict
    <2>13. Tells'
      <3> SUFFICES ASSUME NEW f \in Email, FindJuridicaByEmail(f) # None
                   PROVE  user[f].verified = LastVerdict(f)'
        BY <1>1, <2>8 DEF Tells
      <3>1. CASE f = e
        BY <2>9, <2>11, <3>1
      <3>2. CASE f # e
        <4>1. \A s \in Req : On(s, "audit") => s = r
          BY <1>1, <2>2 DEF OneVerdict, On, VerdictPc
        <4> QED BY <1>0, <2>2, <2>12, <3>2, <4>1 DEF Tells
      <3> QED BY <3>1, <3>2
    <2> QED BY <2>5, <2>10, <2>13
  <1> QED BY <1>2, <1>3

(* A verdict that arrives while another is under way is a race.               *)
LEMMA ReceiveAudited ==
  ASSUME IInv, IInv', Audited, NEW kind, NEW q, Receive(kind, q), q \in Request, q.pc # "audit"
  PROVE  Audited'
  <1>1. PICK r \in Req : On(r, "free") /\ req' = [req EXCEPT ![r] = [q EXCEPT !.id = calls']]
    BY DEF Receive
  <1>2. req'[r].pc = q.pc /\ req[r].pc = "free" /\ \A s \in Req \ {r} : req'[s] = req[s]
    BY <1>1 DEF On, IInv, TypeOK, Request
  <1>3. UNCHANGED <<user, audit, faults>> /\ raced \subseteq raced'
    BY DEF Receive, tables
  <1>4. ASSUME faults = 0, "verdict" \notin raced' PROVE OneVerdict'
    <2>1. OneVerdict
      BY <1>3, <1>4 DEF Audited
    <2>2. q.pc \in VerdictPc => \A s \in Req : req[s].pc \notin VerdictPc
      BY <1>4 DEF Receive
    <2> QED BY <1>2, <2>1, <2>2 DEF OneVerdict
  <1>5. \A s \in Req : req[s].pc = "audit" \/ req'[s].pc = "audit" => req'[s] = req[s]
    BY <1>2
  <1>6. CASE faults = 0
    BY <1>3, <1>4, <1>5, <1>6, AuditedKept DEF RowsKept
  <1>7. CASE faults # 0
    BY <1>3, <1>7 DEF Audited
  <1> QED BY <1>6, <1>7

LEMMA ArriveAudited ==
  ASSUME IInv, IInv', Audited, Arrive
  PROVE  Audited'
  <1>1. natural \subseteq Phone
    BY DEF IInv, TypeOK
  <1>2. ASSUME NEW kind, NEW q, Receive(kind, q), q \in Request, q.pc # "audit" PROVE Audited'
    BY <1>2, ReceiveAudited
  <1> USE DEF Free, Request, Pc
  <1>3. ASSUME NEW e \in Email, NEW n \in Nit,
               Receive("register", [Free EXCEPT !.pc = "find", !.email = e, !.nit = n])
        PROVE  Audited'
    BY <1>2, <1>3
  <1>4. ASSUME NEW e \in Email, Receive("resend", [Free EXCEPT !.pc = "signIn", !.email = e])
        PROVE  Audited'
    BY <1>2, <1>4
  <1>5. ASSUME NEW e \in Email, NEW b \in BOOLEAN,
               Receive("verdict", [Free EXCEPT !.pc = "target", !.email = e, !.verdict = b])
        PROVE  Audited'
    BY <1>2, <1>5
  <1>6. ASSUME NEW p \in Phone, Receive("delete", [Free EXCEPT !.pc = "request", !.phone = p])
        PROVE  Audited'
    BY <1>2, <1>6
  <1>7. ASSUME NEW p \in Phone, Receive("send", [Free EXCEPT !.pc = "cool", !.phone = p])
        PROVE  Audited'
    BY <1>2, <1>7
  <1>8. ASSUME NEW p \in Phone, NEW b \in BOOLEAN,
               Receive("verify", [Free EXCEPT !.pc = "read", !.phone = p, !.good = b])
        PROVE  Audited'
    BY <1>2, <1>8
  <1> QED BY <1>1, <1>3, <1>4, <1>5, <1>6, <1>7, <1>8 DEF Arrive

LEMMA AuditedInductive == IInv /\ IInv' /\ Audited /\ [Next]_vars => Audited'
  <1> SUFFICES ASSUME IInv, IInv', Audited, [Next]_vars PROVE Audited'
    OBVIOUS
  <1>0. ASSUME UNCHANGED <<user, audit, req, faults, raced>> PROVE Audited'
    <2>1. CASE faults = 0
      BY <1>0, <2>1, AuditedKept DEF Audited, RowsKept, OneVerdict
    <2>2. CASE faults # 0
      BY <1>0, <2>2 DEF Audited
    <2> QED BY <2>1, <2>2
  <1>1. CASE Arrive
    BY <1>1, ArriveAudited
  <1>2. CASE Crash
    BY <1>2, FaultAudited DEF Crash, Cut
  <1>3. ASSUME NEW r \in Req, CallFails(r) PROVE Audited'
    BY <1>3, FaultAudited DEF CallFails, Cut
  <1>4. ASSUME NEW r \in Req, Create(r) \/ Update(r) \/ Audit(r) PROVE Audited'
    BY <1>4, CreateAudited, UpdateAudited, AuditAudited
  <1>5. ASSUME NEW r \in Req,
               \/ Find(r) \/ SignUp(r) \/ Compensate(r) \/ Confirm(r) \/ SignIn(r) \/ FindRow(r)
               \/ Target(r) \/ NotifyVerified(r) \/ FindOrCreateNatural(r) \/ RequestDeletion(r)
               \/ SendOtp(r) \/ ReadSession(r) \/ DropSession(r) \/ Match(r) \/ SaveSession(r)
               \/ Consume(r)
        PROVE  Audited'
    BY <1>5, QuietSteps, FaultAudited, MovesAudited
  <1>6. ASSUME NEW e \in Email, FollowLink(e) PROVE Audited'
    BY <1>0, <1>6 DEF FollowLink, ghosts
  <1>7. ASSUME NEW p \in Phone, Lapse(p) PROVE Audited'
    BY <1>0, <1>7 DEF Lapse, tables
  <1>8. CASE UNCHANGED vars
    BY <1>0, <1>8 DEF vars
  <1>9. ASSUME NEW r \in Req,
               \/ Register(r) \/ Resend(r) \/ Verdict(r) \/ SendOtp(r) \/ Verify(r)
               \/ RequestDeletion(r) \/ CallFails(r)
        PROVE  Audited'
    BY <1>3, <1>4, <1>5, <1>9 DEF Register, Resend, Verdict, Verify
  <1> QED BY <1>1, <1>2, <1>6, <1>7, <1>8, <1>9 DEF Next

LEMMA AuditedInitially == Init => Audited
  <1> SUFFICES ASSUME Init PROVE OneVerdict /\ Written /\ NoStrangers /\ Tells
    BY DEF Audited
  <1>1. \A r \in Req : req[r].pc = "free"
    BY FreeWell DEF Init
  <1>2. OneVerdict /\ Written
    BY <1>1 DEF OneVerdict, Written, On, VerdictPc
  <1>3. DOMAIN audit = {}
    BY DEF Init
  <1>4. \A e \in Email : FindJuridicaByEmail(e) = None
    BY DEF Init, FindJuridicaByEmail, AdminRow
  <1> QED BY <1>2, <1>3, <1>4 DEF NoStrangers, Tells

(* While no call fails and verdicts do not overlap, the row of a JURIDICA     *)
(* shows the last verdict audited for it, except while the request that wrote *)
(* the row is about to audit it; one that was never judged is unverified      *)
(* (AdminJuridicaService.setVerified), for any number of accounts and          *)
(* verdicts.                                                                  *)
THEOREM AuditsTell == Spec => []AuditTells
  <1>1. Audited => AuditTells
    BY DEF Audited, AuditTells, Tells
  <1>2. Spec => []Audited
    BY AuditedInitially, AuditedInductive, Always, PTL DEF Spec
  <1> QED BY <1>1, <1>2, PTL
===============================================================================
