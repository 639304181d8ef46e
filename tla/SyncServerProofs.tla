-------------------------- MODULE SyncServerProofs --------------------------
(***************************************************************************)
(* What POST /sync guarantees for every number of requests, operations,    *)
(* users, crashes and failures: the outcome of an operation is decided     *)
(* once, told as it was decided, and never ahead of the database; a post   *)
(* keeps its author, a message is notified once and devices that race to   *)
(* open a conversation open one.  Requests that do not overlap also keep   *)
(* last write wins, and the losers leave no trace.                         *)
(***************************************************************************)
EXTENDS SyncServer, TLAPS, FiniteSetTheorems

(***************************************************************************)
(* What a request in flight knows, given the op log L and the writes W that *)
(* took effect.  It is what makes the invariants inductive: the outcomes it *)
(* will answer are the persisted ones, and it is about to stamp, notify or  *)
(* persist "applied" only what it wrote.                                    *)
(***************************************************************************)
Working(q) == q.pc \notin {"idle", "delta"}
LwwPc  == {"clock", "own", "write", "stamp"}
TalkPc == {"post", "pair", "create", "raced"}
MsgPc  == {"member", "add", "notify"}

Shaped(q) ==
    /\ Working(q) => q.todo # << >> /\ q.user \in User
    /\ \A i \in DOMAIN q.todo : q.user \in Senders[q.todo[i]]
    /\ q.pc \in LwwPc => OpKind[Head(q.todo)] \in LwwKind
    /\ q.pc \in TalkPc => OpKind[Head(q.todo)] = "conversation"
    /\ q.pc \in {"pair", "create", "raced"} => q.peer \in User
    /\ q.pc \in MsgPc => OpKind[Head(q.todo)] = "message"
    /\ q.pc \in {"save", "refind"} => q.out \in Result

Truthful(q, W) ==
    LET o == Head(q.todo) IN
    /\ q.pc \in {"stamp", "notify"} => o \in W
    /\ (/\ q.pc \in {"save", "refind"}
        /\ q.out.status = "applied"
        /\ OpKind[o] # "conversation") => o \in W

Heard(o, x, L) ==
    /\ L[o] # None
    /\ x = L[o].res \/ (x = Rejected(o) /\ \E u \in Senders[o] : u # L[o].user)

Sound(q, L, W) ==
    /\ Shaped(q)
    /\ Truthful(q, W)
    /\ \A o \in Op, x \in Result : <<o, x>> \in q.done => Heard(o, x, L)

\* A stored message was written by the operation that carries its id.
MessagesWritten ==
    \A i \in Id : msg[i] # None =>
        \E o \in written : OpKind[o] = "message" /\ OpId[o] = i

IInv ==
    /\ TypeOK
    /\ \A r \in Req : Sound(req[r], log, written)
    /\ MessagesWritten
    /\ OneAnswer
    /\ AppliedWasWritten
    /\ ClockNamesAWrite

USE ConstantsAssumption

(* What the stores make of a table is always looked into. *)
USE DEF Parsed, Replay, Upserted, Version, Stamped, Duplicate, Created, Added, Logged

----------------------------------------------------------------------------
(* The parts of a request *)

\* What a request knows survives any step that only adds to the log and the writes.
LEMMA SoundGrows ==
    ASSUME NEW q, NEW L, NEW L2, NEW W, NEW W2,
           Sound(q, L, W), W \subseteq W2,
           \A o \in Op : L[o] # None => L2[o] = L[o]
    PROVE  Sound(q, L2, W2)
  BY DEF Sound, Shaped, Truthful, Heard, Working

LEMMA KeyInKeys ==
    ASSUME NEW o \in Op, NEW u \in User, OpKind[o] \in LwwKind
    PROVE  KeyOf(o, u) \in Keys
  BY DEF Keys, LwwOp

LEMMA HeadInOp ==
    ASSUME NEW q \in Request, Shaped(q), Working(q)
    PROVE  /\ Head(q.todo) \in Op /\ q.user \in User
           /\ q.user \in Senders[Head(q.todo)]
           /\ Tail(q.todo) \in Seq(Op)
           /\ \A i \in DOMAIN Tail(q.todo) : q.user \in Senders[Tail(q.todo)[i]]
           /\ Len(q.todo) > 1 => Tail(q.todo) # << >>
  <1>1. q.todo \in Seq(Op) /\ q.todo # << >>
    BY DEF Request, Shaped
  <1>2. Len(q.todo) \in Nat \ {0} /\ DOMAIN q.todo = 1..Len(q.todo) /\ Head(q.todo) = q.todo[1]
    BY <1>1
  <1>3. /\ Tail(q.todo) \in Seq(Op) /\ Len(Tail(q.todo)) = Len(q.todo) - 1
        /\ \A i \in DOMAIN Tail(q.todo) : i + 1 \in DOMAIN q.todo /\ Tail(q.todo)[i] = q.todo[i + 1]
    BY <1>1, <1>2
  <1> QED BY <1>1, <1>2, <1>3 DEF Shaped

\* A stable log: the only entries that change are the missing ones.
Grows == /\ \A o \in Op : log[o] # None => log'[o] = log[o]
         /\ written \subseteq written'

\* A step of one request: the others know what they knew.
LEMMA OneRequest ==
    ASSUME IInv, NEW r \in Req, NEW q \in Request, Sound(q, log', written'),
           req' = [req EXCEPT ![r] = q], Grows
    PROVE  req' \in [Req -> Request] /\ \A s \in Req : Sound(req'[s], log', written')
  <1>1. req \in [Req -> Request]
    BY DEF IInv, TypeOK
  <1>2. req' \in [Req -> Request]
    BY <1>1
  <1>3. ASSUME NEW s \in Req, s # r PROVE Sound(req'[s], log', written')
    <2>1. Sound(req[s], log, written) /\ req'[s] = req[s]
      BY <1>1, <1>3 DEF IInv
    <2> QED BY <2>1, SoundGrows DEF Grows
  <1> QED BY <1>1, <1>2, <1>3

----------------------------------------------------------------------------
(* The ways a step moves its request *)

ReqsSound == req \in [Req -> Request] /\ \A s \in Req : Sound(req[s], log, written)

LEMMA IdleSound ==
    ASSUME NEW L, NEW W
    PROVE  Idle \in Request /\ Sound(Idle, L, W)
  <1>1. << >> \in Seq(Op) /\ DOMAIN << >> = {}
    OBVIOUS
  <1>2. Idle \in Request
    BY <1>1 DEF Idle, Slot, Request, Pc
  <1> QED BY <1>1, <1>2 DEF Idle, Slot, Sound, Shaped, Truthful, Heard, Working, LwwPc, TalkPc, MsgPc

LEMMA GotoStep ==
    ASSUME IInv, Grows, NEW r \in Req, NEW p \in Pc, Goto(r, p),
           Shaped([req[r] EXCEPT !.pc = p]), Truthful([req[r] EXCEPT !.pc = p], written')
    PROVE  ReqsSound'
  <1> DEFINE q == [req[r] EXCEPT !.pc = p]
  <1>1. req[r] \in Request /\ Sound(req[r], log, written)
    BY DEF IInv, TypeOK
  <1>2. q \in Request /\ q.done = req[r].done
    BY <1>1 DEF Request
  <1>3. req' = [req EXCEPT ![r] = q]
    BY DEF Goto
  <1>4. Sound(req[r], log', written')
    BY <1>1, SoundGrows DEF Grows
  <1>5. Sound(q, log', written')
    BY <1>2, <1>4 DEF Sound
  <1> QED BY <1>2, <1>3, <1>5, OneRequest DEF ReqsSound

\* A handler ends with an outcome to persist.
LEMMA FinishStep ==
    ASSUME IInv, Grows, NEW r \in Req, Working(req[r]), NEW x \in Result, Finish(r, x),
           (x.status = "applied" /\ OpKind[Cur(r)] # "conversation") => Cur(r) \in written'
    PROVE  ReqsSound'
  <1> DEFINE q == [req[r] EXCEPT !.pc = "save", !.out = x]
  <1>1. req[r] \in Request /\ Sound(req[r], log, written)
    BY DEF IInv, TypeOK
  <1>2. /\ q \in Request /\ q.done = req[r].done /\ q.todo = req[r].todo
        /\ q.pc = "save" /\ q.out = x /\ q.user = req[r].user
    BY <1>1 DEF Request, Pc
  <1>3. req' = [req EXCEPT ![r] = q]
    BY DEF Finish
  <1>4. Sound(req[r], log', written')
    BY <1>1, SoundGrows DEF Grows
  <1>5. Shaped(q) /\ Truthful(q, written')
    BY <1>1, <1>2 DEF Sound, Shaped, Truthful, Working, LwwPc, TalkPc, MsgPc, Cur
  <1>6. Sound(q, log', written')
    BY <1>2, <1>4, <1>5 DEF Sound
  <1> QED BY <1>2, <1>3, <1>6, OneRequest DEF ReqsSound

LEMMA RejectedResult ==
    ASSUME NEW o \in Op
    PROVE  Rejected(o) \in Result /\ Rejected(o).status = "rejected"
  BY DEF Rejected, Result, Status, Ref

LEMMA AppliedResult ==
    ASSUME NEW o \in Op, NEW i \in Id
    PROVE  Applied(o, i) \in Result
  BY DEF Applied, Result, Status, Ref

LEMMA CaughtStep ==
    ASSUME IInv, Grows, NEW r \in Req, Working(req[r]), Caught(r)
    PROVE  ReqsSound'
  <1> DEFINE x == Rejected(Cur(r))
             q == [req[r] EXCEPT !.pc = "save", !.out = x, !.last = TRUE]
  <1>1. req[r] \in Request /\ Sound(req[r], log, written)
    BY DEF IInv, TypeOK
  <1>2. x \in Result /\ x.status = "rejected"
    BY <1>1, HeadInOp, RejectedResult DEF Sound, Cur
  <1>3. /\ q \in Request /\ q.done = req[r].done /\ q.todo = req[r].todo
        /\ q.pc = "save" /\ q.out = x /\ q.user = req[r].user
    BY <1>1, <1>2 DEF Request, Pc
  <1>4. req' = [req EXCEPT ![r] = q]
    BY DEF Caught
  <1>5. Sound(req[r], log', written')
    BY <1>1, SoundGrows DEF Grows
  <1>6. Shaped(q) /\ Truthful(q, written')
    BY <1>1, <1>2, <1>3 DEF Sound, Shaped, Truthful, Working, LwwPc, TalkPc, MsgPc
  <1>7. Sound(q, log', written')
    BY <1>3, <1>5, <1>6 DEF Sound
  <1> QED BY <1>3, <1>4, <1>7, OneRequest DEF ReqsSound

LEMMA AbortStep ==
    ASSUME IInv, Grows, NEW r \in Req, Abort(r)
    PROVE  ReqsSound'
  BY IdleSound, OneRequest DEF Abort, ReqsSound

\* applyOne returns an outcome that agrees with the log.
LEMMA ReturnStep ==
    ASSUME IInv, Grows, NEW r \in Req, Working(req[r]), NEW x \in Result, Return(r, x),
           Heard(Cur(r), x, log')
    PROVE  ReqsSound'
  <1> DEFINE p == IF Len(req[r].todo) > 1 THEN "find" ELSE "delta"
             q == Slot(p, Sub(r), req[r].at, Tail(req[r].todo),
                       req[r].done \cup {<<Cur(r), x>>})
  <1>1. req[r] \in Request /\ Sound(req[r], log, written)
    BY DEF IInv, TypeOK
  <1>2. /\ Cur(r) \in Op /\ Sub(r) \in User
        /\ Tail(req[r].todo) \in Seq(Op)
        /\ \A i \in DOMAIN Tail(req[r].todo) : Sub(r) \in Senders[Tail(req[r].todo)[i]]
        /\ p = "find" => Tail(req[r].todo) # << >>
    BY <1>1, HeadInOp DEF Sound, Cur, Sub
  <1>3. p \in Pc /\ p \in {"find", "delta"}
    BY DEF Pc
  <1>4. req[r].done \cup {<<Cur(r), x>>} \in SUBSET (Op \X Result)
    BY <1>1, <1>2 DEF Request
  <1>5. /\ q \in Request
        /\ q.pc = p /\ q.user = Sub(r) /\ q.todo = Tail(req[r].todo)
        /\ q.done = req[r].done \cup {<<Cur(r), x>>}
    <2>1. req[r].at \in Nat
      BY <1>1 DEF Request
    <2> QED BY <2>1, <1>2, <1>3, <1>4 DEF Slot, Request
  <1>6. req' = [req EXCEPT ![r] = q]
    BY DEF Return
  <1>7. Sound(req[r], log', written')
    BY <1>1, SoundGrows DEF Grows
  <1> HIDE DEF p, q
  <1>8. Shaped(q) /\ Truthful(q, written')
    <2>1. Shaped(q)
      BY <1>2, <1>3, <1>5 DEF Shaped, Working, LwwPc, TalkPc, MsgPc
    <2>2. Truthful(q, written')
      BY <1>3, <1>5 DEF Truthful
    <2> QED BY <2>1, <2>2
  <1>9. \A o \in Op, y \in Result : <<o, y>> \in q.done => Heard(o, y, log')
    BY <1>5, <1>7 DEF Sound
  <1>10. Sound(q, log', written')
    BY <1>8, <1>9 DEF Sound
  <1> QED BY <1>5, <1>6, <1>10, OneRequest DEF ReqsSound

----------------------------------------------------------------------------
(* The steps *)

LEMMA StoreKept ==
    ASSUME IInv, ReqsSound', UNCHANGED <<store, others>>
    PROVE  IInv'
  BY DEF IInv, TypeOK, ReqsSound, store, others, MessagesWritten, OneAnswer,
         AppliedWasWritten, ClockNamesAWrite

LEMMA NoChangeGrows ==
    ASSUME UNCHANGED <<log, written>>
    PROVE  Grows
  BY DEF Grows

\* What a handler at one of its steps may rely on.
LEMMA AtStep ==
    ASSUME IInv, NEW r \in Req, Working(req[r])
    PROVE  /\ req[r] \in Request /\ Shaped(req[r]) /\ Truthful(req[r], written)
           /\ Cur(r) \in Op /\ Sub(r) \in User /\ Sub(r) \in Senders[Cur(r)]
           /\ OpId[Cur(r)] \in Id
           /\ Rejected(Cur(r)) \in Result /\ Rejected(Cur(r)).status = "rejected"
           /\ \A i \in Id : Applied(Cur(r), i) \in Result
           /\ OpKind[Cur(r)] \in LwwKind => KeyAt(r) \in Keys
  <1>1. req[r] \in Request /\ Sound(req[r], log, written)
    BY DEF IInv, TypeOK
  <1>2. Cur(r) \in Op /\ Sub(r) \in User /\ Sub(r) \in Senders[Cur(r)]
    BY <1>1, HeadInOp DEF Sound, Cur, Sub
  <1> QED BY <1>1, <1>2, RejectedResult, AppliedResult, KeyInKeys DEF Sound, KeyAt

LEMMA FindOpStep ==
    ASSUME IInv, NEW r \in Req, FindOp(r)
    PROVE  IInv'
  <1>1. Working(req[r]) /\ UNCHANGED <<store, others>> /\ Grows
    BY NoChangeGrows DEF FindOp, At, Working, store, others
  <1>2. Cur(r) \in Op /\ Sub(r) \in Senders[Cur(r)]
    BY <1>1, AtStep
  <1>3. CASE log[Cur(r)] # None
    <2> DEFINE x == IF log[Cur(r)].user = Sub(r) THEN log[Cur(r)].res ELSE Rejected(Cur(r))
    <2>1. Return(r, x)
      BY <1>3 DEF FindOp
    <2>2. log[Cur(r)] \in Entry
      BY <1>2, <1>3 DEF IInv, TypeOK
    <2>3. x \in Result
      BY <2>2, <1>2, RejectedResult DEF Entry
    <2>4. Heard(Cur(r), x, log')
      BY <1>1, <1>2, <1>3 DEF Heard, store
    <2> HIDE DEF x
    <2>5. ReqsSound'
      BY <1>1, <2>1, <2>3, <2>4, ReturnStep
    <2> QED BY <2>5, <1>1, StoreKept
  <1>4. CASE log[Cur(r)] = None /\ Cur(r) \in BadTs
    <2>1. ReqsSound'
      BY <1>1, <1>4, CaughtStep DEF FindOp
    <2> QED BY <2>1, <1>1, StoreKept
  <1>5. CASE log[Cur(r)] = None /\ Cur(r) \notin BadTs /\ Goto(r, "read")
    <2>1. Shaped([req[r] EXCEPT !.pc = "read"]) /\ Truthful([req[r] EXCEPT !.pc = "read"], written')
      BY <1>1, AtStep DEF Shaped, Truthful, Working, LwwPc, TalkPc, MsgPc, Request
    <2>2. ReqsSound'
      BY <1>1, <1>5, <2>1, GotoStep DEF Pc
    <2> QED BY <2>2, <1>1, StoreKept
  <1>6. CASE log[Cur(r)] = None /\ Cur(r) \notin BadTs /\ Finish(r, Rejected(Cur(r)))
    <2>1. ReqsSound'
      BY <1>1, <1>2, <1>6, FinishStep, RejectedResult
    <2> QED BY <2>1, <1>1, StoreKept
  <1> QED BY <1>3, <1>4, <1>5, <1>6 DEF FindOp, Dispatch

LEMMA ReadStep ==
    ASSUME IInv, NEW r \in Req, Read(r)
    PROVE  IInv'
  <1>1. Working(req[r]) /\ UNCHANGED <<store, others>> /\ Grows
    BY NoChangeGrows DEF Read, At, Working, store, others
  <1>2. Cur(r) \in Op /\ KeyAt(r) \in Keys /\ OpKind[Cur(r)] \in LwwKind
    BY <1>1, AtStep DEF Read
  <1> DEFINE found == row[KeyAt(r)]
             q == [req[r] EXCEPT !.pc = "clock", !.found = found]
  <1>3. CASE Finish(r, Rejected(Cur(r)))
    BY <1>1, <1>2, <1>3, FinishStep, RejectedResult, StoreKept
  <1>4. CASE req' = [req EXCEPT ![r] = q]
    <2>1. found \in Row \cup {None}
      BY <1>2 DEF IInv, TypeOK
    <2>2. /\ q \in Request /\ q.pc = "clock" /\ q.todo = req[r].todo /\ q.user = req[r].user
          /\ q.done = req[r].done
      <3>1. req[r] \in Request
        BY <1>1, AtStep
      <3>2. "clock" \in Pc
        BY DEF Pc
      <3> HIDE DEF found
      <3> QED BY <2>1, <3>1, <3>2 DEF Request
    <2>3. Shaped(q) /\ Truthful(q, written')
      BY <1>1, <1>2, <2>2, AtStep DEF Shaped, Truthful, Working, LwwPc, TalkPc, MsgPc, Cur
    <2>4. Sound(req[r], log', written')
      BY <1>1, SoundGrows DEF IInv, Grows
    <2>5. Sound(q, log', written')
      BY <2>2, <2>3, <2>4 DEF Sound
    <2>6. ReqsSound'
      BY <1>1, <1>4, <2>2, <2>5, OneRequest DEF ReqsSound
    <2> QED BY <2>6, <1>1, StoreKept
  <1>5. req' = [req EXCEPT ![r].pc = "clock", ![r].found = found] => req' = [req EXCEPT ![r] = q]
    OBVIOUS
  <1> QED BY <1>3, <1>4, <1>5 DEF Read

LEMMA DecideStep ==
    ASSUME IInv, NEW r \in Req, Decide(r)
    PROVE  IInv'
  <1>1. Working(req[r]) /\ UNCHANGED <<store, others>> /\ Grows
    BY NoChangeGrows DEF Decide, At, Working, store, others
  <1>2. /\ Cur(r) \in Op /\ OpId[Cur(r)] \in Id /\ OpKind[Cur(r)] \in LwwKind
        /\ req[r] \in Request /\ Shaped(req[r])
    BY <1>1, AtStep DEF Decide, At, Shaped, LwwPc, Cur
  <1> DEFINE d == DecideLww(OpTs[Cur(r)], clock[KeyAt(r)], req[r].at)
             found == req[r].found
             x == [status |-> d, ref |-> OpId[Cur(r)],
                   rec |-> IF found = None THEN NoOp ELSE found.by]
  <1>3. CASE d # "apply"
    <2>1. Finish(r, x)
      BY <1>3 DEF Decide
    <2>2. d \in {"rejected", "conflict"}
      BY <1>3 DEF DecideLww
    <2>3. (IF found = None THEN NoOp ELSE found.by) \in Ref
      BY <1>2 DEF Request, Row, Ref
    <2>4. x \in Result /\ x.status # "applied"
      BY <1>2, <2>2, <2>3 DEF Result, Status
    <2> HIDE DEF x
    <2> QED BY <1>1, <2>1, <2>4, FinishStep, StoreKept
  <1>4. ASSUME NEW p \in {"own", "write"}, Goto(r, p)
        PROVE  IInv'
    <2>1. Shaped([req[r] EXCEPT !.pc = p]) /\ Truthful([req[r] EXCEPT !.pc = p], written')
      BY <1>1, <1>2 DEF Shaped, Truthful, Working, LwwPc, TalkPc, MsgPc, Request, Cur
    <2>2. p \in Pc
      BY DEF Pc
    <2> QED BY <1>1, <1>4, <2>1, <2>2, GotoStep, StoreKept
  <1> QED BY <1>3, <1>4 DEF Decide

LEMMA OwnStep ==
    ASSUME IInv, NEW r \in Req, Own(r)
    PROVE  IInv'
  <1>1. Working(req[r]) /\ UNCHANGED <<store, others>> /\ Grows
    BY NoChangeGrows DEF Own, At, Working, store, others
  <1>2. Cur(r) \in Op /\ req[r] \in Request /\ Shaped(req[r])
    BY <1>1, AtStep
  <1>3. CASE Goto(r, "write")
    <2>1. /\ Shaped([req[r] EXCEPT !.pc = "write"])
          /\ Truthful([req[r] EXCEPT !.pc = "write"], written')
      BY <1>1, <1>2 DEF Own, At, Shaped, Truthful, Working, LwwPc, TalkPc, MsgPc, Request, Cur
    <2> QED BY <1>1, <1>3, <2>1, GotoStep, StoreKept DEF Pc
  <1>4. CASE Finish(r, Rejected(Cur(r)))
    BY <1>1, <1>2, <1>4, FinishStep, RejectedResult, StoreKept
  <1> QED BY <1>3, <1>4 DEF Own

LEMMA WriteStep ==
    ASSUME IInv, NEW r \in Req, Write(r)
    PROVE  IInv'
  <1>1. /\ Working(req[r]) /\ At(r, "write")
        /\ UNCHANGED <<log, clock, conv, msg, notified, now, answers, sends, spent>>
    BY DEF Write, At, Working
  <1>2. /\ Cur(r) \in Op /\ KeyAt(r) \in Keys /\ Sub(r) \in User /\ OpKind[Cur(r)] \in LwwKind
        /\ req[r] \in Request /\ Shaped(req[r])
    BY <1>1, AtStep DEF At, Shaped, LwwPc, Cur
  <1>3. CASE CanWrite(r)
    <2>1. /\ row' = [row EXCEPT ![KeyAt(r)] = Written(KeyAt(r), Sub(r), Cur(r))]
          /\ written' = written \cup {Cur(r)}
          /\ Goto(r, "stamp")
      BY <1>3 DEF Write
    <2>2. Grows
      BY <1>1, <2>1 DEF Grows
    <2>3. Shaped([req[r] EXCEPT !.pc = "stamp"]) /\ Truthful([req[r] EXCEPT !.pc = "stamp"], written')
      BY <1>1, <1>2, <2>1 DEF At, Shaped, Truthful, Working, LwwPc, TalkPc, MsgPc, Request, Cur
    <2>4. ReqsSound'
      BY <2>1, <2>2, <2>3, GotoStep DEF Pc
    <2>5. row \in [Keys -> Row \cup {None}]
      BY DEF IInv, TypeOK
    <2>6. Written(KeyAt(r), Sub(r), Cur(r)) \in Row \cup {None}
      <3>1. Written(KeyAt(r), Sub(r), Cur(r)).owner \in User \/ row[KeyAt(r)] = None
        BY <1>2, <2>5 DEF Written, Row
      <3> QED BY <1>2, <2>5, <3>1 DEF Written, Row
    <2>7. row' \in [Keys -> Row \cup {None}]
      BY <1>2, <2>1, <2>5, <2>6
    <2>8. TypeOK'
      BY <1>1, <1>2, <2>1, <2>4, <2>7 DEF IInv, TypeOK, ReqsSound
    <2> QED BY <1>1, <2>1, <2>4, <2>8 DEF IInv, ReqsSound, MessagesWritten, OneAnswer,
                                         AppliedWasWritten, ClockNamesAWrite
  <1>4. CASE ~CanWrite(r)
    <2>1. (Caught(r) \/ Finish(r, Rejected(Cur(r)))) /\ UNCHANGED <<store, others>>
      BY <1>1, <1>4 DEF Write, store, others
    <2>2. Grows
      BY <2>1, NoChangeGrows DEF store, others
    <2> QED BY <1>1, <1>2, <2>1, <2>2, CaughtStep, FinishStep, RejectedResult, StoreKept
  <1> QED BY <1>3, <1>4

LEMMA StampStep ==
    ASSUME IInv, NEW r \in Req, Stamp(r)
    PROVE  IInv'
  <1>1. /\ Working(req[r]) /\ At(r, "stamp")
        /\ UNCHANGED <<log, row, conv, msg, notified, now, written, answers, sends, spent>>
        /\ clock' = [clock EXCEPT ![KeyAt(r)] = OpTs[Cur(r)]]
        /\ Finish(r, Applied(Cur(r), OpId[Cur(r)]))
    BY DEF Stamp, At, Working, others
  <1>2. /\ Cur(r) \in Op /\ KeyAt(r) \in Keys /\ Sub(r) \in User /\ Sub(r) \in Senders[Cur(r)]
        /\ OpKind[Cur(r)] \in LwwKind /\ Cur(r) \in written
        /\ Applied(Cur(r), OpId[Cur(r)]) \in Result
    BY <1>1, AtStep DEF At, Shaped, Truthful, LwwPc, Cur
  <1>3. Grows
    BY <1>1, NoChangeGrows
  <1>4. ReqsSound'
    BY <1>1, <1>2, <1>3, FinishStep
  <1>5. OpTs[Cur(r)] \in Nat \ {0}
    BY <1>2
  <1>6. TypeOK'
    BY <1>1, <1>2, <1>4, <1>5 DEF IInv, TypeOK, ReqsSound
  <1>7. ClockNamesAWrite'
    <2> SUFFICES ASSUME NEW k \in Keys, clock'[k] # 0
                 PROVE  \E o \in written' \cap LwwOp :
                          /\ OpTs[o] = clock'[k]
                          /\ \E u \in Senders[o] : KeyOf(o, u) = k
      BY DEF ClockNamesAWrite
    <2>1. CASE k = KeyAt(r)
      <3>1. clock'[k] = OpTs[Cur(r)]
        BY <1>1, <2>1 DEF IInv, TypeOK
      <3> QED BY <1>1, <1>2, <2>1, <3>1 DEF LwwOp, KeyAt
    <2>2. CASE k # KeyAt(r)
      <3>1. clock'[k] = clock[k]
        BY <1>1, <2>2 DEF IInv, TypeOK
      <3> QED BY <1>1, <3>1 DEF IInv, ClockNamesAWrite
    <2> QED BY <2>1, <2>2
  <1> QED BY <1>1, <1>4, <1>6, <1>7 DEF IInv, ReqsSound, MessagesWritten, OneAnswer, AppliedWasWritten

LEMMA ReadConversationStep ==
    ASSUME IInv, NEW r \in Req, ReadConversation(r)
    PROVE  IInv'
  <1>1. /\ Working(req[r]) /\ UNCHANGED <<store, others>> /\ Grows
        /\ OpKind[Cur(r)] = "conversation"
    BY NoChangeGrows DEF ReadConversation, At, Working, store, others
  <1>2. /\ Cur(r) \in Op /\ OpId[Cur(r)] \in Id /\ req[r] \in Request /\ Shaped(req[r])
        /\ Applied(Cur(r), OpId[Cur(r)]) \in Result /\ Rejected(Cur(r)) \in Result
        /\ Rejected(Cur(r)).status = "rejected"
    BY <1>1, AtStep
  <1>3. CASE Goto(r, "post")
    <2>1. Shaped([req[r] EXCEPT !.pc = "post"]) /\ Truthful([req[r] EXCEPT !.pc = "post"], written')
      BY <1>1, <1>2 DEF Shaped, Truthful, Working, LwwPc, TalkPc, MsgPc, Request, Cur
    <2> QED BY <1>1, <1>3, <2>1, GotoStep, StoreKept DEF Pc
  <1>4. CASE Finish(r, Applied(Cur(r), OpId[Cur(r)]))
    BY <1>1, <1>2, <1>4, FinishStep, StoreKept
  <1>5. CASE Finish(r, Rejected(Cur(r)))
    BY <1>1, <1>2, <1>5, FinishStep, StoreKept
  <1> QED BY <1>3, <1>4, <1>5 DEF ReadConversation

LEMMA StartPostStep ==
    ASSUME IInv, NEW r \in Req, StartPost(r)
    PROVE  IInv'
  <1>1. /\ Working(req[r]) /\ UNCHANGED <<store, others>> /\ Grows /\ At(r, "post")
    BY NoChangeGrows DEF StartPost, At, Working, store, others
  <1>2. /\ Cur(r) \in Op /\ OpKind[Cur(r)] = "conversation" /\ req[r] \in Request /\ Shaped(req[r])
    BY <1>1, AtStep DEF At, Shaped, TalkPc, Cur
  <1> DEFINE post == row[PostKey(PostOf(r))]
             q == [req[r] EXCEPT !.pc = "pair", !.peer = post.owner]
  <1>3. CASE Caught(r)
    BY <1>1, <1>3, CaughtStep, StoreKept
  <1>4. CASE post # None /\ req' = [req EXCEPT ![r] = q]
    <2>1. PostKey(PostOf(r)) \in Keys
      BY <1>2 DEF Keys, PostOf
    <2>2. post.owner \in User
      BY <1>4, <2>1 DEF IInv, TypeOK, Row
    <2>3. /\ q \in Request /\ q.pc = "pair" /\ q.todo = req[r].todo /\ q.user = req[r].user
          /\ q.done = req[r].done /\ q.peer \in User
      BY <1>2, <2>2 DEF Request, Pc
    <2>4. Shaped(q) /\ Truthful(q, written')
      BY <1>1, <1>2, <2>3 DEF Shaped, Truthful, Working, LwwPc, TalkPc, MsgPc, Cur
    <2>5. Sound(req[r], log', written')
      BY <1>1, SoundGrows DEF IInv, Grows
    <2>6. Sound(q, log', written')
      BY <2>3, <2>4, <2>5 DEF Sound
    <2>7. ReqsSound'
      BY <1>1, <1>4, <2>3, <2>6, OneRequest DEF ReqsSound
    <2> QED BY <2>7, <1>1, StoreKept
  <1>5. req' = [req EXCEPT ![r].pc = "pair", ![r].peer = post.owner] => req' = [req EXCEPT ![r] = q]
    OBVIOUS
  <1> QED BY <1>3, <1>4, <1>5 DEF StartPost

LEMMA StartFindStep ==
    ASSUME IInv, NEW r \in Req, StartFind(r)
    PROVE  IInv'
  <1>1. /\ Working(req[r]) /\ UNCHANGED <<store, others>> /\ Grows /\ At(r, "pair")
    BY NoChangeGrows DEF StartFind, At, Working, store, others
  <1>2. /\ Cur(r) \in Op /\ OpKind[Cur(r)] = "conversation" /\ req[r] \in Request /\ Shaped(req[r])
        /\ \A i \in Id : Applied(Cur(r), i) \in Result
    BY <1>1, AtStep DEF At, Shaped, TalkPc, Cur
  <1>3. CASE Goto(r, "create")
    <2>1. /\ Shaped([req[r] EXCEPT !.pc = "create"])
          /\ Truthful([req[r] EXCEPT !.pc = "create"], written')
      BY <1>1, <1>2 DEF At, Shaped, Truthful, Working, LwwPc, TalkPc, MsgPc, Request, Cur
    <2> QED BY <1>1, <1>3, <2>1, GotoStep, StoreKept DEF Pc
  <1>4. ASSUME NEW c \in Id, Finish(r, Applied(Cur(r), c))
        PROVE  IInv'
    BY <1>1, <1>2, <1>4, FinishStep, StoreKept
  <1> QED BY <1>3, <1>4 DEF StartFind, Pair

LEMMA StartCreateStep ==
    ASSUME IInv, NEW r \in Req, StartCreate(r)
    PROVE  IInv'
  <1>1. /\ Working(req[r]) /\ At(r, "create")
        /\ UNCHANGED <<log, row, clock, msg, notified, now, answers, sends, spent>>
    BY DEF StartCreate, At, Working
  <1>2. /\ Cur(r) \in Op /\ OpKind[Cur(r)] = "conversation" /\ req[r] \in Request /\ Shaped(req[r])
        /\ OpId[Cur(r)] \in Id /\ Applied(Cur(r), OpId[Cur(r)]) \in Result
        /\ Sub(r) \in User /\ PostOf(r) \in Id /\ req[r].peer \in User
    BY <1>1, AtStep DEF At, Shaped, TalkPc, Cur, PostOf
  <1>3. CASE Goto(r, "raced") /\ UNCHANGED <<conv, written>>
    <2>1. Grows /\ UNCHANGED <<store, others>>
      BY <1>1, <1>3, NoChangeGrows DEF store, others
    <2>2. /\ Shaped([req[r] EXCEPT !.pc = "raced"])
          /\ Truthful([req[r] EXCEPT !.pc = "raced"], written')
      BY <1>1, <1>2 DEF At, Shaped, Truthful, Working, LwwPc, TalkPc, MsgPc, Request, Cur
    <2> QED BY <1>3, <2>1, <2>2, GotoStep, StoreKept DEF Pc
  <1>4. CASE Caught(r) /\ UNCHANGED <<conv, written>>
    <2>1. Grows /\ UNCHANGED <<store, others>>
      BY <1>1, <1>4, NoChangeGrows DEF store, others
    <2> QED BY <1>1, <1>4, <2>1, CaughtStep, StoreKept
  <1>5. CASE /\ conv' = [conv EXCEPT ![OpId[Cur(r)]] =
                           [post |-> PostOf(r), initiator |-> Sub(r), peer |-> req[r].peer]]
             /\ written' = written \cup {Cur(r)}
             /\ Finish(r, Applied(Cur(r), OpId[Cur(r)]))
    <2>1. Grows
      BY <1>1, <1>5 DEF Grows
    <2>2. ReqsSound'
      BY <1>1, <1>2, <1>5, <2>1, FinishStep
    <2>3. conv' \in [Id -> Conv \cup {None}]
      BY <1>2, <1>5 DEF IInv, TypeOK, Conv
    <2>4. TypeOK'
      BY <1>1, <1>2, <1>5, <2>2, <2>3 DEF IInv, TypeOK, ReqsSound
    <2> QED BY <1>1, <1>5, <2>2, <2>4 DEF IInv, ReqsSound, MessagesWritten, OneAnswer,
                                         AppliedWasWritten, ClockNamesAWrite
  <1> QED BY <1>3, <1>4, <1>5 DEF StartCreate

LEMMA StartRacedStep ==
    ASSUME IInv, NEW r \in Req, StartRaced(r)
    PROVE  IInv'
  <1>1. /\ Working(req[r]) /\ UNCHANGED <<store, others>> /\ Grows /\ At(r, "raced")
    BY NoChangeGrows DEF StartRaced, At, Working, store, others
  <1>2. /\ Cur(r) \in Op /\ OpKind[Cur(r)] = "conversation"
        /\ \A i \in Id : Applied(Cur(r), i) \in Result
    BY <1>1, AtStep DEF At, Shaped, TalkPc, Cur
  <1>3. CASE Caught(r)
    BY <1>1, <1>3, CaughtStep, StoreKept
  <1>4. ASSUME NEW c \in Id, Finish(r, Applied(Cur(r), c))
        PROVE  IInv'
    BY <1>1, <1>2, <1>4, FinishStep, StoreKept
  <1> QED BY <1>3, <1>4 DEF StartRaced, Pair

LEMMA ReadMessageStep ==
    ASSUME IInv, NEW r \in Req, ReadMessage(r)
    PROVE  IInv'
  <1>1. /\ Working(req[r]) /\ UNCHANGED <<store, others>> /\ Grows
        /\ OpKind[Cur(r)] = "message"
    BY NoChangeGrows DEF ReadMessage, At, Working, store, others
  <1>2. /\ Cur(r) \in Op /\ OpId[Cur(r)] \in Id /\ req[r] \in Request /\ Shaped(req[r])
        /\ Applied(Cur(r), OpId[Cur(r)]) \in Result /\ Rejected(Cur(r)) \in Result
        /\ Rejected(Cur(r)).status = "rejected"
    BY <1>1, AtStep
  <1>3. CASE Goto(r, "member")
    <2>1. /\ Shaped([req[r] EXCEPT !.pc = "member"])
          /\ Truthful([req[r] EXCEPT !.pc = "member"], written')
      BY <1>1, <1>2 DEF Shaped, Truthful, Working, LwwPc, TalkPc, MsgPc, Request, Cur
    <2> QED BY <1>1, <1>3, <2>1, GotoStep, StoreKept DEF Pc
  <1>4. CASE msg[OpId[Cur(r)]] # None /\ Finish(r, Applied(Cur(r), OpId[Cur(r)]))
    <2>1. PICK o \in written : OpKind[o] = "message" /\ OpId[o] = OpId[Cur(r)]
      BY <1>2, <1>4 DEF IInv, MessagesWritten
    <2>2. o = Cur(r)
      BY <2>1, <1>1, <1>2, FreshMessageIds DEF IInv, TypeOK
    <2> QED BY <1>1, <1>2, <1>4, <2>1, <2>2, FinishStep, StoreKept DEF others
  <1>5. CASE Finish(r, Rejected(Cur(r)))
    BY <1>1, <1>2, <1>5, FinishStep, StoreKept
  <1> QED BY <1>3, <1>4, <1>5 DEF ReadMessage

LEMMA MemberStep ==
    ASSUME IInv, NEW r \in Req, Member(r)
    PROVE  IInv'
  <1>1. /\ Working(req[r]) /\ UNCHANGED <<store, others>> /\ Grows /\ At(r, "member")
    BY NoChangeGrows DEF Member, At, Working, store, others
  <1>2. /\ req[r] \in Request /\ Shaped(req[r])
    BY <1>1, AtStep
  <1>3. CASE Goto(r, "add")
    <2>1. /\ Shaped([req[r] EXCEPT !.pc = "add"])
          /\ Truthful([req[r] EXCEPT !.pc = "add"], written')
      BY <1>1, <1>2 DEF At, Shaped, Truthful, Working, LwwPc, TalkPc, MsgPc, Request
    <2> QED BY <1>1, <1>3, <2>1, GotoStep, StoreKept DEF Pc
  <1>4. CASE Caught(r)
    BY <1>1, <1>4, CaughtStep, StoreKept
  <1> QED BY <1>3, <1>4 DEF Member

LEMMA AddMessageStep ==
    ASSUME IInv, NEW r \in Req, AddMessage(r)
    PROVE  IInv'
  <1>1. /\ Working(req[r]) /\ At(r, "add")
        /\ UNCHANGED <<log, row, clock, conv, notified, now, answers, sends, spent>>
    BY DEF AddMessage, At, Working
  <1>2. /\ Cur(r) \in Op /\ OpKind[Cur(r)] = "message" /\ req[r] \in Request /\ Shaped(req[r])
        /\ OpId[Cur(r)] \in Id /\ Sub(r) \in User /\ ConvOf(r) \in Id
    BY <1>1, AtStep DEF At, Shaped, MsgPc, Cur, ConvOf
  <1>3. CASE Caught(r) /\ UNCHANGED <<msg, written>>
    <2>1. Grows /\ UNCHANGED <<store, others>>
      BY <1>1, <1>3, NoChangeGrows DEF store, others
    <2> QED BY <1>1, <1>3, <2>1, CaughtStep, StoreKept
  <1>4. CASE /\ msg' = [msg EXCEPT ![OpId[Cur(r)]] = [conv |-> ConvOf(r), sender |-> Sub(r)]]
             /\ written' = written \cup {Cur(r)}
             /\ Goto(r, "notify")
    <2>1. Grows
      BY <1>1, <1>4 DEF Grows
    <2>2. /\ Shaped([req[r] EXCEPT !.pc = "notify"])
          /\ Truthful([req[r] EXCEPT !.pc = "notify"], written')
      BY <1>1, <1>2, <1>4 DEF At, Shaped, Truthful, Working, LwwPc, TalkPc, MsgPc, Request, Cur
    <2>3. ReqsSound'
      BY <1>4, <2>1, <2>2, GotoStep DEF Pc
    <2>4. msg' \in [Id -> Msg \cup {None}]
      BY <1>2, <1>4 DEF IInv, TypeOK, Msg
    <2>5. TypeOK'
      BY <1>1, <1>2, <1>4, <2>3, <2>4 DEF IInv, TypeOK, ReqsSound
    <2>6. MessagesWritten'
      BY <1>1, <1>2, <1>4 DEF IInv, TypeOK, MessagesWritten
    <2> QED BY <1>1, <1>4, <2>3, <2>5, <2>6 DEF IInv, ReqsSound, OneAnswer,
                                                 AppliedWasWritten, ClockNamesAWrite
  <1> QED BY <1>3, <1>4 DEF AddMessage

LEMMA NotifyStep ==
    ASSUME IInv, NEW r \in Req, Notify(r)
    PROVE  IInv'
  <1>1. /\ Working(req[r]) /\ At(r, "notify")
        /\ UNCHANGED <<log, row, clock, conv, msg, now, written, answers, sends, spent>>
        /\ notified' = [notified EXCEPT ![OpId[Cur(r)]] = @ + 1]
        /\ Finish(r, Applied(Cur(r), OpId[Cur(r)]))
    BY DEF Notify, At, Working, others
  <1>2. /\ OpId[Cur(r)] \in Id /\ Applied(Cur(r), OpId[Cur(r)]) \in Result
        /\ Cur(r) \in written
    BY <1>1, AtStep DEF At, Truthful, Cur
  <1>3. ReqsSound'
    BY <1>1, <1>2, NoChangeGrows, FinishStep
  <1>4. TypeOK'
    BY <1>1, <1>2, <1>3 DEF IInv, TypeOK, ReqsSound
  <1> QED BY <1>1, <1>3, <1>4 DEF IInv, ReqsSound, MessagesWritten, OneAnswer,
                                   AppliedWasWritten, ClockNamesAWrite

LEMMA SaveStep ==
    ASSUME IInv, NEW r \in Req, Save(r)
    PROVE  IInv'
  <1>1. /\ Working(req[r]) /\ At(r, "save")
        /\ UNCHANGED <<row, clock, conv, msg, notified, now, written, answers, sends, spent>>
    BY DEF Save, At, Working, others
  <1>2. /\ Cur(r) \in Op /\ req[r] \in Request /\ Shaped(req[r]) /\ Truthful(req[r], written)
        /\ req[r].out \in Result /\ Sub(r) \in User
    BY <1>1, AtStep DEF At, Shaped
  <1>3. CASE /\ log[Cur(r)] = None
             /\ log' = [log EXCEPT ![Cur(r)] = [user |-> Sub(r), res |-> req[r].out]]
             /\ Return(r, req[r].out)
    <2>1. log \in [Op -> Entry \cup {None}] /\ [user |-> Sub(r), res |-> req[r].out] \in Entry
      BY <1>2 DEF IInv, TypeOK, Entry
    <2>2. log' \in [Op -> Entry \cup {None}]
      BY <1>2, <1>3, <2>1
    <2>3. log'[Cur(r)] = [user |-> Sub(r), res |-> req[r].out]
      BY <1>2, <1>3, <2>1
    <2>4. \A o \in Op : o # Cur(r) => log'[o] = log[o]
      BY <1>2, <1>3, <2>1
    <2>5. Grows
      BY <1>1, <1>3, <2>4 DEF Grows
    <2>6. None \notin Entry
      BY NoneIsNoValue
    <2>7. log'[Cur(r)] # None
      BY <2>1, <2>3, <2>6
    <2>8. Heard(Cur(r), req[r].out, log')
      BY <2>3, <2>7 DEF Heard
    <2>9. ReqsSound'
      BY <1>1, <1>2, <1>3, <2>5, <2>8, ReturnStep
    <2>10. TypeOK'
      BY <1>1, <2>2, <2>9 DEF IInv, TypeOK, ReqsSound
    <2>11. OneAnswer'
      BY <1>1, <2>5 DEF IInv, OneAnswer, Grows
    <2>12. AppliedWasWritten'
      BY <1>1, <1>2, <2>3, <2>4 DEF IInv, AppliedWasWritten, Truthful, At, Cur
    <2> QED BY <1>1, <2>9, <2>10, <2>11, <2>12 DEF IInv, ReqsSound, MessagesWritten, ClockNamesAWrite
  <1>4. CASE Goto(r, "refind") /\ UNCHANGED log
    <2>1. Grows /\ UNCHANGED <<store, others>>
      BY <1>1, <1>4, NoChangeGrows DEF store, others
    <2>2. /\ Shaped([req[r] EXCEPT !.pc = "refind"])
          /\ Truthful([req[r] EXCEPT !.pc = "refind"], written')
      BY <1>1, <1>2, <2>1 DEF At, Shaped, Truthful, Working, LwwPc, TalkPc, MsgPc, Request
    <2> QED BY <1>4, <2>1, <2>2, GotoStep, StoreKept DEF Pc
  <1> QED BY <1>3, <1>4 DEF Save

LEMMA RefindStep ==
    ASSUME IInv, NEW r \in Req, Refind(r)
    PROVE  IInv'
  <1>1. /\ Working(req[r]) /\ UNCHANGED <<store, others>> /\ Grows
    BY NoChangeGrows DEF Refind, At, Working, store, others
  <1>2. Cur(r) \in Op
    BY <1>1, AtStep
  <1>3. CASE log[Cur(r)] # None /\ Return(r, log[Cur(r)].res)
    <2>1. log[Cur(r)].res \in Result
      BY <1>2, <1>3 DEF IInv, TypeOK, Entry
    <2>2. Heard(Cur(r), log[Cur(r)].res, log')
      BY <1>1, <1>3 DEF Heard, store
    <2> QED BY <1>1, <1>3, <2>1, <2>2, ReturnStep, StoreKept
  <1>4. CASE Caught(r)
    BY <1>1, <1>4, CaughtStep, StoreKept
  <1>5. CASE Abort(r)
    BY <1>1, <1>5, AbortStep, StoreKept
  <1> QED BY <1>3, <1>4, <1>5 DEF Refind, Throw

LEMMA ReplyStep ==
    ASSUME IInv, NEW r \in Req, Reply(r)
    PROVE  IInv'
  <1>1. /\ UNCHANGED <<log, row, clock, conv, msg, notified, now, written, sends, spent>>
        /\ Abort(r)
        /\ answers' = [o \in Op |-> answers[o] \cup {d[2] : d \in {e \in req[r].done : e[1] = o}}]
    BY DEF Reply, store
  <1>2. ReqsSound'
    BY <1>1, NoChangeGrows, AbortStep
  <1>3. req[r].done \in SUBSET (Op \X Result) /\ Sound(req[r], log, written)
    BY DEF IInv, TypeOK, Request
  <1>4. ASSUME NEW o \in Op, NEW x, x \in answers'[o]
        PROVE  x \in Result /\ (x \in answers[o] \/ Heard(o, x, log))
    <2>1. CASE x \in answers[o]
      BY <2>1 DEF IInv, TypeOK
    <2>2. CASE x \notin answers[o]
      <3>1. PICK d \in req[r].done : d[1] = o /\ d[2] = x
        BY <1>1, <1>4, <2>2
      <3>2. d \in Op \X Result /\ d = <<o, x>>
        BY <1>3, <3>1
      <3> QED BY <1>3, <3>1, <3>2 DEF Sound
    <2> QED BY <2>1, <2>2
  <1>5. answers' \in [Op -> SUBSET Result]
    <2>1. \A o \in Op : answers'[o] \in SUBSET Result
      BY <1>4
    <2> QED BY <1>1, <2>1
  <1>6. TypeOK'
    BY <1>1, <1>2, <1>5 DEF IInv, TypeOK, ReqsSound
  <1>7. OneAnswer'
    BY <1>1, <1>4 DEF IInv, OneAnswer, Heard
  <1> QED BY <1>1, <1>2, <1>6, <1>7 DEF IInv, ReqsSound, MessagesWritten, AppliedWasWritten,
                                         ClockNamesAWrite

----------------------------------------------------------------------------
(* The environment *)

LEMMA ReceiveStep ==
    ASSUME IInv, NEW r \in Req, NEW u \in User, NEW ops \in Seq(Op), ops # << >>,
           Receive(r, u, ops)
    PROVE  IInv'
  <1> DEFINE q == Slot("find", u, now, ops, {})
  <1>1. /\ UNCHANGED <<log, row, clock, conv, msg, notified, now, written, answers>>
        /\ spent' = [spent EXCEPT !.received = @ + 1]
        /\ req' = [req EXCEPT ![r] = q]
        /\ \A o \in Range(ops) : u \in Senders[o]
        /\ sends' = [o \in Op |-> IF o \in Range(ops) THEN sends[o] + 1 ELSE sends[o]]
    BY DEF Receive, store
  <1>2. q \in Request /\ q.pc = "find" /\ q.todo = ops /\ q.user = u /\ q.done = {}
    BY DEF Slot, Request, Pc, IInv, TypeOK
  <1>3. \A i \in DOMAIN ops : u \in Senders[ops[i]]
    BY <1>1 DEF Range
  <1> HIDE DEF q
  <1>4. Sound(q, log', written')
    BY <1>2, <1>3 DEF Sound, Shaped, Truthful, Working, LwwPc, TalkPc, MsgPc
  <1>5. ReqsSound'
    BY <1>1, <1>2, <1>4, NoChangeGrows, OneRequest DEF ReqsSound
  <1>6. sends' \in [Op -> Nat]
    <2>1. sends \in [Op -> Nat]
      BY DEF IInv, TypeOK
    <2>2. \A o \in Op : sends[o] \in Nat /\ sends[o] + 1 \in Nat
      BY <2>1
    <2> QED BY <1>1, <2>2
  <1>7. spent' \in [received : Nat, crashes : Nat, fails : Nat, rests : Nat, deletes : Nat]
    <2>1. spent \in [received : Nat, crashes : Nat, fails : Nat, rests : Nat, deletes : Nat]
      BY DEF IInv, TypeOK
    <2>2. spent.received + 1 \in Nat
      BY <2>1
    <2> QED BY <1>1, <2>1, <2>2
  <1>8. TypeOK'
    BY <1>1, <1>5, <1>6, <1>7 DEF IInv, TypeOK, ReqsSound
  <1> QED BY <1>1, <1>5, <1>8 DEF IInv, ReqsSound, MessagesWritten, OneAnswer,
                                   AppliedWasWritten, ClockNamesAWrite

LEMMA FailStep ==
    ASSUME IInv, NEW r \in Req, Fail(r)
    PROVE  IInv'
  <1>1. /\ UNCHANGED <<log, row, clock, conv, msg, notified, now, written, answers, sends>>
        /\ spent' = [spent EXCEPT !.fails = @ + 1]
    BY DEF Fail, store
  <1>2. Grows
    BY <1>1, NoChangeGrows
  <1>3. CASE req[r].pc \in {"find", "delta"} /\ Abort(r)
    <2>1. ReqsSound'
      BY <1>2, <1>3, AbortStep
    <2> QED BY <1>1, <2>1 DEF IInv, TypeOK, ReqsSound, MessagesWritten, OneAnswer,
                              AppliedWasWritten, ClockNamesAWrite
  <1>4. CASE At(r, "save") /\ Goto(r, "refind")
    <2>1. req[r] \in Request /\ Shaped(req[r]) /\ Truthful(req[r], written)
      BY <1>4, AtStep DEF At, Working
    <2>2. /\ Shaped([req[r] EXCEPT !.pc = "refind"])
          /\ Truthful([req[r] EXCEPT !.pc = "refind"], written')
      BY <1>1, <1>4, <2>1 DEF At, Shaped, Truthful, Working, LwwPc, TalkPc, MsgPc, Request
    <2>3. ReqsSound'
      BY <1>2, <1>4, <2>2, GotoStep DEF Pc
    <2> QED BY <1>1, <2>3 DEF IInv, TypeOK, ReqsSound, MessagesWritten, OneAnswer,
                              AppliedWasWritten, ClockNamesAWrite
  <1>5. CASE At(r, "refind") /\ Abort(r)
    <2>1. ReqsSound'
      BY <1>2, <1>5, AbortStep
    <2> QED BY <1>1, <2>1 DEF IInv, TypeOK, ReqsSound, MessagesWritten, OneAnswer,
                              AppliedWasWritten, ClockNamesAWrite
  <1>6. CASE Working(req[r]) /\ Caught(r)
    <2>1. ReqsSound'
      BY <1>2, <1>6, CaughtStep
    <2> QED BY <1>1, <2>1 DEF IInv, TypeOK, ReqsSound, MessagesWritten, OneAnswer,
                              AppliedWasWritten, ClockNamesAWrite
  <1> QED BY <1>3, <1>4, <1>5, <1>6 DEF Fail, Throw, At, Working

LEMMA CrashStep ==
    ASSUME IInv, Crash
    PROVE  IInv'
  <1>1. /\ UNCHANGED <<log, row, clock, conv, msg, notified, now, written, answers, sends>>
        /\ req' = [r \in Req |-> Idle]
        /\ spent' = [spent EXCEPT !.crashes = @ + 1]
    BY DEF Crash, store
  <1>2. ReqsSound'
    BY <1>1, IdleSound DEF ReqsSound
  <1> QED BY <1>1, <1>2 DEF IInv, TypeOK, ReqsSound, MessagesWritten, OneAnswer,
                            AppliedWasWritten, ClockNamesAWrite

\* The REST endpoints and the clock leave what the requests rely on alone.
LEMMA RestStep ==
    ASSUME IInv, \/ \E k \in Keys, u \in User : RestWrite(k, u)
                 \/ \E i \in Id, u \in User : RestDelete(i, u)
                 \/ Tick
    PROVE  IInv'
  <1>1. UNCHANGED <<log, clock, notified, req, written, answers, sends>>
    BY DEF RestWrite, RestDelete, Tick, store
  <1>2. ReqsSound'
    BY <1>1 DEF IInv, TypeOK, ReqsSound
  <1>3. row' \in [Keys -> Row \cup {None}]
    <2>1. ASSUME NEW k \in Keys, NEW u \in User, RestWrite(k, u)
          PROVE  row' \in [Keys -> Row \cup {None}]
      <3>1. row \in [Keys -> Row \cup {None}] /\ row' = [row EXCEPT ![k] = Written(k, u, Rest)]
        BY <2>1 DEF IInv, TypeOK, RestWrite
      <3>2. Written(k, u, Rest) \in Row
        BY <3>1 DEF Written, Row
      <3> QED BY <3>1, <3>2
    <2>2. ASSUME NEW i \in Id, NEW u \in User, RestDelete(i, u)
          PROVE  row' \in [Keys -> Row \cup {None}]
      BY <2>2 DEF IInv, TypeOK, RestDelete
    <2>3. CASE Tick
      BY <2>3 DEF IInv, TypeOK, Tick, store
    <2> QED BY <2>1, <2>2, <2>3
  <1>4. conv' \in [Id -> Conv \cup {None}]
    BY DEF IInv, TypeOK, RestWrite, RestDelete, Tick, store
  <1>5. msg' \in [Id -> Msg \cup {None}] /\ \A m \in Id : msg'[m] # None => msg[m] # None
    BY DEF IInv, TypeOK, RestWrite, RestDelete, Tick, store
  <1>6. now' \in Nat /\ spent' \in [received : Nat, crashes : Nat, fails : Nat, rests : Nat, deletes : Nat]
    BY DEF IInv, TypeOK, RestWrite, RestDelete, Tick, store
  <1>7. TypeOK'
    BY <1>1, <1>2, <1>3, <1>4, <1>5, <1>6 DEF IInv, TypeOK, ReqsSound
  <1> QED BY <1>1, <1>2, <1>5, <1>7 DEF IInv, ReqsSound, MessagesWritten, OneAnswer,
                                         AppliedWasWritten, ClockNamesAWrite

----------------------------------------------------------------------------
(* The theorems *)

LEMMA InitIInv == Init => IInv
  <1> SUFFICES ASSUME Init PROVE IInv
    OBVIOUS
  <1>1. \A r \in Req : req[r] \in Request /\ Sound(req[r], log, written)
    BY IdleSound DEF Init
  <1> QED BY <1>1 DEF Init, IInv, TypeOK, MessagesWritten, OneAnswer, AppliedWasWritten,
                      ClockNamesAWrite

LEMMA NextIInv == IInv /\ [Next]_vars => IInv'
  <1> SUFFICES ASSUME IInv, [Next]_vars PROVE IInv'
    OBVIOUS
  <1>1. CASE UNCHANGED vars
    <2>1. ReqsSound' /\ UNCHANGED <<store, others>>
      BY <1>1 DEF vars, store, others, IInv, TypeOK, ReqsSound
    <2> QED BY <2>1, StoreKept
  <1>2. ASSUME NEW r \in Req, Handler(r) PROVE IInv'
    BY <1>2, FindOpStep, ReadStep, DecideStep, OwnStep, WriteStep, StampStep,
       ReadConversationStep, StartPostStep, StartFindStep, StartCreateStep, StartRacedStep,
       ReadMessageStep, MemberStep, AddMessageStep, NotifyStep, SaveStep, RefindStep, ReplyStep
       DEF Handler, ApplyPost, ApplyProfile, ApplyAlerta, ApplyPrecio, ApplyConversation,
           ApplyMessage, Lww
  <1>3. ASSUME NEW r \in Req, NEW u \in User, NEW ops \in Batches, Receive(r, u, ops)
        PROVE  IInv'
    <2>1. PICK n \in 1..MaxBatch : ops \in [1..n -> Op]
      BY DEF Batches
    <2>2. ops \in Seq(Op) /\ ops # << >>
      BY <2>1
    <2> QED BY <1>3, <2>2, ReceiveStep
  <1>4. CASE \/ \E r \in Req : Fail(r)
             \/ Crash
    BY <1>4, FailStep, CrashStep
  <1>5. CASE \/ \E k \in Keys, u \in User : RestWrite(k, u)
             \/ \E i \in Id, u \in User : RestDelete(i, u)
             \/ Tick
    BY <1>5, RestStep
  <1> QED BY <1>1, <1>2, <1>3, <1>4, <1>5 DEF Next, Environment

LEMMA Invariance == Spec => []IInv
  BY InitIInv, NextIInv, PTL DEF Spec

\* Every variable of POST /sync keeps the program's types.
THEOREM TypeCorrect == Spec => []TypeOK
  <1>1. IInv => TypeOK
    BY DEF IInv
  <1> QED BY <1>1, Invariance, PTL

\* Two responses never disagree about one operation (applyOne, persist): through
\* any number of retries in flight, crashes and failing calls, a session hears
\* the outcome that sync_ops holds.
THEOREM OneAnswerEver == Spec => []OneAnswer
  <1>1. IInv => OneAnswer
    BY DEF IInv
  <1> QED BY <1>1, Invariance, PTL

\* No handler reports "applied" ahead of the write it reports.
THEOREM AppliedIsTrue == Spec => []AppliedWasWritten
  <1>1. IInv => AppliedWasWritten
    BY DEF IInv
  <1> QED BY <1>1, Invariance, PTL

\* A sync clock never names a write that did not happen, whatever crashes or
\* fails between the write and its stamp.
THEOREM ClockIsTrue == Spec => []ClockNamesAWrite
  <1>1. IInv => ClockNamesAWrite
    BY DEF IInv
  <1> QED BY <1>1, Invariance, PTL

----------------------------------------------------------------------------
(* The ledger *)

ledger == <<log, written, answers>>

LEMMA InitLedger == Init => Ledger!Init
  BY DEF Init, Ledger!Init

LEMMA LedgerStutters ==
    ASSUME UNCHANGED ledger
    PROVE  [Ledger!Next]_(Ledger!vars)
  BY DEF ledger, Ledger!vars

\* The steps that write: the operation of the request takes effect, or nothing does.
LEMMA EffectStep ==
    ASSUME IInv, NEW r \in Req, Working(req[r]), UNCHANGED <<log, answers>>,
           written' = written \cup {Cur(r)} \/ written' = written
    PROVE  [Ledger!Next]_(Ledger!vars)
  <1>1. Cur(r) \in Op
    BY AtStep
  <1> QED BY <1>1 DEF Ledger!Next, Ledger!Effect, Ledger!vars

\* persist decides: what a handler finished with is of its session, and was written.
LEMMA SaveDecides ==
    ASSUME IInv, NEW r \in Req, Save(r)
    PROVE  [Ledger!Next]_(Ledger!vars)
  <1>1. Working(req[r]) /\ At(r, "save") /\ UNCHANGED <<written, answers>>
    BY DEF Save, At, Working, others
  <1>2. CASE UNCHANGED log
    BY <1>1, <1>2, LedgerStutters DEF ledger
  <1>3. CASE /\ log[Cur(r)] = None
             /\ log' = [log EXCEPT ![Cur(r)] = [user |-> Sub(r), res |-> req[r].out]]
    <2> DEFINE o == Cur(r)
               e == [user |-> Sub(r), res |-> req[r].out]
    <2>1. /\ o \in Op /\ Sub(r) \in User /\ Sub(r) \in Senders[o]
          /\ req[r].out \in Result /\ Truthful(req[r], written)
      BY <1>1, AtStep DEF At, Shaped
    <2>2. e \in Entry
      BY <2>1 DEF Entry
    <2>3. log \in [Op -> Entry \cup {None}]
      BY DEF IInv, TypeOK
    <2>4. log' = [log EXCEPT ![o] = e] /\ log'[o] = e /\ e.user = Sub(r) /\ e.res = req[r].out
      BY <1>3, <2>1, <2>3
    <2>5. e.res \in {x \in Result : x.status = "applied"} =>
             o \in written \/ o \in {p \in Op : OpKind[p] = "conversation"}
      BY <1>1, <2>1, <2>4 DEF Truthful, At, Cur
    <2> HIDE DEF o, e
    <2>6. /\ log[o] = None /\ log' = [log EXCEPT ![o] = log'[o]]
          /\ log'[o] \in Entry /\ log'[o].user \in Senders[o]
      BY <1>3, <2>1, <2>2, <2>4 DEF o
    <2>7. Ledger!Decide
      BY <1>1, <2>1, <2>4, <2>5, <2>6 DEF Ledger!Decide
    <2> QED BY <2>7 DEF Ledger!Next
  <1> QED BY <1>2, <1>3 DEF Save

\* A 200 response says what the ledger says.
LEMMA ReplyAnswers ==
    ASSUME IInv, IInv', NEW r \in Req, Reply(r)
    PROVE  [Ledger!Next]_(Ledger!vars)
  <1>1. /\ UNCHANGED <<log, written>>
        /\ answers' = [o \in Op |-> answers[o] \cup {d[2] : d \in {e \in req[r].done : e[1] = o}}]
    BY DEF Reply, store
  <1>2. answers' \in [Op -> SUBSET Result] /\ OneAnswer'
    BY DEF IInv, TypeOK
  <1>3. ASSUME NEW o \in Op
        PROVE  answers[o] \subseteq answers'[o] /\ answers'[o] \ answers[o] \subseteq Ledger!Sayable(o)
    <2>1. answers[o] \subseteq answers'[o]
      BY <1>1
    <2>2. ASSUME NEW x \in answers'[o] PROVE x \in Ledger!Sayable(o)
      <3>1. /\ log[o] # None
            /\ x = log[o].res \/ (x = Rejected(o) /\ \E u \in Senders[o] : u # log[o].user)
        BY <1>1, <1>2, <2>2 DEF OneAnswer
      <3> QED BY <3>1 DEF Ledger!Sayable
    <2> QED BY <2>1, <2>2
  <1> QED BY <1>1, <1>2, <1>3 DEF Ledger!Next, Ledger!Answer

LEMMA NextLedger == IInv /\ IInv' /\ [Next]_vars => [Ledger!Next]_(Ledger!vars)
  <1> SUFFICES ASSUME IInv, IInv', [Next]_vars PROVE [Ledger!Next]_(Ledger!vars)
    OBVIOUS
  <1>1. CASE UNCHANGED vars
    BY <1>1, LedgerStutters DEF vars, ledger
  <1>2. ASSUME NEW r \in Req, Handler(r) PROVE [Ledger!Next]_(Ledger!vars)
    <2>1. CASE Save(r)
      BY <2>1, SaveDecides
    <2>2. CASE Reply(r)
      BY <2>2, ReplyAnswers
    <2>3. CASE Write(r) \/ StartCreate(r) \/ AddMessage(r)
      <3>1. Working(req[r]) /\ UNCHANGED <<log, answers>>
        BY <2>3 DEF Write, StartCreate, AddMessage, At, Working
      <3>2. written' = written \cup {Cur(r)} \/ written' = written
        BY <2>3 DEF Write, StartCreate, AddMessage
      <3> QED BY <3>1, <3>2, EffectStep
    <2>4. CASE \/ FindOp(r) \/ Read(r) \/ Decide(r) \/ Own(r) \/ Stamp(r)
               \/ ReadConversation(r) \/ StartPost(r) \/ StartFind(r) \/ StartRaced(r)
               \/ ReadMessage(r) \/ Member(r) \/ Notify(r) \/ Refind(r)
      BY <2>4, LedgerStutters
         DEF FindOp, Read, Decide, Own, Stamp, ReadConversation, StartPost, StartFind, StartRaced,
             ReadMessage, Member, Notify, Refind, ledger, store, others
    <2> QED BY <1>2, <2>1, <2>2, <2>3, <2>4
       DEF Handler, ApplyPost, ApplyProfile, ApplyAlerta, ApplyPrecio, ApplyConversation,
           ApplyMessage, Lww
  <1>3. CASE Environment
    BY <1>3, LedgerStutters DEF Environment, Receive, Fail, Crash, RestWrite, RestDelete, Tick,
       ledger, store
  <1> QED BY <1>1, <1>2, <1>3 DEF Next

\* POST /sync implements the ledger, for every number of requests, users and
\* operations: an operation is decided once, "applied" only after its write, and
\* no response ever says anything else.
THEOREM ImplementsLedger == Spec => KeepsTheLedger
  BY InitLedger, Invariance, NextLedger, PTL DEF Spec, KeepsTheLedger, Ledger!Spec

----------------------------------------------------------------------------
(* What a step makes of its request *)

Elsewhere(r) == \A s \in Req : s # r => req'[s] = req[s]
Keeps(r) == /\ req'[r].todo = req[r].todo /\ req'[r].user = req[r].user
            /\ req'[r].found = req[r].found
Lets(r)  == req'[r].pc \in {"idle", "find", "delta"}

LEMMA GotoGives ==
    ASSUME IInv, NEW r \in Req, NEW p, Goto(r, p)
    PROVE  /\ Elsewhere(r) /\ Keeps(r)
           /\ req'[r].pc = p /\ req'[r].out = req[r].out /\ req'[r].peer = req[r].peer
  <1>1. req \in [Req -> Request]
    BY DEF IInv, TypeOK
  <1>2. PICK q \in Request : q = req[r]
    BY <1>1
  <1>3. req' = [req EXCEPT ![r] = [q EXCEPT !.pc = p]]
    BY <1>2 DEF Goto
  <1> QED BY <1>1, <1>2, <1>3 DEF Elsewhere, Keeps, Request

LEMMA FinishGives ==
    ASSUME IInv, NEW r \in Req, NEW x, Finish(r, x)
    PROVE  Elsewhere(r) /\ Keeps(r) /\ req'[r].pc = "save" /\ req'[r].out = x
  <1>1. req \in [Req -> Request]
    BY DEF IInv, TypeOK
  <1>2. PICK q \in Request : q = req[r]
    BY <1>1
  <1>3. req' = [req EXCEPT ![r] = [q EXCEPT !.pc = "save", !.out = x]]
    BY <1>2 DEF Finish
  <1> QED BY <1>1, <1>2, <1>3 DEF Elsewhere, Keeps, Request

LEMMA CaughtGives ==
    ASSUME IInv, NEW r \in Req, Caught(r)
    PROVE  Elsewhere(r) /\ Keeps(r) /\ req'[r].pc = "save" /\ req'[r].out = Rejected(Cur(r))
  <1>1. req \in [Req -> Request]
    BY DEF IInv, TypeOK
  <1>2. PICK q \in Request : q = req[r]
    BY <1>1
  <1>3. req' = [req EXCEPT ![r] = [q EXCEPT !.pc = "save", !.out = Rejected(Cur(r)),
                                            !.last = TRUE]]
    BY <1>2 DEF Caught
  <1> QED BY <1>1, <1>2, <1>3 DEF Elsewhere, Keeps, Request

LEMMA AbortGives ==
    ASSUME IInv, NEW r \in Req, Abort(r)
    PROVE  Elsewhere(r) /\ Lets(r) /\ req'[r].pc = "idle"
  BY DEF Abort, Idle, Slot, Elsewhere, Lets, IInv, TypeOK

LEMMA ReturnGives ==
    ASSUME IInv, NEW r \in Req, NEW x, Return(r, x)
    PROVE  Elsewhere(r) /\ Lets(r)
  BY DEF Return, Slot, Elsewhere, Lets, IInv, TypeOK

\* The key of an operation says its entity.
LEMMA KeyKind ==
    ASSUME NEW o \in Op, NEW u, OpKind[o] \in LwwKind
    PROVE  /\ KeyOf(o, u).kind = OpKind[o]
           /\ OpKind[o] = "post" => KeyOf(o, u) = PostKey(OpId[o])
  BY DEF KeyOf, PostKey, LwwKind

LEMMA PostKeys ==
    ASSUME NEW i \in Id
    PROVE  /\ PostKey(i) \in Keys /\ PostKey(i).kind = "post"
           /\ \A j \in Id : PostKey(i) = PostKey(j) => i = j
  <1>1. PostKey(i) = [kind |-> "post", owner |-> NoUser, target |-> i]
    BY DEF PostKey
  <1>2. \A j \in Id : PostKey(j).target = j
    BY DEF PostKey
  <1> QED BY <1>1, <1>2 DEF Keys

\* What a write makes of a row.
Rewrites(k, u, o) == row' = Upserted(k, u, o)

LEMMA WrittenRow ==
    ASSUME IInv, NEW k \in Keys, NEW u \in User, NEW o \in Op \cup {Rest}, Rewrites(k, u, o)
    PROVE  /\ row'[k] \in Row /\ row'[k] # None /\ row'[k].by = o
           /\ (row[k] # None /\ k.kind = "post") => row'[k].owner = row[k].owner
           /\ (row[k] = None \/ k.kind # "post") => row'[k].owner = u
           /\ \A j \in Keys : j # k => row'[j] = row[j]
  <1>1. row \in [Keys -> Row \cup {None}]
    BY DEF IInv, TypeOK
  <1>2. PICK w \in User : w = IF k.kind = "post" /\ row[k] # None THEN row[k].owner ELSE u
    BY <1>1 DEF Row
  <1>3. Written(k, u, o) = [owner |-> w, by |-> o]
    BY <1>2 DEF Written
  <1>4. row' = [row EXCEPT ![k] = [owner |-> w, by |-> o]]
    BY <1>3 DEF Rewrites
  <1>5. row'[k] = [owner |-> w, by |-> o] /\ \A j \in Keys : j # k => row'[j] = row[j]
    BY <1>1, <1>4
  <1>6. row'[k] \in Row
    BY <1>5 DEF Row
  <1> QED BY <1>2, <1>5, <1>6, NoneIsNoValue

\* Where a request stands after a step of its handler, by the step.
LEMMA Moves ==
    ASSUME IInv, NEW r \in Req
    PROVE  /\ FindOp(r) => Elsewhere(r) /\ (Lets(r) \/ req'[r].pc \in {"save", "read"})
           /\ Save(r) => Elsewhere(r) /\ (Lets(r) \/ req'[r].pc = "refind")
           /\ Refind(r) => Elsewhere(r) /\ (Lets(r) \/ req'[r].pc = "save")
           /\ Reply(r) => Elsewhere(r) /\ Lets(r)
           /\ Read(r) => Elsewhere(r) /\ req'[r].pc \in {"save", "clock"}
           /\ Decide(r) => Elsewhere(r) /\ req'[r].pc \in {"save", "own", "write"}
           /\ Own(r) => Elsewhere(r) /\ req'[r].pc \in {"save", "write"}
           /\ Write(r) => Elsewhere(r) /\ req'[r].pc \in {"save", "stamp"}
           /\ Stamp(r) => Elsewhere(r) /\ req'[r].pc = "save"
           /\ ReadConversation(r) => Elsewhere(r) /\ req'[r].pc \in {"save", "post"}
           /\ StartPost(r) => Elsewhere(r) /\ req'[r].pc \in {"save", "pair"}
           /\ StartFind(r) => Elsewhere(r) /\ req'[r].pc \in {"save", "create"}
           /\ StartCreate(r) => Elsewhere(r) /\ req'[r].pc \in {"save", "raced"}
           /\ StartRaced(r) => Elsewhere(r) /\ req'[r].pc = "save"
           /\ ReadMessage(r) => Elsewhere(r) /\ req'[r].pc \in {"save", "member"}
           /\ Member(r) => Elsewhere(r) /\ req'[r].pc \in {"save", "add"}
           /\ AddMessage(r) => Elsewhere(r) /\ req'[r].pc \in {"save", "notify"}
           /\ Notify(r) => Elsewhere(r) /\ req'[r].pc = "save"
  <1>1. FindOp(r) => Elsewhere(r) /\ (Lets(r) \/ req'[r].pc \in {"save", "read"})
    BY GotoGives, FinishGives, CaughtGives, ReturnGives DEF FindOp, Dispatch
  <1>2. /\ Save(r) => Elsewhere(r) /\ (Lets(r) \/ req'[r].pc = "refind")
        /\ Refind(r) => Elsewhere(r) /\ (Lets(r) \/ req'[r].pc = "save")
        /\ Reply(r) => Elsewhere(r) /\ Lets(r)
    BY GotoGives, CaughtGives, ReturnGives, AbortGives DEF Save, Refind, Reply, Throw
  <1>3. ASSUME Read(r) PROVE Elsewhere(r) /\ req'[r].pc \in {"save", "clock"}
    <2>1. CASE Finish(r, Rejected(Cur(r)))
      BY <2>1, FinishGives
    <2>2. CASE req' = [req EXCEPT ![r].pc = "clock", ![r].found = row[KeyAt(r)]]
      BY <2>2 DEF IInv, TypeOK, Request, Elsewhere
    <2> QED BY <1>3, <2>1, <2>2 DEF Read
  <1>4. ASSUME StartPost(r) PROVE Elsewhere(r) /\ req'[r].pc \in {"save", "pair"}
    <2>1. CASE Caught(r)
      BY <2>1, CaughtGives
    <2>2. CASE \E x : req' = [req EXCEPT ![r].pc = "pair", ![r].peer = x]
      BY <2>2 DEF IInv, TypeOK, Request, Elsewhere
    <2> QED BY <1>4, <2>1, <2>2 DEF StartPost
  <1>5. /\ Decide(r) => Elsewhere(r) /\ req'[r].pc \in {"save", "own", "write"}
        /\ Own(r) => Elsewhere(r) /\ req'[r].pc \in {"save", "write"}
        /\ Write(r) => Elsewhere(r) /\ req'[r].pc \in {"save", "stamp"}
        /\ Stamp(r) => Elsewhere(r) /\ req'[r].pc = "save"
    BY GotoGives, FinishGives, CaughtGives DEF Decide, Own, Write, Stamp
  <1>6. /\ ReadConversation(r) => Elsewhere(r) /\ req'[r].pc \in {"save", "post"}
        /\ StartFind(r) => Elsewhere(r) /\ req'[r].pc \in {"save", "create"}
        /\ StartCreate(r) => Elsewhere(r) /\ req'[r].pc \in {"save", "raced"}
        /\ StartRaced(r) => Elsewhere(r) /\ req'[r].pc = "save"
    BY GotoGives, FinishGives, CaughtGives
       DEF ReadConversation, StartFind, StartCreate, StartRaced
  <1>7. /\ ReadMessage(r) => Elsewhere(r) /\ req'[r].pc \in {"save", "member"}
        /\ Member(r) => Elsewhere(r) /\ req'[r].pc \in {"save", "add"}
        /\ AddMessage(r) => Elsewhere(r) /\ req'[r].pc \in {"save", "notify"}
        /\ Notify(r) => Elsewhere(r) /\ req'[r].pc = "save"
    BY GotoGives, FinishGives, CaughtGives DEF ReadMessage, Member, AddMessage, Notify
  <1> QED BY <1>1, <1>2, <1>3, <1>4, <1>5, <1>6, <1>7

\* The steps of a handler, one by one.
LEMMA Steps ==
    ASSUME NEW r \in Req, Handler(r)
    PROVE  \/ FindOp(r) \/ Save(r) \/ Refind(r) \/ Reply(r)
           \/ Read(r) \/ Decide(r) \/ Own(r) \/ Write(r) \/ Stamp(r)
           \/ ReadConversation(r) \/ StartPost(r) \/ StartFind(r) \/ StartCreate(r)
           \/ StartRaced(r) \/ ReadMessage(r) \/ Member(r) \/ AddMessage(r) \/ Notify(r)
  BY DEF Handler, ApplyPost, ApplyProfile, ApplyAlerta, ApplyPrecio, ApplyConversation,
         ApplyMessage, Lww

\* Each table is changed by one step of the handlers.
LEMMA OneWriter ==
    ASSUME NEW r \in Req, Handler(r)
    PROVE  /\ ~Write(r) => UNCHANGED row
           /\ ~Stamp(r) => UNCHANGED clock
           /\ ~StartCreate(r) => UNCHANGED conv
           /\ ~AddMessage(r) => UNCHANGED msg
           /\ ~Notify(r) => UNCHANGED notified
           /\ ~Save(r) => UNCHANGED log
           /\ ~(Write(r) \/ StartCreate(r) \/ AddMessage(r)) => UNCHANGED written
           /\ UNCHANGED spent
  BY Steps DEF FindOp, Save, Refind, Reply, Read, Decide, Own, Write, Stamp, ReadConversation,
               StartPost, StartFind, StartCreate, StartRaced, ReadMessage, Member, AddMessage,
               Notify, store, others

----------------------------------------------------------------------------
(* Posts keep their author *)

\* About to update a post that updateOwn found.
Updating(r) == At(r, "write") /\ OpKind[Cur(r)] = "post" /\ req[r].found # None

\* Until a post is deleted, it is there with its author once an update is under way.
AuthorsHold ==
    spent.deletes = 0 =>
        \A r \in Req : Updating(r) => /\ row[KeyAt(r)] # None
                                      /\ row[KeyAt(r)].owner = Sub(r)

AuthorInv == IInv /\ PostKeepsAuthor /\ AuthorsHold

\* A post, once there, has one author until it is deleted.
PostsStay ==
    \A i \in Id : row[PostKey(i)] # None =>
        row'[PostKey(i)] # None /\ row'[PostKey(i)].owner = row[PostKey(i)].owner

LEMMA WriteFacts ==
    ASSUME IInv, NEW r \in Req, Write(r)
    PROVE  /\ Cur(r) \in Op /\ Sub(r) \in User /\ Sub(r) \in Senders[Cur(r)]
           /\ KeyAt(r) \in Keys /\ OpKind[Cur(r)] \in LwwKind
           /\ KeyAt(r).kind = OpKind[Cur(r)]
           /\ OpKind[Cur(r)] = "post" => KeyAt(r) = PostKey(OpId[Cur(r)])
           /\ At(r, "write") /\ UNCHANGED <<log, clock, spent>>
           /\ Elsewhere(r) /\ Keeps(r)
           /\ \/ /\ CanWrite(r) /\ Rewrites(KeyAt(r), Sub(r), Cur(r))
                 /\ written' = written \cup {Cur(r)}
                 /\ req'[r].pc = "stamp"
              \/ /\ ~CanWrite(r) /\ UNCHANGED <<row, written>> /\ req'[r].pc = "save"
                 /\ req'[r].out = Rejected(Cur(r))
  <1>1. At(r, "write") /\ Working(req[r])
    BY DEF Write, At, Working
  <1>2. /\ Cur(r) \in Op /\ Sub(r) \in User /\ Sub(r) \in Senders[Cur(r)]
        /\ OpKind[Cur(r)] \in LwwKind
    BY <1>1, AtStep DEF At, Shaped, LwwPc, Cur
  <1>3. KeyAt(r) \in Keys
    BY <1>1, <1>2, AtStep
  <1>4. /\ KeyAt(r).kind = OpKind[Cur(r)]
        /\ OpKind[Cur(r)] = "post" => KeyAt(r) = PostKey(OpId[Cur(r)])
    BY <1>2, KeyKind DEF KeyAt
  <1> QED BY <1>1, <1>2, <1>3, <1>4, GotoGives, FinishGives, CaughtGives DEF Write, Rewrites

LEMMA RowsStay ==
    ASSUME IInv, [Next]_vars, spent'.deletes = 0
    PROVE  PostsStay
  <1>1. ASSUME NEW k \in Keys, NEW u \in User, NEW o \in Op \cup {Rest},
               Rewrites(k, u, o)
        PROVE  PostsStay
    <2> SUFFICES ASSUME NEW i \in Id, row[PostKey(i)] # None
                 PROVE  /\ row'[PostKey(i)] # None
                        /\ row'[PostKey(i)].owner = row[PostKey(i)].owner
      BY DEF PostsStay
    <2>1. CASE k = PostKey(i)
      BY <1>1, <2>1, WrittenRow, PostKeys
    <2>2. CASE k # PostKey(i)
      BY <1>1, <2>2, WrittenRow, PostKeys
    <2> QED BY <2>1, <2>2
  <1>2. ASSUME UNCHANGED row PROVE PostsStay
    BY <1>2 DEF PostsStay
  <1>3. ASSUME NEW r \in Req, Handler(r) PROVE PostsStay
    BY <1>1, <1>2, <1>3, OneWriter, WriteFacts
  <1>4. ASSUME NEW i \in Id, NEW u \in User, RestDelete(i, u) PROVE PostsStay
    <2>1. spent'.deletes = spent.deletes + 1 /\ spent.deletes \in Nat
      BY <1>4 DEF RestDelete, IInv, TypeOK
    <2> QED BY <2>1
  <1>5. CASE Environment
    <2>1. ASSUME NEW k \in Keys, NEW u \in User, RestWrite(k, u) PROVE PostsStay
      BY <1>1, <2>1 DEF RestWrite, Rewrites
    <2> QED BY <1>2, <1>4, <1>5, <2>1 DEF Environment, Receive, Fail, Crash, Tick, store
  <1> QED BY <1>2, <1>3, <1>5 DEF Next, vars

\* A step that leaves the rows alone and brings no request to its update.
LEMMA AuthorSteps ==
    ASSUME AuthorInv, NEW r \in Req, IInv', row' = row, spent'.deletes = spent.deletes,
           Elsewhere(r),
           Updating(r)' => row[KeyAt(r)'] # None /\ row[KeyAt(r)'].owner = Sub(r)'
    PROVE  AuthorInv'
  <1>1. PostKeepsAuthor'
    BY DEF AuthorInv, PostKeepsAuthor
  <1>2. ASSUME NEW s \in Req, Updating(s)', s # r, spent.deletes = 0
        PROVE  row[KeyAt(s)'] # None /\ row[KeyAt(s)'].owner = Sub(s)'
    BY <1>2 DEF AuthorInv, AuthorsHold, Elsewhere, Updating, At, KeyAt, Cur, Sub
  <1>3. AuthorsHold'
    BY <1>2 DEF AuthorsHold
  <1> QED BY <1>1, <1>3 DEF AuthorInv

LEMMA AuthorAside ==
    ASSUME AuthorInv, NEW r \in Req, IInv', UNCHANGED <<row, spent>>, Elsewhere(r),
           Updating(r)' => row[KeyAt(r)'] # None /\ row[KeyAt(r)'].owner = Sub(r)'
    PROVE  AuthorInv'
  BY AuthorSteps

LEMMA AuthorHandler ==
    ASSUME AuthorInv, IInv', NEW r \in Req, Handler(r), ~Write(r), ~Decide(r), ~Own(r)
    PROVE  AuthorInv'
  <1>1. IInv
    BY DEF AuthorInv
  <1>2. Elsewhere(r) /\ req'[r].pc # "write"
    BY <1>1, Moves, Steps DEF Lets
  <1> QED BY <1>2, OneWriter, AuthorAside DEF Updating, At

LEMMA AuthorDecides ==
    ASSUME AuthorInv, IInv', NEW r \in Req, Decide(r) \/ Own(r), OpKind[Cur(r)] \in LwwKind
    PROVE  AuthorInv'
  <1>1. IInv /\ UNCHANGED <<row, spent>>
    BY DEF AuthorInv, Decide, Own, store, others
  <1>2. CASE req'[r].pc # "write" /\ Elsewhere(r)
    BY <1>1, <1>2, AuthorAside DEF Updating, At
  <1>3. CASE Goto(r, "write")
    <2>1. /\ Elsewhere(r) /\ Keeps(r) /\ KeyAt(r)' = KeyAt(r) /\ Sub(r)' = Sub(r)
          /\ Cur(r)' = Cur(r)
      BY <1>1, <1>3, GotoGives DEF Keeps, KeyAt, Cur, Sub
    <2>2. CASE Decide(r)
      <3>1. ~(OpKind[Cur(r)] = "post" /\ req[r].found # None)
        <4>1. SUFFICES ASSUME OpKind[Cur(r)] = "post", req[r].found # None
                       PROVE  req'[r].pc # "write"
          BY <1>1, <1>3, GotoGives
        <4> QED BY <1>1, <2>2, <4>1, GotoGives, FinishGives DEF Decide
      <3>2. ~Updating(r)'
        BY <2>1, <3>1 DEF Updating, Keeps
      <3> QED BY <1>1, <2>1, <3>2, AuthorAside
    <2>3. CASE Own(r)
      <3>1. row[KeyAt(r)] # None /\ row[KeyAt(r)].owner = Sub(r)
        <4>1. SUFFICES ASSUME ~(row[KeyAt(r)] # None /\ row[KeyAt(r)].owner = Sub(r))
                       PROVE  req'[r].pc # "write"
          BY <1>1, <1>3, GotoGives
        <4> QED BY <1>1, <2>3, <4>1, FinishGives DEF Own
      <3> QED BY <1>1, <2>1, <3>1, AuthorAside
    <2> QED BY <2>2, <2>3
  <1>4. (req'[r].pc # "write" /\ Elsewhere(r)) \/ Goto(r, "write")
    BY <1>1, GotoGives, FinishGives DEF Decide, Own
  <1> QED BY <1>2, <1>3, <1>4

LEMMA AuthorWrites ==
    ASSUME AuthorInv, IInv', [Next]_vars, NEW r \in Req, Write(r)
    PROVE  AuthorInv'
  <1>1. IInv
    BY DEF AuthorInv
  <1> USE <1>1
  <1>2. CASE UNCHANGED row
    BY <1>2, WriteFacts, AuthorAside DEF Updating, At
  <1>3. CASE /\ CanWrite(r) /\ Rewrites(KeyAt(r), Sub(r), Cur(r))
             /\ req'[r].pc = "stamp"
    <2> SUFFICES ASSUME spent'.deletes = 0
                 PROVE  PostKeepsAuthor' /\ AuthorsHold'
      BY DEF AuthorInv, PostKeepsAuthor, AuthorsHold
    <2>1. spent.deletes = 0 /\ PostsStay
      BY WriteFacts, RowsStay
    <2>2. ASSUME NEW s \in Req, Updating(s)'
          PROVE  row'[KeyAt(s)'] # None /\ row'[KeyAt(s)'].owner = Sub(s)'
      <3>1. s # r
        BY <1>3, <2>2 DEF Updating, At
      <3>2. req'[s] = req[s] /\ Updating(s) /\ KeyAt(s)' = KeyAt(s) /\ Sub(s)' = Sub(s)
        BY <2>2, <3>1, WriteFacts DEF Elsewhere, Updating, At, KeyAt, Cur, Sub
      <3>3. row[KeyAt(s)] # None /\ row[KeyAt(s)].owner = Sub(s)
        BY <2>1, <3>2 DEF AuthorInv, AuthorsHold
      <3>4. \E i \in Id : KeyAt(s) = PostKey(i)
        BY <3>2, AtStep, KeyKind DEF Updating, At, Working, KeyAt, LwwKind
      <3> QED BY <2>1, <3>2, <3>3, <3>4 DEF PostsStay
    <2>3. ASSUME NEW i \in Id, row'[PostKey(i)] # None, row'[PostKey(i)].by # Rest
          PROVE  row'[PostKey(i)].owner \in Senders[row'[PostKey(i)].by]
      <3>1. CASE KeyAt(r) # PostKey(i)
        <4>1. row'[PostKey(i)] = row[PostKey(i)]
          BY <1>3, <3>1, WriteFacts, WrittenRow, PostKeys
        <4> QED BY <2>1, <2>3, <4>1 DEF AuthorInv, PostKeepsAuthor
      <3>2. CASE KeyAt(r) = PostKey(i)
        <4>1. OpKind[Cur(r)] = "post" /\ KeyAt(r).kind = "post"
          BY <3>2, WriteFacts, PostKeys
        <4>2. row[KeyAt(r)] # None => row[KeyAt(r)].owner = Sub(r)
          <5>1. row[KeyAt(r)] # None => req[r].found # None
            BY <1>3, <4>1 DEF CanWrite
          <5> QED BY <2>1, <4>1, <5>1, WriteFacts DEF AuthorInv, AuthorsHold, Updating
        <4>3. /\ row'[KeyAt(r)].by = Cur(r)
              /\ row[KeyAt(r)] = None => row'[KeyAt(r)].owner = Sub(r)
              /\ row[KeyAt(r)] # None => row'[KeyAt(r)].owner = row[KeyAt(r)].owner
          BY <1>3, <4>1, WriteFacts, WrittenRow
        <4> QED BY <3>2, <4>2, <4>3, WriteFacts
      <3> QED BY <3>1, <3>2
    <2> QED BY <2>2, <2>3 DEF PostKeepsAuthor, AuthorsHold
  <1> QED BY <1>2, <1>3, WriteFacts

LEMMA AuthorEnvironment ==
    ASSUME AuthorInv, IInv', [Next]_vars, Environment
    PROVE  AuthorInv'
  <1>1. IInv
    BY DEF AuthorInv
  <1> USE <1>1
  <1>2. ASSUME NEW r \in Req, NEW u \in User, NEW ops \in Batches, Receive(r, u, ops)
        PROVE  AuthorInv'
    <2>1. row' = row /\ spent'.deletes = spent.deletes
      BY <1>2 DEF Receive, store, IInv, TypeOK
    <2>2. Elsewhere(r) /\ req'[r].pc = "find"
      BY <1>2 DEF Receive, Slot, Elsewhere, IInv, TypeOK
    <2> QED BY <2>1, <2>2, AuthorSteps DEF Updating, At
  <1>3. ASSUME NEW r \in Req, Fail(r) PROVE AuthorInv'
    <2>1. row' = row /\ spent'.deletes = spent.deletes
      BY <1>3 DEF Fail, store, IInv, TypeOK
    <2>2. Elsewhere(r) /\ req'[r].pc # "write"
      BY <1>3, GotoGives, CaughtGives, AbortGives DEF Fail, Throw, At, Lets
    <2> QED BY <2>1, <2>2, AuthorSteps DEF Updating, At
  <1>4. CASE Crash
    <2>1. row' = row /\ spent'.deletes = spent.deletes
      BY <1>4 DEF Crash, store, IInv, TypeOK
    <2>2. \A s \in Req : req'[s].pc # "write"
      BY <1>4 DEF Crash, Idle, Slot
    <2> QED BY <2>1, <2>2 DEF AuthorInv, PostKeepsAuthor, AuthorsHold, Updating, At
  <1>5. ASSUME NEW k \in Keys, NEW u \in User, RestWrite(k, u) PROVE AuthorInv'
    <2>1. /\ Rewrites(k, u, Rest) /\ req' = req /\ spent'.deletes = spent.deletes
      BY <1>5 DEF RestWrite, Rewrites, IInv, TypeOK
    <2> SUFFICES ASSUME spent'.deletes = 0
                 PROVE  PostKeepsAuthor' /\ AuthorsHold'
      BY DEF AuthorInv, PostKeepsAuthor, AuthorsHold
    <2>2. spent.deletes = 0 /\ PostsStay
      BY <2>1, RowsStay
    <2>3. ASSUME NEW s \in Req, Updating(s)'
          PROVE  row'[KeyAt(s)'] # None /\ row'[KeyAt(s)'].owner = Sub(s)'
      <3>1. Updating(s) /\ KeyAt(s)' = KeyAt(s) /\ Sub(s)' = Sub(s)
        BY <2>1, <2>3 DEF Updating, At, KeyAt, Cur, Sub
      <3>2. row[KeyAt(s)] # None /\ row[KeyAt(s)].owner = Sub(s)
        BY <2>2, <3>1 DEF AuthorInv, AuthorsHold
      <3>3. \E i \in Id : KeyAt(s) = PostKey(i)
        BY <3>1, AtStep, KeyKind DEF Updating, At, Working, KeyAt, LwwKind
      <3> QED BY <2>2, <3>1, <3>2, <3>3 DEF PostsStay
    <2>4. ASSUME NEW i \in Id, row'[PostKey(i)] # None, row'[PostKey(i)].by # Rest
          PROVE  row'[PostKey(i)].owner \in Senders[row'[PostKey(i)].by]
      <3>1. k # PostKey(i) /\ row'[PostKey(i)] = row[PostKey(i)]
        <4>1. /\ row'[k].by = Rest /\ PostKey(i) \in Keys
              /\ \A j \in Keys : j # k => row'[j] = row[j]
          BY <2>1, WrittenRow, PostKeys
        <4> QED BY <2>4, <4>1
      <3> QED BY <2>2, <2>4, <3>1 DEF AuthorInv, PostKeepsAuthor
    <2> QED BY <2>3, <2>4 DEF PostKeepsAuthor, AuthorsHold
  <1>6. ASSUME NEW i \in Id, NEW u \in User, RestDelete(i, u) PROVE AuthorInv'
    <2>1. spent'.deletes = spent.deletes + 1 /\ spent.deletes \in Nat
      BY <1>6 DEF RestDelete, IInv, TypeOK
    <2>2. spent'.deletes # 0
      BY <2>1
    <2> QED BY <2>2 DEF AuthorInv, PostKeepsAuthor, AuthorsHold
  <1>7. CASE Tick
    BY <1>7 DEF Tick, store, AuthorInv, PostKeepsAuthor, AuthorsHold, Updating, At, KeyAt, Cur, Sub
  <1> QED BY <1>2, <1>3, <1>4, <1>5, <1>6, <1>7 DEF Environment

LEMMA AuthorInvariance == Spec => []AuthorInv
  <1>1. Init => AuthorInv
    <2> SUFFICES ASSUME Init PROVE AuthorInv
      OBVIOUS
    <2>1. \A r \in Req : req[r].pc = "idle"
      BY DEF Init, Idle, Slot
    <2>2. \A i \in Id : row[PostKey(i)] = None
      BY PostKeys DEF Init
    <2> QED BY <2>1, <2>2, InitIInv DEF AuthorInv, PostKeepsAuthor, AuthorsHold, Updating, At
  <1>2. AuthorInv /\ [Next]_vars => AuthorInv'
    <2> SUFFICES ASSUME AuthorInv, [Next]_vars PROVE AuthorInv'
      OBVIOUS
    <2>1. IInv /\ IInv'
      BY NextIInv DEF AuthorInv
    <2>2. ASSUME NEW r \in Req, Handler(r) PROVE AuthorInv'
      <3>1. Own(r) \/ Decide(r) => OpKind[Cur(r)] \in LwwKind
        BY <2>1, AtStep DEF Own, Decide, At, Working, Shaped, LwwPc, Cur
      <3> QED BY <2>1, <2>2, <3>1, AuthorHandler, AuthorDecides, AuthorWrites
    <2>3. CASE UNCHANGED vars
      BY <2>1, <2>3 DEF vars, AuthorInv, PostKeepsAuthor, AuthorsHold, Updating, At, KeyAt, Cur, Sub
    <2> QED BY <2>1, <2>2, <2>3, AuthorEnvironment DEF Next
  <1> QED BY <1>1, <1>2, PTL DEF Spec

\* While no post is deleted, whatever requests race to create or edit a post of one
\* id, only operations of its author are on it (updateOwn, create).
THEOREM AuthorsKeepTheirPosts == Spec => []PostKeepsAuthor
  <1>1. AuthorInv => PostKeepsAuthor
    BY DEF AuthorInv
  <1> QED BY <1>1, AuthorInvariance, PTL

----------------------------------------------------------------------------
(* One notification for a message *)

\* The requests about to notify of message i, and whether it is stored.
Ringing(i) == {r \in Req : At(r, "notify") /\ OpId[Cur(r)] = i}
Stored(i)  == IF msg[i] # None THEN 1 ELSE 0

\* A notification sent or on its way is one of the message stored, or of one deleted.
BellsInv ==
    /\ IInv
    /\ \A i \in Id : notified[i] + Cardinality(Ringing(i)) <= Stored(i) + spent.deletes

LEMMA RingingFinite ==
    ASSUME NEW i
    PROVE  IsFiniteSet(Ringing(i)) /\ Cardinality(Ringing(i)) \in Nat
  BY FinitelyManyRequests, FS_Subset, FS_CardinalityType DEF Ringing

LEMMA BellsTypes ==
    ASSUME IInv, NEW i \in Id
    PROVE  /\ notified[i] \in Nat /\ Stored(i) \in {0, 1} /\ spent.deletes \in Nat
           /\ Cardinality(Ringing(i)) \in Nat
  BY RingingFinite DEF IInv, TypeOK, Stored

LEMMA BellsAside ==
    ASSUME BellsInv, IInv', UNCHANGED <<msg, notified>>, spent'.deletes = spent.deletes,
           \A s \in Req : req'[s].pc # "notify" \/ req'[s] = req[s]
    PROVE  BellsInv'
  <1> SUFFICES ASSUME NEW i \in Id
               PROVE  notified'[i] + Cardinality(Ringing(i)') <= Stored(i)' + spent'.deletes
    BY DEF BellsInv
  <1>1. Ringing(i)' \subseteq Ringing(i)
    BY DEF Ringing, At, Cur
  <1>2. Cardinality(Ringing(i)') \in Nat /\ Cardinality(Ringing(i)') <= Cardinality(Ringing(i))
    BY <1>1, RingingFinite, FS_Subset, FS_CardinalityType
  <1>3. notified[i] + Cardinality(Ringing(i)) <= Stored(i) + spent.deletes
    BY DEF BellsInv
  <1>4. IInv
    BY DEF BellsInv
  <1>5. Stored(i)' = Stored(i)
    BY DEF Stored
  <1> QED BY <1>2, <1>3, <1>4, <1>5, BellsTypes

LEMMA BellsAdd ==
    ASSUME BellsInv, IInv', NEW r \in Req, AddMessage(r)
    PROVE  BellsInv'
  <1>1. IInv
    BY DEF BellsInv
  <1>2. /\ Elsewhere(r) /\ Cur(r) \in Op /\ OpId[Cur(r)] \in Id /\ Sub(r) \in User
        /\ OpTarget[Cur(r)] \in Id
        /\ UNCHANGED <<notified, spent>> /\ At(r, "add")
    <2>1. Working(req[r]) /\ At(r, "add")
      BY DEF AddMessage, At, Working
    <2>2. OpKind[Cur(r)] = "message"
      BY <1>1, <2>1, AtStep DEF At, Shaped, MsgPc, Cur
    <2> QED BY <1>1, <2>1, <2>2, AtStep, Moves DEF AddMessage
  <1>3. CASE Caught(r) /\ UNCHANGED msg
    BY <1>1, <1>2, <1>3, CaughtGives, BellsAside DEF Elsewhere
  <1>4. CASE /\ msg[OpId[Cur(r)]] = None
             /\ msg' = Added(OpId[Cur(r)], ConvOf(r), Sub(r))
             /\ Goto(r, "notify")
    <2> SUFFICES ASSUME NEW i \in Id
                 PROVE  notified'[i] + Cardinality(Ringing(i)') <= Stored(i)' + spent'.deletes
      BY DEF BellsInv
    <2>1. notified[i] + Cardinality(Ringing(i)) <= Stored(i) + spent.deletes
      BY DEF BellsInv
    <2>2. Keeps(r) /\ req'[r].pc = "notify"
      BY <1>1, <1>4, GotoGives
    <2>3. CASE i = OpId[Cur(r)]
      <3>1. Ringing(i)' = Ringing(i) \cup {r} /\ r \notin Ringing(i)
        BY <1>2, <2>2, <2>3 DEF Ringing, At, Cur, Elsewhere, Keeps
      <3>2. Cardinality(Ringing(i)') = Cardinality(Ringing(i)) + 1
        BY <3>1, RingingFinite, FS_AddElement
      <3>3. Stored(i) = 0
        BY <1>4, <2>3 DEF Stored
      <3>4. Stored(i)' = 1
        <4>1. msg'[i] = [conv |-> ConvOf(r), sender |-> Sub(r)]
          BY <1>1, <1>4, <2>3 DEF IInv, TypeOK
        <4>2. msg'[i] \in Msg
          BY <1>2, <4>1 DEF Msg, ConvOf
        <4> QED BY <4>2, NoneIsNoValue DEF Stored
      <3> QED BY <1>1, <1>2, <2>1, <3>2, <3>3, <3>4, BellsTypes
    <2>4. CASE i # OpId[Cur(r)]
      <3>1. Ringing(i)' = Ringing(i)
        BY <1>2, <2>2, <2>4 DEF Ringing, At, Cur, Elsewhere, Keeps
      <3>2. Stored(i)' = Stored(i)
        BY <1>1, <1>4, <2>4 DEF Stored, IInv, TypeOK
      <3> QED BY <1>2, <2>1, <3>1, <3>2
    <2> QED BY <2>3, <2>4
  <1> QED BY <1>3, <1>4 DEF AddMessage

LEMMA BellsRing ==
    ASSUME BellsInv, IInv', NEW r \in Req, Notify(r)
    PROVE  BellsInv'
  <1>1. IInv
    BY DEF BellsInv
  <1>2. /\ Elsewhere(r) /\ req'[r].pc = "save" /\ OpId[Cur(r)] \in Id
        /\ UNCHANGED <<msg, spent>> /\ At(r, "notify")
        /\ notified' = [notified EXCEPT ![OpId[Cur(r)]] = @ + 1]
    BY <1>1, AtStep, Moves DEF Notify, others, At, Working
  <1> SUFFICES ASSUME NEW i \in Id
               PROVE  notified'[i] + Cardinality(Ringing(i)') <= Stored(i)' + spent'.deletes
    BY DEF BellsInv
  <1>3. /\ notified[i] + Cardinality(Ringing(i)) <= Stored(i) + spent.deletes
        /\ Stored(i)' = Stored(i)
    BY <1>2 DEF BellsInv, Stored
  <1>4. Ringing(i)' = Ringing(i) \ {r}
    BY <1>2 DEF Ringing, At, Cur, Elsewhere
  <1>5. CASE i = OpId[Cur(r)]
    <2>1. r \in Ringing(i)
      BY <1>2, <1>5 DEF Ringing
    <2>2. Cardinality(Ringing(i)') = Cardinality(Ringing(i)) - 1
      BY <1>4, <2>1, RingingFinite, FS_RemoveElement
    <2>3. notified'[i] = notified[i] + 1
      BY <1>1, <1>2, <1>5 DEF IInv, TypeOK
    <2> QED BY <1>1, <1>2, <1>3, <2>2, <2>3, BellsTypes
  <1>6. CASE i # OpId[Cur(r)]
    <2>1. Ringing(i)' = Ringing(i)
      BY <1>4, <1>6 DEF Ringing
    <2>2. notified'[i] = notified[i]
      BY <1>1, <1>2, <1>6 DEF IInv, TypeOK
    <2> QED BY <1>2, <1>3, <2>1, <2>2
  <1> QED BY <1>5, <1>6

LEMMA BellsEnvironment ==
    ASSUME BellsInv, IInv', Environment
    PROVE  BellsInv'
  <1>1. IInv
    BY DEF BellsInv
  <1>2. ASSUME NEW r \in Req, NEW u \in User, NEW ops \in Batches, Receive(r, u, ops)
        PROVE  BellsInv'
    <2>1. \A s \in Req : req'[s].pc # "notify" \/ req'[s] = req[s]
      BY <1>1, <1>2 DEF Receive, Slot, IInv, TypeOK
    <2> QED BY <1>1, <1>2, <2>1, BellsAside DEF Receive, store, IInv, TypeOK
  <1>3. ASSUME NEW r \in Req, Fail(r) PROVE BellsInv'
    <2>1. \A s \in Req : req'[s].pc # "notify" \/ req'[s] = req[s]
      BY <1>1, <1>3, GotoGives, CaughtGives, AbortGives DEF Fail, Throw, At, Lets, Elsewhere
    <2> QED BY <1>1, <1>3, <2>1, BellsAside DEF Fail, store, IInv, TypeOK
  <1>4. CASE Crash
    <2>1. \A s \in Req : req'[s].pc # "notify" \/ req'[s] = req[s]
      BY <1>4 DEF Crash, Idle, Slot
    <2> QED BY <1>1, <1>4, <2>1, BellsAside DEF Crash, store, IInv, TypeOK
  <1>5. ASSUME NEW k \in Keys, NEW u \in User, RestWrite(k, u) PROVE BellsInv'
    BY <1>1, <1>5, BellsAside DEF RestWrite, IInv, TypeOK
  <1>6. CASE Tick
    BY <1>1, <1>6, BellsAside DEF Tick, store, IInv, TypeOK
  <1>7. ASSUME NEW j \in Id, NEW u \in User, RestDelete(j, u) PROVE BellsInv'
    <2> SUFFICES ASSUME NEW i \in Id
                 PROVE  notified'[i] + Cardinality(Ringing(i)') <= Stored(i)' + spent'.deletes
      BY DEF BellsInv
    <2>1. notified' = notified /\ req' = req /\ spent'.deletes = spent.deletes + 1
      BY <1>1, <1>7 DEF RestDelete, IInv, TypeOK
    <2>2. Ringing(i)' = Ringing(i)
      BY <2>1 DEF Ringing, At, Cur
    <2>3. Stored(i) \in {0, 1} /\ Stored(i)' \in {0, 1}
      BY DEF Stored
    <2>4. notified[i] + Cardinality(Ringing(i)) <= Stored(i) + spent.deletes
      BY DEF BellsInv
    <2> QED BY <1>1, <2>1, <2>2, <2>3, <2>4, BellsTypes
  <1> QED BY <1>2, <1>3, <1>4, <1>5, <1>6, <1>7 DEF Environment

\* However often, and however concurrently, the operation of a message is retried,
\* its peer hears of it once, and once more at most for each post that was deleted
\* (sendMessage: the insert of the message comes before the call of notifications).
THEOREM NotifiedOnce == Spec => []NotifiedAtMostOnce
  <1>1. Init => BellsInv
    <2> SUFFICES ASSUME Init PROVE BellsInv
      OBVIOUS
    <2>1. ASSUME NEW i \in Id
          PROVE  notified[i] + Cardinality(Ringing(i)) <= Stored(i) + spent.deletes
      <3>1. Ringing(i) = {}
        BY DEF Init, Idle, Slot, Ringing, At
      <3>2. Cardinality(Ringing(i)) = 0
        BY <3>1, FS_EmptySet
      <3> QED BY <3>2 DEF Init, Stored
    <2> QED BY <2>1, InitIInv DEF BellsInv
  <1>2. BellsInv /\ [Next]_vars => BellsInv'
    <2> SUFFICES ASSUME BellsInv, [Next]_vars PROVE BellsInv'
      OBVIOUS
    <2>1. IInv /\ IInv'
      BY NextIInv DEF BellsInv
    <2>2. ASSUME NEW r \in Req, Handler(r), ~AddMessage(r), ~Notify(r) PROVE BellsInv'
      <3>1. Elsewhere(r) /\ req'[r].pc # "notify"
        BY <2>1, <2>2, Moves, Steps DEF Lets
      <3>2. UNCHANGED <<msg, notified, spent>>
        BY <2>2, OneWriter
      <3> QED BY <2>1, <3>1, <3>2, BellsAside DEF Elsewhere
    <2>3. CASE UNCHANGED vars
      BY <2>1, <2>3, BellsAside DEF vars
    <2> QED BY <2>1, <2>2, <2>3, BellsAdd, BellsRing, BellsEnvironment DEF Next
  <1>3. BellsInv => NotifiedAtMostOnce
    <2> SUFFICES ASSUME BellsInv, NEW i \in Id PROVE notified[i] <= 1 + spent.deletes
      BY DEF NotifiedAtMostOnce
    <2>1. notified[i] + Cardinality(Ringing(i)) <= Stored(i) + spent.deletes
      BY DEF BellsInv
    <2> QED BY <2>1, BellsTypes DEF BellsInv
  <1> QED BY <1>1, <1>2, <1>3, PTL DEF Spec

----------------------------------------------------------------------------
(* One conversation for a user and a post *)

Same(r) == req'[r].todo = req[r].todo /\ req'[r].user = req[r].user

LEMMA Lasting ==
    ASSUME IInv, NEW r \in Req, Handler(r)
    PROVE  Lets(r) \/ Same(r)
  <1>1. ASSUME Read(r) PROVE Same(r)
    <2>1. CASE Finish(r, Rejected(Cur(r)))
      BY <2>1, FinishGives DEF Keeps, Same
    <2>2. CASE req' = [req EXCEPT ![r].pc = "clock", ![r].found = row[KeyAt(r)]]
      BY <2>2 DEF IInv, TypeOK, Request, Same
    <2> QED BY <1>1, <2>1, <2>2 DEF Read
  <1>2. ASSUME StartPost(r) PROVE Same(r)
    <2>1. CASE Caught(r)
      BY <2>1, CaughtGives DEF Keeps, Same
    <2>2. CASE \E x : req' = [req EXCEPT ![r].pc = "pair", ![r].peer = x]
      BY <2>2 DEF IInv, TypeOK, Request, Same
    <2> QED BY <1>2, <2>1, <2>2 DEF StartPost
  <1>3. CASE FindOp(r)
    BY <1>3, GotoGives, FinishGives, CaughtGives, ReturnGives DEF FindOp, Dispatch, Keeps, Same
  <1>4. CASE Save(r) \/ Refind(r) \/ Reply(r)
    BY <1>4, GotoGives, CaughtGives, ReturnGives, AbortGives
       DEF Save, Refind, Reply, Throw, Keeps, Same
  <1>5. CASE Decide(r) \/ Own(r) \/ Write(r) \/ Stamp(r)
    BY <1>5, GotoGives, FinishGives, CaughtGives DEF Decide, Own, Write, Stamp, Keeps, Same
  <1>6. CASE ReadConversation(r) \/ StartFind(r) \/ StartCreate(r) \/ StartRaced(r)
    BY <1>6, GotoGives, FinishGives, CaughtGives
       DEF ReadConversation, StartFind, StartCreate, StartRaced, Keeps, Same
  <1>7. CASE ReadMessage(r) \/ Member(r) \/ AddMessage(r) \/ Notify(r)
    BY <1>7, GotoGives, FinishGives, CaughtGives
       DEF ReadMessage, Member, AddMessage, Notify, Keeps, Same
  <1> QED BY <1>1, <1>2, <1>3, <1>4, <1>5, <1>6, <1>7, Steps

\* The post of the id is there, by that author.
OfPost(i, u) == row[PostKey(i)] # None /\ row[PostKey(i)].owner = u

\* What an outcome says of a conversation: it is there, about the post the operation
\* names, and the user takes part in it.
Joined(o, u, x) ==
    (OpKind[o] = "conversation" /\ x.status = "applied") =>
        /\ conv[x.ref] # None
        /\ conv[x.ref].post = OpTarget[o]
        /\ u \in Participants(conv[x.ref])

TalkKnows(r) ==
    /\ req[r].pc \in {"pair", "create", "raced"} => OfPost(PostOf(r), req[r].peer)
    /\ req[r].pc \in {"save", "refind"} => Joined(Cur(r), Sub(r), req[r].out)

LEMMA RefusedKnows ==
    ASSUME NEW r \in Req, req'[r].pc = "save", NEW o, req'[r].out = Rejected(o)
    PROVE  TalkKnows(r)'
  BY DEF TalkKnows, Joined, Rejected

\* The unique index, and the operation each conversation comes from.
OnePair ==
    \A c, d \in Id : (/\ conv[c] # None /\ conv[d] # None
                      /\ conv[c].post = conv[d].post
                      /\ conv[c].initiator = conv[d].initiator) => c = d

FromItsOp ==
    \A c \in Id : conv[c] # None =>
        \E o \in Op : /\ OpKind[o] = "conversation" /\ OpId[o] = c
                      /\ OpTarget[o] = conv[c].post

PeerIsAuthor == \A c \in Id : conv[c] # None => OfPost(conv[c].post, conv[c].peer)
LogJoined    == \A o \in Op : log[o] # None => Joined(o, log[o].user, log[o].res)

TalksInv ==
    /\ IInv /\ OnePair /\ FromItsOp
    /\ spent.deletes = 0 => /\ PeerIsAuthor /\ LogJoined
                            /\ \A r \in Req : TalkKnows(r)

LEMMA DeletesGrow ==
    ASSUME IInv, [Next]_vars, spent'.deletes = 0
    PROVE  /\ spent.deletes = 0
           /\ \A i \in Id, u \in User : ~RestDelete(i, u)
  <1>1. \A i \in Id, u \in User : ~RestDelete(i, u)
    <2> SUFFICES ASSUME NEW i \in Id, NEW u \in User, RestDelete(i, u) PROVE FALSE
      OBVIOUS
    <2>1. spent'.deletes = spent.deletes + 1 /\ spent.deletes \in Nat
      BY DEF RestDelete, IInv, TypeOK
    <2> QED BY <2>1
  <1>2. ASSUME NEW r \in Req, Handler(r) PROVE spent.deletes = 0
    BY <1>2, OneWriter
  <1>3. ASSUME Environment PROVE spent.deletes = 0
    <2>1. ASSUME NEW r \in Req, NEW u \in User, NEW ops \in Batches, Receive(r, u, ops)
          PROVE  spent.deletes = 0
      BY <2>1 DEF Receive, IInv, TypeOK
    <2>2. ASSUME NEW r \in Req, Fail(r) PROVE spent.deletes = 0
      BY <2>2 DEF Fail, IInv, TypeOK
    <2>3. ASSUME Crash PROVE spent.deletes = 0
      BY <2>3 DEF Crash, IInv, TypeOK
    <2>4. ASSUME NEW k \in Keys, NEW u \in User, RestWrite(k, u) PROVE spent.deletes = 0
      BY <2>4 DEF RestWrite, IInv, TypeOK
    <2>5. ASSUME Tick PROVE spent.deletes = 0
      BY <2>5 DEF Tick
    <2> QED BY <1>1, <1>3, <2>1, <2>2, <2>3, <2>4, <2>5 DEF Environment
  <1>4. ASSUME UNCHANGED vars PROVE spent.deletes = 0
    BY <1>4 DEF vars
  <1> QED BY <1>1, <1>2, <1>3, <1>4 DEF Next

\* A step that leaves the conversations alone: the posts stay, so what was known of
\* the talks still is, once the request that moved and the log are seen to.
LEMMA TalksSteps ==
    ASSUME TalksInv, IInv', [Next]_vars, conv' = conv,
           spent'.deletes = 0 =>
               /\ \A s \in Req : req'[s] = req[s] \/ TalkKnows(s)'
               /\ \A o \in Op : log'[o] = log[o] \/ Joined(o, log'[o].user, log'[o].res)
    PROVE  TalksInv'
  <1>1. IInv /\ OnePair' /\ FromItsOp'
    BY DEF TalksInv, OnePair, FromItsOp
  <1> SUFFICES ASSUME spent'.deletes = 0
               PROVE  PeerIsAuthor' /\ LogJoined' /\ \A r \in Req : TalkKnows(r)'
    BY <1>1 DEF TalksInv
  <1>2. PostsStay /\ spent.deletes = 0
    BY <1>1, RowsStay, DeletesGrow
  <1>3. PeerIsAuthor'
    <2>1. \A c \in Id : conv[c] # None => conv[c].post \in Id
      BY <1>1 DEF IInv, TypeOK, Conv
    <2> QED BY <1>2, <2>1 DEF TalksInv, PeerIsAuthor, OfPost, PostsStay
  <1>4. LogJoined'
    BY <1>2 DEF TalksInv, LogJoined, Joined
  <1>5. ASSUME NEW s \in Req, req'[s] = req[s] PROVE TalkKnows(s)'
    <2>1. TalkKnows(s) /\ Cur(s)' = Cur(s) /\ Sub(s)' = Sub(s) /\ PostOf(s)' = PostOf(s)
      BY <1>2, <1>5 DEF TalksInv, Cur, Sub, PostOf
    <2>2. req[s].pc \in {"pair", "create", "raced"} => PostOf(s) \in Id
      BY <1>1, AtStep DEF Working, Shaped, TalkPc, PostOf, Cur
    <2> QED BY <1>2, <1>5, <2>1, <2>2 DEF TalkKnows, OfPost, PostsStay, Joined
  <1> QED BY <1>2, <1>3, <1>4, <1>5

\* The handlers that have nothing to do with conversations.
LEMMA TalksAside ==
    ASSUME TalksInv, IInv', [Next]_vars, NEW r \in Req, Handler(r),
           ~Save(r), ~Refind(r), ~ApplyConversation(r)
    PROVE  TalksInv'
  <1>1. IInv
    BY DEF TalksInv
  <1>2. Elsewhere(r) /\ UNCHANGED <<conv, log>>
    BY <1>1, Moves, OneWriter, Steps DEF ApplyConversation
  <1>3. TalkKnows(r)'
    <2>1. CASE FindOp(r)
      <3>1. CASE Finish(r, Rejected(Cur(r)))
        BY <1>1, <3>1, FinishGives, RefusedKnows
      <3>2. CASE Caught(r)
        BY <1>1, <3>2, CaughtGives, RefusedKnows
      <3>3. CASE Lets(r) \/ Goto(r, "read")
        BY <1>1, <3>3, GotoGives DEF Lets, TalkKnows
      <3> QED BY <1>1, <2>1, <3>1, <3>2, <3>3, ReturnGives DEF FindOp, Dispatch
    <2>2. CASE Reply(r)
      BY <1>1, <2>2, Moves DEF Lets, TalkKnows
    <2>3. CASE Read(r) \/ Decide(r) \/ Own(r) \/ Write(r) \/ Stamp(r)
      <3>1. OpKind[Cur(r)] # "conversation"
        BY <1>1, <2>3, AtStep DEF Read, Decide, Own, Write, Stamp, At, Working, Shaped, LwwPc,
                                  Cur, LwwKind
      <3>2. ~Lets(r) => Cur(r)' = Cur(r)
        BY <1>1, Lasting DEF Same, Cur
      <3> QED BY <1>1, <2>3, <3>1, <3>2, Moves DEF TalkKnows, Joined, Lets
    <2>4. CASE ReadMessage(r) \/ Member(r) \/ AddMessage(r) \/ Notify(r)
      <3>1. OpKind[Cur(r)] # "conversation"
        BY <1>1, <2>4, AtStep DEF ReadMessage, Member, AddMessage, Notify, At, Working, Shaped,
                                  MsgPc, Cur
      <3>2. ~Lets(r) => Cur(r)' = Cur(r)
        BY <1>1, Lasting DEF Same, Cur
      <3> QED BY <1>1, <2>4, <3>1, <3>2, Moves DEF TalkKnows, Joined, Lets
    <2> QED BY <2>1, <2>2, <2>3, <2>4, Steps DEF ApplyConversation
  <1> QED BY <1>2, <1>3, TalksSteps DEF Elsewhere

\* What the steps that answer or look for a conversation know of it.
LEMMA TalkFacts ==
    ASSUME IInv, NEW r \in Req, ApplyConversation(r)
    PROVE  /\ Cur(r) \in Op /\ Sub(r) \in User /\ OpKind[Cur(r)] = "conversation"
           /\ OpId[Cur(r)] \in Id /\ PostOf(r) \in Id /\ PostOf(r) = OpTarget[Cur(r)]
           /\ req[r].pc \in {"pair", "create", "raced"} => req[r].peer \in User
           /\ Elsewhere(r) /\ UNCHANGED <<log, spent, row>>
  <1>1. Working(req[r]) /\ (OpKind[Cur(r)] = "conversation" \/ req[r].pc \in TalkPc)
    BY DEF ApplyConversation, ReadConversation, StartPost, StartFind, StartCreate, StartRaced,
           At, Working, TalkPc
  <1>2. OpKind[Cur(r)] = "conversation"
    BY <1>1, AtStep DEF Shaped, Cur
  <1>3. UNCHANGED <<log, spent, row>>
    BY DEF ApplyConversation, ReadConversation, StartPost, StartFind, StartCreate, StartRaced,
           store, others
  <1>4. Elsewhere(r)
    BY Moves DEF ApplyConversation
  <1> QED BY <1>1, <1>2, <1>3, <1>4, AtStep DEF Shaped, PostOf

LEMMA AnswersPair ==
    ASSUME IInv, NEW r \in Req, NEW c \in Pair(PostOf(r), Sub(r)), Finish(r, Applied(Cur(r), c)),
           conv' = conv
    PROVE  TalkKnows(r)'
  <1>1. /\ c \in Id /\ conv[c] # None /\ conv[c].post = PostOf(r) /\ conv[c].initiator = Sub(r)
    BY DEF Pair
  <1>2. /\ req'[r].pc = "save" /\ req'[r].out = Applied(Cur(r), c)
        /\ Cur(r)' = Cur(r) /\ Sub(r)' = Sub(r)
    BY FinishGives DEF Keeps, Cur, Sub
  <1>3. req'[r].out.ref = c
    BY <1>2 DEF Applied
  <1> QED BY <1>1, <1>2, <1>3 DEF TalkKnows, Joined, Participants, PostOf

LEMMA TalksAnswer ==
    ASSUME TalksInv, IInv', [Next]_vars, NEW r \in Req,
           ReadConversation(r) \/ StartPost(r) \/ StartFind(r) \/ StartRaced(r)
    PROVE  TalksInv'
  <1>1. IInv /\ ApplyConversation(r) /\ UNCHANGED <<conv, log, row>>
    BY DEF TalksInv, ApplyConversation, ReadConversation, StartPost, StartFind, StartRaced,
           store, others
  <1>2. Elsewhere(r)
    BY <1>1, TalkFacts
  <1> SUFFICES ASSUME spent'.deletes = 0 PROVE TalkKnows(r)'
    BY <1>1, <1>2, TalksSteps DEF Elsewhere
  <1>3. CASE Caught(r)
    BY <1>1, <1>3, CaughtGives, RefusedKnows
  <1>4. CASE ReadConversation(r)
    <2>1. CASE Goto(r, "post")
      BY <1>1, <2>1, GotoGives DEF TalkKnows
    <2>2. CASE Finish(r, Rejected(Cur(r)))
      BY <1>1, <2>2, FinishGives, RefusedKnows
    <2>3. CASE /\ conv[OpId[Cur(r)]] # None
               /\ Sub(r) \in Participants(conv[OpId[Cur(r)]])
               /\ Finish(r, Applied(Cur(r), OpId[Cur(r)]))
      <3>1. PICK p \in Op : /\ OpKind[p] = "conversation" /\ OpId[p] = OpId[Cur(r)]
                            /\ OpTarget[p] = conv[OpId[Cur(r)]].post
        BY <1>1, <2>3, TalkFacts DEF TalksInv, FromItsOp
      <3>2. p = Cur(r)
        BY <1>1, <3>1, TalkFacts, FreshConversationIds
      <3>3. /\ req'[r].pc = "save" /\ req'[r].out = Applied(Cur(r), OpId[Cur(r)])
            /\ Cur(r)' = Cur(r) /\ Sub(r)' = Sub(r)
        BY <1>1, <2>3, FinishGives DEF Keeps, Cur, Sub
      <3>4. req'[r].out.ref = OpId[Cur(r)]
        BY <3>3 DEF Applied
      <3> QED BY <1>1, <2>3, <3>1, <3>2, <3>3, <3>4 DEF TalkKnows, Joined
    <2> QED BY <1>4, <2>1, <2>2, <2>3 DEF ReadConversation
  <1>5. CASE StartPost(r) /\ ~Caught(r)
    <2>1. /\ row[PostKey(PostOf(r))] # None
          /\ req' = [req EXCEPT ![r].pc = "pair", ![r].peer = row[PostKey(PostOf(r))].owner]
      BY <1>5 DEF StartPost
    <2>2. /\ req'[r].pc = "pair" /\ req'[r].peer = row[PostKey(PostOf(r))].owner
          /\ req'[r].todo = req[r].todo
      BY <1>1, <2>1 DEF IInv, TypeOK, Request
    <2>3. PostOf(r)' = PostOf(r)
      BY <2>2 DEF PostOf, Cur
    <2> QED BY <1>1, <2>1, <2>2, <2>3 DEF TalkKnows, OfPost
  <1>6. CASE StartFind(r) \/ StartRaced(r)
    <2>1. CASE \E c \in Pair(PostOf(r), Sub(r)) : Finish(r, Applied(Cur(r), c))
      BY <1>1, <2>1, AnswersPair
    <2>2. CASE StartFind(r) /\ Goto(r, "create")
      <3>1. TalkKnows(r) /\ req[r].pc = "pair"
        BY <1>1, <2>2, DeletesGrow DEF TalksInv, StartFind, At
      <3>2. /\ req'[r].pc = "create" /\ req'[r].peer = req[r].peer /\ PostOf(r)' = PostOf(r)
        BY <1>1, <2>2, GotoGives DEF Keeps, PostOf, Cur
      <3> QED BY <1>1, <3>1, <3>2 DEF TalkKnows, OfPost
    <2> QED BY <1>3, <1>6, <2>1, <2>2 DEF StartFind, StartRaced
  <1> QED BY <1>3, <1>4, <1>5, <1>6

LEMMA TalksCreate ==
    ASSUME TalksInv, IInv', [Next]_vars, NEW r \in Req, StartCreate(r)
    PROVE  TalksInv'
  <1>1. IInv /\ ApplyConversation(r) /\ At(r, "create")
    BY DEF TalksInv, ApplyConversation, StartCreate
  <1>2. /\ Elsewhere(r) /\ UNCHANGED <<log, row, spent>> /\ PostOf(r) \in Id
        /\ OpId[Cur(r)] \in Id /\ Sub(r) \in User /\ req[r].peer \in User
        /\ Cur(r) \in Op /\ OpKind[Cur(r)] = "conversation" /\ PostOf(r) = OpTarget[Cur(r)]
    BY <1>1, TalkFacts DEF At
  <1>3. CASE Caught(r) /\ UNCHANGED conv
    BY <1>1, <1>2, <1>3, CaughtGives, RefusedKnows, TalksSteps DEF Elsewhere
  <1>4. CASE Goto(r, "raced") /\ UNCHANGED conv
    <2>1. spent'.deletes = 0 => TalkKnows(r)'
      <3> SUFFICES ASSUME spent'.deletes = 0 PROVE TalkKnows(r)'
        OBVIOUS
      <3>1. TalkKnows(r)
        BY <1>1, DeletesGrow DEF TalksInv
      <3>2. /\ req'[r].pc = "raced" /\ req'[r].peer = req[r].peer /\ PostOf(r)' = PostOf(r)
        BY <1>1, <1>4, GotoGives DEF Keeps, PostOf, Cur
      <3> QED BY <1>1, <1>2, <3>1, <3>2 DEF TalkKnows, OfPost, At
    <2> QED BY <1>1, <1>2, <1>4, <2>1, TalksSteps DEF Elsewhere
  <1>5. CASE /\ ~Duplicate(OpId[Cur(r)], PostOf(r), Sub(r))
             /\ conv' = Created(OpId[Cur(r)], PostOf(r), Sub(r), req[r].peer)
             /\ Finish(r, Applied(Cur(r), OpId[Cur(r)]))
    <2>1. PICK n \in Conv : /\ n.post = PostOf(r) /\ n.initiator = Sub(r) /\ n.peer = req[r].peer
                            /\ conv' = [conv EXCEPT ![OpId[Cur(r)]] = n]
      <3> DEFINE m == [post |-> PostOf(r), initiator |-> Sub(r), peer |-> req[r].peer]
      <3>1. m \in Conv
        BY <1>2 DEF Conv
      <3>2. /\ m.post = PostOf(r) /\ m.initiator = Sub(r) /\ m.peer = req[r].peer
            /\ conv' = [conv EXCEPT ![OpId[Cur(r)]] = m]
        BY <1>5
      <3> QED BY <3>1, <3>2
    <2>2. PICK i \in Id : i = OpId[Cur(r)]
      BY <1>2
    <2>3. /\ conv[i] = None /\ conv'[i] = n /\ n # None
          /\ \A c \in Id : c # i => conv'[c] = conv[c]
      BY <1>1, <1>5, <2>1, <2>2, NoneIsNoValue DEF IInv, TypeOK
    <2>4. OnePair'
      <3>1. \A c \in Id : conv[c] # None =>
                ~(conv[c].post = n.post /\ conv[c].initiator = n.initiator)
        BY <1>5, <2>1 DEF Pair
      <3> QED BY <2>3, <3>1 DEF TalksInv, OnePair
    <2>5. FromItsOp'
      <3> SUFFICES ASSUME NEW c \in Id, conv'[c] # None
                   PROVE  \E o \in Op : /\ OpKind[o] = "conversation" /\ OpId[o] = c
                                        /\ OpTarget[o] = conv'[c].post
        BY DEF FromItsOp
      <3>1. CASE c = i
        BY <1>2, <2>1, <2>2, <2>3, <3>1
      <3>2. CASE c # i
        BY <2>3, <3>2 DEF TalksInv, FromItsOp
      <3> QED BY <3>1, <3>2
    <2>6. ASSUME spent'.deletes = 0
          PROVE  PeerIsAuthor' /\ LogJoined' /\ \A s \in Req : TalkKnows(s)'
      <3>1. /\ spent.deletes = 0 /\ PeerIsAuthor /\ LogJoined
            /\ \A s \in Req : TalkKnows(s)
        BY <1>1, <2>6, DeletesGrow DEF TalksInv
      <3>2. OfPost(n.post, n.peer)
        BY <1>1, <2>1, <3>1 DEF TalkKnows, At
      <3>3. PeerIsAuthor'
        BY <1>2, <2>3, <3>1, <3>2 DEF PeerIsAuthor, OfPost
      <3>4. \A o \in Op, u \in User, x \in Result : Joined(o, u, x) => Joined(o, u, x)'
        BY <2>3 DEF Joined, Result
      <3>5. LogJoined'
        <4> SUFFICES ASSUME NEW o \in Op, log[o] # None
                     PROVE  \E u, x : u = log[o].user /\ x = log[o].res /\ Joined(o, u, x)'
          BY <1>2 DEF LogJoined, Joined
        <4>1. PICK u \in User, x \in Result : u = log[o].user /\ x = log[o].res
          BY <1>1 DEF IInv, TypeOK, Entry
        <4>2. Joined(o, u, x)
          BY <3>1, <4>1 DEF LogJoined
        <4> QED BY <3>4, <4>1, <4>2
      <3>6. TalkKnows(r)'
        <4>1. /\ req'[r].pc = "save" /\ req'[r].out = Applied(Cur(r), OpId[Cur(r)])
              /\ Cur(r)' = Cur(r) /\ Sub(r)' = Sub(r)
          BY <1>1, <1>5, FinishGives DEF Keeps, Cur, Sub
        <4>2. req'[r].out.ref = i
          BY <2>2, <4>1 DEF Applied
        <4> QED BY <1>2, <2>1, <2>3, <4>1, <4>2 DEF TalkKnows, Joined, Participants
      <3>7. ASSUME NEW s \in Req, s # r PROVE TalkKnows(s)'
        <4>1. /\ req'[s] = req[s] /\ Cur(s)' = Cur(s) /\ Sub(s)' = Sub(s)
              /\ PostOf(s)' = PostOf(s)
          BY <1>2, <3>7 DEF Elsewhere, Cur, Sub, PostOf
        <4>2. req[s].pc \in {"save", "refind"} =>
                Cur(s) \in Op /\ Sub(s) \in User /\ req[s].out \in Result
          BY <1>1, AtStep DEF Working, Shaped
        <4> QED BY <1>2, <3>1, <3>4, <4>1, <4>2 DEF TalkKnows, OfPost, Joined
      <3> QED BY <3>3, <3>5, <3>6, <3>7
    <2> QED BY <2>4, <2>5, <2>6 DEF TalksInv
  <1> QED BY <1>3, <1>4, <1>5 DEF StartCreate

LEMMA TalksPersist ==
    ASSUME TalksInv, IInv', [Next]_vars, NEW r \in Req, Save(r) \/ Refind(r)
    PROVE  TalksInv'
  <1>1. /\ IInv /\ conv' = conv /\ Elsewhere(r) /\ Working(req[r])
        /\ Cur(r) \in Op
    <2>1. IInv /\ Working(req[r])
      BY DEF TalksInv, Save, Refind, At, Working
    <2> QED BY <2>1, AtStep, Moves DEF Save, Refind, store
  <1> SUFFICES ASSUME spent'.deletes = 0
               PROVE  /\ TalkKnows(r)'
                      /\ \A o \in Op : log'[o] = log[o] \/ Joined(o, log'[o].user, log'[o].res)
    BY <1>1, TalksSteps DEF Elsewhere
  <1>2. TalkKnows(r) /\ Joined(Cur(r), Sub(r), req[r].out)
    BY <1>1, DeletesGrow DEF TalksInv, TalkKnows, Save, Refind, At
  <1>3. CASE Lets(r)
    <2>1. TalkKnows(r)'
      BY <1>3 DEF Lets, TalkKnows
    <2>2. ASSUME NEW o \in Op, log'[o] # log[o]
          PROVE  Joined(o, log'[o].user, log'[o].res)
      <3>1. log' = Logged(Cur(r), Sub(r), req[r].out)
        BY <2>2 DEF Save, Refind, store
      <3>2. o = Cur(r) /\ log'[o] = [user |-> Sub(r), res |-> req[r].out]
        BY <1>1, <2>2, <3>1 DEF IInv, TypeOK
      <3>3. log'[o].user = Sub(r) /\ log'[o].res = req[r].out
        BY <3>2
      <3> QED BY <1>2, <3>2, <3>3
    <2> QED BY <2>1, <2>2
  <1>4. CASE Caught(r) /\ log' = log
    BY <1>1, <1>4, CaughtGives, RefusedKnows
  <1>5. CASE Goto(r, "refind") /\ log' = log
    <2>1. /\ req'[r].pc = "refind" /\ req'[r].out = req[r].out
          /\ Cur(r)' = Cur(r) /\ Sub(r)' = Sub(r)
      BY <1>1, <1>5, GotoGives DEF Keeps, Cur, Sub
    <2> QED BY <1>1, <1>2, <1>5, <2>1 DEF TalkKnows, Joined
  <1> QED BY <1>1, <1>3, <1>4, <1>5, ReturnGives, AbortGives DEF Save, Refind, Throw, store

LEMMA TalksEnvironment ==
    ASSUME TalksInv, IInv', [Next]_vars, Environment
    PROVE  TalksInv'
  <1>1. IInv
    BY DEF TalksInv
  <1>2. ASSUME NEW r \in Req, NEW u \in User, NEW ops \in Batches, Receive(r, u, ops)
        PROVE  TalksInv'
    <2>1. Elsewhere(r) /\ TalkKnows(r)'
      BY <1>1, <1>2 DEF Receive, Slot, Elsewhere, IInv, TypeOK, TalkKnows
    <2> QED BY <1>2, <2>1, TalksSteps DEF Receive, store, Elsewhere
  <1>3. ASSUME NEW r \in Req, Fail(r) PROVE TalksInv'
    <2>1. conv' = conv /\ log' = log
      BY <1>3 DEF Fail, store
    <2>2. CASE Abort(r)
      <3>1. Elsewhere(r) /\ TalkKnows(r)'
        BY <1>1, <2>2, AbortGives DEF TalkKnows
      <3> QED BY <2>1, <3>1, TalksSteps DEF Elsewhere
    <2>3. CASE Caught(r)
      <3>1. Elsewhere(r) /\ TalkKnows(r)'
        BY <1>1, <2>3, CaughtGives, RefusedKnows
      <3> QED BY <2>1, <3>1, TalksSteps DEF Elsewhere
    <2>4. CASE At(r, "save") /\ Goto(r, "refind")
      <3>1. /\ req'[r].pc = "refind" /\ req'[r].out = req[r].out /\ Elsewhere(r)
            /\ Cur(r)' = Cur(r) /\ Sub(r)' = Sub(r)
        BY <1>1, <2>4, GotoGives DEF Keeps, Cur, Sub
      <3>2. spent'.deletes = 0 => TalkKnows(r)'
        <4> SUFFICES ASSUME spent'.deletes = 0 PROVE TalkKnows(r)'
          OBVIOUS
        <4>1. TalkKnows(r)
          BY <1>1, DeletesGrow DEF TalksInv
        <4> QED BY <2>1, <2>4, <3>1, <4>1 DEF TalkKnows, Joined, At
      <3> QED BY <2>1, <3>1, <3>2, TalksSteps DEF Elsewhere
    <2> QED BY <1>3, <2>2, <2>3, <2>4 DEF Fail, Throw
  <1>4. CASE Crash
    <2>1. \A s \in Req : TalkKnows(s)'
      BY <1>4 DEF Crash, Idle, Slot, TalkKnows
    <2> QED BY <1>4, <2>1, TalksSteps DEF Crash, store
  <1>5. ASSUME NEW k \in Keys, NEW u \in User, RestWrite(k, u) PROVE TalksInv'
    BY <1>5, TalksSteps DEF RestWrite
  <1>6. CASE Tick
    BY <1>6, TalksSteps DEF Tick, store
  <1>7. ASSUME NEW i \in Id, NEW u \in User, RestDelete(i, u) PROVE TalksInv'
    <2>1. spent'.deletes # 0
      BY <1>1, <1>7, DeletesGrow
    <2>2. \A c \in Id : conv'[c] = conv[c] \/ conv'[c] = None
      BY <1>7 DEF RestDelete
    <2>3. OnePair' /\ FromItsOp'
      BY <2>2 DEF TalksInv, OnePair, FromItsOp
    <2> QED BY <2>1, <2>3 DEF TalksInv
  <1> QED BY <1>2, <1>3, <1>4, <1>5, <1>6, <1>7 DEF Environment

\* Devices of one user that race to open a conversation about one post all end up
\* with the same one, through any retries, crashes and failing calls, while no post
\* is deleted (start: the unique index, and the second look after it refused).
THEOREM OneConversation == Spec => []ConversationsConverge
  <1>1. Init => TalksInv
    <2> SUFFICES ASSUME Init PROVE TalksInv
      OBVIOUS
    <2>1. \A r \in Req : TalkKnows(r)
      BY DEF Init, Idle, Slot, TalkKnows
    <2> QED BY <2>1, InitIInv DEF Init, TalksInv, OnePair, FromItsOp, PeerIsAuthor, LogJoined
  <1>2. TalksInv /\ [Next]_vars => TalksInv'
    <2> SUFFICES ASSUME TalksInv, [Next]_vars PROVE TalksInv'
      OBVIOUS
    <2>1. IInv /\ IInv'
      BY NextIInv DEF TalksInv
    <2>2. ASSUME NEW r \in Req, Handler(r) PROVE TalksInv'
      BY <2>1, <2>2, TalksAside, TalksPersist, TalksAnswer, TalksCreate DEF ApplyConversation
    <2>3. CASE UNCHANGED vars
      BY <2>1, <2>3, TalksSteps DEF vars
    <2> QED BY <2>1, <2>2, <2>3, TalksEnvironment DEF Next
  <1>3. TalksInv => ConversationsConverge
    <2> SUFFICES ASSUME TalksInv, spent.deletes = 0, NEW o \in Op, NEW p \in Op,
                        Opened(o), Opened(p), OpTarget[o] = OpTarget[p],
                        log[o].user = log[p].user, Anothers(OpTarget[o], log[o].user)
                 PROVE  log[o].res.ref = log[p].res.ref
      BY DEF ConversationsConverge
    <2>1. PICK c \in Id, d \in Id : c = log[o].res.ref /\ d = log[p].res.ref
      BY DEF TalksInv, IInv, TypeOK, Opened, Entry, Result
    <2>2. /\ conv[c] # None /\ conv[c].post = OpTarget[o]
          /\ log[o].user \in Participants(conv[c])
          /\ conv[d] # None /\ conv[d].post = OpTarget[o]
          /\ log[o].user \in Participants(conv[d])
      BY <2>1 DEF TalksInv, LogJoined, Joined, Opened
    <2>3. conv[c].peer # log[o].user /\ conv[d].peer # log[o].user
      BY <2>2 DEF TalksInv, PeerIsAuthor, OfPost, Anothers
    <2>4. conv[c].initiator = log[o].user /\ conv[d].initiator = log[o].user
      BY <2>2, <2>3 DEF Participants
    <2> QED BY <2>1, <2>2, <2>4 DEF TalksInv, OnePair
  <1> QED BY <1>1, <1>2, <1>3, PTL DEF Spec

----------------------------------------------------------------------------
(* Last write wins, when requests do not overlap *)

\* At most one request is in flight.
OneAtATime == \A r, s \in Req : (req[r].pc # "idle" /\ req[s].pc # "idle") => r = s

\* No settled write is newer than its clock, no clock than the write on its row.
SettledBelow == \A k \in Keys : \A o \in Settled(k) : OpTs[o] <= clock[k]

RowsAbove ==
    \A k \in Keys : (row[k] # None /\ row[k].by # Rest) => OpTs[row[k].by] >= clock[k]

\* What a request knows of the clock of its key, from decideLww to persist.
Ahead(r) ==
    /\ req[r].pc \in {"own", "write"} => OpTs[Cur(r)] > clock[KeyAt(r)]
    /\ req[r].pc = "stamp" =>
          /\ OpTs[Cur(r)] >= clock[KeyAt(r)]
          /\ (row[KeyAt(r)] # None /\ row[KeyAt(r)].by # Rest) =>
                OpTs[row[KeyAt(r)].by] >= OpTs[Cur(r)]
    /\ (/\ req[r].pc \in {"save", "refind"} /\ OpKind[Cur(r)] \in LwwKind
        /\ req[r].out.status # "rejected") => OpTs[Cur(r)] <= clock[KeyAt(r)]

NewestInv == IInv /\ SettledBelow /\ RowsAbove /\ \A r \in Req : Ahead(r)

LEMMA Types ==
    ASSUME IInv
    PROVE  /\ \A k \in Keys : clock[k] \in Nat /\ (row[k] = None \/ row[k] \in Row)
           /\ \A o \in Op : OpTs[o] \in Nat /\ OpTs[o] > 0
  BY DEF IInv, TypeOK

\* A step of the only request in flight.
LEMMA NewestSteps ==
    ASSUME NewestInv, OneAtATime, IInv', NEW r \in Req, req[r].pc # "idle", Elsewhere(r),
           Ahead(r)', SettledBelow', RowsAbove'
    PROVE  NewestInv'
  <1>1. ASSUME NEW s \in Req, s # r PROVE Ahead(s)'
    <2>1. req'[s].pc = "idle"
      BY <1>1 DEF OneAtATime, Elsewhere
    <2> QED BY <2>1 DEF Ahead
  <1> QED BY <1>1 DEF NewestInv

LEMMA TablesKept ==
    ASSUME SettledBelow, RowsAbove, UNCHANGED <<log, row, clock>>
    PROVE  SettledBelow' /\ RowsAbove'
  BY DEF SettledBelow, RowsAbove, Settled

LEMMA NewestAside ==
    ASSUME NewestInv, OneAtATime, IInv', NEW r \in Req, req[r].pc # "idle", Elsewhere(r),
           Ahead(r)', UNCHANGED <<log, row, clock>>
    PROVE  NewestInv'
  BY TablesKept, NewestSteps DEF NewestInv

LEMMA RefusedAhead ==
    ASSUME NEW r \in Req, req'[r].pc = "save", NEW o, req'[r].out = Rejected(o)
    PROVE  Ahead(r)'
  BY DEF Ahead, Rejected

LEMMA LetAhead ==
    ASSUME NEW r \in Req,
           req'[r].pc \notin {"own", "write", "stamp", "save", "refind"}
    PROVE  Ahead(r)'
  BY DEF Ahead

\* The steps that have nothing to do with clocks.
LEMMA NewestHandler ==
    ASSUME NewestInv, OneAtATime, IInv', NEW r \in Req, Handler(r),
           ~Decide(r), ~Own(r), ~Write(r), ~Stamp(r), ~Save(r), ~Refind(r)
    PROVE  NewestInv'
  <1>1. IInv /\ req[r].pc # "idle"
    BY Steps DEF NewestInv, FindOp, Reply, Read, ReadConversation, StartPost, StartFind,
                 StartCreate, StartRaced, ReadMessage, Member, AddMessage, Notify, At
  <1>2. Elsewhere(r) /\ UNCHANGED <<log, row, clock>>
    BY <1>1, Moves, OneWriter, Steps
  <1>3. Ahead(r)'
    <2>1. CASE FindOp(r) \/ Read(r)
      <3>1. CASE Finish(r, Rejected(Cur(r)))
        BY <1>1, <3>1, FinishGives, RefusedAhead
      <3>2. CASE Caught(r)
        BY <1>1, <3>2, CaughtGives, RefusedAhead
      <3>3. CASE Lets(r) \/ Goto(r, "read")
        BY <1>1, <3>3, GotoGives, LetAhead DEF Lets
      <3>4. CASE Read(r) /\ ~Finish(r, Rejected(Cur(r)))
        <4>1. req' = [req EXCEPT ![r].pc = "clock", ![r].found = row[KeyAt(r)]]
          BY <3>4 DEF Read
        <4>2. req'[r].pc = "clock"
          BY <1>1, <4>1 DEF IInv, TypeOK, Request
        <4> QED BY <4>2, LetAhead
      <3> QED BY <1>1, <2>1, <3>1, <3>2, <3>3, <3>4, ReturnGives DEF FindOp, Dispatch
    <2>2. CASE Reply(r)
      BY <1>1, <2>2, Moves, LetAhead DEF Lets
    <2>3. CASE ApplyConversation(r)
      <3>1. OpKind[Cur(r)] \notin LwwKind
        BY <1>1, <2>3, TalkFacts DEF LwwKind
      <3>2. ~Lets(r) => Cur(r)' = Cur(r)
        BY <1>1, Lasting DEF Same, Cur
      <3> QED BY <1>1, <2>3, <3>1, <3>2, Moves DEF Ahead, Lets, ApplyConversation
    <2>4. CASE ReadMessage(r) \/ Member(r) \/ AddMessage(r) \/ Notify(r)
      <3>1. OpKind[Cur(r)] \notin LwwKind
        BY <1>1, <2>4, AtStep DEF ReadMessage, Member, AddMessage, Notify, At, Working, Shaped,
                                  MsgPc, Cur, LwwKind
      <3>2. ~Lets(r) => Cur(r)' = Cur(r)
        BY <1>1, Lasting DEF Same, Cur
      <3> QED BY <1>1, <2>4, <3>1, <3>2, Moves DEF Ahead, Lets
    <2> QED BY <2>1, <2>2, <2>3, <2>4, Steps DEF ApplyConversation
  <1> QED BY <1>1, <1>2, <1>3, NewestAside

\* A handler of the last-write-wins entities between its steps.
LEMMA LwwFacts ==
    ASSUME IInv, NEW r \in Req, Decide(r) \/ Own(r) \/ Write(r) \/ Stamp(r)
    PROVE  /\ req[r].pc # "idle" /\ Elsewhere(r) /\ UNCHANGED <<log, spent>>
           /\ Cur(r) \in Op /\ Sub(r) \in User /\ OpKind[Cur(r)] \in LwwKind
           /\ KeyAt(r) \in Keys
           /\ Cur(r)' = Cur(r) /\ KeyAt(r)' = KeyAt(r)
  <1>1. req[r].pc \in LwwPc /\ Working(req[r]) /\ req[r].pc # "idle"
    BY DEF Decide, Own, Write, Stamp, At, LwwPc, Working
  <1>2. /\ Cur(r) \in Op /\ Sub(r) \in User /\ OpKind[Cur(r)] \in LwwKind
        /\ KeyAt(r) \in Keys
    BY <1>1, AtStep DEF Shaped, Cur
  <1>3. Elsewhere(r) /\ UNCHANGED <<log, spent>>
    BY Moves DEF Decide, Own, Write, Stamp, store, others
  <1>4. Keeps(r)
    BY GotoGives, FinishGives, CaughtGives DEF Decide, Own, Write, Stamp
  <1> QED BY <1>1, <1>2, <1>3, <1>4 DEF Keeps, Cur, Sub, KeyAt

LEMMA Decided ==
    ASSUME IInv, NEW r \in Req, Decide(r)
    PROVE  \/ /\ req'[r].pc = "save" /\ req'[r].out.status = "rejected"
           \/ /\ req'[r].pc = "save" /\ req'[r].out.status = "conflict"
              /\ req'[r].out.rec = Version(req[r].found)
              /\ clock[KeyAt(r)] # 0 /\ OpTs[Cur(r)] <= clock[KeyAt(r)]
           \/ /\ req'[r].pc \in {"own", "write"}
              /\ OpTs[Cur(r)] > clock[KeyAt(r)]
  <1> DEFINE d == DecideLww(OpTs[Cur(r)], clock[KeyAt(r)], req[r].at)
  <1>1. /\ d \in {"rejected", "conflict", "apply"}
        /\ d = "apply" => OpTs[Cur(r)] > clock[KeyAt(r)]
        /\ d = "conflict" => clock[KeyAt(r)] # 0 /\ OpTs[Cur(r)] <= clock[KeyAt(r)]
    BY LwwFacts, Types DEF DecideLww
  <1>2. CASE d # "apply"
    <2>1. Finish(r, [status |-> d, ref |-> OpId[Cur(r)], rec |-> Version(req[r].found)])
      BY <1>2 DEF Decide
    <2>2. /\ req'[r].pc = "save"
          /\ req'[r].out = [status |-> d, ref |-> OpId[Cur(r)], rec |-> Version(req[r].found)]
      BY <2>1, FinishGives
    <2>3. req'[r].out.status = d /\ req'[r].out.rec = Version(req[r].found)
      BY <2>2
    <2> QED BY <1>1, <1>2, <2>2, <2>3
  <1>3. CASE d = "apply"
    <2>1. Goto(r, "own") \/ Goto(r, "write")
      BY <1>3 DEF Decide
    <2> QED BY <1>1, <1>3, <2>1, GotoGives
  <1> QED BY <1>2, <1>3

LEMMA NewestLww ==
    ASSUME NewestInv, OneAtATime, IInv', NEW r \in Req,
           Decide(r) \/ Own(r) \/ Write(r) \/ Stamp(r)
    PROVE  NewestInv'
  <1>1. IInv /\ Ahead(r)
    BY DEF NewestInv
  <1>2. CASE Decide(r)
    <2>1. Ahead(r)'
      BY <1>1, <1>2, Decided, LwwFacts DEF Ahead, Decide, store
    <2> QED BY <1>1, <1>2, <2>1, LwwFacts, NewestAside DEF Decide, store
  <1>3. CASE Own(r)
    <2>1. CASE Goto(r, "write")
      <3>1. Ahead(r)'
        BY <1>1, <1>3, <2>1, GotoGives, LwwFacts DEF Ahead, Own, store, At
      <3> QED BY <1>1, <1>3, <3>1, LwwFacts, NewestAside DEF Own, store
    <2>2. CASE Finish(r, Rejected(Cur(r)))
      BY <1>1, <1>3, <2>2, FinishGives, RefusedAhead, LwwFacts, NewestAside DEF Own, store
    <2> QED BY <1>3, <2>1, <2>2 DEF Own
  <1>4. CASE Write(r)
    <2>1. CASE UNCHANGED row /\ req'[r].pc = "save" /\ req'[r].out = Rejected(Cur(r))
      BY <1>1, <1>4, <2>1, RefusedAhead, LwwFacts, WriteFacts, NewestAside
    <2>2. CASE Rewrites(KeyAt(r), Sub(r), Cur(r)) /\ req'[r].pc = "stamp"
      <3>1. PICK k \in Keys, u \in User, o \in Op :
              k = KeyAt(r) /\ u = Sub(r) /\ o = Cur(r) /\ Rewrites(k, u, o)
        BY <1>1, <1>4, <2>2, LwwFacts
      <3>2. /\ row'[k].by = o /\ row'[k] # None
            /\ \A j \in Keys : j # k => row'[j] = row[j]
        BY <1>1, <3>1, WrittenRow
      <3>3. OpTs[o] > clock[k] /\ clock' = clock
        BY <1>1, <1>4, <3>1, WriteFacts DEF Ahead, At
      <3>4. OpTs[o] >= clock[k]
        BY <1>1, <3>1, <3>3, Types
      <3>5. RowsAbove'
        BY <3>2, <3>3, <3>4 DEF NewestInv, RowsAbove
      <3>6. SettledBelow'
        BY <1>1, <1>4, <3>3, LwwFacts DEF NewestInv, SettledBelow, Settled
      <3>7. Ahead(r)'
        BY <1>1, <1>4, <2>2, <3>1, <3>2, <3>3, <3>4, LwwFacts, Types DEF Ahead
      <3> QED BY <1>1, <1>4, <3>5, <3>6, <3>7, LwwFacts, NewestSteps
    <2> QED BY <1>1, <1>4, <2>1, <2>2, WriteFacts
  <1>5. CASE Stamp(r)
    <2>1. PICK k \in Keys, o \in Op : k = KeyAt(r) /\ o = Cur(r)
      BY <1>1, <1>5, LwwFacts
    <2>2. /\ clock' = [clock EXCEPT ![k] = OpTs[o]] /\ row' = row
          /\ Finish(r, Applied(o, OpId[o])) /\ At(r, "stamp")
      BY <1>5, <2>1 DEF Stamp
    <2>3. /\ clock'[k] = OpTs[o] /\ \A j \in Keys : j # k => clock'[j] = clock[j]
      BY <1>1, <2>2 DEF IInv, TypeOK
    <2>4. /\ OpTs[o] >= clock[k]
          /\ (row[k] # None /\ row[k].by # Rest) => OpTs[row[k].by] >= OpTs[o]
      BY <1>1, <2>1, <2>2 DEF Ahead, At
    <2>5. RowsAbove'
      BY <2>2, <2>3, <2>4 DEF NewestInv, RowsAbove
    <2>6. SettledBelow'
      <3> SUFFICES ASSUME NEW j \in Keys, NEW p \in Settled(j) PROVE OpTs[p] <= clock'[j]
        BY <1>1, <1>5, LwwFacts DEF SettledBelow, Settled
      <3>1. OpTs[p] <= clock[j] /\ p \in Op
        BY DEF NewestInv, SettledBelow, Settled, LwwOp
      <3> QED BY <1>1, <2>3, <2>4, <3>1, Types
    <2>7. Ahead(r)'
      BY <1>1, <1>5, <2>1, <2>2, <2>3, FinishGives, LwwFacts, Types DEF Ahead
    <2> QED BY <1>1, <1>5, <2>5, <2>6, <2>7, LwwFacts, NewestSteps
  <1> QED BY <1>2, <1>3, <1>4, <1>5

LEMMA NewestPersist ==
    ASSUME NewestInv, OneAtATime, IInv', NEW r \in Req, Save(r) \/ Refind(r)
    PROVE  NewestInv'
  <1>1. /\ IInv /\ Ahead(r) /\ req[r].pc # "idle" /\ Working(req[r])
        /\ req[r].pc \in {"save", "refind"}
    BY DEF NewestInv, Save, Refind, At, Working
  <1>2. /\ Elsewhere(r) /\ UNCHANGED <<row, clock>>
        /\ Cur(r) \in Op /\ Sub(r) \in User /\ req[r].out \in Result
    BY <1>1, AtStep, Moves DEF Save, Refind, store, Shaped
  <1>3. CASE log' = log
    <2>1. CASE Lets(r)
      BY <1>1, <1>2, <1>3, <2>1, LetAhead, NewestAside DEF Lets
    <2>2. CASE Caught(r)
      BY <1>1, <1>2, <1>3, <2>2, CaughtGives, RefusedAhead, NewestAside
    <2>3. CASE Goto(r, "refind")
      <3>1. /\ req'[r].pc = "refind" /\ req'[r].out = req[r].out
            /\ Cur(r)' = Cur(r) /\ KeyAt(r)' = KeyAt(r)
        BY <1>1, <2>3, GotoGives DEF Keeps, Cur, Sub, KeyAt
      <3>2. Ahead(r)'
        BY <1>1, <1>2, <3>1 DEF Ahead
      <3> QED BY <1>1, <1>2, <1>3, <3>2, NewestAside
    <2> QED BY <1>1, <1>3, <2>1, <2>2, <2>3, ReturnGives, AbortGives DEF Save, Refind, Throw
  <1>4. CASE log' # log
    <2>1. /\ log' = [log EXCEPT ![Cur(r)] = [user |-> Sub(r), res |-> req[r].out]]
          /\ Return(r, req[r].out)
      BY <1>4 DEF Save, Refind, store
    <2>2. PICK o \in Op, u \in User, x \in Result : o = Cur(r) /\ u = Sub(r) /\ x = req[r].out
      BY <1>2
    <2>3. /\ log'[o].user = u /\ log'[o].res = x
          /\ \A p \in Op : p # o => log'[p] = log[p]
      BY <1>1, <2>1, <2>2 DEF IInv, TypeOK
    <2>4. Ahead(r)' /\ RowsAbove'
      BY <1>1, <1>2, <2>1, ReturnGives, LetAhead DEF Lets, NewestInv, RowsAbove
    <2>5. SettledBelow'
      <3> SUFFICES ASSUME NEW k \in Keys, NEW p \in Settled(k)' PROVE OpTs[p] <= clock[k]
        BY <1>2 DEF SettledBelow
      <3>1. /\ p \in Op /\ OpKind[p] \in LwwKind /\ KeyOf(p, log'[p].user) = k
            /\ log'[p].res.status # "rejected" /\ p \in LwwOp /\ log'[p] # None
        BY DEF Settled, LwwOp
      <3>2. CASE p = o
        <4>1. KeyAt(r) = k /\ req[r].out.status # "rejected" /\ OpKind[Cur(r)] \in LwwKind
          BY <2>2, <2>3, <3>1, <3>2 DEF KeyAt
        <4> QED BY <1>1, <2>2, <3>2, <4>1 DEF Ahead
      <3>3. CASE p # o
        BY <2>3, <3>1, <3>3 DEF NewestInv, SettledBelow, Settled
      <3> QED BY <3>2, <3>3
    <2> QED BY <1>1, <1>2, <2>4, <2>5, NewestSteps
  <1> QED BY <1>3, <1>4

\* What the REST endpoints do to a row takes nothing from what a request knows.
LEMMA AheadKept ==
    ASSUME IInv, NEW s \in Req, Ahead(s), req'[s] = req[s], clock' = clock,
           \A k \in Keys : row'[k] = row[k] \/ row'[k] = None \/ row'[k].by = Rest
    PROVE  Ahead(s)'
  <1>1. Cur(s)' = Cur(s) /\ KeyAt(s)' = KeyAt(s)
    BY DEF Cur, Sub, KeyAt
  <1>2. req[s].pc = "stamp" => KeyAt(s) \in Keys
    BY AtStep DEF Working, Shaped, LwwPc, Cur
  <1> QED BY <1>1, <1>2 DEF Ahead

LEMMA RestRows ==
    ASSUME NewestInv, IInv', req' = req, clock' = clock, log' = log,
           \A k \in Keys : row'[k] = row[k] \/ row'[k] = None \/ row'[k].by = Rest
    PROVE  NewestInv'
  <1>1. \A s \in Req : Ahead(s)'
    BY AheadKept DEF NewestInv
  <1>2. RowsAbove' /\ SettledBelow'
    BY DEF NewestInv, RowsAbove, SettledBelow, Settled
  <1> QED BY <1>1, <1>2 DEF NewestInv

LEMMA NewestEnvironment ==
    ASSUME NewestInv, OneAtATime, IInv', Environment
    PROVE  NewestInv'
  <1>1. IInv
    BY DEF NewestInv
  <1>2. ASSUME NEW r \in Req, NEW u \in User, NEW ops \in Batches, Receive(r, u, ops)
        PROVE  NewestInv'
    <2>1. Elsewhere(r) /\ req'[r].pc = "find" /\ UNCHANGED <<log, row, clock>>
      BY <1>1, <1>2 DEF Receive, Slot, Elsewhere, store, IInv, TypeOK
    <2>2. \A s \in Req : Ahead(s)'
      BY <1>1, <2>1, AheadKept, LetAhead DEF NewestInv, Elsewhere
    <2> QED BY <2>1, <2>2, TablesKept DEF NewestInv
  <1>3. ASSUME NEW r \in Req, Fail(r) PROVE NewestInv'
    <2>1. req[r].pc # "idle" /\ UNCHANGED <<log, row, clock>> /\ Ahead(r)
      BY <1>3 DEF Fail, At, store, NewestInv
    <2>2. CASE Abort(r)
      BY <1>1, <2>1, <2>2, AbortGives, LetAhead, NewestAside
    <2>3. CASE Caught(r)
      BY <1>1, <2>1, <2>3, CaughtGives, RefusedAhead, NewestAside
    <2>4. CASE At(r, "save") /\ Goto(r, "refind")
      <3>1. /\ req'[r].pc = "refind" /\ req'[r].out = req[r].out /\ Elsewhere(r)
            /\ Cur(r)' = Cur(r) /\ KeyAt(r)' = KeyAt(r)
        BY <1>1, <2>4, GotoGives DEF Keeps, Cur, Sub, KeyAt
      <3>2. Ahead(r)'
        BY <2>1, <2>4, <3>1 DEF Ahead, At
      <3> QED BY <2>1, <3>1, <3>2, NewestAside
    <2> QED BY <1>3, <2>2, <2>3, <2>4 DEF Fail, Throw
  <1>4. CASE Crash
    <2>1. \A s \in Req : Ahead(s)'
      BY <1>4 DEF Crash, Idle, Slot, Ahead
    <2> QED BY <1>4, <2>1, TablesKept DEF Crash, store, NewestInv
  <1>5. ASSUME NEW k \in Keys, NEW u \in User, RestWrite(k, u) PROVE NewestInv'
    <2>1. Rewrites(k, u, Rest)
      BY <1>5 DEF RestWrite, Rewrites
    <2>2. row'[k].by = Rest /\ \A j \in Keys : j # k => row'[j] = row[j]
      BY <1>1, <2>1, WrittenRow
    <2> QED BY <1>5, <2>2, RestRows DEF RestWrite
  <1>6. ASSUME NEW i \in Id, NEW u \in User, RestDelete(i, u) PROVE NewestInv'
    <2>1. \A k \in Keys : row'[k] = row[k] \/ row'[k] = None
      BY <1>1, <1>6 DEF RestDelete, IInv, TypeOK
    <2> QED BY <1>6, <2>1, RestRows DEF RestDelete
  <1>7. CASE Tick
    BY <1>7, RestRows DEF Tick, store
  <1> QED BY <1>2, <1>3, <1>4, <1>5, <1>6, <1>7 DEF Environment

LEMMA NewestInit == Init => NewestInv
  <1> SUFFICES ASSUME Init PROVE NewestInv
    OBVIOUS
  <1>1. \A r \in Req : Ahead(r)
    BY DEF Init, Idle, Slot, Ahead
  <1>2. SettledBelow /\ RowsAbove
    BY DEF Init, SettledBelow, RowsAbove, Settled, LwwOp
  <1> QED BY <1>1, <1>2, InitIInv DEF NewestInv

LEMMA NewestNext == NewestInv /\ OneAtATime /\ [Next]_vars => NewestInv'
  <1> SUFFICES ASSUME NewestInv, OneAtATime, [Next]_vars PROVE NewestInv'
    OBVIOUS
  <1>1. IInv /\ IInv'
    BY NextIInv DEF NewestInv
  <1>2. ASSUME NEW r \in Req, Handler(r) PROVE NewestInv'
    BY <1>1, <1>2, NewestHandler, NewestLww, NewestPersist
  <1>3. CASE UNCHANGED vars
    BY <1>1, <1>3, RestRows DEF vars
  <1> QED BY <1>1, <1>2, <1>3, NewestEnvironment DEF Next

\* Last write wins: while no two requests overlap, a row that REST has not rewritten
\* holds the newest write of all that were answered "applied" or "conflict", through
\* crashes between a write and its stamp, failing calls, and REST writes and deletes
\* in between (decideLww, setClock).  It is false of requests that overlap.
THEOREM NewestWinsAlone == Spec /\ []OneAtATime => []NewestWins
  <1>1. NewestInv => NewestWins
    <2> SUFFICES ASSUME NewestInv, NEW k \in Keys, NEW o \in Settled(k),
                        row[k] # None, row[k].by # Rest
                 PROVE  OpTs[row[k].by] >= OpTs[o]
      BY DEF NewestWins
    <2>1. IInv /\ o \in Op /\ row[k] \in Row
      BY Types DEF NewestInv, Settled, LwwOp
    <2>2. OpTs[o] <= clock[k] /\ clock[k] <= OpTs[row[k].by] /\ row[k].by \in Op
      BY <2>1, Types DEF NewestInv, SettledBelow, RowsAbove, Row
    <2> QED BY <2>1, <2>2, Types
  <1> QED BY <1>1, NewestInit, NewestNext, PTL DEF Spec

----------------------------------------------------------------------------
(* The losers leave no trace, when nothing disturbs the requests *)

\* No crash, no call that throws, no write or delete through the REST endpoints.
Undisturbed ==
    spent.crashes = 0 /\ spent.fails = 0 /\ spent.rests = 0 /\ spent.deletes = 0

\* An operation that was written is recorded "applied", or about to be.
Told(o) == log[o] # None /\ log[o].res.status = "applied"

InHand(r, o) ==
    /\ Cur(r) = o
    /\ \/ req[r].pc \in {"stamp", "notify"}
       \/ req[r].pc = "save" /\ req[r].out.status = "applied"

Accounted == \A o \in written : Told(o) \/ \E r \in Req : InHand(r, o)

\* A request works only on operations without an outcome.
Untold(r) ==
    /\ req[r].pc # "refind"
    /\ req[r].pc \notin {"idle", "find", "delta"} => log[Cur(r)] = None

\* A row that has a clock is there, as an operation wrote it.
RowsStand ==
    \A k \in Keys : /\ clock[k] # 0 => row[k] # None
                    /\ row[k] # None => row[k].by \in Op

\* The row a request read is the row there is, and a conflict shows a newer one.
Sees(r) ==
    /\ At(r, "stamp") => row[KeyAt(r)] # None
    /\ At(r, "clock") => req[r].found = row[KeyAt(r)]
    /\ (At(r, "save") /\ req[r].out.status = "conflict") =>
          req[r].out.rec \in Op /\ OpTs[req[r].out.rec] >= OpTs[Cur(r)]

YieldInv ==
    /\ NewestInv /\ Accounted /\ RowsStand /\ LosersYield
    /\ \A r \in Req : Untold(r) /\ Sees(r)

\* What a request works on, and has not written in this very step, is unwritten.
LEMMA Unwritten ==
    ASSUME YieldInv, OneAtATime, NEW r \in Req,
           req[r].pc \notin {"idle", "find", "delta", "stamp", "notify"},
           ~(req[r].pc = "save" /\ req[r].out.status = "applied")
    PROVE  Cur(r) \notin written /\ log[Cur(r)] = None
  <1>1. log[Cur(r)] = None
    BY DEF YieldInv, Untold
  <1>2. \A s \in Req : ~InHand(s, Cur(r))
    BY DEF OneAtATime, InHand
  <1> QED BY <1>1, <1>2 DEF YieldInv, Accounted, Told

\* A step of the only request in flight.
LEMMA YieldSteps ==
    ASSUME YieldInv, OneAtATime, NewestInv', NEW r \in Req, req[r].pc # "idle", Elsewhere(r),
           Untold(r)', Sees(r)', Accounted', RowsStand', LosersYield'
    PROVE  YieldInv'
  <1>1. ASSUME NEW s \in Req, s # r PROVE Untold(s)' /\ Sees(s)'
    <2>1. req'[s].pc = "idle"
      BY <1>1 DEF OneAtATime, Elsewhere
    <2> QED BY <2>1 DEF Untold, Sees, At
  <1> QED BY <1>1 DEF YieldInv

\* A step that writes nothing and records nothing.
LEMMA YieldAside ==
    ASSUME YieldInv, OneAtATime, NewestInv', NEW r \in Req, req[r].pc # "idle", Elsewhere(r),
           Untold(r)', Sees(r)', UNCHANGED <<log, row, clock, written>>,
           \A o : InHand(r, o) => InHand(r, o)'
    PROVE  YieldInv'
  <1>1. Accounted'
    <2> SUFFICES ASSUME NEW o \in written PROVE Told(o) \/ \E s \in Req : InHand(s, o)'
      BY DEF Accounted, Told
    <2>1. CASE Told(o)
      BY <2>1
    <2>2. ASSUME NEW s \in Req, InHand(s, o) PROVE InHand(s, o)'
      <3>1. s = r
        BY <2>2 DEF OneAtATime, InHand
      <3> QED BY <2>2, <3>1
    <2> QED BY <2>1, <2>2 DEF YieldInv, Accounted
  <1>2. RowsStand' /\ LosersYield'
    BY DEF YieldInv, RowsStand, LosersYield
  <1> QED BY <1>1, <1>2, YieldSteps

LEMMA NotInHand ==
    ASSUME NEW r \in Req, req[r].pc \notin {"stamp", "notify", "save"}, NEW o
    PROVE  ~InHand(r, o)
  BY DEF InHand

\* What a request that keeps its operation takes along.
LEMMA UntoldKept ==
    ASSUME YieldInv, NEW r \in Req, req[r].pc \notin {"idle", "find", "delta"},
           UNCHANGED log, Cur(r)' = Cur(r), req'[r].pc # "refind"
    PROVE  Untold(r)'
  BY DEF YieldInv, Untold

LEMMA LetYield ==
    ASSUME NEW r \in Req, Lets(r)
    PROVE  Untold(r)' /\ Sees(r)'
  BY DEF Lets, Untold, Sees, At

LEMMA RefusedSees ==
    ASSUME NEW r \in Req, req'[r].pc = "save", NEW o, req'[r].out = Rejected(o)
    PROVE  Sees(r)'
  BY DEF Sees, At, Rejected

LEMMA AppliedSees ==
    ASSUME NEW r \in Req, req'[r].pc = "save", NEW o, NEW i, req'[r].out = Applied(o, i)
    PROVE  Sees(r)' /\ req'[r].out.status = "applied"
  BY DEF Sees, At, Applied

LEMMA YieldFind ==
    ASSUME YieldInv, OneAtATime, NewestInv', NEW r \in Req, FindOp(r)
    PROVE  YieldInv'
  <1>1. /\ IInv /\ Elsewhere(r) /\ req[r].pc = "find" /\ UNCHANGED <<log, row, clock, written>>
    BY Moves DEF YieldInv, NewestInv, FindOp, At, store, others
  <1>2. CASE Lets(r)
    BY <1>1, <1>2, LetYield, NotInHand, YieldAside
  <1>3. CASE ~Lets(r)
    <2>1. log[Cur(r)] = None
      BY <1>1, <1>3, ReturnGives DEF FindOp
    <2>2. Cur(r)' = Cur(r) /\ req'[r].pc \in {"save", "read"}
      <3>1. CASE Caught(r)
        BY <1>1, <3>1, CaughtGives DEF Keeps, Cur
      <3>2. CASE Finish(r, Rejected(Cur(r)))
        BY <1>1, <3>2, FinishGives DEF Keeps, Cur
      <3>3. CASE Goto(r, "read")
        BY <1>1, <3>3, GotoGives DEF Keeps, Cur
      <3> QED BY <2>1, <3>1, <3>2, <3>3 DEF FindOp, Dispatch
    <2>3. Untold(r)'
      BY <1>1, <2>1, <2>2 DEF Untold
    <2>4. Sees(r)'
      <3>1. CASE req'[r].pc = "save"
        <4>1. req'[r].out = Rejected(Cur(r))
          BY <1>1, <2>1, <3>1, CaughtGives, FinishGives, GotoGives DEF FindOp, Dispatch
        <4> QED BY <3>1, <4>1, RefusedSees
      <3>2. CASE req'[r].pc = "read"
        BY <3>2 DEF Sees, At
      <3> QED BY <2>2, <3>1, <3>2
    <2> QED BY <1>1, <2>3, <2>4, NotInHand, YieldAside
  <1> QED BY <1>2, <1>3

LEMMA YieldRead ==
    ASSUME YieldInv, OneAtATime, NewestInv', NEW r \in Req, Read(r)
    PROVE  YieldInv'
  <1>1. /\ IInv /\ Elsewhere(r) /\ req[r].pc = "read" /\ UNCHANGED <<log, row, clock, written>>
        /\ req'[r].pc \in {"save", "clock"} /\ Cur(r) \in Op /\ OpKind[Cur(r)] \in LwwKind
    <2>1. IInv /\ req[r].pc = "read" /\ Working(req[r])
      BY DEF YieldInv, NewestInv, Read, At, Working
    <2> QED BY <2>1, AtStep, Moves DEF Read, store, others
  <1>2. CASE Finish(r, Rejected(Cur(r)))
    <2>1. Cur(r)' = Cur(r) /\ req'[r].pc = "save" /\ req'[r].out = Rejected(Cur(r))
      BY <1>1, <1>2, FinishGives DEF Keeps, Cur
    <2> QED BY <1>1, <2>1, UntoldKept, RefusedSees, NotInHand, YieldAside
  <1>3. CASE req' = [req EXCEPT ![r].pc = "clock", ![r].found = row[KeyAt(r)]]
    <2>1. /\ req'[r].pc = "clock" /\ req'[r].found = row[KeyAt(r)]
          /\ req'[r].todo = req[r].todo /\ req'[r].user = req[r].user
      BY <1>1, <1>3 DEF IInv, TypeOK, Request
    <2>2. Cur(r)' = Cur(r) /\ KeyAt(r)' = KeyAt(r)
      BY <2>1 DEF Cur, Sub, KeyAt
    <2>3. Sees(r)'
      BY <1>1, <2>1, <2>2 DEF Sees, At
    <2> QED BY <1>1, <2>1, <2>2, <2>3, UntoldKept, NotInHand, YieldAside
  <1> QED BY <1>2, <1>3 DEF Read

LEMMA YieldDecide ==
    ASSUME YieldInv, OneAtATime, NewestInv', NEW r \in Req, Decide(r)
    PROVE  YieldInv'
  <1>1. /\ IInv /\ req[r].pc = "clock" /\ UNCHANGED <<log, row, clock, written>> /\ NewestInv
    BY DEF YieldInv, NewestInv, Decide, At, store, others
  <1>2. /\ Elsewhere(r) /\ Cur(r)' = Cur(r) /\ KeyAt(r) \in Keys /\ Cur(r) \in Op
        /\ req'[r].pc \in {"save", "own", "write"}
    BY <1>1, LwwFacts, Moves
  <1>3. Untold(r)'
    BY <1>1, <1>2, UntoldKept
  <1>4. Sees(r)'
    <2>1. CASE /\ req'[r].pc = "save" /\ req'[r].out.status = "conflict"
               /\ req'[r].out.rec = Version(req[r].found)
               /\ clock[KeyAt(r)] # 0 /\ OpTs[Cur(r)] <= clock[KeyAt(r)]
      <3>1. PICK k \in Keys, o \in Op : k = KeyAt(r) /\ o = Cur(r)
        BY <1>2
      <3>2. row[k] # None /\ row[k].by \in Op /\ req[r].found = row[k]
        BY <1>1, <2>1, <3>1 DEF YieldInv, RowsStand, Sees, At
      <3>3. req'[r].out.rec = row[k].by
        BY <2>1, <3>2
      <3>4. row[k].by # Rest /\ OpTs[row[k].by] >= clock[k]
        BY <1>1, <3>2 DEF NewestInv, RowsAbove
      <3>5. OpTs[row[k].by] >= OpTs[o]
        BY <1>1, <2>1, <3>1, <3>2, <3>4, Types
      <3> QED BY <1>2, <2>1, <3>1, <3>2, <3>3, <3>5 DEF Sees, At
    <2>2. CASE req'[r].pc = "save" /\ req'[r].out.status = "rejected"
      BY <2>2 DEF Sees, At
    <2>3. CASE req'[r].pc \in {"own", "write"}
      BY <2>3 DEF Sees, At
    <2> QED BY <1>1, <2>1, <2>2, <2>3, Decided
  <1> QED BY <1>1, <1>2, <1>3, <1>4, NotInHand, YieldAside

\* A step that writes the operation it works on, and has it in hand from then on.
LEMMA YieldWritten ==
    ASSUME YieldInv, OneAtATime, NewestInv', NEW r \in Req,
           req[r].pc \notin {"idle", "find", "delta", "stamp", "notify", "save"}, Elsewhere(r),
           written' = written \cup {Cur(r)}, UNCHANGED <<log, clock>>,
           Cur(r)' = Cur(r), InHand(r, Cur(r))', RowsStand', Sees(r)'
    PROVE  YieldInv'
  <1>1. Untold(r)'
    BY UntoldKept DEF InHand
  <1>2. Accounted'
    <2> SUFFICES ASSUME NEW o \in written' PROVE Told(o)' \/ \E s \in Req : InHand(s, o)'
      BY DEF Accounted
    <2>1. CASE o = Cur(r)
      BY <2>1 DEF InHand
    <2>2. CASE o \in written
      <3>1. \A s \in Req : ~InHand(s, o)
        BY NotInHand DEF OneAtATime, InHand
      <3> QED BY <2>2, <3>1 DEF YieldInv, Accounted, Told
    <2> QED BY <2>1, <2>2
  <1>3. LosersYield'
    <2>1. log[Cur(r)] = None
      BY DEF YieldInv, Untold
    <2> QED BY <2>1 DEF YieldInv, LosersYield
  <1> QED BY <1>1, <1>2, <1>3, YieldSteps

LEMMA YieldOwn ==
    ASSUME YieldInv, OneAtATime, NewestInv', NEW r \in Req, Own(r)
    PROVE  YieldInv'
  <1>1. /\ IInv /\ req[r].pc = "own" /\ UNCHANGED <<log, row, clock, written>>
    BY DEF YieldInv, NewestInv, Own, At, store, others
  <1>2. /\ Elsewhere(r) /\ Cur(r)' = Cur(r) /\ req'[r].pc \in {"save", "write"}
    BY <1>1, LwwFacts, Moves
  <1>3. Untold(r)'
    BY <1>1, <1>2, UntoldKept
  <1>4. Sees(r)'
    <2>1. CASE Finish(r, Rejected(Cur(r)))
      BY <1>1, <2>1, FinishGives, RefusedSees
    <2>2. CASE Goto(r, "write")
      BY <1>1, <2>2, GotoGives DEF Sees, At
    <2> QED BY <2>1, <2>2 DEF Own
  <1> QED BY <1>1, <1>2, <1>3, <1>4, NotInHand, YieldAside

LEMMA YieldWrite ==
    ASSUME YieldInv, OneAtATime, NewestInv', NEW r \in Req, Write(r)
    PROVE  YieldInv'
  <1>1. /\ IInv /\ req[r].pc = "write" /\ Elsewhere(r) /\ UNCHANGED <<log, clock>>
        /\ Cur(r)' = Cur(r) /\ KeyAt(r)' = KeyAt(r)
    <2>1. IInv
      BY DEF YieldInv, NewestInv
    <2> QED BY <2>1, WriteFacts, LwwFacts DEF At
  <1>2. CASE /\ UNCHANGED <<row, written>> /\ req'[r].pc = "save"
             /\ req'[r].out = Rejected(Cur(r))
    BY <1>1, <1>2, UntoldKept, RefusedSees, NotInHand, YieldAside
  <1>3. CASE /\ Rewrites(KeyAt(r), Sub(r), Cur(r)) /\ req'[r].pc = "stamp"
             /\ written' = written \cup {Cur(r)}
    <2>1. PICK k \in Keys, u \in User, o \in Op :
            k = KeyAt(r) /\ u = Sub(r) /\ o = Cur(r) /\ Rewrites(k, u, o)
      BY <1>1, <1>3, LwwFacts
    <2>2. /\ row'[k].by = o /\ row'[k] # None
          /\ \A j \in Keys : j # k => row'[j] = row[j]
      BY <1>1, <2>1, WrittenRow
    <2>3. RowsStand'
      BY <1>1, <2>2 DEF YieldInv, RowsStand
    <2>4. Sees(r)' /\ InHand(r, Cur(r))'
      BY <1>1, <1>3, <2>1, <2>2 DEF Sees, At, InHand
    <2> QED BY <1>1, <1>3, <2>3, <2>4, YieldWritten DEF InHand
  <1> QED BY <1>1, <1>2, <1>3, WriteFacts

LEMMA YieldStamp ==
    ASSUME YieldInv, OneAtATime, NewestInv', NEW r \in Req, Stamp(r)
    PROVE  YieldInv'
  <1>1. /\ IInv /\ req[r].pc = "stamp" /\ UNCHANGED <<log, row, written>>
        /\ clock' = [clock EXCEPT ![KeyAt(r)] = OpTs[Cur(r)]]
        /\ Finish(r, Applied(Cur(r), OpId[Cur(r)]))
    BY DEF YieldInv, NewestInv, Stamp, At, others
  <1>2. /\ Elsewhere(r) /\ Cur(r)' = Cur(r) /\ req'[r].pc = "save"
        /\ req'[r].out = Applied(Cur(r), OpId[Cur(r)]) /\ KeyAt(r) \in Keys
    BY <1>1, LwwFacts, FinishGives
  <1>3. Untold(r)' /\ Sees(r)' /\ req'[r].out.status = "applied"
    BY <1>1, <1>2, UntoldKept, AppliedSees
  <1>4. Accounted'
    <2> SUFFICES ASSUME NEW o \in written PROVE Told(o)' \/ \E s \in Req : InHand(s, o)'
      BY <1>1 DEF Accounted
    <2>1. CASE Told(o)
      BY <1>1, <2>1 DEF Told
    <2>2. ASSUME NEW s \in Req, InHand(s, o) PROVE InHand(r, o)'
      <3>1. s = r
        BY <1>1, <2>2 DEF OneAtATime, InHand
      <3> QED BY <1>2, <1>3, <2>2, <3>1 DEF InHand
    <2> QED BY <2>1, <2>2 DEF YieldInv, Accounted
  <1>5. RowsStand'
    <2>1. \A k \in Keys : clock'[k] = clock[k] \/ k = KeyAt(r)
      BY <1>1 DEF IInv, TypeOK
    <2>2. row[KeyAt(r)] # None
      BY <1>1 DEF YieldInv, Sees, At
    <2> QED BY <1>1, <2>1, <2>2 DEF YieldInv, RowsStand
  <1>6. LosersYield'
    BY <1>1 DEF YieldInv, LosersYield
  <1> QED BY <1>1, <1>2, <1>3, <1>4, <1>5, <1>6, YieldSteps

\* The steps of a conversation or a message that write nothing answer no conflict.
LEMMA PlainAnswers ==
    ASSUME IInv, NEW r \in Req,
           \/ ReadConversation(r) \/ StartPost(r) \/ StartFind(r) \/ StartCreate(r)
           \/ StartRaced(r) \/ ReadMessage(r) \/ Member(r) \/ AddMessage(r) \/ Notify(r)
    PROVE  Sees(r)'
  <1> DEFINE Plain == req'[r].pc = "save" =>
                        \E o, i : req'[r].out = Rejected(o) \/ req'[r].out = Applied(o, i)
  <1>1. CASE ReadConversation(r) \/ StartFind(r) \/ StartCreate(r) \/ StartRaced(r)
    <2>1. Plain
      BY <1>1, GotoGives, FinishGives, CaughtGives
         DEF ReadConversation, StartFind, StartCreate, StartRaced
    <2> QED BY <1>1, <2>1, Moves, RefusedSees, AppliedSees DEF Sees, At
  <1>2. CASE StartPost(r)
    <2>1. Plain
      <3>1. CASE Caught(r)
        BY <3>1, CaughtGives
      <3>2. CASE \E x : req' = [req EXCEPT ![r].pc = "pair", ![r].peer = x]
        BY <3>2 DEF IInv, TypeOK, Request
      <3> QED BY <1>2, <3>1, <3>2 DEF StartPost
    <2> QED BY <1>2, <2>1, Moves, RefusedSees, AppliedSees DEF Sees, At
  <1>3. CASE ReadMessage(r) \/ Member(r) \/ AddMessage(r) \/ Notify(r)
    <2>1. Plain
      BY <1>3, GotoGives, FinishGives, CaughtGives DEF ReadMessage, Member, AddMessage, Notify
    <2> QED BY <1>3, <2>1, Moves, RefusedSees, AppliedSees DEF Sees, At
  <1> QED BY <1>1, <1>2, <1>3

LEMMA YieldTalk ==
    ASSUME YieldInv, OneAtATime, NewestInv', NEW r \in Req,
           ApplyConversation(r) \/ ReadMessage(r) \/ Member(r) \/ AddMessage(r)
    PROVE  YieldInv'
  <1>1. /\ IInv /\ UNCHANGED <<log, row, clock>>
        /\ req[r].pc \notin {"idle", "find", "delta", "stamp", "notify", "save"}
    BY DEF YieldInv, NewestInv, ApplyConversation, ReadConversation, StartPost, StartFind,
           StartCreate, StartRaced, ReadMessage, Member, AddMessage, At, store, others
  <1>2. /\ Elsewhere(r) /\ ~Lets(r) /\ req'[r].pc # "refind"
    BY <1>1, Moves DEF ApplyConversation, Lets
  <1>3. Same(r)
    <2>1. Handler(r)
      BY DEF Handler, ApplyMessage
    <2> QED BY <1>2, <2>1, Lasting DEF YieldInv, NewestInv
  <1>4. Cur(r)' = Cur(r) /\ Sees(r)' /\ Untold(r)'
    <2>1. Cur(r)' = Cur(r)
      BY <1>3 DEF Same, Cur
    <2> QED BY <1>1, <1>2, <2>1, PlainAnswers, UntoldKept DEF ApplyConversation
  <1>5. CASE written' = written
    BY <1>1, <1>2, <1>4, <1>5, NotInHand, YieldAside
  <1>6. CASE written' # written
    <2>1. written' = written \cup {Cur(r)} /\ InHand(r, Cur(r))'
      <3>1. CASE StartCreate(r)
        <4>1. /\ written' = written \cup {Cur(r)}
              /\ Finish(r, Applied(Cur(r), OpId[Cur(r)]))
          BY <1>6, <3>1 DEF StartCreate
        <4>2. req'[r].pc = "save" /\ req'[r].out.status = "applied"
          BY <1>1, <4>1, FinishGives, AppliedSees
        <4> QED BY <4>1, <4>2 DEF InHand
      <3>2. CASE AddMessage(r)
        <4>1. written' = written \cup {Cur(r)} /\ Goto(r, "notify")
          BY <1>6, <3>2 DEF AddMessage
        <4> QED BY <1>1, <4>1, GotoGives DEF InHand
      <3> QED BY <1>6, <3>1, <3>2 DEF ApplyConversation, ReadConversation, StartPost, StartFind,
                                      StartRaced, ReadMessage, Member, others
    <2>2. RowsStand'
      BY <1>1 DEF YieldInv, RowsStand
    <2> QED BY <1>1, <1>2, <1>4, <2>1, <2>2, YieldWritten DEF InHand
  <1> QED BY <1>5, <1>6

LEMMA YieldNotify ==
    ASSUME YieldInv, OneAtATime, NewestInv', NEW r \in Req, Notify(r)
    PROVE  YieldInv'
  <1>1. /\ IInv /\ req[r].pc = "notify" /\ UNCHANGED <<log, row, clock, written>>
        /\ Finish(r, Applied(Cur(r), OpId[Cur(r)]))
    BY DEF YieldInv, NewestInv, Notify, At, others
  <1>2. /\ Elsewhere(r) /\ Cur(r)' = Cur(r) /\ req'[r].pc = "save"
        /\ req'[r].out = Applied(Cur(r), OpId[Cur(r)])
    BY <1>1, FinishGives DEF Keeps, Cur
  <1>3. Untold(r)' /\ Sees(r)' /\ req'[r].out.status = "applied"
    BY <1>1, <1>2, UntoldKept, AppliedSees
  <1>4. \A o : InHand(r, o) => InHand(r, o)'
    BY <1>2, <1>3 DEF InHand
  <1> QED BY <1>1, <1>2, <1>3, <1>4, YieldAside

LEMMA YieldSave ==
    ASSUME YieldInv, OneAtATime, NewestInv', NEW r \in Req, Save(r)
    PROVE  YieldInv'
  <1>1. /\ IInv /\ req[r].pc = "save" /\ UNCHANGED <<row, clock, written>>
        /\ Working(req[r]) /\ log[Cur(r)] = None
    BY DEF YieldInv, NewestInv, Save, At, others, Working, Untold
  <1>2. /\ log' = [log EXCEPT ![Cur(r)] = [user |-> Sub(r), res |-> req[r].out]]
        /\ Return(r, req[r].out)
    BY <1>1 DEF Save
  <1>3. PICK o \in Op, u \in User, x \in Result : o = Cur(r) /\ u = Sub(r) /\ x = req[r].out
    BY <1>1, AtStep DEF Shaped
  <1>4. /\ log'[o].res = x /\ log'[o] # None
        /\ \A p \in Op : p # o => log'[p] = log[p]
    <2>1. log' = [log EXCEPT ![o] = [user |-> u, res |-> x]]
      BY <1>2, <1>3
    <2>2. [user |-> u, res |-> x] \in Entry
      BY DEF Entry
    <2> QED BY <1>1, <2>1, <2>2, NoneIsNoValue DEF IInv, TypeOK
  <1>5. Elsewhere(r) /\ Untold(r)' /\ Sees(r)'
    BY <1>1, <1>2, ReturnGives, LetYield
  <1>6. Accounted'
    <2> SUFFICES ASSUME NEW p \in written PROVE Told(p)'
      BY <1>1 DEF Accounted
    <2>1. p \in Op
      BY <1>1 DEF IInv, TypeOK
    <2>2. CASE Told(p)
      <3>1. p # o
        BY <1>1, <1>3, <2>2 DEF Told
      <3> QED BY <1>4, <2>1, <2>2, <3>1 DEF Told
    <2>3. ASSUME NEW s \in Req, InHand(s, p) PROVE Told(p)'
      <3>1. s = r
        BY <1>1, <2>3 DEF OneAtATime, InHand
      <3>2. p = o /\ x.status = "applied"
        BY <1>1, <1>3, <2>3, <3>1 DEF InHand
      <3> QED BY <1>4, <3>2 DEF Told
    <2> QED BY <2>2, <2>3 DEF YieldInv, Accounted
  <1>7. LosersYield'
    <2> SUFFICES ASSUME NEW p \in Op, log'[p] # None, log'[p].res.status # "applied"
                 PROVE  /\ p \notin written
                        /\ log'[p].res.status = "conflict" =>
                              log'[p].res.rec \in Op /\ OpTs[log'[p].res.rec] >= OpTs[p]
      BY <1>1 DEF LosersYield
    <2>1. CASE p = o
      <3>1. p \notin written
        BY <1>1, <1>3, <1>4, <2>1, Unwritten
      <3> QED BY <1>1, <1>3, <1>4, <2>1, <3>1 DEF YieldInv, Sees, At
    <2>2. CASE p # o
      BY <1>4, <2>2 DEF YieldInv, LosersYield
    <2> QED BY <2>1, <2>2
  <1>8. RowsStand'
    BY <1>1 DEF YieldInv, RowsStand
  <1> QED BY <1>1, <1>5, <1>6, <1>7, <1>8, YieldSteps

LEMMA YieldReply ==
    ASSUME YieldInv, OneAtATime, NewestInv', NEW r \in Req, Reply(r)
    PROVE  YieldInv'
  <1>1. /\ IInv /\ req[r].pc = "delta" /\ UNCHANGED <<log, row, clock, written>>
    BY DEF YieldInv, NewestInv, Reply, At, store
  <1>2. Elsewhere(r) /\ Lets(r)
    BY <1>1, Moves
  <1> QED BY <1>1, <1>2, LetYield, NotInHand, YieldAside

LEMMA YieldEnvironment ==
    ASSUME YieldInv, OneAtATime, NewestInv', Undisturbed, Undisturbed', Environment
    PROVE  YieldInv'
  <1>1. IInv
    BY DEF YieldInv, NewestInv
  <1>2. ASSUME NEW r \in Req, NEW u \in User, NEW ops \in Batches, Receive(r, u, ops)
        PROVE  YieldInv'
    <2>1. /\ Elsewhere(r) /\ req'[r].pc = "find" /\ req[r].pc = "idle"
          /\ UNCHANGED <<log, row, clock, written>>
      BY <1>1, <1>2 DEF Receive, At, Slot, Elsewhere, store, IInv, TypeOK
    <2>2. \A s \in Req : Untold(s)' /\ Sees(s)'
      <3>1. Untold(r)' /\ Sees(r)'
        BY <2>1, LetYield DEF Lets
      <3>2. ASSUME NEW s \in Req, s # r PROVE Untold(s)' /\ Sees(s)'
        <4>1. req'[s] = req[s]
          BY <2>1, <3>2 DEF Elsewhere
        <4>2. Cur(s)' = Cur(s) /\ KeyAt(s)' = KeyAt(s) /\ Untold(s) /\ Sees(s)
          BY <4>1 DEF Cur, Sub, KeyAt, YieldInv
        <4> QED BY <2>1, <4>1, <4>2 DEF Untold, Sees, At
      <3> QED BY <3>1, <3>2
    <2>3. \A s \in Req, o \in Op : InHand(s, o) => InHand(s, o)'
      BY <2>1 DEF InHand, Elsewhere, Cur
    <2>4. Accounted' /\ RowsStand' /\ LosersYield'
      BY <1>1, <2>1, <2>3 DEF YieldInv, Accounted, Told, RowsStand, LosersYield, IInv, TypeOK
    <2> QED BY <2>2, <2>4 DEF YieldInv
  <1>3. CASE Tick
    <2>1. UNCHANGED <<log, row, clock, written, req>>
      BY <1>3 DEF Tick, store
    <2> QED BY <2>1 DEF YieldInv, Accounted, Told, InHand, RowsStand, LosersYield, Untold, Sees,
                        At, Cur, Sub, KeyAt
  <1>4. ASSUME NEW r \in Req, Fail(r) PROVE FALSE
    BY <1>1, <1>4 DEF Fail, Undisturbed, IInv, TypeOK
  <1>5. ~Crash
    BY <1>1 DEF Crash, Undisturbed, IInv, TypeOK
  <1>6. ASSUME NEW k \in Keys, NEW u \in User, RestWrite(k, u) PROVE FALSE
    BY <1>1, <1>6 DEF RestWrite, Undisturbed, IInv, TypeOK
  <1>7. ASSUME NEW i \in Id, NEW u \in User, RestDelete(i, u) PROVE FALSE
    BY <1>1, <1>7 DEF RestDelete, Undisturbed, IInv, TypeOK
  <1> QED BY <1>2, <1>3, <1>4, <1>5, <1>6, <1>7 DEF Environment

LEMMA YieldNext ==
    YieldInv /\ OneAtATime /\ Undisturbed /\ Undisturbed' /\ [Next]_vars => YieldInv'
  <1> SUFFICES ASSUME YieldInv, OneAtATime, Undisturbed, Undisturbed', [Next]_vars
               PROVE  YieldInv'
    OBVIOUS
  <1>1. NewestInv'
    BY NewestNext DEF YieldInv
  <1>2. ASSUME NEW r \in Req, Handler(r) PROVE YieldInv'
    <2>1. ~Refind(r)
      BY DEF YieldInv, Untold, Refind, At
    <2> QED BY <1>1, <1>2, <2>1, Steps, YieldFind, YieldRead, YieldDecide, YieldOwn, YieldWrite,
               YieldStamp, YieldTalk, YieldNotify, YieldSave, YieldReply DEF ApplyConversation
  <1>3. CASE UNCHANGED vars
    BY <1>1, <1>3 DEF vars, YieldInv, Accounted, Told, InHand, RowsStand, LosersYield, Untold,
                      Sees, At, Cur, Sub, KeyAt
  <1> QED BY <1>1, <1>2, <1>3, YieldEnvironment DEF Next

\* Of requests that do not overlap, while nothing fails and nobody uses the REST
\* endpoints, one that answers "conflict" or "rejected" has left no trace of its
\* operation, and a conflict shows a version that is at least as new (decideLww,
\* applyOne).  A call that throws between the write and its stamp breaks it.
THEOREM LosersYieldAlone == Spec /\ []OneAtATime /\ []Undisturbed => []LosersYield
  <1>1. Init => YieldInv
    <2> SUFFICES ASSUME Init PROVE YieldInv
      OBVIOUS
    <2>1. \A r \in Req : Untold(r) /\ Sees(r)
      BY DEF Init, Idle, Slot, Untold, Sees, At
    <2> QED BY <2>1, NewestInit DEF Init, YieldInv, Accounted, RowsStand, LosersYield
  <1>2. YieldInv => LosersYield
    BY DEF YieldInv
  <1> QED BY <1>1, <1>2, YieldNext, PTL DEF Spec

============================================================================
